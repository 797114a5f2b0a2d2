----------------------------- MODULE AsidProofs -----------------------------
(***************************************************************************)
(* Proofs about Asid, for any number of cores, processes, tables and       *)
(* ASIDs, and any number of rollovers.                                     *)
(***************************************************************************)
EXTENDS Asid, TLAPS

ExecTail == {"exec", "got", "read", "switched", "field", "flushed"}
ExitTail == {"exit", "left", "released"}

\* p is the process that core c runs, or the one it is about to switch to.
On(c, p) == cur[c] = p \/ (load[c].pending /\ load[c].proc = p)

(***************************************************************************)
(* The pool: generations only grow, and within one the ASIDs are unique.   *)
(***************************************************************************)
PoolInv ==
    /\ AsidUnique
    /\ \A p \in Process : asid_generation[p] <= generation
    /\ \A c \in Core : cpu_asid_gen[c] <= generation

(***************************************************************************)
(* Tables: each belongs to one process, as its current or its old one.     *)
(***************************************************************************)
TableInv ==
    /\ \A p \in Process : (user_pgd[p] # Null) <=> (pc[p] \in {"user"} \cup ExecTail)
    /\ \A p \in Process : (old_pgd[p] # Null) <=> (pc[p] \in ExecTail \cup ExitTail)
    /\ \A p \in Process : user_pgd[p] \in live \cup {Null} /\ old_pgd[p] \in live \cup {Null}
    /\ \A p, q \in Process :
          /\ user_pgd[p] = user_pgd[q] /\ user_pgd[p] # Null => p = q
          /\ old_pgd[p] = old_pgd[q] /\ old_pgd[p] # Null => p = q
          /\ user_pgd[p] = old_pgd[q] => user_pgd[p] = Null

(***************************************************************************)
(* Cores: a process is on one core at a time, and the base of a core names *)
(* a table of the process it runs.                                         *)
(***************************************************************************)
LoadInv(c) ==
    IF load[c].pending
    THEN /\ load[c].proc = NoProcess => load[c].base = KernelBase
         /\ load[c].proc # NoProcess =>
               /\ load[c].base.pgd = user_pgd[load[c].proc]
               /\ load[c].base.pgd # Null => load[c].base.asid = asid[load[c].proc]
               /\ pc[load[c].proc] # "zombie"
    ELSE load[c] = NoLoad

BaseInv(c, p) ==
    /\ pc[p] \in {"user", "switched", "field", "flushed"} => ttbr0[c].pgd = user_pgd[p]
    /\ pc[p] \in {"exec", "got", "read"} => ttbr0[c].pgd \in {user_pgd[p], old_pgd[p]}
    /\ pc[p] = "exit" => ttbr0[c].pgd \in {Null, old_pgd[p]}
    /\ pc[p] \in {"left", "released", "zombie"} => ttbr0[c].pgd = Null

CoreInv ==
    /\ \A c, d \in Core, p \in Process : On(c, p) /\ On(d, p) => c = d
    /\ \A c \in Core, p \in Process : On(c, p) => pc[p] # "free"
    /\ \A c \in Core : LoadInv(c)
    /\ \A c \in Core : cur[c] = NoProcess => ttbr0[c].pgd = Null
    /\ \A c \in Core, p \in Process : cur[c] = p => BaseInv(c, p)

Inv == TypeOK /\ PoolInv /\ TableInv /\ CoreInv

\* A core that has caught up with the generation.
Current(c) == cpu_asid_gen[c] = generation

(***************************************************************************)
(* Lemmas about the pool.                                                  *)
(***************************************************************************)
LEMMA ConstFacts ==
    /\ N \in Nat \ {0} /\ MaxAsid \in Nat \ {0} /\ MaxGeneration \in Nat \ {0}
    /\ Null \notin Pgd /\ NoProcess \notin Process
    /\ 0 \in 0..MaxAsid /\ 1 \in 0..MaxAsid
  BY AsidAssumption

\* asid_get_active leaves the caller with a valid ASID and keeps the pool sound.
LEMMA GetActive ==
    ASSUME TypeOK, PoolInv, NEW c \in Core, NEW p \in Process, asid_get_active(c, p)
    PROVE  /\ generation' \in 1..MaxGeneration /\ bitmap' \in SUBSET (0..MaxAsid)
           /\ cpu_asid_gen' \in [Core -> 0..MaxGeneration]
           /\ asid' \in [Process -> 0..MaxAsid]
           /\ asid_generation' \in [Process -> 0..MaxGeneration]
           /\ tlb' \in [Core -> SUBSET BaseType]
           /\ PoolInv'
           /\ Valid(p)' /\ Current(c)'
           /\ \A q \in Process \ {p} : asid'[q] = asid[q]
  <1>1. CASE KeepAsid(c, p)
    <2>1. /\ generation' = generation /\ bitmap' = bitmap
          /\ asid' = asid /\ asid_generation' = asid_generation
          /\ cpu_asid_gen' = [cpu_asid_gen EXCEPT ![c] = generation]
          /\ Valid(p)
      BY <1>1, Zenon DEF KeepAsid
    <2>2. tlb' \in [Core -> SUBSET BaseType]
      BY <1>1, Zenon DEF KeepAsid, CaughtUp, TypeOK
    <2> QED
      BY <2>1, <2>2, Zenon DEF TypeOK, PoolInv, AsidUnique, Valid, Current
  <1>2. CASE NewAsid(c, p)
    <2>1. PICK a \in 0..MaxAsid : IsFirstFree(a) /\ bitmap' = bitmap \cup {a} /\ SetAsid(p, a, generation)
      BY <1>2, Zenon DEF NewAsid
    <2>2. /\ a \notin bitmap /\ a # 0
          /\ asid' = [asid EXCEPT ![p] = a]
          /\ asid_generation' = [asid_generation EXCEPT ![p] = generation]
          /\ generation' = generation
          /\ cpu_asid_gen' = [cpu_asid_gen EXCEPT ![c] = generation]
      BY <1>2, <2>1, Zenon DEF IsFirstFree, SetAsid, NewAsid, PoolInv, AsidUnique
    <2>3. tlb' \in [Core -> SUBSET BaseType]
      BY <1>2, Zenon DEF NewAsid, CaughtUp, TypeOK
    <2>4. AsidUnique'
      BY <2>1, <2>2, Zenon DEF TypeOK, PoolInv, AsidUnique, Valid
    <2>5. /\ generation \in 1..MaxGeneration /\ generation \in 0..MaxGeneration
          /\ asid \in [Process -> 0..MaxAsid]
          /\ asid_generation \in [Process -> 0..MaxGeneration]
          /\ cpu_asid_gen \in [Core -> 0..MaxGeneration]
          /\ bitmap' \in SUBSET (0..MaxAsid)
      BY <2>1, ConstFacts DEF TypeOK
    <2>6. /\ \A q \in Process : asid_generation'[q] <= generation'
          /\ \A d \in Core : cpu_asid_gen'[d] <= generation'
      BY <2>2, <2>5 DEF PoolInv
    <2>7. Valid(p)' /\ Current(c)'
      BY <2>2, <2>5, Zenon DEF Valid, Current
    <2> QED
      BY <2>1, <2>2, <2>3, <2>4, <2>5, <2>6, <2>7, Zenon DEF PoolInv
  <1>3. CASE Rollover(c, p)
    <2>1. /\ generation' = generation + 1 /\ generation < MaxGeneration
          /\ bitmap' = {0, 1}
          /\ asid' = [asid EXCEPT ![p] = 1]
          /\ asid_generation' = [asid_generation EXCEPT ![p] = generation + 1]
          /\ cpu_asid_gen' = [cpu_asid_gen EXCEPT ![c] = generation + 1]
          /\ tlb' = [d \in Core |-> {}]
      BY <1>3, Zenon DEF Rollover, SetAsid
    <2>2. generation \in 1..MaxGeneration /\ generation' \in 1..MaxGeneration
      BY <2>1, ConstFacts DEF TypeOK
    <2>3. \A q \in Process : q # p => ~Valid(q)'
      BY <2>1, <2>2 DEF TypeOK, PoolInv, Valid
    <2>4. AsidUnique'
      BY <2>1, <2>3, Zenon DEF TypeOK, AsidUnique, Valid
    <2> QED
      BY <2>1, <2>2, <2>4, ConstFacts DEF TypeOK, PoolInv, Valid, Current
  <1> QED
    BY <1>1, <1>2, <1>3, Zenon DEF asid_get_active

(***************************************************************************)
(* Each action preserves the invariant.                                    *)
(***************************************************************************)
\* A step of the process that core c runs, on its own tables and on the base of
\* that core, need only be looked at there.
LEMMA OwnStep ==
    ASSUME Inv, NEW c \in Core, NEW p \in Process, Running(c, p),
           cur' = cur, load' = load, TypeOK', PoolInv', TableInv',
           \A q \in Process \ {p} :
              pc'[q] = pc[q] /\ user_pgd'[q] = user_pgd[q] /\ asid'[q] = asid[q],
           \A q \in Process \ {p} : old_pgd'[q] = old_pgd[q],
           \A d \in Core \ {c} : ttbr0'[d] = ttbr0[d],
           pc'[p] # "free", BaseInv(c, p)'
    PROVE  Inv'
  <1>1. \A d \in Core, q \in Process : On(d, q)' <=> On(d, q)
    BY Zenon DEF On
  <1>2. \A d \in Core \ {c} : ~On(d, p)
    BY Zenon DEF Inv, CoreInv, On, Running
  <1>3. \A d \in Core : LoadInv(d)'
    <2>1. SUFFICES ASSUME NEW d \in Core PROVE LoadInv(d)'
      OBVIOUS
    <2>2. LoadInv(d)
      BY Zenon DEF Inv, CoreInv
    <2>3. load[d].pending => load[d].proc # p
      BY <1>2, Zenon DEF Running, On
    <2>4. load[d].proc \in Process \cup {NoProcess}
      BY Zenon DEF Inv, TypeOK
    <2> QED
      BY <2>2, <2>3, <2>4, Zenon DEF LoadInv
  <1>4. \A d \in Core, q \in Process : cur[d] = q => BaseInv(d, q)'
    <2>1. SUFFICES ASSUME NEW d \in Core, NEW q \in Process, cur[d] = q
                   PROVE  BaseInv(d, q)'
      OBVIOUS
    <2>2. CASE d = c
      <3>1. q = p
        BY <2>1, <2>2, Zenon DEF Running
      <3> QED
        BY <2>2, <3>1, Zenon
    <2>3. CASE d # c
      <3>1. q # p /\ BaseInv(d, q)
        BY <2>1, <2>3, <1>2, Zenon DEF On, Inv, CoreInv
      <3> QED
        BY <2>3, <3>1, Zenon DEF BaseInv
    <2> QED
      BY <2>2, <2>3, Zenon
  <1>5. \A d \in Core : cur[d] = NoProcess => ttbr0'[d].pgd = Null
    BY ConstFacts DEF Running, Inv, CoreInv
  <1> QED
    BY <1>1, <1>3, <1>4, <1>5, Zenon DEF Inv, CoreInv

\* Preserved by the swap of the tables in process_exec.
LEMMA ExecPgdInv ==
    ASSUME Inv, NEW c \in Core, NEW p \in Process, NEW g \in Pgd, ExecPgd(c, p, g)
    PROVE  Inv'
  <1>1. /\ At(c, p, "user") /\ g \notin live /\ live' = live \cup {g}
        /\ old_pgd' = [old_pgd EXCEPT ![p] = user_pgd[p]]
        /\ user_pgd' = [user_pgd EXCEPT ![p] = g]
        /\ pc' = [pc EXCEPT ![p] = "exec"]
    BY Zenon DEF ExecPgd, GoTo
  <1>2. UNCHANGED <<poolVars, asidVars, reg, cur, load, ttbr0, tlb>>
    BY Zenon DEF ExecPgd, coreVars
  <1>3. TypeOK'
    BY <1>1, <1>2, Zenon DEF Inv, TypeOK, poolVars, asidVars, Places
  <1>4. PoolInv'
    BY <1>2, Zenon DEF Inv, PoolInv, AsidUnique, Valid, poolVars, asidVars
  <1>5. TableInv'
    BY <1>1, <1>2, ConstFacts DEF Inv, TypeOK, TableInv, ExecTail, ExitTail, At
  <1>6. BaseInv(c, p)'
    BY <1>1, <1>2, Zenon DEF Inv, TypeOK, CoreInv, BaseInv, At, Running
  <1>7. /\ Running(c, p) /\ pc'[p] # "free"
        /\ \A q \in Process \ {p} :
              pc'[q] = pc[q] /\ user_pgd'[q] = user_pgd[q] /\ asid'[q] = asid[q]
        /\ \A q \in Process \ {p} : old_pgd'[q] = old_pgd[q]
        /\ \A d \in Core \ {c} : ttbr0'[d] = ttbr0[d]
    BY <1>1, <1>2, Zenon DEF At, asidVars, Inv, TypeOK
  <1> QED
    BY <1>2, <1>3, <1>4, <1>5, <1>6, <1>7, OwnStep, Zenon

\* Preserved by the asid_get_active of process_exec.
LEMMA ExecGetInv ==
    ASSUME Inv, NEW c \in Core, NEW p \in Process, ExecGet(c, p)
    PROVE  Inv'
  <1>1. /\ At(c, p, "exec") /\ asid_get_active(c, p)
        /\ pc' = [pc EXCEPT ![p] = "got"]
    BY Zenon DEF ExecGet, GoTo
  <1>2. UNCHANGED <<user_pgd, old_pgd, reg, live, cur, load, ttbr0>>
    BY Zenon DEF ExecGet, coreVars
  <1>3. TypeOK'
    BY <1>1, <1>2, GetActive, Zenon DEF Inv, TypeOK, Places
  <1>4. PoolInv'
    BY <1>1, GetActive, Zenon DEF Inv
  <1>5. TableInv'
    BY <1>1, <1>2, ConstFacts DEF Inv, TypeOK, TableInv, ExecTail, ExitTail, At
  <1>6. BaseInv(c, p)'
    BY <1>1, <1>2, Zenon DEF Inv, TypeOK, CoreInv, BaseInv, At, Running
  <1>7. /\ Running(c, p) /\ pc'[p] # "free"
        /\ \A q \in Process \ {p} :
              pc'[q] = pc[q] /\ user_pgd'[q] = user_pgd[q] /\ asid'[q] = asid[q]
        /\ \A q \in Process \ {p} : old_pgd'[q] = old_pgd[q]
        /\ \A d \in Core \ {c} : ttbr0'[d] = ttbr0[d]
    BY <1>1, <1>2, GetActive, Zenon DEF At, asidVars, Inv, TypeOK
  <1> QED
    BY <1>2, <1>3, <1>4, <1>5, <1>6, <1>7, OwnStep, Zenon

\* Preserved by the reads of p->asid in process_exec.
LEMMA ExecReadInv ==
    ASSUME Inv, NEW c \in Core, NEW p \in Process, ExecRead(c, p)
    PROVE  Inv'
  <1>1. /\ \/ At(c, p, "got") /\ pc' = [pc EXCEPT ![p] = "read"]
           \/ At(c, p, "switched") /\ pc' = [pc EXCEPT ![p] = "field"]
        /\ reg' = [reg EXCEPT ![p] = asid[p]]
    BY Zenon DEF ExecRead, GoTo
  <1>2. UNCHANGED <<poolVars, asidVars, user_pgd, old_pgd, live, cur, load, ttbr0, tlb>>
    BY Zenon DEF ExecRead, coreVars
  <1>3. TypeOK'
    BY <1>1, <1>2, Zenon DEF Inv, TypeOK, poolVars, asidVars, Places
  <1>4. PoolInv'
    BY <1>2, Zenon DEF Inv, PoolInv, AsidUnique, Valid, poolVars, asidVars
  <1>5. TableInv'
    <2>1. CASE pc' = [pc EXCEPT ![p] = "read"] /\ At(c, p, "got")
      BY <1>2, <2>1, ConstFacts, Zenon DEF Inv, TypeOK, TableInv, ExecTail, ExitTail, At
    <2>2. CASE pc' = [pc EXCEPT ![p] = "field"] /\ At(c, p, "switched")
      BY <1>2, <2>2, ConstFacts DEF Inv, TypeOK, TableInv, ExecTail, ExitTail, At
    <2> QED
      BY <1>1, <2>1, <2>2, Zenon
  <1>6. BaseInv(c, p)'
    BY <1>1, <1>2 DEF Inv, TypeOK, CoreInv, BaseInv, At, Running
  <1>7. /\ Running(c, p) /\ pc'[p] # "free"
        /\ \A q \in Process \ {p} :
              pc'[q] = pc[q] /\ user_pgd'[q] = user_pgd[q] /\ asid'[q] = asid[q]
        /\ \A q \in Process \ {p} : old_pgd'[q] = old_pgd[q]
        /\ \A d \in Core \ {c} : ttbr0'[d] = ttbr0[d]
    BY <1>1, <1>2, Zenon DEF At, asidVars, Inv, TypeOK
  <1> QED
    BY <1>2, <1>3, <1>4, <1>5, <1>6, <1>7, OwnStep, Zenon

\* Preserved by mmu_switch_user.
LEMMA ExecSwitchInv ==
    ASSUME Inv, NEW c \in Core, NEW p \in Process, ExecSwitch(c, p)
    PROVE  Inv'
  <1>1. /\ At(c, p, "read") /\ pc' = [pc EXCEPT ![p] = "switched"]
        /\ ttbr0' = [ttbr0 EXCEPT ![c] = Base(user_pgd[p], reg[p])]
        /\ reg' = [reg EXCEPT ![p] = 0]
    BY Zenon DEF ExecSwitch, GoTo
  <1>2. UNCHANGED <<poolVars, asidVars, user_pgd, old_pgd, live, cur, load, tlb>>
    BY Zenon DEF ExecSwitch, coreVars
  <1>3. TypeOK'
    BY <1>1, <1>2, ConstFacts, Zenon DEF Inv, TypeOK, poolVars, asidVars, Places, Base, BaseType
  <1>4. PoolInv'
    BY <1>2, Zenon DEF Inv, PoolInv, AsidUnique, Valid, poolVars, asidVars
  <1>5. TableInv'
    BY <1>1, <1>2, ConstFacts, Zenon DEF Inv, TypeOK, TableInv, ExecTail, ExitTail, At
  <1>6. BaseInv(c, p)'
    BY <1>1, <1>2, Zenon DEF Inv, TypeOK, CoreInv, BaseInv, At, Running, Base
  <1>7. /\ Running(c, p) /\ pc'[p] # "free"
        /\ \A q \in Process \ {p} :
              pc'[q] = pc[q] /\ user_pgd'[q] = user_pgd[q] /\ asid'[q] = asid[q]
        /\ \A q \in Process \ {p} : old_pgd'[q] = old_pgd[q]
        /\ \A d \in Core \ {c} : ttbr0'[d] = ttbr0[d]
    BY <1>1, <1>2, Zenon DEF At, asidVars, Inv, TypeOK
  <1> QED
    BY <1>2, <1>3, <1>4, <1>5, <1>6, <1>7, OwnStep, Zenon

\* Preserved by the flush of process_exec.
LEMMA ExecFlushInv ==
    ASSUME Inv, NEW c \in Core, NEW p \in Process, ExecFlush(c, p)
    PROVE  Inv'
  <1>1. /\ At(c, p, "field") /\ pc' = [pc EXCEPT ![p] = "flushed"]
        /\ tlb' = FlushAsid(tlb, reg[p])
        /\ reg' = [reg EXCEPT ![p] = 0]
    BY Zenon DEF ExecFlush, GoTo
  <1>2. UNCHANGED <<poolVars, asidVars, user_pgd, old_pgd, live, cur, load, ttbr0>>
    BY Zenon DEF ExecFlush, coreVars
  <1>3. TypeOK'
    BY <1>1, <1>2, ConstFacts, Zenon DEF Inv, TypeOK, poolVars, asidVars, Places, FlushAsid
  <1>4. PoolInv'
    BY <1>2, Zenon DEF Inv, PoolInv, AsidUnique, Valid, poolVars, asidVars
  <1>5. TableInv'
    BY <1>1, <1>2, ConstFacts, Zenon DEF Inv, TypeOK, TableInv, ExecTail, ExitTail, At
  <1>6. BaseInv(c, p)'
    BY <1>1, <1>2, Zenon DEF Inv, TypeOK, CoreInv, BaseInv, At, Running
  <1>7. /\ Running(c, p) /\ pc'[p] # "free"
        /\ \A q \in Process \ {p} :
              pc'[q] = pc[q] /\ user_pgd'[q] = user_pgd[q] /\ asid'[q] = asid[q]
        /\ \A q \in Process \ {p} : old_pgd'[q] = old_pgd[q]
        /\ \A d \in Core \ {c} : ttbr0'[d] = ttbr0[d]
    BY <1>1, <1>2, Zenon DEF At, asidVars, Inv, TypeOK
  <1> QED
    BY <1>2, <1>3, <1>4, <1>5, <1>6, <1>7, OwnStep, Zenon

\* What mmu_destroy_user_pgd leaves in the TLBs is well typed.
LEMMA DestroyTypes ==
    ASSUME TypeOK, NEW g \in Pgd \cup {Null}, Destroy(g)
    PROVE  live' \in SUBSET Pgd /\ tlb' \in [Core -> SUBSET BaseType]
  <1>1. ASSUME NEW d \in Core, NEW e \in tlb[d]
        PROVE  (IF e.pgd = g THEN Base(Null, e.asid) ELSE e) \in BaseType
    <2>1. e \in BaseType
      BY <1>1, Zenon DEF TypeOK
    <2> QED
      BY <2>1, Zenon DEF BaseType, Base
  <1> QED
    BY <1>1 DEF Destroy, TypeOK

\* Preserved by the mmu_destroy_user_pgd of process_exec.
LEMMA ExecDestroyInv ==
    ASSUME Inv, NEW c \in Core, NEW p \in Process, ExecDestroy(c, p)
    PROVE  Inv'
  <1>1. /\ At(c, p, "flushed") /\ pc' = [pc EXCEPT ![p] = "user"]
        /\ Destroy(old_pgd[p])
        /\ old_pgd' = [old_pgd EXCEPT ![p] = Null]
    BY Zenon DEF ExecDestroy, GoTo
  <1>2. UNCHANGED <<poolVars, asidVars, user_pgd, reg, cur, load, ttbr0>>
    BY Zenon DEF ExecDestroy, coreVars
  <1>3. TypeOK'
    <2>1. live' \in SUBSET Pgd /\ tlb' \in [Core -> SUBSET BaseType]
      <3>1. old_pgd[p] \in Pgd \cup {Null}
        BY Zenon DEF Inv, TypeOK
      <3> QED
        BY <1>1, <3>1, DestroyTypes, Zenon DEF Inv
    <2> QED
      BY <1>1, <1>2, <2>1, Zenon DEF Inv, TypeOK, poolVars, asidVars, Places
  <1>4. PoolInv'
    BY <1>2, Zenon DEF Inv, PoolInv, AsidUnique, Valid, poolVars, asidVars
  <1>5. TableInv'
    BY <1>1, <1>2, ConstFacts DEF Inv, TypeOK, TableInv, ExecTail, ExitTail, At, Destroy
  <1>6. BaseInv(c, p)'
    BY <1>1, <1>2, Zenon DEF Inv, TypeOK, CoreInv, BaseInv, At, Running
  <1>7. /\ Running(c, p) /\ pc'[p] # "free"
        /\ \A q \in Process \ {p} :
              pc'[q] = pc[q] /\ user_pgd'[q] = user_pgd[q] /\ asid'[q] = asid[q]
        /\ \A q \in Process \ {p} : old_pgd'[q] = old_pgd[q]
        /\ \A d \in Core \ {c} : ttbr0'[d] = ttbr0[d]
    BY <1>1, <1>2, Zenon DEF At, asidVars, Inv, TypeOK
  <1> QED
    BY <1>2, <1>3, <1>4, <1>5, <1>6, <1>7, OwnStep, Zenon

\* Preserved by the start of the tail of process_exit.
LEMMA ExitPgdInv ==
    ASSUME Inv, NEW c \in Core, NEW p \in Process, ExitPgd(c, p)
    PROVE  Inv'
  <1>1. /\ At(c, p, "user") /\ pc' = [pc EXCEPT ![p] = "exit"]
        /\ old_pgd' = [old_pgd EXCEPT ![p] = user_pgd[p]]
        /\ user_pgd' = [user_pgd EXCEPT ![p] = Null]
    BY Zenon DEF ExitPgd, GoTo
  <1>2. UNCHANGED <<poolVars, asidVars, reg, live, cur, load, ttbr0, tlb>>
    BY Zenon DEF ExitPgd, coreVars
  <1>3. TypeOK'
    BY <1>1, <1>2, Zenon DEF Inv, TypeOK, poolVars, asidVars, Places
  <1>4. PoolInv'
    BY <1>2, Zenon DEF Inv, PoolInv, AsidUnique, Valid, poolVars, asidVars
  <1>5. TableInv'
    BY <1>1, <1>2, ConstFacts DEF Inv, TypeOK, TableInv, ExecTail, ExitTail, At
  <1>6. BaseInv(c, p)'
    BY <1>1, <1>2, Zenon DEF Inv, TypeOK, CoreInv, BaseInv, At, Running
  <1>7. /\ Running(c, p) /\ pc'[p] # "free"
        /\ \A q \in Process \ {p} :
              pc'[q] = pc[q] /\ user_pgd'[q] = user_pgd[q] /\ asid'[q] = asid[q]
        /\ \A q \in Process \ {p} : old_pgd'[q] = old_pgd[q]
        /\ \A d \in Core \ {c} : ttbr0'[d] = ttbr0[d]
    BY <1>1, <1>2, Zenon DEF At, asidVars, Inv, TypeOK
  <1> QED
    BY <1>2, <1>3, <1>4, <1>5, <1>6, <1>7, OwnStep, Zenon

\* Preserved by mmu_leave_user.
LEMMA LeaveUserInv ==
    ASSUME Inv, NEW c \in Core, NEW p \in Process, mmu_leave_user(c, p)
    PROVE  Inv'
  <1>1. /\ At(c, p, "exit") /\ pc' = [pc EXCEPT ![p] = "left"]
        /\ ttbr0' = [ttbr0 EXCEPT ![c] = KernelBase]
    BY Zenon DEF mmu_leave_user, GoTo
  <1>2. UNCHANGED <<poolVars, asidVars, user_pgd, old_pgd, reg, live, cur, load, tlb>>
    BY Zenon DEF mmu_leave_user, coreVars
  <1>3. TypeOK'
    BY <1>1, <1>2, ConstFacts, Zenon DEF Inv, TypeOK, poolVars, asidVars, Places, KernelBase, Base, BaseType
  <1>4. PoolInv'
    BY <1>2, Zenon DEF Inv, PoolInv, AsidUnique, Valid, poolVars, asidVars
  <1>5. TableInv'
    BY <1>1, <1>2, ConstFacts, Zenon DEF Inv, TypeOK, TableInv, ExecTail, ExitTail, At
  <1>6. BaseInv(c, p)'
    BY <1>1, <1>2, Zenon DEF Inv, TypeOK, CoreInv, BaseInv, At, Running, KernelBase, Base
  <1>7. /\ Running(c, p) /\ pc'[p] # "free"
        /\ \A q \in Process \ {p} :
              pc'[q] = pc[q] /\ user_pgd'[q] = user_pgd[q] /\ asid'[q] = asid[q]
        /\ \A q \in Process \ {p} : old_pgd'[q] = old_pgd[q]
        /\ \A d \in Core \ {c} : ttbr0'[d] = ttbr0[d]
    BY <1>1, <1>2, Zenon DEF At, asidVars, Inv, TypeOK
  <1> QED
    BY <1>2, <1>3, <1>4, <1>5, <1>6, <1>7, OwnStep, Zenon

\* Preserved by asid_free.
LEMMA AsidFreeInv ==
    ASSUME Inv, NEW c \in Core, NEW p \in Process, asid_free(c, p)
    PROVE  Inv'
  <1>1. /\ At(c, p, "left") /\ pc' = [pc EXCEPT ![p] = "released"]
        /\ asid' = [asid EXCEPT ![p] = 0]
        /\ asid_generation' = [asid_generation EXCEPT ![p] = 0]
        /\ \/ bitmap' = bitmap \ {asid[p]} /\ tlb' = FlushAsid(tlb, asid[p]) /\ Valid(p)
           \/ bitmap' = bitmap /\ tlb' = tlb
    BY Zenon DEF asid_free, GoTo, SetAsid
  <1>2. UNCHANGED <<generation, cpu_asid_gen, user_pgd, old_pgd, reg, live, cur, load, ttbr0>>
    BY Zenon DEF asid_free, coreVars
  <1>3. TypeOK'
    <2>1. tlb' \in [Core -> SUBSET BaseType]
      BY <1>1 DEF Inv, TypeOK, FlushAsid
    <2>2. bitmap' \in SUBSET (0..MaxAsid)
      BY <1>1, Zenon DEF Inv, TypeOK
    <2>3. asid' \in [Process -> 0..MaxAsid] /\ asid_generation' \in [Process -> 0..MaxGeneration]
      BY <1>1, ConstFacts DEF Inv, TypeOK
    <2> QED
      BY <1>1, <1>2, <2>1, <2>2, <2>3, Zenon DEF Inv, TypeOK, Places
  <1>4. PoolInv'
    BY <1>1, <1>2 DEF Inv, TypeOK, PoolInv, AsidUnique, Valid
  <1>5. TableInv'
    BY <1>1, <1>2, ConstFacts DEF Inv, TypeOK, TableInv, ExecTail, ExitTail, At
  <1>6. BaseInv(c, p)'
    BY <1>1, <1>2, Zenon DEF Inv, TypeOK, CoreInv, BaseInv, At, Running
  <1>7. /\ Running(c, p) /\ pc'[p] # "free"
        /\ \A q \in Process \ {p} :
              pc'[q] = pc[q] /\ user_pgd'[q] = user_pgd[q] /\ asid'[q] = asid[q]
        /\ \A q \in Process \ {p} : old_pgd'[q] = old_pgd[q]
        /\ \A d \in Core \ {c} : ttbr0'[d] = ttbr0[d]
    BY <1>1, <1>2, Zenon DEF At, asidVars, Inv, TypeOK
  <1> QED
    BY <1>2, <1>3, <1>4, <1>5, <1>6, <1>7, OwnStep, Zenon

\* Preserved by the mmu_destroy_user_pgd of process_exit.
LEMMA ExitDestroyInv ==
    ASSUME Inv, NEW c \in Core, NEW p \in Process, ExitDestroy(c, p)
    PROVE  Inv'
  <1>1. /\ At(c, p, "released") /\ pc' = [pc EXCEPT ![p] = "zombie"]
        /\ Destroy(old_pgd[p])
        /\ old_pgd' = [old_pgd EXCEPT ![p] = Null]
    BY Zenon DEF ExitDestroy, GoTo
  <1>2. UNCHANGED <<poolVars, asidVars, user_pgd, reg, cur, load, ttbr0>>
    BY Zenon DEF ExitDestroy, coreVars
  <1>3. TypeOK'
    <2>1. live' \in SUBSET Pgd /\ tlb' \in [Core -> SUBSET BaseType]
      <3>1. old_pgd[p] \in Pgd \cup {Null}
        BY Zenon DEF Inv, TypeOK
      <3> QED
        BY <1>1, <3>1, DestroyTypes, Zenon DEF Inv
    <2> QED
      BY <1>1, <1>2, <2>1, Zenon DEF Inv, TypeOK, poolVars, asidVars, Places
  <1>4. PoolInv'
    BY <1>2, Zenon DEF Inv, PoolInv, AsidUnique, Valid, poolVars, asidVars
  <1>5. TableInv'
    BY <1>1, <1>2, ConstFacts DEF Inv, TypeOK, TableInv, ExecTail, ExitTail, At, Destroy
  <1>6. BaseInv(c, p)'
    BY <1>1, <1>2, Zenon DEF Inv, TypeOK, CoreInv, BaseInv, At, Running
  <1>7. /\ Running(c, p) /\ pc'[p] # "free"
        /\ \A q \in Process \ {p} :
              pc'[q] = pc[q] /\ user_pgd'[q] = user_pgd[q] /\ asid'[q] = asid[q]
        /\ \A q \in Process \ {p} : old_pgd'[q] = old_pgd[q]
        /\ \A d \in Core \ {c} : ttbr0'[d] = ttbr0[d]
    BY <1>1, <1>2, Zenon DEF At, asidVars, Inv, TypeOK
  <1> QED
    BY <1>2, <1>3, <1>4, <1>5, <1>6, <1>7, OwnStep, Zenon

\* Preserved by the creation of a process.
LEMMA CreateInv ==
    ASSUME Inv, NEW p \in Process, NEW g \in Pgd, Create(p, g)
    PROVE  Inv'
  <1>1. /\ g \notin live /\ live' = live \cup {g}
        /\ user_pgd' = [user_pgd EXCEPT ![p] = g]
        /\ asid' = [asid EXCEPT ![p] = 0]
        /\ asid_generation' = [asid_generation EXCEPT ![p] = 0]
        /\ pc' = [pc EXCEPT ![p] = "user"]
        /\ pc[p] \in {"free", "zombie"}
    BY Zenon DEF Create, GoTo, SetAsid
  <1>2. UNCHANGED <<poolVars, old_pgd, reg, cur, load, ttbr0, tlb>>
    BY Zenon DEF Create, coreVars
  <1>3. \A d \in Core : ~On(d, p)
    BY Zenon DEF Create, On, OnACore
  <1>4. TypeOK'
    BY <1>1, <1>2, ConstFacts DEF Inv, TypeOK, poolVars, Places
  <1>5. PoolInv'
    BY <1>1, <1>2 DEF Inv, TypeOK, PoolInv, AsidUnique, Valid, poolVars
  <1>6. TableInv'
    BY <1>1, <1>2, ConstFacts DEF Inv, TypeOK, TableInv, ExecTail, ExitTail
  <1>7. CoreInv'
    <2>1. \A d \in Core, q \in Process : On(d, q)' <=> On(d, q)
      BY <1>2, Zenon DEF On
    <2>2. \A d \in Core : LoadInv(d)'
      <3>1. SUFFICES ASSUME NEW d \in Core PROVE LoadInv(d)'
        OBVIOUS
      <3>2. /\ LoadInv(d)
            /\ load[d].pending => load[d].proc # p
            /\ load[d].proc \in Process \cup {NoProcess}
        BY <1>3, Zenon DEF Inv, CoreInv, TypeOK, On
      <3> QED
        BY <1>1, <1>2, <3>2, Zenon DEF LoadInv, Inv, TypeOK
    <2>3. \A d \in Core, q \in Process : cur[d] = q => BaseInv(d, q)'
      <3>1. SUFFICES ASSUME NEW d \in Core, NEW q \in Process, cur[d] = q
                     PROVE  BaseInv(d, q)'
        OBVIOUS
      <3>2. q # p /\ BaseInv(d, q)
        BY <1>3, <3>1, Zenon DEF On, Inv, CoreInv
      <3> QED
        BY <1>1, <1>2, <3>2, Zenon DEF BaseInv, Inv, TypeOK
    <2> QED
      BY <1>1, <1>2, <1>3, <2>1, <2>2, <2>3, Zenon DEF Inv, CoreInv, TypeOK
  <1> QED
    BY <1>4, <1>5, <1>6, <1>7, Zenon DEF Inv

\* What task_ttbr0_for computes, and what it leaves alone.
LEMMA DispatchFacts ==
    ASSUME Inv, NEW c \in Core, NEW p \in Process, Dispatch(c, p)
    PROVE  /\ ~load[c].pending /\ pc[p] \notin {"free", "zombie"}
           /\ \A d \in Core \ {c} : ~On(d, p)
           /\ UNCHANGED <<user_pgd, old_pgd, reg, pc, live, cur, ttbr0>>
           /\ \A d \in Core \ {c} : load'[d] = load[d]
           /\ load'[c].pending = TRUE /\ load'[c].proc = p
           /\ load'[c].base.pgd = user_pgd[p]
           /\ user_pgd[p] # Null => load'[c].base.asid = asid'[p]
           /\ \A q \in Process \ {p} : asid'[q] = asid[q]
           /\ PoolInv' /\ TypeOK'
  <1>1. /\ ~load[c].pending /\ pc[p] \notin {"free", "zombie"}
        /\ OnACore(p) => cur[c] = p
        /\ UNCHANGED <<user_pgd, old_pgd, reg, pc, live, cur, ttbr0>>
    BY Zenon DEF Dispatch, procVars
  <1>2. \A d \in Core \ {c} : ~On(d, p)
    BY <1>1, Zenon DEF On, OnACore, Inv, CoreInv
  <1> DEFINE b == IF user_pgd[p] # Null THEN Base(user_pgd[p], asid'[p]) ELSE KernelBase
  <1>3. load' = [load EXCEPT ![c] = [proc |-> p, pending |-> TRUE, base |-> b]]
    BY Zenon DEF Dispatch
  <1>4. /\ \A q \in Process \ {p} : asid'[q] = asid[q]
        /\ PoolInv'
        /\ generation' \in 1..MaxGeneration /\ bitmap' \in SUBSET (0..MaxAsid)
        /\ cpu_asid_gen' \in [Core -> 0..MaxGeneration]
        /\ asid' \in [Process -> 0..MaxAsid]
        /\ asid_generation' \in [Process -> 0..MaxGeneration]
        /\ tlb' \in [Core -> SUBSET BaseType]
    <2>1. CASE user_pgd[p] # Null
      BY <2>1, GetActive, Zenon DEF Dispatch, Inv
    <2>2. CASE user_pgd[p] = Null
      <3>1. UNCHANGED <<poolVars, asidVars, tlb>>
        BY <2>2, Zenon DEF Dispatch
      <3> QED
        BY <3>1, Zenon DEF Inv, TypeOK, PoolInv, AsidUnique, Valid, poolVars, asidVars
    <2> QED
      BY <2>1, <2>2, Zenon
  <1>5. /\ b \in BaseType /\ b.pgd = user_pgd[p]
        /\ user_pgd[p] # Null => b.asid = asid'[p]
    BY <1>4, ConstFacts, Zenon DEF Inv, TypeOK, BaseType, Base, KernelBase
  <1> HIDE DEF b
  <1>6. load' \in [Core -> [proc : Process \cup {NoProcess}, base : BaseType, pending : BOOLEAN]]
    BY <1>3, <1>5, Zenon DEF Inv, TypeOK
  <1>7. TypeOK'
    BY <1>1, <1>4, <1>6, Zenon DEF Inv, TypeOK
  <1> QED
    BY <1>1, <1>2, <1>3, <1>4, <1>5, <1>7, Zenon DEF Inv, TypeOK

\* Preserved by the choice of a process in sched_schedule.
LEMMA DispatchInv ==
    ASSUME Inv, NEW c \in Core, NEW p \in Process, Dispatch(c, p)
    PROVE  Inv'
  <1>1. /\ ~load[c].pending /\ pc[p] \notin {"free", "zombie"}
        /\ \A d \in Core \ {c} : ~On(d, p)
        /\ UNCHANGED <<user_pgd, old_pgd, reg, pc, live, cur, ttbr0>>
        /\ \A d \in Core \ {c} : load'[d] = load[d]
        /\ load'[c].pending = TRUE /\ load'[c].proc = p
        /\ load'[c].base.pgd = user_pgd[p]
        /\ user_pgd[p] # Null => load'[c].base.asid = asid'[p]
        /\ \A q \in Process \ {p} : asid'[q] = asid[q]
        /\ PoolInv' /\ TypeOK'
    BY DispatchFacts, Zenon
  <1>2. TableInv'
    BY <1>1, SMTT(30) DEF Inv, TableInv
  <1>3. \A d \in Core, q \in Process : On(d, q)' => On(d, q) \/ (d = c /\ q = p)
    <2>1. SUFFICES ASSUME NEW d \in Core, NEW q \in Process, On(d, q)'
                   PROVE  On(d, q) \/ (d = c /\ q = p)
      OBVIOUS
    <2>2. CASE d = c
      BY <1>1, <2>1, <2>2, Zenon DEF On
    <2>3. CASE d # c
      <3>1. load'[d] = load[d] /\ cur' = cur
        BY <1>1, <2>3, Zenon
      <3> QED
        BY <2>1, <3>1, Zenon DEF On
    <2> QED
      BY <2>2, <2>3, Zenon
  <1>4. \A d \in Core : LoadInv(d)'
    <2>1. SUFFICES ASSUME NEW d \in Core PROVE LoadInv(d)'
      OBVIOUS
    <2>2. CASE d = c
      BY <1>1, <2>2, ConstFacts, Zenon DEF LoadInv
    <2>3. CASE d # c
      <3>1. LoadInv(d)
        BY Zenon DEF Inv, CoreInv
      <3>2. load[d].pending => load[d].proc # p
        BY <1>1, <2>3, Zenon DEF On
      <3>3. load[d].proc \in Process \cup {NoProcess}
        BY Zenon DEF Inv, TypeOK
      <3>4. load'[d] = load[d] /\ UNCHANGED <<user_pgd, pc>>
        BY <1>1, <2>3, Zenon
      <3>5. load[d].pending /\ load[d].proc # NoProcess => asid'[load[d].proc] = asid[load[d].proc]
        BY <1>1, <3>2, <3>3, Zenon
      <3> QED
        BY <3>1, <3>4, <3>5, Zenon DEF LoadInv
    <2> QED
      BY <2>2, <2>3, Zenon
  <1>5. \A d \in Core, q \in Process : cur'[d] = q => BaseInv(d, q)'
    BY <1>1, ZenonT(30) DEF Inv, CoreInv, BaseInv
  <1>6. \A d, e \in Core, q \in Process : On(d, q)' /\ On(e, q)' => d = e
    <2>1. \A d, e \in Core, q \in Process : On(d, q) /\ On(e, q) => d = e
      BY Zenon DEF Inv, CoreInv
    <2>2. \A d \in Core : On(d, p) => d = c
      BY <1>1, Zenon
    <2> QED
      BY <1>3, <2>1, <2>2, Zenon
  <1>7. CoreInv'
    BY <1>1, <1>3, <1>4, <1>5, <1>6, Zenon DEF Inv, CoreInv
  <1> QED
    BY <1>1, <1>2, <1>7, Zenon DEF Inv

\* Preserved by the choice of a kernel task in sched_schedule.
LEMMA DispatchKernelInv ==
    ASSUME Inv, NEW c \in Core, DispatchKernel(c)
    PROVE  Inv'
  <1>1. /\ ~load[c].pending
        /\ load' = [load EXCEPT ![c] = [proc |-> NoProcess, base |-> KernelBase, pending |-> TRUE]]
        /\ UNCHANGED <<poolVars, asidVars, user_pgd, old_pgd, reg, pc, live, cur, ttbr0, tlb>>
    BY Zenon DEF DispatchKernel, procVars
  <1>2. /\ \A d \in Core \ {c} : load'[d] = load[d]
        /\ load'[c].pending = TRUE /\ load'[c].proc = NoProcess /\ load'[c].base = KernelBase
    BY <1>1, Zenon DEF Inv, TypeOK
  <1>3. TypeOK'
    <2>1. KernelBase \in BaseType
      BY ConstFacts, Zenon DEF KernelBase, Base, BaseType
    <2>2. load' \in [Core -> [proc : Process \cup {NoProcess}, base : BaseType, pending : BOOLEAN]]
      BY <1>1, <2>1, Zenon DEF Inv, TypeOK
    <2> QED
      BY <1>1, <2>2, Zenon DEF Inv, TypeOK, poolVars, asidVars
  <1>4. PoolInv' /\ TableInv'
    BY <1>1, Zenon DEF Inv, PoolInv, TableInv, AsidUnique, Valid, poolVars, asidVars
  <1>5. \A d \in Core, q \in Process : On(d, q)' => On(d, q)
    BY <1>1, <1>2, ConstFacts, Zenon DEF On
  <1>6. \A d \in Core : LoadInv(d)'
    <2>1. SUFFICES ASSUME NEW d \in Core PROVE LoadInv(d)'
      OBVIOUS
    <2>2. CASE d = c
      BY <1>2, <2>2, Zenon DEF LoadInv
    <2>3. CASE d # c
      <3>1. load'[d] = load[d] /\ LoadInv(d)
        BY <1>2, <2>3, Zenon DEF Inv, CoreInv
      <3> QED
        BY <1>1, <3>1, Zenon DEF LoadInv, asidVars
    <2> QED
      BY <2>2, <2>3, Zenon
  <1>7. \A d \in Core, q \in Process : cur'[d] = q => BaseInv(d, q)'
    BY <1>1, ZenonT(30) DEF Inv, CoreInv, BaseInv
  <1>8. CoreInv'
    BY <1>1, <1>5, <1>6, <1>7, Zenon DEF Inv, CoreInv
  <1> QED
    BY <1>3, <1>4, <1>8, Zenon DEF Inv

\* Preserved by the msr of sched_schedule and the context switch.
LEMMA LoadStepInv ==
    ASSUME Inv, NEW c \in Core, Load(c)
    PROVE  Inv'
  <1>1. /\ load[c].pending
        /\ cur' = [cur EXCEPT ![c] = load[c].proc]
        /\ ttbr0' = [ttbr0 EXCEPT ![c] = load[c].base]
        /\ load' = [load EXCEPT ![c] = NoLoad]
        /\ UNCHANGED <<poolVars, asidVars, user_pgd, old_pgd, reg, pc, live, tlb>>
    BY Zenon DEF Load, procVars
  <1>2. load[c] \in [proc : Process \cup {NoProcess}, base : BaseType, pending : BOOLEAN]
    BY Zenon DEF Inv, TypeOK
  <1>3. NoLoad.pending = FALSE
    BY Zenon DEF NoLoad
  <1>4. TypeOK'
    <2>1. NoLoad \in [proc : Process \cup {NoProcess}, base : BaseType, pending : BOOLEAN]
      BY ConstFacts, Zenon DEF NoLoad, KernelBase, Base, BaseType
    <2>2. load' \in [Core -> [proc : Process \cup {NoProcess}, base : BaseType, pending : BOOLEAN]]
      BY <1>1, <2>1, Zenon DEF Inv, TypeOK
    <2>3. cur' \in [Core -> Process \cup {NoProcess}] /\ ttbr0' \in [Core -> BaseType]
      BY <1>1, <1>2, Zenon DEF Inv, TypeOK
    <2> QED
      BY <1>1, <2>2, <2>3, Zenon DEF Inv, TypeOK, poolVars, asidVars
  <1>5. PoolInv' /\ TableInv'
    BY <1>1, Zenon DEF Inv, PoolInv, TableInv, AsidUnique, Valid, poolVars, asidVars
  <1>6. \A d \in Core, q \in Process : On(d, q)' => On(d, q)
    BY <1>1, <1>3, Zenon DEF On, Inv, TypeOK
  <1>7. \A d \in Core : LoadInv(d)'
    <2>1. SUFFICES ASSUME NEW d \in Core PROVE LoadInv(d)'
      OBVIOUS
    <2>2. CASE d = c
      BY <1>1, <1>3, <2>2, Zenon DEF LoadInv, Inv, TypeOK
    <2>3. CASE d # c
      <3>1. load'[d] = load[d] /\ LoadInv(d)
        BY <1>1, <2>3, Zenon DEF Inv, TypeOK, CoreInv
      <3> QED
        BY <1>1, <3>1, Zenon DEF LoadInv, asidVars
    <2> QED
      BY <2>2, <2>3, Zenon
  <1>8. \A d \in Core, q \in Process : cur'[d] = q => BaseInv(d, q)'
    <2>1. SUFFICES ASSUME NEW d \in Core, NEW q \in Process, cur'[d] = q
                   PROVE  BaseInv(d, q)'
      OBVIOUS
    <2>2. CASE d = c
      <3>1. q = load[c].proc /\ q # NoProcess /\ ttbr0'[c] = load[c].base
        BY <1>1, <2>1, <2>2, ConstFacts, Zenon DEF Inv, TypeOK
      <3>2. ttbr0'[c].pgd = user_pgd[q] /\ pc[q] \notin {"free", "zombie"}
        BY <1>1, <3>1, Zenon DEF Inv, CoreInv, LoadInv, On
      <3>3. pc[q] \in ExitTail => user_pgd[q] = Null
        BY Zenon DEF Inv, TableInv, ExitTail, ExecTail
      <3>4. UNCHANGED <<user_pgd, old_pgd, pc>>
        BY <1>1, Zenon
      <3> QED
        BY <2>2, <3>2, <3>3, <3>4, Zenon DEF BaseInv, ExitTail
    <2>3. CASE d # c
      <3>1. cur[d] = q /\ ttbr0'[d] = ttbr0[d]
        BY <1>1, <2>1, <2>3, Zenon DEF Inv, TypeOK
      <3>2. BaseInv(d, q)
        BY <3>1, Zenon DEF Inv, CoreInv
      <3> QED
        BY <1>1, <3>1, <3>2, Zenon DEF BaseInv
    <2> QED
      BY <2>2, <2>3, Zenon
  <1>9. \A d \in Core : cur'[d] = NoProcess => ttbr0'[d].pgd = Null
    <2>1. load[c].proc = NoProcess => load[c].base.pgd = Null
      BY <1>1, SMTT(30) DEF Inv, CoreInv, LoadInv, KernelBase, Base
    <2> QED
      BY <1>1, <2>1, Zenon DEF Inv, TypeOK, CoreInv
  <1>10. CoreInv'
    BY <1>1, <1>6, <1>7, <1>8, <1>9, Zenon DEF Inv, CoreInv
  <1> QED
    BY <1>4, <1>5, <1>10, Zenon DEF Inv

\* Preserved by a walk of the hardware.
LEMMA FillInv ==
    ASSUME Inv, NEW c \in Core, Fill(c)
    PROVE  Inv'
  <1>1. /\ tlb' = [tlb EXCEPT ![c] = @ \cup {ttbr0[c]}]
        /\ UNCHANGED <<poolVars, asidVars, user_pgd, old_pgd, reg, pc, live, cur, load, ttbr0>>
    BY Zenon DEF Fill, procVars, coreVars
  <1>2. TypeOK'
    BY <1>1, SMTT(30) DEF Inv, TypeOK, poolVars, asidVars
  <1>3. PoolInv' /\ TableInv'
    BY <1>1, Zenon DEF Inv, PoolInv, TableInv, AsidUnique, Valid, poolVars, asidVars
  <1>4. CoreInv'
    <2>1. \A d \in Core, q \in Process : On(d, q)' <=> On(d, q)
      BY <1>1, Zenon DEF On
    <2>2. \A d \in Core : LoadInv(d) => LoadInv(d)'
      BY <1>1, Zenon DEF LoadInv, asidVars
    <2>3. \A d \in Core, q \in Process : BaseInv(d, q) => BaseInv(d, q)'
      BY <1>1 DEF BaseInv
    <2> QED
      BY <1>1, <2>1, <2>2, <2>3, Zenon DEF Inv, CoreInv
  <1> QED
    BY <1>2, <1>3, <1>4, Zenon DEF Inv

(***************************************************************************)
(* The theorems.                                                           *)
(***************************************************************************)
LEMMA InitInv == Init => Inv
  <1> SUFFICES ASSUME Init PROVE Inv
    OBVIOUS
  <1>1. TypeOK
    BY ConstFacts, SMTT(30) DEF Init, TypeOK, Places, BaseType, KernelBase, Base, NoLoad
  <1>2. PoolInv
    BY SMTT(30) DEF Init, PoolInv, AsidUnique, Valid
  <1>3. TableInv
    BY Zenon DEF Init, TableInv, ExecTail, ExitTail
  <1>4. CoreInv
    BY ConstFacts, Zenon DEF Init, CoreInv, On, LoadInv, BaseInv, NoLoad, KernelBase, Base
  <1> QED
    BY <1>1, <1>2, <1>3, <1>4, Zenon DEF Inv

LEMMA NextInv == Inv /\ [Next]_vars => Inv'
  <1> SUFFICES ASSUME Inv, [Next]_vars PROVE Inv'
    OBVIOUS
  <1>1. ASSUME NEW p \in Process, NEW g \in Pgd, Create(p, g) PROVE Inv'
    BY <1>1, CreateInv, Zenon
  <1>2. ASSUME NEW c \in Core, DispatchKernel(c) \/ Load(c) \/ Fill(c) PROVE Inv'
    BY <1>2, DispatchKernelInv, LoadStepInv, FillInv, Zenon
  <1>3. ASSUME NEW c \in Core, NEW p \in Process,
               \/ Dispatch(c, p) \/ ExecGet(c, p) \/ ExecRead(c, p) \/ ExecSwitch(c, p)
               \/ ExecFlush(c, p) \/ ExecDestroy(c, p) \/ ExitPgd(c, p)
               \/ mmu_leave_user(c, p) \/ asid_free(c, p) \/ ExitDestroy(c, p)
        PROVE  Inv'
    BY <1>3, DispatchInv, ExecGetInv, ExecReadInv, ExecSwitchInv, ExecFlushInv, ExecDestroyInv,
       ExitPgdInv, LeaveUserInv, AsidFreeInv, ExitDestroyInv, Zenon
  <1>4. ASSUME NEW c \in Core, NEW p \in Process, NEW g \in Pgd, ExecPgd(c, p, g) PROVE Inv'
    BY <1>4, ExecPgdInv, Zenon
  <1>5. CASE UNCHANGED vars
    <2>1. TypeOK'
      BY <1>5, Zenon DEF vars, Inv, TypeOK
    <2>2. PoolInv'
      BY <1>5, Zenon DEF vars, Inv, PoolInv, AsidUnique, Valid
    <2>3. TableInv'
      BY <1>5, Zenon DEF vars, Inv, TableInv
    <2>4. CoreInv'
      <3>1. \A c \in Core : LoadInv(c)' <=> LoadInv(c)
        BY <1>5, Zenon DEF vars, LoadInv
      <3>2. \A c \in Core, p \in Process : BaseInv(c, p)' <=> BaseInv(c, p)
        BY <1>5, SMTT(60) DEF vars, BaseInv
      <3>3. \A c \in Core, p \in Process : On(c, p)' <=> On(c, p)
        BY <1>5, Zenon DEF vars, On
      <3>4. UNCHANGED <<cur, pc, ttbr0>>
        BY <1>5, Zenon DEF vars
      <3> QED
        BY <3>1, <3>2, <3>3, <3>4, Zenon DEF Inv, CoreInv
    <2> QED
      BY <2>1, <2>2, <2>3, <2>4, Zenon DEF Inv
  <1> QED
    BY <1>1, <1>2, <1>3, <1>4, <1>5, Zenon DEF Next

\* The structural invariant holds of every behaviour.
THEOREM Invariance == Spec => []Inv
  BY InitInv, NextInv, PTL DEF Spec

\* Every variable keeps its type, through any number of rollovers.
THEOREM TypeCorrect == Spec => []TypeOK
  <1>1. Inv => TypeOK
    BY Zenon DEF Inv
  <1> QED
    BY Invariance, <1>1, PTL

\* The ASIDs of the current generation are unique.
THEOREM AsidsAreUnique == Spec => []AsidUnique
  <1>1. Inv => AsidUnique
    BY Zenon DEF Inv, PoolInv
  <1> QED
    BY Invariance, <1>1, PTL

\* No core's translation base names a destroyed table.
THEOREM TablesNeverDangle == Spec => []NoDanglingTables
  <1>1. Inv => NoDanglingTables
    <2>1. SUFFICES ASSUME Inv, NEW c \in Core PROVE ttbr0[c].pgd \in live \cup {Null}
      BY Zenon DEF NoDanglingTables
    <2>2. CASE cur[c] = NoProcess
      BY <2>1, <2>2, Zenon DEF Inv, CoreInv
    <2>3. CASE cur[c] # NoProcess
      <3>1. PICK p \in Process : cur[c] = p
        BY <2>1, <2>3, Zenon DEF Inv, TypeOK
      <3>2. /\ BaseInv(c, p) /\ pc[p] \in Places \ {"free"}
            /\ user_pgd[p] \in live \cup {Null} /\ old_pgd[p] \in live \cup {Null}
        BY <2>1, <3>1, Zenon DEF Inv, CoreInv, TableInv, TypeOK, On
      <3> QED
        BY <3>2, Zenon DEF BaseInv, Places
    <2> QED
      BY <2>2, <2>3, Zenon
  <1> QED
    BY Invariance, <1>1, PTL

(***************************************************************************)
(* TLBs, when the hardware caches only what user mode uses and exec keeps  *)
(* its core between its read of p->asid and the msr.                       *)
(*                                                                         *)
(* A core is current when it has caught up with the generation.  A current *)
(* core has entries of valid ASIDs only, each cached from a table of its   *)
(* owner; a core that is behind has run one process since the rollover     *)
(* that emptied its TLB.                                                   *)
(***************************************************************************)
\* The entries cached from p's old table may still be there.
Unflushed(p) ==
    \/ pc[p] \in {"exec", "got", "read", "switched", "exit", "left"}
    \/ pc[p] = "field" /\ reg[p] = asid[p]

\* q may have an entry e in the TLB of a current core.
Owns(q, e) ==
    /\ Valid(q) /\ asid[q] = e.asid /\ e.pgd # Null
    /\ e.pgd = user_pgd[q] \/ (Unflushed(q) /\ e.pgd = old_pgd[q])

Owned == \A c \in Core : Current(c) => \A e \in tlb[c] : \E q \in Process : Owns(q, e)

CurrentIsValid ==
    /\ \A c \in Core, p \in Process :
          Running(c, p) /\ user_pgd[p] # Null /\ Current(c) => Valid(p)
    /\ \A c \in Core : load[c].base.pgd # Null /\ Current(c) => Valid(load[c].proc)

Behind ==
    /\ \A c \in Core, p \in Process : At(c, p, "user") /\ ~Current(c) => tlb[c] \subseteq {ttbr0[c]}
    /\ \A c \in Core, p \in Process :
          Running(c, p) /\ ~Current(c) /\ pc[p] \in ExecTail \ {"exec"} => tlb[c] = {}
    /\ \A c \in Core : load[c].base.pgd # Null /\ ~Current(c) => tlb[c] = {}

\* The base of a core has the ASID of the process, and so has exec's register.
Installed ==
    /\ \A c \in Core, p \in Process :
          Running(c, p) /\ pc[p] \in {"user", "switched", "field", "flushed"} => ttbr0[c].asid = asid[p]
    /\ \A p \in Process : pc[p] = "read" => reg[p] = asid[p] /\ \E c \in Core : Running(c, p)

TlbInv == Owned /\ CurrentIsValid /\ Behind /\ Installed

(***************************************************************************)
(* What asid_get_active does to the TLBs: the core that calls it catches   *)
(* up, and no other core does; an entry that is left on a current core     *)
(* keeps its owner; a core left behind has an empty TLB, or was behind     *)
(* before and has kept what it had.                                        *)
(***************************************************************************)
LEMMA GetActiveTlb ==
    ASSUME Inv, Owned, NEW c \in Core, NEW p \in Process, asid_get_active(c, p)
    PROVE  /\ \A d \in Core : Current(d)' => \A e \in tlb'[d] :
                 \E q \in Process : Owns(q, e) /\ Valid(q)' /\ asid'[q] = asid[q]
           /\ \A d \in Core \ {c} : Current(d)' =>
                 Current(d) /\ \A q \in Process \ {p} : Valid(q) => Valid(q)'
           /\ \A d \in Core \ {c} : ~Current(d)' =>
                 tlb'[d] = {} \/ (~Current(d) /\ tlb'[d] = tlb[d])
  <1>t. /\ tlb \in [Core -> SUBSET BaseType] /\ cpu_asid_gen \in [Core -> 0..MaxGeneration]
        /\ asid \in [Process -> 0..MaxAsid] /\ asid_generation \in [Process -> 0..MaxGeneration]
    BY Zenon DEF Inv, TypeOK
  <1>1. CASE KeepAsid(c, p) \/ NewAsid(c, p)
    <2>1. /\ generation' = generation
          /\ tlb' = [tlb EXCEPT ![c] = IF Current(c) THEN @ ELSE {}]
          /\ cpu_asid_gen' = [cpu_asid_gen EXCEPT ![c] = generation]
      BY <1>1, Zenon DEF KeepAsid, NewAsid, CaughtUp, Current
    <2>2. \A q \in Process : Valid(q) => Valid(q)' /\ asid'[q] = asid[q]
      <3>1. CASE KeepAsid(c, p)
        BY <3>1, Zenon DEF KeepAsid, Valid
      <3>2. CASE NewAsid(c, p)
        <4>1. ~Valid(p) /\ \A q \in Process \ {p} :
                 asid'[q] = asid[q] /\ asid_generation'[q] = asid_generation[q]
          BY <3>2, <1>t, Zenon DEF NewAsid, SetAsid
        <4> QED
          BY <2>1, <4>1, Zenon DEF Valid
      <3> QED
        BY <1>1, <3>1, <3>2, Zenon
    <2>3. \A d \in Core \ {c} : tlb'[d] = tlb[d] /\ (Current(d)' <=> Current(d))
      BY <1>t, <2>1, Zenon DEF Current
    <2>4. tlb'[c] = IF Current(c) THEN tlb[c] ELSE {}
      BY <1>t, <2>1, Zenon
    <2>5. \A d \in Core : Current(d)' => \A e \in tlb'[d] : Current(d) /\ e \in tlb[d]
      BY <2>3, <2>4, Zenon
    <2>6. \A d \in Core : Current(d)' => \A e \in tlb'[d] : \E q \in Process : Owns(q, e)
      BY <2>5, Zenon DEF Owned
    <2>7. \A q \in Process : \A e : Owns(q, e) => Valid(q)
      BY Zenon DEF Owns
    <2> QED
      BY <2>2, <2>3, <2>6, <2>7, Zenon
  <1>2. CASE Rollover(c, p)
    <2>1. /\ generation' = generation + 1
          /\ tlb' = [d \in Core |-> {}]
          /\ cpu_asid_gen' = [cpu_asid_gen EXCEPT ![c] = generation + 1]
      BY <1>2, Zenon DEF Rollover
    <2>2. \A d \in Core : tlb'[d] = {}
      BY <2>1, Zenon
    <2>3. ASSUME NEW d \in Core \ {c} PROVE ~Current(d)'
      <3>1. cpu_asid_gen'[d] = cpu_asid_gen[d] /\ cpu_asid_gen[d] <= generation
        BY <1>t, <2>1, Zenon DEF Inv, PoolInv
      <3>2. cpu_asid_gen[d] \in Int /\ generation \in Int
        BY ConstFacts DEF Inv, TypeOK
      <3> QED
        BY <2>1, <3>1, <3>2 DEF Current
    <2> QED
      BY <2>2, <2>3, Zenon
  <1> QED
    BY <1>1, <1>2, Zenon DEF asid_get_active

\* A step outside the pool takes no entry of a current core from its owner, if it
\* takes none from the process p that makes it.
LEMMA OwnedStep ==
    ASSUME TlbInv, NEW p \in Process, generation' = generation, cpu_asid_gen' = cpu_asid_gen,
           \A q \in Process \ {p} :
              /\ pc'[q] = pc[q] /\ user_pgd'[q] = user_pgd[q] /\ reg'[q] = reg[q]
              /\ asid'[q] = asid[q] /\ asid_generation'[q] = asid_generation[q],
           \A q \in Process \ {p} : old_pgd'[q] = old_pgd[q],
           \A d \in Core : \A e \in tlb'[d] : Current(d) =>
              e \in tlb[d] /\ (Owns(p, e) => Owns(p, e)')
    PROVE  Owned'
  <1>1. SUFFICES ASSUME NEW d \in Core, Current(d)', NEW e \in tlb'[d]
                 PROVE  \E q \in Process : Owns(q, e)'
    BY Zenon DEF Owned
  <1>2. Current(d) /\ e \in tlb[d]
    BY <1>1, Zenon DEF Current
  <1>3. PICK q \in Process : Owns(q, e)
    BY <1>2, Zenon DEF TlbInv, Owned
  <1>4. CASE q = p
    BY <1>1, <1>2, <1>3, <1>4, Zenon
  <1>5. CASE q # p
    <2>1. /\ pc'[q] = pc[q] /\ user_pgd'[q] = user_pgd[q] /\ reg'[q] = reg[q]
          /\ asid'[q] = asid[q] /\ asid_generation'[q] = asid_generation[q]
          /\ old_pgd'[q] = old_pgd[q]
      BY <1>5, Zenon
    <2>2. Owns(q, e)'
      BY <1>3, <2>1, Zenon DEF Owns, Valid, Unflushed
    <2> QED
      BY <2>2, Zenon
  <1> QED
    BY <1>4, <1>5, Zenon

(***************************************************************************)
(* A step of the process that core c runs, outside the pool.               *)
(***************************************************************************)
LEMMA OwnTlbStep ==
    ASSUME Inv, TlbInv, NEW c \in Core, NEW p \in Process, Running(c, p),
           cur' = cur, load' = load, generation' = generation, cpu_asid_gen' = cpu_asid_gen,
           \A q \in Process \ {p} :
              /\ pc'[q] = pc[q] /\ user_pgd'[q] = user_pgd[q] /\ reg'[q] = reg[q]
              /\ asid'[q] = asid[q] /\ asid_generation'[q] = asid_generation[q],
           \A d \in Core \ {c} : ttbr0'[d] = ttbr0[d],
           Owned',
           user_pgd'[p] # Null => user_pgd[p] # Null /\ (Valid(p) => Valid(p)'),
           \A d \in Core : tlb[d] = {} => tlb'[d] = {},
           \A d \in Core, q \in Process :
              At(d, q, "user") /\ q # p /\ ~Current(d) => tlb'[d] \subseteq {ttbr0[d]},
           pc'[p] \in {"user"} \cup (ExecTail \ {"exec"}) => (~Current(c) => tlb[c] = {}),
           pc'[p] \in {"user", "switched", "field", "flushed"} => ttbr0'[c].asid = asid'[p],
           pc'[p] = "read" => reg'[p] = asid'[p]
    PROVE  TlbInv'
  <1>1. \A d \in Core : Current(d)' <=> Current(d)
    BY Zenon DEF Current
  <1>2. \A d \in Core, q \in Process : Running(d, q)' <=> Running(d, q)
    BY Zenon DEF Running
  <1>3. \A d \in Core : Running(d, p) => d = c
    BY Zenon DEF Running, Inv, CoreInv, On
  <1>4. \A q \in Process \ {p} : Valid(q)' <=> Valid(q)
    BY Zenon DEF Valid
  <1>5. \A d \in Core : load[d].base.pgd # Null => load[d].proc \in Process \ {p}
    <2>1. SUFFICES ASSUME NEW d \in Core, load[d].base.pgd # Null
                   PROVE  load[d].proc \in Process \ {p}
      BY Zenon
    <2>2. load[d].pending /\ load[d].proc # NoProcess
      <3>1. LoadInv(d) /\ KernelBase.pgd = Null /\ NoLoad.base = KernelBase
        BY Zenon DEF Inv, CoreInv, NoLoad, KernelBase, Base
      <3> QED
        BY <2>1, <3>1, Zenon DEF LoadInv
    <2>3. load[d].proc \in Process
      BY <2>2, Zenon DEF Inv, TypeOK
    <2>4. load[d].proc # p
      BY <2>2, Zenon DEF Running, Inv, CoreInv, On
    <2> QED
      BY <2>3, <2>4, Zenon
  <1>6. CurrentIsValid'
    <2>1. ASSUME NEW d \in Core, NEW q \in Process, (Running(d, q) /\ user_pgd[q] # Null /\ Current(d))'
          PROVE  Valid(q)'
      BY <1>1, <1>2, <1>4, <2>1, Zenon DEF TlbInv, CurrentIsValid
    <2>2. ASSUME NEW d \in Core, (load[d].base.pgd # Null /\ Current(d))'
          PROVE  Valid(load[d].proc)'
      BY <1>1, <1>4, <1>5, <2>2, Zenon DEF TlbInv, CurrentIsValid, Valid
    <2> QED
      BY <2>1, <2>2, Zenon DEF CurrentIsValid
  <1>7. Behind'
    <2>1. ASSUME NEW d \in Core, NEW q \in Process, (At(d, q, "user") /\ ~Current(d))'
          PROVE  (tlb[d] \subseteq {ttbr0[d]})'
      <3>1. CASE q = p
        BY <1>1, <1>2, <1>3, <2>1, <3>1, Zenon DEF At
      <3>2. CASE q # p
        <4>1. At(d, q, "user") /\ ~Current(d)
          BY <1>1, <1>2, <2>1, <3>2, Zenon DEF At
        <4>2. d # c
          BY <4>1, <3>2, Zenon DEF At, Running
        <4> QED
          BY <3>2, <4>1, <4>2, Zenon
      <3> QED
        BY <3>1, <3>2, Zenon
    <2>2. ASSUME NEW d \in Core, NEW q \in Process,
                 (Running(d, q) /\ ~Current(d) /\ pc[q] \in ExecTail \ {"exec"})'
          PROVE  tlb'[d] = {}
      <3>1. CASE q = p
        BY <1>1, <1>2, <1>3, <2>2, <3>1, Zenon
      <3>2. CASE q # p
        BY <1>1, <1>2, <2>2, <3>2, Zenon DEF TlbInv, Behind
      <3> QED
        BY <3>1, <3>2, Zenon
    <2>3. ASSUME NEW d \in Core, (load[d].base.pgd # Null /\ ~Current(d))'
          PROVE  tlb'[d] = {}
      BY <1>1, <2>3, Zenon DEF TlbInv, Behind
    <2> QED
      BY <2>1, <2>2, <2>3, Zenon DEF Behind
  <1>8. /\ \A d \in Core, q \in Process :
              Running(d, q) /\ pc[q] \in {"user", "switched", "field", "flushed"} =>
                  ttbr0[d].asid = asid[q]
        /\ \A q \in Process : pc[q] = "read" => reg[q] = asid[q] /\ \E d \in Core : Running(d, q)
    BY Zenon DEF TlbInv, Installed
  <1>9. Installed'
    <2>1. ASSUME NEW d \in Core, NEW q \in Process,
                 (Running(d, q) /\ pc[q] \in {"user", "switched", "field", "flushed"})'
          PROVE  (ttbr0[d].asid = asid[q])'
      <3>1. CASE q = p
        BY <1>2, <1>3, <2>1, <3>1, Zenon
      <3>2. CASE q # p
        <4>1. d # c /\ Running(d, q) /\ pc[q] = pc'[q]
          BY <1>2, <2>1, <3>2, Zenon DEF Running
        <4> QED
          <5>1. ttbr0[d].asid = asid[q]
            BY <1>8, <2>1, <4>1, Zenon
          <5>2. ttbr0'[d] = ttbr0[d] /\ asid'[q] = asid[q]
            BY <3>2, <4>1, Zenon
          <5> QED
            BY <5>1, <5>2, Zenon
      <3> QED
        BY <3>1, <3>2, Zenon
    <2>2. ASSUME NEW q \in Process, pc'[q] = "read"
          PROVE  reg'[q] = asid'[q] /\ \E d \in Core : Running(d, q)'
      <3>1. CASE q = p
        BY <1>2, <2>2, <3>1, Zenon
      <3>2. CASE q # p
        BY <1>2, <1>8, <2>2, <3>2, ZenonT(30)
      <3> QED
        BY <3>1, <3>2, Zenon
    <2> QED
      BY <2>1, <2>2, Zenon DEF Installed
  <1> QED
    BY <1>6, <1>7, <1>9, Zenon DEF TlbInv

\* The swap of the tables in process_exec.
LEMMA ExecPgdTlb ==
    ASSUME Inv, TlbInv, NEW c \in Core, NEW p \in Process, NEW g \in Pgd, ExecPgd(c, p, g)
    PROVE  TlbInv'
  <1>t. /\ pc \in [Process -> Places] /\ reg \in [Process -> 0..MaxAsid]
        /\ user_pgd \in [Process -> Pgd \cup {Null}] /\ old_pgd \in [Process -> Pgd \cup {Null}]
        /\ asid \in [Process -> 0..MaxAsid] /\ asid_generation \in [Process -> 0..MaxGeneration]
        /\ ttbr0 \in [Core -> BaseType] /\ tlb \in [Core -> SUBSET BaseType]
    BY Zenon DEF Inv, TypeOK
  <1>1. /\ Running(c, p) /\ pc[p] = "user"
        /\ old_pgd' = [old_pgd EXCEPT ![p] = user_pgd[p]]
        /\ user_pgd' = [user_pgd EXCEPT ![p] = g]
        /\ pc' = [pc EXCEPT ![p] = "exec"]
    BY Zenon DEF ExecPgd, GoTo, At
  <1>2. UNCHANGED <<generation, cpu_asid_gen, asid, asid_generation, reg, cur, load, ttbr0, tlb>>
    BY Zenon DEF ExecPgd, GoTo, At, coreVars, poolVars, asidVars
  <1>3. /\ \A q \in Process \ {p} :
              /\ pc'[q] = pc[q] /\ user_pgd'[q] = user_pgd[q] /\ reg'[q] = reg[q]
              /\ asid'[q] = asid[q] /\ asid_generation'[q] = asid_generation[q]
        /\ \A q \in Process \ {p} : old_pgd'[q] = old_pgd[q]
        /\ \A d \in Core \ {c} : ttbr0'[d] = ttbr0[d]
    BY <1>t, <1>1, <1>2, Zenon
  <1>4. \A d \in Core, q \in Process : At(d, q, "user") /\ ~Current(d) => tlb[d] \subseteq {ttbr0[d]}
    BY Zenon DEF TlbInv, Behind
  <1>5. Owned'
    <2>1. \A e : Owns(p, e) => Owns(p, e)'
      <3>1. ~Unflushed(p) /\ Unflushed(p)' /\ old_pgd'[p] = user_pgd[p]
        BY <1>t, <1>1, Zenon DEF Unflushed
      <3> QED
        BY <1>2, <3>1, Zenon DEF Owns, Valid
    <2> QED
      BY <1>2, <1>3, <2>1, OwnedStep, Zenon
  <1>6. pc'[p] = "exec" /\ user_pgd[p] # Null
    BY <1>t, <1>1, Zenon DEF Inv, TableInv
  <1>7. Valid(p) => Valid(p)'
    BY <1>2, Zenon DEF Valid
  <1> QED
    BY <1>1, <1>2, <1>3, <1>4, <1>5, <1>6, <1>7, OwnTlbStep, Zenon DEF ExecTail

\* The reads of p->asid in process_exec.
LEMMA ExecReadTlb ==
    ASSUME Inv, TlbInv, NEW c \in Core, NEW p \in Process, ExecRead(c, p)
    PROVE  TlbInv'
  <1>t. /\ pc \in [Process -> Places] /\ reg \in [Process -> 0..MaxAsid]
        /\ user_pgd \in [Process -> Pgd \cup {Null}] /\ old_pgd \in [Process -> Pgd \cup {Null}]
        /\ asid \in [Process -> 0..MaxAsid] /\ asid_generation \in [Process -> 0..MaxGeneration]
        /\ ttbr0 \in [Core -> BaseType] /\ tlb \in [Core -> SUBSET BaseType]
    BY Zenon DEF Inv, TypeOK
  <1>1. /\ Running(c, p)
        /\ \/ pc[p] = "got" /\ pc' = [pc EXCEPT ![p] = "read"]
           \/ pc[p] = "switched" /\ pc' = [pc EXCEPT ![p] = "field"]
        /\ reg' = [reg EXCEPT ![p] = asid[p]]
    BY Zenon DEF ExecRead, GoTo, At
  <1>2. UNCHANGED <<generation, cpu_asid_gen, asid, asid_generation, user_pgd, old_pgd, cur, load, ttbr0, tlb>>
    BY Zenon DEF ExecRead, GoTo, At, coreVars, poolVars, asidVars
  <1>3. /\ \A q \in Process \ {p} :
              /\ pc'[q] = pc[q] /\ user_pgd'[q] = user_pgd[q] /\ reg'[q] = reg[q]
              /\ asid'[q] = asid[q] /\ asid_generation'[q] = asid_generation[q]
        /\ \A q \in Process \ {p} : old_pgd'[q] = old_pgd[q]
        /\ \A d \in Core \ {c} : ttbr0'[d] = ttbr0[d]
    BY <1>t, <1>1, <1>2, Zenon
  <1>4. \A d \in Core, q \in Process : At(d, q, "user") /\ ~Current(d) => tlb[d] \subseteq {ttbr0[d]}
    BY Zenon DEF TlbInv, Behind
  <1>5. Owned'
    <2>1. \A e : Owns(p, e) => Owns(p, e)'
      <3>1. Unflushed(p) /\ Unflushed(p)'
        BY <1>t, <1>1, <1>2, Zenon DEF Unflushed
      <3> QED
        BY <1>2, <3>1, Zenon DEF Owns, Valid
    <2> QED
      BY <1>2, <1>3, <2>1, OwnedStep, Zenon
  <1>6. /\ pc[p] \in {"got", "switched"} /\ pc'[p] \in {"read", "field"} /\ reg'[p] = asid[p]
        /\ pc'[p] = "field" => pc[p] = "switched"
    BY <1>t, <1>1, Zenon
  <1>7. Valid(p) => Valid(p)'
    BY <1>2, Zenon DEF Valid
  <1>8. ~Current(c) => tlb[c] = {}
    BY <1>1, <1>6, Zenon DEF TlbInv, Behind, ExecTail
  <1>9. pc[p] = "switched" => ttbr0[c].asid = asid[p]
    BY <1>1, Zenon DEF TlbInv, Installed
  <1>10. user_pgd[p] # Null
    BY <1>6, Zenon DEF Inv, TableInv, ExecTail
  <1> QED
    BY <1>1, <1>2, <1>3, <1>4, <1>5, <1>6, <1>7, <1>8, <1>9, <1>10, OwnTlbStep, Zenon

\* The msr of mmu_switch_user, with the ASID the register still has right.
LEMMA ExecSwitchTlb ==
    ASSUME Inv, TlbInv, NEW c \in Core, NEW p \in Process, ExecSwitch(c, p)
    PROVE  TlbInv'
  <1>t. /\ pc \in [Process -> Places] /\ reg \in [Process -> 0..MaxAsid]
        /\ user_pgd \in [Process -> Pgd \cup {Null}] /\ old_pgd \in [Process -> Pgd \cup {Null}]
        /\ asid \in [Process -> 0..MaxAsid] /\ asid_generation \in [Process -> 0..MaxGeneration]
        /\ ttbr0 \in [Core -> BaseType] /\ tlb \in [Core -> SUBSET BaseType]
    BY Zenon DEF Inv, TypeOK
  <1>1. /\ Running(c, p) /\ pc[p] = "read" /\ pc' = [pc EXCEPT ![p] = "switched"]
        /\ ttbr0' = [ttbr0 EXCEPT ![c] = Base(user_pgd[p], reg[p])]
        /\ reg' = [reg EXCEPT ![p] = 0]
    BY Zenon DEF ExecSwitch, GoTo, At
  <1>2. UNCHANGED <<generation, cpu_asid_gen, asid, asid_generation, user_pgd, old_pgd, cur, load, tlb>>
    BY Zenon DEF ExecSwitch, GoTo, At, coreVars, poolVars, asidVars
  <1>3. /\ \A q \in Process \ {p} :
              /\ pc'[q] = pc[q] /\ user_pgd'[q] = user_pgd[q] /\ reg'[q] = reg[q]
              /\ asid'[q] = asid[q] /\ asid_generation'[q] = asid_generation[q]
        /\ \A q \in Process \ {p} : old_pgd'[q] = old_pgd[q]
        /\ \A d \in Core \ {c} : ttbr0'[d] = ttbr0[d]
    BY <1>t, <1>1, <1>2, Zenon
  <1>4. \A d \in Core, q \in Process : At(d, q, "user") /\ ~Current(d) => tlb[d] \subseteq {ttbr0[d]}
    BY Zenon DEF TlbInv, Behind
  <1>5. Owned'
    <2>1. \A e : Owns(p, e) => Owns(p, e)'
      <3>1. Unflushed(p) /\ Unflushed(p)'
        BY <1>t, <1>1, Zenon DEF Unflushed
      <3> QED
        BY <1>2, <3>1, Zenon DEF Owns, Valid
    <2> QED
      BY <1>2, <1>3, <2>1, OwnedStep, Zenon
  <1>6. pc'[p] = "switched" /\ ttbr0'[c].asid = reg[p] /\ reg[p] = asid[p]
    BY <1>t, <1>1, Zenon DEF TlbInv, Installed, Base
  <1>7. Valid(p) => Valid(p)'
    BY <1>2, Zenon DEF Valid
  <1>8. ~Current(c) => tlb[c] = {}
    BY <1>1, Zenon DEF TlbInv, Behind, ExecTail
  <1>10. user_pgd[p] # Null
    BY <1>1, Zenon DEF Inv, TableInv, ExecTail
  <1> QED
    BY <1>1, <1>2, <1>3, <1>4, <1>5, <1>6, <1>7, <1>8, <1>10, OwnTlbStep, Zenon

\* The flush of process_exec leaves nothing of the old table.
LEMMA ExecFlushTlb ==
    ASSUME Inv, TlbInv, NEW c \in Core, NEW p \in Process, ExecFlush(c, p)
    PROVE  TlbInv'
  <1>t. /\ pc \in [Process -> Places] /\ reg \in [Process -> 0..MaxAsid]
        /\ user_pgd \in [Process -> Pgd \cup {Null}] /\ old_pgd \in [Process -> Pgd \cup {Null}]
        /\ asid \in [Process -> 0..MaxAsid] /\ asid_generation \in [Process -> 0..MaxGeneration]
        /\ ttbr0 \in [Core -> BaseType] /\ tlb \in [Core -> SUBSET BaseType]
    BY Zenon DEF Inv, TypeOK
  <1>1. /\ Running(c, p) /\ pc[p] = "field" /\ pc' = [pc EXCEPT ![p] = "flushed"]
        /\ tlb' = FlushAsid(tlb, reg[p]) /\ reg' = [reg EXCEPT ![p] = 0]
    BY Zenon DEF ExecFlush, GoTo, At
  <1>2. UNCHANGED <<generation, cpu_asid_gen, asid, asid_generation, user_pgd, old_pgd, cur, load, ttbr0>>
    BY Zenon DEF ExecFlush, GoTo, At, coreVars, poolVars, asidVars
  <1>3. /\ \A q \in Process \ {p} :
              /\ pc'[q] = pc[q] /\ user_pgd'[q] = user_pgd[q] /\ reg'[q] = reg[q]
              /\ asid'[q] = asid[q] /\ asid_generation'[q] = asid_generation[q]
        /\ \A q \in Process \ {p} : old_pgd'[q] = old_pgd[q]
        /\ \A d \in Core \ {c} : ttbr0'[d] = ttbr0[d]
    BY <1>t, <1>1, <1>2, Zenon
  <1>f. \A d \in Core : tlb'[d] = {e \in tlb[d] : e.asid # reg[p]}
    BY <1>1, Zenon DEF FlushAsid
  <1>4. \A d \in Core, q \in Process : At(d, q, "user") /\ ~Current(d) => tlb'[d] \subseteq {ttbr0[d]}
    BY <1>f, Zenon DEF TlbInv, Behind
  <1>5. Owned'
    <2>1. ASSUME NEW d \in Core, NEW e \in tlb'[d], Owns(p, e) PROVE Owns(p, e)'
      <3>1. e.asid # reg[p]
        BY <1>f, <2>1, Zenon
      <3>2. asid[p] = e.asid /\ (Unflushed(p) => reg[p] = asid[p])
        BY <1>1, <2>1, Zenon DEF Owns, Unflushed
      <3>3. e.pgd = user_pgd[p]
        BY <2>1, <3>1, <3>2, Zenon DEF Owns
      <3> QED
        BY <1>2, <2>1, <3>3, Zenon DEF Owns, Valid
    <2>2. \A d \in Core : \A e \in tlb'[d] : e \in tlb[d]
      BY <1>f, Zenon
    <2> QED
      BY <1>2, <1>3, <2>1, <2>2, OwnedStep, Zenon
  <1>6. pc'[p] = "flushed" /\ ttbr0[c].asid = asid[p]
    BY <1>t, <1>1, Zenon DEF TlbInv, Installed
  <1>7. Valid(p) => Valid(p)'
    BY <1>2, Zenon DEF Valid
  <1>8. ~Current(c) => tlb[c] = {}
    BY <1>1, Zenon DEF TlbInv, Behind, ExecTail
  <1>9. \A d \in Core : tlb[d] = {} => tlb'[d] = {}
    BY <1>f, Zenon
  <1>10. user_pgd[p] # Null
    BY <1>1, Zenon DEF Inv, TableInv, ExecTail
  <1> QED
    BY <1>1, <1>2, <1>3, <1>4, <1>5, <1>6, <1>7, <1>8, <1>9, <1>10, OwnTlbStep, Zenon

\* The start of the tail of process_exit.
LEMMA ExitPgdTlb ==
    ASSUME Inv, TlbInv, NEW c \in Core, NEW p \in Process, ExitPgd(c, p)
    PROVE  TlbInv'
  <1>t. /\ pc \in [Process -> Places] /\ reg \in [Process -> 0..MaxAsid]
        /\ user_pgd \in [Process -> Pgd \cup {Null}] /\ old_pgd \in [Process -> Pgd \cup {Null}]
        /\ asid \in [Process -> 0..MaxAsid] /\ asid_generation \in [Process -> 0..MaxGeneration]
        /\ ttbr0 \in [Core -> BaseType] /\ tlb \in [Core -> SUBSET BaseType]
    BY Zenon DEF Inv, TypeOK
  <1>1. /\ Running(c, p) /\ pc[p] = "user" /\ pc' = [pc EXCEPT ![p] = "exit"]
        /\ old_pgd' = [old_pgd EXCEPT ![p] = user_pgd[p]]
        /\ user_pgd' = [user_pgd EXCEPT ![p] = Null]
    BY Zenon DEF ExitPgd, GoTo, At
  <1>2. UNCHANGED <<generation, cpu_asid_gen, asid, asid_generation, reg, cur, load, ttbr0, tlb>>
    BY Zenon DEF ExitPgd, GoTo, At, coreVars, poolVars, asidVars
  <1>3. /\ \A q \in Process \ {p} :
              /\ pc'[q] = pc[q] /\ user_pgd'[q] = user_pgd[q] /\ reg'[q] = reg[q]
              /\ asid'[q] = asid[q] /\ asid_generation'[q] = asid_generation[q]
        /\ \A q \in Process \ {p} : old_pgd'[q] = old_pgd[q]
        /\ \A d \in Core \ {c} : ttbr0'[d] = ttbr0[d]
    BY <1>t, <1>1, <1>2, Zenon
  <1>4. \A d \in Core, q \in Process : At(d, q, "user") /\ ~Current(d) => tlb[d] \subseteq {ttbr0[d]}
    BY Zenon DEF TlbInv, Behind
  <1>5. Owned'
    <2>1. \A e : Owns(p, e) => Owns(p, e)'
      <3>1. ~Unflushed(p) /\ Unflushed(p)' /\ old_pgd'[p] = user_pgd[p]
        BY <1>t, <1>1, Zenon DEF Unflushed
      <3> QED
        BY <1>2, <3>1, Zenon DEF Owns, Valid
    <2> QED
      BY <1>2, <1>3, <2>1, OwnedStep, Zenon
  <1>6. pc'[p] = "exit" /\ user_pgd'[p] = Null
    BY <1>t, <1>1, Zenon
  <1> QED
    BY <1>1, <1>2, <1>3, <1>4, <1>5, <1>6, OwnTlbStep, Zenon DEF ExecTail

\* mmu_leave_user.
LEMMA LeaveUserTlb ==
    ASSUME Inv, TlbInv, NEW c \in Core, NEW p \in Process, mmu_leave_user(c, p)
    PROVE  TlbInv'
  <1>t. /\ pc \in [Process -> Places] /\ reg \in [Process -> 0..MaxAsid]
        /\ user_pgd \in [Process -> Pgd \cup {Null}] /\ old_pgd \in [Process -> Pgd \cup {Null}]
        /\ asid \in [Process -> 0..MaxAsid] /\ asid_generation \in [Process -> 0..MaxGeneration]
        /\ ttbr0 \in [Core -> BaseType] /\ tlb \in [Core -> SUBSET BaseType]
    BY Zenon DEF Inv, TypeOK
  <1>1. /\ Running(c, p) /\ pc[p] = "exit" /\ pc' = [pc EXCEPT ![p] = "left"]
        /\ ttbr0' = [ttbr0 EXCEPT ![c] = KernelBase]
    BY Zenon DEF mmu_leave_user, GoTo, At
  <1>2. UNCHANGED <<generation, cpu_asid_gen, asid, asid_generation, user_pgd, old_pgd, reg, cur, load, tlb>>
    BY Zenon DEF mmu_leave_user, GoTo, At, coreVars, poolVars, asidVars
  <1>3. /\ \A q \in Process \ {p} :
              /\ pc'[q] = pc[q] /\ user_pgd'[q] = user_pgd[q] /\ reg'[q] = reg[q]
              /\ asid'[q] = asid[q] /\ asid_generation'[q] = asid_generation[q]
        /\ \A q \in Process \ {p} : old_pgd'[q] = old_pgd[q]
        /\ \A d \in Core \ {c} : ttbr0'[d] = ttbr0[d]
    BY <1>t, <1>1, <1>2, Zenon
  <1>4. \A d \in Core, q \in Process : At(d, q, "user") /\ ~Current(d) => tlb[d] \subseteq {ttbr0[d]}
    BY Zenon DEF TlbInv, Behind
  <1>5. Owned'
    <2>1. \A e : Owns(p, e) => Owns(p, e)'
      <3>1. Unflushed(p) /\ Unflushed(p)'
        BY <1>t, <1>1, Zenon DEF Unflushed
      <3> QED
        BY <1>2, <3>1, Zenon DEF Owns, Valid
    <2> QED
      BY <1>2, <1>3, <2>1, OwnedStep, Zenon
  <1>6. pc'[p] = "left" /\ user_pgd[p] = Null
    BY <1>t, <1>1, Zenon DEF Inv, TableInv, ExecTail
  <1> QED
    BY <1>1, <1>2, <1>3, <1>4, <1>5, <1>6, OwnTlbStep, Zenon DEF ExecTail

\* asid_free: no entry outlives the ASID it was cached under.
LEMMA AsidFreeTlb ==
    ASSUME Inv, TlbInv, NEW c \in Core, NEW p \in Process, asid_free(c, p)
    PROVE  TlbInv'
  <1>t. /\ pc \in [Process -> Places] /\ reg \in [Process -> 0..MaxAsid]
        /\ user_pgd \in [Process -> Pgd \cup {Null}] /\ old_pgd \in [Process -> Pgd \cup {Null}]
        /\ asid \in [Process -> 0..MaxAsid] /\ asid_generation \in [Process -> 0..MaxGeneration]
        /\ ttbr0 \in [Core -> BaseType] /\ tlb \in [Core -> SUBSET BaseType]
    BY Zenon DEF Inv, TypeOK
  <1>1. /\ Running(c, p) /\ pc[p] = "left" /\ pc' = [pc EXCEPT ![p] = "released"]
        /\ asid' = [asid EXCEPT ![p] = 0]
        /\ asid_generation' = [asid_generation EXCEPT ![p] = 0]
        /\ tlb' = IF Valid(p) THEN FlushAsid(tlb, asid[p]) ELSE tlb
    BY Zenon DEF asid_free, SetAsid, GoTo, At
  <1>2. UNCHANGED <<generation, cpu_asid_gen, user_pgd, old_pgd, reg, cur, load, ttbr0>>
    BY Zenon DEF asid_free, SetAsid, GoTo, At, coreVars, poolVars, asidVars
  <1>3. /\ \A q \in Process \ {p} :
              /\ pc'[q] = pc[q] /\ user_pgd'[q] = user_pgd[q] /\ reg'[q] = reg[q]
              /\ asid'[q] = asid[q] /\ asid_generation'[q] = asid_generation[q]
        /\ \A q \in Process \ {p} : old_pgd'[q] = old_pgd[q]
        /\ \A d \in Core \ {c} : ttbr0'[d] = ttbr0[d]
    BY <1>t, <1>1, <1>2, Zenon
  <1>f. \A d \in Core : tlb'[d] = IF Valid(p) THEN {e \in tlb[d] : e.asid # asid[p]} ELSE tlb[d]
    BY <1>1, Zenon DEF FlushAsid
  <1>4. \A d \in Core, q \in Process : At(d, q, "user") /\ ~Current(d) => tlb'[d] \subseteq {ttbr0[d]}
    BY <1>f, Zenon DEF TlbInv, Behind
  <1>5. Owned'
    <2>1. ASSUME NEW d \in Core, NEW e \in tlb'[d] PROVE ~Owns(p, e)
      BY <1>f, <2>1, Zenon DEF Owns
    <2>2. \A d \in Core : \A e \in tlb'[d] : e \in tlb[d]
      BY <1>f, Zenon
    <2> QED
      BY <1>2, <1>3, <2>1, <2>2, OwnedStep, Zenon
  <1>6. pc'[p] = "released" /\ user_pgd[p] = Null
    BY <1>t, <1>1, Zenon DEF Inv, TableInv, ExecTail
  <1>9. \A d \in Core : tlb[d] = {} => tlb'[d] = {}
    BY <1>f, Zenon
  <1> QED
    BY <1>1, <1>2, <1>3, <1>4, <1>5, <1>6, <1>9, OwnTlbStep, Zenon DEF ExecTail

(***************************************************************************)
(* Tables are destroyed when nothing of them is left on a current core, or *)
(* on a core in user mode.                                                 *)
(***************************************************************************)
LEMMA DestroyTlb ==
    ASSUME Inv, TlbInv, NEW p \in Process, Destroy(old_pgd[p]), old_pgd[p] # Null, ~Unflushed(p)
    PROVE  /\ \A d \in Core : tlb[d] = {} => tlb'[d] = {}
           /\ \A d \in Core : Current(d) => tlb'[d] = tlb[d]
           /\ \A d \in Core, q \in Process : At(d, q, "user") /\ ~Current(d) => tlb'[d] \subseteq {ttbr0[d]}
  <1>1. \A d \in Core : tlb'[d] = {IF e.pgd = old_pgd[p] THEN Base(Null, e.asid) ELSE e : e \in tlb[d]}
    BY Zenon DEF Destroy
  <1>2. \A q \in Process : user_pgd[q] # old_pgd[p] /\ (old_pgd[q] = old_pgd[p] => q = p)
    BY Zenon DEF Inv, TableInv
  <1>3. ASSUME NEW d \in Core, \A e \in tlb[d] : e.pgd # old_pgd[p]
        PROVE  tlb'[d] = tlb[d]
    <2>1. \A e \in tlb[d] : (IF e.pgd = old_pgd[p] THEN Base(Null, e.asid) ELSE e) = e
      BY <1>3, Zenon
    <2> QED
      BY <1>1, <2>1, Zenon
  <1>4. ASSUME NEW d \in Core, Current(d) PROVE tlb'[d] = tlb[d]
    <2>1. ASSUME NEW e \in tlb[d] PROVE e.pgd # old_pgd[p]
      <3>1. PICK q \in Process : Owns(q, e)
        BY <1>4, <2>1, Zenon DEF TlbInv, Owned
      <3> QED
        BY <1>2, <3>1, Zenon DEF Owns
    <2> QED
      BY <1>3, <2>1, Zenon
  <1>5. ASSUME NEW d \in Core, NEW q \in Process, At(d, q, "user"), ~Current(d)
        PROVE  tlb'[d] \subseteq {ttbr0[d]}
    <2>1. tlb[d] \subseteq {ttbr0[d]}
      BY <1>5, Zenon DEF TlbInv, Behind
    <2>2. ttbr0[d].pgd = user_pgd[q]
      BY <1>5, Zenon DEF At, Running, Inv, CoreInv, BaseInv
    <2>3. \A e \in tlb[d] : e.pgd # old_pgd[p]
      BY <1>2, <2>1, <2>2, Zenon
    <2> QED
      BY <1>3, <2>1, <2>3, Zenon
  <1>6. \A d \in Core : tlb[d] = {} => tlb'[d] = {}
    BY <1>1, SMT
  <1> QED
    BY <1>4, <1>5, <1>6, Zenon

\* The mmu_destroy_user_pgd of process_exec.
LEMMA ExecDestroyTlb ==
    ASSUME Inv, TlbInv, NEW c \in Core, NEW p \in Process, ExecDestroy(c, p)
    PROVE  TlbInv'
  <1>t. /\ pc \in [Process -> Places] /\ reg \in [Process -> 0..MaxAsid]
        /\ user_pgd \in [Process -> Pgd \cup {Null}] /\ old_pgd \in [Process -> Pgd \cup {Null}]
        /\ asid \in [Process -> 0..MaxAsid] /\ asid_generation \in [Process -> 0..MaxGeneration]
        /\ ttbr0 \in [Core -> BaseType] /\ tlb \in [Core -> SUBSET BaseType]
    BY Zenon DEF Inv, TypeOK
  <1>1. /\ Running(c, p) /\ pc[p] = "flushed" /\ pc' = [pc EXCEPT ![p] = "user"]
        /\ Destroy(old_pgd[p]) /\ old_pgd' = [old_pgd EXCEPT ![p] = Null]
    BY Zenon DEF ExecDestroy, GoTo, At
  <1>2. UNCHANGED <<generation, cpu_asid_gen, asid, asid_generation, user_pgd, reg, cur, load, ttbr0>>
    BY Zenon DEF ExecDestroy, GoTo, At, coreVars, poolVars, asidVars
  <1>3. /\ \A q \in Process \ {p} :
              /\ pc'[q] = pc[q] /\ user_pgd'[q] = user_pgd[q] /\ reg'[q] = reg[q]
              /\ asid'[q] = asid[q] /\ asid_generation'[q] = asid_generation[q]
        /\ \A q \in Process \ {p} : old_pgd'[q] = old_pgd[q]
        /\ \A d \in Core \ {c} : ttbr0'[d] = ttbr0[d]
    BY <1>t, <1>1, <1>2, Zenon
  <1>4. /\ old_pgd[p] # Null /\ ~Unflushed(p)
        /\ \A d \in Core : tlb[d] = {} => tlb'[d] = {}
        /\ \A d \in Core : Current(d) => tlb'[d] = tlb[d]
        /\ \A d \in Core, q \in Process : At(d, q, "user") /\ ~Current(d) => tlb'[d] \subseteq {ttbr0[d]}
    <2>1. old_pgd[p] # Null /\ ~Unflushed(p)
      BY <1>1, Zenon DEF Inv, TableInv, ExecTail, ExitTail, Unflushed
    <2> QED
      BY <1>1, <2>1, DestroyTlb, Zenon
  <1>5. Owned'
    <2>1. \A e : Owns(p, e) => Owns(p, e)'
      BY <1>2, <1>4, Zenon DEF Owns, Valid
    <2>2. \A d \in Core : \A e \in tlb'[d] : Current(d) => e \in tlb[d]
      BY <1>4, Zenon
    <2> QED
      BY <1>2, <1>3, <2>1, <2>2, OwnedStep, Zenon
  <1>6. pc'[p] = "user" /\ user_pgd[p] # Null /\ ttbr0[c].asid = asid[p]
    BY <1>t, <1>1, Zenon DEF TlbInv, Installed, Inv, TableInv, ExecTail
  <1>7. Valid(p) => Valid(p)'
    BY <1>2, Zenon DEF Valid
  <1>8. ~Current(c) => tlb[c] = {}
    BY <1>1, Zenon DEF TlbInv, Behind, ExecTail
  <1> QED
    BY <1>1, <1>2, <1>3, <1>4, <1>5, <1>6, <1>7, <1>8, OwnTlbStep, Zenon

\* The mmu_destroy_user_pgd of process_exit.
LEMMA ExitDestroyTlb ==
    ASSUME Inv, TlbInv, NEW c \in Core, NEW p \in Process, ExitDestroy(c, p)
    PROVE  TlbInv'
  <1>t. /\ pc \in [Process -> Places] /\ reg \in [Process -> 0..MaxAsid]
        /\ user_pgd \in [Process -> Pgd \cup {Null}] /\ old_pgd \in [Process -> Pgd \cup {Null}]
        /\ asid \in [Process -> 0..MaxAsid] /\ asid_generation \in [Process -> 0..MaxGeneration]
        /\ ttbr0 \in [Core -> BaseType] /\ tlb \in [Core -> SUBSET BaseType]
    BY Zenon DEF Inv, TypeOK
  <1>1. /\ Running(c, p) /\ pc[p] = "released" /\ pc' = [pc EXCEPT ![p] = "zombie"]
        /\ Destroy(old_pgd[p]) /\ old_pgd' = [old_pgd EXCEPT ![p] = Null]
    BY Zenon DEF ExitDestroy, GoTo, At
  <1>2. UNCHANGED <<generation, cpu_asid_gen, asid, asid_generation, user_pgd, reg, cur, load, ttbr0>>
    BY Zenon DEF ExitDestroy, GoTo, At, coreVars, poolVars, asidVars
  <1>3. /\ \A q \in Process \ {p} :
              /\ pc'[q] = pc[q] /\ user_pgd'[q] = user_pgd[q] /\ reg'[q] = reg[q]
              /\ asid'[q] = asid[q] /\ asid_generation'[q] = asid_generation[q]
        /\ \A q \in Process \ {p} : old_pgd'[q] = old_pgd[q]
        /\ \A d \in Core \ {c} : ttbr0'[d] = ttbr0[d]
    BY <1>t, <1>1, <1>2, Zenon
  <1>4. /\ old_pgd[p] # Null /\ ~Unflushed(p)
        /\ \A d \in Core : tlb[d] = {} => tlb'[d] = {}
        /\ \A d \in Core : Current(d) => tlb'[d] = tlb[d]
        /\ \A d \in Core, q \in Process : At(d, q, "user") /\ ~Current(d) => tlb'[d] \subseteq {ttbr0[d]}
    <2>1. old_pgd[p] # Null /\ ~Unflushed(p)
      BY <1>1, Zenon DEF Inv, TableInv, ExecTail, ExitTail, Unflushed
    <2> QED
      BY <1>1, <2>1, DestroyTlb, Zenon
  <1>5. Owned'
    <2>1. \A e : Owns(p, e) => Owns(p, e)'
      BY <1>2, <1>4, Zenon DEF Owns, Valid
    <2>2. \A d \in Core : \A e \in tlb'[d] : Current(d) => e \in tlb[d]
      BY <1>4, Zenon
    <2> QED
      BY <1>2, <1>3, <2>1, <2>2, OwnedStep, Zenon
  <1>6. pc'[p] = "zombie" /\ user_pgd[p] = Null
    BY <1>t, <1>1, Zenon DEF Inv, TableInv, ExecTail
  <1> QED
    BY <1>1, <1>2, <1>3, <1>4, <1>5, <1>6, OwnTlbStep, Zenon DEF ExecTail

(***************************************************************************)
(* The other steps.                                                        *)
(***************************************************************************)
\* The conjuncts of the invariant, for the proofs that need them one by one.
LEMMA Parts ==
    ASSUME TlbInv
    PROVE  /\ \A c \in Core, p \in Process :
                 Running(c, p) /\ user_pgd[p] # Null /\ Current(c) => Valid(p)
           /\ \A c \in Core : load[c].base.pgd # Null /\ Current(c) => Valid(load[c].proc)
           /\ \A c \in Core, p \in Process : At(c, p, "user") /\ ~Current(c) => tlb[c] \subseteq {ttbr0[c]}
           /\ \A c \in Core, p \in Process :
                 Running(c, p) /\ ~Current(c) /\ pc[p] \in ExecTail \ {"exec"} => tlb[c] = {}
           /\ \A c \in Core : load[c].base.pgd # Null /\ ~Current(c) => tlb[c] = {}
           /\ \A c \in Core, p \in Process :
                 Running(c, p) /\ pc[p] \in {"user", "switched", "field", "flushed"} => ttbr0[c].asid = asid[p]
           /\ \A p \in Process : pc[p] = "read" => reg[p] = asid[p] /\ \E c \in Core : Running(c, p)
  BY Zenon DEF TlbInv, CurrentIsValid, Behind, Installed

\* What a core is about to install has a table of the process it switches to.
LEMMA Loading ==
    ASSUME Inv, NEW c \in Core, load[c].base.pgd # Null
    PROVE  /\ load[c].pending /\ load[c].proc \in Process
           /\ load[c].base.pgd = user_pgd[load[c].proc]
           /\ load[c].base.asid = asid[load[c].proc]
  <1>1. LoadInv(c) /\ KernelBase.pgd = Null /\ NoLoad.base = KernelBase
    BY Zenon DEF Inv, CoreInv, NoLoad, KernelBase, Base
  <1>2. load[c].proc \in Process \cup {NoProcess}
    BY Zenon DEF Inv, TypeOK
  <1> QED
    BY <1>1, <1>2, Zenon DEF LoadInv

\* A new process has no entries.
LEMMA CreateTlb ==
    ASSUME Inv, TlbInv, NEW p \in Process, NEW g \in Pgd, Create(p, g)
    PROVE  TlbInv'
  <1>1. /\ pc[p] \in {"free", "zombie"} /\ pc' = [pc EXCEPT ![p] = "user"]
        /\ user_pgd' = [user_pgd EXCEPT ![p] = g]
        /\ asid' = [asid EXCEPT ![p] = 0]
        /\ asid_generation' = [asid_generation EXCEPT ![p] = 0]
    BY Zenon DEF Create, GoTo, SetAsid
  <1>2. UNCHANGED <<generation, cpu_asid_gen, old_pgd, reg, cur, load, ttbr0, tlb>>
    BY Zenon DEF Create, poolVars, coreVars
  <1>3. \A d \in Core : ~Running(d, p) /\ (load[d].base.pgd # Null => load[d].proc \in Process \ {p})
    <2>1. \A d \in Core : ~On(d, p)
      BY Zenon DEF Create, On, OnACore
    <2> QED
      BY <2>1, Loading, Zenon DEF On, Running
  <1>4. \A q \in Process \ {p} :
           /\ pc'[q] = pc[q] /\ user_pgd'[q] = user_pgd[q] /\ reg'[q] = reg[q]
           /\ asid'[q] = asid[q] /\ asid_generation'[q] = asid_generation[q]
    BY <1>1, <1>2, Zenon DEF Inv, TypeOK
  <1>5. \A e : ~Owns(p, e)
    <2>1. user_pgd[p] = Null /\ ~Unflushed(p)
      BY <1>1, Zenon DEF Inv, TableInv, ExecTail, Unflushed
    <2> QED
      BY <2>1, Zenon DEF Owns
  <1>6. Owned'
    BY <1>2, <1>4, <1>5, OwnedStep, Zenon
  <1>7. /\ \A d \in Core : Current(d)' <=> Current(d)
        /\ \A d \in Core, q \in Process : Running(d, q)' <=> Running(d, q)
        /\ \A q \in Process \ {p} : Valid(q)' <=> Valid(q)
    BY <1>2, <1>4, Zenon DEF Current, Running, Valid
  <1>8. CurrentIsValid'
    <2>1. ASSUME NEW d \in Core, NEW q \in Process, (Running(d, q) /\ user_pgd[q] # Null /\ Current(d))'
          PROVE  Valid(q)'
      <3>1. q # p /\ Running(d, q) /\ Current(d)
        BY <1>3, <1>7, <2>1, Zenon
      <3>2. user_pgd[q] # Null
        BY <1>4, <2>1, <3>1, Zenon
      <3> QED
        BY <1>7, <3>1, <3>2, Parts, Zenon
    <2>2. ASSUME NEW d \in Core, (load[d].base.pgd # Null /\ Current(d))'
          PROVE  Valid(load[d].proc)'
      <3>1. load'[d] = load[d] /\ load[d].proc \in Process \ {p} /\ Valid(load[d].proc)
        BY <1>2, <1>3, <1>7, <2>2, Parts, Zenon
      <3> QED
        BY <1>2, <1>7, <3>1, Zenon DEF Valid
    <2> QED
      BY <2>1, <2>2, Zenon DEF CurrentIsValid
  <1>9. Behind'
    <2>1. ASSUME NEW d \in Core, NEW q \in Process, (At(d, q, "user") /\ ~Current(d))'
          PROVE  (tlb[d] \subseteq {ttbr0[d]})'
      <3>1. At(d, q, "user") /\ ~Current(d)
        BY <1>3, <1>4, <1>7, <2>1, Zenon DEF At
      <3> QED
        BY <1>2, <3>1, Parts, Zenon
    <2>2. ASSUME NEW d \in Core, NEW q \in Process,
                 (Running(d, q) /\ ~Current(d) /\ pc[q] \in ExecTail \ {"exec"})'
          PROVE  tlb'[d] = {}
      <3>1. Running(d, q) /\ ~Current(d) /\ pc[q] \in ExecTail \ {"exec"}
        BY <1>3, <1>4, <1>7, <2>2, Zenon
      <3> QED
        BY <1>2, <3>1, Parts, Zenon
    <2>3. ASSUME NEW d \in Core, (load[d].base.pgd # Null /\ ~Current(d))'
          PROVE  tlb'[d] = {}
      <3>1. load[d].base.pgd # Null /\ ~Current(d)
        BY <1>2, <1>7, <2>3, Zenon
      <3> QED
        BY <1>2, <3>1, Parts, Zenon
    <2> QED
      BY <2>1, <2>2, <2>3, Zenon DEF Behind
  <1>10. Installed'
    <2>1. ASSUME NEW d \in Core, NEW q \in Process,
                 (Running(d, q) /\ pc[q] \in {"user", "switched", "field", "flushed"})'
          PROVE  (ttbr0[d].asid = asid[q])'
      <3>1. q # p /\ Running(d, q) /\ pc[q] = pc'[q] /\ asid'[q] = asid[q]
        BY <1>3, <1>4, <1>7, <2>1, Zenon
      <3>2. ttbr0[d].asid = asid[q]
        BY <2>1, <3>1, Parts, Zenon
      <3> QED
        BY <1>2, <3>1, <3>2, Zenon
    <2>2. ASSUME NEW q \in Process, pc'[q] = "read"
          PROVE  reg'[q] = asid'[q] /\ \E d \in Core : Running(d, q)'
      <3>1. q # p
        BY <1>1, <2>2, Zenon DEF Inv, TypeOK
      <3> QED
        BY <1>4, <1>7, <2>2, <3>1, Parts, Zenon
    <2> QED
      BY <2>1, <2>2, Zenon DEF Installed
  <1> QED
    BY <1>6, <1>8, <1>9, <1>10, Zenon DEF TlbInv

\* A walk in user mode caches the process's own table, under its own ASID.
LEMMA FillTlb ==
    ASSUME Inv, TlbInv, ~Speculation, NEW c \in Core, Fill(c)
    PROVE  TlbInv'
  <1>1. PICK p \in Process : At(c, p, "user")
    BY Zenon DEF Fill, InUser
  <1>2. /\ tlb' = [tlb EXCEPT ![c] = @ \cup {ttbr0[c]}]
        /\ UNCHANGED <<generation, cpu_asid_gen, asid, asid_generation, user_pgd, old_pgd, reg, pc, cur, load, ttbr0>>
    BY Zenon DEF Fill, poolVars, asidVars, procVars, coreVars
  <1>3. /\ \A d \in Core \ {c} : tlb'[d] = tlb[d]
        /\ tlb'[c] = tlb[c] \cup {ttbr0[c]}
    BY <1>2, Zenon DEF Inv, TypeOK
  <1>4. /\ Running(c, p) /\ pc[p] = "user" /\ user_pgd[p] # Null
        /\ ttbr0[c].pgd = user_pgd[p] /\ ttbr0[c].asid = asid[p]
    <2>1. Running(c, p) /\ pc[p] = "user"
      BY <1>1, Zenon DEF At
    <2>2. user_pgd[p] # Null
      BY <2>1, Zenon DEF Inv, TableInv
    <2>3. ttbr0[c].pgd = user_pgd[p]
      BY <2>1, Zenon DEF Running, Inv, CoreInv, BaseInv
    <2> QED
      BY <2>1, <2>2, <2>3, Parts, Zenon
  <1>5. /\ \A d \in Core : Current(d)' <=> Current(d)
        /\ \A d \in Core, q \in Process : Running(d, q)' <=> Running(d, q)
        /\ \A d \in Core, q \in Process : At(d, q, "user")' <=> At(d, q, "user")
        /\ \A q : Valid(q)' <=> Valid(q)
        /\ \A q, e : Owns(q, e)' <=> Owns(q, e)
    BY <1>2, ZenonT(30) DEF Current, Running, At, Valid, Owns, Unflushed
  <1>6. Owned'
    <2>1. SUFFICES ASSUME NEW d \in Core, Current(d), NEW e \in tlb'[d]
                   PROVE  \E q \in Process : Owns(q, e)
      BY <1>5, Zenon DEF Owned
    <2>2. CASE e \in tlb[d]
      BY <2>1, <2>2, Zenon DEF TlbInv, Owned
    <2>3. CASE e \notin tlb[d]
      <3>1. d = c /\ e = ttbr0[c]
        BY <1>3, <2>1, <2>3, Zenon
      <3>2. Valid(p)
        BY <1>4, <2>1, <3>1, Parts, Zenon
      <3> QED
        BY <1>4, <3>1, <3>2, Zenon DEF Owns
    <2> QED
      BY <2>2, <2>3, Zenon
  <1>7. CurrentIsValid'
    BY <1>2, <1>5, Parts, Zenon DEF CurrentIsValid
  <1>8. Behind'
    <2>1. ASSUME NEW d \in Core, NEW q \in Process, At(d, q, "user"), ~Current(d)
          PROVE  tlb'[d] \subseteq {ttbr0[d]}
      BY <1>3, <2>1, Parts, Zenon
    <2>2. ASSUME NEW d \in Core, NEW q \in Process,
                 Running(d, q), ~Current(d), pc[q] \in ExecTail \ {"exec"}
          PROVE  tlb'[d] = {}
      <3>1. d # c
        BY <1>4, <2>2, Zenon DEF Running, ExecTail
      <3> QED
        BY <1>3, <2>2, <3>1, Parts, Zenon
    <2>3. ASSUME NEW d \in Core, load[d].base.pgd # Null, ~Current(d)
          PROVE  tlb'[d] = {}
      <3>1. d # c
        BY <1>4, <2>3, Loading, Zenon DEF Running
      <3> QED
        BY <1>3, <2>3, <3>1, Parts, Zenon
    <2> QED
      BY <1>2, <1>5, <2>1, <2>2, <2>3, Zenon DEF Behind
  <1>9. Installed'
    BY <1>2, <1>5, Parts, Zenon DEF Installed
  <1> QED
    BY <1>6, <1>7, <1>8, <1>9, Zenon DEF TlbInv

\* The choice of a process in sched_schedule, while exec keeps its core.
LEMMA DispatchTlb ==
    ASSUME Inv, TlbInv, NEW c \in Core, NEW p \in Process, Dispatch(c, p), Quiet
    PROVE  TlbInv'
  <1>1. /\ ~load[c].pending
        /\ \A d \in Core \ {c} : ~On(d, p)
        /\ UNCHANGED <<user_pgd, old_pgd, reg, pc, cur, ttbr0>>
        /\ \A d \in Core \ {c} : load'[d] = load[d]
        /\ load'[c].pending = TRUE /\ load'[c].proc = p
        /\ load'[c].base.pgd = user_pgd[p]
        /\ \A q \in Process \ {p} : asid'[q] = asid[q]
    BY DispatchFacts, Zenon
  <1>2. \A d \in Core, q \in Process : Running(d, q)' => d # c /\ q # p /\ Running(d, q)
    BY <1>1, Zenon DEF Running, On
  <1>3. \A d \in Core \ {c} : load[d].base.pgd # Null => load[d].proc \in Process \ {p}
    BY <1>1, Loading, Zenon DEF On
  \* The pool, whether asid_get_active was called or not.
  <1>4. /\ \A d \in Core : Current(d)' => \A e \in tlb'[d] :
              \E q \in Process : Owns(q, e) /\ Valid(q)' /\ asid'[q] = asid[q]
        /\ \A d \in Core \ {c} : Current(d)' =>
              Current(d) /\ \A q \in Process \ {p} : Valid(q) => Valid(q)'
        /\ \A d \in Core \ {c} : ~Current(d)' =>
              tlb'[d] = {} \/ (~Current(d) /\ tlb'[d] = tlb[d])
        /\ user_pgd[p] # Null => Valid(p)' /\ Current(c)'
    <2>1. CASE user_pgd[p] # Null
      BY <2>1, GetActiveTlb, GetActive, Zenon DEF Dispatch, Inv, TlbInv
    <2>2. CASE user_pgd[p] = Null
      <3>1. UNCHANGED <<generation, cpu_asid_gen, asid, asid_generation, tlb>>
        BY <2>2, Zenon DEF Dispatch, poolVars, asidVars
      <3>2. \A q : Valid(q)' <=> Valid(q)
        BY <3>1, Zenon DEF Valid
      <3>3. \A d \in Core : Current(d)' <=> Current(d)
        BY <3>1, Zenon DEF Current
      <3>4. \A d \in Core : Current(d) => \A e \in tlb[d] : \E q \in Process : Owns(q, e) /\ Valid(q)
        BY Zenon DEF TlbInv, Owned, Owns
      <3> QED
        BY <2>2, <3>1, <3>2, <3>3, <3>4, Zenon
    <2> QED
      BY <2>1, <2>2, Zenon
  <1>5. Owned'
    <2>1. SUFFICES ASSUME NEW d \in Core, Current(d)', NEW e \in tlb'[d]
                   PROVE  \E q \in Process : Owns(q, e)'
      BY Zenon DEF Owned
    <2>2. PICK q \in Process : Owns(q, e) /\ Valid(q)' /\ asid'[q] = asid[q]
      BY <1>4, <2>1, Zenon
    <2>3. Owns(q, e)'
      BY <1>1, <2>2, Zenon DEF Owns, Unflushed
    <2> QED
      BY <2>3, Zenon
  <1>6. CurrentIsValid'
    <2>1. ASSUME NEW d \in Core, NEW q \in Process, (Running(d, q) /\ user_pgd[q] # Null /\ Current(d))'
          PROVE  Valid(q)'
      <3>1. d # c /\ q # p /\ Running(d, q) /\ user_pgd[q] # Null
        BY <1>1, <1>2, <2>1, Zenon
      <3>2. Current(d) /\ (Valid(q) => Valid(q)')
        BY <1>4, <2>1, <3>1, Zenon
      <3> QED
        BY <3>1, <3>2, Parts, Zenon
    <2>2. ASSUME NEW d \in Core, (load[d].base.pgd # Null /\ Current(d))'
          PROVE  Valid(load[d].proc)'
      <3>1. CASE d = c
        BY <1>1, <1>4, <2>2, <3>1, Zenon
      <3>2. CASE d # c
        <4>1. load'[d] = load[d] /\ load[d].proc \in Process \ {p}
          BY <1>1, <1>3, <2>2, <3>2, Zenon
        <4>2. Valid(load[d].proc)
          BY <1>4, <2>2, <3>2, <4>1, Parts, Zenon
        <4>3. \A q \in Process \ {p} : Valid(q) => Valid(q)'
          BY <1>4, <2>2, <3>2, Zenon
        <4>4. PICK q \in Process \ {p} : q = load[d].proc
          BY <4>1, Zenon
        <4>5. Valid(q)' /\ load'[d].proc = q
          BY <4>1, <4>2, <4>3, <4>4, Zenon
        <4> QED
          BY <4>5, Zenon DEF Valid
      <3> QED
        BY <3>1, <3>2, Zenon
    <2> QED
      BY <2>1, <2>2, Zenon DEF CurrentIsValid
  <1>7. Behind'
    <2>1. ASSUME NEW d \in Core, NEW q \in Process, (At(d, q, "user") /\ ~Current(d))'
          PROVE  (tlb[d] \subseteq {ttbr0[d]})'
      <3>1. d # c /\ At(d, q, "user")
        BY <1>1, <1>2, <2>1, Zenon DEF At
      <3> QED
        BY <1>1, <1>4, <2>1, <3>1, Parts, Zenon
    <2>2. ASSUME NEW d \in Core, NEW q \in Process,
                 (Running(d, q) /\ ~Current(d) /\ pc[q] \in ExecTail \ {"exec"})'
          PROVE  tlb'[d] = {}
      <3>1. d # c /\ Running(d, q) /\ pc[q] \in ExecTail \ {"exec"}
        BY <1>1, <1>2, <2>2, Zenon
      <3> QED
        BY <1>4, <2>2, <3>1, Parts, Zenon
    <2>3. ASSUME NEW d \in Core, (load[d].base.pgd # Null /\ ~Current(d))'
          PROVE  tlb'[d] = {}
      <3>1. d # c
        BY <1>1, <1>4, <2>3, Zenon
      <3>2. load[d].base.pgd # Null
        BY <1>1, <2>3, <3>1, Zenon
      <3> QED
        BY <1>4, <2>3, <3>1, <3>2, Parts, Zenon
    <2> QED
      BY <2>1, <2>2, <2>3, Zenon DEF Behind
  <1>8. Installed'
    <2>1. ASSUME NEW d \in Core, NEW q \in Process,
                 (Running(d, q) /\ pc[q] \in {"user", "switched", "field", "flushed"})'
          PROVE  (ttbr0[d].asid = asid[q])'
      <3>1. q # p /\ Running(d, q) /\ pc[q] = pc'[q] /\ asid'[q] = asid[q]
        BY <1>1, <1>2, <2>1, Zenon
      <3>2. ttbr0[d].asid = asid[q]
        BY <2>1, <3>1, Parts, Zenon
      <3> QED
        BY <1>1, <3>1, <3>2, Zenon
    <2>2. ASSUME NEW q \in Process, pc'[q] = "read"
          PROVE  reg'[q] = asid'[q] /\ \E d \in Core : Running(d, q)'
      <3>1. PICK d \in Core : Running(d, q) /\ pc[q] = "read" /\ reg[q] = asid[q]
        BY <1>1, <2>2, Parts, Zenon
      <3>2. d # c
        BY <1>1, <3>1, Zenon DEF Quiet, At
      <3>3. q # p /\ Running(d, q)'
        BY <1>1, <3>1, <3>2, Zenon DEF Running, On
      <3> QED
        BY <1>1, <3>1, <3>3, Zenon
    <2> QED
      BY <2>1, <2>2, Zenon DEF Installed
  <1> QED
    BY <1>5, <1>6, <1>7, <1>8, Zenon DEF TlbInv

\* The asid_get_active of process_exec.
LEMMA ExecGetTlb ==
    ASSUME Inv, TlbInv, NEW c \in Core, NEW p \in Process, ExecGet(c, p)
    PROVE  TlbInv'
  <1>1. /\ Running(c, p) /\ pc[p] = "exec" /\ asid_get_active(c, p)
        /\ pc' = [pc EXCEPT ![p] = "got"]
        /\ UNCHANGED <<user_pgd, old_pgd, reg, cur, load, ttbr0>>
    BY Zenon DEF ExecGet, GoTo, coreVars, At
  <1>2. /\ \A q \in Process \ {p} : asid'[q] = asid[q] /\ pc'[q] = pc[q]
        /\ pc'[p] = "got" /\ Valid(p)' /\ Current(c)'
    BY <1>1, GetActive, Zenon DEF Inv, TypeOK
  <1>3. /\ \A d \in Core : Current(d)' => \A e \in tlb'[d] :
              \E q \in Process : Owns(q, e) /\ Valid(q)' /\ asid'[q] = asid[q]
        /\ \A d \in Core \ {c} : Current(d)' =>
              Current(d) /\ \A q \in Process \ {p} : Valid(q) => Valid(q)'
        /\ \A d \in Core \ {c} : ~Current(d)' =>
              tlb'[d] = {} \/ (~Current(d) /\ tlb'[d] = tlb[d])
    BY <1>1, GetActiveTlb, Zenon DEF TlbInv
  <1>4. /\ \A d \in Core, q \in Process : Running(d, q)' <=> Running(d, q)
        /\ \A d \in Core, q \in Process : Running(d, q) /\ q # p => d # c
        /\ \A d \in Core : Running(d, p) => d = c
    BY <1>1, Zenon DEF Running, Inv, CoreInv, On
  <1>5. \A d \in Core : load[d].base.pgd # Null => d # c /\ load[d].proc \in Process \ {p}
    <2>1. SUFFICES ASSUME NEW d \in Core, load[d].base.pgd # Null
                   PROVE  d # c /\ load[d].proc \in Process \ {p}
      BY Zenon
    <2>2. load[d].pending /\ load[d].proc \in Process
      BY <2>1, Loading, Zenon
    <2> QED
      BY <1>1, <2>2, Zenon DEF Running, Inv, CoreInv, On
  <1>6. Owned'
    <2>1. SUFFICES ASSUME NEW d \in Core, Current(d)', NEW e \in tlb'[d]
                   PROVE  \E q \in Process : Owns(q, e)'
      BY Zenon DEF Owned
    <2>2. PICK q \in Process : Owns(q, e) /\ Valid(q)' /\ asid'[q] = asid[q]
      BY <1>3, <2>1, Zenon
    <2>3. Unflushed(q) => Unflushed(q)'
      <3>1. CASE q = p
        BY <1>2, <3>1, Zenon DEF Unflushed
      <3>2. CASE q # p
        BY <1>1, <1>2, <3>2, Zenon DEF Unflushed
      <3> QED
        BY <3>1, <3>2, Zenon
    <2>4. Owns(q, e)'
      BY <1>1, <2>2, <2>3, Zenon DEF Owns
    <2> QED
      BY <2>4, Zenon
  <1>7. CurrentIsValid'
    <2>1. ASSUME NEW d \in Core, NEW q \in Process, (Running(d, q) /\ user_pgd[q] # Null /\ Current(d))'
          PROVE  Valid(q)'
      <3>1. CASE q = p
        BY <1>2, <3>1, Zenon
      <3>2. CASE q # p
        <4>1. d # c /\ Running(d, q) /\ user_pgd[q] # Null
          BY <1>1, <1>4, <2>1, <3>2, Zenon
        <4>2. Current(d) /\ (Valid(q) => Valid(q)')
          BY <1>3, <2>1, <3>2, <4>1, Zenon
        <4> QED
          BY <4>1, <4>2, Parts, Zenon
      <3> QED
        BY <3>1, <3>2, Zenon
    <2>2. ASSUME NEW d \in Core, (load[d].base.pgd # Null /\ Current(d))'
          PROVE  Valid(load[d].proc)'
      <3>1. load'[d] = load[d] /\ d # c /\ load[d].base.pgd # Null
        BY <1>1, <1>5, <2>2, Zenon
      <3>2. PICK q \in Process \ {p} : q = load[d].proc
        BY <1>5, <3>1, Zenon
      <3>3. Current(d) /\ (Valid(q) => Valid(q)')
        BY <1>3, <2>2, <3>1, Zenon
      <3>4. Valid(q)' /\ load'[d].proc = q
        BY <3>1, <3>2, <3>3, Parts, Zenon
      <3> QED
        BY <3>4, Zenon DEF Valid
    <2> QED
      BY <2>1, <2>2, Zenon DEF CurrentIsValid
  <1>8. Behind'
    <2>1. ASSUME NEW d \in Core, NEW q \in Process, (At(d, q, "user") /\ ~Current(d))'
          PROVE  (tlb[d] \subseteq {ttbr0[d]})'
      <3>1. q # p
        BY <1>2, <2>1, Zenon DEF At
      <3>2. d # c /\ At(d, q, "user")
        BY <1>2, <1>4, <2>1, <3>1, Zenon DEF At
      <3> QED
        BY <1>1, <1>3, <2>1, <3>2, Parts, Zenon
    <2>2. ASSUME NEW d \in Core, NEW q \in Process,
                 (Running(d, q) /\ ~Current(d) /\ pc[q] \in ExecTail \ {"exec"})'
          PROVE  tlb'[d] = {}
      <3>1. d # c /\ q # p
        BY <1>2, <1>4, <2>2, Zenon
      <3>2. Running(d, q) /\ pc[q] \in ExecTail \ {"exec"}
        BY <1>2, <1>4, <2>2, <3>1, Zenon
      <3> QED
        BY <1>3, <2>2, <3>1, <3>2, Parts, Zenon
    <2>3. ASSUME NEW d \in Core, (load[d].base.pgd # Null /\ ~Current(d))'
          PROVE  tlb'[d] = {}
      <3>1. d # c /\ load[d].base.pgd # Null
        BY <1>1, <1>5, <2>3, Zenon
      <3> QED
        BY <1>3, <2>3, <3>1, Parts, Zenon
    <2> QED
      BY <2>1, <2>2, <2>3, Zenon DEF Behind
  <1>9. Installed'
    <2>1. ASSUME NEW d \in Core, NEW q \in Process,
                 (Running(d, q) /\ pc[q] \in {"user", "switched", "field", "flushed"})'
          PROVE  (ttbr0[d].asid = asid[q])'
      <3>1. q # p
        BY <1>2, <2>1, Zenon
      <3>2. Running(d, q) /\ pc[q] = pc'[q] /\ asid'[q] = asid[q]
        BY <1>2, <1>4, <2>1, <3>1, Zenon
      <3>3. ttbr0[d].asid = asid[q]
        BY <2>1, <3>2, Parts, Zenon
      <3> QED
        BY <1>1, <3>2, <3>3, Zenon
    <2>2. ASSUME NEW q \in Process, pc'[q] = "read"
          PROVE  reg'[q] = asid'[q] /\ \E d \in Core : Running(d, q)'
      <3>1. q # p
        BY <1>2, <2>2, Zenon
      <3> QED
        BY <1>1, <1>2, <1>4, <2>2, <3>1, Parts, Zenon
    <2> QED
      BY <2>1, <2>2, Zenon DEF Installed
  <1> QED
    BY <1>6, <1>7, <1>8, <1>9, Zenon DEF TlbInv

\* The choice of a kernel task, while exec keeps its core.
LEMMA DispatchKernelTlb ==
    ASSUME Inv, TlbInv, NEW c \in Core, DispatchKernel(c), Quiet
    PROVE  TlbInv'
  <1>1. /\ load' = [load EXCEPT ![c] = [proc |-> NoProcess, pending |-> TRUE, base |-> KernelBase]]
        /\ UNCHANGED <<generation, cpu_asid_gen, asid, asid_generation, user_pgd, old_pgd, reg, pc, cur, ttbr0, tlb>>
    BY Zenon DEF DispatchKernel, poolVars, asidVars, procVars
  <1>2. /\ \A d \in Core \ {c} : load'[d] = load[d]
        /\ load'[c].pending = TRUE /\ load'[c].base.pgd = Null
    BY <1>1, Zenon DEF Inv, TypeOK, KernelBase, Base
  <1>3. /\ \A d \in Core : Current(d)' <=> Current(d)
        /\ \A q : Valid(q)' <=> Valid(q)
        /\ \A q, e : Owns(q, e)' <=> Owns(q, e)
    BY <1>1, ZenonT(30) DEF Current, Valid, Owns, Unflushed
  <1>4. \A d \in Core, q \in Process : Running(d, q)' => Running(d, q)
    BY <1>1, <1>2, Zenon DEF Running
  <1>5. Owned'
    BY <1>1, <1>3, Zenon DEF TlbInv, Owned
  <1>6. CurrentIsValid'
    <2>1. ASSUME NEW d \in Core, (load[d].base.pgd # Null /\ Current(d))'
          PROVE  Valid(load[d].proc)'
      <3>1. load'[d] = load[d] /\ load[d].base.pgd # Null /\ Current(d)
        BY <1>2, <1>3, <2>1, Zenon
      <3>2. Valid(load[d].proc)
        BY <3>1, Parts, Zenon
      <3> QED
        BY <1>1, <3>1, <3>2, Zenon DEF Valid
    <2>2. ASSUME NEW d \in Core, NEW q \in Process, (Running(d, q) /\ user_pgd[q] # Null /\ Current(d))'
          PROVE  Valid(q)'
      BY <1>1, <1>3, <1>4, <2>2, Parts, Zenon
    <2> QED
      BY <2>1, <2>2, Zenon DEF CurrentIsValid
  <1>7. Behind'
    <2>1. ASSUME NEW d \in Core, NEW q \in Process, (At(d, q, "user") /\ ~Current(d))'
          PROVE  (tlb[d] \subseteq {ttbr0[d]})'
      <3>1. At(d, q, "user") /\ ~Current(d)
        BY <1>1, <1>3, <1>4, <2>1, Zenon DEF At
      <3> QED
        BY <1>1, <3>1, Parts, Zenon
    <2>2. ASSUME NEW d \in Core, NEW q \in Process,
                 (Running(d, q) /\ ~Current(d) /\ pc[q] \in ExecTail \ {"exec"})'
          PROVE  tlb'[d] = {}
      BY <1>1, <1>3, <1>4, <2>2, Parts, Zenon
    <2>3. ASSUME NEW d \in Core, (load[d].base.pgd # Null /\ ~Current(d))'
          PROVE  tlb'[d] = {}
      <3>1. load[d].base.pgd # Null /\ ~Current(d)
        BY <1>2, <1>3, <2>3, Zenon
      <3> QED
        BY <1>1, <3>1, Parts, Zenon
    <2> QED
      BY <2>1, <2>2, <2>3, Zenon DEF Behind
  <1>8. Installed'
    <2>1. ASSUME NEW d \in Core, NEW q \in Process,
                 (Running(d, q) /\ pc[q] \in {"user", "switched", "field", "flushed"})'
          PROVE  (ttbr0[d].asid = asid[q])'
      BY <1>1, <1>4, <2>1, Parts, Zenon
    <2>2. ASSUME NEW q \in Process, pc'[q] = "read"
          PROVE  reg'[q] = asid'[q] /\ \E d \in Core : Running(d, q)'
      <3>1. PICK d \in Core : Running(d, q) /\ pc[q] = "read" /\ reg[q] = asid[q]
        BY <1>1, <2>2, Parts, Zenon
      <3>2. d # c
        BY <1>2, <3>1, Zenon DEF Quiet, At
      <3>3. Running(d, q)'
        BY <1>1, <1>2, <3>1, <3>2, Zenon DEF Running
      <3> QED
        BY <1>1, <3>1, <3>3, Zenon
    <2> QED
      BY <2>1, <2>2, Zenon DEF Installed
  <1> QED
    BY <1>5, <1>6, <1>7, <1>8, Zenon DEF TlbInv

\* The msr of sched_schedule and the context switch.
LEMMA LoadTlb ==
    ASSUME Inv, TlbInv, NEW c \in Core, Load(c)
    PROVE  TlbInv'
  <1>1. /\ load[c].pending
        /\ cur' = [cur EXCEPT ![c] = load[c].proc]
        /\ ttbr0' = [ttbr0 EXCEPT ![c] = load[c].base]
        /\ load' = [load EXCEPT ![c] = NoLoad]
        /\ UNCHANGED <<generation, cpu_asid_gen, asid, asid_generation, user_pgd, old_pgd, reg, pc, tlb>>
    BY Zenon DEF Load, poolVars, asidVars, procVars
  <1>2. /\ \A d \in Core \ {c} : load'[d] = load[d] /\ cur'[d] = cur[d] /\ ttbr0'[d] = ttbr0[d]
        /\ load'[c].base.pgd = Null /\ load'[c].pending = FALSE
        /\ cur'[c] = load[c].proc /\ ttbr0'[c] = load[c].base
    BY <1>1, Zenon DEF Inv, TypeOK, NoLoad, KernelBase, Base
  <1>3. /\ \A d \in Core : Current(d)' <=> Current(d)
        /\ \A q : Valid(q)' <=> Valid(q)
        /\ \A q, e : Owns(q, e)' <=> Owns(q, e)
    BY <1>1, ZenonT(30) DEF Current, Valid, Owns, Unflushed
  <1>4. \A d \in Core \ {c}, q \in Process : Running(d, q)' <=> Running(d, q)
    BY <1>2, Zenon DEF Running
  <1>5. \A q \in Process : Running(c, q)' => q = load[c].proc /\ load[c].base.pgd = user_pgd[q]
    <2>1. SUFFICES ASSUME NEW q \in Process, Running(c, q)'
                   PROVE  q = load[c].proc /\ load[c].base.pgd = user_pgd[q]
      BY Zenon
    <2>2. q = load[c].proc /\ q # NoProcess
      BY <1>2, <2>1, ConstFacts, Zenon DEF Running
    <2>3. LoadInv(c)
      BY Zenon DEF Inv, CoreInv
    <2> QED
      BY <1>1, <2>2, <2>3, Zenon DEF LoadInv
  <1>6. Owned'
    BY <1>1, <1>3, Zenon DEF TlbInv, Owned
  <1>7. CurrentIsValid'
    <2>1. ASSUME NEW d \in Core, (load[d].base.pgd # Null /\ Current(d))'
          PROVE  Valid(load[d].proc)'
      <3>1. load'[d] = load[d] /\ load[d].base.pgd # Null /\ Current(d)
        BY <1>2, <1>3, <2>1, Zenon
      <3>2. Valid(load[d].proc)
        BY <3>1, Parts, Zenon
      <3> QED
        BY <1>1, <3>1, <3>2, Zenon DEF Valid
    <2>2. ASSUME NEW d \in Core, NEW q \in Process, (Running(d, q) /\ user_pgd[q] # Null /\ Current(d))'
          PROVE  Valid(q)'
      <3>1. CASE d = c
        <4>1. q = load[c].proc /\ load[c].base.pgd # Null /\ Current(c)
          BY <1>1, <1>3, <1>5, <2>2, <3>1, Zenon
        <4>2. Valid(q)
          BY <4>1, Parts, Zenon
        <4> QED
          BY <1>3, <4>2, Zenon
      <3>2. CASE d # c
        BY <1>1, <1>3, <1>4, <2>2, <3>2, Parts, Zenon
      <3> QED
        BY <3>1, <3>2, Zenon
    <2> QED
      BY <2>1, <2>2, Zenon DEF CurrentIsValid
  <1>8. Behind'
    <2>1. ASSUME NEW d \in Core, NEW q \in Process, (At(d, q, "user") /\ ~Current(d))'
          PROVE  (tlb[d] \subseteq {ttbr0[d]})'
      <3>1. Running(d, q)' /\ pc[q] = "user" /\ ~Current(d)
        BY <1>1, <1>3, <2>1, Zenon DEF At
      <3>2. CASE d = c
        <4>1. load[c].base.pgd # Null
          BY <1>5, <3>1, <3>2, Zenon DEF Inv, TableInv
        <4>2. tlb[c] = {}
          BY <3>1, <3>2, <4>1, Parts, Zenon
        <4> QED
          BY <1>1, <3>2, <4>2, Zenon
      <3>3. CASE d # c
        BY <1>1, <1>2, <1>4, <3>1, <3>3, Parts, Zenon DEF At
      <3> QED
        BY <3>2, <3>3, Zenon
    <2>2. ASSUME NEW d \in Core, NEW q \in Process,
                 (Running(d, q) /\ ~Current(d) /\ pc[q] \in ExecTail \ {"exec"})'
          PROVE  tlb'[d] = {}
      <3>1. Running(d, q)' /\ pc[q] \in ExecTail \ {"exec"} /\ ~Current(d)
        BY <1>1, <1>3, <2>2, Zenon
      <3>2. CASE d = c
        <4>1. load[c].base.pgd # Null
          BY <1>5, <3>1, <3>2, Zenon DEF Inv, TableInv
        <4> QED
          BY <1>1, <3>1, <3>2, <4>1, Parts, Zenon
      <3>3. CASE d # c
        BY <1>1, <1>4, <3>1, <3>3, Parts, Zenon
      <3> QED
        BY <3>2, <3>3, Zenon
    <2>3. ASSUME NEW d \in Core, (load[d].base.pgd # Null /\ ~Current(d))'
          PROVE  tlb'[d] = {}
      <3>1. load[d].base.pgd # Null /\ ~Current(d)
        BY <1>2, <1>3, <2>3, Zenon
      <3> QED
        BY <1>1, <3>1, Parts, Zenon
    <2> QED
      BY <2>1, <2>2, <2>3, Zenon DEF Behind
  <1>9. Installed'
    <2>1. ASSUME NEW d \in Core, NEW q \in Process,
                 (Running(d, q) /\ pc[q] \in {"user", "switched", "field", "flushed"})'
          PROVE  (ttbr0[d].asid = asid[q])'
      <3>1. CASE d = c
        <4>1. q = load[c].proc /\ load[c].base.pgd # Null
          BY <1>1, <1>5, <2>1, <3>1, ZenonT(30) DEF Inv, TableInv, ExecTail
        <4> QED
          <5>1. load[c].base.asid = asid[q]
            BY <4>1, Loading, Zenon
          <5> QED
            BY <1>1, <1>2, <3>1, <5>1, Zenon
      <3>2. CASE d # c
        <4>1. ttbr0[d].asid = asid[q]
          BY <1>1, <1>4, <2>1, <3>2, Parts, Zenon
        <4> QED
          BY <1>1, <1>2, <3>2, <4>1, Zenon
      <3> QED
        BY <3>1, <3>2, Zenon
    <2>2. ASSUME NEW q \in Process, pc'[q] = "read"
          PROVE  reg'[q] = asid'[q] /\ \E d \in Core : Running(d, q)'
      <3>1. PICK d \in Core : Running(d, q) /\ reg[q] = asid[q]
        BY <1>1, <2>2, Parts, Zenon
      <3>2. d # c
        BY <1>1, <3>1, Zenon DEF Running
      <3> QED
        BY <1>1, <1>4, <3>1, <3>2, Zenon
    <2> QED
      BY <2>1, <2>2, Zenon DEF Installed
  <1> QED
    BY <1>6, <1>7, <1>8, <1>9, Zenon DEF TlbInv

(***************************************************************************)
(* The theorem.                                                            *)
(***************************************************************************)
LEMMA InitTlb == Init => TlbInv
  <1> SUFFICES ASSUME Init PROVE TlbInv
    BY Zenon
  <1>1. \A c \in Core : tlb[c] = {} /\ cur[c] = NoProcess /\ load[c].base.pgd = Null
    BY Zenon DEF Init, NoLoad, KernelBase, Base
  <1>2. \A c \in Core, p \in Process : ~Running(c, p)
    BY <1>1, ConstFacts, Zenon DEF Running
  <1>3. \A p \in Process : pc[p] # "read"
    BY Zenon DEF Init
  <1> QED
    BY <1>1, <1>2, <1>3, Zenon DEF TlbInv, Owned, CurrentIsValid, Behind, Installed, At

LEMMA NextTlb == ~Speculation /\ Inv /\ TlbInv /\ [Next /\ Quiet]_vars => TlbInv'
  <1> SUFFICES ASSUME ~Speculation, Inv, TlbInv, [Next /\ Quiet]_vars PROVE TlbInv'
    BY Zenon
  <1>1. CASE Next /\ Quiet
    <2>1. ASSUME NEW p \in Process, NEW g \in Pgd, Create(p, g) PROVE TlbInv'
      BY <2>1, CreateTlb, Zenon
    <2>2. ASSUME NEW c \in Core, DispatchKernel(c) \/ Load(c) \/ Fill(c) PROVE TlbInv'
      BY <1>1, <2>2, DispatchKernelTlb, LoadTlb, FillTlb, Zenon
    <2>3. ASSUME NEW c \in Core, NEW p \in Process,
                 \/ Dispatch(c, p) \/ ExecGet(c, p) \/ ExecRead(c, p) \/ ExecSwitch(c, p)
                 \/ ExecFlush(c, p) \/ ExecDestroy(c, p) \/ ExitPgd(c, p)
                 \/ mmu_leave_user(c, p) \/ asid_free(c, p) \/ ExitDestroy(c, p)
          PROVE  TlbInv'
      BY <1>1, <2>3, DispatchTlb, ExecGetTlb, ExecReadTlb, ExecSwitchTlb, ExecFlushTlb,
         ExecDestroyTlb, ExitPgdTlb, LeaveUserTlb, AsidFreeTlb, ExitDestroyTlb, Zenon
    <2>4. ASSUME NEW c \in Core, NEW p \in Process, NEW g \in Pgd, ExecPgd(c, p, g) PROVE TlbInv'
      BY <2>4, ExecPgdTlb, Zenon
    <2> QED
      BY <1>1, <2>1, <2>2, <2>3, <2>4, Zenon DEF Next
  <1>2. CASE UNCHANGED vars
    <2>1. /\ \A d \in Core : Current(d)' <=> Current(d)
          /\ \A q : Valid(q)' <=> Valid(q)
          /\ \A d \in Core, q \in Process : Running(d, q)' <=> Running(d, q)
          /\ \A d \in Core, q \in Process : At(d, q, "user")' <=> At(d, q, "user")
          /\ UNCHANGED <<tlb, user_pgd, load, pc, ttbr0, asid, reg, asid_generation, generation>>
      BY <1>2, Zenon DEF vars, Current, Valid, Running, At
    <2>2. \A q, e : Owns(q, e)' <=> Owns(q, e)
      BY <1>2, ZenonT(30) DEF vars, Valid, Owns, Unflushed
    <2>3. Owned'
      BY <2>1, <2>2, Zenon DEF TlbInv, Owned
    <2>4. CurrentIsValid'
      BY <2>1, Zenon DEF TlbInv, CurrentIsValid, Valid
    <2>5. Behind'
      BY <2>1, Zenon DEF TlbInv, Behind
    <2>6. Installed'
      BY <2>1, Zenon DEF TlbInv, Installed
    <2> QED
      BY <2>3, <2>4, <2>5, <2>6, Zenon DEF TlbInv
  <1> QED
    BY <1>1, <1>2, Zenon

\* No process finds in the TLB of its core what another address space, an image that
\* exec has replaced or a table given back left there: on a current core every entry
\* has one valid owner (asid_get_active, asid_free, the flush of process_exec), on a
\* core behind only the base in use has been cached since the rollover.
THEOREM NoForeignTranslations ==
    ASSUME ~Speculation
    PROVE  QuietSpec => []TlbIsolation
  <1>1. Init => Inv /\ TlbInv
    BY InitInv, InitTlb, Zenon
  <1>2. Inv /\ TlbInv /\ [Next /\ Quiet]_vars => (Inv /\ TlbInv)'
    BY NextInv, NextTlb, Zenon
  <1>3. Inv /\ TlbInv => TlbIsolation
    <2>1. SUFFICES ASSUME Inv, TlbInv, NEW c \in Core, NEW p \in Process, At(c, p, "user"),
                          NEW e \in tlb[c], e.asid = ttbr0[c].asid
                   PROVE  e.pgd = user_pgd[p]
      BY Zenon DEF TlbIsolation
    <2>2. /\ Running(c, p) /\ pc[p] = "user" /\ user_pgd[p] # Null
          /\ ttbr0[c].pgd = user_pgd[p] /\ ttbr0[c].asid = asid[p]
      <3>1. Running(c, p) /\ pc[p] = "user"
        BY <2>1, Zenon DEF At
      <3>2. user_pgd[p] # Null
        BY <2>1, <3>1, Zenon DEF Inv, TableInv
      <3>3. ttbr0[c].pgd = user_pgd[p]
        BY <2>1, <3>1, Zenon DEF Running, Inv, CoreInv, BaseInv
      <3> QED
        BY <2>1, <3>1, <3>2, <3>3, Parts, Zenon
    <2>3. CASE Current(c)
      <3>1. PICK q \in Process : Owns(q, e)
        BY <2>1, <2>3, Zenon DEF TlbInv, Owned
      <3>2. Valid(p)
        BY <2>1, <2>2, <2>3, Parts, Zenon
      <3>3. q = p
        BY <2>1, <2>2, <3>1, <3>2, Zenon DEF Owns, Inv, PoolInv, AsidUnique
      <3>4. ~Unflushed(p)
        BY <2>2, Zenon DEF Unflushed
      <3> QED
        BY <3>1, <3>3, <3>4, Zenon DEF Owns
    <2>4. CASE ~Current(c)
      BY <2>1, <2>2, <2>4, Parts, Zenon
    <2> QED
      BY <2>3, <2>4, Zenon
  <1> QED
    BY <1>1, <1>2, <1>3, PTL DEF QuietSpec

=============================================================================
