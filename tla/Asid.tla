-------------------------------- MODULE Asid --------------------------------
(***************************************************************************)
(* Address-space identifiers and what keeps the TLBs honest: the ASID pool *)
(* with its generations (kernel/mm/asid.c), and its callers, which install *)
(* and tear down address spaces: the dispatch of sched_schedule, the tail  *)
(* of process_exec and the tail of process_exit.                           *)
(*                                                                         *)
(* A page table is an atom of Pgd, a translation base the pair of a table  *)
(* and an ASID, a TLB the set of bases whose walks it has cached.  What a  *)
(* table maps is abstracted: an entry cached from a table that has been    *)
(* destroyed becomes an entry of Null, memory that is no longer the        *)
(* process's.                                                              *)
(*                                                                         *)
(* exec and exit run with interrupts enabled, so the process may lose its  *)
(* core, and be dispatched again on another one, between any two steps.    *)
(***************************************************************************)
EXTENDS Integers, FiniteSets

CONSTANTS
    N,              \* CPU_MAX_CORES
    Process,        \* slots of the process table
    Pgd,            \* pages that can hold a top-level table
    Null,           \* the null pointer; as a base, the kernel's empty table
    NoProcess,      \* a task with pid 0
    MaxAsid,        \* MAX_ASID
    MaxGeneration,  \* bound on the rollovers explored
    Speculation     \* whether the walker of a core also runs ahead in kernel mode

Core == 0..(N - 1)

ASSUME AsidAssumption ==
    /\ N \in Nat \ {0}
    /\ MaxAsid \in Nat \ {0}
    /\ MaxGeneration \in Nat \ {0}
    /\ Null \notin Pgd
    /\ NoProcess \notin Process
    /\ Speculation \in BOOLEAN

VARIABLES
    generation,       \* asid_pool.generation
    bitmap,           \* asid_pool.bitmap: the ASIDs in use, 0 always
    cpu_asid_gen,     \* the generation each core has caught up with
    asid,             \* p->asid
    asid_generation,  \* p->asid_generation
    user_pgd,         \* p->user_pgd
    old_pgd,          \* the table that exec or exit of a process is replacing
    reg,              \* the ASID that exec of a process holds in a register
    pc,               \* where a process is in exec or exit
    live,             \* the allocated tables
    cur,              \* the process each core runs, or NoProcess
    load,             \* what sched_schedule is about to install on a core
    ttbr0,            \* ttbr0_el1 of each core
    tlb               \* the bases whose translations each core has cached

poolVars == <<generation, bitmap, cpu_asid_gen>>
asidVars == <<asid, asid_generation>>
procVars == <<user_pgd, old_pgd, reg, pc>>
coreVars == <<cur, load, ttbr0>>
vars == <<generation, bitmap, cpu_asid_gen, asid, asid_generation,
          user_pgd, old_pgd, reg, pc, live, cur, load, ttbr0, tlb>>

Places == {"free", "user",
           "exec", "got", "read", "switched", "field", "flushed",
           "exit", "left", "released", "zombie"}

Base(g, a) == [pgd |-> g, asid |-> a]
KernelBase == Base(Null, 0)
NoLoad == [proc |-> NoProcess, base |-> KernelBase, pending |-> FALSE]

(***************************************************************************)
(* The pool.                                                               *)
(***************************************************************************)
Valid(p) == asid_generation[p] = generation /\ asid[p] # 0

\* Faulty variant: a core catches up with the generation without a flush.
CaughtUpUnflushed(c) == tlb

\* The local flush of a core that has not caught up with the generation.
CaughtUp(c) == [tlb EXCEPT ![c] = IF cpu_asid_gen[c] = generation THEN @ ELSE {}]

\* get_free_asid returns the first clear bit.
IsFirstFree(a) ==
    /\ a \in (0..MaxAsid) \ bitmap
    /\ \A b \in (0..MaxAsid) \ bitmap : a <= b

SetAsid(p, a, gen) ==
    /\ asid' = [asid EXCEPT ![p] = a]
    /\ asid_generation' = [asid_generation EXCEPT ![p] = gen]

KeepAsid(c, p) ==
    /\ Valid(p)
    /\ tlb' = CaughtUp(c)
    /\ cpu_asid_gen' = [cpu_asid_gen EXCEPT ![c] = generation]
    /\ UNCHANGED <<generation, bitmap, asid, asid_generation>>

NewAsid(c, p) ==
    /\ ~Valid(p)
    /\ \E a \in 0..MaxAsid :
          /\ IsFirstFree(a)
          /\ bitmap' = bitmap \cup {a}
          /\ SetAsid(p, a, generation)
    /\ tlb' = CaughtUp(c)
    /\ cpu_asid_gen' = [cpu_asid_gen EXCEPT ![c] = generation]
    /\ UNCHANGED generation

\* The pool is full: a new generation, with every TLB flushed.  Processes that
\* run on other cores go on with the ASIDs of the generation that is over.
Rollover(c, p) ==
    /\ ~Valid(p)
    /\ bitmap = 0..MaxAsid
    /\ generation < MaxGeneration
    /\ generation' = generation + 1
    /\ bitmap' = {0, 1}
    /\ SetAsid(p, 1, generation + 1)
    /\ tlb' = [d \in Core |-> {}]
    /\ cpu_asid_gen' = [cpu_asid_gen EXCEPT ![c] = generation + 1]

asid_get_active(c, p) == KeepAsid(c, p) \/ NewAsid(c, p) \/ Rollover(c, p)

\* tlbi aside1is
FlushAsid(t, a) == [d \in Core |-> {e \in t[d] : e.asid # a}]

(***************************************************************************)
(* Processes.                                                              *)
(***************************************************************************)
Running(c, p) == cur[c] = p /\ ~load[c].pending
OnACore(p) ==
    \E c \in Core : cur[c] = p \/ (load[c].pending /\ load[c].proc = p)

At(c, p, place) == Running(c, p) /\ pc[p] = place
GoTo(p, place) == pc' = [pc EXCEPT ![p] = place]

\* process_create_from_file and process_fork, in a slot that is free or whose
\* zombie has been reaped.
Create(p, g) ==
    /\ pc[p] \in {"free", "zombie"} /\ ~OnACore(p)
    /\ g \notin live
    /\ live' = live \cup {g}
    /\ user_pgd' = [user_pgd EXCEPT ![p] = g]
    /\ SetAsid(p, 0, 0)
    /\ GoTo(p, "user")
    /\ UNCHANGED <<poolVars, old_pgd, reg, coreVars, tlb>>

\* sched_schedule picks p: task_ttbr0_for computes its base under the locks.
Dispatch(c, p) ==
    /\ ~load[c].pending
    /\ pc[p] \notin {"free", "zombie"}
    /\ OnACore(p) => cur[c] = p
    /\ IF user_pgd[p] # Null
       THEN asid_get_active(c, p)
       ELSE UNCHANGED <<poolVars, asidVars, tlb>>
    /\ load' = [load EXCEPT ![c] =
                  [proc |-> p, pending |-> TRUE,
                   base |-> IF user_pgd[p] # Null THEN Base(user_pgd[p], asid'[p])
                                                  ELSE KernelBase]]
    /\ UNCHANGED <<procVars, live, cur, ttbr0>>

\* sched_schedule picks a task with pid 0.
DispatchKernel(c) ==
    /\ ~load[c].pending
    /\ load' = [load EXCEPT ![c] =
                  [proc |-> NoProcess, pending |-> TRUE, base |-> KernelBase]]
    /\ UNCHANGED <<poolVars, asidVars, procVars, live, cur, ttbr0, tlb>>

\* msr ttbr0_el1 and switch_context: the previous process leaves the core.
Load(c) ==
    /\ load[c].pending
    /\ cur' = [cur EXCEPT ![c] = load[c].proc]
    /\ ttbr0' = [ttbr0 EXCEPT ![c] = load[c].base]
    /\ load' = [load EXCEPT ![c] = NoLoad]
    /\ UNCHANGED <<poolVars, asidVars, procVars, live, tlb>>

\* In the process's own code, where its user memory is accessed.
InUser(c) == \E p \in Process : At(c, p, "user")

\* The hardware: a walk of the table in ttbr0 is cached under its ASID.
Fill(c) ==
    /\ ttbr0[c].pgd # Null
    /\ InUser(c) \/ Speculation
    /\ tlb' = [tlb EXCEPT ![c] = @ \cup {ttbr0[c]}]
    /\ UNCHANGED <<poolVars, asidVars, procVars, live, coreVars>>

\* mmu_destroy_user_pgd returns the table and all it maps to the allocator.
Destroy(g) ==
    /\ live' = live \ {g}
    /\ tlb' = [d \in Core |-> {IF e.pgd = g THEN Base(Null, e.asid) ELSE e : e \in tlb[d]}]

(***************************************************************************)
(* The tail of process_exec, once the new image stands.                    *)
(***************************************************************************)
ExecPgd(c, p, g) ==
    /\ At(c, p, "user")
    /\ g \notin live
    /\ live' = live \cup {g}
    /\ old_pgd' = [old_pgd EXCEPT ![p] = user_pgd[p]]
    /\ user_pgd' = [user_pgd EXCEPT ![p] = g]
    /\ GoTo(p, "exec")
    /\ UNCHANGED <<poolVars, asidVars, reg, coreVars, tlb>>

ExecGet(c, p) ==
    /\ At(c, p, "exec")
    /\ asid_get_active(c, p)
    /\ GoTo(p, "got")
    /\ UNCHANGED <<user_pgd, old_pgd, reg, live, coreVars>>

\* p->asid is read for mmu_switch_user, and again for the flush.
ExecRead(c, p) ==
    /\ \/ At(c, p, "got") /\ GoTo(p, "read")
       \/ At(c, p, "switched") /\ GoTo(p, "field")
    /\ reg' = [reg EXCEPT ![p] = asid[p]]
    /\ UNCHANGED <<poolVars, asidVars, user_pgd, old_pgd, live, coreVars, tlb>>

ExecSwitch(c, p) ==
    /\ At(c, p, "read")
    /\ ttbr0' = [ttbr0 EXCEPT ![c] = Base(user_pgd[p], reg[p])]
    /\ reg' = [reg EXCEPT ![p] = 0]
    /\ GoTo(p, "switched")
    /\ UNCHANGED <<poolVars, asidVars, user_pgd, old_pgd, live, cur, load, tlb>>

ExecFlush(c, p) ==
    /\ At(c, p, "field")
    /\ tlb' = FlushAsid(tlb, reg[p])
    /\ reg' = [reg EXCEPT ![p] = 0]
    /\ GoTo(p, "flushed")
    /\ UNCHANGED <<poolVars, asidVars, user_pgd, old_pgd, live, coreVars>>

ExecDestroy(c, p) ==
    /\ At(c, p, "flushed")
    /\ Destroy(old_pgd[p])
    /\ old_pgd' = [old_pgd EXCEPT ![p] = Null]
    /\ GoTo(p, "user")
    /\ UNCHANGED <<poolVars, asidVars, user_pgd, reg, coreVars>>

(***************************************************************************)
(* The tail of process_exit.                                               *)
(***************************************************************************)
\* Faulty variant: p->user_pgd is left in place while its table is torn down.
ExitPgdKeeps(c, p) ==
    /\ At(c, p, "user")
    /\ old_pgd' = [old_pgd EXCEPT ![p] = user_pgd[p]]
    /\ GoTo(p, "exit")
    /\ UNCHANGED <<poolVars, asidVars, user_pgd, reg, live, coreVars, tlb>>

ExitPgd(c, p) ==
    /\ At(c, p, "user")
    /\ old_pgd' = [old_pgd EXCEPT ![p] = user_pgd[p]]
    /\ user_pgd' = [user_pgd EXCEPT ![p] = Null]
    /\ GoTo(p, "exit")
    /\ UNCHANGED <<poolVars, asidVars, reg, live, coreVars, tlb>>

mmu_leave_user(c, p) ==
    /\ At(c, p, "exit")
    /\ ttbr0' = [ttbr0 EXCEPT ![c] = KernelBase]
    /\ GoTo(p, "left")
    /\ UNCHANGED <<poolVars, asidVars, user_pgd, old_pgd, reg, live, cur, load, tlb>>

\* Faulty variant: the ASID of a generation that is over is freed all the same.
asid_free_stale(c, p) ==
    /\ At(c, p, "left")
    /\ bitmap' = bitmap \ ({asid[p]} \ {0})
    /\ tlb' = FlushAsid(tlb, asid[p])
    /\ SetAsid(p, 0, 0)
    /\ GoTo(p, "released")
    /\ UNCHANGED <<generation, cpu_asid_gen, user_pgd, old_pgd, reg, live, coreVars>>

asid_free(c, p) ==
    /\ At(c, p, "left")
    /\ IF Valid(p)
       THEN bitmap' = bitmap \ {asid[p]} /\ tlb' = FlushAsid(tlb, asid[p])
       ELSE UNCHANGED <<bitmap, tlb>>
    /\ SetAsid(p, 0, 0)
    /\ GoTo(p, "released")
    /\ UNCHANGED <<generation, cpu_asid_gen, user_pgd, old_pgd, reg, live, coreVars>>

ExitDestroy(c, p) ==
    /\ At(c, p, "released")
    /\ Destroy(old_pgd[p])
    /\ old_pgd' = [old_pgd EXCEPT ![p] = Null]
    /\ GoTo(p, "zombie")
    /\ UNCHANGED <<poolVars, asidVars, user_pgd, reg, coreVars>>

(***************************************************************************)
(* After asid_init, before the first process is created.                   *)
(***************************************************************************)
Init ==
    /\ generation = 1
    /\ bitmap = {0}
    /\ cpu_asid_gen = [c \in Core |-> 0]
    /\ asid = [p \in Process |-> 0]
    /\ asid_generation = [p \in Process |-> 0]
    /\ user_pgd = [p \in Process |-> Null]
    /\ old_pgd = [p \in Process |-> Null]
    /\ reg = [p \in Process |-> 0]
    /\ pc = [p \in Process |-> "free"]
    /\ live = {}
    /\ cur = [c \in Core |-> NoProcess]
    /\ load = [c \in Core |-> NoLoad]
    /\ ttbr0 = [c \in Core |-> KernelBase]
    /\ tlb = [c \in Core |-> {}]

Next ==
    \/ \E p \in Process, g \in Pgd : Create(p, g)
    \/ \E c \in Core : DispatchKernel(c) \/ Load(c) \/ Fill(c)
    \/ \E c \in Core, p \in Process :
          \/ Dispatch(c, p)
          \/ \E g \in Pgd : ExecPgd(c, p, g)
          \/ ExecGet(c, p)
          \/ ExecRead(c, p)
          \/ ExecSwitch(c, p)
          \/ ExecFlush(c, p)
          \/ ExecDestroy(c, p)
          \/ ExitPgd(c, p)
          \/ mmu_leave_user(c, p)
          \/ asid_free(c, p)
          \/ ExitDestroy(c, p)

Spec == Init /\ [][Next]_vars

\* The steps by which no process gives up its core between exec's read of
\* p->asid and the msr that installs it.
Quiet == \A c \in Core, p \in Process : At(c, p, "read") => ~load'[c].pending

QuietSpec == Init /\ [][Next /\ Quiet]_vars

(***************************************************************************)
(* Properties.                                                             *)
(***************************************************************************)
BaseType == [pgd : Pgd \cup {Null}, asid : 0..MaxAsid]

\* Every variable has its type: generations start at 1, and an ASID in a
\* process, a register, a base or the TLB never exceeds MAX_ASID.
TypeOK ==
    /\ generation \in 1..MaxGeneration
    /\ bitmap \in SUBSET (0..MaxAsid)
    /\ cpu_asid_gen \in [Core -> 0..MaxGeneration]
    /\ asid \in [Process -> 0..MaxAsid]
    /\ asid_generation \in [Process -> 0..MaxGeneration]
    /\ user_pgd \in [Process -> Pgd \cup {Null}]
    /\ old_pgd \in [Process -> Pgd \cup {Null}]
    /\ reg \in [Process -> 0..MaxAsid]
    /\ pc \in [Process -> Places]
    /\ live \in SUBSET Pgd
    /\ cur \in [Core -> Process \cup {NoProcess}]
    /\ load \in [Core -> [proc : Process \cup {NoProcess}, base : BaseType,
                          pending : BOOLEAN]]
    /\ ttbr0 \in [Core -> BaseType]
    /\ tlb \in [Core -> SUBSET BaseType]

\* Two processes never hold the same ASID of the current generation, none holds
\* one the pool would hand out again, and ASID 0 stays the kernel's: what
\* get_free_asid, the rollover and asid_free keep between them.
AsidUnique ==
    /\ 0 \in bitmap
    /\ \A p \in Process : Valid(p) => asid[p] \in bitmap
    /\ \A p, q \in Process : Valid(p) /\ Valid(q) /\ asid[p] = asid[q] => p = q

\* No core's translation base names a table that has gone back to the
\* allocator, however exec and exit are preempted and migrated: the order of
\* process_exit's tail, and the reload on every dispatch.
NoDanglingTables ==
    \A c \in Core : ttbr0[c].pgd \in live \cup {Null}

\* What a core in user mode finds in its TLB under the ASID it runs with comes
\* from the page table of the process it runs, never from another address
\* space, an image exec has replaced, or memory that was freed.
TlbIsolation ==
    \A c \in Core, p \in Process :
        At(c, p, "user") =>
            \A e \in tlb[c] : e.asid = ttbr0[c].asid => e.pgd = user_pgd[p]
=============================================================================
