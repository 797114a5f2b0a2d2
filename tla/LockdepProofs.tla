---------------------------- MODULE LockdepProofs ----------------------------
(***************************************************************************)
(* Lockdep, for any number of cores and locks.                             *)
(***************************************************************************)
EXTENDS Lockdep, FiniteSetTheorems, WellFoundedInduction, TLAPS

Strict(E) ==
    /\ E \subseteq Lock \X Lock
    /\ \A x \in Lock : <<x, x>> \notin E
    /\ \A x, y, z \in Lock : <<x, y>> \in E /\ <<y, z>> \in E => <<x, z>> \in E

Place ==
    {Outside}
    \cup [pc : {"edges"}, lock : Lock, left : SUBSET Lock]
    \cup [pc : {"spin", "unlock"}, lock : Lock]

LockTypeOK ==
    /\ locked \in [Lock -> Core \cup {NoCore}]
    /\ preempt_count \in [Core -> Int]
    /\ held_locks \in [Core -> SUBSET Lock]
    /\ lock_nodes \in SUBSET Lock
    /\ lockdep_lock \in Core \cup {NoCore}
    /\ at \in [Core -> Place]
    /\ panicked \in BOOLEAN

\* What a core has acquired or is about to: all of it is in the graph, or the graph is full.
Wanted(c) == held_locks[c] \cup (IF at[c].pc = "edges" THEN {at[c].lock} ELSE {})
Ordered(h, l) == {h, l} \subseteq lock_nodes => <<h, l>> \in graph_edges

\* A lock that a core has is on its record until spin_unlock takes it off.
OnRecord == \A c \in Core, l \in Lock :
    locked[l] = c => l \in held_locks[c] \/ (at[c].pc = "unlock" /\ at[c].lock = l)

\* The scan goes over all that the core holds, and nothing else is added to the graph meanwhile.
Scanning == \A c \in Core : at[c].pc = "edges" =>
    /\ lockdep_lock = c
    /\ at[c].lock \notin held_locks[c]
    /\ at[c].left \subseteq held_locks[c]
    /\ \A h \in held_locks[c] \ at[c].left : Ordered(h, at[c].lock)

\* A core that spins does so for a lock that comes after all it holds.
Spinning == \A c \in Core : at[c].pc = "spin" =>
    /\ at[c].lock \in held_locks[c]
    /\ locked[at[c].lock] # c
    /\ \A h \in held_locks[c] \ {at[c].lock} : Ordered(h, at[c].lock)

InGraph == Full \/ \A c \in Core : Wanted(c) \subseteq lock_nodes

OrderInv == LockTypeOK /\ Strict(graph_edges) /\ OnRecord /\ Scanning /\ Spinning /\ InGraph

\* The count runs ahead of the record: it goes up before it, and down after the lock is back.
Ahead(c) == IF at[c].pc \in {"edges", "unlock"} THEN 1 ELSE 0
CountInv == \A c \in Core : preempt_count[c] >= Cardinality(held_locks[c]) + Ahead(c)

-----------------------------------------------------------------------------
(* What set_edge does to a strict order: the loops of lockdep_acquire keep the graph closed. *)
LEMMA SetEdgeStrict ==
    ASSUME NEW E, Strict(E), NEW h \in Lock, NEW l \in Lock,
           h # l, <<l, h>> \notin E
    PROVE  /\ Strict(set_edge(E, h, l))
           /\ E \subseteq set_edge(E, h, l)
           /\ <<h, l>> \in set_edge(E, h, l)
<1> DEFINE F == set_edge(E, h, l)
<1>1. \A x, y \in Lock : <<x, y>> \in F <=>
          \/ <<x, y>> \in E
          \/ (x = h \/ <<x, h>> \in E) /\ (y = l \/ <<l, y>> \in E)
  BY DEF set_edge, UpTo, From
<1>2. F \subseteq Lock \X Lock
  BY DEF set_edge, UpTo, From, Strict
<1>3. \A x \in Lock : <<x, x>> \notin F
  BY <1>1 DEF Strict
<1>4. \A x, y, z \in Lock : <<x, y>> \in F /\ <<y, z>> \in F => <<x, z>> \in F
  <2> SUFFICES ASSUME NEW x \in Lock, NEW y \in Lock, NEW z \in Lock,
                      <<x, y>> \in F, <<y, z>> \in F
               PROVE  <<x, z>> \in F
    OBVIOUS
  <2> HIDE DEF F
  <2>1. CASE <<x, y>> \in E /\ <<y, z>> \in E
    BY <2>1, <1>1, Zenon DEF Strict
  <2>2. CASE <<x, y>> \in E /\ <<y, z>> \notin E
    <3>1. (y = h \/ <<y, h>> \in E) /\ (z = l \/ <<l, z>> \in E)
      BY <2>2, <1>1
    <3>2. <<x, h>> \in E
      BY <3>1, <2>2 DEF Strict
    <3> QED
      BY <3>1, <3>2, <1>1
  <2>3. CASE <<x, y>> \notin E /\ <<y, z>> \in E
    <3>1. (x = h \/ <<x, h>> \in E) /\ (y = l \/ <<l, y>> \in E)
      BY <2>3, <1>1
    <3>2. <<l, z>> \in E
      BY <3>1, <2>3 DEF Strict
    <3> QED
      BY <3>1, <3>2, <1>1
  <2>4. CASE <<x, y>> \notin E /\ <<y, z>> \notin E
    <3>1. (y = l \/ <<l, y>> \in E) /\ (y = h \/ <<y, h>> \in E)
      BY <2>4, <1>1, Zenon
    <3>2. <<l, h>> \in E \/ l = h
      BY <3>1 DEF Strict
    <3> QED
      BY <3>2
  <2> QED
    BY <2>1, <2>2, <2>3, <2>4
<1>5. E \subseteq F /\ <<h, l>> \in F
  BY DEF set_edge, UpTo, From
<1> QED
  BY <1>2, <1>3, <1>4, <1>5 DEF Strict
-----------------------------------------------------------------------------
LEMMA OrderInit == LockInit => OrderInv
<1> SUFFICES ASSUME LockInit PROVE OrderInv
  OBVIOUS
<1>1. LockTypeOK
  <2>1. preempt_count \in [Core -> Int]
    BY DEF LockInit
  <2> QED
    BY <2>1, Zenon DEF LockInit, LockTypeOK, Place
<1>2. Strict(graph_edges)
  BY DEF LockInit, Strict
<1>3. OnRecord /\ Scanning /\ Spinning /\ InGraph
  BY LockAssumption DEF LockInit, OnRecord, Scanning, Spinning, InGraph, Wanted, Outside
<1> QED
  BY <1>1, <1>2, <1>3 DEF OrderInv

\* A panic stops everything where it is; the count of the core that panicked has gone up.
LEMMA PanicKeeps ==
    ASSUME OrderInv, Panic, preempt_count' \in [Core -> Int]
    PROVE  OrderInv'
<1>1. LockTypeOK' /\ Strict(graph_edges)'
  BY DEF OrderInv, Panic, LockTypeOK, Strict
<1>2. OnRecord' /\ Scanning' /\ Spinning' /\ InGraph'
  BY DEF OrderInv, Panic, OnRecord, Scanning, Spinning, InGraph, Ordered, Wanted, Full
<1> QED
  BY <1>1, <1>2 DEF OrderInv

LEMMA spin_lockKeeps ==
    ASSUME OrderInv, NEW c \in Core, NEW l \in Lock, spin_lock(c, l)
    PROVE  OrderInv'
<1> USE DEF OrderInv
<1>1. preempt_count' \in [Core -> Int]
  BY DEF spin_lock, LockTypeOK
<1>2. CASE Panic
  BY <1>1, <1>2, PanicKeeps
<1>3. CASE ~Panic
  <2>1. /\ ~(l \in held_locks[c]) /\ lockdep_lock = NoCore /\ lockdep_lock' = c /\ at[c] = Outside
        /\ lock_nodes' = get_or_create_node(l)
        /\ at' = [at EXCEPT ![c] = [pc |-> "edges", lock |-> l, left |-> held_locks[c]]]
        /\ UNCHANGED <<locked, held_locks, graph_edges, panicked>>
    BY <1>3 DEF spin_lock
  <2>2. at'[c] = [pc |-> "edges", lock |-> l, left |-> held_locks[c]] /\ \A d \in Core \ {c} : at'[d] = at[d]
    BY <2>1 DEF LockTypeOK
  <2>3. lock_nodes \subseteq lock_nodes' /\ lock_nodes' \subseteq Lock
    BY <2>1 DEF get_or_create_node, LockTypeOK
  <2>4. LockTypeOK'
    BY <1>1, <2>1, <2>3 DEF LockTypeOK, Place
  <2>5. OnRecord'
    BY <2>1, <2>2 DEF OnRecord, Outside
  <2>6. CASE Full
    <3>1. lock_nodes' = lock_nodes
      BY <2>1, <2>6 DEF get_or_create_node
    <3>2. Scanning'
      BY <3>1, <2>1, <2>2, LockAssumption DEF Scanning, Ordered
    <3>3. Spinning'
      BY <3>1, <2>1, <2>2 DEF Spinning, Ordered
    <3>4. InGraph'
      BY <3>1, <2>6 DEF InGraph, Full
    <3> QED
      BY <2>1, <2>4, <2>5, <3>2, <3>3, <3>4 DEF Strict
  <2>7. CASE ~Full
    <3>1. lock_nodes' = lock_nodes \cup {l} /\ \A d \in Core : held_locks[d] \subseteq lock_nodes
      BY <2>1, <2>7 DEF get_or_create_node, InGraph, Wanted
    <3>2. Scanning'
      BY <3>1, <2>1, <2>2, LockAssumption DEF Scanning, Ordered
    <3>3. Spinning'
      BY <3>1, <2>1, <2>2 DEF Spinning, Ordered
    <3>4. \A d \in Core : Wanted(d)' \subseteq lock_nodes'
      BY <3>1, <2>1, <2>2, <2>7 DEF Wanted, InGraph
    <3> QED
      BY <2>1, <2>4, <2>5, <3>2, <3>3, <3>4 DEF Strict, InGraph
  <2> QED
    BY <2>6, <2>7
<1> QED
  BY <1>2, <1>3

LEMMA CheckEdgeKeeps ==
    ASSUME OrderInv, NEW c \in Core, NEW h \in Lock, CheckEdge(c, h)
    PROVE  OrderInv'
<1> USE DEF OrderInv
<1>1. CASE Panic
  BY <1>1, PanicKeeps DEF CheckEdge, LockTypeOK
<1>2. CASE ~Panic
  <2> DEFINE l == at[c].lock
  <2>1. /\ at[c].pc = "edges" /\ h \in at[c].left
        /\ at' = [at EXCEPT ![c].left = @ \ {h}]
        /\ UNCHANGED <<locked, preempt_count, held_locks, lock_nodes, lockdep_lock, panicked>>
        /\ {h, l} \subseteq lock_nodes => <<l, h>> \notin graph_edges
        /\ graph_edges' = IF {h, l} \subseteq lock_nodes /\ <<h, l>> \notin graph_edges
                          THEN set_edge(graph_edges, h, l) ELSE graph_edges
    BY <1>2 DEF CheckEdge
  <2>2. /\ at[c] \in [pc : {"edges"}, lock : Lock, left : SUBSET Lock]
        /\ l \in Lock /\ h \in held_locks[c] /\ h # l
    BY <2>1 DEF LockTypeOK, Place, Outside, Scanning
  <2>3. /\ at'[c] = [at[c] EXCEPT !.left = @ \ {h}]
        /\ \A d \in Core \ {c} : at'[d] = at[d]
    BY <2>1 DEF LockTypeOK
  <2>4. /\ at'[c].pc = "edges" /\ at'[c].lock = l /\ at'[c].left = at[c].left \ {h}
        /\ at'[c] \in [pc : {"edges"}, lock : Lock, left : SUBSET Lock]
    BY <2>1, <2>2, <2>3
  <2>5. Strict(graph_edges)' /\ graph_edges \subseteq graph_edges'
        /\ ({h, l} \subseteq lock_nodes => <<h, l>> \in graph_edges')
    <3>1. CASE {h, l} \subseteq lock_nodes /\ <<h, l>> \notin graph_edges
      <4>1. graph_edges' = set_edge(graph_edges, h, l) /\ <<l, h>> \notin graph_edges
        BY <3>1, <2>1
      <4>2. /\ Strict(set_edge(graph_edges, h, l))
            /\ graph_edges \subseteq set_edge(graph_edges, h, l)
            /\ <<h, l>> \in set_edge(graph_edges, h, l)
        <5> HIDE DEF l
        <5> QED
          BY <4>1, <2>2, SetEdgeStrict
      <4> QED
        BY <4>1, <4>2 DEF Strict
    <3>2. CASE ~({h, l} \subseteq lock_nodes /\ <<h, l>> \notin graph_edges)
      BY <3>2, <2>1 DEF Strict
    <3> QED
      BY <3>1, <3>2
  <2>6. LockTypeOK'
    BY <2>1, <2>3, <2>4 DEF LockTypeOK, Place
  <2>7. OnRecord'
    BY <2>1, <2>3, <2>4 DEF OnRecord
  <2>8. Scanning'
    BY <2>1, <2>3, <2>4, <2>5 DEF Scanning, Ordered
  <2>9. Spinning'
    BY <2>1, <2>3, <2>4, <2>5 DEF Spinning, Ordered
  <2>10. InGraph'
    BY <2>1, <2>3, <2>4 DEF InGraph, Wanted, Full
  <2> QED
    BY <2>5, <2>6, <2>7, <2>8, <2>9, <2>10
<1> QED
  BY <1>1, <1>2

LEMMA lockdep_acquireKeeps ==
    ASSUME OrderInv, NEW c \in Core, lockdep_acquire(c)
    PROVE  OrderInv'
<1> USE DEF OrderInv
<1> DEFINE l == at[c].lock
<1>1. /\ at[c].pc = "edges" /\ at[c].left = {} /\ l \in Lock
      /\ l \notin held_locks[c] /\ lockdep_lock = c
      /\ \A h \in held_locks[c] : Ordered(h, l)
  BY DEF lockdep_acquire, LockTypeOK, Place, Outside, Scanning
<1>2. /\ at'[c] = [pc |-> "spin", lock |-> l] /\ \A d \in Core \ {c} : at'[d] = at[d]
      /\ held_locks'[c] = held_locks[c] \cup {l}
      /\ \A d \in Core \ {c} : held_locks'[d] = held_locks[d]
  BY DEF lockdep_acquire, LockTypeOK
<1>3. LockTypeOK'
  BY <1>1 DEF lockdep_acquire, LockTypeOK, Place
<1>4. OnRecord'
  BY <1>1, <1>2 DEF lockdep_acquire, OnRecord
<1>5. Scanning'
  BY <1>1, <1>2 DEF lockdep_acquire, Scanning, Ordered
<1>6. Spinning'
  <2>1. locked[l] # c
    BY <1>1 DEF OnRecord
  <2> QED
    BY <2>1, <1>1, <1>2 DEF lockdep_acquire, Spinning, Ordered
<1>7. InGraph'
  BY <1>1, <1>2 DEF lockdep_acquire, InGraph, Wanted, Full
<1> QED
  BY <1>3, <1>4, <1>5, <1>6, <1>7 DEF lockdep_acquire, Strict

LEMMA TakeKeeps ==
    ASSUME OrderInv, NEW c \in Core, Take(c)
    PROVE  OrderInv'
<1> USE DEF OrderInv
<1> DEFINE l == at[c].lock
<1>1. /\ at[c].pc = "spin" /\ l \in Lock /\ l \in held_locks[c]
  BY DEF Take, LockTypeOK, Place, Outside, Spinning
<1>2. /\ at'[c] = Outside /\ \A d \in Core \ {c} : at'[d] = at[d]
      /\ locked'[l] = c /\ \A m \in Lock \ {l} : locked'[m] = locked[m]
  BY <1>1 DEF Take, LockTypeOK
<1>3. LockTypeOK'
  BY <1>1 DEF Take, LockTypeOK, Place
<1>4. OnRecord'
  <2> SUFFICES ASSUME NEW d \in Core, NEW m \in Lock, locked'[m] = d
               PROVE  m \in held_locks'[d] \/ (at'[d].pc = "unlock" /\ at'[d].lock = m)
    BY DEF OnRecord
  <2>1. CASE m = l
    BY <2>1, <1>1, <1>2 DEF Take
  <2>2. CASE m # l
    BY <2>2, <1>1, <1>2 DEF Take, OnRecord
  <2> QED
    BY <2>1, <2>2
<1>5. Scanning'
  BY <1>2 DEF Take, Scanning, Ordered, Outside
<1>6. Spinning'
  BY <1>1, <1>2 DEF Take, Spinning, Ordered, Outside, LockTypeOK, Place
<1>7. InGraph'
  BY <1>1, <1>2 DEF Take, InGraph, Wanted, Full, Outside
<1> QED
  BY <1>3, <1>4, <1>5, <1>6, <1>7 DEF Take, Strict

LEMMA lockdep_releaseKeeps ==
    ASSUME OrderInv, NEW c \in Core, NEW l \in Lock, lockdep_release(c, l)
    PROVE  OrderInv'
<1> USE DEF OrderInv
<1>1. /\ at'[c] = [pc |-> "unlock", lock |-> l] /\ \A d \in Core \ {c} : at'[d] = at[d]
      /\ held_locks'[c] = held_locks[c] \ {l}
      /\ \A d \in Core \ {c} : held_locks'[d] = held_locks[d]
  BY DEF lockdep_release, LockTypeOK
<1>2. LockTypeOK'
  BY DEF lockdep_release, LockTypeOK, Place
<1>3. OnRecord'
  BY <1>1 DEF lockdep_release, OnRecord, Outside
<1>4. Scanning'
  BY <1>1 DEF lockdep_release, Scanning, Ordered
<1>5. Spinning'
  BY <1>1 DEF lockdep_release, Spinning, Ordered
<1>6. InGraph'
  BY <1>1 DEF lockdep_release, InGraph, Wanted, Full
<1> QED
  BY <1>2, <1>3, <1>4, <1>5, <1>6 DEF lockdep_release, Strict

LEMMA spin_unlockKeeps ==
    ASSUME OrderInv, NEW c \in Core, spin_unlock(c)
    PROVE  OrderInv'
<1> USE DEF OrderInv
<1> DEFINE l == at[c].lock
<1>1. at[c].pc = "unlock" /\ l \in Lock
  BY DEF spin_unlock, LockTypeOK, Place, Outside
<1>2. /\ at'[c] = Outside /\ \A d \in Core \ {c} : at'[d] = at[d]
      /\ locked'[l] = NoCore /\ \A m \in Lock \ {l} : locked'[m] = locked[m]
  BY <1>1 DEF spin_unlock, LockTypeOK
<1>3. LockTypeOK'
  BY <1>1 DEF spin_unlock, LockTypeOK, Place
<1>4. OnRecord'
  BY <1>1, <1>2, LockAssumption DEF spin_unlock, OnRecord
<1>5. Scanning'
  BY <1>2 DEF spin_unlock, Scanning, Ordered, Outside
<1>6. Spinning'
  <2> SUFFICES ASSUME NEW d \in Core, at'[d].pc = "spin"
               PROVE  /\ at'[d].lock \in held_locks'[d] /\ locked'[at'[d].lock] # d
                      /\ \A h \in held_locks'[d] \ {at'[d].lock} :
                            {h, at'[d].lock} \subseteq lock_nodes' => <<h, at'[d].lock>> \in graph_edges'
    BY DEF Spinning, Ordered
  <2>1. d # c /\ at'[d] = at[d]
    BY <1>2 DEF Outside
  <2>2. at[d].lock \in Lock
    BY <2>1 DEF LockTypeOK, Place, Outside
  <2>3. locked'[at[d].lock] # d
    BY <1>2, <2>1, <2>2, LockAssumption DEF Spinning
  <2> QED
    BY <2>1, <2>3 DEF spin_unlock, Spinning, Ordered
<1>7. InGraph'
  BY <1>1, <1>2 DEF spin_unlock, InGraph, Wanted, Full, Outside
<1> QED
  BY <1>3, <1>4, <1>5, <1>6, <1>7 DEF spin_unlock, Strict

LEMMA OrderStep == OrderInv /\ [LockNext]_lockVars => OrderInv'
<1> SUFFICES ASSUME OrderInv, [LockNext]_lockVars PROVE OrderInv'
  OBVIOUS
<1>1. CASE LockNext
  BY <1>1, spin_lockKeeps, CheckEdgeKeeps, lockdep_acquireKeeps, TakeKeeps, lockdep_releaseKeeps,
     spin_unlockKeeps, SMTT(30) DEF LockNext
<1>2. CASE UNCHANGED lockVars
  BY <1>2 DEF lockVars, OrderInv, LockTypeOK, Strict, OnRecord, Scanning, Spinning, InGraph,
     Ordered, Wanted, Full
<1> QED
  BY <1>1, <1>2

-----------------------------------------------------------------------------
LEMMA HeldFinite ==
    ASSUME LockTypeOK, NEW c \in Core
    PROVE  IsFiniteSet(held_locks[c]) /\ Cardinality(held_locks[c]) \in Nat
<1>1. held_locks[c] \in SUBSET Lock
  BY DEF LockTypeOK
<1> QED
  BY <1>1, FS_Subset, FS_CardinalityType, LockAssumption

\* One lock more or less on the record of a core.
LEMMA OneMoreOrLess ==
    ASSUME NEW S, IsFiniteSet(S), NEW x
    PROVE  /\ Cardinality(S \cup {x}) \in {Cardinality(S), Cardinality(S) + 1}
           /\ x \in S => Cardinality(S \ {x}) = Cardinality(S) - 1
<1>1. Cardinality(S \cup {x}) = IF x \in S THEN Cardinality(S) ELSE Cardinality(S) + 1
  BY FS_AddElement, Zenon
<1>2. Cardinality(S \ {x}) = IF x \in S THEN Cardinality(S) - 1 ELSE Cardinality(S)
  BY FS_RemoveElement, Zenon
<1> QED
  BY <1>1, <1>2, Zenon

LEMMA CountInit == LockInit => CountInv
BY FS_EmptySet DEF LockInit, CountInv, Ahead, Outside

LEMMA CountStep == OrderInv /\ CountInv /\ [LockNext]_lockVars => CountInv'
<1> SUFFICES ASSUME OrderInv, CountInv, [LockNext]_lockVars, NEW c \in Core
             PROVE  (preempt_count[c] >= Cardinality(held_locks[c]) + Ahead(c))'
  BY DEF CountInv
<1> DEFINE n == Cardinality(held_locks[c])
<1>1. /\ LockTypeOK /\ preempt_count[c] \in Int /\ n \in Nat /\ IsFiniteSet(held_locks[c])
      /\ preempt_count[c] >= n + Ahead(c)
  BY HeldFinite DEF OrderInv, CountInv, LockTypeOK
<1>2. ASSUME NEW l \in Lock, spin_lock(c, l)
      PROVE  (preempt_count[c] >= Cardinality(held_locks[c]) + Ahead(c))'
  <2>1. preempt_count'[c] = preempt_count[c] + 1 /\ held_locks' = held_locks /\ Ahead(c) = 0
    BY <1>1, <1>2 DEF spin_lock, Panic, Ahead, Outside, LockTypeOK
  <2>2. Ahead(c)' \in {0, 1}
    BY DEF Ahead
  <2> QED
    BY <1>1, <2>1, <2>2
<1>3. ASSUME NEW h \in Lock, CheckEdge(c, h)
      PROVE  (preempt_count[c] >= Cardinality(held_locks[c]) + Ahead(c))'
  <2>1. preempt_count' = preempt_count /\ held_locks' = held_locks /\ Ahead(c) = 1
    BY <1>3 DEF CheckEdge, Panic, Ahead
  <2>2. Ahead(c)' \in {0, 1}
    BY DEF Ahead
  <2> QED
    BY <1>1, <2>1, <2>2
<1>4. ASSUME lockdep_acquire(c)
      PROVE  (preempt_count[c] >= Cardinality(held_locks[c]) + Ahead(c))'
  <2>1. /\ preempt_count' = preempt_count /\ held_locks'[c] = held_locks[c] \cup {at[c].lock}
        /\ Ahead(c) = 1 /\ Ahead(c)' = 0
    BY <1>1, <1>4 DEF lockdep_acquire, Ahead, LockTypeOK
  <2>2. Cardinality(held_locks[c] \cup {at[c].lock}) \in {n, n + 1}
    BY <1>1, OneMoreOrLess, Zenon
  <2> QED
    BY <1>1, <2>1, <2>2
<1>5. ASSUME Take(c)
      PROVE  (preempt_count[c] >= Cardinality(held_locks[c]) + Ahead(c))'
  <2>1. preempt_count' = preempt_count /\ held_locks' = held_locks /\ Ahead(c) = 0 /\ Ahead(c)' = 0
    BY <1>1, <1>5 DEF Take, Ahead, Outside, LockTypeOK
  <2> QED
    BY <1>1, <2>1
<1>6. ASSUME NEW l \in Lock, lockdep_release(c, l)
      PROVE  (preempt_count[c] >= Cardinality(held_locks[c]) + Ahead(c))'
  <2>1. /\ preempt_count' = preempt_count /\ held_locks'[c] = held_locks[c] \ {l}
        /\ Ahead(c) = 0 /\ Ahead(c)' = 1
    BY <1>1, <1>6 DEF lockdep_release, Ahead, Outside, LockTypeOK
  <2>2. l \in held_locks[c]
    BY <1>6 DEF lockdep_release, OrderInv, OnRecord, Outside
  <2>3. Cardinality(held_locks[c] \ {l}) = n - 1
    BY <1>1, <2>2, OneMoreOrLess, Zenon
  <2> QED
    BY <1>1, <2>1, <2>3
<1>7. ASSUME spin_unlock(c)
      PROVE  (preempt_count[c] >= Cardinality(held_locks[c]) + Ahead(c))'
  <2>1. /\ preempt_count'[c] = preempt_count[c] - 1 /\ held_locks' = held_locks
        /\ Ahead(c) = 1 /\ Ahead(c)' = 0
    BY <1>1, <1>7 DEF spin_unlock, Ahead, Outside, LockTypeOK
  <2> QED
    BY <1>1, <2>1
<1>8. CASE UNCHANGED <<preempt_count[c], held_locks[c], at[c]>>
  BY <1>1, <1>8 DEF Ahead
<1>9. ASSUME NEW d \in Core \ {c},
             \/ lockdep_acquire(d) \/ Take(d) \/ spin_unlock(d)
             \/ \E l \in Lock : spin_lock(d, l) \/ CheckEdge(d, l) \/ lockdep_release(d, l)
      PROVE  UNCHANGED <<preempt_count[c], held_locks[c], at[c]>>
  BY <1>1, <1>9, ZenonT(30) DEF lockdep_acquire, Take, spin_unlock, spin_lock, CheckEdge, lockdep_release, Panic,
     LockTypeOK
<1>10. CASE LockNext
  <2>1. PICK d \in Core :
            \/ lockdep_acquire(d) \/ Take(d) \/ spin_unlock(d)
            \/ \E l \in Lock : spin_lock(d, l) \/ CheckEdge(d, l) \/ lockdep_release(d, l)
    BY <1>10 DEF LockNext
  <2>2. CASE d = c
    BY <2>1, <2>2, <1>2, <1>3, <1>4, <1>5, <1>6, <1>7
  <2>3. CASE d # c
    BY <2>1, <2>3, <1>8, <1>9
  <2> QED
    BY <2>2, <2>3
<1>11. CASE UNCHANGED lockVars
  BY <1>8, <1>11 DEF lockVars
<1> QED
  BY <1>10, <1>11

-----------------------------------------------------------------------------
\* The later a lock comes in the order, the fewer come after it.
Rank(l) == Cardinality({m \in Lock : <<l, m>> \in graph_edges})

LEMMA RankFalls ==
    ASSUME Strict(graph_edges), NEW l \in Lock, NEW m \in Lock, <<l, m>> \in graph_edges
    PROVE  Rank(l) \in Nat /\ Rank(m) \in Nat /\ Rank(m) < Rank(l)
<1> DEFINE After(x) == {y \in Lock : <<x, y>> \in graph_edges}
<1>1. After(m) \in SUBSET After(l) /\ After(m) # After(l)
  BY Zenon DEF Strict
<1>2. IsFiniteSet(After(l)) /\ IsFiniteSet(After(m))
  BY FS_Subset, LockAssumption, Zenon
<1> HIDE DEF After
<1>3. /\ Cardinality(After(l)) \in Nat /\ Cardinality(After(m)) \in Nat
      /\ Cardinality(After(m)) < Cardinality(After(l))
  BY <1>1, <1>2, FS_Subset, FS_CardinalityType
<1> QED
  BY <1>3 DEF Rank, After

LEMMA LeastOf == ASSUME NEW T, T \subseteq Nat, T # {} PROVE \E r \in T : \A q \in T : ~(q < r)
<1>1. PICK r \in T : \A q \in T : <<q, r>> \notin OpToRel(<, Nat)
  BY NatLessThanWellFounded, WFMin
<1> QED
  BY <1>1, Zenon DEF OpToRel

(* Among the locks that a group spins for, take one that is last in the order.  The core that has
   it spins too, for a lock that lockdep_acquire put after it. *)
LEMMA OrderedCannotCircle == OrderInv => NoCircularWait
<1> SUFFICES ASSUME OrderInv, NEW S \in SUBSET Core, S # {}, Deadlocked(S) PROVE FALSE
  BY DEF NoCircularWait
<1>1. \A c \in S : /\ at[c].pc = "spin" /\ at[c].lock \in Lock /\ at[c].lock \in lock_nodes
                   /\ locked[at[c].lock] \in S
  BY DEF Deadlocked, OrderInv, LockTypeOK
<1>2. \A c \in S : <<at[c].lock, at[locked[at[c].lock]].lock>> \in graph_edges
  <2> SUFFICES ASSUME NEW c \in S PROVE <<at[c].lock, at[locked[at[c].lock]].lock>> \in graph_edges
    OBVIOUS
  <2> DEFINE l == at[c].lock
             d == locked[l]
  <2>1. d \in Core /\ at[d].pc = "spin" /\ at[d].lock \in lock_nodes /\ l \in Lock /\ l \in lock_nodes
    BY <1>1
  <2>2. l \in held_locks[d] /\ l # at[d].lock
    BY <2>1 DEF OrderInv, OnRecord, Spinning
  <2> QED
    BY <2>1, <2>2 DEF OrderInv, Spinning, Ordered
<1>3. \A c \in S : /\ Rank(at[c].lock) \in Nat /\ Rank(at[locked[at[c].lock]].lock) \in Nat
                   /\ Rank(at[locked[at[c].lock]].lock) < Rank(at[c].lock)
  <2> SUFFICES ASSUME NEW c \in S
               PROVE  /\ Rank(at[c].lock) \in Nat /\ Rank(at[locked[at[c].lock]].lock) \in Nat
                      /\ Rank(at[locked[at[c].lock]].lock) < Rank(at[c].lock)
    OBVIOUS
  <2>1. at[c].lock \in Lock /\ at[locked[at[c].lock]].lock \in Lock
    BY <1>1
  <2> QED
    BY <2>1, <1>2, RankFalls, Zenon DEF OrderInv
<1> DEFINE T == {Rank(at[c].lock) : c \in S}
<1>4. T \subseteq Nat /\ T # {}
  BY <1>3
<1>5. PICK r \in T : \A q \in T : ~(q < r)
  <2> HIDE DEF T
  <2> QED
    BY <1>4, LeastOf, Zenon
<1>6. PICK c \in S : r = Rank(at[c].lock)
  BY <1>5
<1> QED
  BY <1>1, <1>3, <1>5, <1>6

(* No group of cores spins for locks that only the group can give back (lockdep_acquire), whatever
   the number of cores and locks and however full the graph is. *)
THEOREM LocksNeverCircle == LockSpec => []NoCircularWait
<1>1. LockSpec => []OrderInv
  BY OrderInit, OrderStep, PTL DEF LockSpec
<1> QED
  BY <1>1, OrderedCannotCircle, PTL

LEMMA CountShows == OrderInv /\ CountInv => HoldersRunOn
<1> SUFFICES ASSUME OrderInv, CountInv, NEW c \in Core, NEW l \in Lock, locked[l] = c
             PROVE  preempt_count[c] > 0
  BY DEF HoldersRunOn
<1>1. /\ IsFiniteSet(held_locks[c]) /\ Cardinality(held_locks[c]) \in Nat /\ preempt_count[c] \in Int
      /\ preempt_count[c] >= Cardinality(held_locks[c]) + Ahead(c)
  BY HeldFinite DEF OrderInv, CountInv, LockTypeOK
<1>2. CASE l \in held_locks[c]
  <2>1. Cardinality(held_locks[c]) # 0
    BY <1>1, <1>2, FS_EmptySet
  <2>2. Ahead(c) \in {0, 1}
    BY DEF Ahead
  <2> QED
    BY <1>1, <2>1, <2>2
<1>3. CASE at[c].pc = "unlock"
  <2>1. Ahead(c) = 1
    BY <1>3 DEF Ahead
  <2> QED
    BY <1>1, <2>1
<1> QED
  BY <1>2, <1>3 DEF OrderInv, OnRecord

(* A core that has a spinlock is never preempted (preempt_active): the count is up from before the
   acquisition until after the store that gives the lock back. *)
THEOREM HoldersAreNotPreempted == LockSpec => []HoldersRunOn
<1>1. LockSpec => [](OrderInv /\ CountInv)
  BY OrderInit, OrderStep, CountInit, CountStep, PTL DEF LockSpec
<1> QED
  BY <1>1, CountShows, PTL
=============================================================================
