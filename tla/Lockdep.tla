------------------------------- MODULE Lockdep -------------------------------
(***************************************************************************)
(* Spinlocks (core/lock.c) and the validator that follows them             *)
(* (core/lockdep.c, on by default).  Before a core spins for a lock it     *)
(* orders it after every lock it holds, in one graph for the whole         *)
(* machine; a core whose request goes against that order panics, whether   *)
(* or not anyone is in its way this time.                                  *)
(* Interrupts are masked from the first lock a core takes to the last one  *)
(* it gives back (spin_lock_irqsave; the bare spin_lock is only called so, *)
(* or at boot), so a core is one thread here and lockdep_disabled, which   *)
(* guards against its own interrupts, does not come into play.             *)
(***************************************************************************)
EXTENDS Integers, FiniteSets

CONSTANTS
    Core, Lock,
    NoCore,
    MaxHeld,            \* MAX_HELD_LOCKS
    MaxNodes            \* MAX_LOCK_NODES

ASSUME LockAssumption == IsFiniteSet(Lock) /\ NoCore \notin Core
ASSUME LimitAssumption == MaxHeld \in Nat /\ MaxNodes \in Nat

VARIABLES
    locked,             \* who has each lock; the code only knows that someone has
    preempt_count,
    held_locks,         \* per core; a set, so its scan takes them in any order
    lock_nodes,         \* the locks that the graph knows
    graph_edges,        \* <<a, b>>: a was acquired before b
    lockdep_lock,
    at,                 \* where each core is, with the lock it is about
    panicked            \* kernel_panicked

lockVars == <<locked, preempt_count, held_locks, lock_nodes, graph_edges, lockdep_lock, at, panicked>>

Outside == [pc |-> "run"]

Panic ==
    /\ panicked' = TRUE
    /\ UNCHANGED <<locked, held_locks, lock_nodes, graph_edges, lockdep_lock, at>>
-----------------------------------------------------------------------------
Full == Cardinality(lock_nodes) >= MaxNodes
get_or_create_node(l) == IF Full THEN lock_nodes ELSE lock_nodes \cup {l}

\* spin_lock up to the scan in lockdep_acquire: the count first, then the checks.
spin_lock(c, l) ==
    /\ ~panicked /\ at[c] = Outside /\ lockdep_lock = NoCore
    /\ preempt_count' = [preempt_count EXCEPT ![c] = @ + 1]
    /\ IF Cardinality(held_locks[c]) >= MaxHeld \/ l \in held_locks[c] THEN Panic
       ELSE /\ lockdep_lock' = c
            /\ lock_nodes' = get_or_create_node(l)
            /\ at' = [at EXCEPT ![c] = [pc |-> "edges", lock |-> l, left |-> held_locks[c]]]
            /\ UNCHANGED <<locked, held_locks, graph_edges, panicked>>

UpTo(E, h) == {h} \cup {x \in Lock : <<x, h>> \in E}
From(E, l) == {l} \cup {y \in Lock : <<l, y>> \in E}

\* Mutant: the edge alone.
set_edge_only(E, h, l) == E \cup {<<h, l>>}

\* set_edge and the loops after it, which keep the graph transitive.  They run in place, and no
\* turn reads what another one wrote: l has no edge to h.
set_edge(E, h, l) == E \cup (UpTo(E, h) \X From(E, l))

\* One turn of the loop over the held locks.
CheckEdge(c, h) ==
    /\ ~panicked /\ at[c].pc = "edges" /\ h \in at[c].left
    /\ UNCHANGED preempt_count
    /\ IF {h, at[c].lock} \subseteq lock_nodes /\ <<at[c].lock, h>> \in graph_edges THEN Panic
       ELSE /\ graph_edges' = IF {h, at[c].lock} \subseteq lock_nodes /\ <<h, at[c].lock>> \notin graph_edges
                              THEN set_edge(graph_edges, h, at[c].lock) ELSE graph_edges
            /\ at' = [at EXCEPT ![c].left = @ \ {h}]
            /\ UNCHANGED <<locked, held_locks, lock_nodes, lockdep_lock, panicked>>

\* The acquisition is on record before the lock is there.
lockdep_acquire(c) ==
    /\ ~panicked /\ at[c].pc = "edges" /\ at[c].left = {}
    /\ held_locks' = [held_locks EXCEPT ![c] = @ \cup {at[c].lock}]
    /\ lockdep_lock' = NoCore
    /\ at' = [at EXCEPT ![c] = [pc |-> "spin", lock |-> at[c].lock]]
    /\ UNCHANGED <<locked, preempt_count, lock_nodes, graph_edges, panicked>>

\* The exclusive store finds the lock free.
Take(c) ==
    /\ ~panicked /\ at[c].pc = "spin" /\ locked[at[c].lock] = NoCore
    /\ locked' = [locked EXCEPT ![at[c].lock] = c]
    /\ at' = [at EXCEPT ![c] = Outside]
    /\ UNCHANGED <<preempt_count, held_locks, lock_nodes, graph_edges, lockdep_lock, panicked>>

\* spin_unlock: off the record first, in whatever order the locks were taken.
lockdep_release(c, l) ==
    /\ ~panicked /\ at[c] = Outside /\ lockdep_lock = NoCore
    /\ locked[l] = c
    /\ held_locks' = [held_locks EXCEPT ![c] = @ \ {l}]
    /\ at' = [at EXCEPT ![c] = [pc |-> "unlock", lock |-> l]]
    /\ UNCHANGED <<locked, preempt_count, lock_nodes, graph_edges, lockdep_lock, panicked>>

spin_unlock(c) ==
    /\ ~panicked /\ at[c].pc = "unlock"
    /\ locked' = [locked EXCEPT ![at[c].lock] = NoCore]
    /\ preempt_count' = [preempt_count EXCEPT ![c] = @ - 1]
    /\ at' = [at EXCEPT ![c] = Outside]
    /\ UNCHANGED <<held_locks, lock_nodes, graph_edges, lockdep_lock, panicked>>
-----------------------------------------------------------------------------
LockInit ==
    /\ locked = [l \in Lock |-> NoCore]
    /\ preempt_count = [c \in Core |-> 0]
    /\ held_locks = [c \in Core |-> {}]
    /\ lock_nodes = {} /\ graph_edges = {}
    /\ lockdep_lock = NoCore
    /\ at = [c \in Core |-> Outside]
    /\ panicked = FALSE

LockNext == \E c \in Core :
    \/ lockdep_acquire(c) \/ Take(c) \/ spin_unlock(c)
    \/ \E l \in Lock : spin_lock(c, l) \/ CheckEdge(c, l) \/ lockdep_release(c, l)

LockSpec == LockInit /\ [][LockNext]_lockVars
-----------------------------------------------------------------------------
Deadlocked(S) == \A c \in S :
    at[c].pc = "spin" /\ at[c].lock \in lock_nodes /\ locked[at[c].lock] \in S

(* No group of cores, of any size, spins for locks that only the group itself can give back:
   lockdep_acquire stops the machine before the request that would close the circle starts to
   spin.  Locks that came after the graph was full are not followed. *)
NoCircularWait == \A S \in (SUBSET Core) \ {{}} : ~Deadlocked(S)

(* A core that has a lock, or still has it while spin_unlock gives it back, is not preempted:
   preempt_active, which the timer interrupt asks, says so. *)
HoldersRunOn == \A c \in Core : (\E l \in Lock : locked[l] = c) => preempt_count[c] > 0
=============================================================================
