----------------------------- MODULE SchedProofs -----------------------------
(***************************************************************************)
(* The inductive invariant of Sched, for any number of cores and any set   *)
(* of tasks, and the theorems that follow from it.                         *)
(***************************************************************************)
EXTENDS Sched, TLAPS

Busy(c) == cpc[c] \in {"unlink", "enqueue", "requeue"}
InTaskCode(c) == cpc[c] \in {"run", "unlink", "enqueue"}

(***************************************************************************)
(* The inductive invariant.  on_core is the pivot: it is exactly the core  *)
(* that runs the task, executes on its stack, or has yet to release it     *)
(* through sched_prev_task, so a task with on_core = -1 is nobody's.       *)
(***************************************************************************)
OnCoreInv ==
    /\ \A c \in Core : on_core[cur[c]] = c /\ on_core[stk[c]] = c
    /\ \A t \in Task, c \in Core : on_core[t] = c => t \in {cur[c], stk[c], prev[c]}
    /\ \A c \in Core : cpc[c] # "switch" => cur[c] = stk[c]
    /\ \A c \in Core : prev[c] # NoTask =>
          on_core[prev[c]] = c /\ prev[c] # cur[c] /\ InTaskCode(c)
    /\ \A t \in Task : state[t] = "FREE" => on_core[t] = NoCore
    /\ \A c \in Core : on_core[Idle[c]] \in {c, NoCore}

\* The entries of the run queues.
LinkedOnce ==
    \A c, d \in Core : \A i \in 1..Len(rq[c]), j \in 1..Len(rq[d]) :
        rq[c][i] = rq[d][j] => c = d /\ i = j

QueuedInv == \A t \in Task : Queued(t) => state[t] = "READY" /\ t \notin IdleTask

\* The tasks on their way into a run queue.
HandInv ==
    /\ \A c \in Core : Busy(c) <=> hand[c] # NoTask
    /\ \A c \in Core : hand[c] # NoTask =>
          state[hand[c]] = "READY" /\ hand[c] \notin IdleTask /\ ~Queued(hand[c])
    /\ \A c, d \in Core : hand[c] = hand[d] /\ hand[c] # NoTask => c = d

\* A dead task waits in the cleanup slot of the core it died on.
CleanupInv ==
    \A c \in Core : cleanup[c] # NoTask =>
        /\ state[cleanup[c]] = "DEAD"
        /\ on_core[cleanup[c]] \in {c, NoCore}
        /\ cpc[c] \notin {"drain", "requeue"}
        /\ cpc[c] # "pick" => cleanup[c] # cur[c]
        /\ \A d \in Core : cleanup[c] = cleanup[d] => c = d

\* A task's state agrees with its place in its own operation.
PlaceInv ==
    /\ \A t \in Task : state[t] = "DEAD" => tpc[t] = "exit"
    /\ \A t \in Task : state[t] = "FREE" => tpc[t] \in {"user", "exit"}
    /\ \A t \in IdleTask : state[t] \in {"READY", "RUNNING"}
    /\ \A c \in Core : cpc[c] = "switch" => state[cur[c]] = "RUNNING"
    /\ \A c \in Core : InTaskCode(c) =>
          /\ state[cur[c]] = "BLOCKED" => tpc[cur[c]] \in {"block", "armed"}
          /\ state[cur[c]] = "STOPPED" => tpc[cur[c]] = "stop"

SleepInv ==
    /\ \A t \in sleepq : tpc[t] \in {"armed", "cancel"}
    /\ \A c \in Core : expired[c] \subseteq sleepq

Inv ==
    /\ TypeOK
    /\ OnCoreInv
    /\ LinkedOnce
    /\ QueuedInv
    /\ HandInv
    /\ ReadyIsQueued
    /\ CleanupInv
    /\ PlaceInv
    /\ SleepInv

(***************************************************************************)
(* Facts about the constants and the sequence operators.                   *)
(***************************************************************************)
\* The idle and boot tasks are tasks; the null values are not.
LEMMA ConstFacts ==
    /\ NoTask \notin Task
    /\ NoCore \notin Core
    /\ Core \subseteq Int
    /\ \A c \in Core : Idle[c] \in IdleTask /\ Idle[c] \in Task /\ Boot[c] \in BootTask /\ Boot[c] \in Task
    /\ IdleTask \subseteq Task
    /\ BootTask \subseteq Task
    /\ 0 \in Core
  BY CoreAssumption, TaskAssumption DEF Core, NoCore, Task, IdleTask, BootTask

\* The stealing loop of sched_schedule only visits cores that exist.
LEMMA VictimIsCore ==
    ASSUME NEW c \in Core, scan \in [Core -> 0..N]
    PROVE  Victim(c) \in Core
  BY CoreAssumption DEF Victim, Core

\* Unlinking one entry of a run queue keeps the others, in order (rq_dequeue).
LEMMA WithoutIndexFacts ==
    ASSUME NEW S, NEW s \in Seq(S), NEW i \in 1..Len(s)
    PROVE  /\ WithoutIndex(s, i) \in Seq(S)
           /\ Len(WithoutIndex(s, i)) = Len(s) - 1
           /\ \A j \in 1..(Len(s) - 1) :
                 WithoutIndex(s, i)[j] = IF j < i THEN s[j] ELSE s[j + 1]
           /\ \A j \in 1..Len(s) : j # i =>
                 \E k \in 1..(Len(s) - 1) : WithoutIndex(s, i)[k] = s[j]
  <1> DEFINE w == WithoutIndex(s, i)
  <1>1. Len(s) \in Nat /\ Len(s) - 1 \in Nat
    OBVIOUS
  <1>2. \A j \in 1..(Len(s) - 1) : (IF j < i THEN s[j] ELSE s[j + 1]) \in S
    OBVIOUS
  <1>3. w \in [1..(Len(s) - 1) -> S]
    BY <1>1, <1>2, Zenon DEF WithoutIndex
  <1>4. w \in Seq(S) /\ Len(w) = Len(s) - 1
    BY <1>1, <1>3
  <1>5. \A j \in 1..(Len(s) - 1) : w[j] = IF j < i THEN s[j] ELSE s[j + 1]
    BY Zenon DEF WithoutIndex
  <1>6. ASSUME NEW j \in 1..Len(s), j # i
        PROVE  \E k \in 1..(Len(s) - 1) : w[k] = s[j]
    <2>1. CASE j < i
      BY <2>1, <1>1, <1>5
    <2>2. CASE j > i
      <3>1. j - 1 \in 1..(Len(s) - 1) /\ ~(j - 1 < i) /\ (j - 1) + 1 = j
        BY <2>2, <1>1
      <3> QED
        BY <3>1, <1>5, Zenon
    <2> QED
      BY <1>6, <2>1, <2>2
  <1> QED
    BY <1>4, <1>5, <1>6, Zenon

\* A step that leaves the run queues alone.
LEMMA SameQueues ==
    ASSUME rq' = rq
    PROVE  /\ LinkedOnce <=> LinkedOnce'
           /\ \A u \in Task : Queued(u)' <=> Queued(u)
  BY DEF LinkedOnce, Queued

\* A step that appends a task to a run queue (rq_enqueue).
LEMMA AppendToQueue ==
    ASSUME TypeOK, LinkedOnce, NEW c \in Core, NEW t \in Task, ~Queued(t),
           rq' = [rq EXCEPT ![c] = Append(@, t)]
    PROVE  /\ LinkedOnce'
           /\ rq' \in [Core -> Seq(Task)]
           /\ \A u \in Task : Queued(u)' <=> Queued(u) \/ u = t
  <1>1. rq \in [Core -> Seq(Task)]
    BY Zenon DEF TypeOK
  <1>2. rq'[c] = Append(rq[c], t) /\ \A d \in Core : d # c => rq'[d] = rq[d]
    BY <1>1, Zenon
  <1>3. /\ rq[c] \in Seq(Task)
        /\ Len(rq[c]) \in Nat
        /\ Len(rq'[c]) = Len(rq[c]) + 1
        /\ \A i \in 1..Len(rq[c]) : rq'[c][i] = rq[c][i]
        /\ rq'[c][Len(rq[c]) + 1] = t
    BY <1>1, <1>2
  <1>4. rq' \in [Core -> Seq(Task)]
    BY <1>1
  <1>5. \A d \in Core : \A i \in 1..Len(rq'[d]) :
           \/ i \in 1..Len(rq[d]) /\ rq'[d][i] = rq[d][i]
           \/ d = c /\ i = Len(rq[c]) + 1 /\ rq'[d][i] = t
    BY <1>2, <1>3
  <1>6. \A d \in Core : \A i \in 1..Len(rq[d]) :
           i \in 1..Len(rq'[d]) /\ rq'[d][i] = rq[d][i]
    BY <1>2, <1>3
  <1>7. \A d \in Core : \A i \in 1..Len(rq[d]) : rq[d][i] # t
    BY Zenon DEF Queued
  <1>8. LinkedOnce'
    BY <1>5, <1>7 DEF LinkedOnce
  <1>9. \A u \in Task : Queued(u)' <=> Queued(u) \/ u = t
    BY <1>3, <1>5, <1>6 DEF Queued
  <1> QED
    BY <1>4, <1>8, <1>9, Zenon

\* A step that unlinks an entry of a run queue (rq_dequeue).
LEMMA RemoveFromQueue ==
    ASSUME TypeOK, LinkedOnce, NEW v \in Core, NEW i \in 1..Len(rq[v]),
           rq' = [rq EXCEPT ![v] = WithoutIndex(@, i)]
    PROVE  /\ LinkedOnce'
           /\ rq' \in [Core -> Seq(Task)]
           /\ rq[v][i] \in Task
           /\ Queued(rq[v][i])
           /\ \A u \in Task : Queued(u)' <=> Queued(u) /\ u # rq[v][i]
  <1> DEFINE s == rq[v]
             w == WithoutIndex(s, i)
  <1>1. rq \in [Core -> Seq(Task)] /\ s \in Seq(Task) /\ Len(s) \in Nat
    BY DEF TypeOK
  <1>2. rq'[v] = w /\ \A d \in Core : d # v => rq'[d] = rq[d]
    BY <1>1, Zenon
  <1>3. /\ w \in Seq(Task)
        /\ Len(w) = Len(s) - 1
        /\ \A j \in 1..(Len(s) - 1) : w[j] = IF j < i THEN s[j] ELSE s[j + 1]
        /\ \A j \in 1..Len(s) : j # i => \E k \in 1..(Len(s) - 1) : w[k] = s[j]
    <2> HIDE DEF s
    <2> QED
      BY <1>1, WithoutIndexFacts, Zenon DEF s
  <1> HIDE DEF w
  <1>4. rq' \in [Core -> Seq(Task)]
    BY <1>1, <1>2, <1>3, Zenon DEF w
  <1>5. s[i] \in Task /\ Queued(s[i])
    BY <1>1 DEF Queued
  <1> DEFINE old(d, j) == IF d = v /\ j >= i THEN j + 1 ELSE j
  <1>6. \A d \in Core : \A j \in 1..Len(rq'[d]) :
           /\ old(d, j) \in 1..Len(rq[d])
           /\ rq'[d][j] = rq[d][old(d, j)]
           /\ ~(d = v /\ old(d, j) = i)
    BY <1>1, <1>2, <1>3
  <1>7. \A d \in Core : \A j, k \in 1..Len(rq'[d]) : old(d, j) = old(d, k) => j = k
    BY <1>1
  <1> HIDE DEF old
  <1>8. LinkedOnce'
    <2>1. SUFFICES ASSUME NEW c \in Core, NEW d \in Core,
                          NEW j \in 1..Len(rq'[c]), NEW k \in 1..Len(rq'[d]),
                          rq'[c][j] = rq'[d][k]
                   PROVE  c = d /\ j = k
      BY Zenon DEF LinkedOnce
    <2>2. rq[c][old(c, j)] = rq[d][old(d, k)]
      BY <2>1, <1>6, Zenon
    <2>3. c = d /\ old(c, j) = old(d, k)
      <3>1. old(c, j) \in 1..Len(rq[c]) /\ old(d, k) \in 1..Len(rq[d])
        BY <1>6, Zenon
      <3> QED
        BY <2>2, <3>1 DEF LinkedOnce
    <2> QED
      BY <2>3, <1>7, Zenon
  <1>9. ASSUME NEW u \in Task, Queued(u)' PROVE Queued(u) /\ u # s[i]
    <2>0. PICK d \in Core : \E j \in 1..Len(rq'[d]) : rq'[d][j] = u
      BY <1>9, Zenon DEF Queued
    <2>1. PICK j \in 1..Len(rq'[d]) : rq'[d][j] = u
      BY <2>0, Zenon
    <2>2. /\ old(d, j) \in 1..Len(rq[d])
          /\ rq[d][old(d, j)] = u
          /\ ~(d = v /\ old(d, j) = i)
      BY <2>1, <1>6, Zenon
    <2>3. Queued(u)
      BY <2>2, Zenon DEF Queued
    <2>4. u # rq[v][i]
      BY <2>2 DEF LinkedOnce
    <2> QED
      BY <2>3, <2>4, Zenon
  <1>10. ASSUME NEW u \in Task, Queued(u), u # s[i] PROVE Queued(u)'
    <2>0. PICK d \in Core : \E j \in 1..Len(rq[d]) : rq[d][j] = u
      BY <1>10, Zenon DEF Queued
    <2>1. PICK j \in 1..Len(rq[d]) : rq[d][j] = u
      BY <2>0, Zenon
    <2>2. CASE d = v
      <3>1. PICK k \in 1..(Len(s) - 1) : w[k] = s[j]
        BY <2>1, <2>2, <1>3, <1>10, Zenon
      <3>2. k \in 1..Len(rq'[v]) /\ rq'[v][k] = u
        BY <3>1, <2>1, <2>2, <1>2, <1>3, Zenon
      <3> QED
        BY <3>2, Zenon DEF Queued
    <2>3. CASE d # v
      BY <2>1, <2>3, <1>2, Zenon DEF Queued
    <2> QED
      BY <2>2, <2>3, Zenon
  <1> QED
    BY <1>4, <1>5, <1>8, <1>9, <1>10, Zenon

\* The end of a pick: next becomes the current task of core c.
LEMMA DispatchInv ==
    ASSUME TypeOK, OnCoreInv, CleanupInv, PlaceInv, SleepInv,
           NEW c \in Core, NEW n \in Task, Dispatch(c, n),
           cpc[c] = "pick",
           state[n] \in {"READY", "RUNNING"},
           on_core[n] \in {c, NoCore},
           n \notin IdleTask => on_core[n] = NoCore,
           n \in IdleTask => n = Idle[c],
           rq' \in [Core -> Seq(Task)],
           UNCHANGED <<tpc, fresh, sleepq, expired, stk, prev, cleanup, hand, scan>>
    PROVE  TypeOK' /\ OnCoreInv' /\ CleanupInv' /\ PlaceInv' /\ SleepInv'
  <1>a. /\ on_core'[n] = c /\ state'[n] = "RUNNING" /\ cur'[c] = n /\ cpc'[c] = "switch"
        /\ \A t \in Task : t # n => on_core'[t] = on_core[t] /\ state'[t] = state[t]
        /\ \A d \in Core : d # c => cur'[d] = cur[d] /\ cpc'[d] = cpc[d]
    BY Zenon DEF TypeOK, Dispatch
  <1>b. prev[c] = NoTask /\ cur[c] = stk[c]
    BY Zenon DEF OnCoreInv, InTaskCode
  <1>c. \A d \in Core : d # c => cur[d] # n /\ stk[d] # n /\ prev[d] # n
    <2>1. on_core[n] \in {c, NoCore} /\ NoCore \notin Core
      BY ConstFacts, Zenon
    <2>2. \A d \in Core : on_core[cur[d]] = d /\ on_core[stk[d]] = d
      BY Zenon DEF OnCoreInv
    <2>3. \A d \in Core : prev[d] # NoTask => on_core[prev[d]] = d
      BY Zenon DEF OnCoreInv
    <2> QED
      BY <2>1, <2>2, <2>3, ConstFacts
  <1>1. TypeOK'
    <2>1. state' \in [Task -> States] /\ on_core' \in [Task -> Core \cup {NoCore}]
      BY Zenon DEF TypeOK, Dispatch, States
    <2>2. cur' \in [Core -> Task] /\ cpc' \in [Core -> CorePlaces]
      BY Zenon DEF TypeOK, Dispatch, CorePlaces
    <2> QED
      BY <2>1, <2>2, Zenon DEF TypeOK
  <1>2. OnCoreInv'
    <2>1. \A d \in Core : cur[d] \in Task /\ stk[d] \in Task /\ (prev[d] # NoTask => prev[d] \in Task)
      BY Zenon DEF TypeOK
    <2>2. \A d \in Core : on_core'[cur'[d]] = d /\ on_core'[stk[d]] = d
      BY <1>a, <1>c, <2>1 DEF OnCoreInv
    <2>3. \A t \in Task, d \in Core : on_core'[t] = d => t \in {cur'[d], stk[d], prev[d]}
      <3>1. SUFFICES ASSUME NEW t \in Task, NEW d \in Core, on_core'[t] = d
                     PROVE  t \in {cur'[d], stk[d], prev[d]}
        BY Zenon
      <3>2. CASE t = n
        BY <3>1, <3>2, <1>a, Zenon
      <3>3. CASE t # n
        <4>1. t \in {cur[d], stk[d], prev[d]}
          BY <3>1, <3>3, <1>a, Zenon DEF OnCoreInv
        <4> QED
          BY <4>1, <1>a, <1>b, Zenon
      <3> QED
        BY <3>2, <3>3, Zenon
    <2>4. \A d \in Core : cpc'[d] # "switch" => cur'[d] = stk[d]
      BY <1>a DEF OnCoreInv
    <2>5. \A d \in Core : prev[d] # NoTask =>
              on_core'[prev[d]] = d /\ prev[d] # cur'[d] /\ InTaskCode(d)'
      BY <1>a, <1>b, <1>c, <2>1 DEF OnCoreInv, InTaskCode
    <2>6. \A t \in Task : state'[t] = "FREE" => on_core'[t] = NoCore
      BY <1>a DEF OnCoreInv
    <2>7. \A d \in Core : on_core'[Idle[d]] \in {d, NoCore}
      <3>1. SUFFICES ASSUME NEW d \in Core PROVE on_core'[Idle[d]] \in {d, NoCore}
        OBVIOUS
      <3>2. CASE Idle[d] = n
        <4>1. d = c
          BY <3>2, ConstFacts, TaskAssumption, Zenon
        <4> QED
          BY <4>1, <3>2, <1>a, Zenon
      <3>3. CASE Idle[d] # n
        BY <3>3, <1>a, ConstFacts, Zenon DEF OnCoreInv
      <3> QED
        BY <3>2, <3>3, Zenon
    <2> QED
      BY <2>2, <2>3, <2>4, <2>5, <2>6, <2>7, Zenon DEF OnCoreInv
  <1>3. CleanupInv'
    <2>1. \A d \in Core : cleanup[d] # NoTask => cleanup[d] \in Task /\ cleanup[d] # n
      BY Zenon DEF TypeOK, CleanupInv
    <2> QED
      BY <1>a, <2>1 DEF CleanupInv
  <1>4. PlaceInv'
    <2>1. \A d \in Core : /\ InTaskCode(d)' => InTaskCode(d) /\ d # c
                          /\ cpc'[d] = "switch" => cpc[d] = "switch" \/ d = c
      BY <1>a, Zenon DEF InTaskCode
    <2>2. \A d \in Core : cur[d] \in Task
      BY Zenon DEF TypeOK
    <2>3. \A t \in IdleTask : state'[t] \in {"READY", "RUNNING"}
      BY <1>a, ConstFacts, Zenon DEF PlaceInv
    <2>4. \A t \in Task : state'[t] = "DEAD" => tpc'[t] = "exit"
      BY <1>a DEF PlaceInv
    <2>7. \A t \in Task : state'[t] = "FREE" => tpc'[t] \in {"user", "exit"}
      BY <1>a DEF PlaceInv
    <2>5. \A d \in Core : cpc'[d] = "switch" => state'[cur'[d]] = "RUNNING"
      BY <1>a, <1>c, <2>1, <2>2 DEF PlaceInv
    <2>6. \A d \in Core : InTaskCode(d)' =>
             /\ state'[cur'[d]] = "BLOCKED" => tpc'[cur'[d]] \in {"block", "armed"}
             /\ state'[cur'[d]] = "STOPPED" => tpc'[cur'[d]] = "stop"
      <3>1. SUFFICES ASSUME NEW d \in Core, InTaskCode(d)'
                     PROVE  /\ state'[cur'[d]] = "BLOCKED" => tpc'[cur'[d]] \in {"block", "armed"}
                            /\ state'[cur'[d]] = "STOPPED" => tpc'[cur'[d]] = "stop"
        OBVIOUS
      <3>2. InTaskCode(d) /\ d # c
        BY <3>1, <2>1, Zenon DEF InTaskCode
      <3>3. cur'[d] = cur[d] /\ state'[cur[d]] = state[cur[d]] /\ tpc' = tpc
        BY <3>2, <2>2, <1>a, <1>c, Zenon
      <3> QED
        BY <3>2, <3>3 DEF PlaceInv
    <2> QED
      BY <2>3, <2>4, <2>5, <2>6, <2>7, Zenon DEF PlaceInv
  <1>5. SleepInv'
    BY Zenon DEF SleepInv
  <1> QED
    BY <1>1, <1>2, <1>3, <1>4, <1>5, Zenon

(***************************************************************************)
(* Steps of one kind.                                                      *)
(***************************************************************************)
\* What TypeOK says about the pointers held by the cores.
LEMMA PointerTypes ==
    ASSUME TypeOK
    PROVE  \A d \in Core : /\ cur[d] \in Task /\ stk[d] \in Task
                           /\ prev[d] # NoTask => prev[d] \in Task
                           /\ cleanup[d] # NoTask => cleanup[d] \in Task
                           /\ hand[d] # NoTask => hand[d] \in Task
  BY Zenon DEF TypeOK

\* No other core runs the task that core c runs.
LEMMA CurIsOwn ==
    ASSUME Inv, NEW c \in Core
    PROVE  \A d \in Core : d # c => cur[d] # cur[c]
  <1>1. \A d \in Core : on_core[cur[d]] = d
    BY Zenon DEF Inv, OnCoreInv
  <1> QED
    BY <1>1, Zenon

\* A step of a task on its own state: it leaves a RUNNING or BLOCKED, never a
\* READY, and goes to a place that its new state allows.
LEMMA OwnStepInv ==
    ASSUME Inv, NEW c \in Core, NEW place \in TaskPlaces, NEW s \in States,
           InTaskCode(c), cpc' = cpc, cur[c] \notin IdleTask,
           tpc' = [tpc EXCEPT ![cur[c]] = place],
           state' = [state EXCEPT ![cur[c]] = s],
           s = state[cur[c]] \/ /\ state[cur[c]] \in {"RUNNING", "BLOCKED"}
                                /\ s \in {"RUNNING", "BLOCKED", "STOPPED", "DEAD"},
           s = "DEAD" => place = "exit",
           s = "BLOCKED" => place \in {"block", "armed"},
           s = "STOPPED" => place = "stop",
           sleepq' \subseteq Task,
           \A t \in sleepq' : tpc'[t] \in {"armed", "cancel"},
           expired' \in [Core -> SUBSET Task],
           \A d \in Core : expired'[d] \subseteq sleepq',
           UNCHANGED <<on_core, fresh, rq, cur, stk, prev, cleanup, hand, scan>>
    PROVE  Inv'
  <1> DEFINE u == cur[c]
  <1>a. /\ \A d \in Core : cur[d] \in Task
        /\ \A d \in Core : cleanup[d] # NoTask => cleanup[d] \in Task
        /\ \A d \in Core : hand[d] # NoTask => hand[d] \in Task
    BY PointerTypes, Zenon DEF Inv
  <1>b. state \in [Task -> States] /\ tpc \in [Task -> TaskPlaces]
    BY Zenon DEF Inv, TypeOK
  <1>c. /\ \A t \in Task : t # u => state'[t] = state[t] /\ tpc'[t] = tpc[t]
        /\ state'[u] = s /\ tpc'[u] = place
    BY <1>a, <1>b, Zenon
  <1>d. state[u] # "FREE"
    <2>1. on_core[u] = c
      BY Zenon DEF Inv, OnCoreInv
    <2> QED
      BY <1>a, <2>1, ConstFacts DEF Inv, OnCoreInv
  <1>e. \A t \in Task : /\ state[t] = "READY" <=> state'[t] = "READY"
                        /\ state[t] = "FREE" <=> state'[t] = "FREE"
                        /\ state[t] = "DEAD" => state'[t] = "DEAD"
    BY <1>c, <1>d
  <1>f. \A t \in Task : Queued(t)' <=> Queued(t)
    BY SameQueues, Zenon
  <1>1. TypeOK'
    <2>1. state' \in [Task -> States] /\ tpc' \in [Task -> TaskPlaces]
      BY <1>a, <1>b, Zenon
    <2> QED
      BY <2>1, Zenon DEF Inv, TypeOK
  <1>2. OnCoreInv'
    BY <1>e DEF Inv, OnCoreInv, InTaskCode
  <1>3. LinkedOnce'
    BY SameQueues, Zenon DEF Inv
  <1>4. QueuedInv'
    BY <1>e, <1>f, Zenon DEF Inv, QueuedInv
  <1>5. HandInv'
    <2>1. \A d \in Core : Busy(d)' <=> Busy(d)
      BY Zenon DEF Busy
    <2> QED
      BY <1>a, <1>e, <1>f, <2>1 DEF Inv, HandInv
  <1>6. ReadyIsQueued'
    BY <1>e, <1>f DEF Inv, ReadyIsQueued
  <1>7. CleanupInv'
    BY <1>a, <1>e DEF Inv, CleanupInv
  <1>8. PlaceInv'
    <2>1. \A t \in Task : state'[t] = "DEAD" => tpc'[t] = "exit"
      BY <1>c DEF Inv, PlaceInv
    <2>2. \A t \in Task : state'[t] = "FREE" => tpc'[t] \in {"user", "exit"}
      BY <1>c, <1>d, <1>e DEF Inv, PlaceInv
    <2>3. \A t \in IdleTask : state'[t] \in {"READY", "RUNNING"}
      <3>1. \A t \in IdleTask : t \in Task /\ t # u
        BY ConstFacts, Zenon
      <3> QED
        BY <1>c, <3>1, Zenon DEF Inv, PlaceInv
    <2>4. \A d \in Core : d # c => cur[d] # u
      BY CurIsOwn, Zenon
    <2>5. \A d \in Core : cpc'[d] = "switch" => state'[cur'[d]] = "RUNNING"
      <3>1. cpc[c] # "switch"
        BY Zenon DEF InTaskCode
      <3> QED
        BY <1>a, <1>c, <2>4, <3>1 DEF Inv, PlaceInv
    <2>6. \A d \in Core : InTaskCode(d)' =>
             /\ state'[cur'[d]] = "BLOCKED" => tpc'[cur'[d]] \in {"block", "armed"}
             /\ state'[cur'[d]] = "STOPPED" => tpc'[cur'[d]] = "stop"
      <3>1. \A d \in Core : InTaskCode(d)' => InTaskCode(d)
        BY Zenon DEF InTaskCode
      <3>2. ASSUME NEW d \in Core, d # c, InTaskCode(d)'
            PROVE  /\ state'[cur[d]] = "BLOCKED" => tpc'[cur[d]] \in {"block", "armed"}
                   /\ state'[cur[d]] = "STOPPED" => tpc'[cur[d]] = "stop"
        <4>1. state'[cur[d]] = state[cur[d]] /\ tpc'[cur[d]] = tpc[cur[d]]
          BY <1>a, <1>c, <2>4, <3>2, Zenon
        <4>2. InTaskCode(d)
          BY <3>1, <3>2, Zenon
        <4> QED
          BY <4>1, <4>2 DEF Inv, PlaceInv
      <3> QED
        BY <1>c, <3>2, SMTT(30)
    <2> QED
      BY <2>1, <2>2, <2>3, <2>5, <2>6, Zenon DEF PlaceInv
  <1>9. SleepInv'
    BY Zenon DEF SleepInv
  <1> QED
    BY <1>1, <1>2, <1>3, <1>4, <1>5, <1>6, <1>7, <1>8, <1>9, Zenon DEF Inv

\* The state of a task that is at a place of its own code.
LEMMA OwnState ==
    ASSUME Inv, NEW c \in Core, NEW place, InTask(c, place)
    PROVE  /\ InTaskCode(c)
           /\ cur[c] \in Task
           /\ state[cur[c]] \in States \ {"FREE"}
           /\ state[cur[c]] = "DEAD" => place = "exit"
           /\ state[cur[c]] = "BLOCKED" => place \in {"block", "armed"}
           /\ state[cur[c]] = "STOPPED" => place = "stop"
           /\ cur[c] \in sleepq => place \in {"armed", "cancel"}
  <1>1. cpc[c] = "run" /\ tpc[cur[c]] = place
    BY Zenon DEF InTask
  <1>2. InTaskCode(c)
    BY <1>1, Zenon DEF InTaskCode
  <1>3. cur[c] \in Task /\ state[cur[c]] \in States
    BY Zenon DEF Inv, TypeOK
  <1>4. state[cur[c]] # "FREE"
    <2>1. on_core[cur[c]] = c
      BY Zenon DEF Inv, OnCoreInv
    <2> QED
      BY <1>3, <2>1, ConstFacts DEF Inv, OnCoreInv
  <1>5. /\ state[cur[c]] = "DEAD" => place = "exit"
        /\ state[cur[c]] = "BLOCKED" => place \in {"block", "armed"}
        /\ state[cur[c]] = "STOPPED" => place = "stop"
    BY <1>1, <1>2, <1>3, Zenon DEF Inv, PlaceInv
  <1>6. cur[c] \in sleepq => place \in {"armed", "cancel"}
    BY <1>1, Zenon DEF Inv, SleepInv
  <1> QED
    BY <1>2, <1>3, <1>4, <1>5, <1>6, Zenon

\* The sleep queue across a step of a task that has no timer armed.
LEMMA OwnSleep ==
    ASSUME Inv, NEW c \in Core, NEW place, NEW to, InTask(c, place),
           place \notin {"armed", "cancel"},
           tpc' = [tpc EXCEPT ![cur[c]] = to],
           UNCHANGED <<sleepq, expired>>
    PROVE  /\ sleepq' \subseteq Task
           /\ \A t \in sleepq' : tpc'[t] \in {"armed", "cancel"}
           /\ expired' \in [Core -> SUBSET Task]
           /\ \A d \in Core : expired'[d] \subseteq sleepq'
  <1>1. /\ sleepq \subseteq Task
        /\ expired \in [Core -> SUBSET Task]
        /\ tpc \in [Task -> TaskPlaces]
    BY Zenon DEF Inv, TypeOK
  <1>2. /\ \A t \in sleepq : tpc[t] \in {"armed", "cancel"}
        /\ \A d \in Core : expired[d] \subseteq sleepq
    BY Zenon DEF Inv, SleepInv
  <1>3. \A t \in sleepq : t # cur[c]
    BY OwnState, Zenon
  <1> QED
    BY <1>1, <1>2, <1>3, Zenon

\* Core c goes on to queue the task it has in hand.
TakesInHand(c) ==
    /\ \A d \in Core : d # c => cpc'[d] = cpc[d]
    /\ \/ cpc[c] = "run" /\ cpc'[c] \in {"unlink", "enqueue"}
       \/ cpc[c] = "drain" /\ cpc'[c] = "requeue"

\* A step that makes t READY and leaves it in the hands of core c: the CAS of
\* a waker or of sleep_drain, and the creation of a task.
LEMMA MakeReadyInv ==
    ASSUME Inv, NEW c \in Core, NEW t \in Task, t \notin IdleTask,
           state[t] \in {"BLOCKED", "STOPPED", "FREE"},
           TakesInHand(c),
           state' = [state EXCEPT ![t] = "READY"],
           hand' = [hand EXCEPT ![c] = t],
           tpc' \in [Task -> TaskPlaces],
           \A u \in Task : tpc'[u] = tpc[u] \/ (state[u] = "FREE" /\ u = t),
           UNCHANGED <<on_core, rq, cur, stk, prev, cleanup, scan>>
    PROVE  /\ state' \in [Task -> States] /\ hand' \in [Core -> Task \cup {NoTask}]
           /\ OnCoreInv' /\ LinkedOnce' /\ QueuedInv' /\ HandInv' /\ ReadyIsQueued'
           /\ CleanupInv' /\ PlaceInv'
  <1>a. /\ \A d \in Core : cur[d] \in Task
        /\ \A d \in Core : cleanup[d] # NoTask => cleanup[d] \in Task
        /\ \A d \in Core : hand[d] # NoTask => hand[d] \in Task
    BY PointerTypes, Zenon DEF Inv
  <1>b. /\ state \in [Task -> States]
        /\ hand \in [Core -> Task \cup {NoTask}]
    BY Zenon DEF Inv, TypeOK
  <1>c. /\ \A u \in Task : u # t => state'[u] = state[u]
        /\ state'[t] = "READY"
    BY <1>b, Zenon
  <1>d. /\ \A d \in Core : d # c => hand'[d] = hand[d]
        /\ hand'[c] = t
    BY <1>b, Zenon
  <1>e. /\ \A d \in Core : d # c => cpc'[d] = cpc[d]
        /\ \/ cpc[c] = "run" /\ cpc'[c] \in {"unlink", "enqueue"}
           \/ cpc[c] = "drain" /\ cpc'[c] = "requeue"
    BY Zenon DEF TakesInHand
  <1>f. hand[c] = NoTask /\ ~Queued(t) /\ t # NoTask
    <2>1. hand[c] = NoTask
      BY <1>e, Zenon DEF Inv, HandInv, Busy
    <2>2. ~Queued(t)
      BY Zenon DEF Inv, QueuedInv
    <2> QED
      BY <2>1, <2>2, ConstFacts, Zenon
  <1>g. \A d \in Core : hand[d] # t
    BY <1>f, Zenon DEF Inv, HandInv
  <1>h. \A u \in Task : Queued(u)' <=> Queued(u)
    BY SameQueues, Zenon
  <1>i. \A d \in Core : /\ InTaskCode(d)' <=> InTaskCode(d)
                        /\ cpc'[d] = "switch" <=> cpc[d] = "switch"
    BY <1>e, Zenon DEF InTaskCode
  <1>1. /\ state' \in [Task -> States]
        /\ hand' \in [Core -> Task \cup {NoTask}]
    <2>1. state' \in [Task -> States]
      BY <1>b, Zenon DEF States
    <2>2. hand' \in [Core -> Task \cup {NoTask}]
      BY <1>b, Zenon
    <2> QED
      BY <2>1, <2>2, Zenon
  <1>2. OnCoreInv'
    <2>1. \A u \in Task : state'[u] = "FREE" => state[u] = "FREE"
      BY <1>c, Zenon
    <2> QED
      BY <2>1, <1>i, Zenon DEF Inv, OnCoreInv
  <1>3. LinkedOnce'
    BY SameQueues, Zenon DEF Inv
  <1>4. QueuedInv'
    BY <1>c, <1>f, <1>h, Zenon DEF Inv, QueuedInv
  <1>5. HandInv'
    <2>1. \A d \in Core : Busy(d)' <=> hand'[d] # NoTask
      <3>1. Busy(c)' /\ hand'[c] # NoTask
        BY <1>d, <1>e, <1>f, Zenon DEF Busy
      <3>2. \A d \in Core : d # c => (Busy(d)' <=> Busy(d)) /\ hand'[d] = hand[d]
        BY <1>d, <1>e, Zenon DEF Busy
      <3> QED
        BY <3>1, <3>2, Zenon DEF Inv, HandInv
    <2>2. \A d \in Core : hand'[d] # NoTask =>
             state'[hand'[d]] = "READY" /\ hand'[d] \notin IdleTask /\ ~Queued(hand[d])'
      <3>1. \A d \in Core : d # c /\ hand[d] # NoTask =>
               hand[d] \in Task /\ state'[hand[d]] = "READY" /\ hand[d] \notin IdleTask
        BY <1>a, <1>c, <1>g DEF Inv, HandInv
      <3>2. \A d \in Core : hand[d] # NoTask => ~Queued(hand[d])
        BY Zenon DEF Inv, HandInv
      <3>3. \A d \in Core : hand'[d] # NoTask => hand'[d] \in Task /\ ~Queued(hand[d])'
        BY <1>d, <1>f, <1>h, <3>1, <3>2
      <3> QED
        BY <1>c, <1>d, <3>1, <3>3, SMTT(30)
    <2>3. \A d, e \in Core : hand'[d] = hand'[e] /\ hand'[d] # NoTask => d = e
      <3>1. \A d, e \in Core : hand[d] = hand[e] /\ hand[d] # NoTask => d = e
        BY Zenon DEF Inv, HandInv
      <3> QED
        BY <1>d, <1>g, <3>1
    <2> QED
      BY <2>1, <2>2, <2>3, Zenon DEF HandInv
  <1>6. ReadyIsQueued'
    <2>1. SUFFICES ASSUME NEW u \in Task \ IdleTask, state'[u] = "READY", ~Queued(u)
                   PROVE  \E d \in Core : hand'[d] = u
      BY <1>h, Zenon DEF ReadyIsQueued
    <2>2. CASE u = t
      BY <1>d, <2>2, Zenon
    <2>3. CASE u # t
      <3>1. PICK d \in Core : hand[d] = u
        BY <1>c, <2>1, <2>3, Zenon DEF Inv, ReadyIsQueued
      <3> QED
        BY <1>d, <1>f, <3>1, ConstFacts, Zenon
    <2> QED
      BY <2>2, <2>3, Zenon
  <1>7. CleanupInv'
    <2>1. \A d \in Core : cleanup[d] # NoTask => cleanup[d] # t
      BY Zenon DEF Inv, CleanupInv
    <2>2. cpc[c] = "drain" => cleanup[c] = NoTask
      BY Zenon DEF Inv, CleanupInv
    <2>3. \A d \in Core : cpc'[d] \in {"drain", "requeue"} => cpc[d] \in {"drain", "requeue"}
      BY <1>e, Zenon
    <2>4. \A d \in Core : cpc'[d] # "pick" => cpc[d] # "pick"
      BY <1>e, Zenon
    <2> QED
      BY <1>a, <1>c, <2>1, <2>2, <2>3, <2>4, SMTT(30) DEF Inv, CleanupInv
  <1>8. PlaceInv'
    <2>1. \A u \in Task : state'[u] = "DEAD" => tpc'[u] = "exit"
      BY <1>c DEF Inv, PlaceInv
    <2>2. \A u \in Task : state'[u] = "FREE" => tpc'[u] \in {"user", "exit"}
      BY <1>c, SMTT(30) DEF Inv, PlaceInv
    <2>3. \A u \in IdleTask : state'[u] \in {"READY", "RUNNING"}
      BY <1>c, ConstFacts, Zenon DEF Inv, PlaceInv
    <2>4. \A d \in Core : cpc'[d] = "switch" => state'[cur'[d]] = "RUNNING"
      BY <1>a, <1>c, <1>i, SMTT(30) DEF Inv, PlaceInv
    <2>5. \A d \in Core : InTaskCode(d)' =>
             /\ state'[cur'[d]] = "BLOCKED" => tpc'[cur'[d]] \in {"block", "armed"}
             /\ state'[cur'[d]] = "STOPPED" => tpc'[cur'[d]] = "stop"
      <3>1. ASSUME NEW d \in Core, InTaskCode(d)', state'[cur[d]] \in {"BLOCKED", "STOPPED"}
            PROVE  state'[cur[d]] = state[cur[d]] /\ tpc'[cur[d]] = tpc[cur[d]] /\ InTaskCode(d)
        BY <1>a, <1>c, <1>i, <3>1, Zenon
      <3> QED
        BY <3>1, SMTT(30) DEF Inv, PlaceInv
    <2> QED
      BY <2>1, <2>2, <2>3, <2>4, <2>5, Zenon DEF PlaceInv
  <1> QED
    BY <1>1, <1>2, <1>3, <1>4, <1>5, <1>6, <1>7, <1>8, Zenon

(***************************************************************************)
(* The steps that tasks, wakers and interrupt handlers take, and the drain *)
(* of the sleep queue.                                                     *)
(***************************************************************************)
\* Preserved by sched_task_set_blocked.
LEMMA SetBlockedInv ==
    ASSUME Inv, NEW c \in Core, SetBlocked(c)
    PROVE  Inv'
  <1> DEFINE s == IF state[cur[c]] = "RUNNING" THEN "BLOCKED" ELSE state[cur[c]]
  <1>1. /\ InTask(c, "user") /\ cur[c] \notin IdleTask
        /\ tpc' = [tpc EXCEPT ![cur[c]] = "block"]
        /\ state' = [state EXCEPT ![cur[c]] = s]
        /\ UNCHANGED <<sleepq, expired>>
        /\ UNCHANGED <<on_core, fresh, rq, cur, stk, prev, cleanup, hand, scan>>
        /\ cpc' = cpc
    BY Zenon DEF SetBlocked, InTask, GoTo, queueVars, coreVars
  <1>2. /\ sleepq' \subseteq Task
        /\ \A t \in sleepq' : tpc'[t] \in {"armed", "cancel"}
        /\ expired' \in [Core -> SUBSET Task]
        /\ \A d \in Core : expired'[d] \subseteq sleepq'
    BY <1>1, OwnSleep, Zenon
  <1>3. InTaskCode(c) /\ "block" \in TaskPlaces
    BY <1>1, OwnState, Zenon DEF TaskPlaces
  <1>4. /\ s \in States
        /\ s = state[cur[c]] \/ /\ state[cur[c]] \in {"RUNNING", "BLOCKED"}
                                /\ s \in {"RUNNING", "BLOCKED", "STOPPED", "DEAD"}
        /\ s = "DEAD" => "block" = "exit"
        /\ s = "BLOCKED" => "block" \in {"block", "armed"}
        /\ s = "STOPPED" => "block" = "stop"
    BY <1>1, OwnState DEF States
  <1> HIDE DEF s
  <1> QED
    BY <1>1, <1>2, <1>3, <1>4, OwnStepInv, Zenon

\* Preserved by leaving a wait that need not sleep.
LEMMA CancelBlockInv ==
    ASSUME Inv, NEW c \in Core, CancelBlock(c)
    PROVE  Inv'
  <1> DEFINE s == IF state[cur[c]] = "BLOCKED" THEN "RUNNING" ELSE state[cur[c]]
  <1>1. /\ InTask(c, "block") /\ cur[c] \notin IdleTask
        /\ tpc' = [tpc EXCEPT ![cur[c]] = "user"]
        /\ state' = [state EXCEPT ![cur[c]] = s]
        /\ UNCHANGED <<sleepq, expired>>
        /\ UNCHANGED <<on_core, fresh, rq, cur, stk, prev, cleanup, hand, scan>>
        /\ cpc' = cpc
    BY Zenon DEF CancelBlock, InTask, GoTo, queueVars, coreVars
  <1>2. /\ sleepq' \subseteq Task
        /\ \A t \in sleepq' : tpc'[t] \in {"armed", "cancel"}
        /\ expired' \in [Core -> SUBSET Task]
        /\ \A d \in Core : expired'[d] \subseteq sleepq'
    BY <1>1, OwnSleep, Zenon
  <1>3. InTaskCode(c) /\ "user" \in TaskPlaces
    BY <1>1, OwnState, Zenon DEF TaskPlaces
  <1>4. /\ s \in States
        /\ s = state[cur[c]] \/ /\ state[cur[c]] \in {"RUNNING", "BLOCKED"}
                                /\ s \in {"RUNNING", "BLOCKED", "STOPPED", "DEAD"}
        /\ s = "DEAD" => "user" = "exit"
        /\ s = "BLOCKED" => "user" \in {"block", "armed"}
        /\ s = "STOPPED" => "user" = "stop"
    BY <1>1, OwnState DEF States
  <1> HIDE DEF s
  <1> QED
    BY <1>1, <1>2, <1>3, <1>4, OwnStepInv, Zenon

\* Preserved by sched_task_set_stopped.
LEMMA SetStoppedInv ==
    ASSUME Inv, NEW c \in Core, SetStopped(c)
    PROVE  Inv'
  <1> DEFINE s == IF state[cur[c]] = "RUNNING" THEN "STOPPED" ELSE state[cur[c]]
  <1>1. /\ InTask(c, "user") /\ cur[c] \notin IdleTask
        /\ tpc' = [tpc EXCEPT ![cur[c]] = "stop"]
        /\ state' = [state EXCEPT ![cur[c]] = s]
        /\ UNCHANGED <<sleepq, expired>>
        /\ UNCHANGED <<on_core, fresh, rq, cur, stk, prev, cleanup, hand, scan>>
        /\ cpc' = cpc
    BY Zenon DEF SetStopped, InTask, GoTo, queueVars, coreVars
  <1>2. /\ sleepq' \subseteq Task
        /\ \A t \in sleepq' : tpc'[t] \in {"armed", "cancel"}
        /\ expired' \in [Core -> SUBSET Task]
        /\ \A d \in Core : expired'[d] \subseteq sleepq'
    BY <1>1, OwnSleep, Zenon
  <1>3. InTaskCode(c) /\ "stop" \in TaskPlaces
    BY <1>1, OwnState, Zenon DEF TaskPlaces
  <1>4. /\ s \in States
        /\ s = state[cur[c]] \/ /\ state[cur[c]] \in {"RUNNING", "BLOCKED"}
                                /\ s \in {"RUNNING", "BLOCKED", "STOPPED", "DEAD"}
        /\ s = "DEAD" => "stop" = "exit"
        /\ s = "BLOCKED" => "stop" \in {"block", "armed"}
        /\ s = "STOPPED" => "stop" = "stop"
    BY <1>1, OwnState DEF States
  <1> HIDE DEF s
  <1> QED
    BY <1>1, <1>2, <1>3, <1>4, OwnStepInv, Zenon

\* Preserved by sched_exit_current.
LEMMA ExitInv ==
    ASSUME Inv, NEW c \in Core, Exit(c)
    PROVE  Inv'
  <1> DEFINE s == IF state[cur[c]] = "RUNNING" THEN "DEAD" ELSE state[cur[c]]
  <1>0. PICK place \in {"user", "exit"} : InTask(c, place)
    BY Zenon DEF Exit
  <1>1. /\ cur[c] \notin IdleTask
        /\ tpc' = [tpc EXCEPT ![cur[c]] = "exit"]
        /\ state' = [state EXCEPT ![cur[c]] = s]
        /\ UNCHANGED <<sleepq, expired>>
        /\ UNCHANGED <<on_core, fresh, rq, cur, stk, prev, cleanup, hand, scan>>
        /\ cpc' = cpc
    BY Zenon DEF Exit, InTask, GoTo, queueVars, coreVars
  <1>2. /\ sleepq' \subseteq Task
        /\ \A t \in sleepq' : tpc'[t] \in {"armed", "cancel"}
        /\ expired' \in [Core -> SUBSET Task]
        /\ \A d \in Core : expired'[d] \subseteq sleepq'
    BY <1>0, <1>1, OwnSleep, Zenon
  <1>3. InTaskCode(c) /\ "exit" \in TaskPlaces
    BY <1>0, <1>1, OwnState, Zenon DEF TaskPlaces
  <1>4. /\ s \in States
        /\ s = state[cur[c]] \/ /\ state[cur[c]] \in {"RUNNING", "BLOCKED"}
                                /\ s \in {"RUNNING", "BLOCKED", "STOPPED", "DEAD"}
        /\ s = "DEAD" => "exit" = "exit"
        /\ s = "BLOCKED" => "exit" \in {"block", "armed"}
        /\ s = "STOPPED" => "exit" = "stop"
    BY <1>0, <1>1, OwnState, Zenon DEF States
  <1> HIDE DEF s
  <1> QED
    BY <1>1, <1>2, <1>3, <1>4, OwnStepInv, Zenon

\* Preserved by sleep_enqueue.
LEMMA ArmTimerInv ==
    ASSUME Inv, NEW c \in Core, ArmTimer(c)
    PROVE  Inv'
  <1> DEFINE u == cur[c]
  <1>1. /\ InTask(c, "block") /\ u \notin IdleTask
        /\ tpc' = [tpc EXCEPT ![u] = "armed"]
        /\ state' = state
        /\ sleepq' = sleepq \cup {u}
        /\ expired' = [d \in Core |-> expired[d] \ {u}]
        /\ UNCHANGED <<on_core, fresh, rq, cur, stk, prev, cleanup, hand, scan>>
        /\ cpc' = cpc
    BY Zenon DEF ArmTimer, InTask, GoTo, Unlink, coreVars
  <1>2. /\ InTaskCode(c) /\ u \in Task /\ "armed" \in TaskPlaces
        /\ state[u] \in States
        /\ state[u] = "BLOCKED" => "armed" \in {"block", "armed"}
        /\ state[u] # "DEAD" /\ state[u] # "STOPPED"
    BY <1>1, OwnState, Zenon DEF TaskPlaces
  <1>3. /\ state \in [Task -> States] /\ tpc \in [Task -> TaskPlaces]
        /\ sleepq \subseteq Task /\ expired \in [Core -> SUBSET Task]
    BY Zenon DEF Inv, TypeOK
  <1>4. state' = [state EXCEPT ![u] = state[u]]
    BY <1>1, <1>2, <1>3, Zenon
  <1>5. /\ \A t \in sleepq : tpc[t] \in {"armed", "cancel"}
        /\ \A d \in Core : expired[d] \subseteq sleepq
    BY Zenon DEF Inv, SleepInv
  <1>6. sleepq' \subseteq Task /\ \A t \in sleepq' : tpc'[t] \in {"armed", "cancel"}
    BY <1>1, <1>2, <1>3, <1>5, Zenon
  <1>7. /\ expired' \in [Core -> SUBSET Task]
        /\ \A d \in Core : expired'[d] \subseteq sleepq'
    BY <1>1, <1>2, <1>3, <1>5, Zenon
  <1> HIDE DEF u
  <1> QED
    BY <1>1, <1>2, <1>4, <1>6, <1>7, OwnStepInv, Zenon DEF u

\* Preserved by the sleep_dequeue of the sleeper.
LEMMA CancelTimerInv ==
    ASSUME Inv, NEW c \in Core, CancelTimer(c)
    PROVE  Inv'
  <1> DEFINE u == cur[c]
  <1>1. /\ InTask(c, "cancel") /\ u \notin IdleTask
        /\ tpc' = [tpc EXCEPT ![u] = "user"]
        /\ state' = state
        /\ sleepq' = sleepq \ {u}
        /\ expired' = [d \in Core |-> expired[d] \ {u}]
        /\ UNCHANGED <<on_core, fresh, rq, cur, stk, prev, cleanup, hand, scan>>
        /\ cpc' = cpc
    BY Zenon DEF CancelTimer, InTask, GoTo, Unlink, coreVars
  <1>2. /\ InTaskCode(c) /\ u \in Task /\ "user" \in TaskPlaces
        /\ state[u] \in States
        /\ state[u] = "BLOCKED" => "user" \in {"block", "armed"}
        /\ state[u] # "DEAD" /\ state[u] # "STOPPED"
    BY <1>1, OwnState, Zenon DEF TaskPlaces
  <1>3. /\ state \in [Task -> States] /\ tpc \in [Task -> TaskPlaces]
        /\ sleepq \subseteq Task /\ expired \in [Core -> SUBSET Task]
    BY Zenon DEF Inv, TypeOK
  <1>4. state' = [state EXCEPT ![u] = state[u]]
    BY <1>1, <1>2, <1>3, Zenon
  <1>5. /\ \A t \in sleepq : tpc[t] \in {"armed", "cancel"}
        /\ \A d \in Core : expired[d] \subseteq sleepq
    BY Zenon DEF Inv, SleepInv
  <1>6. sleepq' \subseteq Task /\ \A t \in sleepq' : tpc'[t] \in {"armed", "cancel"}
    BY <1>1, <1>2, <1>3, <1>5, Zenon
  <1>7. /\ expired' \in [Core -> SUBSET Task]
        /\ \A d \in Core : expired'[d] \subseteq sleepq'
    BY <1>1, <1>2, <1>3, <1>5, Zenon
  <1> HIDE DEF u
  <1> QED
    BY <1>1, <1>2, <1>4, <1>6, <1>7, OwnStepInv, Zenon DEF u

\* Preserved by task creation.
LEMMA CreateTaskInv ==
    ASSUME Inv, NEW c \in Core, NEW t \in UserTask \cup KernelTask, CreateTask(c, t)
    PROVE  Inv'
  <1>1. t \in Task /\ t \notin IdleTask
    BY TaskAssumption, Zenon DEF Task
  <1>2. /\ state[t] = "FREE" /\ cpc[c] = "run"
        /\ state' = [state EXCEPT ![t] = "READY"]
        /\ hand' = [hand EXCEPT ![c] = t]
        /\ cpc' = [cpc EXCEPT ![c] = "enqueue"]
        /\ tpc' = [tpc EXCEPT ![t] = "user"]
        /\ fresh' = [fresh EXCEPT ![t] = TRUE]
        /\ UNCHANGED <<on_core, rq, cur, stk, prev, cleanup, scan>>
        /\ UNCHANGED <<sleepq, expired>>
    BY Zenon DEF CreateTask, InTask, queueVars
  <1>3. tpc \in [Task -> TaskPlaces] /\ fresh \in [Task -> BOOLEAN]
    BY Zenon DEF Inv, TypeOK
  <1>4. /\ tpc' \in [Task -> TaskPlaces]
        /\ \A u \in Task : tpc'[u] = tpc[u] \/ (state[u] = "FREE" /\ u = t)
    BY <1>1, <1>2, <1>3, Zenon DEF TaskPlaces
  <1>5. fresh' \in [Task -> BOOLEAN]
    BY <1>2, <1>3, Zenon
  <1>6. /\ state' \in [Task -> States] /\ hand' \in [Core -> Task \cup {NoTask}]
        /\ cpc' \in [Core -> CorePlaces]
        /\ OnCoreInv' /\ LinkedOnce' /\ QueuedInv' /\ HandInv' /\ ReadyIsQueued'
        /\ CleanupInv' /\ PlaceInv'
    <2>1. /\ state[t] \in {"BLOCKED", "STOPPED", "FREE"}
          /\ TakesInHand(c) /\ cpc' \in [Core -> CorePlaces]
      BY <1>2, Zenon DEF Inv, TypeOK, CorePlaces, TakesInHand
    <2> QED
      BY <1>1, <1>2, <1>4, <2>1, MakeReadyInv, Zenon
  <1>7. TypeOK'
    BY <1>2, <1>4, <1>5, <1>6, Zenon DEF Inv, TypeOK
  <1>8. SleepInv'
    <2>1. \A u \in sleepq : u # t /\ tpc[u] \in {"armed", "cancel"} /\ u \in Task
      BY <1>1, <1>2, Zenon DEF Inv, TypeOK, PlaceInv, SleepInv
    <2> QED
      BY <2>1, <1>2, <1>3, Zenon DEF Inv, SleepInv
  <1> QED
    BY <1>6, <1>7, <1>8, Zenon DEF Inv

\* Preserved by the CAS of sched_unblock and sched_continue.
LEMMA WakeInv ==
    ASSUME Inv, NEW c \in Core, NEW t \in Task, NEW from \in {"BLOCKED", "STOPPED"},
           Wake(c, t, from)
    PROVE  Inv'
  <1>1. t \in Task /\ t \notin IdleTask
    BY Zenon DEF Inv, PlaceInv, Wake
  <1>2. /\ state[t] \in {"BLOCKED", "STOPPED"} /\ cpc[c] = "run"
        /\ state' = [state EXCEPT ![t] = "READY"]
        /\ hand' = [hand EXCEPT ![c] = t]
        /\ cpc' = [cpc EXCEPT ![c] = "unlink"]
        /\ UNCHANGED <<on_core, rq, cur, stk, prev, cleanup, scan>>
        /\ UNCHANGED <<tpc, fresh, sleepq, expired>>
    BY Zenon DEF Wake, queueVars
  <1>3. tpc' \in [Task -> TaskPlaces]
    BY <1>2, Zenon DEF Inv, TypeOK
  <1>4. /\ state' \in [Task -> States] /\ hand' \in [Core -> Task \cup {NoTask}]
        /\ cpc' \in [Core -> CorePlaces]
        /\ OnCoreInv' /\ LinkedOnce' /\ QueuedInv' /\ HandInv' /\ ReadyIsQueued'
        /\ CleanupInv' /\ PlaceInv'
    <2>1. /\ state[t] \in {"BLOCKED", "STOPPED", "FREE"}
          /\ TakesInHand(c) /\ cpc' \in [Core -> CorePlaces]
      BY <1>2, Zenon DEF Inv, TypeOK, CorePlaces, TakesInHand
    <2>2. \A u \in Task : tpc'[u] = tpc[u] \/ (state[u] = "FREE" /\ u = t)
      BY <1>2, Zenon
    <2> QED
      BY <1>1, <1>2, <1>3, <2>1, <2>2, MakeReadyInv, Zenon
  <1>5. TypeOK'
    BY <1>2, <1>4, Zenon DEF Inv, TypeOK
  <1>6. SleepInv'
    BY <1>2, Zenon DEF Inv, SleepInv
  <1> QED
    BY <1>4, <1>5, <1>6, Zenon DEF Inv

\* Preserved by the sleep_dequeue of the waker.
LEMMA WakeUnlinkInv ==
    ASSUME Inv, NEW c \in Core, WakeUnlink(c)
    PROVE  Inv'
  <1>1. /\ cpc[c] = "unlink" /\ cpc' = [cpc EXCEPT ![c] = "enqueue"]
        /\ sleepq' = sleepq \ {hand[c]}
        /\ expired' = [d \in Core |-> expired[d] \ {hand[c]}]
        /\ UNCHANGED <<state, on_core, tpc, fresh, rq, cur, stk, prev, cleanup, hand, scan>>
    BY Zenon DEF WakeUnlink, Unlink, taskVars
  <1>2. cpc \in [Core -> CorePlaces] /\ sleepq \subseteq Task /\ expired \in [Core -> SUBSET Task]
    BY Zenon DEF Inv, TypeOK
  <1>3. cpc'[c] = "enqueue" /\ \A d \in Core : d # c => cpc'[d] = cpc[d]
    BY <1>1, <1>2, Zenon
  <1>4. \A d \in Core : (InTaskCode(d)' <=> InTaskCode(d)) /\ (Busy(d)' <=> Busy(d))
    BY <1>1, <1>3, Zenon DEF InTaskCode, Busy
  <1>5. TypeOK'
    <2>1. cpc' \in [Core -> CorePlaces] /\ sleepq' \subseteq Task
      BY <1>1, <1>2, Zenon DEF CorePlaces
    <2>2. expired' \in [Core -> SUBSET Task]
      BY <1>1, <1>2, Zenon
    <2> QED
      BY <1>1, <2>1, <2>2, Zenon DEF Inv, TypeOK
  <1>6. OnCoreInv'
    BY <1>1, <1>3, <1>4 DEF Inv, OnCoreInv
  <1>7. LinkedOnce' /\ QueuedInv'
    BY <1>1, SameQueues, Zenon DEF Inv, QueuedInv
  <1>8. HandInv'
    BY <1>1, <1>4, Zenon DEF Inv, HandInv, Queued
  <1>9. ReadyIsQueued'
    BY <1>1, Zenon DEF Inv, ReadyIsQueued, Queued
  <1>10. CleanupInv'
    BY <1>1, <1>3, Zenon DEF Inv, CleanupInv
  <1>11. PlaceInv'
    BY <1>1, <1>3, <1>4 DEF Inv, PlaceInv
  <1>12. SleepInv'
    BY <1>1, Zenon DEF Inv, SleepInv
  <1> QED
    BY <1>5, <1>6, <1>7, <1>8, <1>9, <1>10, <1>11, <1>12, Zenon DEF Inv

\* Preserved by rq_enqueue.
LEMMA EnqueueInv ==
    ASSUME Inv, NEW c \in Core, Enqueue(c)
    PROVE  Inv'
  <1> DEFINE t == hand[c]
  <1>a. /\ t \in Task /\ t # NoTask /\ t \notin IdleTask
        /\ state[t] = "READY"
        /\ ~Queued(t)
    BY ConstFacts DEF Inv, TypeOK, HandInv, Busy, Enqueue
  <1>b. state' = state
    BY <1>a, Zenon DEF Inv, TypeOK, Enqueue, rq_enqueue
  <1>c. /\ LinkedOnce'
        /\ rq' \in [Core -> Seq(Task)]
        /\ \A u \in Task : Queued(u)' <=> Queued(u) \/ u = t
    <2>1. rq' = [rq EXCEPT ![c] = Append(@, t)] /\ TypeOK /\ LinkedOnce
      BY Zenon DEF Inv, Enqueue, rq_enqueue
    <2> QED
      BY <1>a, <2>1, AppendToQueue, Zenon
  <1>d. /\ hand'[c] = NoTask
        /\ \A d \in Core : d # c => hand'[d] = hand[d] /\ cpc'[d] = cpc[d]
        /\ hand' \in [Core -> Task \cup {NoTask}]
        /\ cpc[c] \in {"enqueue", "requeue"}
        /\ cpc'[c] = IF cpc[c] = "enqueue" THEN "run" ELSE "drain"
    BY Zenon DEF Inv, TypeOK, Enqueue
  <1>f. cpc' \in [Core -> CorePlaces]
    BY Zenon DEF Inv, TypeOK, Enqueue, CorePlaces
  <1>e. UNCHANGED <<on_core, tpc, fresh, sleepq, expired, cur, stk, prev, cleanup, scan>>
    BY Zenon DEF Enqueue
  <1>1. TypeOK'
    BY <1>b, <1>c, <1>d, <1>e, <1>f, Zenon DEF Inv, TypeOK
  <1>2. OnCoreInv'
    BY <1>b, <1>d, <1>e, Zenon DEF Inv, OnCoreInv, InTaskCode
  <1>3. LinkedOnce'
    BY <1>c, Zenon
  <1>4. QueuedInv'
    BY <1>a, <1>b, <1>c, Zenon DEF Inv, QueuedInv
  <1>5. HandInv'
    <2>1. \A d \in Core : Busy(d)' <=> hand'[d] # NoTask
      BY <1>d DEF Inv, HandInv, Busy
    <2>2. \A d \in Core : hand'[d] # NoTask => d # c /\ hand'[d] = hand[d] /\ hand[d] # t
      BY <1>a, <1>d, Zenon DEF Inv, HandInv
    <2>3. \A d \in Core : hand[d] # NoTask => hand[d] \in Task
      BY Zenon DEF Inv, TypeOK
    <2>4. \A d \in Core : hand'[d] # NoTask =>
             state'[hand'[d]] = "READY" /\ hand'[d] \notin IdleTask /\ ~Queued(hand[d])'
      BY <1>b, <1>c, <2>2, <2>3, Zenon DEF Inv, HandInv
    <2>5. \A d, e \in Core : hand'[d] = hand'[e] /\ hand'[d] # NoTask => d = e
      BY <2>2, Zenon DEF Inv, HandInv
    <2> QED
      BY <2>1, <2>4, <2>5, Zenon DEF HandInv
  <1>6. ReadyIsQueued'
    <2>1. SUFFICES ASSUME NEW u \in Task \ IdleTask, state'[u] = "READY", u # t, ~Queued(u)
                   PROVE  \E d \in Core : hand'[d] = u
      BY <1>c, Zenon DEF ReadyIsQueued
    <2>2. PICK d \in Core : hand[d] = u
      BY <1>b, <2>1, Zenon DEF Inv, ReadyIsQueued
    <2> QED
      BY <1>d, <2>1, <2>2, Zenon
  <1>7. CleanupInv'
    BY <1>b, <1>d, <1>e, Zenon DEF Inv, CleanupInv
  <1>8. PlaceInv'
    BY <1>b, <1>d, <1>e DEF Inv, PlaceInv, InTaskCode
  <1>9. SleepInv'
    BY <1>e, Zenon DEF Inv, SleepInv
  <1> QED
    BY <1>1, <1>2, <1>3, <1>4, <1>5, <1>6, <1>7, <1>8, <1>9, Zenon DEF Inv

\* Preserved by a turn of sleep_drain.
LEMMA DrainInv ==
    ASSUME Inv, NEW c \in Core, NEW t \in Task, Drain(c, t)
    PROVE  Inv'
  <1>1. /\ cpc[c] = "drain"
        /\ sleepq' = sleepq \ {t}
        /\ expired' = [d \in Core |-> expired[d] \ {t}]
        /\ UNCHANGED <<on_core, rq, cur, stk, prev, cleanup, scan>>
        /\ UNCHANGED <<tpc, fresh>>
    BY Zenon DEF Drain, Unlink
  <1>2. expired' \in [Core -> SUBSET Task] /\ sleepq' \subseteq Task
    <2>1. expired \in [Core -> SUBSET Task] /\ sleepq \subseteq Task
      BY Zenon DEF Inv, TypeOK
    <2> QED
      BY <1>1, <2>1, Zenon
  <1>3. SleepInv'
    BY <1>1, Zenon DEF Inv, SleepInv
  <1>4. CASE state[t] = "BLOCKED"
    <2>1. /\ state' = [state EXCEPT ![t] = "READY"]
          /\ hand' = [hand EXCEPT ![c] = t]
          /\ cpc' = [cpc EXCEPT ![c] = "requeue"]
      BY <1>4, Zenon DEF Drain
    <2>2. t \in Task /\ t \notin IdleTask
      BY <1>4, Zenon DEF Inv, PlaceInv
    <2>3. tpc' \in [Task -> TaskPlaces]
      BY <1>1, Zenon DEF Inv, TypeOK
    <2>4. /\ state' \in [Task -> States] /\ hand' \in [Core -> Task \cup {NoTask}]
          /\ cpc' \in [Core -> CorePlaces]
          /\ OnCoreInv' /\ LinkedOnce' /\ QueuedInv' /\ HandInv' /\ ReadyIsQueued'
          /\ CleanupInv' /\ PlaceInv'
      <3>1. /\ state[t] \in {"BLOCKED", "STOPPED", "FREE"}
            /\ TakesInHand(c) /\ cpc' \in [Core -> CorePlaces]
        BY <1>1, <1>4, <2>1, Zenon DEF Inv, TypeOK, CorePlaces, TakesInHand
      <3>2. \A u \in Task : tpc'[u] = tpc[u] \/ (state[u] = "FREE" /\ u = t)
        BY <1>1, Zenon
      <3> QED
        BY <1>1, <2>1, <2>2, <2>3, <3>1, <3>2, MakeReadyInv, Zenon
    <2>5. TypeOK'
      BY <1>1, <1>2, <2>4, Zenon DEF Inv, TypeOK
    <2> QED
      BY <1>3, <2>4, <2>5, Zenon DEF Inv
  <1>5. CASE state[t] # "BLOCKED"
    <2>1. UNCHANGED <<state, hand, cpc>>
      BY <1>5, Zenon DEF Drain
    <2>2. TypeOK'
      BY <1>1, <1>2, <2>1, Zenon DEF Inv, TypeOK
    <2>3. OnCoreInv'
      BY <1>1, <2>1, Zenon DEF Inv, OnCoreInv, InTaskCode
    <2>4. LinkedOnce' /\ QueuedInv'
      BY <1>1, <2>1, SameQueues, Zenon DEF Inv, QueuedInv
    <2>5. HandInv' /\ ReadyIsQueued'
      BY <1>1, <2>1, SMTT(30) DEF Inv, HandInv, ReadyIsQueued, Busy, Queued
    <2>6. CleanupInv' /\ PlaceInv'
      BY <1>1, <2>1 DEF Inv, CleanupInv, PlaceInv, InTaskCode
    <2> QED
      BY <1>3, <2>2, <2>3, <2>4, <2>5, <2>6, Zenon DEF Inv
  <1> QED
    BY <1>4, <1>5, Zenon

(***************************************************************************)
(* sched_schedule up to the pick: the cleanup on entry and the requeueing  *)
(* of the outgoing task.                                                   *)
(***************************************************************************)
\* Preserved by the entry of sched_schedule, with cleanup_dead_task.
LEMMA ScheduleInv ==
    ASSUME Inv, NEW c \in Core, Schedule(c)
    PROVE  Inv'
  <1> DEFINE dead == cleanup[c]
  <1>a. /\ rq' = rq /\ hand' = hand /\ cur' = cur /\ stk' = stk
        /\ fresh' = fresh /\ scan' = scan
        /\ cpc[c] = "run" /\ cpc'[c] = "drain"
        /\ \A d \in Core : d # c => cpc'[d] = cpc[d] /\ prev'[d] = prev[d] /\ cleanup'[d] = cleanup[d]
        /\ prev'[c] = NoTask /\ cleanup'[c] = NoTask
    BY Zenon DEF Inv, TypeOK, Schedule, cleanup_dead_task
  <1>b. /\ \A t \in Task : state'[t] = IF t = dead /\ t \notin BootTask THEN "FREE" ELSE state[t]
        /\ \A t \in Task : on_core'[t] = IF t = prev[c] THEN NoCore ELSE on_core[t]
        /\ tpc' = [tpc EXCEPT ![cur[c]] = Continuation(tpc[cur[c]])]
        /\ sleepq' = sleepq \ {dead}
    BY Zenon DEF Inv, TypeOK, Schedule, cleanup_dead_task, GoTo
  <1>t. \A d \in Core : /\ cur[d] \in Task /\ stk[d] \in Task
                        /\ prev[d] # NoTask => prev[d] \in Task
                        /\ cleanup[d] # NoTask => cleanup[d] \in Task
                        /\ hand[d] # NoTask => hand[d] \in Task
    BY PointerTypes, Zenon DEF Inv
  <1>c. dead # NoTask =>
          /\ state[dead] = "DEAD" /\ dead \in Task /\ dead # cur[c] /\ dead # stk[c]
          /\ on_core'[dead] = NoCore
    <2> SUFFICES ASSUME dead # NoTask
                 PROVE  /\ state[dead] = "DEAD" /\ dead \in Task /\ dead # cur[c] /\ dead # stk[c]
                        /\ on_core'[dead] = NoCore
      OBVIOUS
    <2>1. /\ state[dead] = "DEAD" /\ dead \in Task /\ dead # cur[c]
          /\ on_core[dead] \in {c, NoCore}
      BY <1>a, <1>t, Zenon DEF Inv, CleanupInv
    <2>2. dead # stk[c] /\ (on_core[dead] = c => dead = prev[c])
      BY <1>a, <2>1, Zenon DEF Inv, OnCoreInv
    <2> QED
      BY <1>b, <2>1, <2>2, Zenon
  <1>d. \A t \in Task : /\ state[t] # "DEAD" => state'[t] = state[t]
                        /\ state[t] = "DEAD" => state'[t] \in {"DEAD", "FREE"}
    <2>1. NoTask \notin Task
      BY ConstFacts, Zenon
    <2> QED
      BY <1>b, <1>c, <2>1, Zenon
  <1>1. TypeOK'
    <2>1. expired' \in [Core -> SUBSET Task]
      <3>1. PICK now \in SUBSET sleepq' :
               expired' = [d \in Core |-> IF d = c THEN now ELSE expired[d] \ {dead}]
        BY Zenon DEF Schedule, cleanup_dead_task
      <3> QED
        BY <3>1, <1>b, Zenon DEF Inv, TypeOK
    <2>2. tpc' \in [Task -> TaskPlaces]
      BY <1>b, Zenon DEF Inv, TypeOK, TaskPlaces, Continuation
    <2>3. /\ state' \in [Task -> States]
          /\ on_core' \in [Task -> Core \cup {NoCore}]
      BY Zenon DEF Inv, TypeOK, Schedule, cleanup_dead_task, States
    <2>4. cpc' \in [Core -> CorePlaces]
      BY Zenon DEF Inv, TypeOK, Schedule, cleanup_dead_task, CorePlaces
    <2>5. prev' \in [Core -> Task \cup {NoTask}] /\ cleanup' \in [Core -> Task \cup {NoTask}]
      BY Zenon DEF Inv, TypeOK, Schedule, cleanup_dead_task
    <2>6. sleepq' \in SUBSET Task
      BY <1>b, Zenon DEF Inv, TypeOK
    <2> QED
      BY <1>a, <2>1, <2>2, <2>3, <2>4, <2>5, <2>6, Zenon DEF Inv, TypeOK
  <1>2. OnCoreInv'
    <2>1. \A d \in Core : cur[d] # prev[c] /\ stk[d] # prev[c]
      <3>1. prev[c] # NoTask => on_core[prev[c]] = c /\ prev[c] # cur[c] /\ cur[c] = stk[c]
        BY <1>a, Zenon DEF Inv, OnCoreInv
      <3>2. \A d \in Core : /\ on_core[cur[d]] = d /\ on_core[stk[d]] = d
                            /\ cur[d] \in Task /\ stk[d] \in Task
        BY <1>t, Zenon DEF Inv, OnCoreInv
      <3> QED
        BY <3>1, <3>2, ConstFacts
    <2>2. \A d \in Core : on_core'[cur'[d]] = d /\ on_core'[stk'[d]] = d
      <3>1. \A d \in Core : on_core[cur[d]] = d /\ on_core[stk[d]] = d
        BY Zenon DEF Inv, OnCoreInv
      <3> QED
        BY <1>a, <1>b, <1>t, <2>1, <3>1
    <2>3. \A t \in Task, d \in Core : on_core'[t] = d => t \in {cur'[d], stk'[d], prev'[d]}
      <3>1. SUFFICES ASSUME NEW t \in Task, NEW d \in Core, on_core'[t] = d
                     PROVE  t \in {cur[d], stk[d], prev'[d]}
        BY <1>a, Zenon
      <3>2. t # prev[c] /\ on_core[t] = d
        BY <1>b, <3>1, ConstFacts, Zenon
      <3>3. t \in {cur[d], stk[d], prev[d]}
        BY <3>2, Zenon DEF Inv, OnCoreInv
      <3> QED
        BY <1>a, <3>2, <3>3, Zenon
    <2>4. \A d \in Core : cpc'[d] # "switch" => cur'[d] = stk'[d]
      BY <1>a DEF Inv, OnCoreInv
    <2>5. \A d \in Core : prev'[d] # NoTask =>
              on_core'[prev'[d]] = d /\ prev'[d] # cur'[d] /\ InTaskCode(d)'
      <3>1. SUFFICES ASSUME NEW d \in Core, prev'[d] # NoTask
                     PROVE  on_core'[prev'[d]] = d /\ prev'[d] # cur'[d] /\ InTaskCode(d)'
        OBVIOUS
      <3>2. d # c /\ prev'[d] = prev[d] /\ prev[d] \in Task /\ cpc'[d] = cpc[d]
        BY <1>a, <1>t, <3>1, Zenon
      <3>3. on_core[prev[d]] = d /\ prev[d] # cur[d] /\ InTaskCode(d)
        BY <3>1, <3>2, Zenon DEF Inv, OnCoreInv
      <3>4. prev[d] # prev[c]
        <4>1. prev[c] # NoTask => on_core[prev[c]] = c
          BY Zenon DEF Inv, OnCoreInv
        <4> QED
          BY <3>1, <3>2, <3>3, <4>1, Zenon
      <3>5. on_core'[prev[d]] = d
        BY <1>b, <3>2, <3>3, <3>4, Zenon
      <3> QED
        BY <1>a, <3>2, <3>3, <3>5, Zenon DEF InTaskCode
    <2>6. \A t \in Task : state'[t] = "FREE" => on_core'[t] = NoCore
      <3>1. SUFFICES ASSUME NEW t \in Task, state'[t] = "FREE"
                     PROVE  on_core'[t] = NoCore
        OBVIOUS
      <3>2. CASE t = dead
        BY <3>2, <1>c, ConstFacts, Zenon
      <3>3. CASE t # dead
        BY <3>1, <3>3, <1>b DEF Inv, OnCoreInv
      <3> QED
        BY <3>2, <3>3, Zenon
    <2>7. \A d \in Core : on_core'[Idle[d]] \in {d, NoCore}
      BY <1>b, ConstFacts, Zenon DEF Inv, OnCoreInv
    <2> QED
      BY <2>2, <2>3, <2>4, <2>5, <2>6, <2>7, Zenon DEF OnCoreInv
  <1>3. LinkedOnce'
    BY <1>a, SameQueues, Zenon DEF Inv
  <1>4. QueuedInv'
    BY <1>a, <1>d, SameQueues, Zenon DEF Inv, QueuedInv
  <1>5. HandInv'
    <2>1. \A d \in Core : Busy(d)' <=> Busy(d)
      BY <1>a, Zenon DEF Busy
    <2>2. \A u \in Task : state[u] = "READY" => state'[u] = "READY"
      BY <1>d, Zenon
    <2>3. \A u \in Task : Queued(u)' <=> Queued(u)
      BY <1>a, SameQueues, ZenonT(40)
    <2> QED
      BY <1>a, <1>t, <2>1, <2>2, <2>3, Zenon DEF Inv, HandInv
  <1>6. ReadyIsQueued'
    BY <1>a, <1>b, SameQueues DEF Inv, ReadyIsQueued
  <1>7. CleanupInv'
    <2>1. SUFFICES ASSUME NEW d \in Core, cleanup'[d] # NoTask
                   PROVE  /\ state'[cleanup'[d]] = "DEAD"
                          /\ on_core'[cleanup'[d]] \in {d, NoCore}
                          /\ cpc'[d] \notin {"drain", "requeue"}
                          /\ cpc'[d] # "pick" => cleanup'[d] # cur'[d]
                          /\ \A e \in Core : cleanup'[d] = cleanup'[e] => d = e
      BY Zenon DEF CleanupInv
    <2>2. d # c /\ cleanup'[d] = cleanup[d] /\ cleanup[d] \in Task /\ cleanup[d] # dead
      <3>1. d # c /\ cleanup'[d] = cleanup[d] /\ cleanup[d] \in Task
        BY <1>a, <1>t, <2>1, Zenon
      <3> QED
        BY <2>1, <3>1, Zenon DEF Inv, CleanupInv
    <2>3. /\ state[cleanup[d]] = "DEAD"
          /\ on_core[cleanup[d]] \in {d, NoCore}
          /\ cpc[d] \notin {"drain", "requeue"}
          /\ cpc[d] # "pick" => cleanup[d] # cur[d]
          /\ \A e \in Core : cleanup[d] = cleanup[e] => d = e
      BY <2>1, <2>2, Zenon DEF Inv, CleanupInv
    <2>4. \A e \in Core : cleanup'[d] = cleanup'[e] => d = e
      BY <1>a, <2>1, <2>2, <2>3, Zenon
    <2>5. /\ state'[cleanup[d]] = state[cleanup[d]]
          /\ on_core'[cleanup[d]] \in {d, NoCore}
      BY <1>b, <2>2, <2>3, Zenon
    <2> QED
      BY <1>a, <2>2, <2>3, <2>4, <2>5, Zenon
  <1>8. PlaceInv'
    <2>1. \A t \in Task : t # cur[c] => tpc'[t] = tpc[t]
      BY <1>b, Zenon DEF Inv, TypeOK
    <2>2. tpc[cur[c]] = "exit" => tpc'[cur[c]] = "exit"
      BY <1>b, Zenon DEF Inv, TypeOK, Continuation
    <2>3. \A t \in Task : state'[t] = "DEAD" => tpc'[t] = "exit"
      <3>1. \A t \in Task : state'[t] = "DEAD" => state[t] = "DEAD"
        BY <1>b, Zenon
      <3>2. \A t \in Task : state[t] = "DEAD" => tpc[t] = "exit"
        BY Zenon DEF Inv, PlaceInv
      <3> QED
        BY <2>1, <2>2, <3>1, <3>2, Zenon
    <2>4. \A t \in Task : state'[t] = "FREE" => tpc'[t] \in {"user", "exit"}
      <3>1. state[cur[c]] # "FREE"
        BY <1>t, ConstFacts DEF Inv, OnCoreInv
      <3>2. SUFFICES ASSUME NEW t \in Task, state'[t] = "FREE"
                     PROVE  tpc'[t] \in {"user", "exit"}
        BY SMTT(30)
      <3>3. CASE t = dead
        BY <3>3, <1>c, <2>1, ConstFacts, SMTT(30) DEF Inv, PlaceInv
      <3>4. CASE t # dead
        BY <3>1, <3>2, <3>4, <1>b, <2>1 DEF Inv, PlaceInv
      <3> QED
        BY <3>3, <3>4, Zenon
    <2>5. \A t \in IdleTask : state'[t] \in {"READY", "RUNNING"}
      BY <1>d, ConstFacts, Zenon DEF Inv, PlaceInv
    <2>6. \A d \in Core : cpc'[d] = "switch" => state'[cur'[d]] = "RUNNING"
      <3>1. \A d \in Core : cpc'[d] = "switch" => cpc[d] = "switch"
        BY <1>a, Zenon
      <3>2. \A d \in Core : cpc[d] = "switch" => state[cur[d]] = "RUNNING"
        BY Zenon DEF Inv, PlaceInv
      <3> QED
        BY <1>a, <1>d, <1>t, <3>1, <3>2
    <2>7. \A d \in Core : InTaskCode(d)' =>
             /\ d # c /\ InTaskCode(d) /\ cur[d] # cur[c]
             /\ state'[cur'[d]] = state[cur[d]] \/ state'[cur'[d]] \in {"DEAD", "FREE"}
      <3>1. \A d \in Core : InTaskCode(d)' => d # c /\ InTaskCode(d)
        BY <1>a, Zenon DEF InTaskCode
      <3>2. \A d \in Core : d # c => cur[d] # cur[c]
        BY CurIsOwn, Zenon
      <3> QED
        BY <1>a, <1>d, <1>t, <3>1, <3>2, Zenon
    <2>8. \A d \in Core : InTaskCode(d)' =>
             /\ state'[cur'[d]] = "BLOCKED" => tpc'[cur'[d]] \in {"block", "armed"}
             /\ state'[cur'[d]] = "STOPPED" => tpc'[cur'[d]] = "stop"
      <3>1. SUFFICES ASSUME NEW d \in Core, InTaskCode(d)'
                     PROVE  /\ state'[cur'[d]] = "BLOCKED" => tpc'[cur'[d]] \in {"block", "armed"}
                            /\ state'[cur'[d]] = "STOPPED" => tpc'[cur'[d]] = "stop"
        OBVIOUS
      <3>2. /\ InTaskCode(d) /\ cur'[d] = cur[d] /\ tpc'[cur[d]] = tpc[cur[d]]
            /\ state'[cur[d]] = state[cur[d]] \/ state'[cur[d]] \in {"DEAD", "FREE"}
        BY <1>a, <1>t, <2>1, <2>7, <3>1, Zenon
      <3> QED
        BY <3>2, SMTT(30) DEF Inv, PlaceInv
    <2> QED
      BY <2>3, <2>4, <2>5, <2>6, <2>8, Zenon DEF PlaceInv
  <1>9. SleepInv'
    <2>1. PICK now \in SUBSET sleepq' :
             expired' = [d \in Core |-> IF d = c THEN now ELSE expired[d] \ {dead}]
      BY Zenon DEF Schedule, cleanup_dead_task
    <2>2. \A t \in sleepq' : tpc'[t] \in {"armed", "cancel"}
      BY <1>b, Zenon DEF Inv, TypeOK, SleepInv, Continuation
    <2> QED
      BY <1>b, <2>1, <2>2, Zenon DEF Inv, SleepInv
  <1> QED
    BY <1>1, <1>2, <1>3, <1>4, <1>5, <1>6, <1>7, <1>8, <1>9, Zenon DEF Inv


\* Preserved by the switch on the state of the task that gives up the core.
LEMMA PutPrevInv ==
    ASSUME Inv, NEW c \in Core, PutPrev(c)
    PROVE  Inv'
  <1> DEFINE p == cur[c]
  <1>a. /\ UNCHANGED <<on_core, tpc, fresh, sleepq, expired, cur, stk, prev, hand>>
        /\ cpc[c] = "drain" /\ cpc'[c] = "pick" /\ scan'[c] = 0
        /\ \A d \in Core : d # c => cpc'[d] = cpc[d] /\ cleanup'[d] = cleanup[d]
        /\ cleanup'[c] = IF state[p] = "DEAD" THEN p ELSE cleanup[c]
        /\ p \in Task /\ on_core[p] = c /\ cleanup[c] = NoTask
    <2>1. /\ cpc \in [Core -> CorePlaces] /\ scan \in [Core -> 0..N]
          /\ cleanup \in [Core -> Task \cup {NoTask}] /\ p \in Task
      BY Zenon DEF Inv, TypeOK
    <2>2. cpc[c] = "drain" /\ cleanup[c] = NoTask /\ on_core[p] = c
      BY Zenon DEF Inv, PutPrev, OnCoreInv, CleanupInv
    <2> QED
      BY <2>1, <2>2, Zenon DEF PutPrev
  <1>t. \A d \in Core : /\ cur[d] \in Task
                        /\ cleanup[d] # NoTask => cleanup[d] \in Task
                        /\ hand[d] # NoTask => hand[d] \in Task
    BY PointerTypes, Zenon DEF Inv
  <1>b. p \in IdleTask => p = Idle[c]
    BY <1>a, ConstFacts DEF Inv, OnCoreInv, IdleTask
  <1>c. state[p] = "RUNNING" => ~Queued(p) /\ \A d \in Core : hand[d] # p
    BY <1>a, ConstFacts, Zenon DEF Inv, QueuedInv, HandInv
  <1>d. /\ LinkedOnce'
        /\ rq' \in [Core -> Seq(Task)]
        /\ \/ /\ state' = state
              /\ \A u \in Task : Queued(u)' <=> Queued(u)
           \/ /\ state[p] = "RUNNING" /\ p \notin IdleTask
              /\ state' = [state EXCEPT ![p] = "READY"]
              /\ \A u \in Task : Queued(u)' <=> Queued(u) \/ u = p
    <2>1. CASE state[p] = "RUNNING" /\ p # Idle[c]
      <3>1. state' = [state EXCEPT ![p] = "READY"] /\ rq' = [rq EXCEPT ![c] = Append(@, p)]
        BY <2>1, Zenon DEF PutPrev, rq_enqueue
      <3> QED
        <4>1. TypeOK /\ LinkedOnce /\ ~Queued(p) /\ p \in Task /\ p \notin IdleTask
          BY <2>1, <1>a, <1>b, <1>c, Zenon DEF Inv
        <4>2. /\ LinkedOnce'
              /\ rq' \in [Core -> Seq(Task)]
              /\ \A u \in Task : Queued(u)' <=> Queued(u) \/ u = p
          BY <3>1, <4>1, AppendToQueue, Zenon
        <4> QED
          BY <2>1, <3>1, <4>1, <4>2, Zenon
    <2>2. CASE ~(state[p] = "RUNNING" /\ p # Idle[c])
      <3>1. state' = state /\ rq' = rq
        BY <2>2, Zenon DEF PutPrev
      <3>2. LinkedOnce /\ rq \in [Core -> Seq(Task)]
        BY Zenon DEF Inv, TypeOK
      <3> QED
        BY <3>1, <3>2, SameQueues, Zenon
    <2> QED
      BY <2>1, <2>2, Zenon
  <1>e. /\ state' \in [Task -> States]
        /\ \A u \in Task : state[u] # "RUNNING" => state'[u] = state[u]
        /\ \A u \in Task : u # p => state'[u] = state[u]
        /\ state[p] = "RUNNING" => state'[p] \in {"RUNNING", "READY"}
    <2>1. state \in [Task -> States] /\ "READY" \in States /\ p \in Task
      BY <1>a, Zenon DEF Inv, TypeOK, States
    <2>2. CASE state' = state
      BY <2>1, <2>2, Zenon
    <2>3. CASE state[p] = "RUNNING" /\ state' = [state EXCEPT ![p] = "READY"]
      BY <2>1, <2>3, Zenon
    <2> QED
      BY <1>d, <2>2, <2>3, Zenon
  <1>1. TypeOK'
    <2>1. /\ cleanup' \in [Core -> Task \cup {NoTask}]
          /\ cpc' \in [Core -> CorePlaces]
          /\ scan' \in [Core -> 0..N]
      BY <1>a, CoreAssumption DEF Inv, TypeOK, PutPrev, CorePlaces
    <2> QED
      BY <1>a, <1>d, <1>e, <2>1, Zenon DEF Inv, TypeOK
  <1>2. OnCoreInv'
    <2>1. \A d \in Core : (InTaskCode(d)' <=> InTaskCode(d)) /\ (cpc'[d] = "switch" <=> cpc[d] = "switch")
      BY <1>a, Zenon DEF InTaskCode
    <2>2. \A u \in Task : state'[u] = "FREE" => state[u] = "FREE"
      BY <1>a, <1>e, Zenon
    <2> QED
      BY <1>a, <2>1, <2>2, Zenon DEF Inv, OnCoreInv
  <1>3. LinkedOnce'
    BY <1>d, Zenon
  <1>4. QueuedInv'
    <2>1. \A u \in Task : Queued(u) => state[u] = "READY" /\ u \notin IdleTask
      BY Zenon DEF Inv, QueuedInv
    <2>2. \A u \in Task : Queued(u)' => Queued(u) \/ (u = p /\ p \notin IdleTask /\ state'[p] = "READY")
      BY <1>a, <1>d, <1>e, Zenon DEF Inv, TypeOK
    <2> QED
      BY <1>e, <2>1, <2>2, Zenon DEF QueuedInv
  <1>5. HandInv'
    <2>1. \A d \in Core : (Busy(d)' <=> Busy(d)) /\ hand'[d] = hand[d]
      BY <1>a, Zenon DEF Busy
    <2>2. \A d \in Core : hand[d] # NoTask => hand[d] \in Task
      BY <1>t, Zenon
    <2>3. \A d \in Core : hand[d] # NoTask =>
             state'[hand[d]] = "READY" /\ hand[d] \notin IdleTask /\ ~Queued(hand[d])'
      <3>1. \A d \in Core : hand[d] # NoTask =>
               state[hand[d]] = "READY" /\ hand[d] \notin IdleTask /\ ~Queued(hand[d])
        BY Zenon DEF Inv, HandInv
      <3>2. \A u \in Task : state[u] = "READY" /\ ~Queued(u) => state'[u] = "READY" /\ ~Queued(u)'
        BY <1>d, <1>e, Zenon
      <3> QED
        BY <1>a, <2>2, <3>1, <3>2, Zenon
    <2> QED
      BY <2>1, <2>3, Zenon DEF Inv, HandInv
  <1>6. ReadyIsQueued'
    <2>1. \A u \in Task : state'[u] = "READY" => state[u] = "READY" \/ (u = p /\ Queued(u)')
      BY <1>d, <1>e, Zenon
    <2>2. \A u \in Task : Queued(u) => Queued(u)'
      BY <1>d, Zenon
    <2> QED
      BY <1>a, <2>1, <2>2, Zenon DEF Inv, ReadyIsQueued
  <1>7. CleanupInv'
    <2>1. SUFFICES ASSUME NEW d \in Core, cleanup'[d] # NoTask
                   PROVE  /\ state'[cleanup'[d]] = "DEAD"
                          /\ on_core'[cleanup'[d]] \in {d, NoCore}
                          /\ cpc'[d] \notin {"drain", "requeue"}
                          /\ cpc'[d] # "pick" => cleanup'[d] # cur'[d]
                          /\ \A e \in Core : cleanup'[d] = cleanup'[e] => d = e
      BY Zenon DEF CleanupInv
    <2>2. \A e \in Core : cleanup[e] # NoTask => cleanup[e] \in Task /\ on_core[cleanup[e]] \in {e, NoCore}
      BY <1>t, Zenon DEF Inv, CleanupInv
    <2>3. \A e \in Core : e # c => cleanup[e] # p
      BY <1>a, <2>2, ConstFacts
    <2>4. CASE d = c
      <3>1. cleanup'[c] = p /\ state[p] = "DEAD"
        BY <1>a, <2>1, <2>4, Zenon
      <3>2. \A e \in Core : cleanup'[e] = p => e = c
        BY <1>a, <2>3, Zenon
      <3> QED
        BY <1>a, <1>e, <2>4, <3>1, <3>2, Zenon
    <2>5. CASE d # c
      <3>1. cleanup'[d] = cleanup[d] /\ cleanup[d] \in Task /\ cleanup[d] # p
        BY <1>a, <2>1, <2>2, <2>3, <2>5, Zenon
      <3>2. /\ state[cleanup[d]] = "DEAD"
            /\ on_core[cleanup[d]] \in {d, NoCore}
            /\ cpc[d] \notin {"drain", "requeue"}
            /\ cpc[d] # "pick" => cleanup[d] # cur[d]
            /\ \A e \in Core : cleanup[d] = cleanup[e] => d = e
        BY <2>1, <3>1, Zenon DEF Inv, CleanupInv
      <3>3. \A e \in Core : cleanup'[d] = cleanup'[e] => d = e
        BY <1>a, <2>1, <3>1, <3>2, Zenon
      <3>4. state'[cleanup[d]] = "DEAD"
        BY <1>e, <3>1, <3>2, Zenon
      <3> QED
        BY <1>a, <2>5, <3>1, <3>2, <3>3, <3>4, Zenon
    <2> QED
      BY <2>4, <2>5, Zenon
  <1>8. PlaceInv'
    <2>1. \A d \in Core : /\ InTaskCode(d)' => InTaskCode(d) /\ d # c
                          /\ cpc'[d] = "switch" => cpc[d] = "switch" /\ d # c
      BY <1>a, Zenon DEF InTaskCode
    <2>2. \A d \in Core : cur[d] \in Task /\ (d # c => cur[d] # p)
      BY <1>t, CurIsOwn, Zenon
    <2>3. \A t \in IdleTask : state'[t] \in {"READY", "RUNNING"}
      BY <1>a, <1>e, ConstFacts, SMTT(30) DEF Inv, PlaceInv
    <2>4. \A t \in Task : state'[t] = "DEAD" => tpc'[t] = "exit"
      BY <1>a, <1>e, SMTT(30) DEF Inv, PlaceInv
    <2>7. \A t \in Task : state'[t] = "FREE" => tpc'[t] \in {"user", "exit"}
      BY <1>a, <1>e, SMTT(30) DEF Inv, PlaceInv
    <2>5. \A d \in Core : cpc'[d] = "switch" => state'[cur'[d]] = "RUNNING"
      <3>1. \A d \in Core : cpc[d] = "switch" => state[cur[d]] = "RUNNING"
        BY Zenon DEF Inv, PlaceInv
      <3> QED
        BY <1>a, <1>e, <2>1, <2>2, <3>1, SMTT(30)
    <2>6. \A d \in Core : InTaskCode(d)' =>
             /\ state'[cur'[d]] = "BLOCKED" => tpc'[cur'[d]] \in {"block", "armed"}
             /\ state'[cur'[d]] = "STOPPED" => tpc'[cur'[d]] = "stop"
      <3>1. SUFFICES ASSUME NEW d \in Core, InTaskCode(d)'
                     PROVE  /\ state'[cur'[d]] = "BLOCKED" => tpc'[cur'[d]] \in {"block", "armed"}
                            /\ state'[cur'[d]] = "STOPPED" => tpc'[cur'[d]] = "stop"
        OBVIOUS
      <3>2. InTaskCode(d) /\ d # c
        BY <3>1, <2>1, Zenon DEF InTaskCode
      <3>3. cur'[d] = cur[d] /\ state'[cur[d]] = state[cur[d]] /\ tpc' = tpc
        BY <3>2, <2>2, <1>a, <1>e, Zenon
      <3> QED
        BY <3>2, <3>3, Zenon DEF Inv, PlaceInv
    <2> QED
      BY <2>3, <2>4, <2>5, <2>6, <2>7, Zenon DEF PlaceInv
  <1>9. SleepInv'
    BY <1>a, Zenon DEF Inv, SleepInv
  <1> QED
    BY <1>1, <1>2, <1>3, <1>4, <1>5, <1>6, <1>7, <1>8, <1>9, Zenon DEF Inv

(***************************************************************************)
(* The pick and the switch.                                                *)
(***************************************************************************)
\* Preserved by a successful rq_dequeue.
LEMMA PickFromInv ==
    ASSUME Inv, NEW c \in Core, NEW i \in 1..Len(rq[Victim(c)]), PickFrom(c, i)
    PROVE  Inv'
  <1> DEFINE v == Victim(c)
             n == rq[v][i]
  <1>a. v \in Core
    BY VictimIsCore, Zenon DEF Inv, TypeOK
  <1>b. /\ LinkedOnce'
        /\ rq' \in [Core -> Seq(Task)]
        /\ n \in Task
        /\ Queued(n)
        /\ \A u \in Task : Queued(u)' <=> Queued(u) /\ u # n
    <2>1. rq' = [rq EXCEPT ![v] = WithoutIndex(@, i)]
      BY Zenon DEF PickFrom
    <2>2. TypeOK /\ LinkedOnce
      BY Zenon DEF Inv
    <2> QED
      BY <1>a, <2>1, <2>2, RemoveFromQueue, Zenon
  <1>c. /\ state[n] = "READY" /\ n \notin IdleTask /\ on_core[n] = NoCore
        /\ cpc[c] = "pick" /\ Dispatch(c, n)
        /\ UNCHANGED <<tpc, fresh, sleepq, expired, stk, prev, cleanup, hand, scan>>
    BY <1>b, Zenon DEF Inv, QueuedInv, PickFrom, IsFirstEligible, Eligible
  <1> HIDE DEF n, v
  <1>d. TypeOK' /\ OnCoreInv' /\ CleanupInv' /\ PlaceInv' /\ SleepInv'
    BY <1>b, <1>c, DispatchInv, Zenon DEF Inv
  <1>e. /\ \A u \in Task : u # n => state'[u] = state[u]
        /\ state'[n] = "RUNNING"
        /\ \A d \in Core : Busy(d)' <=> Busy(d)
    BY <1>b, <1>c, Zenon DEF Inv, TypeOK, Dispatch, Busy
  <1>f. \A d \in Core : hand[d] # n /\ (hand[d] # NoTask => hand[d] \in Task)
    BY <1>b, ConstFacts, SMTT(30) DEF Inv, TypeOK, HandInv
  <1>4. QueuedInv'
    BY <1>b, <1>e, Zenon DEF Inv, QueuedInv
  <1>5. HandInv'
    <2>1. \A d \in Core : hand[d] # NoTask => ~Queued(hand[d])'
      BY <1>b, <1>c, <1>f, Zenon DEF Inv, HandInv
    <2>2. \A d \in Core : hand[d] # NoTask => state'[hand[d]] = "READY"
      BY <1>e, <1>f, Zenon DEF Inv, HandInv
    <2> QED
      BY <1>c, <1>e, <2>1, <2>2, Zenon DEF Inv, HandInv
  <1>6. ReadyIsQueued'
    BY <1>b, <1>c, <1>e, Zenon DEF Inv, ReadyIsQueued
  <1> QED
    BY <1>b, <1>d, <1>4, <1>5, <1>6, Zenon DEF Inv

\* Preserved by a step of the stealing loop.
LEMMA PickNextInv ==
    ASSUME Inv, NEW c \in Core, PickNext(c)
    PROVE  Inv'
  <1>a. rq' = rq
    BY Zenon DEF PickNext, queueVars
  <1>1. TypeOK'
    <2>1. scan \in [Core -> 0..N] /\ scan[c] < N /\ N \in Nat
      BY CoreAssumption, Zenon DEF Inv, TypeOK, PickNext
    <2>2. scan' \in [Core -> 0..N]
      BY <2>1 DEF PickNext
    <2> QED
      BY <2>2, Zenon DEF Inv, TypeOK, PickNext, taskVars, queueVars
  <1>2. OnCoreInv'
    BY Zenon DEF Inv, OnCoreInv, InTaskCode, PickNext, taskVars, queueVars
  <1>3. LinkedOnce'
    BY <1>a, SameQueues, Zenon DEF Inv
  <1>4. QueuedInv'
    BY <1>a, SameQueues, Zenon DEF Inv, QueuedInv, PickNext, taskVars
  <1>5. HandInv'
    BY DEF Inv, HandInv, Busy, Queued, PickNext, taskVars, queueVars
  <1>6. ReadyIsQueued'
    BY Zenon DEF Inv, ReadyIsQueued, Queued, PickNext, taskVars, queueVars
  <1>7. CleanupInv'
    BY Zenon DEF Inv, CleanupInv, PickNext, taskVars
  <1>8. PlaceInv'
    BY Zenon DEF Inv, PlaceInv, InTaskCode, PickNext, taskVars
  <1>9. SleepInv'
    BY Zenon DEF Inv, SleepInv, PickNext, taskVars, queueVars
  <1> QED
    BY <1>1, <1>2, <1>3, <1>4, <1>5, <1>6, <1>7, <1>8, <1>9, Zenon DEF Inv

\* Preserved by falling back to the idle task.
LEMMA PickIdleInv ==
    ASSUME Inv, NEW c \in Core, PickIdle(c)
    PROVE  Inv'
  <1> DEFINE n == Idle[c]
  <1>a. /\ n \in Task /\ n \in IdleTask /\ on_core[n] \in {c, NoCore}
        /\ state[n] \in {"READY", "RUNNING"}
        /\ cpc[c] = "pick" /\ Dispatch(c, n)
        /\ UNCHANGED <<tpc, fresh, sleepq, expired, stk, prev, cleanup, hand, scan>>
        /\ rq' = rq
    BY ConstFacts, Zenon DEF Inv, OnCoreInv, PlaceInv, PickIdle, queueVars
  <1> HIDE DEF n
  <1>d. TypeOK' /\ OnCoreInv' /\ CleanupInv' /\ PlaceInv' /\ SleepInv'
    <2>1. rq' \in [Core -> Seq(Task)]
      BY <1>a, Zenon DEF Inv, TypeOK
    <2>2. TypeOK /\ OnCoreInv /\ CleanupInv /\ PlaceInv /\ SleepInv
      BY Zenon DEF Inv
    <2> QED
      BY <1>a, <2>1, <2>2, DispatchInv, Zenon DEF n
  <1>e. /\ \A u \in Task : u # n => state'[u] = state[u]
        /\ state'[n] = "RUNNING"
        /\ \A d \in Core : Busy(d)' <=> Busy(d)
        /\ \A u \in Task : Queued(u)' <=> Queued(u)
    BY <1>a, SameQueues, Zenon DEF Inv, TypeOK, Dispatch, Busy
  <1>f. \A d \in Core : hand[d] # NoTask => hand[d] \in Task
    BY Zenon DEF Inv, TypeOK
  <1>3. LinkedOnce'
    BY <1>a, SameQueues, Zenon DEF Inv
  <1>4. QueuedInv'
    BY <1>a, <1>e, Zenon DEF Inv, QueuedInv
  <1>5. HandInv'
    BY <1>a, <1>e, <1>f, Zenon DEF Inv, HandInv
  <1>6. ReadyIsQueued'
    BY <1>a, <1>e, Zenon DEF Inv, ReadyIsQueued
  <1> QED
    BY <1>d, <1>3, <1>4, <1>5, <1>6, Zenon DEF Inv

\* Preserved by switch_context and the release of the predecessor.
LEMMA SwitchInv ==
    ASSUME Inv, NEW c \in Core, Switch(c)
    PROVE  Inv'
  <1> DEFINE old == stk[c]
             n == cur[c]
  <1>a. /\ UNCHANGED <<state, tpc, rq, sleepq, expired, cur, cleanup, hand, scan>>
        /\ cpc[c] = "switch" /\ cpc'[c] = "run" /\ stk'[c] = n
        /\ \A d \in Core : d # c => cpc'[d] = cpc[d] /\ stk'[d] = stk[d] /\ prev'[d] = prev[d]
        /\ prev[c] = NoTask
        /\ prev'[c] \in {NoTask, old} /\ (old = n => prev'[c] = NoTask)
    <2>1. cpc \in [Core -> CorePlaces] /\ stk \in [Core -> Task] /\ prev \in [Core -> Task \cup {NoTask}]
      BY Zenon DEF Inv, TypeOK
    <2>2. cpc[c] = "switch" => prev[c] = NoTask
      BY Zenon DEF Inv, OnCoreInv, InTaskCode
    <2> QED
      BY <2>1, <2>2, Zenon DEF Switch, queueVars
  <1>b. /\ \A t \in Task : t # old => on_core'[t] = on_core[t]
        /\ on_core'[old] = IF old = n \/ prev'[c] = old THEN on_core[old] ELSE NoCore
    <2>1. /\ on_core \in [Task -> Core \cup {NoCore}]
          /\ prev \in [Core -> Task \cup {NoTask}]
          /\ old \in Task /\ old # NoTask
      BY ConstFacts, Zenon DEF Inv, TypeOK
    <2> QED
      BY <2>1, Zenon DEF Switch
  <1>c. n \in Task /\ old \in Task /\ on_core[n] = c /\ on_core[old] = c /\ state[n] = "RUNNING"
    BY <1>a DEF Inv, TypeOK, OnCoreInv, PlaceInv
  <1>1. TypeOK'
    <2>1. fresh' \in [Task -> BOOLEAN]
      BY Zenon DEF Inv, TypeOK, Switch
    <2>2. on_core' \in [Task -> Core \cup {NoCore}]
      <3>1. on_core \in [Task -> Core \cup {NoCore}] /\ old \in Task
        BY Zenon DEF Inv, TypeOK
      <3> QED
        BY <3>1, Zenon DEF Switch
    <2>3. prev' \in [Core -> Task \cup {NoTask}] /\ stk' \in [Core -> Task]
      BY Zenon DEF Inv, TypeOK, Switch
    <2>4. cpc' \in [Core -> CorePlaces]
      BY Zenon DEF Inv, TypeOK, Switch, CorePlaces
    <2> QED
      BY <1>a, <2>1, <2>2, <2>3, <2>4, Zenon DEF Inv, TypeOK
  <1>2. OnCoreInv'
    <2>1. \A d \in Core : /\ cur[d] \in Task /\ stk[d] \in Task
                          /\ on_core[cur[d]] = d /\ on_core[stk[d]] = d
                          /\ d # c => cur[d] # old /\ stk[d] # old
      <3>1. \A d \in Core : cur[d] \in Task /\ stk[d] \in Task
        BY PointerTypes, Zenon DEF Inv
      <3>2. \A d \in Core : on_core[cur[d]] = d /\ on_core[stk[d]] = d
        BY Zenon DEF Inv, OnCoreInv
      <3> QED
        BY <1>c, <3>1, <3>2, Zenon
    <2>2. \A d \in Core : on_core'[cur'[d]] = d /\ on_core'[stk'[d]] = d
      <3>1. ASSUME NEW d \in Core, d # c
            PROVE  on_core'[cur[d]] = d /\ on_core'[stk[d]] = d
        <4>1. cur[d] \in Task /\ stk[d] \in Task /\ cur[d] # old /\ stk[d] # old
          BY <2>1, <3>1, Zenon
        <4> QED
          BY <4>1, <1>b, <2>1, Zenon
      <3>2. on_core'[n] = c
        BY <1>b, <1>c, Zenon
      <3> QED
        BY <1>a, <3>1, <3>2, Zenon
    <2>3. \A t \in Task, d \in Core : on_core'[t] = d => t \in {cur'[d], stk'[d], prev'[d]}
      <3>1. SUFFICES ASSUME NEW t \in Task, NEW d \in Core, on_core'[t] = d
                     PROVE  t \in {cur[d], stk'[d], prev'[d]}
        BY <1>a, Zenon
      <3>2. on_core[t] = d
        BY <1>b, <3>1, ConstFacts, Zenon
      <3>3. t \in {cur[d], stk[d], prev[d]}
        BY <3>2, Zenon DEF Inv, OnCoreInv
      <3>4. CASE d # c
        BY <3>3, <3>4, <1>a, Zenon
      <3>5. CASE d = c
        <4>1. t \in {n, old}
          BY <3>3, <3>5, <1>a, ConstFacts, Zenon
        <4>2. t = old /\ old # n => prev'[c] = old
          BY <3>1, <3>5, <1>b, ConstFacts, ZenonT(40)
        <4> QED
          BY <4>1, <4>2, <3>5, Zenon
      <3> QED
        BY <3>4, <3>5, Zenon
    <2>4. \A d \in Core : cpc'[d] # "switch" => cur'[d] = stk'[d]
      BY <1>a DEF Inv, OnCoreInv
    <2>5. \A d \in Core : prev'[d] # NoTask =>
              on_core'[prev'[d]] = d /\ prev'[d] # cur'[d] /\ InTaskCode(d)'
      <3>1. SUFFICES ASSUME NEW d \in Core, prev'[d] # NoTask
                     PROVE  on_core'[prev'[d]] = d /\ prev'[d] # cur[d] /\ InTaskCode(d)'
        BY <1>a, Zenon
      <3>2. CASE d = c
        BY <3>1, <3>2, <1>a, <1>b, <1>c, Zenon DEF InTaskCode
      <3>3. CASE d # c
        <4>0. prev'[d] = prev[d] /\ prev[d] \in Task
          BY <3>1, <3>3, <1>a, PointerTypes, Zenon DEF Inv
        <4>1. on_core[prev[d]] = d /\ prev[d] # cur[d] /\ InTaskCode(d)
          BY <3>1, <4>0, Zenon DEF Inv, OnCoreInv
        <4>2. prev[d] # old /\ InTaskCode(d)'
          BY <4>1, <3>3, <1>a, <1>c, ZenonT(30) DEF InTaskCode
        <4> QED
          BY <4>0, <4>1, <4>2, <1>b, Zenon
      <3> QED
        BY <3>2, <3>3, Zenon
    <2>6. \A t \in Task : state'[t] = "FREE" => on_core'[t] = NoCore
      <3> SUFFICES ASSUME NEW t \in Task, state'[t] = "FREE" PROVE on_core'[t] = NoCore
        OBVIOUS
      <3>1. state[t] = "FREE"
        BY <1>a, Zenon
      <3>2. on_core[t] = NoCore
        BY <3>1, Zenon DEF Inv, OnCoreInv
      <3>3. t # old
        BY <1>c, <3>2, ConstFacts, Zenon
      <3> QED
        BY <1>b, <3>2, <3>3, Zenon
    <2>7. \A d \in Core : on_core'[Idle[d]] \in {d, NoCore}
      BY <1>b, ConstFacts, Zenon DEF Inv, OnCoreInv
    <2> QED
      BY <2>2, <2>3, <2>4, <2>5, <2>6, <2>7, Zenon DEF OnCoreInv
  <1>3. LinkedOnce'
    BY <1>a, SameQueues, Zenon DEF Inv
  <1>4. QueuedInv'
    BY <1>a, SameQueues, Zenon DEF Inv, QueuedInv
  <1>5. HandInv'
    <2>1. \A d \in Core : Busy(d)' <=> Busy(d)
      BY <1>a, Zenon DEF Busy
    <2> QED
      BY <1>a, <2>1, Zenon DEF Inv, HandInv, Queued
  <1>6. ReadyIsQueued'
    BY <1>a, ZenonT(30) DEF Inv, ReadyIsQueued, Queued
  <1>7. CleanupInv'
    <2>1. \A d \in Core : cleanup[d] # NoTask => cleanup[d] \in Task
      BY Zenon DEF Inv, TypeOK
    <2>2. \A d \in Core : cleanup[d] # NoTask => on_core'[cleanup[d]] \in {d, NoCore}
      BY <1>b, <2>1, Zenon DEF Inv, CleanupInv
    <2> QED
      BY <1>a, <2>2, Zenon DEF Inv, CleanupInv
  <1>8. PlaceInv'
    <2>1. \A d \in Core : /\ InTaskCode(d)' => InTaskCode(d) \/ d = c
                          /\ cpc'[d] = "switch" => cpc[d] = "switch"
      BY <1>a, Zenon DEF InTaskCode
    <2>2. \A d \in Core : cpc'[d] = "switch" => state'[cur'[d]] = "RUNNING"
      BY <1>a, <2>1, Zenon DEF Inv, PlaceInv
    <2>3. \A d \in Core : InTaskCode(d)' =>
             /\ state'[cur'[d]] = "BLOCKED" => tpc'[cur'[d]] \in {"block", "armed"}
             /\ state'[cur'[d]] = "STOPPED" => tpc'[cur'[d]] = "stop"
      <3>1. \A d \in Core : InTaskCode(d)' => InTaskCode(d) \/ state[cur[d]] = "RUNNING"
        BY <1>c, <2>1, Zenon DEF InTaskCode
      <3> QED
        BY <1>a, <3>1, Zenon DEF Inv, PlaceInv
    <2> QED
      BY <1>a, <2>2, <2>3, Zenon DEF Inv, PlaceInv
  <1>9. SleepInv'
    BY <1>a, Zenon DEF Inv, SleepInv
  <1> QED
    BY <1>1, <1>2, <1>3, <1>4, <1>5, <1>6, <1>7, <1>8, <1>9, Zenon DEF Inv

(***************************************************************************)
(* The theorems.                                                           *)
(***************************************************************************)
\* After sched_init and on entry to sched_secondary_init.
LEMMA InitInv == Init => Inv
  <1> SUFFICES ASSUME Init PROVE Inv
    OBVIOUS
  <1>a. \A c \in Core : (CHOOSE d \in Core : Boot[d] = Boot[c]) = c
    BY TaskAssumption, Zenon
  <1>b. /\ \A c \in Core : on_core[Boot[c]] = c
        /\ \A t \in Task \ BootTask : on_core[t] = NoCore
        /\ on_core \in [Task -> Core \cup {NoCore}]
    BY <1>a, ConstFacts DEF Init, BootTask
  <1>c. \A c \in Core : Idle[c] \notin BootTask /\ Idle[c] # Boot[0]
    BY ConstFacts, TaskAssumption, Zenon
  <1>d. \A t \in Task : ~Queued(t)
    BY DEF Init, Queued
  <1>1. TypeOK
    BY <1>b, ConstFacts, CoreAssumption DEF Init, TypeOK, States, TaskPlaces, CorePlaces
  <1>2. OnCoreInv
    <2>1. \A t \in Task, c \in Core : on_core[t] = c => t = Boot[c]
      BY <1>b, ConstFacts DEF BootTask
    <2>2. \A t \in Task : state[t] = "FREE" => t \notin BootTask
      BY Zenon DEF Init
    <2> QED
      BY <1>b, <1>c, <2>1, <2>2, ConstFacts, Zenon DEF Init, OnCoreInv
  <1>3. LinkedOnce
    BY DEF Init, LinkedOnce
  <1>4. QueuedInv
    BY <1>d, Zenon DEF QueuedInv
  <1>5. HandInv
    BY Zenon DEF Init, HandInv, Busy
  <1>6. ReadyIsQueued
    BY Zenon DEF Init, ReadyIsQueued
  <1>7. CleanupInv
    BY Zenon DEF Init, CleanupInv
  <1>8. PlaceInv
    BY <1>c, ConstFacts, TaskAssumption, Zenon DEF Init, PlaceInv, InTaskCode
  <1>9. SleepInv
    BY Zenon DEF Init, SleepInv
  <1> QED
    BY <1>1, <1>2, <1>3, <1>4, <1>5, <1>6, <1>7, <1>8, <1>9, Zenon DEF Inv

\* Every step of every core preserves the inductive invariant.
LEMMA NextInv == Inv /\ [Next]_vars => Inv'
  <1> SUFFICES ASSUME Inv, [Next]_vars PROVE Inv'
    OBVIOUS
  <1>1. CASE UNCHANGED vars
    <2>0. UNCHANGED <<state, on_core, tpc, fresh, rq, sleepq, expired, cur, stk,
                      prev, cleanup, cpc, hand, scan>>
      BY <1>1, Zenon DEF vars
    <2>1. TypeOK' /\ LinkedOnce'
      BY <2>0, SMTT(30) DEF Inv, TypeOK, LinkedOnce
    <2>2. OnCoreInv' /\ PlaceInv'
      BY <2>0 DEF Inv, OnCoreInv, PlaceInv, InTaskCode
    <2>3. QueuedInv' /\ ReadyIsQueued'
      BY <2>0, Zenon DEF Inv, QueuedInv, ReadyIsQueued, Queued
    <2>4. HandInv'
      BY <2>0 DEF Inv, HandInv, Busy, Queued
    <2>5. CleanupInv' /\ SleepInv'
      BY <2>0, Zenon DEF Inv, CleanupInv, SleepInv
    <2> QED
      BY <2>1, <2>2, <2>3, <2>4, <2>5, Zenon DEF Inv
  <1>2. CASE Next
    <2>1. PICK c \in Core :
            \/ SetBlocked(c) \/ CancelBlock(c) \/ ArmTimer(c) \/ CancelTimer(c)
            \/ SetStopped(c) \/ Exit(c)
            \/ \E t \in UserTask \cup KernelTask : CreateTask(c, t)
            \/ \E t \in Task : Wake(c, t, "BLOCKED") \/ Wake(c, t, "STOPPED")
            \/ Schedule(c)
            \/ KernelStep(c)
      BY <1>2, Zenon DEF Next
    <2>2. CASE \/ SetBlocked(c) \/ CancelBlock(c) \/ ArmTimer(c) \/ CancelTimer(c)
               \/ SetStopped(c) \/ Exit(c) \/ Schedule(c)
      BY <2>2, SetBlockedInv, CancelBlockInv, ArmTimerInv, CancelTimerInv,
         SetStoppedInv, ExitInv, ScheduleInv, Zenon
    <2>3. CASE \E t \in UserTask \cup KernelTask : CreateTask(c, t)
      BY <2>3, CreateTaskInv, Zenon
    <2>4. CASE \E t \in Task : Wake(c, t, "BLOCKED") \/ Wake(c, t, "STOPPED")
      BY <2>4, WakeInv, Zenon
    <2>5. CASE KernelStep(c)
      <3>1. CASE WakeUnlink(c) \/ Enqueue(c) \/ PutPrev(c) \/ PickNext(c) \/ PickIdle(c) \/ Switch(c)
        BY <3>1, WakeUnlinkInv, EnqueueInv, PutPrevInv, PickNextInv, PickIdleInv, SwitchInv, Zenon
      <3>2. CASE \E t \in Task : Drain(c, t)
        BY <3>2, DrainInv, Zenon
      <3>3. CASE \E i \in 1..Len(rq[Victim(c)]) : PickFrom(c, i)
        BY <3>3, PickFromInv, Zenon
      <3> QED
        BY <2>5, <3>1, <3>2, <3>3, Zenon DEF KernelStep
    <2> QED
      BY <2>1, <2>2, <2>3, <2>4, <2>5, Zenon
  <1> QED
    BY <1>1, <1>2, Zenon

\* The inductive invariant holds in every reachable state.
THEOREM Invariance == Spec => []Inv
  BY InitInv, NextInv, PTL DEF Spec

\* Type correctness of the scheduler's state.
THEOREM TypeCorrect == Spec => []TypeOK
  <1>1. Inv => TypeOK
    BY Zenon DEF Inv
  <1> QED
    BY <1>1, Invariance, PTL

\* On any number of cores, no two run the same task or share a kernel stack,
\* and none runs on the memory of a released task.
THEOREM StacksNeverShared == Spec => []StackExclusive
  <1>1. Inv => StackExclusive
    <2> SUFFICES ASSUME Inv PROVE StackExclusive
      OBVIOUS
    <2>1. \A c \in Core : /\ on_core[cur[c]] = c /\ on_core[stk[c]] = c
                          /\ cur[c] \in Task /\ stk[c] \in Task
      BY Zenon DEF Inv, TypeOK, OnCoreInv
    <2>2. \A t \in Task : state[t] = "FREE" => on_core[t] = NoCore
      BY Zenon DEF Inv, OnCoreInv
    <2>3. \A c, d \in Core : c # d => cur[c] # cur[d] /\ stk[c] # stk[d] /\ cur[c] # stk[d]
      BY <2>1, SMTT(60)
    <2>4. \A c \in Core : state[cur[c]] # "FREE" /\ state[stk[c]] # "FREE"
      BY <2>1, <2>2, ConstFacts, SMTT(60)
    <2> QED
      BY <2>3, <2>4, Zenon DEF StackExclusive
  <1> QED
    BY <1>1, Invariance, PTL

\* A task is linked at most once into the run queues, and only while READY.
THEOREM NeverQueuedTwice == Spec => []QueuedOnce
  <1>1. Inv => QueuedOnce
    <2> SUFFICES ASSUME Inv PROVE QueuedOnce
      OBVIOUS
    <2>1. \A c \in Core : \A i \in 1..Len(rq[c]) : rq[c][i] \in Task /\ Queued(rq[c][i])
      BY SMTT(30) DEF Inv, TypeOK, Queued
    <2>2. \A c \in Core : \A i \in 1..Len(rq[c]) : state[rq[c][i]] = "READY"
      BY <2>1, Zenon DEF Inv, QueuedInv
    <2> QED
      BY <2>2, Zenon DEF Inv, LinkedOnce, QueuedOnce
  <1> QED
    BY <1>1, Invariance, PTL

\* No wake-up is lost between the CAS to READY and the run queue.
THEOREM WakeUpsAreKept == Spec => []ReadyIsQueued
  <1>1. Inv => ReadyIsQueued
    BY Zenon DEF Inv
  <1> QED
    BY <1>1, Invariance, PTL

\* A timer never outlives the wait that armed it, nor the task.
THEOREM TimersBelongToWaits == Spec => []TimerBelongsToWait
  <1>1. Inv => TimerBelongsToWait
    BY Zenon DEF Inv, TypeOK, SleepInv, PlaceInv, TimerBelongsToWait
  <1> QED
    BY <1>1, Invariance, PTL

\* The scheduler's consistency panics are unreachable.
THEOREM PanicsUnreachable == Spec => []NoPanic
  <1>1. Inv => NoPanic
    <2> SUFFICES ASSUME Inv PROVE NoPanic
      OBVIOUS
    <2>1. \A c \in Core : cleanup[c] # NoTask =>
             cleanup[c] \in Task /\ state[cleanup[c]] = "DEAD" /\ ~Queued(cleanup[c])
      BY DEF Inv, TypeOK, CleanupInv, QueuedInv
    <2>2. \A c \in Core : cpc[c] = "run" => cleanup[c] # cur[c]
      BY ConstFacts DEF Inv, TypeOK, CleanupInv
    <2>3. \A c \in Core : cpc[c] = "drain" => cleanup[c] = NoTask
      BY Zenon DEF Inv, CleanupInv
    <2>4. \A c \in Core : InTask(c, "user") => state[cur[c]] \in {"RUNNING", "READY"}
      <3>1. SUFFICES ASSUME NEW c \in Core, InTask(c, "user")
                     PROVE  state[cur[c]] \in {"RUNNING", "READY"}
        OBVIOUS
      <3>2. cur[c] \in Task /\ tpc[cur[c]] = "user" /\ InTaskCode(c) /\ state[cur[c]] \in States
        BY <3>1, Zenon DEF Inv, TypeOK, InTask, InTaskCode
      <3>3. state[cur[c]] \notin {"DEAD", "BLOCKED", "STOPPED"}
        BY <3>2, Zenon DEF Inv, PlaceInv
      <3>4. state[cur[c]] # "FREE"
        BY <3>2, ConstFacts DEF Inv, OnCoreInv
      <3> QED
        BY <3>2, <3>3, <3>4, Zenon DEF States
    <2> QED
      BY <2>1, <2>2, <2>3, <2>4, Zenon DEF NoPanic
  <1> QED
    BY <1>1, Invariance, PTL

=============================================================================
