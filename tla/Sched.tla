------------------------------- MODULE Sched -------------------------------
(***************************************************************************)
(* The SMP scheduler (kernel/sched/sched.c): task states, per-core run     *)
(* queues with work stealing, the sleep queue, the deferred release of a   *)
(* dead task and the context switch.                                       *)
(*                                                                         *)
(* The actors are the cores.  A core either executes the code of its       *)
(* current task (cpc = "run"; interrupt handlers included) or is at a      *)
(* step of an operation on another task or of sched_schedule, which runs   *)
(* with interrupts masked.  Every lock-protected section and every atomic  *)
(* access is one step; cores interleave between steps.                     *)
(*                                                                         *)
(* A task's `tpc' is its place in the operations that touch its own state: *)
(*   user    anywhere else in its code                                     *)
(*   block   went BLOCKED, has not given up the core yet                   *)
(*   armed   as block, and linked itself into the sleep queue              *)
(*   cancel  came back from an armed wait, its timer not yet cancelled     *)
(*   stop    went STOPPED, has not given up the core yet                   *)
(*   exit    inside sched_exit_current                                     *)
(*                                                                         *)
(* Time is abstracted: each drain of the sleep queue finds some of the     *)
(* linked tasks expired.                                                   *)
(***************************************************************************)
EXTENDS Integers, Sequences, FiniteSets

CONSTANTS
    N,           \* CPU_MAX_CORES
    UserTask,    \* heap task structs of processes (pid > 0)
    KernelTask,  \* heap task structs of kernel threads (pid 0)
    Idle,        \* sched_idle: the idle task of each core
    Boot,        \* sched_boot_tasks: the static boot task of each core
    NoTask       \* the null pointer

Core == 0..(N - 1)
IdleTask == {Idle[c] : c \in Core}
BootTask == {Boot[c] : c \in Core}
Task == UserTask \cup KernelTask \cup IdleTask \cup BootTask
NoCore == -1

ASSUME CoreAssumption == N \in Nat \ {0}
ASSUME TaskAssumption ==
    /\ NoTask \notin Task
    /\ \A c, d \in Core : Idle[c] = Idle[d] => c = d
    /\ \A c, d \in Core : Boot[c] = Boot[d] => c = d
    /\ IdleTask \cap BootTask = {}
    /\ UserTask \cap KernelTask = {}
    /\ (UserTask \cup KernelTask) \cap (IdleTask \cup BootTask) = {}

VARIABLES
    state,    \* task->state; FREE is memory on the heap, free to be reused
    on_core,  \* task->on_core: the core whose registers or stack hold the task
    tpc,      \* the task's place in its own blocking operation
    fresh,    \* the task has not run yet: its first run enters at its entry point
    rq,       \* sched_rq_head/tail of each core
    sleepq,   \* the tasks linked from sched_sleep_head
    expired,  \* the linked tasks that a core's drain in progress finds expired
    cur,      \* tpidr_el1 of each core
    stk,      \* the task whose kernel stack each core executes on
    prev,     \* sched_prev_task of each core
    cleanup,  \* sched_cleanup of each core
    cpc,      \* where each core is
    hand,     \* the task a core has made READY and not yet queued
    scan      \* the loop counter of the stealing loop of each core

taskVars == <<state, on_core, tpc, fresh>>
queueVars == <<rq, sleepq, expired>>
coreVars == <<cur, stk, prev, cleanup, cpc, hand, scan>>
vars == <<state, on_core, tpc, fresh, rq, sleepq, expired,
          cur, stk, prev, cleanup, cpc, hand, scan>>

States == {"READY", "RUNNING", "BLOCKED", "STOPPED", "DEAD", "FREE"}
TaskPlaces == {"user", "block", "armed", "cancel", "stop", "exit"}
CorePlaces == {"run", "unlink", "enqueue", "drain", "requeue", "pick", "switch"}

(***************************************************************************)
(* Helpers.                                                                *)
(***************************************************************************)
Queued(t) == \E c \in Core : \E i \in 1..Len(rq[c]) : rq[c][i] = t

\* process_exit clears the pid of a task that goes on to sched_exit_current.
PidZero(t) == t \notin UserTask \/ tpc[t] = "exit"

\* sleep_unlink_locked
Unlink(t) ==
    /\ sleepq' = sleepq \ {t}
    /\ expired' = [c \in Core |-> expired[c] \ {t}]

\* Faulty variant: a task that has not left its core is not linked.
rq_enqueue_off_core(c, t) ==
    /\ state' = [state EXCEPT ![t] = "READY"]
    /\ rq' = [rq EXCEPT ![c] = IF on_core[t] = NoCore THEN Append(@, t) ELSE @]

\* rq_enqueue: READY is stored unconditionally, the task goes to the tail.
rq_enqueue(c, t) ==
    /\ state' = [state EXCEPT ![t] = "READY"]
    /\ rq' = [rq EXCEPT ![c] = Append(@, t)]

\* Faulty variant: a task that another core still executes is eligible.
EligibleAnywhere(t, allow_pid0) == allow_pid0 \/ ~PidZero(t)

\* The test of rq_dequeue on an entry of a queue.
Eligible(t, allow_pid0) == (allow_pid0 \/ ~PidZero(t)) /\ on_core[t] = NoCore

\* The place of the first eligible entry of core v's queue.
IsFirstEligible(v, i, allow_pid0) ==
    /\ Eligible(rq[v][i], allow_pid0)
    /\ \A j \in 1..(i - 1) : ~Eligible(rq[v][j], allow_pid0)

WithoutIndex(s, i) ==
    [j \in 1..(Len(s) - 1) |-> IF j < i THEN s[j] ELSE s[j + 1]]

(***************************************************************************)
(* Operations of the running task on its own state.                        *)
(***************************************************************************)
\* A running task that is not idle and not inside one of these operations.
InTask(c, place) ==
    /\ cpc[c] = "run"
    /\ cur[c] \notin IdleTask
    /\ tpc[cur[c]] = place

\* The task returns from a wait, or leaves it, to `place'.
GoTo(c, place) == tpc' = [tpc EXCEPT ![cur[c]] = place]

\* Faulty variant: BLOCKED is stored, over a READY too.
SetBlockedStore(c) ==
    /\ InTask(c, "user")
    /\ GoTo(c, "block")
    /\ state' = [state EXCEPT ![cur[c]] = "BLOCKED"]
    /\ UNCHANGED <<on_core, fresh, queueVars, coreVars>>

\* sched_task_set_blocked: a CAS from RUNNING; a READY stays.
SetBlocked(c) ==
    /\ InTask(c, "user")
    /\ GoTo(c, "block")
    /\ state' = [state EXCEPT ![cur[c]] = IF @ = "RUNNING" THEN "BLOCKED" ELSE @]
    /\ UNCHANGED <<on_core, fresh, queueVars, coreVars>>

\* The condition held after all (wq_finish), or a signal was pending.
CancelBlock(c) ==
    /\ InTask(c, "block")
    /\ GoTo(c, "user")
    /\ state' = [state EXCEPT ![cur[c]] = IF @ = "BLOCKED" THEN "RUNNING" ELSE @]
    /\ UNCHANGED <<on_core, fresh, queueVars, coreVars>>

\* sleep_enqueue by a sleep or by a wait with a deadline.
ArmTimer(c) ==
    /\ InTask(c, "block")
    /\ GoTo(c, "armed")
    /\ sleepq' = sleepq \cup {cur[c]}
    /\ expired' = [d \in Core |-> expired[d] \ {cur[c]}]
    /\ UNCHANGED <<state, on_core, fresh, rq, coreVars>>

\* Faulty variant: a wait that a wake-up ended leaves the task linked.
CancelTimerKeeps(c) ==
    /\ InTask(c, "cancel")
    /\ GoTo(c, "user")
    /\ UNCHANGED <<state, on_core, fresh, queueVars, coreVars>>

\* The sleep_dequeue after an armed wait.
CancelTimer(c) ==
    /\ InTask(c, "cancel")
    /\ GoTo(c, "user")
    /\ Unlink(cur[c])
    /\ UNCHANGED <<state, on_core, fresh, rq, coreVars>>

\* sched_task_set_stopped, on the way back to user mode.
SetStopped(c) ==
    /\ InTask(c, "user")
    /\ cur[c] \in UserTask
    /\ GoTo(c, "stop")
    /\ state' = [state EXCEPT ![cur[c]] = IF @ = "RUNNING" THEN "STOPPED" ELSE @]
    /\ UNCHANGED <<on_core, fresh, queueVars, coreVars>>

\* Faulty variant: DEAD is stored, over a READY too.
ExitStore(c) ==
    /\ InTask(c, "user")
    /\ GoTo(c, "exit")
    /\ state' = [state EXCEPT ![cur[c]] = "DEAD"]
    /\ UNCHANGED <<on_core, fresh, queueVars, coreVars>>

\* sched_exit_current: the CAS to DEAD is retried until no READY is in the way.
Exit(c) ==
    /\ \/ InTask(c, "user")
       \/ InTask(c, "exit") /\ state[cur[c]] = "RUNNING"
    /\ GoTo(c, "exit")
    /\ state' = [state EXCEPT ![cur[c]] = IF @ = "RUNNING" THEN "DEAD" ELSE @]
    /\ UNCHANGED <<on_core, fresh, queueVars, coreVars>>

(***************************************************************************)
(* Operations on another task.                                             *)
(***************************************************************************)
\* sched_create_task and sched_create_user_task.
CreateTask(c, t) ==
    /\ InTask(c, "user")
    /\ state[t] = "FREE"
    /\ state' = [state EXCEPT ![t] = "READY"]
    /\ tpc' = [tpc EXCEPT ![t] = "user"]
    /\ fresh' = [fresh EXCEPT ![t] = TRUE]
    /\ hand' = [hand EXCEPT ![c] = t]
    /\ cpc' = [cpc EXCEPT ![c] = "enqueue"]
    /\ UNCHANGED <<on_core, queueVars, cur, stk, prev, cleanup, scan>>

\* The CAS of sched_unblock (from BLOCKED) and of sched_continue (from
\* STOPPED); the caller's lock keeps the task allocated.
Wake(c, t, from) ==
    /\ cpc[c] = "run"
    /\ state[t] = from
    /\ state' = [state EXCEPT ![t] = "READY"]
    /\ hand' = [hand EXCEPT ![c] = t]
    /\ cpc' = [cpc EXCEPT ![c] = "unlink"]
    /\ UNCHANGED <<on_core, tpc, fresh, queueVars, cur, stk, prev, cleanup, scan>>

\* The sleep_dequeue of the waker.
WakeUnlink(c) ==
    /\ cpc[c] = "unlink"
    /\ Unlink(hand[c])
    /\ cpc' = [cpc EXCEPT ![c] = "enqueue"]
    /\ UNCHANGED <<taskVars, rq, cur, stk, prev, cleanup, hand, scan>>

\* The rq_enqueue of a waker or creator, and of sleep_drain.
Enqueue(c) ==
    /\ cpc[c] \in {"enqueue", "requeue"}
    /\ rq_enqueue(c, hand[c])
    /\ hand' = [hand EXCEPT ![c] = NoTask]
    /\ cpc' = [cpc EXCEPT ![c] = IF @ = "enqueue" THEN "run" ELSE "drain"]
    /\ UNCHANGED <<on_core, tpc, fresh, sleepq, expired, cur, stk, prev, cleanup, scan>>

(***************************************************************************)
(* sched_schedule, called by the task or from the timer interrupt.         *)
(***************************************************************************)
\* Where a task that gives up the core continues.
Continuation(place) ==
    CASE place = "armed" -> "cancel"
      [] place \in {"block", "stop"} -> "user"
      [] OTHER -> place

\* The dead task of the core goes back to the heap, a boot task excepted.
cleanup_dead_task(c) ==
    /\ cleanup' = [cleanup EXCEPT ![c] = NoTask]
    /\ state' = [t \in Task |->
                   IF t = cleanup[c] /\ t \notin BootTask THEN "FREE" ELSE state[t]]
    /\ sleepq' = sleepq \ {cleanup[c]}

\* The predecessor's on_core is cleared if its successor started at an entry
\* point and bypassed that; the dead task is released; and the tasks whose
\* time has come, which the drain is going to find, are settled.
Schedule(c) ==
    /\ cpc[c] = "run"
    /\ GoTo(c, Continuation(tpc[cur[c]]))
    /\ on_core' = [t \in Task |-> IF t = prev[c] THEN NoCore ELSE on_core[t]]
    /\ prev' = [prev EXCEPT ![c] = NoTask]
    /\ cleanup_dead_task(c)
    /\ \E now \in SUBSET sleepq' :
          expired' = [d \in Core |-> IF d = c THEN now ELSE expired[d] \ {cleanup[c]}]
    /\ cpc' = [cpc EXCEPT ![c] = "drain"]
    /\ UNCHANGED <<fresh, rq, cur, stk, hand, scan>>

\* One turn of the loop of sleep_drain: the pop and the CAS from BLOCKED are
\* under the sleep lock; the winner is queued after it is released.
Drain(c, t) ==
    /\ cpc[c] = "drain"
    /\ t \in expired[c]
    /\ Unlink(t)
    /\ IF state[t] = "BLOCKED"
       THEN /\ state' = [state EXCEPT ![t] = "READY"]
            /\ hand' = [hand EXCEPT ![c] = t]
            /\ cpc' = [cpc EXCEPT ![c] = "requeue"]
       ELSE UNCHANGED <<state, hand, cpc>>
    /\ UNCHANGED <<on_core, tpc, fresh, rq, cur, stk, prev, cleanup, scan>>

\* The switch on prev->state: a RUNNING task goes back to this core's queue, a
\* DEAD one to the cleanup slot, the others are queued by whoever wakes them.
PutPrev(c) ==
    /\ cpc[c] = "drain"
    /\ expired[c] = {}
    /\ IF state[cur[c]] = "RUNNING" /\ cur[c] # Idle[c]
       THEN rq_enqueue(c, cur[c])
       ELSE UNCHANGED <<state, rq>>
    /\ cleanup' = [cleanup EXCEPT ![c] = IF state[cur[c]] = "DEAD" THEN cur[c] ELSE @]
    /\ cpc' = [cpc EXCEPT ![c] = "pick"]
    /\ scan' = [scan EXCEPT ![c] = 0]
    /\ UNCHANGED <<on_core, tpc, fresh, sleepq, expired, cur, stk, prev, hand>>

\* next becomes the current task; the core still executes on prev's stack.
Dispatch(c, next) ==
    /\ on_core' = [on_core EXCEPT ![next] = c]
    /\ state' = [state EXCEPT ![next] = "RUNNING"]
    /\ cur' = [cur EXCEPT ![c] = next]
    /\ cpc' = [cpc EXCEPT ![c] = "switch"]

\* One rq_dequeue: the own queue first, then every victim's, where tasks with
\* pid 0 are left alone; the idle task when all of them came up empty.
Victim(c) == (c + scan[c]) % N

PickFrom(c, i) ==
    LET v == Victim(c) IN
    /\ cpc[c] = "pick"
    /\ i \in 1..Len(rq[v])
    /\ IsFirstEligible(v, i, scan[c] = 0)
    /\ rq' = [rq EXCEPT ![v] = WithoutIndex(@, i)]
    /\ Dispatch(c, rq[v][i])
    /\ UNCHANGED <<tpc, fresh, sleepq, expired, stk, prev, cleanup, hand, scan>>

NoneEligible(c) ==
    \A i \in 1..Len(rq[Victim(c)]) : ~Eligible(rq[Victim(c)][i], scan[c] = 0)

PickNext(c) ==
    /\ cpc[c] = "pick"
    /\ scan[c] < N
    /\ NoneEligible(c)
    /\ scan' = [scan EXCEPT ![c] = @ + 1]
    /\ UNCHANGED <<taskVars, queueVars, cur, stk, prev, cleanup, cpc, hand>>

PickIdle(c) ==
    /\ cpc[c] = "pick"
    /\ scan[c] = N
    /\ NoneEligible(c)
    /\ Dispatch(c, Idle[c])
    /\ UNCHANGED <<tpc, fresh, queueVars, stk, prev, cleanup, hand, scan>>

\* Faulty variant: the task that was switched out is never released.
SwitchHolds(c) ==
    /\ cpc[c] = "switch"
    /\ stk' = [stk EXCEPT ![c] = cur[c]]
    /\ fresh' = [fresh EXCEPT ![cur[c]] = FALSE]
    /\ cpc' = [cpc EXCEPT ![c] = "run"]
    /\ UNCHANGED <<state, on_core, tpc, queueVars, cur, prev, cleanup, hand, scan>>

\* switch_context.  A task that was switched out before returns into
\* sched_schedule and releases its predecessor, as idle_entry does; a fresh
\* task starts elsewhere and leaves that to the next sched_schedule.
Switch(c) ==
    LET old == stk[c]
        bypass == fresh[cur[c]] /\ cur[c] \notin IdleTask
    IN
    /\ cpc[c] = "switch"
    /\ stk' = [stk EXCEPT ![c] = cur[c]]
    /\ IF old = cur[c]
       THEN UNCHANGED <<on_core, prev, fresh>>
       ELSE /\ fresh' = [fresh EXCEPT ![cur[c]] = FALSE]
            /\ prev' = [prev EXCEPT ![c] = IF bypass THEN old ELSE NoTask]
            /\ on_core' = [on_core EXCEPT ![old] = IF bypass THEN @ ELSE NoCore]
    /\ cpc' = [cpc EXCEPT ![c] = "run"]
    /\ UNCHANGED <<state, tpc, queueVars, cur, cleanup, hand, scan>>

(***************************************************************************)
(* sched_init has run on core 0; the other cores are in                    *)
(* sched_secondary_init, about to leave their boot task for good.          *)
(***************************************************************************)
Init ==
    /\ state = [t \in Task |->
                  CASE t = Boot[0] -> "RUNNING"
                    [] t \in BootTask \ {Boot[0]} -> "DEAD"
                    [] t \in IdleTask -> "READY"
                    [] OTHER -> "FREE"]
    /\ on_core = [t \in Task |->
                    IF t \in BootTask THEN CHOOSE c \in Core : Boot[c] = t ELSE NoCore]
    /\ tpc = [t \in Task |-> IF t \in BootTask \ {Boot[0]} THEN "exit" ELSE "user"]
    /\ fresh = [t \in Task |-> t \notin BootTask]
    /\ rq = [c \in Core |-> <<>>]
    /\ sleepq = {}
    /\ expired = [c \in Core |-> {}]
    /\ cur = [c \in Core |-> Boot[c]]
    /\ stk = [c \in Core |-> Boot[c]]
    /\ prev = [c \in Core |-> NoTask]
    /\ cleanup = [c \in Core |-> NoTask]
    /\ cpc = [c \in Core |-> "run"]
    /\ hand = [c \in Core |-> NoTask]
    /\ scan = [c \in Core |-> 0]

\* The steps of a core that is already inside an operation.
KernelStep(c) ==
    \/ WakeUnlink(c)
    \/ Enqueue(c)
    \/ \E t \in Task : Drain(c, t)
    \/ PutPrev(c)
    \/ \E i \in 1..Len(rq[Victim(c)]) : PickFrom(c, i)
    \/ PickNext(c)
    \/ PickIdle(c)
    \/ Switch(c)

Next ==
    \E c \in Core :
        \/ SetBlocked(c)
        \/ CancelBlock(c)
        \/ ArmTimer(c)
        \/ CancelTimer(c)
        \/ SetStopped(c)
        \/ Exit(c)
        \/ \E t \in UserTask \cup KernelTask : CreateTask(c, t)
        \/ \E t \in Task : Wake(c, t, "BLOCKED") \/ Wake(c, t, "STOPPED")
        \/ Schedule(c)
        \/ KernelStep(c)

Spec == Init /\ [][Next]_vars

\* A core finishes what it does with interrupts masked, and the timer keeps
\* interrupting whatever it runs, however often that masks interrupts.
Fairness ==
    \A c \in Core : WF_vars(KernelStep(c)) /\ SF_vars(Schedule(c))

FairSpec == Spec /\ Fairness

(***************************************************************************)
(* Properties.                                                             *)
(***************************************************************************)
\* Every task, queue and core variable of the scheduler has its type; the
\* stealing loop never counts past the number of cores.
TypeOK ==
    /\ state \in [Task -> States]
    /\ on_core \in [Task -> Core \cup {NoCore}]
    /\ tpc \in [Task -> TaskPlaces]
    /\ fresh \in [Task -> BOOLEAN]
    /\ rq \in [Core -> Seq(Task)]
    /\ sleepq \in SUBSET Task
    /\ expired \in [Core -> SUBSET Task]
    /\ cur \in [Core -> Task]
    /\ stk \in [Core -> Task]
    /\ prev \in [Core -> Task \cup {NoTask}]
    /\ cleanup \in [Core -> Task \cup {NoTask}]
    /\ cpc \in [Core -> CorePlaces]
    /\ hand \in [Core -> Task \cup {NoTask}]
    /\ scan \in [Core -> 0..N]

\* No two cores run the same task or execute on the same kernel stack, and
\* neither the task a core runs nor the one whose stack it is on has been
\* released (the on_core test of rq_dequeue, the deferred release of
\* cleanup_dead_task, the hand-over through sched_prev_task).
StackExclusive ==
    /\ \A c, d \in Core :
          c # d => cur[c] # cur[d] /\ stk[c] # stk[d] /\ cur[c] # stk[d]
    /\ \A c \in Core : state[cur[c]] # "FREE" /\ state[stk[c]] # "FREE"

\* A task is linked at most once into at most one run queue, and only while it
\* is READY: rq_next is a single link and rq_enqueue stores READY blindly.
QueuedOnce ==
    /\ \A c, d \in Core : \A i \in 1..Len(rq[c]), j \in 1..Len(rq[d]) :
          rq[c][i] = rq[d][j] => c = d /\ i = j
    /\ \A c \in Core : \A i \in 1..Len(rq[c]) : state[rq[c][i]] = "READY"

\* A wake-up is never lost: every READY task other than an idle task is in a
\* run queue or in the hands of the core that is about to queue it.
ReadyIsQueued ==
    \A t \in Task \ IdleTask :
        state[t] = "READY" => Queued(t) \/ \E c \in Core : hand[c] = t

\* A task is in the sleep queue only within the wait that armed the timer, so
\* sleep_drain never wakes it out of a later one and never walks a released or
\* dying task, with or without the last line of defence in cleanup_dead_task.
TimerBelongsToWait ==
    \A t \in sleepq : tpc[t] \in {"armed", "cancel"} /\ state[t] \notin {"DEAD", "FREE"}

\* The conditions of the scheduler's panics never hold where they are tested:
\* releasing the active task, two dead tasks on one core, releasing a task
\* still in a run queue, exiting in a state other than RUNNING or READY.
NoPanic ==
    /\ \A c \in Core : cpc[c] = "run" => cleanup[c] # cur[c]
    /\ \A c \in Core : cpc[c] = "drain" => cleanup[c] = NoTask
    /\ \A c \in Core : cleanup[c] # NoTask => ~Queued(cleanup[c])
    /\ \A c \in Core : InTask(c, "user") => state[cur[c]] \in {"RUNNING", "READY"}

\* Every task made READY runs again: round robin with stealing starves nobody
\* as long as the timer keeps calling sched_schedule on every core.
ReadyRuns ==
    \A t \in UserTask \cup KernelTask : (state[t] = "READY") ~> (state[t] = "RUNNING")

=============================================================================
