------------------------------ MODULE Process ------------------------------
(***************************************************************************)
(* The process table (kernel/sched/process.c), signals and job control     *)
(* (kernel/core/signals.c) and the system calls on processes               *)
(* (kernel/core/syscall.c): fork, exec, exit, waitpid, kill, sigaction,    *)
(* sigprocmask, setpgid, setsid.                                           *)
(*                                                                         *)
(* The actors are the tasks.  A section under process_table_lock is one    *)
(* step; so is each group of stores made without it between which another  *)
(* task can tell the difference.  Which core runs a task is the business   *)
(* of Sched: here a task is ACTIVE (RUNNING or READY), BLOCKED or STOPPED, *)
(* and an ACTIVE one may take its next step.  A task outlives its process: *)
(* once the zombie is published it goes on to notify with pid 0.           *)
(*                                                                         *)
(* A task's `pc' is its place in the kernel, `arg' what it keeps there:    *)
(*   user      in user mode, or in a part of a system call that touches    *)
(*             nothing modelled here                                       *)
(*   claimed   fork: <<child>>, slot claimed                               *)
(*   named     fork: <<child>>, parent and group stored                    *)
(*   copied    fork: <<child>>, everything else stored                     *)
(*   wait      waitpid: <<pid or AnyChild, WUNTRACED, WNOHANG>>            *)
(*   sleep     in an interruptible sleep, BLOCKED not yet final            *)
(*   asleep    in an interruptible sleep                                   *)
(*   kill      kill: <<pid, or minus a group, signal>>, permission checked *)
(*   stop      delivery of a stop signal: <<signal>>                       *)
(*   exit      process_exit called                                         *)
(*   dying     process_exit: DEAD, children not yet reparented             *)
(*   reparented  process_exit: <<orphaned_zombie>>                         *)
(*   signal    process_exit: <<pids to notify>>, SIGCHLD to the first next *)
(*   unblock   process_exit: <<pids to notify>>, wake-up of the first next *)
(*                                                                         *)
(* Handlers of user programs run in user mode; the frame and the mask they *)
(* run under are not modelled.                                             *)
(***************************************************************************)
EXTENDS Integers, Sequences, FiniteSets

CONSTANTS
    Size,      \* PROCESS_TABLE_SIZE
    Task,      \* task structs
    NoTask,    \* the null pointer
    Signals,   \* the signal numbers in use
    Masks,     \* the signal masks that programs use
    Handled,   \* the pairs of a signal and a disposition that programs use
    WaitFor,   \* the triples of a pid, WUNTRACED and WNOHANG that programs wait with
    MaxSends   \* bound on the signals that programs send

Pid == 1..(Size - 1)
init == 1
AnyChild == -1

SIGKILL == 9
SIGCHLD == 17
SIGCONT == 18
SIGTSTP == 20

AllSignals == {SIGKILL, SIGCHLD, SIGCONT, SIGTSTP}
NoHandlers == [s \in AllSignals |-> "DFL"]

ASSUME ProcessAssumption ==
    /\ Size \in Nat \ {0, 1}
    /\ NoTask \notin Task
    /\ Signals \subseteq AllSignals
    /\ Masks \subseteq SUBSET AllSignals
    /\ Handled \subseteq (AllSignals \ {SIGKILL}) \X {"DFL", "IGN", "HANDLER"}
    /\ WaitFor \subseteq (Pid \cup {AnyChild}) \X BOOLEAN \X BOOLEAN
    /\ MaxSends \in Nat

VARIABLES
    state,          \* process_table[pid]->state, or EMPTY for a null pointer
    parent_pid, pgid, sid, has_execed,
    main_task,      \* p->main_task
    pending,        \* p->pending_signals
    blocked,        \* p->blocked_signals
    handler,        \* p->signal_handlers
    stop_reported,  \* p->stop_reported
    tstate,         \* task->state, FREE for memory on the heap
    tpid,           \* task->pid
    pc, arg,        \* the task's place, and what it keeps there
    sends,          \* how many signals programs have sent
    resumed         \* no stop signal was sent to the process since SIGCONT was

idVars == <<parent_pid, pgid, sid, has_execed>>
sigVars == <<pending, blocked, handler, stop_reported, resumed>>
procVars == <<state, idVars, main_task, sigVars>>
taskVars == <<tstate, tpid, pc, arg>>
vars == <<state, parent_pid, pgid, sid, has_execed, main_task, pending, blocked, handler,
          stop_reported, tstate, tpid, pc, arg, sends, resumed>>

(***************************************************************************)
(* Helpers.                                                                *)
(***************************************************************************)
Running(p) == p \in Pid /\ state[p] = "RUNNING"

At(t, place) == tstate[t] = "ACTIVE" /\ pc[t] = place
GoTo(t, place, a) ==
    /\ pc' = [pc EXCEPT ![t] = place]
    /\ arg' = [arg EXCEPT ![t] = a]
Return(t) == GoTo(t, "user", <<>>)

signal_pending(p) == pending[p] \ blocked[p] # {}

\* sched_unblock: from BLOCKED only.
Unblocked(ts, t) == IF t # NoTask /\ ts[t] = "BLOCKED" THEN [ts EXCEPT ![t] = "ACTIVE"] ELSE ts

\* The session of a group: that of its first member, or 0.
IsFirstMember(p, g) ==
    /\ Running(p) /\ pgid[p] = g
    /\ \A q \in Pid : Running(q) /\ pgid[q] = g => p <= q
pgid_session(g) ==
    IF \E p \in Pid : Running(p) /\ pgid[p] = g
    THEN sid[CHOOSE p \in Pid : IsFirstMember(p, g)]
    ELSE 0

(***************************************************************************)
(* signal_send_target_locked, for the set of processes a call reaches.     *)
(***************************************************************************)
StopSignals == {SIGTSTP}

signal_discarded(p, sig) ==
    /\ sig # SIGKILL
    /\ handler[p][sig] = "IGN" \/ (handler[p][sig] = "DFL" /\ sig = SIGCHLD)

PostedBeside(p, sig) == pending[p] \cup (IF signal_discarded(p, sig) THEN {} ELSE {sig})

Posted(p, sig) ==
    (pending[p] \ (CASE sig \in StopSignals -> {SIGCONT}
                     [] sig = SIGCONT -> StopSignals
                     [] OTHER -> {}))
    \cup (IF signal_discarded(p, sig) THEN {} ELSE {sig})

WokenIfStopped(p, sig) ==
    LET s == tstate[main_task[p]] IN
    IF sig \in {SIGCONT, SIGKILL} /\ s = "STOPPED" THEN "ACTIVE" ELSE s

\* What sending sig to p makes of its task.
Woken(p, sig) ==
    LET s == tstate[main_task[p]] IN
    CASE sig \in {SIGCONT, SIGKILL} /\ s = "STOPPED" -> "ACTIVE"
      [] ~signal_discarded(p, sig) /\ s = "BLOCKED" -> "ACTIVE"
      [] OTHER -> s

Send(targets, sig) ==
    LET reached == {p \in targets : Running(p)}
        woken == {p \in reached : main_task[p] # NoTask}
        continued == {p \in woken : sig \in {SIGCONT, SIGKILL}
                                    /\ tstate[main_task[p]] = "STOPPED"}
    IN
    /\ pending' = [p \in Pid |-> IF p \in reached THEN Posted(p, sig) ELSE pending[p]]
    /\ stop_reported' = [p \in Pid |-> stop_reported[p] /\ p \notin continued]
    /\ tstate' = [t \in Task |->
                    IF \E p \in woken : main_task[p] = t
                    THEN Woken(CHOOSE p \in woken : main_task[p] = t, sig)
                    ELSE tstate[t]]
    /\ resumed' = [p \in Pid |->
                     CASE p \in reached /\ sig \in StopSignals -> FALSE
                       [] p \in reached /\ sig = SIGCONT -> TRUE
                       [] OTHER -> resumed[p]]

(***************************************************************************)
(* The other system calls on signals and groups.                           *)
(***************************************************************************)
\* The checks of kill_handler; the signal is sent in a section of its own.
MayKill(p, target) ==
    /\ Running(target)
    /\ \/ target = p \/ parent_pid[target] = p \/ parent_pid[p] = target
       \/ pgid[target] = pgid[p]

\* Group init can be named by kill(0) only: -1 is not a group.
MayKillGroup(p, g) ==
    \/ pgid[p] = g
    \/ g # init /\ p = g
    \/ /\ g # init
       /\ \E q \in Pid :
             Running(q) /\ pgid[q] = g /\ (parent_pid[q] = p \/ parent_pid[p] = q)

\* init is assumed to be neither killed nor stopped.
kill_handler(t, target, sig) ==
    LET p == tpid[t] IN
    /\ At(t, "user")
    /\ sends < MaxSends
    /\ IF target > 0 THEN MayKill(p, target) ELSE MayKillGroup(p, -target)
    /\ target \in {init, -init} => sig \notin {SIGKILL} \cup StopSignals
    /\ sends' = sends + 1
    /\ GoTo(t, "kill", <<target, sig>>)
    /\ UNCHANGED <<procVars, tstate, tpid>>

kill_send(t) ==
    /\ At(t, "kill")
    /\ LET target == arg[t][1] IN
       Send(IF target > 0 THEN {target} ELSE {p \in Pid : pgid[p] = -target}, arg[t][2])
    /\ Return(t)
    /\ UNCHANGED <<state, idVars, main_task, blocked, handler, tpid, sends>>

sigaction(t, sig, disposition) ==
    LET p == tpid[t] IN
    /\ At(t, "user")
    /\ handler' = [handler EXCEPT ![p][sig] = disposition]
    /\ pending' = [pending EXCEPT ![p] = IF disposition = "IGN" THEN @ \ {sig} ELSE @]
    /\ UNCHANGED <<state, idVars, main_task, blocked, stop_reported, resumed, taskVars, sends>>

sigprocmask(t, mask) ==
    /\ At(t, "user")
    /\ blocked' = [blocked EXCEPT ![tpid[t]] = mask \ {SIGKILL}]
    /\ UNCHANGED <<state, idVars, main_task, pending, handler, stop_reported, resumed,
                   taskVars, sends>>

setpgid(t, target, g) ==
    LET p == tpid[t] IN
    /\ At(t, "user")
    /\ Running(target)
    /\ target = p \/ (parent_pid[target] = p /\ ~has_execed[target])
    /\ sid[target] # target
    /\ IF pgid_session(g) = 0 THEN g = target ELSE pgid_session(g) = sid[target]
    /\ pgid' = [pgid EXCEPT ![target] = g]
    /\ UNCHANGED <<state, parent_pid, sid, has_execed, main_task, sigVars, taskVars, sends>>

setsid(t) ==
    LET p == tpid[t] IN
    /\ At(t, "user")
    /\ pgid[p] # p
    /\ sid' = [sid EXCEPT ![p] = p]
    /\ pgid' = [pgid EXCEPT ![p] = p]
    /\ UNCHANGED <<state, parent_pid, has_execed, main_task, sigVars, taskVars, sends>>

(***************************************************************************)
(* Delivery, on the way back to user mode: the lowest deliverable signal.  *)
(***************************************************************************)
signal_deliver_one(t) ==
    LET p == tpid[t]
        deliverable == pending[p] \ blocked[p]
        sig == CHOOSE x \in deliverable : \A y \in deliverable : x <= y
    IN
    /\ At(t, "user")
    /\ tpid[t] \in Pid
    /\ deliverable # {}
    /\ pending' = [pending EXCEPT ![p] = @ \ {sig}]
    /\ CASE handler[p][sig] = "DFL" /\ sig \in StopSignals -> GoTo(t, "stop", <<sig>>)
         [] handler[p][sig] = "DFL" /\ sig = SIGKILL -> GoTo(t, "exit", <<>>)
         [] OTHER -> Return(t)
    /\ UNCHANGED <<state, idVars, main_task, blocked, handler, stop_reported, resumed,
                   tstate, tpid, sends>>

\* A SIGCONT or SIGKILL overrides the stop; else the task stops and wakes the
\* parent, which may be in waitpid.
StopCancelled(t) ==
    /\ At(t, "stop")
    /\ pending[tpid[t]] \cap {SIGCONT, SIGKILL} # {}
    /\ Return(t)
    /\ UNCHANGED <<procVars, tstate, tpid, sends>>

StopUnannounced(t) ==
    LET p == tpid[t] IN
    /\ At(t, "stop")
    /\ pending[p] \cap {SIGCONT, SIGKILL} = {}
    /\ tstate' = [tstate EXCEPT ![t] = "STOPPED"]
    /\ stop_reported' = [stop_reported EXCEPT ![p] = FALSE]
    /\ Return(t)
    /\ UNCHANGED <<state, idVars, main_task, pending, blocked, handler, resumed, tpid, sends>>

Stop(t) ==
    LET p == tpid[t]
        parent == parent_pid[p]
        woken == IF Running(parent) THEN main_task[parent] ELSE NoTask
    IN
    /\ At(t, "stop")
    /\ pending[p] \cap {SIGCONT, SIGKILL} = {}
    /\ tstate' = Unblocked([tstate EXCEPT ![t] = "STOPPED"], woken)
    /\ stop_reported' = [stop_reported EXCEPT ![p] = FALSE]
    /\ Return(t)
    /\ UNCHANGED <<state, idVars, main_task, pending, blocked, handler, resumed, tpid, sends>>

(***************************************************************************)
(* Interruptible sleeps: sched_sleep_ms_interruptible, sigsuspend.         *)
(***************************************************************************)
SleepBlock(t) ==
    /\ At(t, "user")
    /\ tstate' = [tstate EXCEPT ![t] = "BLOCKED"]
    /\ GoTo(t, "sleep", <<>>)
    /\ UNCHANGED <<procVars, tpid, sends>>

SleepUnchecked(t) ==
    /\ pc[t] = "sleep"
    /\ GoTo(t, "asleep", <<>>)
    /\ UNCHANGED <<procVars, tstate, tpid, sends>>

SleepCheck(t) ==
    /\ pc[t] = "sleep"
    /\ IF signal_pending(tpid[t])
       THEN tstate' = [tstate EXCEPT ![t] = "ACTIVE"] /\ Return(t)
       ELSE UNCHANGED tstate /\ GoTo(t, "asleep", <<>>)
    /\ UNCHANGED <<procVars, tpid, sends>>

\* The timer, through sleep_drain.
SleepExpires(t) ==
    /\ tstate[t] = "BLOCKED" /\ pc[t] = "asleep"
    /\ tstate' = [tstate EXCEPT ![t] = "ACTIVE"]
    /\ UNCHANGED <<procVars, tpid, pc, arg, sends>>

SleepReturn(t) ==
    /\ At(t, "asleep")
    /\ Return(t)
    /\ UNCHANGED <<procVars, tstate, tpid, sends>>

(***************************************************************************)
(* process_fork.                                                           *)
(***************************************************************************)
\* A fresh PCB in slot p, or none.
SetSlot(p, s) ==
    /\ state' = [state EXCEPT ![p] = s]
    /\ parent_pid' = [parent_pid EXCEPT ![p] = 0]
    /\ pgid' = [pgid EXCEPT ![p] = 0]
    /\ sid' = [sid EXCEPT ![p] = 0]
    /\ has_execed' = [has_execed EXCEPT ![p] = FALSE]
    /\ main_task' = [main_task EXCEPT ![p] = NoTask]
    /\ pending' = [pending EXCEPT ![p] = {}]
    /\ blocked' = [blocked EXCEPT ![p] = {}]
    /\ handler' = [handler EXCEPT ![p] = NoHandlers]
    /\ stop_reported' = [stop_reported EXCEPT ![p] = FALSE]
    /\ resumed' = [resumed EXCEPT ![p] = TRUE]

process_claim_slot(t) ==
    /\ At(t, "user")
    /\ \E c \in Pid :
          /\ state[c] = "EMPTY"
          /\ \A d \in 1..(c - 1) : state[d] # "EMPTY"
          /\ SetSlot(c, "RUNNING")
          /\ GoTo(t, "claimed", <<c>>)
    /\ UNCHANGED <<tstate, tpid, sends>>

\* No memory for the table or the kernel stack, or for the task.
process_release_slot(t) ==
    /\ At(t, "claimed") \/ At(t, "copied")
    /\ SetSlot(arg[t][1], "EMPTY")
    /\ Return(t)
    /\ UNCHANGED <<tstate, tpid, sends>>

ForkNames(t) ==
    LET p == tpid[t]  c == arg[t][1] IN
    /\ At(t, "claimed")
    /\ parent_pid' = [parent_pid EXCEPT ![c] = p]
    /\ pgid' = [pgid EXCEPT ![c] = pgid[p]]
    /\ GoTo(t, "named", <<c>>)
    /\ UNCHANGED <<state, sid, has_execed, main_task, sigVars, tstate, tpid, sends>>

ForkCopies(t) ==
    LET p == tpid[t]  c == arg[t][1] IN
    /\ At(t, "named")
    /\ sid' = [sid EXCEPT ![c] = sid[p]]
    /\ has_execed' = [has_execed EXCEPT ![c] = FALSE]
    /\ handler' = [handler EXCEPT ![c] = handler[p]]
    /\ pending' = [pending EXCEPT ![c] = {}]
    /\ blocked' = [blocked EXCEPT ![c] = blocked[p]]
    /\ GoTo(t, "copied", <<c>>)
    /\ UNCHANGED <<state, parent_pid, pgid, main_task, stop_reported, resumed, tstate, tpid, sends>>

process_start_task(t, u) ==
    LET c == arg[t][1] IN
    /\ At(t, "copied")
    /\ tstate[u] = "FREE"
    /\ tstate' = [tstate EXCEPT ![u] = "ACTIVE"]
    /\ tpid' = [tpid EXCEPT ![u] = c]
    /\ main_task' = [main_task EXCEPT ![c] = u]
    /\ Return(t)
    /\ UNCHANGED <<state, idVars, sigVars, sends>>

\* process_exec, as far as signals and groups are concerned.
process_exec(t) ==
    LET p == tpid[t] IN
    /\ At(t, "user")
    /\ handler' = [handler EXCEPT ![p] =
                     [s \in AllSignals |-> IF @[s] = "IGN" THEN "IGN" ELSE "DFL"]]
    /\ has_execed' = [has_execed EXCEPT ![p] = TRUE]
    /\ UNCHANGED <<state, parent_pid, pgid, sid, main_task, pending, blocked, stop_reported,
                   resumed, taskVars, sends>>

(***************************************************************************)
(* process_waitpid.                                                        *)
(***************************************************************************)
Child(t, c) ==
    /\ state[c] # "EMPTY" /\ parent_pid[c] = tpid[t]
    /\ arg[t][1] \in {AnyChild, c}

StopUnreported(c) ==
    /\ ~stop_reported[c] /\ main_task[c] # NoTask
    /\ tstate[main_task[c]] = "STOPPED"

\* What the scan returns with.
Reports(t, c) ==
    Child(t, c) /\ (state[c] = "ZOMBIE" \/ (arg[t][2] /\ StopUnreported(c)))

FirstReport(t, c) == Reports(t, c) /\ \A d \in 1..(c - 1) : ~Reports(t, d)

WaitCall(t, pid_and_options) ==
    /\ At(t, "user")
    /\ GoTo(t, "wait", pid_and_options)
    /\ UNCHANGED <<procVars, tstate, tpid, sends>>

Reap(t, c) ==
    /\ At(t, "wait")
    /\ FirstReport(t, c) /\ state[c] = "ZOMBIE"
    /\ SetSlot(c, "EMPTY")
    /\ Return(t)
    /\ UNCHANGED <<tstate, tpid, sends>>

ReportStop(t, c) ==
    /\ At(t, "wait")
    /\ FirstReport(t, c) /\ state[c] # "ZOMBIE"
    /\ stop_reported' = [stop_reported EXCEPT ![c] = TRUE]
    /\ Return(t)
    /\ UNCHANGED <<state, idVars, main_task, pending, blocked, handler, resumed, tstate, tpid, sends>>

\* -ECHILD, 0 or -ERESTARTSYS.
WaitFails(t) ==
    /\ At(t, "wait")
    /\ \A c \in Pid : ~Reports(t, c)
    /\ (\A c \in Pid : ~Child(t, c)) \/ arg[t][3] \/ signal_pending(tpid[t])
    /\ Return(t)
    /\ UNCHANGED <<procVars, tstate, tpid, sends>>

WaitBlock(t) ==
    /\ At(t, "wait")
    /\ \A c \in Pid : ~Reports(t, c)
    /\ \E c \in Pid : Child(t, c)
    /\ ~arg[t][3] /\ ~signal_pending(tpid[t])
    /\ tstate' = [tstate EXCEPT ![t] = "BLOCKED"]
    /\ UNCHANGED <<procVars, tpid, pc, arg, sends>>

(***************************************************************************)
(* process_exit.                                                           *)
(***************************************************************************)
Exit(t) ==
    /\ (At(t, "user") /\ tpid[t] # init) \/ At(t, "exit")
    /\ state' = [state EXCEPT ![tpid[t]] = "DEAD"]
    /\ GoTo(t, "dying", <<>>)
    /\ UNCHANGED <<idVars, main_task, sigVars, tstate, tpid, sends>>

ReparentRunning(t) ==
    LET children == {c \in Pid \ {tpid[t]} : Running(c) /\ parent_pid[c] = tpid[t]} IN
    /\ At(t, "dying")
    /\ parent_pid' = [c \in Pid |-> IF c \in children THEN init ELSE parent_pid[c]]
    /\ GoTo(t, "reparented", <<FALSE>>)
    /\ UNCHANGED <<state, pgid, sid, has_execed, main_task, sigVars, tstate, tpid, sends>>

Reparent(t) ==
    LET children == {c \in Pid \ {tpid[t]} : state[c] # "EMPTY" /\ parent_pid[c] = tpid[t]} IN
    /\ At(t, "dying")
    /\ parent_pid' = [c \in Pid |-> IF c \in children THEN init ELSE parent_pid[c]]
    /\ GoTo(t, "reparented", <<\E c \in children : state[c] = "ZOMBIE">>)
    /\ UNCHANGED <<state, pgid, sid, has_execed, main_task, sigVars, tstate, tpid, sends>>

\* The rest of the task's code, which ends in sched_exit_current.
Notify(t, pids, place) ==
    IF pids = <<>>
    THEN tstate' = [tstate EXCEPT ![t] = "FREE"] /\ Return(t)
    ELSE UNCHANGED tstate /\ GoTo(t, place, pids)

ZombieOrphansUntold(t) ==
    LET p == tpid[t]
        parent == IF Running(parent_pid[p]) THEN <<parent_pid[p]>> ELSE <<>>
    IN
    /\ At(t, "reparented")
    /\ state' = [state EXCEPT ![p] = "ZOMBIE"]
    /\ main_task' = [main_task EXCEPT ![p] = NoTask]
    /\ tpid' = [tpid EXCEPT ![t] = 0]
    /\ Notify(t, parent, "signal")
    /\ UNCHANGED <<idVars, sigVars, sends>>

Zombie(t) ==
    LET p == tpid[t]
        parent == IF Running(parent_pid[p]) THEN <<parent_pid[p]>> ELSE <<>>
        orphans == IF arg[t][1] /\ p # init THEN <<init>> ELSE <<>>
    IN
    /\ At(t, "reparented")
    /\ state' = [state EXCEPT ![p] = "ZOMBIE"]
    /\ main_task' = [main_task EXCEPT ![p] = NoTask]
    /\ tpid' = [tpid EXCEPT ![t] = 0]
    /\ Notify(t, parent \o orphans, "signal")
    /\ UNCHANGED <<idVars, sigVars, sends>>

NotifySignal(t) ==
    /\ At(t, "signal")
    /\ Send({Head(arg[t])}, SIGCHLD)
    /\ GoTo(t, "unblock", arg[t])
    /\ UNCHANGED <<state, idVars, main_task, blocked, handler, tpid, sends>>

NotifySignalOnly(t) ==
    /\ At(t, "unblock")
    /\ tstate' = IF Len(arg[t]) = 1 THEN [tstate EXCEPT ![t] = "FREE"] ELSE tstate
    /\ IF Len(arg[t]) = 1 THEN Return(t) ELSE GoTo(t, "signal", Tail(arg[t]))
    /\ UNCHANGED <<procVars, tpid, sends>>

NotifyUnblock(t) ==
    LET p == Head(arg[t])
        ts == IF Running(p) THEN Unblocked(tstate, main_task[p]) ELSE tstate
    IN
    /\ At(t, "unblock")
    /\ tstate' = IF Len(arg[t]) = 1 THEN [ts EXCEPT ![t] = "FREE"] ELSE ts
    /\ IF Len(arg[t]) = 1 THEN Return(t) ELSE GoTo(t, "signal", Tail(arg[t]))
    /\ UNCHANGED <<procVars, tpid, sends>>

(***************************************************************************)
(* init has been created from its file.                                    *)
(***************************************************************************)
Init ==
    /\ state = [p \in Pid |-> IF p = init THEN "RUNNING" ELSE "EMPTY"]
    /\ parent_pid = [p \in Pid |-> 0]
    /\ pgid = [p \in Pid |-> IF p = init THEN init ELSE 0]
    /\ sid = [p \in Pid |-> IF p = init THEN init ELSE 0]
    /\ has_execed = [p \in Pid |-> FALSE]
    /\ \E t \in Task :
          /\ main_task = [p \in Pid |-> IF p = init THEN t ELSE NoTask]
          /\ tstate = [u \in Task |-> IF u = t THEN "ACTIVE" ELSE "FREE"]
          /\ tpid = [u \in Task |-> IF u = t THEN init ELSE 0]
    /\ pending = [p \in Pid |-> {}]
    /\ blocked = [p \in Pid |-> {}]
    /\ handler = [p \in Pid |-> NoHandlers]
    /\ stop_reported = [p \in Pid |-> FALSE]
    /\ resumed = [p \in Pid |-> TRUE]
    /\ pc = [t \in Task |-> "user"]
    /\ arg = [t \in Task |-> <<>>]
    /\ sends = 0

\* What a task does once it is in the kernel.
KernelStep(t) ==
    \/ kill_send(t)
    \/ StopCancelled(t) \/ Stop(t)
    \/ SleepCheck(t) \/ SleepReturn(t)
    \/ process_release_slot(t) \/ ForkNames(t) \/ ForkCopies(t)
    \/ \E u \in Task : process_start_task(t, u)
    \/ \E c \in Pid : Reap(t, c) \/ ReportStop(t, c)
    \/ WaitFails(t) \/ WaitBlock(t)
    \/ (pc[t] = "exit" /\ Exit(t))
    \/ Reparent(t) \/ Zombie(t) \/ NotifySignal(t) \/ NotifyUnblock(t)

Step(t) ==
    \/ \E target \in Pid \cup {-g : g \in Pid}, sig \in Signals : kill_handler(t, target, sig)
    \/ \E h \in Handled : sigaction(t, h[1], h[2])
    \/ \E mask \in Masks : sigprocmask(t, mask)
    \/ \E target \in Pid, g \in Pid : setpgid(t, target, g)
    \/ setsid(t)
    \/ signal_deliver_one(t)
    \/ SleepBlock(t) \/ SleepExpires(t)
    \/ process_claim_slot(t) \/ process_exec(t)
    \/ \E w \in WaitFor : WaitCall(t, w)
    \/ Exit(t)
    \/ KernelStep(t)

Next == \E t \in Task : Step(t)

Spec == Init /\ [][Next]_vars

(***************************************************************************)
(* Properties.                                                             *)
(***************************************************************************)
Places == {"user", "claimed", "named", "copied", "wait", "sleep", "asleep", "kill", "stop",
           "exit", "dying", "reparented", "signal", "unblock"}

\* Every variable has its type; SIGKILL is never among the blocked signals.
TypeOK ==
    /\ state \in [Pid -> {"EMPTY", "RUNNING", "DEAD", "ZOMBIE"}]
    /\ parent_pid \in [Pid -> 0..(Size - 1)]
    /\ pgid \in [Pid -> 0..(Size - 1)]
    /\ sid \in [Pid -> 0..(Size - 1)]
    /\ has_execed \in [Pid -> BOOLEAN]
    /\ main_task \in [Pid -> Task \cup {NoTask}]
    /\ pending \in [Pid -> SUBSET AllSignals]
    /\ blocked \in [Pid -> SUBSET (AllSignals \ {SIGKILL})]
    /\ handler \in [Pid -> [AllSignals -> {"DFL", "IGN", "HANDLER"}]]
    /\ stop_reported \in [Pid -> BOOLEAN]
    /\ resumed \in [Pid -> BOOLEAN]
    /\ tstate \in [Task -> {"FREE", "ACTIVE", "BLOCKED", "STOPPED"}]
    /\ tpid \in [Task -> 0..(Size - 1)]
    /\ pc \in [Task -> Places]
    /\ sends \in 0..MaxSends

\* The parent a process has is alive, or in the part of its exit that is about
\* to hand its children to init: a pid that is reused never inherits the
\* children of its former owner (the reparenting loop of process_exit).
ParentLives ==
    \A p \in Pid : state[p] # "EMPTY" /\ parent_pid[p] # 0 =>
        \/ Running(parent_pid[p])
        \/ \E t \in Task : tpid[t] = parent_pid[p] /\ pc[t] = "dying"

\* No waitpid sleeps over a child it would report: whoever published the zombie,
\* or handed it to init, is still on its way to wake the sleeper.
WaiterNotified ==
    \A t \in Task, c \in Pid :
        tstate[t] = "BLOCKED" /\ pc[t] = "wait" /\ Reports(t, c) =>
            \E u \in Task :
                \/ /\ pc[u] \in {"signal", "unblock"}
                   /\ \E i \in 1..Len(arg[u]) : arg[u][i] = tpid[t]
                \/ pc[u] = "reparented" /\ arg[u] = <<TRUE>> /\ tpid[t] = init

\* A signal that can be delivered leaves its process neither asleep in an
\* interruptible wait nor, when it is SIGKILL or SIGCONT, stopped: the sender's
\* post-then-look and the sleeper's block-then-look never miss each other.
SignalsGetThrough ==
    \A p \in Pid : Running(p) /\ main_task[p] # NoTask =>
        LET t == main_task[p] IN
        /\ tstate[t] = "BLOCKED" /\ pc[t] \in {"wait", "asleep"} => ~signal_pending(p)
        /\ tstate[t] = "STOPPED" => pending[p] \cap {SIGCONT, SIGKILL} = {}

\* A stop that was sent before a SIGCONT never takes effect after it.
ContinueCancelsStop ==
    \A p \in Pid : main_task[p] # NoTask /\ tstate[main_task[p]] = "STOPPED" => ~resumed[p]
=============================================================================
