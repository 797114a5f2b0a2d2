---------------------------- MODULE ProcessInv ----------------------------
(***************************************************************************)
(* The inductive invariant of the process table, for any number of         *)
(* processes, tasks and signals sent, and what follows from it alone.      *)
(*                                                                         *)
(* What everything rests on is that process and task name each other from  *)
(* the moment process_start_task links them until the zombie is published, *)
(* so that a process has one task and a pid no task that outlived it.      *)
(***************************************************************************)
EXTENDS Process, TLAPS

ForkPlaces == {"claimed", "named", "copied"}
ExitPlaces == {"dying", "reparented"}
NotifyPlaces == {"signal", "unblock"}

\* Process and task name each other; a task without a process is on the heap or
\* notifies on behalf of the process it had.
TaskInv ==
    /\ \A p \in Pid : main_task[p] # NoTask => tpid[main_task[p]] = p
    /\ \A t \in Task : tpid[t] # 0 => main_task[tpid[t]] = t
    /\ \A t \in Task : tpid[t] = 0 <=> tstate[t] = "FREE" \/ pc[t] \in NotifyPlaces
    /\ \A t \in Task : tstate[t] \in {"FREE", "STOPPED"} => pc[t] = "user"
    /\ \A t \in Task : tstate[t] = "BLOCKED" => pc[t] \in {"wait", "sleep", "asleep"}

\* A process with a task is DEAD in its exit and RUNNING before.
StateInv ==
    \A p \in Pid : main_task[p] # NoTask =>
        state[p] = IF pc[main_task[p]] \in ExitPlaces THEN "DEAD" ELSE "RUNNING"

\* A slot that fork has claimed is its own, and has no task yet.
ForkInv ==
    \A t \in Task : pc[t] \in ForkPlaces =>
        /\ arg[t][1] \in Pid /\ state[arg[t][1]] = "RUNNING" /\ main_task[arg[t][1]] = NoTask
        /\ \A u \in Task : pc[u] \in ForkPlaces /\ arg[u][1] = arg[t][1] => u = t

\* What a task keeps between the steps of kill, waitpid and exit.
ArgOK(t) ==
    /\ pc[t] = "kill" =>
          /\ arg[t][1] \in Int /\ arg[t][2] \in AllSignals
          /\ arg[t][1] \in {init, -init} => arg[t][2] # SIGKILL
    /\ pc[t] = "wait" => arg[t] \in WaitFor
    /\ pc[t] = "reparented" => arg[t] \in {<<TRUE>>, <<FALSE>>}
    /\ pc[t] \in NotifyPlaces => arg[t] \in Seq(Pid) /\ arg[t] # <<>>
ArgInv == arg = [t \in Task |-> arg[t]] /\ \A t \in Task : ArgOK(t)

\* init is there, has no parent, stays in its group and is not killed.
InitInv ==
    /\ main_task[init] # NoTask /\ parent_pid[init] = 0
    /\ pgid[init] = init /\ sid[init] = init
    /\ SIGKILL \notin pending[init]
    /\ \A t \in Task : tpid[t] = init => pc[t] \notin ExitPlaces \cup {"exit"}

\* A parent has a task, which has not handed its children over yet.
ParentInv ==
    \A p \in Pid : state[p] # "EMPTY" /\ parent_pid[p] # 0 =>
        /\ main_task[parent_pid[p]] # NoTask /\ parent_pid[p] # p
        /\ pc[main_task[parent_pid[p]]] # "reparented"

Inv == TypeOK /\ TaskInv /\ StateInv /\ ForkInv /\ ArgInv /\ InitInv /\ ParentInv

\* init waits for exits only, not for stops: waitpid(-1, &status, 0).
InitWaitsForExits == \A t \in Task : tpid[t] = init /\ pc[t] = "wait" => ~arg[t][2]

(***************************************************************************)
(* Constants and types.                                                    *)
(***************************************************************************)
LEMMA PidFacts ==
    /\ init \in Pid /\ 0 \notin Pid /\ Pid \subseteq 0..(Size - 1) /\ Pid \subseteq Int
    /\ \A x \in 0..(Size - 1) : x # 0 => x \in Pid
    /\ NoTask \notin Task
  BY ProcessAssumption DEF Pid, init

LEMMA SignalFacts ==
    /\ SIGKILL \in AllSignals /\ SIGCHLD \in AllSignals /\ SIGCONT \in AllSignals /\ SIGTSTP \in AllSignals
    /\ SIGKILL # SIGCHLD /\ SIGKILL # SIGCONT /\ SIGKILL # SIGTSTP
    /\ SIGCHLD # SIGCONT /\ SIGCHLD # SIGTSTP /\ SIGCONT # SIGTSTP
    /\ StopSignals = {SIGTSTP}
  BY DEF AllSignals, SIGKILL, SIGCHLD, SIGCONT, SIGTSTP, StopSignals

\* The task that takes a step in user mode or in a system call has a process.
LEMMA HasProcess ==
    ASSUME Inv, NEW t \in Task, tstate[t] # "FREE", pc[t] \notin NotifyPlaces
    PROVE  tpid[t] \in Pid /\ main_task[tpid[t]] = t
  <1>1. tpid[t] \in 0..(Size - 1) /\ tpid[t] # 0
    BY Zenon DEF Inv, TypeOK, TaskInv
  <1>2. tpid[t] \in Pid
    BY <1>1, PidFacts, Zenon
  <1> QED
    BY <1>1, <1>2, Zenon DEF Inv, TaskInv

LEMMA PidOf ==
    ASSUME Inv, NEW t \in Task, tpid[t] # 0
    PROVE  tpid[t] \in Pid /\ main_task[tpid[t]] = t /\ t # NoTask
  <1>1. tpid[t] \in Pid
    BY PidFacts, Zenon DEF Inv, TypeOK
  <1> QED
    BY <1>1, PidFacts, Zenon DEF Inv, TaskInv

LEMMA TaskOf ==
    ASSUME Inv, NEW p \in Pid, main_task[p] # NoTask
    PROVE  main_task[p] \in Task /\ tpid[main_task[p]] = p /\ p # 0
  <1>1. main_task[p] \in Task
    BY Zenon DEF Inv, TypeOK
  <1> QED
    BY <1>1, PidFacts, Zenon DEF Inv, TaskInv

\* What GoTo stores.
LEMMA GoToFacts ==
    ASSUME Inv, NEW t \in Task, NEW place, NEW a, GoTo(t, place, a)
    PROVE  /\ pc'[t] = place /\ arg'[t] = a
           /\ \A u \in Task \ {t} : pc'[u] = pc[u] /\ arg'[u] = arg[u]
           /\ arg' = [u \in Task |-> arg'[u]]
           /\ place \in Places => pc' \in [Task -> Places]
  <1>1. pc \in [Task -> Places] /\ arg = [u \in Task |-> arg[u]]
    BY Zenon DEF Inv, TypeOK, ArgInv
  <1>2. pc' = [pc EXCEPT ![t] = place] /\ arg' = [arg EXCEPT ![t] = a]
    BY Zenon DEF GoTo
  <1> QED
    BY <1>1, <1>2

(***************************************************************************)
(* A step that leaves the table's links alone, in which t goes from one    *)
(* place to another of the same kind, and other tasks are at most woken.   *)
(***************************************************************************)
AtMostWoken(u) ==
    tstate'[u] = tstate[u] \/ (tstate[u] \in {"BLOCKED", "STOPPED"} /\ tstate'[u] = "ACTIVE")
Calm(t) == \A u \in Task \ {t} : pc'[u] = pc[u] /\ arg'[u] = arg[u] /\ AtMostWoken(u)

NearKind(t) ==
    /\ pc'[t] \in ForkPlaces => pc[t] \in ForkPlaces /\ arg'[t][1] = arg[t][1]
    /\ pc'[t] \in ExitPlaces <=> pc[t] \in ExitPlaces
    /\ pc'[t] = "exit" => tpid[t] # init
SameKind(t) == NearKind(t) /\ (pc'[t] = "reparented" => pc[t] = "reparented")

\* The new state and place of t agree with each other and with its pid.
Agrees(t) ==
    /\ tpid[t] = 0 <=> tstate'[t] = "FREE" \/ pc'[t] \in NotifyPlaces
    /\ tstate'[t] \in {"FREE", "STOPPED"} => pc'[t] = "user"
    /\ tstate'[t] = "BLOCKED" => pc'[t] \in {"wait", "sleep", "asleep"}

LEMMA LinkStep ==
    ASSUME Inv, TypeOK', NEW t \in Task,
           UNCHANGED <<state, main_task, tpid>>, ParentInv', parent_pid'[init] = 0,
           pgid'[init] = pgid[init], sid'[init] = sid[init], SIGKILL \notin pending'[init],
           arg' = [u \in Task |-> arg'[u]], Calm(t), NearKind(t), Agrees(t), ArgOK(t)'
    PROVE  Inv'
  <1>1. TaskInv'
    <2>0. TaskInv
      BY Zenon DEF Inv
    <2>1. \A p \in Pid : main_task'[p] # NoTask => tpid'[main_task'[p]] = p
      BY <2>0, Zenon DEF TaskInv
    <2>2. \A u \in Task : tpid'[u] # 0 => main_task'[tpid'[u]] = u
      BY <2>0, Zenon DEF TaskInv
    <2>3. \A u \in Task : tpid[u] = 0 <=> tstate[u] = "FREE" \/ pc[u] \in NotifyPlaces
      BY <2>0, Zenon DEF TaskInv
    <2>4. \A u \in Task : tpid'[u] = 0 <=> tstate'[u] = "FREE" \/ pc'[u] \in NotifyPlaces
      <3>1. ASSUME NEW u \in Task \ {t}
            PROVE  (tstate'[u] = "FREE" <=> tstate[u] = "FREE") /\ pc'[u] = pc[u]
        BY Zenon DEF Calm, AtMostWoken
      <3>2. tpid[t] = 0 <=> tstate'[t] = "FREE" \/ pc'[t] \in NotifyPlaces
        BY Zenon DEF Agrees
      <3> QED
        BY <2>3, <3>1, <3>2, Zenon
    <2>5. \A u \in Task : tstate'[u] \in {"FREE", "STOPPED"} => pc'[u] = "user"
      <3>1. ASSUME NEW u \in Task \ {t}, tstate'[u] \in {"FREE", "STOPPED"} PROVE pc'[u] = "user"
        <4>1. tstate'[u] = tstate[u] /\ pc'[u] = pc[u]
          BY <3>1, Zenon DEF Calm, AtMostWoken
        <4> QED
          BY <2>0, <3>1, <4>1, Zenon DEF TaskInv
      <3> QED
        BY <3>1, Zenon DEF Agrees
    <2>6. \A u \in Task : tstate'[u] = "BLOCKED" => pc'[u] \in {"wait", "sleep", "asleep"}
      BY <2>0, Zenon DEF TaskInv, Calm, AtMostWoken, Agrees
    <2> QED
      BY <2>1, <2>2, <2>4, <2>5, <2>6, Zenon DEF TaskInv
  <1>2. StateInv'
    <2>1. \A u \in Task : pc'[u] \in ExitPlaces <=> pc[u] \in ExitPlaces
      BY Zenon DEF Calm, AtMostWoken, NearKind
    <2>2. main_task \in [Pid -> Task \cup {NoTask}]
      BY Zenon DEF Inv, TypeOK
    <2>3. ASSUME NEW p \in Pid, main_task[p] # NoTask
          PROVE  state[p] = IF pc'[main_task[p]] \in ExitPlaces THEN "DEAD" ELSE "RUNNING"
      <3>1. state[p] = IF pc[main_task[p]] \in ExitPlaces THEN "DEAD" ELSE "RUNNING"
        BY <2>3, Zenon DEF Inv, StateInv
      <3>2. pc'[main_task[p]] \in ExitPlaces <=> pc[main_task[p]] \in ExitPlaces
        BY <2>1, <2>2, <2>3, Zenon
      <3> QED
        BY <3>1, <3>2, Zenon
    <2> QED
      BY <2>3, Zenon DEF StateInv
  <1>3. ForkInv'
    <2>1. \A u \in Task : pc'[u] \in ForkPlaces => pc[u] \in ForkPlaces /\ arg'[u][1] = arg[u][1]
      BY Zenon DEF Calm, AtMostWoken, NearKind
    <2>2. ASSUME NEW u \in Task, pc'[u] \in ForkPlaces
          PROVE  /\ arg'[u][1] \in Pid /\ state[arg'[u][1]] = "RUNNING" /\ main_task[arg'[u][1]] = NoTask
                 /\ \A v \in Task : pc'[v] \in ForkPlaces /\ arg'[v][1] = arg'[u][1] => v = u
      <3>1. /\ arg[u][1] \in Pid /\ state[arg[u][1]] = "RUNNING" /\ main_task[arg[u][1]] = NoTask
            /\ \A v \in Task : pc[v] \in ForkPlaces /\ arg[v][1] = arg[u][1] => v = u
        BY <2>1, <2>2, Zenon DEF Inv, ForkInv
      <3> QED
        BY <2>1, <2>2, <3>1, Zenon
    <2> QED
      BY <2>2, Zenon DEF ForkInv
  <1>4. ArgInv'
    <2>1. ASSUME NEW u \in Task \ {t} PROVE ArgOK(u)'
      <3>1. pc'[u] = pc[u] /\ arg'[u] = arg[u] /\ ArgOK(u)
        BY Zenon DEF Calm, AtMostWoken, Inv, ArgInv
      <3> QED
        BY <3>1, Zenon DEF ArgOK
    <2> QED
      BY <2>1, Zenon DEF ArgInv
  <1>5. InitInv'
    <2>1. \A u \in Task : tpid[u] = init => pc'[u] \notin ExitPlaces \cup {"exit"}
      BY Zenon DEF Inv, InitInv, Calm, NearKind
    <2> QED
      BY <2>1, Zenon DEF Inv, InitInv
  <1> QED
    BY <1>1, <1>2, <1>3, <1>4, <1>5, Zenon DEF Inv

LEMMA QuietStep ==
    ASSUME Inv, TypeOK', NEW t \in Task, tstate[t] # "FREE", tstate'[t] # "FREE",
           UNCHANGED <<state, parent_pid, main_task, tpid>>,
           pgid'[init] = pgid[init], sid'[init] = sid[init], SIGKILL \notin pending'[init],
           arg' = [u \in Task |-> arg'[u]], Calm(t), SameKind(t), ArgOK(t)',
           pc'[t] \in NotifyPlaces <=> pc[t] \in NotifyPlaces,
           tstate'[t] = "STOPPED" => pc'[t] = "user",
           tstate'[t] = "BLOCKED" => pc'[t] \in {"wait", "sleep", "asleep"}
    PROVE  Inv'
  <1>1. ParentInv'
    <2>1. \A u \in Task : pc'[u] = "reparented" => pc[u] = "reparented"
      BY Zenon DEF Calm, AtMostWoken, SameKind, NearKind
    <2>2. \A p \in Pid : parent_pid[p] # 0 => main_task[parent_pid[p]] \in Task \cup {NoTask}
      BY PidFacts, Zenon DEF Inv, TypeOK
    <2> QED
      BY <2>1, <2>2, Zenon DEF Inv, ParentInv
  <1>2. Agrees(t)
    <2>1. tpid[t] = 0 <=> pc[t] \in NotifyPlaces
      BY Zenon DEF Inv, TaskInv
    <2> QED
      BY <2>1, Zenon DEF Agrees
  <1>3. parent_pid'[init] = 0
    BY Zenon DEF Inv, InitInv
  <1> QED
    BY <1>1, <1>2, <1>3, LinkStep, Zenon DEF SameKind

(***************************************************************************)
(* The steps of one task in user mode, in a sleep and in waitpid.          *)
(***************************************************************************)
OwnPlaces == {"user", "kill", "wait", "stop", "exit", "sleep", "asleep"}
Own(t, place, a, s) ==
    /\ tstate[t] # "FREE" /\ pc[t] \in OwnPlaces /\ place \in OwnPlaces \ {"exit"}
    /\ GoTo(t, place, a)
    /\ tstate' = [tstate EXCEPT ![t] = s] /\ s \in {"ACTIVE", "BLOCKED"}
    /\ s = "BLOCKED" => place \in {"wait", "sleep", "asleep"}
    /\ UNCHANGED <<procVars, tpid>> /\ sends' \in 0..MaxSends

LEMMA OwnStep ==
    ASSUME Inv, NEW t \in Task, NEW place, NEW a, NEW s, Own(t, place, a, s),
           place = "wait" => a \in WaitFor,
           place = "kill" => /\ a[1] \in Int /\ a[2] \in AllSignals
                             /\ a[1] \in {init, -init} => a[2] # SIGKILL
    PROVE  Inv'
  <1>0. /\ OwnPlaces \cap ForkPlaces = {} /\ OwnPlaces \cap ExitPlaces = {} /\ OwnPlaces \cap NotifyPlaces = {}
        /\ OwnPlaces \subseteq Places
    BY Zenon DEF OwnPlaces, Places, ForkPlaces, ExitPlaces, NotifyPlaces
  <1>1. /\ pc'[t] = place /\ arg'[t] = a
        /\ \A u \in Task \ {t} : pc'[u] = pc[u] /\ arg'[u] = arg[u]
        /\ arg' = [u \in Task |-> arg'[u]]
        /\ pc' \in [Task -> Places]
    BY <1>0, GoToFacts, ZenonT(30) DEF Own
  <1>2. /\ tstate' \in [Task -> {"FREE", "ACTIVE", "BLOCKED", "STOPPED"}]
        /\ tstate'[t] = s /\ \A u \in Task \ {t} : tstate'[u] = tstate[u]
    BY Zenon DEF Own, Inv, TypeOK
  <1>3. UNCHANGED <<state, parent_pid, pgid, sid, has_execed, main_task, pending, blocked, handler,
                    stop_reported, resumed, tpid>>
    BY Zenon DEF Own, procVars, idVars, sigVars
  <1>4. TypeOK'
    BY <1>1, <1>2, <1>3, Zenon DEF Own, Inv, TypeOK
  <1>5. Calm(t)
    BY <1>1, <1>2, Zenon DEF Calm, AtMostWoken
  <1>6. /\ place \notin ForkPlaces /\ place \notin ExitPlaces /\ place \notin NotifyPlaces
        /\ pc[t] \notin ExitPlaces /\ pc[t] \notin NotifyPlaces /\ place # "exit"
    BY <1>0, Zenon DEF Own
  <1>7. SameKind(t) /\ (pc'[t] \in NotifyPlaces <=> pc[t] \in NotifyPlaces)
    BY <1>1, <1>6, Zenon DEF SameKind, NearKind, ExitPlaces
  <1>8. ArgOK(t)'
    BY <1>1, <1>6, Zenon DEF ArgOK, ExitPlaces
  <1>9. SIGKILL \notin pending'[init]
    BY <1>3, Zenon DEF Inv, InitInv
  <1> QED
    BY <1>1, <1>2, <1>3, <1>4, <1>5, <1>7, <1>8, <1>9, QuietStep, Zenon DEF Own

LEMMA KillInv ==
    ASSUME Inv, NEW t \in Task, NEW target \in Pid \cup {-g : g \in Pid}, NEW sig \in Signals,
           kill_handler(t, target, sig)
    PROVE  Inv'
  <1>1. /\ tstate[t] = "ACTIVE" /\ pc[t] = "user" /\ sends < MaxSends /\ sends' = sends + 1
        /\ target \in {init, -init} => sig \notin {SIGKILL} \cup StopSignals
        /\ GoTo(t, "kill", <<target, sig>>) /\ UNCHANGED <<procVars, tpid>> /\ tstate' = tstate
    BY Zenon DEF kill_handler, At
  <1>2. tstate' = [tstate EXCEPT ![t] = "ACTIVE"]
    BY <1>1 DEF Inv, TypeOK
  <1>3. sends' \in 0..MaxSends
    BY <1>1, ProcessAssumption DEF Inv, TypeOK
  <1>4. target \in Int /\ sig \in AllSignals /\ (target \in {init, -init} => sig # SIGKILL)
    BY <1>1, PidFacts, ProcessAssumption
  <1>5. Own(t, "kill", <<target, sig>>, "ACTIVE")
    BY <1>1, <1>2, <1>3, Zenon DEF Own, OwnPlaces
  <1>6. /\ <<target, sig>>[1] \in Int /\ <<target, sig>>[2] \in AllSignals
        /\ <<target, sig>>[1] \in {init, -init} => <<target, sig>>[2] # SIGKILL
    BY <1>4
  <1> QED
    BY <1>5, <1>6, OwnStep, Zenon

\* Sleeping, and a stop that is overridden.
LEMMA SleepInv ==
    ASSUME Inv, NEW t \in Task,
           StopCancelled(t) \/ SleepBlock(t) \/ SleepCheck(t) \/ SleepExpires(t) \/ SleepReturn(t)
    PROVE  Inv'
  <1>t. /\ tstate = [tstate EXCEPT ![t] = tstate[t]]
        /\ pc = [pc EXCEPT ![t] = pc[t]] /\ arg = [arg EXCEPT ![t] = arg[t]]
        /\ tstate[t] \in {"FREE", "ACTIVE", "BLOCKED", "STOPPED"} /\ sends \in 0..MaxSends
    BY Zenon DEF Inv, TypeOK, ArgInv
  <1>1. CASE StopCancelled(t) \/ SleepReturn(t)
    <2>1. Own(t, "user", <<>>, "ACTIVE")
      BY <1>t, <1>1, Zenon DEF StopCancelled, SleepReturn, At, Return, Own, OwnPlaces
    <2> QED
      BY <2>1, OwnStep, Zenon
  <1>2. CASE SleepBlock(t)
    <2>1. Own(t, "sleep", <<>>, "BLOCKED")
      BY <1>t, <1>2, Zenon DEF SleepBlock, At, Own, OwnPlaces
    <2> QED
      BY <2>1, OwnStep, Zenon
  <1>3. CASE SleepCheck(t)
    <2>1. pc[t] = "sleep" /\ tstate[t] \in {"ACTIVE", "BLOCKED"} /\ tstate[t] # "FREE"
      BY <1>3, <1>t, Zenon DEF SleepCheck, Inv, TaskInv
    <2>2. CASE signal_pending(tpid[t])
      <3>1. Own(t, "user", <<>>, "ACTIVE")
        BY <1>t, <1>3, <2>1, <2>2, Zenon DEF SleepCheck, Return, Own, OwnPlaces
      <3> QED
        BY <3>1, OwnStep, Zenon
    <2>3. CASE ~signal_pending(tpid[t])
      <3>1. Own(t, "asleep", <<>>, tstate[t])
        BY <1>t, <1>3, <2>1, <2>3, Zenon DEF SleepCheck, Own, OwnPlaces
      <3> QED
        BY <3>1, OwnStep, Zenon
    <2> QED
      BY <2>2, <2>3, Zenon
  <1>4. CASE SleepExpires(t)
    <2>1. Own(t, "asleep", arg[t], "ACTIVE")
      BY <1>t, <1>4, Zenon DEF SleepExpires, GoTo, Own, OwnPlaces
    <2> QED
      BY <2>1, OwnStep, Zenon
  <1> QED
    BY <1>1, <1>2, <1>3, <1>4, Zenon

\* waitpid, unless it reports something.
LEMMA WaitInv ==
    ASSUME Inv, NEW t \in Task,
           (\E w \in WaitFor : WaitCall(t, w)) \/ WaitFails(t) \/ WaitBlock(t)
    PROVE  Inv'
  <1>t. /\ tstate = [tstate EXCEPT ![t] = tstate[t]]
        /\ pc = [pc EXCEPT ![t] = pc[t]] /\ arg = [arg EXCEPT ![t] = arg[t]]
        /\ sends \in 0..MaxSends
    BY Zenon DEF Inv, TypeOK, ArgInv
  <1>1. ASSUME NEW w \in WaitFor, WaitCall(t, w) PROVE Inv'
    <2>1. Own(t, "wait", w, "ACTIVE")
      BY <1>t, <1>1, Zenon DEF WaitCall, At, Own, OwnPlaces
    <2> QED
      BY <2>1, OwnStep, Zenon
  <1>2. CASE WaitFails(t)
    <2>1. Own(t, "user", <<>>, "ACTIVE")
      BY <1>t, <1>2, Zenon DEF WaitFails, At, Return, Own, OwnPlaces
    <2> QED
      BY <2>1, OwnStep, Zenon
  <1>3. CASE WaitBlock(t)
    <2>1. pc[t] = "wait" /\ tstate[t] = "ACTIVE" /\ arg[t] \in WaitFor
      BY <1>3, Zenon DEF WaitBlock, At, Inv, ArgInv, ArgOK
    <2>2. Own(t, "wait", arg[t], "BLOCKED")
      BY <1>t, <1>3, <2>1, Zenon DEF WaitBlock, GoTo, Own, OwnPlaces
    <2> QED
      BY <2>1, <2>2, OwnStep, Zenon
  <1> QED
    BY <1>1, <1>2, <1>3, Zenon

(***************************************************************************)
(* The calls on signals and groups that stay in user mode.                 *)
(***************************************************************************)
LEMMA SettingStep ==
    ASSUME Inv, TypeOK', NEW t \in Task, At(t, "user"),
           UNCHANGED <<state, parent_pid, main_task, tstate, tpid, pc, arg>>,
           pgid'[init] = pgid[init], sid'[init] = sid[init], SIGKILL \notin pending'[init]
    PROVE  Inv'
  <1>1. tstate[t] = "ACTIVE" /\ pc[t] = "user" /\ pc'[t] = "user"
    BY Zenon DEF At
  <1>2. arg' = [u \in Task |-> arg'[u]] /\ ArgOK(t)'
    BY Zenon DEF Inv, ArgInv, ArgOK
  <1>3. Calm(t) /\ SameKind(t)
    BY <1>1, Zenon DEF Calm, AtMostWoken, SameKind, NearKind
  <1> QED
    BY <1>1, <1>2, <1>3, QuietStep, Zenon

LEMMA SigactionInv ==
    ASSUME Inv, NEW t \in Task, NEW h \in Handled, sigaction(t, h[1], h[2])
    PROVE  Inv'
  <1>1. At(t, "user") /\ tstate[t] = "ACTIVE" /\ pc[t] = "user"
    BY Zenon DEF sigaction, At
  <1>2. tpid[t] \in Pid
    BY <1>1, HasProcess, Zenon DEF NotifyPlaces
  <1>3. h[1] \in AllSignals /\ h[2] \in {"DFL", "IGN", "HANDLER"}
    BY ProcessAssumption
  <1>4. /\ handler' = [handler EXCEPT ![tpid[t]][h[1]] = h[2]]
        /\ pending' = [pending EXCEPT ![tpid[t]] = IF h[2] = "IGN" THEN @ \ {h[1]} ELSE @]
        /\ UNCHANGED <<state, parent_pid, pgid, sid, has_execed, main_task, blocked, stop_reported, resumed,
                       tstate, tpid, pc, arg, sends>>
    BY Zenon DEF sigaction, idVars, taskVars
  <1>5. handler' \in [Pid -> [AllSignals -> {"DFL", "IGN", "HANDLER"}]]
    BY <1>2, <1>3, <1>4 DEF Inv, TypeOK
  <1>6. pending' \in [Pid -> SUBSET AllSignals] /\ \A p \in Pid : pending'[p] \subseteq pending[p]
    BY <1>2, <1>4 DEF Inv, TypeOK
  <1>7. TypeOK'
    BY <1>4, <1>5, <1>6, Zenon DEF Inv, TypeOK
  <1>8. SIGKILL \notin pending'[init]
    BY <1>6, PidFacts, Zenon DEF Inv, InitInv
  <1> QED
    BY <1>1, <1>4, <1>7, <1>8, SettingStep, Zenon

LEMMA SigprocmaskInv ==
    ASSUME Inv, NEW t \in Task, NEW mask \in Masks, sigprocmask(t, mask)
    PROVE  Inv'
  <1>1. At(t, "user") /\ tstate[t] = "ACTIVE" /\ pc[t] = "user"
    BY Zenon DEF sigprocmask, At
  <1>2. tpid[t] \in Pid
    BY <1>1, HasProcess, Zenon DEF NotifyPlaces
  <1>3. /\ blocked' = [blocked EXCEPT ![tpid[t]] = mask \ {SIGKILL}]
        /\ UNCHANGED <<state, parent_pid, pgid, sid, has_execed, main_task, pending, handler, stop_reported,
                       resumed, tstate, tpid, pc, arg, sends>>
    BY Zenon DEF sigprocmask, idVars, taskVars
  <1>4. mask \ {SIGKILL} \in SUBSET (AllSignals \ {SIGKILL})
    BY ProcessAssumption, Zenon
  <1>5. blocked' \in [Pid -> SUBSET (AllSignals \ {SIGKILL})]
    BY <1>2, <1>3, <1>4 DEF Inv, TypeOK
  <1>6. TypeOK'
    BY <1>3, <1>5, Zenon DEF Inv, TypeOK
  <1>7. SIGKILL \notin pending'[init]
    BY <1>3, Zenon DEF Inv, InitInv
  <1> QED
    BY <1>1, <1>3, <1>6, <1>7, SettingStep, Zenon

\* init leads its session: it cannot be moved to another group or session.
LEMMA SetpgidInv ==
    ASSUME Inv, NEW t \in Task, NEW target \in Pid, NEW g \in Pid, setpgid(t, target, g)
    PROVE  Inv'
  <1>1. At(t, "user") /\ sid[target] # target
    BY Zenon DEF setpgid
  <1>2. /\ pgid' = [pgid EXCEPT ![target] = g]
        /\ UNCHANGED <<state, parent_pid, sid, has_execed, main_task, pending, blocked, handler, stop_reported,
                       resumed, tstate, tpid, pc, arg, sends>>
    BY Zenon DEF setpgid, sigVars, taskVars
  <1>3. pgid' \in [Pid -> 0..(Size - 1)]
    BY <1>2, PidFacts DEF Inv, TypeOK
  <1>4. TypeOK'
    BY <1>2, <1>3, Zenon DEF Inv, TypeOK
  <1>5. target # init
    BY <1>1, Zenon DEF Inv, InitInv
  <1>6. pgid'[init] = pgid[init]
    BY <1>2, <1>5, PidFacts, Zenon DEF Inv, TypeOK
  <1>7. SIGKILL \notin pending'[init]
    BY <1>2, Zenon DEF Inv, InitInv
  <1> QED
    BY <1>1, <1>2, <1>4, <1>6, <1>7, SettingStep, Zenon

LEMMA SetsidInv ==
    ASSUME Inv, NEW t \in Task, setsid(t)
    PROVE  Inv'
  <1>1. At(t, "user") /\ tstate[t] = "ACTIVE" /\ pc[t] = "user" /\ pgid[tpid[t]] # tpid[t]
    BY Zenon DEF setsid, At
  <1>2. tpid[t] \in Pid
    BY <1>1, HasProcess, Zenon DEF NotifyPlaces
  <1>3. /\ pgid' = [pgid EXCEPT ![tpid[t]] = tpid[t]]
        /\ sid' = [sid EXCEPT ![tpid[t]] = tpid[t]]
        /\ UNCHANGED <<state, parent_pid, has_execed, main_task, pending, blocked, handler, stop_reported,
                       resumed, tstate, tpid, pc, arg, sends>>
    BY Zenon DEF setsid, sigVars, taskVars
  <1>4. pgid' \in [Pid -> 0..(Size - 1)] /\ sid' \in [Pid -> 0..(Size - 1)]
    BY <1>2, <1>3, PidFacts DEF Inv, TypeOK
  <1>5. TypeOK'
    BY <1>3, <1>4, Zenon DEF Inv, TypeOK
  <1>6. tpid[t] # init
    BY <1>1, Zenon DEF Inv, InitInv
  <1>7. pgid'[init] = pgid[init] /\ sid'[init] = sid[init]
    BY <1>3, <1>6, PidFacts, Zenon DEF Inv, TypeOK
  <1>8. SIGKILL \notin pending'[init]
    BY <1>3, Zenon DEF Inv, InitInv
  <1> QED
    BY <1>1, <1>3, <1>5, <1>7, <1>8, SettingStep, Zenon

LEMMA ExecInv ==
    ASSUME Inv, NEW t \in Task, process_exec(t)
    PROVE  Inv'
  <1>1. At(t, "user") /\ tstate[t] = "ACTIVE" /\ pc[t] = "user"
    BY Zenon DEF process_exec, At
  <1>2. tpid[t] \in Pid
    BY <1>1, HasProcess, Zenon DEF NotifyPlaces
  <1>3. /\ handler' = [handler EXCEPT ![tpid[t]] =
                          [s \in AllSignals |-> IF handler[tpid[t]][s] = "IGN" THEN "IGN" ELSE "DFL"]]
        /\ has_execed' = [has_execed EXCEPT ![tpid[t]] = TRUE]
        /\ UNCHANGED <<state, parent_pid, pgid, sid, main_task, pending, blocked, stop_reported,
                       resumed, tstate, tpid, pc, arg, sends>>
    BY Zenon DEF process_exec, taskVars
  <1>4. handler' \in [Pid -> [AllSignals -> {"DFL", "IGN", "HANDLER"}]] /\ has_execed' \in [Pid -> BOOLEAN]
    BY <1>2, <1>3 DEF Inv, TypeOK
  <1>5. TypeOK'
    BY <1>3, <1>4, Zenon DEF Inv, TypeOK
  <1>6. SIGKILL \notin pending'[init]
    BY <1>3, Zenon DEF Inv, InitInv
  <1> QED
    BY <1>1, <1>3, <1>5, <1>6, SettingStep, Zenon

(***************************************************************************)
(* Sending and delivering signals.                                         *)
(***************************************************************************)
TStates == {"FREE", "ACTIVE", "BLOCKED", "STOPPED"}

\* The task that the search of Send finds is the one of the process it sends to.
LEMMA SendFacts ==
    ASSUME Inv, NEW targets, NEW sig \in AllSignals, Send(targets, sig)
    PROVE  /\ pending' \in [Pid -> SUBSET AllSignals] /\ stop_reported' \in [Pid -> BOOLEAN]
           /\ resumed' \in [Pid -> BOOLEAN] /\ tstate' \in [Task -> TStates]
           /\ \A p \in Pid : pending'[p] = IF p \in targets /\ Running(p) THEN Posted(p, sig) ELSE pending[p]
           /\ \A t \in Task : tpid[t] = 0 => tstate'[t] = tstate[t]
           /\ \A t \in Task : tpid[t] # 0 =>
                 tstate'[t] = IF tpid[t] \in targets /\ Running(tpid[t]) THEN Woken(tpid[t], sig) ELSE tstate[t]
           /\ \A t \in Task : AtMostWoken(t)
           /\ \A p \in Pid :
                 resumed'[p] = IF ~(p \in targets /\ Running(p)) THEN resumed[p]
                               ELSE IF sig \in StopSignals THEN FALSE
                               ELSE IF sig = SIGCONT THEN TRUE ELSE resumed[p]
           /\ \A t \in Task : tpid[t] # 0 =>
                 stop_reported'[tpid[t]] = stop_reported[tpid[t]] \/ tstate'[t] = "ACTIVE"
  <1> DEFINE reached == {p \in targets : Running(p)}
             woken == {p \in reached : main_task[p] # NoTask}
             continued == {p \in woken : sig \in {SIGCONT, SIGKILL} /\ tstate[main_task[p]] = "STOPPED"}
  <1>1. /\ pending' = [p \in Pid |-> IF p \in reached THEN Posted(p, sig) ELSE pending[p]]
        /\ stop_reported' = [p \in Pid |-> stop_reported[p] /\ p \notin continued]
        /\ tstate' = [t \in Task |->
                        IF \E p \in woken : main_task[p] = t
                        THEN Woken(CHOOSE p \in woken : main_task[p] = t, sig)
                        ELSE tstate[t]]
        /\ resumed' = [p \in Pid |->
                         CASE p \in reached /\ sig \in StopSignals -> FALSE
                           [] p \in reached /\ sig = SIGCONT -> TRUE
                           [] OTHER -> resumed[p]]
    BY Zenon DEF Send
  <1>2. woken \subseteq Pid /\ \A p \in woken : main_task[p] \in Task /\ tpid[main_task[p]] = p
    BY Zenon DEF Running, Inv, TypeOK, TaskInv
  <1>3. ASSUME NEW t \in Task, \E p \in woken : main_task[p] = t
        PROVE  tpid[t] \in woken /\ (CHOOSE p \in woken : main_task[p] = t) = tpid[t]
    <2>1. (CHOOSE p \in woken : main_task[p] = t) \in woken /\ main_task[CHOOSE p \in woken : main_task[p] = t] = t
      BY <1>3, Zenon
    <2> QED
      BY <1>2, <2>1, Zenon
  <1>4. ASSUME NEW t \in Task, tpid[t] # 0, tpid[t] \in reached
        PROVE  \E p \in woken : main_task[p] = t
    <2>1. main_task[tpid[t]] = t /\ t # NoTask
      BY <1>4, PidFacts, Zenon DEF Inv, TaskInv
    <2> QED
      BY <1>4, <2>1, Zenon
  <1>5. \A t \in Task : tpid[t] = 0 => tstate'[t] = tstate[t]
    <2>1. 0 \notin woken
      BY <1>2, PidFacts, Zenon
    <2> QED
      BY <1>1, <1>3, <2>1, ZenonT(30)
  <1>6. \A t \in Task : tpid[t] # 0 =>
          tstate'[t] = IF tpid[t] \in targets /\ Running(tpid[t]) THEN Woken(tpid[t], sig) ELSE tstate[t]
    <2>1. ASSUME NEW t \in Task, tpid[t] # 0, tpid[t] \in reached
          PROVE  tstate'[t] = Woken(tpid[t], sig)
      BY <1>1, <1>3, <1>4, <2>1, Zenon
    <2>2. ASSUME NEW t \in Task, tpid[t] # 0, tpid[t] \notin reached
          PROVE  tstate'[t] = tstate[t]
      BY <1>1, <1>3, <2>2, Zenon
    <2> QED
      BY <2>1, <2>2, Zenon
  <1>7. \A t \in Task : AtMostWoken(t)
    <2>1. ASSUME NEW t \in Task, tpid[t] # 0
          PROVE  \/ Woken(tpid[t], sig) = tstate[t]
                 \/ tstate[t] \in {"BLOCKED", "STOPPED"} /\ Woken(tpid[t], sig) = "ACTIVE"
      <3>1. main_task[tpid[t]] = t
        BY <2>1, Zenon DEF Inv, TaskInv
      <3>2. CASE sig \in {SIGCONT, SIGKILL} /\ tstate[t] = "STOPPED"
        BY <3>1, <3>2 DEF Woken
      <3>3. CASE ~(sig \in {SIGCONT, SIGKILL} /\ tstate[t] = "STOPPED")
        BY <3>1, <3>3 DEF Woken
      <3> QED
        BY <3>2, <3>3, Zenon
    <2> QED
      BY <1>5, <1>6, <2>1, Zenon DEF AtMostWoken
  <1>8. tstate' \in [Task -> TStates]
    <2>1. \A t \in Task : tstate[t] \in TStates
      BY Zenon DEF Inv, TypeOK, TStates
    <2>2. \A t \in Task : tstate'[t] \in TStates
      BY <1>7, <2>1, Zenon DEF TStates, AtMostWoken
    <2> QED
      BY <1>1, <2>2, Zenon
  <1>9. pending' \in [Pid -> SUBSET AllSignals]
    <2>1. \A p \in Pid : pending[p] \in SUBSET AllSignals /\ Posted(p, sig) \in SUBSET AllSignals
      BY Zenon DEF Inv, TypeOK, Posted
    <2> QED
      BY <1>1, <2>1, Zenon
  <1>10. stop_reported' \in [Pid -> BOOLEAN]
    BY <1>1, Zenon
  <1>11. resumed' \in [Pid -> BOOLEAN]
    <2>1. \A p \in Pid : resumed[p] \in BOOLEAN
      BY Zenon DEF Inv, TypeOK
    <2> QED
      BY <1>1, <2>1, Zenon
  <1>12. \A p \in Pid : pending'[p] = IF p \in targets /\ Running(p) THEN Posted(p, sig) ELSE pending[p]
    BY <1>1, Zenon
  <1>13. ASSUME NEW p \in Pid
         PROVE  resumed'[p] = IF ~(p \in targets /\ Running(p)) THEN resumed[p]
                              ELSE IF sig \in StopSignals THEN FALSE
                              ELSE IF sig = SIGCONT THEN TRUE ELSE resumed[p]
    <2>1. p \in reached <=> p \in targets /\ Running(p)
      BY Zenon
    <2>2. resumed'[p] = CASE p \in reached /\ sig \in StopSignals -> FALSE
                         [] p \in reached /\ sig = SIGCONT -> TRUE
                         [] OTHER -> resumed[p]
      BY <1>1, Zenon
    <2> HIDE DEF reached
    <2>3. CASE p \in reached /\ sig \in StopSignals
      BY <2>1, <2>2, <2>3, SignalFacts, Zenon DEF StopSignals
    <2>4. CASE p \in reached /\ sig = SIGCONT
      BY <2>1, <2>2, <2>4, SignalFacts, Zenon DEF StopSignals
    <2>5. CASE ~(p \in reached /\ sig \in StopSignals) /\ ~(p \in reached /\ sig = SIGCONT)
      BY <2>1, <2>2, <2>5, Zenon
    <2> QED
      BY <2>3, <2>4, <2>5, Zenon
  <1>14. ASSUME NEW t \in Task, tpid[t] # 0
         PROVE  stop_reported'[tpid[t]] = stop_reported[tpid[t]] \/ tstate'[t] = "ACTIVE"
    <2>1. tpid[t] \in Pid /\ main_task[tpid[t]] = t /\ stop_reported[tpid[t]] \in BOOLEAN
      BY <1>14, PidFacts, Zenon DEF Inv, TypeOK, TaskInv
    <2>2. CASE tpid[t] \in continued
      <3>1. /\ tpid[t] \in targets /\ Running(tpid[t]) /\ sig \in {SIGCONT, SIGKILL}
            /\ tstate[main_task[tpid[t]]] = "STOPPED"
        BY <2>2, Zenon
      <3>2. Woken(tpid[t], sig) = "ACTIVE"
        BY <3>1 DEF Woken
      <3> QED
        BY <1>6, <1>14, <3>1, <3>2, Zenon
    <2>3. CASE tpid[t] \notin continued
      <3>1. stop_reported'[tpid[t]] = (stop_reported[tpid[t]] /\ tpid[t] \notin continued)
        BY <1>1, <2>1, Zenon
      <3> HIDE DEF continued
      <3> QED
        BY <2>1, <2>3, <3>1, Zenon
    <2> QED
      BY <2>2, <2>3, Zenon
  <1> QED
    BY <1>5, <1>6, <1>7, <1>8, <1>9, <1>10, <1>11, <1>12, <1>13, <1>14, Zenon

LEMMA UnblockedFacts ==
    ASSUME NEW ts \in [Task -> TStates], NEW t \in Task \cup {NoTask}
    PROVE  /\ Unblocked(ts, t) \in [Task -> TStates]
           /\ \A u \in Task : Unblocked(ts, t)[u] = IF u = t /\ ts[u] = "BLOCKED" THEN "ACTIVE" ELSE ts[u]
  <1>1. CASE t # NoTask /\ ts[t] = "BLOCKED"
    BY <1>1, PidFacts DEF Unblocked, TStates
  <1>2. CASE ~(t # NoTask /\ ts[t] = "BLOCKED")
    BY <1>2, PidFacts, Zenon DEF Unblocked
  <1> QED
    BY <1>1, <1>2, Zenon

\* What signal_deliver_one takes is deliverable.
LEMMA Lowest ==
    ASSUME NEW S \in SUBSET AllSignals, S # {}
    PROVE  (CHOOSE x \in S : \A y \in S : x <= y) \in S
  <1>1. \E x \in S : \A y \in S : x <= y
    <2>1. \A y \in S : y = 9 \/ y = 17 \/ y = 18 \/ y = 20
      BY Zenon DEF AllSignals, SIGKILL, SIGCHLD, SIGCONT, SIGTSTP
    <2>2. CASE 9 \in S
      BY <2>1, <2>2
    <2>3. CASE 9 \notin S /\ 17 \in S
      BY <2>1, <2>3
    <2>4. CASE 9 \notin S /\ 17 \notin S /\ 18 \in S
      BY <2>1, <2>4
    <2>5. CASE 9 \notin S /\ 17 \notin S /\ 18 \notin S
      BY <2>1, <2>5
    <2> QED
      BY <2>2, <2>3, <2>4, <2>5, Zenon
  <1> QED
    BY <1>1, Zenon

LEMMA DeliverFacts ==
    ASSUME Inv, NEW t \in Task, signal_deliver_one(t)
    PROVE  \E sig \in AllSignals :
             /\ tstate[t] = "ACTIVE" /\ pc[t] = "user" /\ tpid[t] \in Pid
             /\ sig \in pending[tpid[t]] /\ sig \notin blocked[tpid[t]]
             /\ pending' = [pending EXCEPT ![tpid[t]] = @ \ {sig}]
             /\ \/ GoTo(t, "stop", <<sig>>) /\ sig = SIGTSTP
                \/ GoTo(t, "exit", <<>>) /\ sig = SIGKILL
                \/ GoTo(t, "user", <<>>)
             /\ UNCHANGED <<state, parent_pid, pgid, sid, has_execed, main_task, blocked, handler,
                            stop_reported, resumed, tstate, tpid, sends>>
  <1> DEFINE deliverable == pending[tpid[t]] \ blocked[tpid[t]]
             sig == CHOOSE x \in deliverable : \A y \in deliverable : x <= y
  <1>1. /\ At(t, "user") /\ tpid[t] \in Pid /\ deliverable # {}
        /\ pending' = [pending EXCEPT ![tpid[t]] = @ \ {sig}]
        /\ CASE handler[tpid[t]][sig] = "DFL" /\ sig \in StopSignals -> GoTo(t, "stop", <<sig>>)
             [] handler[tpid[t]][sig] = "DFL" /\ sig = SIGKILL -> GoTo(t, "exit", <<>>)
             [] OTHER -> Return(t)
        /\ UNCHANGED <<state, parent_pid, pgid, sid, has_execed, main_task, blocked, handler,
                       stop_reported, resumed, tstate, tpid, sends>>
    BY Zenon DEF signal_deliver_one, idVars
  <1>2. deliverable \in SUBSET AllSignals
    BY <1>1, Zenon DEF Inv, TypeOK
  <1>3. sig \in deliverable
    BY <1>1, <1>2, Lowest, Zenon
  <1> HIDE DEF sig
  <1>4. \/ GoTo(t, "stop", <<sig>>) /\ sig = SIGTSTP
        \/ GoTo(t, "exit", <<>>) /\ sig = SIGKILL
        \/ GoTo(t, "user", <<>>)
    <2>1. CASE handler[tpid[t]][sig] = "DFL" /\ sig \in StopSignals
      BY <1>1, <2>1, Zenon DEF StopSignals
    <2>2. CASE handler[tpid[t]][sig] = "DFL" /\ sig = SIGKILL
      BY <1>1, <2>2, SignalFacts, Zenon DEF StopSignals
    <2>3. CASE ~(handler[tpid[t]][sig] = "DFL" /\ sig \in StopSignals) /\ ~(handler[tpid[t]][sig] = "DFL" /\ sig = SIGKILL)
      BY <1>1, <2>3, Zenon DEF Return
    <2> QED
      BY <2>1, <2>2, <2>3, Zenon
  <1>5. sig \in AllSignals /\ sig \in pending[tpid[t]] /\ sig \notin blocked[tpid[t]]
    BY <1>2, <1>3, Zenon
  <1>6. tstate[t] = "ACTIVE" /\ pc[t] = "user"
    BY <1>1, Zenon DEF At
  <1> QED
    BY <1>1, <1>4, <1>5, <1>6, Zenon

LEMMA DeliverInv ==
    ASSUME Inv, NEW t \in Task, signal_deliver_one(t)
    PROVE  Inv'
  <1>1. PICK sig \in AllSignals :
             /\ tstate[t] = "ACTIVE" /\ pc[t] = "user" /\ tpid[t] \in Pid
             /\ sig \in pending[tpid[t]] /\ sig \notin blocked[tpid[t]]
             /\ pending' = [pending EXCEPT ![tpid[t]] = @ \ {sig}]
             /\ \/ GoTo(t, "stop", <<sig>>) /\ sig = SIGTSTP
                \/ GoTo(t, "exit", <<>>) /\ sig = SIGKILL
                \/ GoTo(t, "user", <<>>)
             /\ UNCHANGED <<state, parent_pid, pgid, sid, has_execed, main_task, blocked, handler,
                            stop_reported, resumed, tstate, tpid, sends>>
    BY DeliverFacts, Zenon
  <1>2. /\ pc'[t] \in {"stop", "exit", "user"} /\ (pc'[t] = "exit" => sig = SIGKILL)
        /\ \A u \in Task \ {t} : pc'[u] = pc[u] /\ arg'[u] = arg[u]
        /\ arg' = [u \in Task |-> arg'[u]] /\ pc' \in [Task -> Places]
    <2>1. "stop" \in Places /\ "exit" \in Places /\ "user" \in Places
      BY Zenon DEF Places
    <2>2. CASE GoTo(t, "stop", <<sig>>) /\ sig = SIGTSTP
      <3>1. pc'[t] = "stop"
        BY <2>2, GoToFacts, Zenon
      <3> QED
        BY <2>1, <2>2, <3>1, GoToFacts, Zenon
    <2>3. CASE GoTo(t, "exit", <<>>) /\ sig = SIGKILL
      BY <2>1, <2>3, GoToFacts, Zenon
    <2>4. CASE GoTo(t, "user", <<>>)
      <3>1. pc'[t] = "user"
        BY <2>4, GoToFacts, Zenon
      <3> QED
        BY <2>1, <2>4, <3>1, GoToFacts, Zenon
    <2> QED
      BY <1>1, <2>2, <2>3, <2>4, Zenon
  <1>3. pending' \in [Pid -> SUBSET AllSignals] /\ \A p \in Pid : pending'[p] \subseteq pending[p]
    BY <1>1 DEF Inv, TypeOK
  <1>4. TypeOK'
    BY <1>1, <1>2, <1>3, Zenon DEF Inv, TypeOK
  <1>5. SIGKILL \notin pending'[init]
    BY <1>3, PidFacts, Zenon DEF Inv, InitInv
  <1>6. pc'[t] = "exit" => tpid[t] # init
    BY <1>1, <1>2, Zenon DEF Inv, InitInv
  <1>7. Calm(t)
    BY <1>1, <1>2, Zenon DEF Calm, AtMostWoken
  <1>8. SameKind(t) /\ (pc'[t] \in NotifyPlaces <=> pc[t] \in NotifyPlaces)
    BY <1>1, <1>2, <1>6, Zenon DEF SameKind, NearKind, ForkPlaces, ExitPlaces, NotifyPlaces
  <1>9. ArgOK(t)'
    BY <1>2, Zenon DEF ArgOK, NotifyPlaces
  <1> QED
    BY <1>1, <1>2, <1>4, <1>5, <1>7, <1>8, <1>9, QuietStep, Zenon

\* What kill and the SIGCHLD of exit post: no SIGKILL to init.
LEMMA SendInv ==
    ASSUME Inv, NEW t \in Task, NEW targets, NEW sig \in AllSignals, Send(targets, sig),
           (At(t, "kill") /\ Return(t)) \/ (At(t, "signal") /\ GoTo(t, "unblock", arg[t])),
           init \in targets => sig # SIGKILL,
           UNCHANGED <<state, idVars, main_task, blocked, handler, tpid, sends>>
    PROVE  Inv'
  <1>1. /\ pending' \in [Pid -> SUBSET AllSignals] /\ stop_reported' \in [Pid -> BOOLEAN]
        /\ resumed' \in [Pid -> BOOLEAN] /\ tstate' \in [Task -> TStates]
        /\ \A p \in Pid : pending'[p] = IF p \in targets /\ Running(p) THEN Posted(p, sig) ELSE pending[p]
        /\ \A u \in Task : AtMostWoken(u)
    BY SendFacts, Zenon
  <1>2. tstate[t] = "ACTIVE" /\ tstate'[t] = "ACTIVE"
    BY <1>1, Zenon DEF At, AtMostWoken
  <1>3. /\ \/ pc[t] = "kill" /\ pc'[t] = "user"
           \/ pc[t] = "signal" /\ pc'[t] = "unblock" /\ arg'[t] = arg[t]
        /\ \A u \in Task \ {t} : pc'[u] = pc[u] /\ arg'[u] = arg[u]
        /\ arg' = [u \in Task |-> arg'[u]] /\ pc' \in [Task -> Places]
    <2>1. "unblock" \in Places /\ "user" \in Places
      BY Zenon DEF Places
    <2>2. CASE At(t, "kill") /\ Return(t)
      BY <2>1, <2>2, GoToFacts, Zenon DEF At, Return
    <2>3. CASE At(t, "signal") /\ GoTo(t, "unblock", arg[t])
      BY <2>1, <2>3, GoToFacts, Zenon DEF At
    <2> QED
      BY <2>2, <2>3, Zenon
  <1>4. TypeOK'
    BY <1>1, <1>3, Zenon DEF Inv, TypeOK, TStates, idVars
  <1>5. SIGKILL \notin pending'[init]
    <2>1. SIGKILL \notin pending[init] /\ init \in Pid
      BY PidFacts, Zenon DEF Inv, InitInv
    <2>2. CASE init \in targets /\ Running(init)
      <3>1. pending'[init] = Posted(init, sig) /\ sig # SIGKILL
        BY <1>1, <2>1, <2>2, Zenon
      <3> QED
        BY <2>1, <3>1, Zenon DEF Posted
    <2>3. CASE ~(init \in targets /\ Running(init))
      BY <1>1, <2>1, <2>3, Zenon
    <2> QED
      BY <2>2, <2>3, Zenon
  <1>6. Calm(t)
    BY <1>1, <1>3, Zenon DEF Calm, AtMostWoken
  <1>7. SameKind(t) /\ (pc'[t] \in NotifyPlaces <=> pc[t] \in NotifyPlaces)
    BY <1>3, Zenon DEF SameKind, NearKind, ForkPlaces, ExitPlaces, NotifyPlaces
  <1>8. ArgOK(t)'
    BY <1>3, Zenon DEF ArgOK, NotifyPlaces, Inv, ArgInv
  <1> QED
    BY <1>2, <1>3, <1>4, <1>5, <1>6, <1>7, <1>8, QuietStep, Zenon DEF idVars

LEMMA KillSendInv ==
    ASSUME Inv, NEW t \in Task, kill_send(t)
    PROVE  Inv'
  <1> DEFINE target == arg[t][1]
             reached == IF target > 0 THEN {target} ELSE {p \in Pid : pgid[p] = -target}
  <1>1. /\ At(t, "kill") /\ Send(reached, arg[t][2]) /\ Return(t)
        /\ UNCHANGED <<state, idVars, main_task, blocked, handler, tpid, sends>>
    BY Zenon DEF kill_send
  <1>2. /\ target \in Int /\ arg[t][2] \in AllSignals
        /\ target \in {init, -init} => arg[t][2] # SIGKILL
    BY <1>1, Zenon DEF At, Inv, ArgInv, ArgOK
  <1>3. init \in reached => target \in {init, -init}
    <2>1. CASE target > 0
      BY <2>1, Zenon
    <2>2. CASE ~(target > 0)
      <3>1. pgid[init] = init
        BY Zenon DEF Inv, InitInv
      <3>2. init \in reached => init = -target
        BY <2>2, <3>1, Zenon
      <3> QED
        BY <1>2, <3>2 DEF init
    <2> QED
      BY <2>1, <2>2, Zenon
  <1>4. init \in reached => arg[t][2] # SIGKILL
    BY <1>2, <1>3, Zenon
  <1>5. PICK S : Send(S, arg[t][2]) /\ (init \in S => arg[t][2] # SIGKILL)
    BY <1>1, <1>4, Zenon
  <1> QED
    BY <1>1, <1>2, <1>5, SendInv, Zenon

LEMMA NotifySignalInv ==
    ASSUME Inv, NEW t \in Task, NotifySignal(t)
    PROVE  Inv'
  <1>1. /\ At(t, "signal") /\ Send({Head(arg[t])}, SIGCHLD) /\ GoTo(t, "unblock", arg[t])
        /\ UNCHANGED <<state, idVars, main_task, blocked, handler, tpid, sends>>
    BY Zenon DEF NotifySignal
  <1> QED
    BY <1>1, SignalFacts, SendInv, Zenon

\* What a stop does: t stops, and its parent's task is at most woken.
LEMMA StopFacts ==
    ASSUME Inv, NEW t \in Task, Stop(t)
    PROVE  /\ tstate[t] = "ACTIVE" /\ pc[t] = "stop" /\ tpid[t] \in Pid
           /\ pending[tpid[t]] \cap {SIGCONT, SIGKILL} = {}
           /\ pc'[t] = "user" /\ pc' \in [Task -> Places] /\ arg' = [u \in Task |-> arg'[u]]
           /\ tstate' \in [Task -> TStates] /\ tstate'[t] = "STOPPED" /\ Calm(t)
           /\ \A u \in Task : Running(parent_pid[tpid[t]]) /\ u = main_task[parent_pid[tpid[t]]] =>
                 tstate'[u] # "BLOCKED"
           /\ stop_reported' = [stop_reported EXCEPT ![tpid[t]] = FALSE]
           /\ UNCHANGED <<state, parent_pid, pgid, sid, has_execed, main_task, pending, blocked, handler,
                          resumed, tpid, sends>>
  <1> DEFINE parent == parent_pid[tpid[t]]
             woken == IF Running(parent) THEN main_task[parent] ELSE NoTask
             ts == [tstate EXCEPT ![t] = "STOPPED"]
  <1>1. /\ At(t, "stop") /\ pending[tpid[t]] \cap {SIGCONT, SIGKILL} = {} /\ Return(t)
        /\ tstate' = Unblocked(ts, woken)
        /\ stop_reported' = [stop_reported EXCEPT ![tpid[t]] = FALSE]
        /\ UNCHANGED <<state, parent_pid, pgid, sid, has_execed, main_task, pending, blocked, handler,
                       resumed, tpid, sends>>
    BY Zenon DEF Stop, idVars
  <1>2. tstate[t] = "ACTIVE" /\ pc[t] = "stop"
    BY <1>1, Zenon DEF At
  <1>3. tpid[t] \in Pid
    BY <1>2, HasProcess, Zenon DEF NotifyPlaces
  <1>4. /\ pc'[t] = "user" /\ pc' \in [Task -> Places] /\ arg' = [u \in Task |-> arg'[u]]
        /\ \A u \in Task \ {t} : pc'[u] = pc[u] /\ arg'[u] = arg[u]
    <2>1. "user" \in Places
      BY Zenon DEF Places
    <2> QED
      BY <1>1, <2>1, GoToFacts, Zenon DEF Return
  <1>5. ts \in [Task -> TStates] /\ ts[t] = "STOPPED" /\ \A u \in Task \ {t} : ts[u] = tstate[u]
    BY Zenon DEF Inv, TypeOK, TStates
  <1>6. woken \in Task \cup {NoTask}
    BY Zenon DEF Running, Inv, TypeOK
  <1> HIDE DEF ts, woken
  <1>7. /\ tstate' \in [Task -> TStates]
        /\ \A u \in Task : tstate'[u] = IF u = woken /\ ts[u] = "BLOCKED" THEN "ACTIVE" ELSE ts[u]
    BY <1>1, <1>5, <1>6, UnblockedFacts, Zenon
  <1>8. tstate'[t] = "STOPPED"
    BY <1>5, <1>7, Zenon
  <1>9. Calm(t)
    BY <1>4, <1>5, <1>7, Zenon DEF Calm, AtMostWoken
  <1>10. \A u \in Task : Running(parent) /\ u = main_task[parent] => tstate'[u] # "BLOCKED"
    BY <1>7, Zenon DEF woken
  <1> QED
    BY <1>1, <1>2, <1>3, <1>4, <1>7, <1>8, <1>9, <1>10, Zenon

LEMMA StopInv ==
    ASSUME Inv, NEW t \in Task, Stop(t)
    PROVE  Inv'
  <1>1. stop_reported' \in [Pid -> BOOLEAN]
    BY StopFacts, Zenon DEF Inv, TypeOK
  <1>2. TypeOK'
    BY <1>1, StopFacts, Zenon DEF Inv, TypeOK, TStates
  <1>3. SameKind(t) /\ (pc'[t] \in NotifyPlaces <=> pc[t] \in NotifyPlaces)
    BY StopFacts, Zenon DEF SameKind, NearKind, ForkPlaces, ExitPlaces, NotifyPlaces
  <1>4. ArgOK(t)'
    BY StopFacts, Zenon DEF ArgOK, NotifyPlaces
  <1>5. SIGKILL \notin pending'[init]
    BY StopFacts, Zenon DEF Inv, InitInv
  <1> QED
    BY <1>2, <1>3, <1>4, <1>5, StopFacts, QuietStep, Zenon

LEMMA ReportStopInv ==
    ASSUME Inv, NEW t \in Task, NEW c \in Pid, ReportStop(t, c)
    PROVE  Inv'
  <1>1. /\ tstate[t] = "ACTIVE" /\ pc[t] = "wait" /\ Return(t)
        /\ stop_reported' = [stop_reported EXCEPT ![c] = TRUE]
        /\ UNCHANGED <<state, parent_pid, pgid, sid, has_execed, main_task, pending, blocked, handler,
                       resumed, tstate, tpid, sends>>
    BY Zenon DEF ReportStop, At, idVars
  <1>2. /\ pc'[t] = "user" /\ pc' \in [Task -> Places] /\ arg' = [u \in Task |-> arg'[u]]
        /\ \A u \in Task \ {t} : pc'[u] = pc[u] /\ arg'[u] = arg[u]
    <2>1. "user" \in Places
      BY Zenon DEF Places
    <2> QED
      BY <1>1, <2>1, GoToFacts, Zenon DEF Return
  <1>3. stop_reported' \in [Pid -> BOOLEAN]
    BY <1>1 DEF Inv, TypeOK
  <1>4. TypeOK'
    BY <1>1, <1>2, <1>3, Zenon DEF Inv, TypeOK
  <1>5. Calm(t) /\ SameKind(t) /\ (pc'[t] \in NotifyPlaces <=> pc[t] \in NotifyPlaces)
    BY <1>1, <1>2, Zenon DEF Calm, AtMostWoken, SameKind, NearKind, ForkPlaces, ExitPlaces, NotifyPlaces
  <1>6. ArgOK(t)' /\ SIGKILL \notin pending'[init]
    BY <1>1, <1>2, Zenon DEF ArgOK, NotifyPlaces, Inv, InitInv
  <1> QED
    BY <1>1, <1>2, <1>4, <1>5, <1>6, QuietStep, Zenon

(***************************************************************************)
(* Slots: claimed by fork, given back by a failed fork and by waitpid.     *)
(***************************************************************************)
PStates == {"EMPTY", "RUNNING", "DEAD", "ZOMBIE"}

\* Slot c is in state s with a fresh PCB, or none, and the other slots are as they were.
SlotSet(c, s) ==
    /\ main_task' = main_task /\ state' \in [Pid -> PStates] /\ state'[c] = s
    /\ parent_pid' \in [Pid -> 0..(Size - 1)] /\ pgid' \in [Pid -> 0..(Size - 1)]
    /\ sid' \in [Pid -> 0..(Size - 1)] /\ has_execed' \in [Pid -> BOOLEAN]
    /\ pending' \in [Pid -> SUBSET AllSignals]
    /\ blocked' \in [Pid -> SUBSET (AllSignals \ {SIGKILL})]
    /\ handler' \in [Pid -> [AllSignals -> {"DFL", "IGN", "HANDLER"}]]
    /\ stop_reported' \in [Pid -> BOOLEAN] /\ resumed' \in [Pid -> BOOLEAN]
    /\ parent_pid'[c] = 0 /\ pending'[c] = {} /\ resumed'[c] = TRUE
    /\ handler'[c] = NoHandlers
    /\ \A p \in Pid \ {c} :
          /\ state'[p] = state[p] /\ parent_pid'[p] = parent_pid[p] /\ pgid'[p] = pgid[p]
          /\ sid'[p] = sid[p] /\ pending'[p] = pending[p] /\ blocked'[p] = blocked[p]
          /\ handler'[p] = handler[p] /\ resumed'[p] = resumed[p]
          /\ stop_reported'[p] = stop_reported[p]

LEMMA SlotFacts ==
    ASSUME Inv, NEW c \in Pid, NEW s \in PStates, SetSlot(c, s), main_task[c] = NoTask
    PROVE  SlotSet(c, s)
  <1>1. 0 \in 0..(Size - 1)
    BY ProcessAssumption
  <1>2. main_task' = main_task
    BY DEF SetSlot, Inv, TypeOK
  <1>3. /\ state' \in [Pid -> PStates] /\ state'[c] = s
        /\ \A p \in Pid \ {c} : state'[p] = state[p]
    BY Zenon DEF SetSlot, Inv, TypeOK, PStates
  <1>4. /\ parent_pid' \in [Pid -> 0..(Size - 1)] /\ pgid' \in [Pid -> 0..(Size - 1)]
        /\ sid' \in [Pid -> 0..(Size - 1)] /\ has_execed' \in [Pid -> BOOLEAN]
    BY <1>1, Zenon DEF SetSlot, Inv, TypeOK
  <1>5. /\ pending' \in [Pid -> SUBSET AllSignals]
        /\ blocked' \in [Pid -> SUBSET (AllSignals \ {SIGKILL})]
        /\ stop_reported' \in [Pid -> BOOLEAN] /\ resumed' \in [Pid -> BOOLEAN]
    BY Zenon DEF SetSlot, Inv, TypeOK
  <1>6. handler' \in [Pid -> [AllSignals -> {"DFL", "IGN", "HANDLER"}]]
    <2>1. NoHandlers \in [AllSignals -> {"DFL", "IGN", "HANDLER"}]
      BY Zenon DEF NoHandlers
    <2> QED
      BY <2>1, Zenon DEF SetSlot, Inv, TypeOK
  <1>7. parent_pid'[c] = 0 /\ pending'[c] = {} /\ resumed'[c] = TRUE /\ handler'[c] = NoHandlers
    BY Zenon DEF SetSlot, Inv, TypeOK
  <1>8. ASSUME NEW p \in Pid \ {c}
        PROVE  /\ parent_pid'[p] = parent_pid[p] /\ pgid'[p] = pgid[p]
               /\ sid'[p] = sid[p] /\ pending'[p] = pending[p] /\ blocked'[p] = blocked[p]
               /\ handler'[p] = handler[p] /\ resumed'[p] = resumed[p]
               /\ stop_reported'[p] = stop_reported[p]
    BY Zenon DEF SetSlot, Inv, TypeOK
  <1> QED
    BY <1>2, <1>3, <1>4, <1>5, <1>6, <1>7, <1>8, Zenon DEF SlotSet

\* The slot that t sets is nobody else's.
LEMMA SlotStep ==
    ASSUME Inv, NEW t \in Task, NEW c \in Pid, NEW s \in PStates, SetSlot(c, s), main_task[c] = NoTask,
           tstate[t] = "ACTIVE", pc[t] \in {"user", "claimed", "copied", "wait"},
           NEW place \in {"user", "claimed"}, NEW a, GoTo(t, place, a),
           place = "claimed" => a[1] = c /\ s = "RUNNING",
           \A u \in Task \ {t} : pc[u] \in ForkPlaces => arg[u][1] # c,
           UNCHANGED <<tstate, tpid, sends>>
    PROVE  Inv'
  <1>0. SlotSet(c, s)
    BY SlotFacts, Zenon
  <1>1. /\ pc'[t] = place /\ arg'[t] = a /\ pc' \in [Task -> Places] /\ arg' = [u \in Task |-> arg'[u]]
        /\ \A u \in Task \ {t} : pc'[u] = pc[u] /\ arg'[u] = arg[u]
    <2>1. place \in Places
      BY Zenon DEF Places
    <2> QED
      BY <2>1, GoToFacts, ZenonT(30)
  <1>2. /\ main_task' = main_task /\ state'[c] = s /\ parent_pid'[c] = 0
        /\ \A p \in Pid \ {c} :
              /\ state'[p] = state[p] /\ parent_pid'[p] = parent_pid[p] /\ pgid'[p] = pgid[p]
              /\ sid'[p] = sid[p] /\ pending'[p] = pending[p]
    BY <1>0, Zenon DEF SlotSet
  <1>3. TypeOK'
    <2>1. /\ state' \in [Pid -> PStates]
          /\ parent_pid' \in [Pid -> 0..(Size - 1)] /\ pgid' \in [Pid -> 0..(Size - 1)]
          /\ sid' \in [Pid -> 0..(Size - 1)] /\ has_execed' \in [Pid -> BOOLEAN]
          /\ pending' \in [Pid -> SUBSET AllSignals]
          /\ blocked' \in [Pid -> SUBSET (AllSignals \ {SIGKILL})]
          /\ handler' \in [Pid -> [AllSignals -> {"DFL", "IGN", "HANDLER"}]]
          /\ stop_reported' \in [Pid -> BOOLEAN] /\ resumed' \in [Pid -> BOOLEAN]
      BY <1>0, Zenon DEF SlotSet
    <2> QED
      BY <1>1, <1>2, <2>1, Zenon DEF Inv, TypeOK, PStates
  <1>4. c # init /\ init \in Pid
    BY PidFacts, Zenon DEF Inv, InitInv
  <1>5. /\ pc[t] \notin ExitPlaces /\ pc[t] \notin NotifyPlaces
        /\ pc'[t] \notin ExitPlaces /\ pc'[t] \notin NotifyPlaces /\ pc'[t] # "exit"
    BY <1>1, Zenon DEF ExitPlaces, NotifyPlaces
  <1>6. TaskInv'
    <2>1. TaskInv
      BY Zenon DEF Inv
    <2>2. /\ \A p \in Pid : main_task'[p] # NoTask => tpid'[main_task'[p]] = p
          /\ \A u \in Task : tpid'[u] # 0 => main_task'[tpid'[u]] = u
      BY <1>2, <2>1, Zenon DEF TaskInv
    <2>3. \A u \in Task : tpid'[u] = 0 <=> tstate'[u] = "FREE" \/ pc'[u] \in NotifyPlaces
      BY <1>1, <1>5, <2>1, Zenon DEF TaskInv
    <2>4. /\ \A u \in Task : tstate'[u] \in {"FREE", "STOPPED"} => pc'[u] = "user"
          /\ \A u \in Task : tstate'[u] = "BLOCKED" => pc'[u] \in {"wait", "sleep", "asleep"}
      BY <1>1, <2>1, Zenon DEF TaskInv
    <2> QED
      BY <2>2, <2>3, <2>4, Zenon DEF TaskInv
  <1>7. StateInv'
    <2>1. ASSUME NEW p \in Pid, main_task[p] # NoTask
          PROVE  state'[p] = IF pc'[main_task[p]] \in ExitPlaces THEN "DEAD" ELSE "RUNNING"
      <3>1. /\ state[p] = IF pc[main_task[p]] \in ExitPlaces THEN "DEAD" ELSE "RUNNING"
            /\ main_task[p] \in Task /\ p # c
        BY <2>1, Zenon DEF Inv, StateInv, TypeOK
      <3>2. pc'[main_task[p]] \in ExitPlaces <=> pc[main_task[p]] \in ExitPlaces
        BY <1>1, <1>5, <3>1, Zenon
      <3> QED
        BY <1>2, <3>1, <3>2, Zenon
    <2> QED
      BY <1>2, <2>1, Zenon DEF StateInv
  <1>8. ForkInv'
    <2>1. ASSUME NEW u \in Task, NEW d, d = arg'[u][1], pc'[u] \in ForkPlaces
          PROVE  /\ d \in Pid /\ state'[d] = "RUNNING" /\ main_task[d] = NoTask
                 /\ u # t => d # c /\ pc[u] \in ForkPlaces /\ d = arg[u][1]
                 /\ u = t => d = c
      <3>1. CASE u = t
        BY <1>1, <1>2, <2>1, <3>1, Zenon DEF ForkPlaces
      <3>2. CASE u # t
        <4>1. pc[u] \in ForkPlaces /\ d = arg[u][1] /\ d # c
          BY <1>1, <2>1, <3>2, Zenon
        <4>2. d \in Pid /\ state[d] = "RUNNING" /\ main_task[d] = NoTask
          BY <4>1, Zenon DEF Inv, ForkInv
        <4> QED
          BY <1>2, <3>2, <4>1, <4>2, Zenon
      <3> QED
        BY <3>1, <3>2, Zenon
    <2>2. ASSUME NEW u \in Task, NEW v \in Task, pc'[u] \in ForkPlaces, pc'[v] \in ForkPlaces,
                 arg'[v][1] = arg'[u][1]
          PROVE  v = u
      <3>1. u = t <=> v = t
        BY <2>1, <2>2, Zenon
      <3>2. u # t => pc[u] \in ForkPlaces /\ pc[v] \in ForkPlaces /\ arg[v][1] = arg[u][1]
        BY <2>1, <2>2, <3>1, Zenon
      <3> QED
        BY <3>1, <3>2, Zenon DEF Inv, ForkInv
    <2> QED
      BY <1>2, <2>1, <2>2, ZenonT(30) DEF ForkInv
  <1>9. ArgInv'
    <2>1. ASSUME NEW u \in Task \ {t} PROVE ArgOK(u)'
      <3>1. pc'[u] = pc[u] /\ arg'[u] = arg[u] /\ ArgOK(u)
        BY <1>1, Zenon DEF Inv, ArgInv
      <3> QED
        BY <3>1, Zenon DEF ArgOK
    <2>2. ArgOK(t)'
      BY <1>1, <1>5, Zenon DEF ArgOK, NotifyPlaces
    <2> QED
      BY <1>1, <2>1, <2>2, Zenon DEF ArgInv
  <1>10. InitInv'
    <2>1. \A u \in Task : tpid[u] = init => pc'[u] \notin ExitPlaces \cup {"exit"}
      BY <1>1, <1>5, Zenon DEF Inv, InitInv
    <2> QED
      BY <1>2, <1>4, <2>1, Zenon DEF Inv, InitInv
  <1>11. ParentInv'
    <2>1. ASSUME NEW p \in Pid, state'[p] # "EMPTY", parent_pid'[p] # 0
          PROVE  /\ main_task[parent_pid'[p]] # NoTask /\ parent_pid'[p] # p
                 /\ pc'[main_task[parent_pid'[p]]] # "reparented"
      <3>1. p # c /\ parent_pid'[p] = parent_pid[p] /\ state[p] # "EMPTY"
        BY <1>2, <2>1, Zenon
      <3>2. /\ main_task[parent_pid[p]] # NoTask /\ parent_pid[p] # p
            /\ pc[main_task[parent_pid[p]]] # "reparented"
        BY <2>1, <3>1, Zenon DEF Inv, ParentInv
      <3>3. parent_pid[p] \in Pid
        BY <2>1, <3>1, PidFacts, Zenon DEF Inv, TypeOK
      <3>4. main_task[parent_pid[p]] \in Task
        BY <3>2, <3>3, Zenon DEF Inv, TypeOK
      <3>5. pc'[main_task[parent_pid[p]]] # "reparented"
        BY <1>1, <1>5, <3>2, <3>4, Zenon DEF ExitPlaces
      <3> QED
        BY <3>1, <3>2, <3>5, Zenon
    <2> QED
      BY <1>2, <2>1, Zenon DEF ParentInv
  <1> QED
    BY <1>3, <1>6, <1>7, <1>8, <1>9, <1>10, <1>11, Zenon DEF Inv

LEMMA ClaimInv ==
    ASSUME Inv, NEW t \in Task, process_claim_slot(t)
    PROVE  Inv'
  <1>1. PICK c \in Pid : state[c] = "EMPTY" /\ SetSlot(c, "RUNNING") /\ GoTo(t, "claimed", <<c>>)
    BY Zenon DEF process_claim_slot
  <1>2. tstate[t] = "ACTIVE" /\ pc[t] = "user" /\ UNCHANGED <<tstate, tpid, sends>>
    BY Zenon DEF process_claim_slot, At
  <1>3. main_task[c] = NoTask
    BY <1>1, Zenon DEF Inv, StateInv
  <1>4. \A u \in Task : pc[u] \in ForkPlaces => arg[u][1] # c
    BY <1>1, Zenon DEF Inv, ForkInv
  <1>5. <<c>>[1] = c /\ "RUNNING" \in PStates
    BY DEF PStates
  <1> QED
    BY <1>1, <1>2, <1>3, <1>4, <1>5, SlotStep, Zenon

LEMMA ReleaseInv ==
    ASSUME Inv, NEW t \in Task, process_release_slot(t)
    PROVE  Inv'
  <1>1. /\ tstate[t] = "ACTIVE" /\ pc[t] \in {"claimed", "copied"} /\ UNCHANGED <<tstate, tpid, sends>>
        /\ SetSlot(arg[t][1], "EMPTY") /\ GoTo(t, "user", <<>>)
    BY Zenon DEF process_release_slot, At, Return
  <1>2. /\ arg[t][1] \in Pid /\ main_task[arg[t][1]] = NoTask
        /\ \A u \in Task : pc[u] \in ForkPlaces /\ arg[u][1] = arg[t][1] => u = t
    BY <1>1, Zenon DEF ForkPlaces, Inv, ForkInv
  <1>3. "EMPTY" \in PStates /\ pc[t] \in {"user", "claimed", "copied", "wait"}
    BY <1>1, Zenon DEF PStates
  <1> QED
    BY <1>1, <1>2, <1>3, SlotStep, Zenon

LEMMA ReapInv ==
    ASSUME Inv, NEW t \in Task, NEW c \in Pid, Reap(t, c)
    PROVE  Inv'
  <1>1. /\ tstate[t] = "ACTIVE" /\ pc[t] = "wait" /\ UNCHANGED <<tstate, tpid, sends>>
        /\ state[c] = "ZOMBIE" /\ SetSlot(c, "EMPTY") /\ GoTo(t, "user", <<>>)
    BY Zenon DEF Reap, At, Return
  <1>2. main_task[c] = NoTask
    BY <1>1, Zenon DEF Inv, StateInv
  <1>3. \A u \in Task : pc[u] \in ForkPlaces => arg[u][1] # c
    BY <1>1, Zenon DEF Inv, ForkInv
  <1>4. "EMPTY" \in PStates
    BY Zenon DEF PStates
  <1> QED
    BY <1>1, <1>2, <1>3, <1>4, SlotStep, Zenon

(***************************************************************************)
(* The rest of fork.                                                       *)
(***************************************************************************)
LEMMA ForkFacts ==
    ASSUME Inv, NEW t \in Task, tstate[t] = "ACTIVE", pc[t] \in ForkPlaces
    PROVE  /\ tpid[t] \in Pid /\ main_task[tpid[t]] = t /\ arg[t][1] \in Pid
           /\ state[arg[t][1]] = "RUNNING" /\ main_task[arg[t][1]] = NoTask
           /\ arg[t][1] # tpid[t] /\ arg[t][1] # init
  <1>1. pc[t] \notin NotifyPlaces
    BY Zenon DEF ForkPlaces, NotifyPlaces
  <1>2. tpid[t] \in Pid /\ main_task[tpid[t]] = t
    BY <1>1, HasProcess, Zenon
  <1>3. arg[t][1] \in Pid /\ state[arg[t][1]] = "RUNNING" /\ main_task[arg[t][1]] = NoTask
    BY Zenon DEF Inv, ForkInv
  <1>4. arg[t][1] # tpid[t] /\ arg[t][1] # init
    BY <1>2, <1>3, PidFacts, Zenon DEF Inv, InitInv
  <1> QED
    BY <1>2, <1>3, <1>4, Zenon

LEMMA ForkNamesInv ==
    ASSUME Inv, NEW t \in Task, ForkNames(t)
    PROVE  Inv'
  <1> DEFINE c == arg[t][1]
  <1>1. /\ tstate[t] = "ACTIVE" /\ pc[t] = "claimed" /\ GoTo(t, "named", <<c>>)
        /\ parent_pid' = [parent_pid EXCEPT ![c] = tpid[t]]
        /\ pgid' = [pgid EXCEPT ![c] = pgid[tpid[t]]]
        /\ UNCHANGED <<state, sid, has_execed, main_task, pending, blocked, handler, stop_reported, resumed,
                       tstate, tpid, sends>>
    BY Zenon DEF ForkNames, At, sigVars
  <1>2. /\ tpid[t] \in Pid /\ main_task[tpid[t]] = t /\ c \in Pid /\ c # tpid[t] /\ c # init
    BY <1>1, ForkFacts, Zenon DEF ForkPlaces
  <1>3. /\ pc'[t] = "named" /\ arg'[t] = <<c>> /\ pc' \in [Task -> Places] /\ arg' = [u \in Task |-> arg'[u]]
        /\ \A u \in Task \ {t} : pc'[u] = pc[u] /\ arg'[u] = arg[u]
    <2>1. "named" \in Places
      BY Zenon DEF Places
    <2> QED
      BY <1>1, <2>1, GoToFacts, Zenon
  <1>4. arg'[t][1] = arg[t][1]
    BY <1>3
  <1> HIDE DEF c
  <1>5. /\ parent_pid' \in [Pid -> 0..(Size - 1)] /\ pgid' \in [Pid -> 0..(Size - 1)]
        /\ parent_pid'[c] = tpid[t] /\ \A p \in Pid \ {c} : parent_pid'[p] = parent_pid[p]
        /\ pgid'[init] = pgid[init]
    <2>1. parent_pid \in [Pid -> 0..(Size - 1)] /\ pgid \in [Pid -> 0..(Size - 1)]
      BY Zenon DEF Inv, TypeOK
    <2> QED
      BY <1>1, <1>2, <2>1, PidFacts, Zenon
  <1>6. TypeOK'
    BY <1>1, <1>3, <1>5, Zenon DEF Inv, TypeOK
  <1>7. ParentInv'
    <2>1. ASSUME NEW p \in Pid, state[p] # "EMPTY", parent_pid'[p] # 0
          PROVE  /\ main_task[parent_pid'[p]] # NoTask /\ parent_pid'[p] # p
                 /\ pc'[main_task[parent_pid'[p]]] # "reparented"
      <3>1. CASE p = c
        <4>1. parent_pid'[p] = tpid[t] /\ main_task[parent_pid'[p]] = t /\ tpid[t] # p /\ t # NoTask
          BY <1>2, <1>5, <3>1, PidFacts, Zenon
        <4> QED
          BY <1>3, <4>1, Zenon
      <3>2. CASE p # c
        <4>1. parent_pid'[p] = parent_pid[p]
          BY <1>5, <3>2, Zenon
        <4>2. /\ main_task[parent_pid[p]] # NoTask /\ parent_pid[p] # p
              /\ pc[main_task[parent_pid[p]]] # "reparented" /\ parent_pid[p] \in Pid
          BY <2>1, <4>1, PidFacts, Zenon DEF Inv, ParentInv, TypeOK
        <4>3. main_task[parent_pid[p]] \in Task
          BY <4>2, Zenon DEF Inv, TypeOK
        <4>4. pc'[main_task[parent_pid[p]]] # "reparented"
          BY <1>3, <4>2, <4>3, Zenon
        <4> QED
          BY <4>1, <4>2, <4>4, Zenon
      <3> QED
        BY <3>1, <3>2, Zenon
    <2> QED
      BY <1>1, <2>1, Zenon DEF ParentInv
  <1>8. parent_pid'[init] = 0 /\ SIGKILL \notin pending'[init] /\ sid'[init] = sid[init]
    BY <1>1, <1>2, <1>5, PidFacts, Zenon DEF Inv, InitInv
  <1>9. Calm(t) /\ NearKind(t)
    BY <1>1, <1>3, <1>4, Zenon DEF Calm, AtMostWoken, SameKind, NearKind, ForkPlaces, ExitPlaces
  <1>10. Agrees(t)
    <2>1. tpid[t] # 0
      BY <1>2, PidFacts, Zenon
    <2> QED
      BY <1>1, <1>3, <2>1, Zenon DEF Agrees, NotifyPlaces
  <1>11. ArgOK(t)'
    BY <1>3, Zenon DEF ArgOK, NotifyPlaces
  <1> QED
    BY <1>1, <1>3, <1>5, <1>6, <1>7, <1>8, <1>9, <1>10, <1>11, LinkStep, Zenon

LEMMA ForkCopiesInv ==
    ASSUME Inv, NEW t \in Task, ForkCopies(t)
    PROVE  Inv'
  <1> DEFINE c == arg[t][1]
  <1>1. /\ tstate[t] = "ACTIVE" /\ pc[t] = "named" /\ GoTo(t, "copied", <<c>>)
        /\ sid' = [sid EXCEPT ![c] = sid[tpid[t]]]
        /\ has_execed' = [has_execed EXCEPT ![c] = FALSE]
        /\ handler' = [handler EXCEPT ![c] = handler[tpid[t]]]
        /\ pending' = [pending EXCEPT ![c] = {}]
        /\ blocked' = [blocked EXCEPT ![c] = blocked[tpid[t]]]
        /\ UNCHANGED <<state, parent_pid, pgid, main_task, stop_reported, resumed, tstate, tpid, sends>>
    BY Zenon DEF ForkCopies, At
  <1>2. tpid[t] \in Pid /\ c \in Pid /\ c # tpid[t] /\ c # init
    BY <1>1, ForkFacts, Zenon DEF ForkPlaces
  <1>3. /\ pc'[t] = "copied" /\ arg'[t] = <<c>> /\ pc' \in [Task -> Places] /\ arg' = [u \in Task |-> arg'[u]]
        /\ \A u \in Task \ {t} : pc'[u] = pc[u] /\ arg'[u] = arg[u]
    <2>1. "copied" \in Places
      BY Zenon DEF Places
    <2> QED
      BY <1>1, <2>1, GoToFacts, Zenon
  <1>4. arg'[t][1] = arg[t][1]
    BY <1>3
  <1> HIDE DEF c
  <1>5. sid' \in [Pid -> 0..(Size - 1)] /\ has_execed' \in [Pid -> BOOLEAN] /\ sid'[init] = sid[init]
    BY <1>1, <1>2, PidFacts, Zenon DEF Inv, TypeOK
  <1>6. /\ handler' \in [Pid -> [AllSignals -> {"DFL", "IGN", "HANDLER"}]]
        /\ pending' \in [Pid -> SUBSET AllSignals] /\ pending'[init] = pending[init]
        /\ blocked' \in [Pid -> SUBSET (AllSignals \ {SIGKILL})]
    BY <1>1, <1>2, PidFacts, Zenon DEF Inv, TypeOK
  <1>7. TypeOK'
    BY <1>1, <1>3, <1>5, <1>6, Zenon DEF Inv, TypeOK
  <1>8. SIGKILL \notin pending'[init]
    BY <1>6, Zenon DEF Inv, InitInv
  <1>9. Calm(t) /\ SameKind(t) /\ (pc'[t] \in NotifyPlaces <=> pc[t] \in NotifyPlaces)
    BY <1>1, <1>3, <1>4, Zenon DEF Calm, AtMostWoken, SameKind, NearKind, ForkPlaces, ExitPlaces, NotifyPlaces
  <1>10. ArgOK(t)'
    BY <1>3, Zenon DEF ArgOK, NotifyPlaces
  <1> QED
    BY <1>1, <1>3, <1>5, <1>7, <1>8, <1>9, <1>10, QuietStep, Zenon

\* The child's slot and its task begin to name each other.
LEMMA StartTaskInv ==
    ASSUME Inv, NEW t \in Task, NEW u \in Task, process_start_task(t, u)
    PROVE  Inv'
  <1> DEFINE c == arg[t][1]
  <1>1. /\ tstate[t] = "ACTIVE" /\ pc[t] = "copied" /\ tstate[u] = "FREE" /\ GoTo(t, "user", <<>>)
        /\ tstate' = [tstate EXCEPT ![u] = "ACTIVE"] /\ tpid' = [tpid EXCEPT ![u] = c]
        /\ main_task' = [main_task EXCEPT ![c] = u]
        /\ UNCHANGED <<state, parent_pid, pgid, sid, has_execed, pending, blocked, handler, stop_reported,
                       resumed, sends>>
    BY Zenon DEF process_start_task, At, Return, idVars, sigVars
  <1>2. /\ tpid[t] \in Pid /\ main_task[tpid[t]] = t /\ c \in Pid /\ c # tpid[t] /\ c # init
        /\ state[c] = "RUNNING" /\ main_task[c] = NoTask
    BY <1>1, ForkFacts, Zenon DEF ForkPlaces
  <1>3. /\ pc'[t] = "user" /\ pc' \in [Task -> Places] /\ arg' = [v \in Task |-> arg'[v]]
        /\ \A v \in Task \ {t} : pc'[v] = pc[v] /\ arg'[v] = arg[v]
    <2>1. "user" \in Places
      BY Zenon DEF Places
    <2> QED
      BY <1>1, <2>1, GoToFacts, Zenon
  <1>4. u # t /\ pc[u] = "user" /\ tpid[u] = 0
    BY <1>1, Zenon DEF Inv, TaskInv
  <1>5. ASSUME NEW v \in Task, pc[v] \in ForkPlaces, v # t PROVE arg[v][1] # c
    BY <1>1, <1>5, Zenon DEF ForkPlaces, Inv, ForkInv
  <1> HIDE DEF c
  <1>6. /\ tstate' \in [Task -> TStates] /\ tstate'[u] = "ACTIVE" /\ \A v \in Task \ {u} : tstate'[v] = tstate[v]
        /\ tpid' \in [Task -> 0..(Size - 1)] /\ tpid'[u] = c /\ \A v \in Task \ {u} : tpid'[v] = tpid[v]
        /\ main_task' \in [Pid -> Task \cup {NoTask}] /\ main_task'[c] = u
        /\ \A p \in Pid \ {c} : main_task'[p] = main_task[p]
    <2>1. /\ tstate \in [Task -> TStates] /\ tpid \in [Task -> 0..(Size - 1)]
          /\ main_task \in [Pid -> Task \cup {NoTask}] /\ "ACTIVE" \in TStates /\ c \in 0..(Size - 1)
      BY <1>2, PidFacts, Zenon DEF Inv, TypeOK, TStates
    <2> QED
      BY <1>1, <1>2, <2>1, Zenon
  <1>7. TypeOK'
    BY <1>1, <1>3, <1>6, Zenon DEF Inv, TypeOK, TStates
  <1>8. TaskInv'
    <2>1. TaskInv
      BY Zenon DEF Inv
    <2>2. ASSUME NEW p \in Pid, main_task'[p] # NoTask PROVE tpid'[main_task'[p]] = p
      <3>1. CASE p = c
        BY <1>6, <3>1, Zenon
      <3>2. CASE p # c
        <4>1. main_task'[p] = main_task[p] /\ main_task[p] \in Task /\ tpid[main_task[p]] = p
          BY <1>6, <2>1, <2>2, <3>2, ZenonT(30) DEF TaskInv
        <4>2. main_task[p] # u
          BY <1>4, <4>1, PidFacts, Zenon
        <4> QED
          BY <1>6, <4>1, <4>2, Zenon
      <3> QED
        BY <3>1, <3>2, Zenon
    <2>3. ASSUME NEW v \in Task, tpid'[v] # 0 PROVE main_task'[tpid'[v]] = v
      <3>1. CASE v = u
        BY <1>6, <3>1, Zenon
      <3>2. CASE v # u
        <4>1. tpid'[v] = tpid[v] /\ main_task[tpid[v]] = v
          BY <1>6, <2>1, <2>3, <3>2, Zenon DEF TaskInv
        <4>2. tpid[v] \in Pid /\ tpid[v] # c
          BY <1>2, <2>3, <4>1, PidFacts, Zenon DEF Inv, TypeOK
        <4> QED
          BY <1>6, <4>1, <4>2, Zenon
      <3> QED
        BY <3>1, <3>2, Zenon
    <2>4. ASSUME NEW v \in Task PROVE tpid'[v] = 0 <=> tstate'[v] = "FREE" \/ pc'[v] \in NotifyPlaces
      <3>1. CASE v = u
        BY <1>2, <1>3, <1>4, <1>6, <3>1, PidFacts, Zenon DEF NotifyPlaces
      <3>2. CASE v = t
        BY <1>1, <1>2, <1>3, <1>4, <1>6, <3>2, PidFacts, Zenon DEF NotifyPlaces
      <3>3. CASE v # u /\ v # t
        BY <1>3, <1>6, <2>1, <3>3, ZenonT(30) DEF TaskInv
      <3> QED
        BY <3>1, <3>2, <3>3, Zenon
    <2>5. ASSUME NEW v \in Task
          PROVE  /\ tstate'[v] \in {"FREE", "STOPPED"} => pc'[v] = "user"
                 /\ tstate'[v] = "BLOCKED" => pc'[v] \in {"wait", "sleep", "asleep"}
      <3>1. CASE v = u
        BY <1>6, <3>1, Zenon
      <3>2. CASE v = t
        BY <1>1, <1>3, <1>4, <1>6, <3>2, Zenon
      <3>3. CASE v # u /\ v # t
        BY <1>3, <1>6, <2>1, <3>3, Zenon DEF TaskInv
      <3> QED
        BY <3>1, <3>2, <3>3, Zenon
    <2> QED
      BY <2>2, <2>3, <2>4, <2>5, Zenon DEF TaskInv
  <1>9. \A v \in Task : pc'[v] \in ExitPlaces <=> pc[v] \in ExitPlaces
    BY <1>1, <1>3, Zenon DEF ExitPlaces
  <1>10. StateInv'
    <2>1. ASSUME NEW p \in Pid, main_task'[p] # NoTask
          PROVE  state[p] = IF pc'[main_task'[p]] \in ExitPlaces THEN "DEAD" ELSE "RUNNING"
      <3>1. CASE p = c
        BY <1>2, <1>3, <1>4, <1>6, <3>1, ZenonT(30) DEF ExitPlaces
      <3>2. CASE p # c
        <4>1. /\ main_task'[p] = main_task[p] /\ main_task[p] \in Task
              /\ state[p] = IF pc[main_task[p]] \in ExitPlaces THEN "DEAD" ELSE "RUNNING"
          <5>1. main_task'[p] = main_task[p] /\ main_task[p] # NoTask
            BY <1>6, <2>1, <3>2, Zenon
          <5> QED
            BY <5>1, Zenon DEF Inv, StateInv, TypeOK
        <4> QED
          BY <1>9, <4>1, Zenon
      <3> QED
        BY <3>1, <3>2, Zenon
    <2> QED
      BY <1>1, <2>1, Zenon DEF StateInv
  <1>11. ForkInv'
    <2>1. ASSUME NEW v \in Task, pc'[v] \in ForkPlaces
          PROVE  v # t /\ pc[v] \in ForkPlaces /\ arg'[v] = arg[v] /\ arg[v][1] # c
      <3>1. v # t
        BY <1>3, <2>1, Zenon DEF ForkPlaces
      <3> QED
        BY <1>3, <1>5, <2>1, <3>1, Zenon
    <2>2. ASSUME NEW v \in Task, NEW d, d = arg'[v][1], pc'[v] \in ForkPlaces
          PROVE  d \in Pid /\ state[d] = "RUNNING" /\ main_task'[d] = NoTask
      <3>1. d \in Pid /\ state[d] = "RUNNING" /\ main_task[d] = NoTask /\ d # c
        BY <2>1, <2>2, Zenon DEF Inv, ForkInv
      <3> QED
        BY <1>6, <3>1, Zenon
    <2>3. ASSUME NEW v \in Task, NEW w \in Task, pc'[v] \in ForkPlaces, pc'[w] \in ForkPlaces,
                 arg'[w][1] = arg'[v][1]
          PROVE  w = v
      BY <2>1, <2>3, Zenon DEF Inv, ForkInv
    <2> QED
      BY <1>1, <2>2, <2>3, Zenon DEF ForkInv
  <1>12. ArgInv'
    <2>1. ASSUME NEW v \in Task \ {t} PROVE ArgOK(v)'
      <3>1. pc'[v] = pc[v] /\ arg'[v] = arg[v] /\ ArgOK(v)
        BY <1>3, Zenon DEF Inv, ArgInv
      <3> QED
        BY <3>1, Zenon DEF ArgOK
    <2>2. ArgOK(t)'
      BY <1>3, Zenon DEF ArgOK, NotifyPlaces
    <2> QED
      BY <1>3, <2>1, <2>2, Zenon DEF ArgInv
  <1>13. InitInv'
    <2>1. ASSUME NEW v \in Task, tpid'[v] = init PROVE pc'[v] \notin ExitPlaces \cup {"exit"}
      <3>1. v # u /\ tpid[v] = init
        BY <1>2, <1>6, <2>1, Zenon
      <3>2. pc[v] \notin ExitPlaces /\ pc[v] # "exit"
        BY <3>1, Zenon DEF Inv, InitInv
      <3>3. pc'[v] # "exit"
        BY <1>3, <3>2, Zenon
      <3> QED
        BY <1>9, <3>2, <3>3, Zenon
    <2>2. main_task'[init] = main_task[init]
      BY <1>2, <1>6, PidFacts, Zenon
    <2> QED
      BY <1>1, <2>1, <2>2, Zenon DEF Inv, InitInv
  <1>14. ParentInv'
    <2>1. ASSUME NEW p \in Pid, state[p] # "EMPTY", parent_pid[p] # 0
          PROVE  /\ main_task'[parent_pid[p]] # NoTask /\ parent_pid[p] # p
                 /\ pc'[main_task'[parent_pid[p]]] # "reparented"
      <3>1. /\ main_task[parent_pid[p]] # NoTask /\ parent_pid[p] # p /\ parent_pid[p] \in Pid
            /\ pc[main_task[parent_pid[p]]] # "reparented"
        BY <2>1, PidFacts, Zenon DEF Inv, ParentInv, TypeOK
      <3>2. main_task'[parent_pid[p]] = main_task[parent_pid[p]] /\ main_task[parent_pid[p]] \in Task
        <4>1. parent_pid[p] # c
          BY <1>2, <3>1, Zenon
        <4>2. main_task[parent_pid[p]] \in Task \cup {NoTask}
          BY <3>1, Zenon DEF Inv, TypeOK
        <4> QED
          BY <1>6, <3>1, <4>1, <4>2, Zenon
      <3>3. pc'[main_task[parent_pid[p]]] # "reparented"
        BY <1>3, <3>1, <3>2, Zenon
      <3> QED
        BY <3>1, <3>2, <3>3, Zenon
    <2> QED
      BY <1>1, <2>1, Zenon DEF ParentInv
  <1> QED
    BY <1>7, <1>8, <1>10, <1>11, <1>12, <1>13, <1>14, Zenon DEF Inv

(***************************************************************************)
(* process_exit.                                                           *)
(***************************************************************************)
\* t's process is no slot of a fork in progress, and t no other process's task.
LEMMA ExitFacts ==
    ASSUME Inv, NEW t \in Task, tpid[t] \in Pid
    PROVE  /\ main_task[tpid[t]] = t /\ t # NoTask
           /\ \A p \in Pid \ {tpid[t]} : main_task[p] # t
           /\ \A u \in Task : pc[u] \in ForkPlaces => arg[u][1] # tpid[t]
           /\ \A p \in Pid : parent_pid[p] # 0 => parent_pid[p] \in Pid
  <1>1. main_task[tpid[t]] = t /\ t # NoTask
    BY PidFacts, Zenon DEF Inv, TaskInv
  <1>2. \A p \in Pid \ {tpid[t]} : main_task[p] # t
    BY PidFacts, Zenon DEF Inv, TaskInv
  <1>3. \A u \in Task : pc[u] \in ForkPlaces => arg[u][1] # tpid[t]
    BY <1>1, Zenon DEF Inv, ForkInv
  <1>4. \A p \in Pid : parent_pid[p] # 0 => parent_pid[p] \in Pid
    BY PidFacts, Zenon DEF Inv, TypeOK
  <1> QED
    BY <1>1, <1>2, <1>3, <1>4, Zenon

LEMMA ExitInv ==
    ASSUME Inv, NEW t \in Task, Exit(t)
    PROVE  Inv'
  <1> DEFINE p == tpid[t]
  <1>1. /\ tstate[t] = "ACTIVE" /\ pc[t] \in {"user", "exit"} /\ (pc[t] = "user" => p # init)
        /\ state' = [state EXCEPT ![p] = "DEAD"] /\ GoTo(t, "dying", <<>>)
        /\ UNCHANGED <<parent_pid, pgid, sid, has_execed, main_task, pending, blocked, handler, stop_reported,
                       resumed, tstate, tpid, sends>>
    BY Zenon DEF Exit, At, idVars, sigVars
  <1>2. p \in Pid /\ p # init
    <2>1. pc[t] \notin NotifyPlaces
      BY <1>1, Zenon DEF NotifyPlaces
    <2>2. p # init
      BY <1>1, Zenon DEF Inv, InitInv
    <2> QED
      BY <1>1, <2>1, <2>2, HasProcess, Zenon
  <1>3. /\ pc'[t] = "dying" /\ pc' \in [Task -> Places] /\ arg' = [u \in Task |-> arg'[u]]
        /\ \A u \in Task \ {t} : pc'[u] = pc[u] /\ arg'[u] = arg[u]
    <2>1. "dying" \in Places
      BY Zenon DEF Places
    <2> QED
      BY <1>1, <2>1, GoToFacts, Zenon
  <1>4. /\ main_task[p] = t /\ \A q \in Pid \ {p} : main_task[q] # t
        /\ \A u \in Task : pc[u] \in ForkPlaces => arg[u][1] # p
    BY <1>2, ExitFacts, Zenon
  <1>5. state' \in [Pid -> PStates] /\ state'[p] = "DEAD" /\ \A q \in Pid \ {p} : state'[q] = state[q]
    BY <1>1, <1>2, Zenon DEF Inv, TypeOK, PStates
  <1>6. TypeOK'
    BY <1>1, <1>3, <1>5, Zenon DEF Inv, TypeOK, PStates
  <1> HIDE DEF p
  <1>7. TaskInv'
    <2>1. TaskInv
      BY Zenon DEF Inv
    <2>2. /\ \A q \in Pid : main_task'[q] # NoTask => tpid'[main_task'[q]] = q
          /\ \A u \in Task : tpid'[u] # 0 => main_task'[tpid'[u]] = u
      BY <1>1, <2>1, Zenon DEF TaskInv
    <2>3. \A u \in Task : tpid'[u] = 0 <=> tstate'[u] = "FREE" \/ pc'[u] \in NotifyPlaces
      <3>1. tpid[t] # 0
        BY <1>2, PidFacts, Zenon DEF p
      <3> QED
        BY <1>1, <1>3, <2>1, <3>1, Zenon DEF TaskInv, NotifyPlaces
    <2>4. /\ \A u \in Task : tstate'[u] \in {"FREE", "STOPPED"} => pc'[u] = "user"
          /\ \A u \in Task : tstate'[u] = "BLOCKED" => pc'[u] \in {"wait", "sleep", "asleep"}
      BY <1>1, <1>3, <2>1, Zenon DEF TaskInv
    <2> QED
      BY <2>2, <2>3, <2>4, Zenon DEF TaskInv
  <1>8. StateInv'
    <2>1. ASSUME NEW q \in Pid, main_task[q] # NoTask
          PROVE  state'[q] = IF pc'[main_task[q]] \in ExitPlaces THEN "DEAD" ELSE "RUNNING"
      <3>1. CASE q = p
        BY <1>3, <1>4, <1>5, <3>1, Zenon DEF ExitPlaces
      <3>2. CASE q # p
        <4>1. /\ state[q] = IF pc[main_task[q]] \in ExitPlaces THEN "DEAD" ELSE "RUNNING"
              /\ main_task[q] \in Task /\ main_task[q] # t
          BY <1>4, <2>1, <3>2, Zenon DEF Inv, StateInv, TypeOK
        <4>2. pc'[main_task[q]] = pc[main_task[q]] /\ state'[q] = state[q]
          BY <1>3, <1>5, <3>2, <4>1, Zenon
        <4> QED
          BY <4>1, <4>2, Zenon
      <3> QED
        BY <3>1, <3>2, Zenon
    <2> QED
      BY <1>1, <2>1, Zenon DEF StateInv
  <1>9. ForkInv'
    <2>1. ASSUME NEW u \in Task, pc'[u] \in ForkPlaces
          PROVE  u # t /\ pc[u] \in ForkPlaces /\ arg'[u] = arg[u] /\ arg[u][1] # p
      <3>1. u # t
        BY <1>3, <2>1, Zenon DEF ForkPlaces
      <3> QED
        BY <1>3, <1>4, <2>1, <3>1, Zenon
    <2>2. ASSUME NEW u \in Task, NEW d, d = arg'[u][1], pc'[u] \in ForkPlaces
          PROVE  d \in Pid /\ state'[d] = "RUNNING" /\ main_task[d] = NoTask
      <3>1. d \in Pid /\ state[d] = "RUNNING" /\ main_task[d] = NoTask /\ d # p
        BY <2>1, <2>2, Zenon DEF Inv, ForkInv
      <3> QED
        BY <1>5, <3>1, Zenon
    <2>3. ASSUME NEW u \in Task, NEW v \in Task, pc'[u] \in ForkPlaces, pc'[v] \in ForkPlaces,
                 arg'[v][1] = arg'[u][1]
          PROVE  v = u
      BY <2>1, <2>3, Zenon DEF Inv, ForkInv
    <2> QED
      BY <1>1, <2>2, <2>3, Zenon DEF ForkInv
  <1>10. ArgInv'
    <2>1. ASSUME NEW u \in Task \ {t} PROVE ArgOK(u)'
      <3>1. pc'[u] = pc[u] /\ arg'[u] = arg[u] /\ ArgOK(u)
        BY <1>3, Zenon DEF Inv, ArgInv
      <3> QED
        BY <3>1, Zenon DEF ArgOK
    <2>2. ArgOK(t)'
      BY <1>3, Zenon DEF ArgOK, NotifyPlaces
    <2> QED
      BY <1>3, <2>1, <2>2, Zenon DEF ArgInv
  <1>11. InitInv'
    <2>1. ASSUME NEW u \in Task, tpid[u] = init PROVE pc'[u] \notin ExitPlaces \cup {"exit"}
      <3>1. u # t
        BY <1>2, <2>1, Zenon DEF p
      <3> QED
        BY <1>3, <2>1, <3>1, Zenon DEF Inv, InitInv
    <2> QED
      BY <1>1, <2>1, Zenon DEF Inv, InitInv
  <1>12. ParentInv'
    <2>1. ASSUME NEW q \in Pid, state'[q] # "EMPTY", parent_pid[q] # 0
          PROVE  /\ main_task[parent_pid[q]] # NoTask /\ parent_pid[q] # q
                 /\ pc'[main_task[parent_pid[q]]] # "reparented"
      <3>0. state[q] # "EMPTY"
        <4>1. state[p] # "EMPTY"
          BY <1>2, <1>4, PidFacts, Zenon DEF Inv, StateInv
        <4> QED
          BY <1>5, <2>1, <4>1, Zenon
      <3>1. /\ main_task[parent_pid[q]] # NoTask /\ parent_pid[q] # q
            /\ pc[main_task[parent_pid[q]]] # "reparented"
        BY <2>1, <3>0, Zenon DEF Inv, ParentInv
      <3>2. main_task[parent_pid[q]] \in Task
        BY <2>1, <3>1, PidFacts, Zenon DEF Inv, TypeOK
      <3>3. pc'[main_task[parent_pid[q]]] # "reparented"
        BY <1>3, <3>1, <3>2, Zenon
      <3> QED
        BY <3>1, <3>3, Zenon
    <2> QED
      BY <1>1, <2>1, Zenon DEF ParentInv
  <1> QED
    BY <1>6, <1>7, <1>8, <1>9, <1>10, <1>11, <1>12, Zenon DEF Inv

\* The children go to init, which is there, and is not the one that exits.
LEMMA ReparentFacts ==
    ASSUME Inv, NEW t \in Task, Reparent(t)
    PROVE  \E b \in BOOLEAN :
             /\ tstate[t] = "ACTIVE" /\ pc[t] = "dying" /\ tpid[t] \in Pid /\ tpid[t] # init
             /\ GoTo(t, "reparented", <<b>>)
             /\ ~b => \A c \in Pid : state[c] = "ZOMBIE" /\ parent_pid[c] = tpid[t] => c = tpid[t]
             /\ parent_pid' = [c \in Pid |->
                   IF c # tpid[t] /\ state[c] # "EMPTY" /\ parent_pid[c] = tpid[t] THEN init ELSE parent_pid[c]]
             /\ UNCHANGED <<state, pgid, sid, has_execed, main_task, pending, blocked, handler, stop_reported,
                            resumed, tstate, tpid, sends>>
  <1> DEFINE children == {c \in Pid \ {tpid[t]} : state[c] # "EMPTY" /\ parent_pid[c] = tpid[t]}
             b == \E c \in children : state[c] = "ZOMBIE"
  <1>1. /\ tstate[t] = "ACTIVE" /\ pc[t] = "dying" /\ GoTo(t, "reparented", <<b>>)
        /\ parent_pid' = [c \in Pid |-> IF c \in children THEN init ELSE parent_pid[c]]
        /\ UNCHANGED <<state, pgid, sid, has_execed, main_task, pending, blocked, handler, stop_reported,
                       resumed, tstate, tpid, sends>>
    BY Zenon DEF Reparent, At, sigVars
  <1>2. tpid[t] \in Pid
    BY <1>1, HasProcess, Zenon DEF NotifyPlaces
  <1>3. tpid[t] # init
    BY <1>1, Zenon DEF Inv, InitInv, ExitPlaces
  <1>4. parent_pid' = [c \in Pid |->
          IF c # tpid[t] /\ state[c] # "EMPTY" /\ parent_pid[c] = tpid[t] THEN init ELSE parent_pid[c]]
    BY <1>1
  <1>5. b \in BOOLEAN /\ (~b => \A c \in Pid : state[c] = "ZOMBIE" /\ parent_pid[c] = tpid[t] => c = tpid[t])
    BY Zenon
  <1> HIDE DEF b
  <1> QED
    BY <1>1, <1>2, <1>3, <1>4, <1>5, Zenon

LEMMA ReparentInv ==
    ASSUME Inv, NEW t \in Task, Reparent(t)
    PROVE  Inv'
  <1>1. PICK b \in BOOLEAN :
             /\ tstate[t] = "ACTIVE" /\ pc[t] = "dying" /\ tpid[t] \in Pid /\ tpid[t] # init
             /\ GoTo(t, "reparented", <<b>>)
             /\ parent_pid' = [c \in Pid |->
                   IF c # tpid[t] /\ state[c] # "EMPTY" /\ parent_pid[c] = tpid[t] THEN init ELSE parent_pid[c]]
             /\ UNCHANGED <<state, pgid, sid, has_execed, main_task, pending, blocked, handler, stop_reported,
                            resumed, tstate, tpid, sends>>
    BY ReparentFacts, Zenon
  <1>2. /\ pc'[t] = "reparented" /\ arg'[t] = <<b>> /\ pc' \in [Task -> Places] /\ arg' = [u \in Task |-> arg'[u]]
        /\ \A u \in Task \ {t} : pc'[u] = pc[u] /\ arg'[u] = arg[u]
    <2>1. "reparented" \in Places
      BY Zenon DEF Places
    <2> QED
      BY <1>1, <2>1, GoToFacts, Zenon
  <1>3. parent_pid' \in [Pid -> 0..(Size - 1)] /\ parent_pid'[init] = 0
    <2>1. parent_pid \in [Pid -> 0..(Size - 1)] /\ init \in Pid /\ init \in 0..(Size - 1) /\ 0 \notin Pid /\ parent_pid[init] = 0
      BY PidFacts, Zenon DEF Inv, TypeOK, InitInv
    <2>2. \A c \in Pid : parent_pid'[c] \in 0..(Size - 1)
      BY <1>1, <2>1, Zenon
    <2>3. parent_pid'[init] = 0
      BY <1>1, <2>1, Zenon
    <2> QED
      BY <1>1, <2>2, <2>3, Zenon
  <1>4. TypeOK'
    BY <1>1, <1>2, <1>3, Zenon DEF Inv, TypeOK
  <1>5. ParentInv'
    <2>1. ASSUME NEW q \in Pid, NEW r, r = parent_pid'[q], state[q] # "EMPTY", r # 0
          PROVE  main_task[r] # NoTask /\ r # q /\ pc'[main_task[r]] # "reparented"
      <3>1. main_task[tpid[t]] = t /\ \A p \in Pid \ {tpid[t]} : main_task[p] # t
        BY <1>1, ExitFacts, Zenon
      <3>2. CASE q # tpid[t] /\ parent_pid[q] = tpid[t]
        <4>1. r = init
          BY <1>1, <2>1, <3>2, Zenon
        <4>2. q # init
          BY <1>1, <3>2, PidFacts, Zenon DEF Inv, InitInv
        <4>3. main_task[init] # NoTask /\ main_task[init] \in Task /\ tpid[main_task[init]] = init
          <5>1. main_task[init] # NoTask /\ init \in Pid
            BY PidFacts, Zenon DEF Inv, InitInv
          <5> QED
            BY <5>1, TaskOf, Zenon
        <4>4. pc[main_task[init]] # "reparented" /\ main_task[init] # t
          BY <1>1, <4>3, Zenon DEF Inv, InitInv, ExitPlaces
        <4> QED
          BY <1>2, <4>1, <4>2, <4>3, <4>4, Zenon
      <3>3. CASE ~(q # tpid[t] /\ parent_pid[q] = tpid[t])
        <4>1. r = parent_pid[q]
          BY <1>1, <2>1, <3>3, Zenon
        <4>2. main_task[r] # NoTask /\ r # q /\ pc[main_task[r]] # "reparented" /\ r \in Pid
          BY <2>1, <4>1, PidFacts, Zenon DEF Inv, ParentInv, TypeOK
        <4>3. r # tpid[t]
          BY <3>3, <4>1, <4>2, Zenon
        <4>4. main_task[r] \in Task /\ main_task[r] # t
          BY <3>1, <4>2, <4>3, Zenon DEF Inv, TypeOK
        <4> QED
          BY <1>2, <4>2, <4>4, Zenon
      <3> QED
        BY <3>2, <3>3, Zenon
    <2> QED
      BY <1>1, <2>1, Zenon DEF ParentInv
  <1>6. SIGKILL \notin pending'[init]
    BY <1>1, Zenon DEF Inv, InitInv
  <1>7. Calm(t) /\ NearKind(t)
    BY <1>1, <1>2, Zenon DEF Calm, AtMostWoken, NearKind, ForkPlaces, ExitPlaces
  <1>8. Agrees(t)
    <2>1. tpid[t] # 0
      BY <1>1, PidFacts, Zenon
    <2> QED
      BY <1>1, <1>2, <2>1, Zenon DEF Agrees, NotifyPlaces
  <1>9. ArgOK(t)'
    <2>1. <<b>> \in {<<TRUE>>, <<FALSE>>}
      BY Zenon
    <2> QED
      BY <1>2, <2>1, Zenon DEF ArgOK, NotifyPlaces
  <1> QED
    BY <1>1, <1>2, <1>3, <1>4, <1>5, <1>6, <1>7, <1>8, <1>9, LinkStep, Zenon

\* Each element of two sequences is one of their concatenation.
LEMMA ConcatFacts ==
    ASSUME NEW a \in Seq(Pid), NEW b \in Seq(Pid), NEW p
    PROVE  /\ a \o b \in Seq(Pid)
           /\ a = <<p>> \/ b = <<p>> => \E i \in 1..Len(a \o b) : (a \o b)[i] = p
  <1>1. /\ a \o b \in Seq(Pid) /\ Len(a \o b) = Len(a) + Len(b)
        /\ \A i \in 1..(Len(a) + Len(b)) : (a \o b)[i] = IF i <= Len(a) THEN a[i] ELSE b[i - Len(a)]
    OBVIOUS
  <1>2. Len(a) \in Nat /\ Len(b) \in Nat
    OBVIOUS
  <1>3. ASSUME a = <<p>> PROVE \E i \in 1..Len(a \o b) : (a \o b)[i] = p
    <2>1. Len(a) = 1 /\ a[1] = p
      BY <1>3
    <2>2. 1 \in 1..(Len(a) + Len(b)) /\ 1 <= Len(a)
      BY <1>2, <2>1
    <2>3. (a \o b)[1] = a[1]
      BY <1>1, <2>2
    <2> QED
      BY <1>1, <2>1, <2>2, <2>3, Zenon
  <1>4. ASSUME b = <<p>> PROVE \E i \in 1..Len(a \o b) : (a \o b)[i] = p
    <2>1. Len(b) = 1 /\ b[1] = p
      BY <1>4
    <2>2. /\ Len(a) + 1 \in 1..(Len(a) + Len(b)) /\ ~(Len(a) + 1 <= Len(a))
          /\ b[Len(a) + 1 - Len(a)] = p
      BY <1>2, <2>1
    <2>3. (a \o b)[Len(a) + 1] = b[Len(a) + 1 - Len(a)]
      BY <1>1, <2>2
    <2> QED
      BY <1>1, <2>2, <2>3, Zenon
  <1> QED
    BY <1>1, <1>3, <1>4, Zenon

\* What the task of a zombie still has to do: tell the parent it had, and init of
\* zombies that init was given.
LEMMA ZombieFacts ==
    ASSUME Inv, NEW t \in Task, Zombie(t)
    PROVE  \E pids \in Seq(Pid) :
             /\ tstate[t] = "ACTIVE" /\ pc[t] = "reparented" /\ tpid[t] \in Pid /\ tpid[t] # init
             /\ state' = [state EXCEPT ![tpid[t]] = "ZOMBIE"]
             /\ main_task' = [main_task EXCEPT ![tpid[t]] = NoTask]
             /\ tpid' = [tpid EXCEPT ![t] = 0]
             /\ Notify(t, pids, "signal")
             /\ Running(parent_pid[tpid[t]]) => \E i \in 1..Len(pids) : pids[i] = parent_pid[tpid[t]]
             /\ arg[t] = <<TRUE>> => \E i \in 1..Len(pids) : pids[i] = init
             /\ UNCHANGED <<parent_pid, pgid, sid, has_execed, pending, blocked, handler, stop_reported,
                            resumed, sends>>
  <1> DEFINE parent == IF Running(parent_pid[tpid[t]]) THEN <<parent_pid[tpid[t]]>> ELSE <<>>
             orphans == IF arg[t][1] /\ tpid[t] # init THEN <<init>> ELSE <<>>
  <1>1. /\ tstate[t] = "ACTIVE" /\ pc[t] = "reparented"
        /\ state' = [state EXCEPT ![tpid[t]] = "ZOMBIE"]
        /\ main_task' = [main_task EXCEPT ![tpid[t]] = NoTask]
        /\ tpid' = [tpid EXCEPT ![t] = 0]
        /\ Notify(t, parent \o orphans, "signal")
        /\ UNCHANGED <<parent_pid, pgid, sid, has_execed, pending, blocked, handler, stop_reported,
                       resumed, sends>>
    BY Zenon DEF Zombie, At, idVars, sigVars
  <1>2. tpid[t] \in Pid /\ tpid[t] # init
    <2>1. tpid[t] \in Pid
      BY <1>1, HasProcess, Zenon DEF NotifyPlaces
    <2> QED
      BY <1>1, <2>1, Zenon DEF Inv, InitInv, ExitPlaces
  <1>3. parent \in Seq(Pid) /\ orphans \in Seq(Pid)
    <2>1. Running(parent_pid[tpid[t]]) => parent_pid[tpid[t]] \in Pid
      BY Zenon DEF Running
    <2> QED
      BY <2>1, PidFacts
  <1>4. Running(parent_pid[tpid[t]]) => parent = <<parent_pid[tpid[t]]>>
    BY Zenon
  <1>5. arg[t] = <<TRUE>> => orphans = <<init>>
    <2>1. arg[t] = <<TRUE>> => arg[t][1]
      OBVIOUS
    <2> QED
      BY <1>2, <2>1, Zenon
  <1> HIDE DEF parent, orphans
  <1>6. /\ parent \o orphans \in Seq(Pid)
        /\ Running(parent_pid[tpid[t]]) =>
              \E i \in 1..Len(parent \o orphans) : (parent \o orphans)[i] = parent_pid[tpid[t]]
        /\ arg[t] = <<TRUE>> => \E i \in 1..Len(parent \o orphans) : (parent \o orphans)[i] = init
    <2>1. \A p : /\ parent \o orphans \in Seq(Pid)
                 /\ parent = <<p>> \/ orphans = <<p>> =>
                       \E i \in 1..Len(parent \o orphans) : (parent \o orphans)[i] = p
      BY <1>3, ConcatFacts, Zenon
    <2> QED
      BY <1>4, <1>5, <2>1, Zenon
  <1> QED
    BY <1>1, <1>2, <1>6, Zenon

\* The zombie and its task no longer name each other; a zombie has no children.
LEMMA ZombieInv ==
    ASSUME Inv, NEW t \in Task, Zombie(t)
    PROVE  Inv'
  <1> DEFINE p == tpid[t]
  <1>1. PICK pids \in Seq(Pid) :
             /\ tstate[t] = "ACTIVE" /\ pc[t] = "reparented" /\ p \in Pid /\ p # init
             /\ state' = [state EXCEPT ![p] = "ZOMBIE"]
             /\ main_task' = [main_task EXCEPT ![p] = NoTask]
             /\ tpid' = [tpid EXCEPT ![t] = 0]
             /\ Notify(t, pids, "signal")
             /\ UNCHANGED <<parent_pid, pgid, sid, has_execed, pending, blocked, handler, stop_reported,
                            resumed, sends>>
    BY ZombieFacts, Zenon
  <1>2. /\ \/ tstate'[t] = "FREE" /\ pc'[t] = "user"
           \/ tstate'[t] = "ACTIVE" /\ pc'[t] = "signal" /\ arg'[t] = pids /\ pids # <<>>
        /\ tstate' \in [Task -> TStates] /\ pc' \in [Task -> Places] /\ arg' = [u \in Task |-> arg'[u]]
        /\ \A u \in Task \ {t} : tstate'[u] = tstate[u] /\ pc'[u] = pc[u] /\ arg'[u] = arg[u]
    <2>1. "user" \in Places /\ "signal" \in Places /\ "FREE" \in TStates /\ tstate \in [Task -> TStates]
      BY Zenon DEF Places, TStates, Inv, TypeOK
    <2>2. CASE pids = <<>>
      <3>1. tstate' = [tstate EXCEPT ![t] = "FREE"] /\ GoTo(t, "user", <<>>)
        BY <1>1, <2>2, Zenon DEF Notify, Return
      <3> QED
        BY <2>1, <3>1, GoToFacts, Zenon
    <2>3. CASE pids # <<>>
      <3>1. tstate' = tstate /\ GoTo(t, "signal", pids)
        BY <1>1, <2>3, Zenon DEF Notify
      <3> QED
        BY <1>1, <2>1, <2>3, <3>1, GoToFacts, Zenon
    <2> QED
      BY <2>2, <2>3, Zenon
  <1>3. /\ main_task[p] = t /\ \A q \in Pid \ {p} : main_task[q] # t
        /\ \A u \in Task : pc[u] \in ForkPlaces => arg[u][1] # p
        /\ \A q \in Pid : parent_pid[q] # 0 => parent_pid[q] \in Pid
    BY <1>1, ExitFacts, Zenon
  <1>4. /\ state' \in [Pid -> PStates] /\ state'[p] = "ZOMBIE" /\ \A q \in Pid \ {p} : state'[q] = state[q]
        /\ main_task' \in [Pid -> Task \cup {NoTask}] /\ main_task'[p] = NoTask
        /\ \A q \in Pid \ {p} : main_task'[q] = main_task[q]
    BY <1>1, Zenon DEF Inv, TypeOK, PStates
  <1>5. tpid' \in [Task -> 0..(Size - 1)] /\ tpid'[t] = 0 /\ \A u \in Task \ {t} : tpid'[u] = tpid[u]
    <2>1. 0 \in 0..(Size - 1)
      BY ProcessAssumption
    <2> QED
      BY <1>1, <2>1, Zenon DEF Inv, TypeOK
  <1>6. TypeOK'
    BY <1>1, <1>2, <1>4, <1>5, Zenon DEF Inv, TypeOK, PStates, TStates
  <1>7. \A u \in Task \ {t} : tpid[u] # p
    BY <1>1, <1>3, PidFacts, Zenon DEF Inv, TaskInv
  <1> HIDE DEF p
  <1>8. TaskInv'
    <2>1. TaskInv
      BY Zenon DEF Inv
    <2>2. ASSUME NEW q \in Pid, main_task'[q] # NoTask PROVE tpid'[main_task'[q]] = q
      <3>1. q # p /\ main_task'[q] = main_task[q]
        BY <1>4, <2>2, Zenon
      <3>2. main_task[q] \in Task /\ main_task[q] # t /\ tpid[main_task[q]] = q
        BY <1>3, <2>2, <3>1, TaskOf, Zenon
      <3> QED
        BY <1>5, <3>1, <3>2, Zenon
    <2>3. ASSUME NEW u \in Task, tpid'[u] # 0 PROVE main_task'[tpid'[u]] = u
      <3>1. u # t /\ tpid'[u] = tpid[u] /\ tpid[u] # p
        BY <1>5, <1>7, <2>3, Zenon
      <3>2. tpid[u] \in Pid /\ main_task[tpid[u]] = u
        BY <2>3, <3>1, PidOf, Zenon
      <3> QED
        BY <1>4, <3>1, <3>2, Zenon
    <2>4. \A u \in Task : tpid'[u] = 0 <=> tstate'[u] = "FREE" \/ pc'[u] \in NotifyPlaces
      BY <1>2, <1>5, <2>1, ZenonT(30) DEF TaskInv, NotifyPlaces
    <2>5. /\ \A u \in Task : tstate'[u] \in {"FREE", "STOPPED"} => pc'[u] = "user"
          /\ \A u \in Task : tstate'[u] = "BLOCKED" => pc'[u] \in {"wait", "sleep", "asleep"}
      BY <1>2, <2>1, Zenon DEF TaskInv
    <2> QED
      BY <2>2, <2>3, <2>4, <2>5, Zenon DEF TaskInv
  <1>9. StateInv'
    <2>1. ASSUME NEW q \in Pid, main_task'[q] # NoTask
          PROVE  state'[q] = IF pc'[main_task'[q]] \in ExitPlaces THEN "DEAD" ELSE "RUNNING"
      <3>1. q # p /\ main_task'[q] = main_task[q] /\ state'[q] = state[q]
        BY <1>4, <2>1, Zenon
      <3>2. /\ state[q] = IF pc[main_task[q]] \in ExitPlaces THEN "DEAD" ELSE "RUNNING"
            /\ main_task[q] \in Task /\ main_task[q] # t
        BY <1>3, <2>1, <3>1, Zenon DEF Inv, StateInv, TypeOK
      <3>3. pc'[main_task[q]] = pc[main_task[q]]
        BY <1>2, <3>2, Zenon
      <3> QED
        BY <3>1, <3>2, <3>3, Zenon
    <2> QED
      BY <2>1, Zenon DEF StateInv
  <1>10. ForkInv'
    <2>1. ASSUME NEW u \in Task, pc'[u] \in ForkPlaces
          PROVE  u # t /\ pc[u] \in ForkPlaces /\ arg'[u] = arg[u] /\ arg[u][1] # p
      <3>1. u # t
        BY <1>2, <2>1, Zenon DEF ForkPlaces
      <3> QED
        BY <1>2, <1>3, <2>1, <3>1, Zenon
    <2>2. ASSUME NEW u \in Task, NEW d, d = arg'[u][1], pc'[u] \in ForkPlaces
          PROVE  d \in Pid /\ state'[d] = "RUNNING" /\ main_task'[d] = NoTask
      <3>1. d \in Pid /\ state[d] = "RUNNING" /\ main_task[d] = NoTask /\ d # p
        BY <2>1, <2>2, Zenon DEF Inv, ForkInv
      <3> QED
        BY <1>4, <3>1, Zenon
    <2>3. ASSUME NEW u \in Task, NEW v \in Task, pc'[u] \in ForkPlaces, pc'[v] \in ForkPlaces,
                 arg'[v][1] = arg'[u][1]
          PROVE  v = u
      BY <2>1, <2>3, Zenon DEF Inv, ForkInv
    <2> QED
      BY <2>2, <2>3, Zenon DEF ForkInv
  <1>11. ArgInv'
    <2>1. ASSUME NEW u \in Task \ {t} PROVE ArgOK(u)'
      <3>1. pc'[u] = pc[u] /\ arg'[u] = arg[u] /\ ArgOK(u)
        BY <1>2, Zenon DEF Inv, ArgInv
      <3> QED
        BY <3>1, Zenon DEF ArgOK
    <2>2. ArgOK(t)'
      BY <1>2, Zenon DEF ArgOK, NotifyPlaces
    <2> QED
      BY <1>2, <2>1, <2>2, Zenon DEF ArgInv
  <1>12. InitInv'
    <2>1. ASSUME NEW u \in Task, tpid'[u] = init PROVE pc'[u] \notin ExitPlaces \cup {"exit"}
      <3>1. u # t /\ tpid[u] = init
        BY <1>5, <2>1, PidFacts, Zenon
      <3> QED
        BY <1>2, <3>1, Zenon DEF Inv, InitInv
    <2>2. main_task'[init] = main_task[init]
      BY <1>1, <1>4, PidFacts, Zenon
    <2> QED
      BY <1>1, <2>1, <2>2, Zenon DEF Inv, InitInv
  <1>13. ParentInv'
    <2>1. ASSUME NEW q \in Pid, state'[q] # "EMPTY", parent_pid[q] # 0
          PROVE  /\ main_task'[parent_pid[q]] # NoTask /\ parent_pid[q] # q
                 /\ pc'[main_task'[parent_pid[q]]] # "reparented"
      <3>1. state[q] # "EMPTY"
        <4>1. state[p] # "EMPTY"
          BY <1>1, <1>3, PidFacts, Zenon DEF Inv, StateInv
        <4> QED
          BY <1>4, <2>1, <4>1, Zenon
      <3>2. /\ main_task[parent_pid[q]] # NoTask /\ parent_pid[q] # q /\ parent_pid[q] \in Pid
            /\ pc[main_task[parent_pid[q]]] # "reparented"
        BY <1>3, <2>1, <3>1, Zenon DEF Inv, ParentInv
      <3>3. parent_pid[q] # p
        BY <1>1, <1>3, <3>2, Zenon
      <3>4. main_task[parent_pid[q]] \in Task /\ main_task[parent_pid[q]] # t
        BY <1>3, <3>2, <3>3, Zenon DEF Inv, TypeOK
      <3>5. main_task'[parent_pid[q]] = main_task[parent_pid[q]]
        BY <1>4, <3>2, <3>3, Zenon
      <3>6. pc'[main_task[parent_pid[q]]] # "reparented"
        BY <1>2, <3>2, <3>4, Zenon
      <3> QED
        BY <3>2, <3>5, <3>6, Zenon
    <2> QED
      BY <1>1, <2>1, Zenon DEF ParentInv
  <1> QED
    BY <1>6, <1>8, <1>9, <1>10, <1>11, <1>12, <1>13, Zenon DEF Inv

\* What is left of a list without its first element.
LEMMA TailFacts ==
    ASSUME NEW s \in Seq(Pid), s # <<>>, Len(s) # 1
    PROVE  /\ Tail(s) \in Seq(Pid) /\ Tail(s) # <<>>
           /\ \A i \in 1..Len(s) : s[i] = Head(s) \/ \E j \in 1..Len(Tail(s)) : Tail(s)[j] = s[i]
  <1>1. /\ Tail(s) \in Seq(Pid) /\ Len(Tail(s)) = Len(s) - 1
        /\ \A i \in 1..Len(Tail(s)) : Tail(s)[i] = s[i + 1]
    OBVIOUS
  <1>2. Len(s) \in Nat \ {0} /\ Len(<<>>) = 0
    OBVIOUS
  <1>3. Tail(s) # <<>>
    <2>1. Len(Tail(s)) # 0
      BY <1>1, <1>2
    <2> QED
      BY <1>2, <2>1, Zenon
  <1>4. s[1] = Head(s)
    OBVIOUS
  <1>5. ASSUME NEW i \in 1..Len(s), i # 1 PROVE \E j \in 1..Len(Tail(s)) : Tail(s)[j] = s[i]
    <2>1. i - 1 \in 1..Len(Tail(s)) /\ i - 1 + 1 = i
      BY <1>1, <1>2, <1>5
    <2>2. Tail(s)[i - 1] = s[i - 1 + 1]
      BY <1>1, <2>1, Zenon
    <2> QED
      BY <2>1, <2>2, Zenon
  <1> QED
    BY <1>1, <1>3, <1>4, <1>5, Zenon

\* The first process on the list is woken and struck off; the last one ends the task.
LEMMA NotifyFacts ==
    ASSUME Inv, NEW t \in Task, NotifyUnblock(t)
    PROVE  /\ tstate[t] = "ACTIVE" /\ pc[t] = "unblock" /\ tpid[t] = 0
           /\ \/ tstate'[t] = "FREE" /\ pc'[t] = "user"
              \/ tstate'[t] = "ACTIVE" /\ pc'[t] = "signal" /\ arg'[t] \in Seq(Pid) /\ arg'[t] # <<>>
           /\ tstate' \in [Task -> TStates] /\ pc' \in [Task -> Places] /\ arg' = [u \in Task |-> arg'[u]]
           /\ Calm(t)
           /\ \A i \in 1..Len(arg[t]) :
                 \/ arg[t][i] = Head(arg[t])
                 \/ pc'[t] = "signal" /\ \E j \in 1..Len(arg'[t]) : arg'[t][j] = arg[t][i]
           /\ Running(Head(arg[t])) =>
                 \A u \in Task : u = main_task[Head(arg[t])] => tstate'[u] # "BLOCKED"
           /\ UNCHANGED <<state, parent_pid, pgid, sid, has_execed, main_task, pending, blocked, handler,
                          stop_reported, resumed, tpid, sends>>
  <1> DEFINE ts == IF Running(Head(arg[t])) THEN Unblocked(tstate, main_task[Head(arg[t])]) ELSE tstate
  <1>1. /\ tstate[t] = "ACTIVE" /\ pc[t] = "unblock"
        /\ tstate' = IF Len(arg[t]) = 1 THEN [ts EXCEPT ![t] = "FREE"] ELSE ts
        /\ IF Len(arg[t]) = 1 THEN GoTo(t, "user", <<>>) ELSE GoTo(t, "signal", Tail(arg[t]))
        /\ UNCHANGED <<state, parent_pid, pgid, sid, has_execed, main_task, pending, blocked, handler,
                       stop_reported, resumed, tpid, sends>>
    BY Zenon DEF NotifyUnblock, At, Return, procVars, idVars, sigVars
  <1>2. tpid[t] = 0 /\ arg[t] \in Seq(Pid) /\ arg[t] # <<>>
    BY <1>1, Zenon DEF Inv, TaskInv, ArgInv, ArgOK, NotifyPlaces
  <1>3. /\ ts \in [Task -> TStates] /\ ts[t] = "ACTIVE"
        /\ \A u \in Task : ts[u] = tstate[u] \/ (tstate[u] = "BLOCKED" /\ ts[u] = "ACTIVE")
        /\ Running(Head(arg[t])) => \A u \in Task : u = main_task[Head(arg[t])] => ts[u] # "BLOCKED"
    <2>1. tstate \in [Task -> TStates]
      BY Zenon DEF Inv, TypeOK, TStates
    <2>2. CASE Running(Head(arg[t]))
      <3>1. main_task[Head(arg[t])] \in Task \cup {NoTask} /\ ts = Unblocked(tstate, main_task[Head(arg[t])])
        BY <2>2, Zenon DEF Running, Inv, TypeOK
      <3> HIDE DEF ts
      <3>2. /\ ts \in [Task -> TStates]
            /\ \A u \in Task : ts[u] = IF u = main_task[Head(arg[t])] /\ tstate[u] = "BLOCKED" THEN "ACTIVE"
                                       ELSE tstate[u]
        BY <2>1, <3>1, UnblockedFacts, Zenon
      <3> QED
        BY <1>1, <3>2, Zenon
    <2>3. CASE ~Running(Head(arg[t]))
      BY <1>1, <2>1, <2>3, Zenon
    <2> QED
      BY <2>2, <2>3, Zenon
  <1> HIDE DEF ts
  <1>4. "user" \in Places /\ "signal" \in Places /\ "FREE" \in TStates
    BY Zenon DEF Places, TStates
  <1>5. CASE Len(arg[t]) = 1
    <2>1. /\ tstate' = [ts EXCEPT ![t] = "FREE"] /\ GoTo(t, "user", <<>>)
      BY <1>1, <1>5, Zenon
    <2>2. /\ pc'[t] = "user" /\ pc' \in [Task -> Places] /\ arg' = [u \in Task |-> arg'[u]]
          /\ \A u \in Task \ {t} : pc'[u] = pc[u] /\ arg'[u] = arg[u]
      BY <1>4, <2>1, GoToFacts, Zenon
    <2>3. tstate' \in [Task -> TStates] /\ tstate'[t] = "FREE" /\ \A u \in Task \ {t} : tstate'[u] = ts[u]
      BY <1>3, <1>4, <2>1, Zenon
    <2>4. \A i \in 1..Len(arg[t]) : arg[t][i] = Head(arg[t])
      BY <1>2, <1>5
    <2>5. Calm(t)
      BY <1>3, <2>2, <2>3, Zenon DEF Calm, AtMostWoken
    <2>6. Running(Head(arg[t])) => \A u \in Task : u = main_task[Head(arg[t])] => tstate'[u] # "BLOCKED"
      BY <1>3, <2>3, Zenon
    <2> QED
      BY <1>1, <1>2, <2>2, <2>3, <2>4, <2>5, <2>6, Zenon
  <1>6. CASE Len(arg[t]) # 1
    <2>1. /\ tstate' = ts /\ GoTo(t, "signal", Tail(arg[t]))
      BY <1>1, <1>6, Zenon
    <2>2. /\ pc'[t] = "signal" /\ pc' \in [Task -> Places] /\ arg' = [u \in Task |-> arg'[u]]
          /\ arg'[t] = Tail(arg[t]) /\ \A u \in Task \ {t} : pc'[u] = pc[u] /\ arg'[u] = arg[u]
      BY <1>4, <2>1, GoToFacts, Zenon
    <2>3. /\ Tail(arg[t]) \in Seq(Pid) /\ Tail(arg[t]) # <<>>
          /\ \A i \in 1..Len(arg[t]) :
                arg[t][i] = Head(arg[t]) \/ \E j \in 1..Len(Tail(arg[t])) : Tail(arg[t])[j] = arg[t][i]
      BY <1>2, <1>6, TailFacts, Zenon
    <2>4. \A i \in 1..Len(arg[t]) :
             arg[t][i] = Head(arg[t]) \/ \E j \in 1..Len(arg'[t]) : arg'[t][j] = arg[t][i]
      BY <2>2, <2>3, Zenon
    <2>5. Calm(t)
      BY <1>3, <2>1, <2>2, Zenon DEF Calm, AtMostWoken
    <2> QED
      BY <1>1, <1>2, <1>3, <2>1, <2>2, <2>3, <2>4, <2>5, Zenon
  <1> QED
    BY <1>5, <1>6, Zenon

LEMMA NotifyUnblockInv ==
    ASSUME Inv, NEW t \in Task, NotifyUnblock(t)
    PROVE  Inv'
  <1>1. /\ tstate[t] = "ACTIVE" /\ pc[t] = "unblock" /\ tpid[t] = 0
        /\ \/ tstate'[t] = "FREE" /\ pc'[t] = "user"
           \/ tstate'[t] = "ACTIVE" /\ pc'[t] = "signal" /\ arg'[t] \in Seq(Pid) /\ arg'[t] # <<>>
        /\ tstate' \in [Task -> TStates] /\ pc' \in [Task -> Places] /\ arg' = [u \in Task |-> arg'[u]]
        /\ Calm(t)
        /\ UNCHANGED <<state, parent_pid, pgid, sid, has_execed, main_task, pending, blocked, handler,
                       stop_reported, resumed, tpid, sends>>
    BY NotifyFacts, Zenon
  <1>2. TypeOK'
    BY <1>1, Zenon DEF Inv, TypeOK, TStates
  <1>3. NearKind(t) /\ Agrees(t) /\ ArgOK(t)'
    BY <1>1, Zenon DEF NearKind, Agrees, ArgOK, ForkPlaces, ExitPlaces, NotifyPlaces
  <1>4. ParentInv'
    <2>1. \A u \in Task : pc'[u] = "reparented" => pc[u] = "reparented"
      BY <1>1, Zenon DEF Calm
    <2>2. \A p \in Pid : parent_pid[p] # 0 => main_task[parent_pid[p]] \in Task \cup {NoTask}
      BY PidFacts, Zenon DEF Inv, TypeOK
    <2> QED
      BY <1>1, <2>1, <2>2, Zenon DEF Inv, ParentInv
  <1>5. parent_pid'[init] = 0 /\ SIGKILL \notin pending'[init]
    BY <1>1, Zenon DEF Inv, InitInv
  <1> QED
    BY <1>1, <1>2, <1>3, <1>4, <1>5, LinkStep, Zenon

(***************************************************************************)
(* The invariant.                                                          *)
(***************************************************************************)
LEMMA InitialInv ==
    ASSUME Init
    PROVE  Inv
  <1>1. PICK t \in Task :
             /\ main_task = [p \in Pid |-> IF p = init THEN t ELSE NoTask]
             /\ tstate = [u \in Task |-> IF u = t THEN "ACTIVE" ELSE "FREE"]
             /\ tpid = [u \in Task |-> IF u = t THEN init ELSE 0]
    BY Zenon DEF Init
  <1>2. /\ state = [p \in Pid |-> IF p = init THEN "RUNNING" ELSE "EMPTY"]
        /\ parent_pid = [p \in Pid |-> 0]
        /\ pgid = [p \in Pid |-> IF p = init THEN init ELSE 0]
        /\ sid = [p \in Pid |-> IF p = init THEN init ELSE 0]
        /\ has_execed = [p \in Pid |-> FALSE] /\ pending = [p \in Pid |-> {}]
        /\ blocked = [p \in Pid |-> {}] /\ handler = [p \in Pid |-> NoHandlers]
        /\ stop_reported = [p \in Pid |-> FALSE] /\ resumed = [p \in Pid |-> TRUE]
        /\ pc = [u \in Task |-> "user"] /\ arg = [u \in Task |-> <<>>] /\ sends = 0
    BY Zenon DEF Init
  <1>3. init \in Pid /\ init # 0 /\ 0 \in 0..(Size - 1) /\ init \in 0..(Size - 1) /\ 0 \in 0..MaxSends
    BY ProcessAssumption DEF Pid, init
  <1>4. TypeOK
    <2>1. /\ state \in [Pid -> PStates] /\ parent_pid \in [Pid -> 0..(Size - 1)]
          /\ pgid \in [Pid -> 0..(Size - 1)] /\ sid \in [Pid -> 0..(Size - 1)]
          /\ has_execed \in [Pid -> BOOLEAN] /\ main_task \in [Pid -> Task \cup {NoTask}]
      BY <1>1, <1>2, <1>3, Zenon DEF PStates
    <2>2. /\ pending \in [Pid -> SUBSET AllSignals] /\ blocked \in [Pid -> SUBSET (AllSignals \ {SIGKILL})]
          /\ stop_reported \in [Pid -> BOOLEAN] /\ resumed \in [Pid -> BOOLEAN]
      BY <1>2, Zenon
    <2>3. handler \in [Pid -> [AllSignals -> {"DFL", "IGN", "HANDLER"}]]
      BY <1>2, Zenon DEF NoHandlers
    <2>4. /\ tstate \in [Task -> TStates] /\ tpid \in [Task -> 0..(Size - 1)] /\ pc \in [Task -> Places]
      BY <1>1, <1>2, <1>3, Zenon DEF TStates, Places
    <2> QED
      BY <1>2, <1>3, <2>1, <2>2, <2>3, <2>4, Zenon DEF TypeOK, PStates, TStates
  <1>5. TaskInv
    BY <1>1, <1>2, <1>3, PidFacts, Zenon DEF TaskInv, NotifyPlaces
  <1>6. StateInv
    BY <1>1, <1>2, PidFacts, Zenon DEF StateInv, ExitPlaces
  <1>7. ForkInv /\ ParentInv
    BY <1>2, Zenon DEF ForkInv, ParentInv, ForkPlaces
  <1>8. ArgInv
    BY <1>2, Zenon DEF ArgInv, ArgOK, NotifyPlaces
  <1>9. InitInv
    BY <1>1, <1>2, <1>3, PidFacts, Zenon DEF InitInv, ExitPlaces
  <1> QED
    BY <1>4, <1>5, <1>6, <1>7, <1>8, <1>9, Zenon DEF Inv

LEMMA NextInv ==
    ASSUME Inv, [Next]_vars
    PROVE  Inv'
  <1>1. CASE UNCHANGED vars
    <2>1. UNCHANGED <<state, parent_pid, pgid, sid, has_execed, main_task, pending, blocked, handler,
                      stop_reported, tstate, tpid, pc, arg, sends, resumed>>
      BY <1>1, Zenon DEF vars
    <2>2. TypeOK' /\ TaskInv'
      BY <2>1, Zenon DEF Inv, TypeOK, TaskInv
    <2>3. StateInv' /\ ForkInv' /\ ArgInv'
      BY <2>1, Zenon DEF Inv, StateInv, ForkInv, ArgInv, ArgOK
    <2>4. InitInv' /\ ParentInv'
      BY <2>1, Zenon DEF Inv, InitInv, ParentInv
    <2> QED
      BY <2>2, <2>3, <2>4, Zenon DEF Inv
  <1>2. ASSUME NEW t \in Task, KernelStep(t)
        PROVE  Inv'
    <2>1. CASE kill_send(t) \/ StopCancelled(t) \/ Stop(t) \/ SleepCheck(t) \/ SleepReturn(t)
      BY <2>1, KillSendInv, SleepInv, StopInv, Zenon
    <2>2. CASE process_release_slot(t) \/ ForkNames(t) \/ ForkCopies(t)
      BY <2>2, ReleaseInv, ForkNamesInv, ForkCopiesInv, Zenon
    <2>3. CASE \E u \in Task : process_start_task(t, u)
      BY <2>3, StartTaskInv, Zenon
    <2>4. CASE \E c \in Pid : Reap(t, c) \/ ReportStop(t, c)
      BY <2>4, ReapInv, ReportStopInv, Zenon
    <2>5. CASE WaitFails(t) \/ WaitBlock(t)
      BY <2>5, WaitInv, Zenon
    <2>6. CASE Exit(t) \/ Reparent(t) \/ Zombie(t)
      BY <2>6, ExitInv, ReparentInv, ZombieInv, Zenon
    <2>7. CASE NotifySignal(t) \/ NotifyUnblock(t)
      BY <2>7, NotifySignalInv, NotifyUnblockInv, Zenon
    <2> QED
      BY <1>2, <2>1, <2>2, <2>3, <2>4, <2>5, <2>6, <2>7, Zenon DEF KernelStep
  <1>3. ASSUME NEW t \in Task, ~KernelStep(t),
               \/ \E target \in Pid \cup {-g : g \in Pid}, sig \in Signals : kill_handler(t, target, sig)
               \/ \E h \in Handled : sigaction(t, h[1], h[2])
               \/ \E mask \in Masks : sigprocmask(t, mask)
               \/ \E target \in Pid, g \in Pid : setpgid(t, target, g)
               \/ setsid(t) \/ signal_deliver_one(t) \/ SleepBlock(t) \/ SleepExpires(t)
               \/ process_claim_slot(t) \/ process_exec(t)
               \/ \E w \in WaitFor : WaitCall(t, w)
               \/ Exit(t)
        PROVE  Inv'
    <2>1. CASE \E target \in Pid \cup {-g : g \in Pid}, sig \in Signals : kill_handler(t, target, sig)
      BY <2>1, KillInv, Zenon
    <2>2. CASE (\E h \in Handled : sigaction(t, h[1], h[2])) \/ \E mask \in Masks : sigprocmask(t, mask)
      BY <2>2, SigactionInv, SigprocmaskInv, Zenon
    <2>3. CASE (\E target \in Pid, g \in Pid : setpgid(t, target, g)) \/ setsid(t)
      BY <2>3, SetpgidInv, SetsidInv, Zenon
    <2>4. CASE signal_deliver_one(t) \/ SleepBlock(t) \/ SleepExpires(t)
      BY <2>4, DeliverInv, SleepInv, Zenon
    <2>5. CASE process_claim_slot(t) \/ process_exec(t) \/ Exit(t)
      BY <2>5, ClaimInv, ExecInv, ExitInv, Zenon
    <2>6. CASE \E w \in WaitFor : WaitCall(t, w)
      BY <2>6, WaitInv, Zenon
    <2> QED
      BY <1>3, <2>1, <2>2, <2>3, <2>4, <2>5, <2>6, Zenon
  <1> QED
    BY <1>1, <1>2, <1>3, Zenon DEF Next, Step

LEMMA Invariance == Spec => []Inv
  <1>1. Init => Inv
    BY InitialInv, Zenon
  <1>2. Inv /\ [Next]_vars => Inv'
    BY NextInv, Zenon
  <1> QED
    BY <1>1, <1>2, PTL DEF Spec

\* Every variable keeps its type, and SIGKILL is never blocked, whatever programs
\* fork, send, wait for and mask.
THEOREM TypeCorrect == Spec => []TypeOK
  <1>1. Inv => TypeOK
    BY Zenon DEF Inv
  <1> QED
    BY <1>1, Invariance, PTL

\* process_exit hands every child to init before its pid can be reused: the parent
\* of a process is alive, or about to do so.
THEOREM ParentsLive == Spec => []ParentLives
  <1>1. ASSUME Inv PROVE ParentLives
    <2>1. ASSUME NEW p \in Pid, state[p] # "EMPTY", parent_pid[p] # 0
          PROVE  Running(parent_pid[p]) \/ \E t \in Task : tpid[t] = parent_pid[p] /\ pc[t] = "dying"
      <3>1. /\ parent_pid[p] \in Pid /\ main_task[parent_pid[p]] # NoTask
            /\ pc[main_task[parent_pid[p]]] # "reparented"
        BY <1>1, <2>1, PidFacts, Zenon DEF Inv, TypeOK, ParentInv
      <3>2. main_task[parent_pid[p]] \in Task /\ tpid[main_task[parent_pid[p]]] = parent_pid[p]
        <4>1. main_task \in [Pid -> Task \cup {NoTask}]
          BY <1>1, Zenon DEF Inv, TypeOK
        <4>2. main_task[parent_pid[p]] \in Task
          BY <3>1, <4>1, Zenon
        <4> QED
          BY <1>1, <3>1, <4>2, Zenon DEF Inv, TaskInv
      <3>3. CASE pc[main_task[parent_pid[p]]] = "dying"
        BY <3>2, <3>3, Zenon
      <3>4. CASE pc[main_task[parent_pid[p]]] # "dying"
        <4>1. pc[main_task[parent_pid[p]]] \notin ExitPlaces
          BY <3>1, <3>4, Zenon DEF ExitPlaces
        <4>2. state[parent_pid[p]] = "RUNNING"
          BY <1>1, <3>1, <4>1, Zenon DEF Inv, StateInv
        <4> QED
          BY <3>1, <4>2, Zenon DEF Running
      <3> QED
        BY <3>3, <3>4, Zenon
    <2> QED
      BY <2>1, Zenon DEF ParentLives
  <1> QED
    BY <1>1, Invariance, PTL
=============================================================================
