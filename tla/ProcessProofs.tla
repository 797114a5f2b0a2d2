--------------------------- MODULE ProcessProofs ---------------------------
(***************************************************************************)
(* Signals, job control and waitpid, for any number of processes, tasks    *)
(* and signals sent.  Each theorem adds to the invariant of the process    *)
(* table what its own property needs.                                      *)
(***************************************************************************)
EXTENDS ProcessInv

(***************************************************************************)
(* What a step of t leaves alone, by the kind of step.                     *)
(***************************************************************************)
\* The other tasks stay where they are and are at most woken.
Others(t) ==
    \A u \in Task \ {t} : tpid'[u] = tpid[u] /\ pc'[u] = pc[u] /\ arg'[u] = arg[u] /\ AtMostWoken(u)

\* Steps that touch no signal.
QuietSteps(t) ==
    \/ \E target \in Pid \cup {-g : g \in Pid}, sig \in Signals : kill_handler(t, target, sig)
    \/ \E target \in Pid, g \in Pid : setpgid(t, target, g)
    \/ setsid(t)
    \/ StopCancelled(t) \/ Stop(t)
    \/ SleepBlock(t) \/ SleepCheck(t) \/ SleepExpires(t) \/ SleepReturn(t)
    \/ \E w \in WaitFor : WaitCall(t, w)
    \/ WaitFails(t) \/ WaitBlock(t)
    \/ \E c \in Pid : ReportStop(t, c)
    \/ ForkNames(t)
    \/ Exit(t) \/ Reparent(t) \/ Zombie(t) \/ NotifyUnblock(t)

\* Steps on the task's own signals.
OwnSteps(t) ==
    \/ \E h \in Handled : sigaction(t, h[1], h[2])
    \/ \E mask \in Masks : sigprocmask(t, mask)
    \/ signal_deliver_one(t) \/ process_exec(t)

\* Steps on the signals of a slot that has no task.
SlotSteps(t) ==
    \/ process_claim_slot(t) \/ process_release_slot(t) \/ ForkCopies(t)
    \/ \E c \in Pid : Reap(t, c)

LEMMA Steps ==
    ASSUME [Next]_vars
    PROVE  \/ UNCHANGED vars
           \/ \E t \in Task : \/ QuietSteps(t) \/ OwnSteps(t) \/ SlotSteps(t)
                              \/ kill_send(t) \/ NotifySignal(t)
                              \/ \E u \in Task : process_start_task(t, u)
  <1>1. ASSUME NEW t \in Task, KernelStep(t)
        PROVE  \/ QuietSteps(t) \/ OwnSteps(t) \/ SlotSteps(t) \/ kill_send(t) \/ NotifySignal(t)
               \/ \E u \in Task : process_start_task(t, u)
    BY <1>1, Zenon DEF KernelStep, QuietSteps, OwnSteps, SlotSteps
  <1> QED
    BY <1>1, Zenon DEF Next, Step, QuietSteps, OwnSteps, SlotSteps

LEMMA MoveFacts ==
    ASSUME Inv, NEW t \in Task, NEW place, NEW a, GoTo(t, place, a), tpid' = tpid,
           tstate' = tstate \/ \E s : tstate' = [tstate EXCEPT ![t] = s]
    PROVE  Others(t)
  <1>1. \A u \in Task \ {t} : tstate'[u] = tstate[u]
    <2>1. tstate \in [Task -> TStates]
      BY Zenon DEF Inv, TypeOK, TStates
    <2> QED
      BY <2>1, Zenon
  <1>2. \A u \in Task \ {t} : pc'[u] = pc[u] /\ arg'[u] = arg[u]
    BY GoToFacts, Zenon
  <1> QED
    BY <1>1, <1>2, Zenon DEF Others, AtMostWoken

LEMMA QuietFacts ==
    ASSUME Inv, NEW t \in Task, QuietSteps(t)
    PROVE  Others(t) /\ UNCHANGED <<pending, blocked, handler, resumed>>
  <1>t. tstate = tstate /\ pc = [pc EXCEPT ![t] = pc[t]] /\ arg = [arg EXCEPT ![t] = arg[t]]
    BY Zenon DEF Inv, TypeOK, ArgInv
  <1>1. CASE \E target \in Pid \cup {-g : g \in Pid}, sig \in Signals : kill_handler(t, target, sig)
    BY <1>1, MoveFacts, Zenon DEF kill_handler, procVars, sigVars
  <1>2. CASE (\E target \in Pid, g \in Pid : setpgid(t, target, g)) \/ setsid(t)
    BY <1>2, Zenon DEF setpgid, setsid, taskVars, sigVars, Others, AtMostWoken
  <1>3. CASE StopCancelled(t) \/ SleepReturn(t) \/ WaitFails(t)
    BY <1>3, MoveFacts, Zenon DEF StopCancelled, SleepReturn, WaitFails, Return, procVars, sigVars
  <1>4. CASE Stop(t)
    BY <1>4, StopFacts, Zenon DEF Calm, Others
  <1>5. CASE SleepBlock(t)
    BY <1>5, MoveFacts, Zenon DEF SleepBlock, procVars, sigVars
  <1>6. CASE SleepCheck(t)
    <2>1. CASE signal_pending(tpid[t])
      BY <1>6, <2>1, MoveFacts, Zenon DEF SleepCheck, Return, procVars, sigVars
    <2>2. CASE ~signal_pending(tpid[t])
      BY <1>6, <2>2, MoveFacts, Zenon DEF SleepCheck, procVars, sigVars
    <2> QED
      BY <2>1, <2>2, Zenon
  <1>7. CASE SleepExpires(t) \/ WaitBlock(t)
    <2>1. /\ GoTo(t, pc[t], arg[t]) /\ UNCHANGED <<procVars, tpid>>
          /\ \E s : tstate' = [tstate EXCEPT ![t] = s]
      BY <1>7, <1>t, Zenon DEF SleepExpires, WaitBlock, GoTo
    <2> QED
      BY <2>1, MoveFacts, Zenon DEF procVars, sigVars
  <1>8. CASE \E w \in WaitFor : WaitCall(t, w)
    BY <1>8, MoveFacts, Zenon DEF WaitCall, procVars, sigVars
  <1>9. CASE \E c \in Pid : ReportStop(t, c)
    BY <1>9, MoveFacts, Zenon DEF ReportStop, Return
  <1>10. CASE ForkNames(t)
    BY <1>10, MoveFacts, Zenon DEF ForkNames, sigVars
  <1>11. CASE Exit(t) \/ Reparent(t)
    BY <1>11, MoveFacts, Zenon DEF Exit, Reparent, sigVars
  <1>12. CASE Zombie(t)
    <2>1. PICK pids \in Seq(Pid) :
             /\ tpid' = [tpid EXCEPT ![t] = 0] /\ Notify(t, pids, "signal")
             /\ UNCHANGED <<pending, blocked, handler, resumed>>
      BY <1>12, ZombieFacts, Zenon
    <2>2. \A u \in Task \ {t} : tpid'[u] = tpid[u]
      BY <2>1, Zenon DEF Inv, TypeOK
    <2>3. \A u \in Task \ {t} : tstate'[u] = tstate[u]
      BY <2>1, Zenon DEF Notify, Inv, TypeOK
    <2>4. \A u \in Task \ {t} : pc'[u] = pc[u] /\ arg'[u] = arg[u]
      <3>1. \E place, a : GoTo(t, place, a)
        BY <2>1, Zenon DEF Notify, Return
      <3> QED
        BY <3>1, GoToFacts, Zenon
    <2> QED
      BY <2>1, <2>2, <2>3, <2>4, Zenon DEF Others, AtMostWoken
  <1>13. CASE NotifyUnblock(t)
    BY <1>13, NotifyFacts, Zenon DEF Calm, Others
  <1> QED
    BY <1>1, <1>2, <1>3, <1>4, <1>5, <1>6, <1>7, <1>8, <1>9, <1>10, <1>11, <1>12, <1>13, Zenon DEF QuietSteps

LEMMA OwnFacts ==
    ASSUME Inv, NEW t \in Task, OwnSteps(t)
    PROVE  /\ Others(t) /\ tpid[t] \in Pid /\ tstate[t] = "ACTIVE" /\ pc[t] = "user"
           /\ UNCHANGED <<state, parent_pid, main_task, stop_reported, resumed, tstate, tpid>>
           /\ \A p \in Pid : pending'[p] \subseteq pending[p]
           /\ \A p \in Pid \ {tpid[t]} :
                 pending'[p] = pending[p] /\ blocked'[p] = blocked[p] /\ handler'[p] = handler[p]
  <1>1. At(t, "user") /\ tstate[t] = "ACTIVE" /\ pc[t] = "user"
    BY Zenon DEF OwnSteps, sigaction, sigprocmask, signal_deliver_one, process_exec, At
  <1>2. tpid[t] \in Pid
    BY <1>1, HasProcess, Zenon DEF NotifyPlaces
  <1>t. /\ pending \in [Pid -> SUBSET AllSignals] /\ blocked \in [Pid -> SUBSET (AllSignals \ {SIGKILL})]
        /\ handler \in [Pid -> [AllSignals -> {"DFL", "IGN", "HANDLER"}]]
    BY Zenon DEF Inv, TypeOK
  <1>3. ASSUME NEW h \in Handled, sigaction(t, h[1], h[2])
        PROVE  /\ Others(t) /\ UNCHANGED <<state, parent_pid, main_task, stop_reported, resumed, tstate, tpid>>
               /\ \A p \in Pid : pending'[p] \subseteq pending[p]
               /\ \A p \in Pid \ {tpid[t]} :
                     pending'[p] = pending[p] /\ blocked'[p] = blocked[p] /\ handler'[p] = handler[p]
    <2>1. /\ handler' = [handler EXCEPT ![tpid[t]][h[1]] = h[2]]
          /\ pending' = [pending EXCEPT ![tpid[t]] = IF h[2] = "IGN" THEN @ \ {h[1]} ELSE @]
          /\ UNCHANGED <<state, parent_pid, main_task, stop_reported, resumed, tstate, tpid, pc, arg, blocked>>
      BY <1>3, Zenon DEF sigaction, idVars, taskVars
    <2>2. \A p \in Pid \ {tpid[t]} : pending'[p] = pending[p] /\ handler'[p] = handler[p]
      BY <1>2, <1>t, <2>1, Zenon
    <2>3. pending'[tpid[t]] \subseteq pending[tpid[t]]
      BY <1>2, <1>t, <2>1, Zenon
    <2> QED
      BY <2>1, <2>2, <2>3, Zenon DEF Others, AtMostWoken
  <1>4. ASSUME NEW mask \in Masks, sigprocmask(t, mask)
        PROVE  /\ Others(t) /\ UNCHANGED <<state, parent_pid, main_task, stop_reported, resumed, tstate, tpid>>
               /\ UNCHANGED <<pending, handler>> /\ \A p \in Pid \ {tpid[t]} : blocked'[p] = blocked[p]
    BY <1>2, <1>4, <1>t, Zenon DEF sigprocmask, idVars, taskVars, Others, AtMostWoken
  <1>5. ASSUME process_exec(t)
        PROVE  /\ Others(t) /\ UNCHANGED <<state, parent_pid, main_task, stop_reported, resumed, tstate, tpid>>
               /\ UNCHANGED <<pending, blocked>> /\ \A p \in Pid \ {tpid[t]} : handler'[p] = handler[p]
    BY <1>2, <1>5, <1>t, Zenon DEF process_exec, taskVars, Others, AtMostWoken
  <1>6. ASSUME signal_deliver_one(t)
        PROVE  /\ Others(t) /\ UNCHANGED <<state, parent_pid, main_task, stop_reported, resumed, tstate, tpid>>
               /\ \A p \in Pid : pending'[p] \subseteq pending[p]
               /\ \A p \in Pid \ {tpid[t]} : pending'[p] = pending[p]
               /\ UNCHANGED <<blocked, handler>>
    <2>1. PICK sig \in AllSignals :
             /\ pending' = [pending EXCEPT ![tpid[t]] = @ \ {sig}]
             /\ \/ GoTo(t, "stop", <<sig>>) \/ GoTo(t, "exit", <<>>) \/ GoTo(t, "user", <<>>)
             /\ UNCHANGED <<state, parent_pid, main_task, blocked, handler, stop_reported, resumed, tstate, tpid>>
      BY <1>6, DeliverFacts, Zenon
    <2>2. /\ pending'[tpid[t]] \subseteq pending[tpid[t]]
          /\ \A p \in Pid \ {tpid[t]} : pending'[p] = pending[p]
      BY <1>2, <1>t, <2>1, Zenon
    <2>3. Others(t)
      BY <2>1, MoveFacts, Zenon
    <2> QED
      BY <2>1, <2>2, <2>3, Zenon
  <1> QED
    BY <1>1, <1>2, <1>3, <1>4, <1>5, <1>6, Zenon DEF OwnSteps

\* A slot without a task changes, and nothing else.
LEMMA SlotsFacts ==
    ASSUME Inv, NEW t \in Task, SlotSteps(t)
    PROVE  /\ Others(t) /\ tstate[t] = "ACTIVE" /\ pc'[t] \in {"claimed", "copied", "user"}
           /\ UNCHANGED <<main_task, tstate, tpid>>
           /\ \E c \in Pid :
                 /\ main_task[c] = NoTask /\ pending'[c] = {}
                 /\ state'[c] # "ZOMBIE" /\ (parent_pid'[c] = 0 \/ state'[c] = "RUNNING")
                 /\ handler'[c] = NoHandlers \/ \E q \in Pid : handler'[c] = handler[q]
                 /\ \A p \in Pid \ {c} :
                       /\ state'[p] = state[p] /\ parent_pid'[p] = parent_pid[p]
                       /\ pending'[p] = pending[p] /\ blocked'[p] = blocked[p]
                       /\ handler'[p] = handler[p] /\ resumed'[p] = resumed[p]
                       /\ stop_reported'[p] = stop_reported[p]
  <1>1. ASSUME NEW c \in Pid, NEW s \in {"RUNNING", "EMPTY"}, SetSlot(c, s), main_task[c] = NoTask,
               tstate[t] = "ACTIVE", NEW place \in {"claimed", "user"}, NEW a, GoTo(t, place, a),
               UNCHANGED <<tstate, tpid>>
        PROVE  /\ Others(t) /\ pc'[t] \in {"claimed", "copied", "user"} /\ main_task' = main_task
               /\ pending'[c] = {} /\ state'[c] # "ZOMBIE" /\ parent_pid'[c] = 0 /\ handler'[c] = NoHandlers
               /\ \A p \in Pid \ {c} :
                     /\ state'[p] = state[p] /\ parent_pid'[p] = parent_pid[p]
                     /\ pending'[p] = pending[p] /\ blocked'[p] = blocked[p]
                     /\ handler'[p] = handler[p] /\ resumed'[p] = resumed[p]
                     /\ stop_reported'[p] = stop_reported[p]
    <2>1. s \in PStates
      BY Zenon DEF PStates
    <2>2. SlotSet(c, s)
      BY <1>1, <2>1, SlotFacts, Zenon
    <2>3. Others(t)
      BY <1>1, MoveFacts, Zenon
    <2>4. pc'[t] = place
      BY <1>1, GoToFacts, Zenon
    <2> QED
      BY <2>2, <2>3, <2>4, Zenon DEF SlotSet
  <1>2. CASE process_claim_slot(t)
    <2>1. PICK c \in Pid : state[c] = "EMPTY" /\ SetSlot(c, "RUNNING") /\ GoTo(t, "claimed", <<c>>)
      BY <1>2, Zenon DEF process_claim_slot
    <2>2. tstate[t] = "ACTIVE" /\ UNCHANGED <<tstate, tpid>>
      BY <1>2, Zenon DEF process_claim_slot, At
    <2>3. main_task[c] = NoTask
      BY <2>1, Zenon DEF Inv, StateInv
    <2> QED
      BY <1>1, <2>1, <2>2, <2>3, Zenon
  <1>3. CASE process_release_slot(t)
    <2>1. /\ tstate[t] = "ACTIVE" /\ pc[t] \in {"claimed", "copied"} /\ UNCHANGED <<tstate, tpid>>
          /\ SetSlot(arg[t][1], "EMPTY") /\ GoTo(t, "user", <<>>)
      BY <1>3, Zenon DEF process_release_slot, At, Return
    <2>2. arg[t][1] \in Pid /\ main_task[arg[t][1]] = NoTask
      BY <2>1, Zenon DEF ForkPlaces, Inv, ForkInv
    <2> QED
      BY <1>1, <2>1, <2>2, Zenon
  <1>4. CASE \E c \in Pid : Reap(t, c)
    <2>1. PICK c \in Pid : Reap(t, c)
      BY <1>4, Zenon
    <2>2. /\ tstate[t] = "ACTIVE" /\ UNCHANGED <<tstate, tpid>>
          /\ state[c] = "ZOMBIE" /\ SetSlot(c, "EMPTY") /\ GoTo(t, "user", <<>>)
      BY <2>1, Zenon DEF Reap, At, Return
    <2>3. main_task[c] = NoTask
      BY <2>2, Zenon DEF Inv, StateInv
    <2> QED
      BY <1>1, <2>2, <2>3, Zenon
  <1>5. CASE ForkCopies(t)
    <2> DEFINE c == arg[t][1]
    <2>1. /\ tstate[t] = "ACTIVE" /\ pc[t] = "named" /\ GoTo(t, "copied", <<c>>)
          /\ handler' = [handler EXCEPT ![c] = handler[tpid[t]]]
          /\ pending' = [pending EXCEPT ![c] = {}]
          /\ blocked' = [blocked EXCEPT ![c] = blocked[tpid[t]]]
          /\ UNCHANGED <<state, parent_pid, pgid, main_task, stop_reported, resumed, tstate, tpid>>
      BY <1>5, Zenon DEF ForkCopies, At
    <2>2. tpid[t] \in Pid /\ c \in Pid /\ state[c] = "RUNNING" /\ main_task[c] = NoTask
      BY <2>1, ForkFacts, Zenon DEF ForkPlaces
    <2>3. Others(t) /\ pc'[t] = "copied"
      BY <2>1, MoveFacts, GoToFacts, Zenon
    <2> HIDE DEF c
    <2>4. /\ handler'[c] = handler[tpid[t]] /\ pending'[c] = {}
          /\ \A p \in Pid \ {c} : pending'[p] = pending[p] /\ blocked'[p] = blocked[p] /\ handler'[p] = handler[p]
      BY <2>1, <2>2, Zenon DEF Inv, TypeOK
    <2> QED
      BY <2>1, <2>2, <2>3, <2>4, Zenon
  <1> QED
    BY <1>2, <1>3, <1>4, <1>5, Zenon DEF SlotSteps

\* t sends sig, which reaches the processes in S.
SendTo(t, S, sig) ==
    /\ Others(t) /\ tstate[t] = "ACTIVE" /\ tstate'[t] = "ACTIVE"
    /\ \/ pc[t] = "kill" /\ pc'[t] = "user"
       \/ pc[t] = "signal" /\ pc'[t] = "unblock" /\ arg'[t] = arg[t]
    /\ UNCHANGED <<state, parent_pid, main_task, blocked, handler, tpid>>
    /\ \A p \in Pid : pending'[p] = IF p \in S THEN Posted(p, sig) ELSE pending[p]
    /\ \A u \in Task : tpid[u] # 0 =>
          tstate'[u] = IF tpid[u] \in S THEN Woken(tpid[u], sig) ELSE tstate[u]
    /\ \A p \in Pid : resumed'[p] = IF p \notin S THEN resumed[p]
                                   ELSE IF sig \in StopSignals THEN FALSE
                                   ELSE IF sig = SIGCONT THEN TRUE ELSE resumed[p]
    /\ \A u \in Task : tpid[u] # 0 =>
          stop_reported'[tpid[u]] = stop_reported[tpid[u]] \/ tstate'[u] = "ACTIVE"

LEMMA SendToFacts ==
    ASSUME Inv, NEW t \in Task, kill_send(t) \/ NotifySignal(t)
    PROVE  \E S \in SUBSET Pid : \E sig \in AllSignals : SendTo(t, S, sig)
  <1>1. ASSUME NEW targets, NEW sig \in AllSignals, Send(targets, sig), tstate[t] = "ACTIVE",
               \/ pc[t] = "kill" /\ GoTo(t, "user", <<>>)
               \/ pc[t] = "signal" /\ GoTo(t, "unblock", arg[t]),
               UNCHANGED <<state, parent_pid, main_task, blocked, handler, tpid>>
        PROVE  \E S \in SUBSET Pid : SendTo(t, S, sig)
    <2> DEFINE S == {p \in Pid : p \in targets /\ Running(p)}
    <2>1. \A p : p \in S <=> p \in targets /\ Running(p)
      BY Zenon DEF Running
    <2>2. S \in SUBSET Pid
      BY Zenon
    <2> HIDE DEF S
    <2>3. /\ \A p \in Pid : pending'[p] = IF p \in targets /\ Running(p) THEN Posted(p, sig) ELSE pending[p]
          /\ \A u \in Task : tpid[u] # 0 =>
                tstate'[u] = IF tpid[u] \in targets /\ Running(tpid[u]) THEN Woken(tpid[u], sig) ELSE tstate[u]
          /\ \A u \in Task : AtMostWoken(u)
          /\ \A p \in Pid :
                resumed'[p] = IF ~(p \in targets /\ Running(p)) THEN resumed[p]
                              ELSE IF sig \in StopSignals THEN FALSE
                              ELSE IF sig = SIGCONT THEN TRUE ELSE resumed[p]
          /\ \A u \in Task : tpid[u] # 0 =>
                stop_reported'[tpid[u]] = stop_reported[tpid[u]] \/ tstate'[u] = "ACTIVE"
      BY <1>1, SendFacts, Zenon
    <2>4. \A p \in Pid : pending'[p] = IF p \in S THEN Posted(p, sig) ELSE pending[p]
      BY <2>1, <2>3, Zenon
    <2>5. \A u \in Task : tpid[u] # 0 =>
             tstate'[u] = IF tpid[u] \in S THEN Woken(tpid[u], sig) ELSE tstate[u]
      BY <2>1, <2>3, Zenon
    <2>6. \A p \in Pid : resumed'[p] = IF p \notin S THEN resumed[p]
                                      ELSE IF sig \in StopSignals THEN FALSE
                                      ELSE IF sig = SIGCONT THEN TRUE ELSE resumed[p]
      BY <2>1, <2>3, Zenon
    <2>7. /\ \A u \in Task \ {t} : pc'[u] = pc[u] /\ arg'[u] = arg[u]
          /\ \/ pc[t] = "kill" /\ pc'[t] = "user"
             \/ pc[t] = "signal" /\ pc'[t] = "unblock" /\ arg'[t] = arg[t]
      BY <1>1, GoToFacts, Zenon
    <2>8. Others(t) /\ tstate'[t] = "ACTIVE"
      BY <1>1, <2>3, <2>7, Zenon DEF Others, AtMostWoken
    <2> QED
      BY <1>1, <2>2, <2>3, <2>4, <2>5, <2>6, <2>7, <2>8, Zenon DEF SendTo
  <1>2. CASE kill_send(t)
    <2>1. /\ tstate[t] = "ACTIVE" /\ pc[t] = "kill" /\ GoTo(t, "user", <<>>)
          /\ \E targets : Send(targets, arg[t][2])
          /\ UNCHANGED <<state, parent_pid, main_task, blocked, handler, tpid>>
      BY <1>2, Zenon DEF kill_send, At, Return, idVars
    <2>2. arg[t][2] \in AllSignals
      BY <2>1, Zenon DEF Inv, ArgInv, ArgOK
    <2> QED
      BY <1>1, <2>1, <2>2, Zenon
  <1>3. CASE NotifySignal(t)
    <2>1. /\ tstate[t] = "ACTIVE" /\ pc[t] = "signal" /\ GoTo(t, "unblock", arg[t])
          /\ \E targets : Send(targets, SIGCHLD)
          /\ UNCHANGED <<state, parent_pid, main_task, blocked, handler, tpid>>
      BY <1>3, Zenon DEF NotifySignal, At, idVars
    <2> QED
      BY <1>1, <2>1, SignalFacts, Zenon
  <1> QED
    BY <1>2, <1>3, Zenon

LEMMA StartFacts ==
    ASSUME Inv, NEW t \in Task, NEW u \in Task, process_start_task(t, u)
    PROVE  /\ \A v \in Task \ {t, u} :
                 tpid'[v] = tpid[v] /\ pc'[v] = pc[v] /\ arg'[v] = arg[v] /\ tstate'[v] = tstate[v]
           /\ tpid'[t] = tpid[t] /\ tstate'[t] = "ACTIVE" /\ pc[t] = "copied" /\ pc'[t] = "user"
           /\ tstate'[u] = "ACTIVE" /\ pc[u] = "user" /\ pc'[u] = "user"
           /\ \A v \in Task : tpid[v] # arg[t][1]
           /\ \A p \in Pid \ {arg[t][1]} : main_task'[p] = main_task[p]
           /\ main_task'[arg[t][1]] = u /\ state[arg[t][1]] = "RUNNING"
           /\ UNCHANGED <<state, parent_pid, pending, blocked, handler, stop_reported, resumed>>
  <1>1. /\ tstate[t] = "ACTIVE" /\ pc[t] = "copied" /\ tstate[u] = "FREE" /\ GoTo(t, "user", <<>>)
        /\ tstate' = [tstate EXCEPT ![u] = "ACTIVE"] /\ tpid' = [tpid EXCEPT ![u] = arg[t][1]]
        /\ main_task' = [main_task EXCEPT ![arg[t][1]] = u]
        /\ UNCHANGED <<state, parent_pid, pending, blocked, handler, stop_reported, resumed>>
    BY Zenon DEF process_start_task, At, Return, idVars, sigVars
  <1>2. arg[t][1] \in Pid /\ state[arg[t][1]] = "RUNNING" /\ main_task[arg[t][1]] = NoTask
    BY <1>1, ForkFacts, Zenon DEF ForkPlaces
  <1>3. pc'[t] = "user" /\ \A v \in Task \ {t} : pc'[v] = pc[v] /\ arg'[v] = arg[v]
    BY <1>1, GoToFacts, Zenon
  <1>4. u # t /\ pc[u] = "user"
    BY <1>1, Zenon DEF Inv, TaskInv
  <1>5. ASSUME NEW v \in Task, tpid[v] = arg[t][1] PROVE FALSE
    <2>1. tpid[v] # 0 /\ v # NoTask
      BY <1>2, <1>5, PidFacts, Zenon
    <2> QED
      BY <1>2, <1>5, <2>1, Zenon DEF Inv, TaskInv
  <1>6. /\ tstate'[u] = "ACTIVE" /\ \A v \in Task \ {u} : tstate'[v] = tstate[v]
        /\ \A v \in Task \ {u} : tpid'[v] = tpid[v]
    BY <1>1, Zenon DEF Inv, TypeOK
  <1>7. main_task'[arg[t][1]] = u /\ \A p \in Pid \ {arg[t][1]} : main_task'[p] = main_task[p]
    BY <1>1, <1>2, Zenon DEF Inv, TypeOK
  <1> QED
    BY <1>1, <1>2, <1>3, <1>4, <1>5, <1>6, <1>7, Zenon

(***************************************************************************)
(* Signals get through.                                                    *)
(***************************************************************************)
Through(t) ==
    tpid[t] # 0 =>
        /\ tstate[t] = "BLOCKED" /\ pc[t] \in {"wait", "asleep"} => ~signal_pending(tpid[t])
        /\ tstate[t] = "STOPPED" => pending[tpid[t]] \cap {SIGCONT, SIGKILL} = {}
ThroughInv == \A t \in Task : Through(t)

\* A task whose process has no more signals and no smaller mask than before.
LEMMA ThroughKept ==
    ASSUME NEW u, Through(u), tpid'[u] = tpid[u], pc'[u] = pc[u], AtMostWoken(u),
           tpid[u] # 0 => pending'[tpid[u]] \subseteq pending[tpid[u]] /\ blocked'[tpid[u]] = blocked[tpid[u]]
    PROVE  Through(u)'
  <1>1. ASSUME tpid[u] # 0, tstate'[u] = "BLOCKED", pc'[u] \in {"wait", "asleep"}
        PROVE  ~signal_pending(tpid[u])'
    <2>1. tstate[u] = "BLOCKED"
      BY <1>1, Zenon DEF AtMostWoken
    <2>2. pending[tpid[u]] \ blocked[tpid[u]] = {}
      BY <1>1, <2>1, Zenon DEF Through, signal_pending
    <2>3. pending'[tpid'[u]] \ blocked'[tpid'[u]] = {}
      BY <1>1, <2>2, Zenon
    <2> QED
      BY <2>3, Zenon DEF signal_pending
  <1>2. ASSUME tpid[u] # 0, tstate'[u] = "STOPPED"
        PROVE  pending'[tpid[u]] \cap {SIGCONT, SIGKILL} = {}
    <2>1. tstate[u] = "STOPPED"
      BY <1>2, Zenon DEF AtMostWoken
    <2>2. pending[tpid[u]] \cap {SIGCONT, SIGKILL} = {}
      BY <1>2, <2>1, Zenon DEF Through
    <2> QED
      BY <1>2, <2>2, Zenon
  <1> QED
    BY <1>1, <1>2, Zenon DEF Through

LEMMA ThroughActive ==
    ASSUME NEW t, tstate'[t] \notin {"BLOCKED", "STOPPED"} \/ pc'[t] = "sleep", tstate'[t] # "STOPPED"
    PROVE  Through(t)'
  BY Zenon DEF Through

LEMMA QuietThrough ==
    ASSUME Inv, Inv', ThroughInv, NEW t \in Task, QuietSteps(t)
    PROVE  ThroughInv'
  <1>1. Others(t) /\ UNCHANGED <<pending, blocked, handler, resumed>>
    BY QuietFacts, Zenon
  <1>2. ASSUME NEW u \in Task \ {t} PROVE Through(u)'
    BY <1>1, ThroughKept, Zenon DEF Others, ThroughInv
  <1>3. CASE WaitBlock(t)
    <2>1. /\ ~signal_pending(tpid[t]) /\ tstate' = [tstate EXCEPT ![t] = "BLOCKED"] /\ tpid' = tpid
      BY <1>3, Zenon DEF WaitBlock
    <2>2. tstate'[t] = "BLOCKED"
      BY <2>1, Zenon DEF Inv, TypeOK
    <2>3. ~signal_pending(tpid[t])'
      BY <1>1, <2>1, Zenon DEF signal_pending
    <2> QED
      BY <1>2, <2>2, <2>3, Zenon DEF Through, ThroughInv
  <1>4. CASE SleepCheck(t)
    <2>0. tstate[t] # "STOPPED" /\ pc[t] = "sleep" /\ tpid' = tpid
      BY <1>4, Zenon DEF SleepCheck, Inv, TaskInv
    <2>1. CASE signal_pending(tpid[t])
      <3>1. tstate'[t] = "ACTIVE"
        BY <1>4, <2>1, Zenon DEF SleepCheck, Inv, TypeOK
      <3> QED
        BY <1>2, <3>1, ThroughActive, Zenon DEF ThroughInv
    <2>2. CASE ~signal_pending(tpid[t])
      <3>1. tstate'[t] # "STOPPED"
        BY <1>4, <2>0, <2>2, Zenon DEF SleepCheck
      <3>2. ~signal_pending(tpid[t])'
        BY <1>1, <2>0, <2>2, Zenon DEF signal_pending
      <3> QED
        BY <1>2, <3>1, <3>2, Zenon DEF Through, ThroughInv
    <2> QED
      BY <2>1, <2>2, Zenon
  <1>5. CASE Stop(t)
    <2>1. /\ pending[tpid[t]] \cap {SIGCONT, SIGKILL} = {} /\ tstate'[t] = "STOPPED" /\ tpid' = tpid
      BY <1>5, StopFacts, Zenon
    <2>2. pending'[tpid'[t]] \cap {SIGCONT, SIGKILL} = {}
      BY <1>1, <2>1, Zenon
    <2> QED
      BY <1>2, <2>1, <2>2, Zenon DEF Through, ThroughInv
  <1>6. CASE SleepBlock(t)
    <2>1. tstate' = [tstate EXCEPT ![t] = "BLOCKED"] /\ GoTo(t, "sleep", <<>>)
      BY <1>6, Zenon DEF SleepBlock
    <2>2. tstate'[t] = "BLOCKED" /\ pc'[t] = "sleep"
      BY <2>1, GoToFacts, Zenon DEF Inv, TypeOK
    <2> QED
      BY <1>2, <2>2, ThroughActive, Zenon DEF ThroughInv
  <1>7. CASE SleepExpires(t)
    <2>1. tstate'[t] = "ACTIVE"
      BY <1>7, Zenon DEF SleepExpires, Inv, TypeOK
    <2> QED
      BY <1>2, <2>1, ThroughActive, Zenon DEF ThroughInv
  <1>8. CASE NotifyUnblock(t)
    <2>1. tstate'[t] \notin {"BLOCKED", "STOPPED"}
      BY <1>8, NotifyFacts, Zenon
    <2> QED
      BY <1>2, <2>1, ThroughActive, Zenon DEF ThroughInv
  <1>9. CASE Zombie(t)
    <2>1. PICK pids \in Seq(Pid) : tstate[t] = "ACTIVE" /\ Notify(t, pids, "signal")
      BY <1>9, ZombieFacts, Zenon
    <2>2. tstate'[t] \notin {"BLOCKED", "STOPPED"}
      BY <2>1, Zenon DEF Notify, Inv, TypeOK
    <2> QED
      BY <1>2, <2>2, ThroughActive, Zenon DEF ThroughInv
  <1>10. ASSUME tstate[t] = "ACTIVE", tstate' = tstate PROVE ThroughInv'
    <2>1. tstate'[t] = "ACTIVE"
      BY <1>10, Zenon
    <2> QED
      BY <1>2, <2>1, ThroughActive, Zenon DEF ThroughInv
  <1>11. CASE \/ \E target \in Pid \cup {-g : g \in Pid}, sig \in Signals : kill_handler(t, target, sig)
              \/ \E target \in Pid, g \in Pid : setpgid(t, target, g)
              \/ setsid(t) \/ StopCancelled(t) \/ SleepReturn(t)
    BY <1>10, <1>11, Zenon DEF kill_handler, setpgid, setsid, StopCancelled, SleepReturn, At, taskVars
  <1>12. CASE \/ \E w \in WaitFor : WaitCall(t, w)
              \/ WaitFails(t) \/ \E c \in Pid : ReportStop(t, c)
    BY <1>10, <1>12, Zenon DEF WaitCall, WaitFails, ReportStop, At
  <1>13. CASE ForkNames(t) \/ Exit(t) \/ Reparent(t)
    BY <1>10, <1>13, Zenon DEF ForkNames, Exit, Reparent, At
  <1> QED
    BY <1>3, <1>4, <1>5, <1>6, <1>7, <1>8, <1>9, <1>11, <1>12, <1>13, Zenon DEF QuietSteps

LEMMA SendThrough ==
    ASSUME Inv, ThroughInv, NEW t \in Task, NEW S \in SUBSET Pid, NEW sig \in AllSignals, SendTo(t, S, sig)
    PROVE  ThroughInv'
  <1>1. ASSUME NEW u \in Task, tpid[u] # 0, tpid[u] \in S
        PROVE  Through(u)'
    <2>1. tpid[u] \in Pid /\ main_task[tpid[u]] = u
      BY <1>1, Zenon DEF Inv, TaskInv
    <2>2. /\ tstate'[u] = Woken(tpid[u], sig) /\ tpid'[u] = tpid[u] /\ blocked' = blocked
          /\ pending'[tpid[u]] = Posted(tpid[u], sig)
      BY <1>1, <2>1, Zenon DEF SendTo
    <2>3. u # t => pc'[u] = pc[u]
      BY Zenon DEF SendTo, Others
    <2>4. u = t => tstate'[u] = "ACTIVE"
      BY Zenon DEF SendTo
    <2>5. ASSUME tstate'[u] = "BLOCKED", pc'[u] \in {"wait", "asleep"}
          PROVE  ~signal_pending(tpid[u])'
      <3>1. tstate[u] = "BLOCKED" /\ signal_discarded(tpid[u], sig)
        <4>1. Woken(tpid[u], sig) = "BLOCKED"
          BY <2>2, <2>5, Zenon
        <4>2. CASE sig \in {SIGCONT, SIGKILL} /\ tstate[u] = "STOPPED"
          BY <2>1, <4>1, <4>2 DEF Woken
        <4>3. CASE ~(sig \in {SIGCONT, SIGKILL} /\ tstate[u] = "STOPPED")
          BY <2>1, <4>1, <4>3 DEF Woken
        <4> QED
          BY <4>2, <4>3, Zenon
      <3>2. pending[tpid[u]] \ blocked[tpid[u]] = {}
        BY <1>1, <2>3, <2>4, <2>5, <3>1, Zenon DEF ThroughInv, Through, signal_pending
      <3>3. Posted(tpid[u], sig) \subseteq pending[tpid[u]]
        BY <3>1, Zenon DEF Posted
      <3>4. pending'[tpid'[u]] \ blocked'[tpid'[u]] = {}
        BY <2>2, <3>2, <3>3, Zenon
      <3> QED
        BY <3>4, Zenon DEF signal_pending
    <2>6. ASSUME tstate'[u] = "STOPPED"
          PROVE  pending'[tpid[u]] \cap {SIGCONT, SIGKILL} = {}
      <3>1. tstate[u] = "STOPPED" /\ sig \notin {SIGCONT, SIGKILL}
        <4>1. Woken(tpid[u], sig) = "STOPPED"
          BY <2>2, <2>6, Zenon
        <4>2. CASE sig \in {SIGCONT, SIGKILL} /\ tstate[u] = "STOPPED"
          BY <2>1, <4>1, <4>2 DEF Woken
        <4>3. CASE ~(sig \in {SIGCONT, SIGKILL} /\ tstate[u] = "STOPPED")
          BY <2>1, <4>1, <4>3 DEF Woken
        <4> QED
          BY <4>2, <4>3, Zenon
      <3>2. pending[tpid[u]] \cap {SIGCONT, SIGKILL} = {}
        BY <1>1, <3>1, Zenon DEF ThroughInv, Through
      <3>3. Posted(tpid[u], sig) \subseteq pending[tpid[u]] \cup {sig}
        BY Zenon DEF Posted
      <3> QED
        BY <2>2, <3>1, <3>2, <3>3, Zenon
    <2> QED
      BY <2>2, <2>5, <2>6, Zenon DEF Through
  <1>2. ASSUME NEW u \in Task, tpid[u] # 0, tpid[u] \notin S
        PROVE  Through(u)'
    <2>1. tpid[u] \in Pid
      BY <1>2, PidFacts, Zenon DEF Inv, TypeOK
    <2>2. /\ tstate'[u] = tstate[u] /\ tpid'[u] = tpid[u] /\ blocked' = blocked
          /\ pending'[tpid[u]] = pending[tpid[u]]
      BY <1>2, <2>1, Zenon DEF SendTo
    <2>3. CASE u = t
      BY <2>3, ThroughActive, Zenon DEF SendTo
    <2>4. CASE u # t
      <3>1. pc'[u] = pc[u] /\ AtMostWoken(u) /\ Through(u)
        BY <2>4, Zenon DEF SendTo, Others, ThroughInv
      <3> QED
        BY <2>2, <3>1, ThroughKept, Zenon
    <2> QED
      BY <2>3, <2>4, Zenon
  <1>3. ASSUME NEW u \in Task, tpid[u] = 0
        PROVE  Through(u)'
    BY <1>3, Zenon DEF SendTo, Through
  <1> QED
    BY <1>1, <1>2, <1>3, Zenon DEF ThroughInv

LEMMA NextThrough ==
    ASSUME Inv, Inv', ThroughInv, [Next]_vars
    PROVE  ThroughInv'
  <1>1. CASE UNCHANGED vars
    BY <1>1, Zenon DEF ThroughInv, Through, signal_pending, vars
  <1>2. ASSUME NEW t \in Task, OwnSteps(t) PROVE ThroughInv'
    <2>1. /\ Others(t) /\ tpid[t] \in Pid /\ tstate[t] = "ACTIVE" /\ tstate' = tstate
          /\ \A p \in Pid \ {tpid[t]} : pending'[p] = pending[p] /\ blocked'[p] = blocked[p]
      BY <1>2, OwnFacts, Zenon
    <2>2. Through(t)'
      <3>1. tstate'[t] = "ACTIVE"
        BY <2>1, Zenon
      <3> QED
        BY <3>1, ThroughActive, Zenon
    <2>3. ASSUME NEW u \in Task \ {t} PROVE Through(u)'
      <3>1. tpid[u] # 0 => tpid[u] \in Pid /\ tpid[u] # tpid[t]
        <4>1. main_task[tpid[t]] = t
          BY <2>1, ExitFacts, Zenon
        <4> QED
          BY <4>1, PidOf, Zenon
      <3>2. Through(u) /\ tpid'[u] = tpid[u] /\ pc'[u] = pc[u] /\ AtMostWoken(u)
        BY <2>1, Zenon DEF Others, ThroughInv
      <3>3. tpid[u] # 0 => pending'[tpid[u]] = pending[tpid[u]] /\ blocked'[tpid[u]] = blocked[tpid[u]]
        BY <2>1, <3>1, Zenon
      <3> QED
        BY <3>2, <3>3, ThroughKept, Zenon
    <2> QED
      BY <2>2, <2>3, Zenon DEF ThroughInv
  <1>3. ASSUME NEW t \in Task, SlotSteps(t) PROVE ThroughInv'
    <2>1. PICK c \in Pid :
             /\ main_task[c] = NoTask
             /\ \A p \in Pid \ {c} : pending'[p] = pending[p] /\ blocked'[p] = blocked[p]
      BY <1>3, SlotsFacts, ZenonT(30)
    <2>2. Others(t) /\ tstate[t] = "ACTIVE" /\ tstate' = tstate
      BY <1>3, SlotsFacts, ZenonT(30)
    <2>3. Through(t)'
      <3>1. tstate'[t] = "ACTIVE"
        BY <2>2, Zenon
      <3> QED
        BY <3>1, ThroughActive, Zenon
    <2>4. ASSUME NEW u \in Task \ {t} PROVE Through(u)'
      <3>1. tpid[u] # 0 => tpid[u] \in Pid /\ tpid[u] # c
        BY <2>1, PidOf, Zenon
      <3>2. Through(u) /\ tpid'[u] = tpid[u] /\ pc'[u] = pc[u] /\ AtMostWoken(u)
        BY <2>2, Zenon DEF Others, ThroughInv
      <3>3. tpid[u] # 0 => pending'[tpid[u]] = pending[tpid[u]] /\ blocked'[tpid[u]] = blocked[tpid[u]]
        BY <2>1, <3>1, Zenon
      <3> QED
        BY <3>2, <3>3, ThroughKept, Zenon
    <2> QED
      BY <2>3, <2>4, Zenon DEF ThroughInv
  <1>4. ASSUME NEW t \in Task, NEW u \in Task, process_start_task(t, u) PROVE ThroughInv'
    <2>0. /\ \A v \in Task \ {t, u} :
                 tpid'[v] = tpid[v] /\ pc'[v] = pc[v] /\ arg'[v] = arg[v] /\ tstate'[v] = tstate[v]
          /\ pending' = pending /\ blocked' = blocked
      BY <1>4, StartFacts, Zenon
    <2>1. ASSUME NEW v \in Task \ {t, u} PROVE Through(v)'
      <3>1. tpid'[v] = tpid[v] /\ pc'[v] = pc[v] /\ tstate'[v] = tstate[v]
        BY <2>0, Zenon
      <3>2. Through(v)
        BY Zenon DEF ThroughInv
      <3>3. AtMostWoken(v)
        BY <3>1, Zenon DEF AtMostWoken
      <3>4. pending'[tpid[v]] \subseteq pending[tpid[v]] /\ blocked'[tpid[v]] = blocked[tpid[v]]
        BY <2>0, Zenon
      <3> QED
        BY <3>1, <3>2, <3>3, <3>4, ThroughKept, Zenon
    <2>2. tstate'[t] = "ACTIVE" /\ tstate'[u] = "ACTIVE"
      BY <1>4, StartFacts, ZenonT(30)
    <2> QED
      BY <2>1, <2>2, ThroughActive, Zenon DEF ThroughInv
  <1>5. ASSUME NEW t \in Task, kill_send(t) \/ NotifySignal(t) PROVE ThroughInv'
    BY <1>5, SendToFacts, SendThrough, Zenon
  <1> QED
    BY <1>1, <1>2, <1>3, <1>4, <1>5, Steps, QuietThrough, Zenon

\* No wake-up is lost between the sender of a signal, which posts it and then looks
\* at the task, and the task, which blocks and then looks for signals; and a stopped
\* process has neither SIGCONT nor SIGKILL pending.
THEOREM SignalsThrough == Spec => []SignalsGetThrough
  <1>1. Init => ThroughInv
    <2>1. ASSUME Init, NEW t \in Task PROVE Through(t)
      <3>1. tstate[t] \in {"ACTIVE", "FREE"}
        BY <2>1, Zenon DEF Init
      <3> QED
        BY <3>1, Zenon DEF Through
    <2> QED
      BY <2>1, Zenon DEF ThroughInv
  <1>2. Inv /\ Inv' /\ ThroughInv /\ [Next]_vars => ThroughInv'
    BY NextThrough, Zenon
  <1>3. ASSUME Inv, ThroughInv PROVE SignalsGetThrough
    <2>1. ASSUME NEW p \in Pid, NEW t, t = main_task[p], t # NoTask
          PROVE  /\ tstate[t] = "BLOCKED" /\ pc[t] \in {"wait", "asleep"} => ~signal_pending(p)
                 /\ tstate[t] = "STOPPED" => pending[p] \cap {SIGCONT, SIGKILL} = {}
      <3>1. t \in Task /\ tpid[t] = p /\ tpid[t] # 0
        BY <1>3, <2>1, TaskOf, Zenon
      <3>2. Through(t)
        BY <1>3, <3>1, Zenon DEF ThroughInv
      <3> QED
        BY <3>1, <3>2, Zenon DEF Through
    <2> QED
      BY <2>1, Zenon DEF SignalsGetThrough
  <1> QED
    BY <1>1, <1>2, <1>3, Invariance, PTL DEF Spec

(***************************************************************************)
(* A SIGCONT cancels the stops before it, where no program ignores it.     *)
(***************************************************************************)
\* Where steps that touch no signal lead to.
LEMMA QuietEnds ==
    ASSUME Inv, NEW t \in Task, QuietSteps(t)
    PROVE  /\ pc'[t] # "stop"
           /\ tstate'[t] = "STOPPED" => Stop(t)
           /\ tstate'[t] = "BLOCKED" /\ pc'[t] = "wait" => WaitBlock(t)
  <1>t. tstate \in [Task -> TStates]
    BY Zenon DEF Inv, TypeOK, TStates
  <1>1. ASSUME tstate[t] = "ACTIVE", tstate' = tstate,
               \/ pc' = pc /\ pc[t] = "user"
               \/ \E a : \/ GoTo(t, "wait", a) \/ GoTo(t, "kill", a) \/ GoTo(t, "user", a)
                        \/ GoTo(t, "named", a) \/ GoTo(t, "dying", a) \/ GoTo(t, "reparented", a)
        PROVE  pc'[t] # "stop" /\ tstate'[t] = "ACTIVE"
    BY <1>1, GoToFacts, Zenon
  <1>2. CASE \/ \E target \in Pid \cup {-g : g \in Pid}, sig \in Signals : kill_handler(t, target, sig)
             \/ \E w \in WaitFor : WaitCall(t, w)
             \/ ForkNames(t) \/ Exit(t) \/ Reparent(t)
    BY <1>1, <1>2, Zenon DEF kill_handler, WaitCall, ForkNames, Exit, Reparent, At
  <1>3. CASE \/ \E target \in Pid, g \in Pid : setpgid(t, target, g)
             \/ setsid(t)
    BY <1>1, <1>3, Zenon DEF setpgid, setsid, At, taskVars
  <1>4. CASE StopCancelled(t) \/ SleepReturn(t) \/ WaitFails(t) \/ \E c \in Pid : ReportStop(t, c)
    BY <1>1, <1>4, Zenon DEF StopCancelled, SleepReturn, WaitFails, ReportStop, At, Return
  <1>5. CASE Stop(t)
    BY <1>5, StopFacts, Zenon
  <1>6. CASE SleepBlock(t)
    <2>1. pc'[t] = "sleep" /\ tstate'[t] = "BLOCKED"
      BY <1>t, <1>6, GoToFacts, Zenon DEF SleepBlock
    <2> QED
      BY <2>1, Zenon
  <1>7. CASE SleepCheck(t)
    <2>0. tstate[t] # "STOPPED"
      BY <1>7, Zenon DEF SleepCheck, Inv, TaskInv
    <2>1. CASE signal_pending(tpid[t])
      <3>1. pc'[t] = "user" /\ tstate'[t] = "ACTIVE"
        BY <1>t, <1>7, <2>1, GoToFacts, Zenon DEF SleepCheck, Return
      <3> QED
        BY <3>1, Zenon
    <2>2. CASE ~signal_pending(tpid[t])
      <3>1. pc'[t] = "asleep" /\ tstate' = tstate
        BY <1>7, <2>2, GoToFacts, Zenon DEF SleepCheck
      <3> QED
        BY <2>0, <3>1, Zenon
    <2> QED
      BY <2>1, <2>2, Zenon
  <1>8. CASE SleepExpires(t)
    <2>1. pc'[t] = "asleep" /\ tstate'[t] = "ACTIVE"
      BY <1>t, <1>8, Zenon DEF SleepExpires
    <2> QED
      BY <2>1, Zenon
  <1>9. CASE WaitBlock(t)
    <2>1. pc'[t] = "wait" /\ tstate'[t] = "BLOCKED"
      BY <1>t, <1>9, Zenon DEF WaitBlock, At
    <2> QED
      BY <1>9, <2>1, Zenon
  <1>10. CASE Zombie(t)
    <2>1. PICK pids \in Seq(Pid) : tstate[t] = "ACTIVE" /\ Notify(t, pids, "signal")
      BY <1>10, ZombieFacts, Zenon
    <2>2. CASE pids = <<>>
      <3>1. pc'[t] = "user" /\ tstate'[t] = "FREE"
        BY <1>t, <2>1, <2>2, GoToFacts, Zenon DEF Notify, Return
      <3> QED
        BY <3>1, Zenon
    <2>3. CASE pids # <<>>
      <3>1. pc'[t] = "signal" /\ tstate'[t] = "ACTIVE"
        BY <2>1, <2>3, GoToFacts, Zenon DEF Notify
      <3> QED
        BY <3>1, Zenon
    <2> QED
      BY <2>2, <2>3, Zenon
  <1>11. CASE NotifyUnblock(t)
    BY <1>11, NotifyFacts, Zenon
  <1> QED
    BY <1>2, <1>3, <1>4, <1>5, <1>6, <1>7, <1>8, <1>9, <1>10, <1>11, Zenon DEF QuietSteps

\* A stop signal is not pending once SIGCONT was sent after it; and a task that
\* took one before it finds the SIGCONT pending.
Continued(t) ==
    tpid[t] # 0 =>
        /\ pc[t] = "stop" /\ resumed[tpid[t]] => SIGCONT \in pending[tpid[t]]
        /\ tstate[t] = "STOPPED" => ~resumed[tpid[t]]
StopsCancelled ==
    \A p \in Pid : handler[p][SIGCONT] # "IGN" /\ (SIGTSTP \in pending[p] => ~resumed[p])
ContinueInv == StopsCancelled /\ \A t \in Task : Continued(t)

LEMMA ContinuedKept ==
    ASSUME NEW u, Continued(u), tpid'[u] = tpid[u], pc'[u] = pc[u], AtMostWoken(u),
           tpid[u] # 0 => pending'[tpid[u]] = pending[tpid[u]] /\ resumed'[tpid[u]] = resumed[tpid[u]]
    PROVE  Continued(u)'
  BY Zenon DEF Continued, AtMostWoken

LEMMA QuietContinue ==
    ASSUME Inv, ContinueInv, NEW t \in Task, QuietSteps(t)
    PROVE  ContinueInv'
  <1>1. Others(t) /\ UNCHANGED <<pending, blocked, handler, resumed>>
    BY QuietFacts, Zenon
  <1>2. StopsCancelled'
    BY <1>1, Zenon DEF ContinueInv, StopsCancelled
  <1>3. ASSUME NEW u \in Task \ {t} PROVE Continued(u)'
    BY <1>1, ContinuedKept, Zenon DEF Others, ContinueInv
  <1>4. Continued(t)'
    <2>1. CASE tstate'[t] = "STOPPED"
      <3>1. Stop(t)
        BY <2>1, QuietEnds, Zenon
      <3>2. pc[t] = "stop" /\ tpid[t] \in Pid /\ SIGCONT \notin pending[tpid[t]] /\ tpid' = tpid
        BY <3>1, StopFacts, Zenon
      <3>3. tpid[t] # 0
        BY <3>2, PidFacts, Zenon
      <3>4. ~resumed[tpid[t]]
        BY <3>2, <3>3, Zenon DEF ContinueInv, Continued
      <3> QED
        BY <1>1, <3>2, <3>4, Zenon DEF Continued
    <2>2. CASE tstate'[t] # "STOPPED"
      <3>1. pc'[t] # "stop"
        BY QuietEnds, Zenon
      <3> QED
        BY <2>2, <3>1, Zenon DEF Continued
    <2> QED
      BY <2>1, <2>2, Zenon
  <1> QED
    BY <1>2, <1>3, <1>4, Zenon DEF ContinueInv

LEMMA OwnContinue ==
    ASSUME <<SIGCONT, "IGN">> \notin Handled,
           Inv, ContinueInv, NEW t \in Task, OwnSteps(t)
    PROVE  ContinueInv'
  <1>1. /\ Others(t) /\ tpid[t] \in Pid /\ tstate[t] = "ACTIVE" /\ pc[t] = "user"
        /\ UNCHANGED <<resumed, tstate, tpid>>
        /\ \A p \in Pid : pending'[p] \subseteq pending[p]
        /\ \A p \in Pid \ {tpid[t]} : pending'[p] = pending[p] /\ handler'[p] = handler[p]
    BY OwnFacts, Zenon
  <1>2. handler'[tpid[t]][SIGCONT] # "IGN" /\ (pc'[t] = "stop" => SIGTSTP \in pending[tpid[t]])
    <2>0. /\ handler[tpid[t]][SIGCONT] # "IGN" /\ SIGCONT \in AllSignals
          /\ handler \in [Pid -> [AllSignals -> {"DFL", "IGN", "HANDLER"}]]
      BY <1>1, SignalFacts, Zenon DEF ContinueInv, StopsCancelled, Inv, TypeOK
    <2>1. ASSUME NEW h \in Handled, sigaction(t, h[1], h[2])
          PROVE  handler'[tpid[t]][SIGCONT] # "IGN" /\ pc'[t] = "user"
      <3>1. handler' = [handler EXCEPT ![tpid[t]][h[1]] = h[2]] /\ pc' = pc
        BY <2>1, Zenon DEF sigaction, taskVars
      <3>2. h[1] = SIGCONT => h[2] # "IGN"
        BY ProcessAssumption
      <3>3. h[1] \in AllSignals
        BY ProcessAssumption
      <3>4. handler'[tpid[t]] = [handler[tpid[t]] EXCEPT ![h[1]] = h[2]]
        BY <1>1, <2>0, <3>1, Zenon
      <3>5. handler[tpid[t]] \in [AllSignals -> {"DFL", "IGN", "HANDLER"}]
        BY <1>1, <2>0, Zenon
      <3>6. handler'[tpid[t]][SIGCONT] # "IGN"
        BY <2>0, <3>2, <3>3, <3>4, <3>5, Zenon
      <3> QED
        BY <1>1, <3>1, <3>6, Zenon
    <2>2. ASSUME NEW mask \in Masks, sigprocmask(t, mask)
          PROVE  handler'[tpid[t]][SIGCONT] # "IGN" /\ pc'[t] = "user"
      BY <1>1, <2>0, <2>2, Zenon DEF sigprocmask, taskVars
    <2>3. ASSUME process_exec(t)
          PROVE  handler'[tpid[t]][SIGCONT] # "IGN" /\ pc'[t] = "user"
      <3>1. /\ handler' = [handler EXCEPT ![tpid[t]] =
                              [s \in AllSignals |-> IF handler[tpid[t]][s] = "IGN" THEN "IGN" ELSE "DFL"]]
            /\ pc' = pc
        BY <2>3, Zenon DEF process_exec, taskVars
      <3>2. handler'[tpid[t]] = [s \in AllSignals |-> IF handler[tpid[t]][s] = "IGN" THEN "IGN" ELSE "DFL"]
        BY <1>1, <2>0, <3>1, Zenon
      <3>3. handler'[tpid[t]][SIGCONT] = IF handler[tpid[t]][SIGCONT] = "IGN" THEN "IGN" ELSE "DFL"
        BY <2>0, <3>2, Zenon
      <3> QED
        BY <1>1, <2>0, <3>1, <3>3, Zenon
    <2>4. ASSUME signal_deliver_one(t)
          PROVE  handler' = handler /\ (pc'[t] = "stop" => SIGTSTP \in pending[tpid[t]])
      <3>1. PICK sig \in AllSignals :
               /\ sig \in pending[tpid[t]] /\ handler' = handler
               /\ \/ GoTo(t, "stop", <<sig>>) /\ sig = SIGTSTP
                  \/ GoTo(t, "exit", <<>>) \/ GoTo(t, "user", <<>>)
        BY <2>4, DeliverFacts, Zenon
      <3>2. pc'[t] = "stop" => sig = SIGTSTP
        <4>1. CASE GoTo(t, "exit", <<>>)
          <5>1. pc'[t] = "exit"
            BY <4>1, GoToFacts, Zenon
          <5> QED
            BY <5>1, Zenon
        <4>2. CASE GoTo(t, "user", <<>>)
          <5>1. pc'[t] = "user"
            BY <4>2, GoToFacts, Zenon
          <5> QED
            BY <5>1, Zenon
        <4> QED
          BY <3>1, <4>1, <4>2, Zenon
      <3> QED
        BY <3>1, <3>2, Zenon
    <2> QED
      BY <2>0, <2>1, <2>2, <2>3, <2>4, Zenon DEF OwnSteps
  <1>3. StopsCancelled'
    <2>1. ASSUME NEW p \in Pid PROVE handler'[p][SIGCONT] # "IGN"
      BY <1>1, <1>2, Zenon DEF ContinueInv, StopsCancelled
    <2>2. ASSUME NEW p \in Pid, SIGTSTP \in pending'[p] PROVE ~resumed'[p]
      BY <1>1, <2>2, Zenon DEF ContinueInv, StopsCancelled
    <2> QED
      BY <2>1, <2>2, Zenon DEF StopsCancelled
  <1>4. ASSUME NEW u \in Task \ {t} PROVE Continued(u)'
    <2>1. tpid[u] # 0 => tpid[u] \in Pid /\ tpid[u] # tpid[t]
      <3>1. main_task[tpid[t]] = t
        BY <1>1, ExitFacts, Zenon
      <3> QED
        BY <3>1, PidOf, Zenon
    <2>2. Continued(u) /\ tpid'[u] = tpid[u] /\ pc'[u] = pc[u] /\ AtMostWoken(u)
      BY <1>1, Zenon DEF Others, ContinueInv
    <2> QED
      BY <1>1, <2>1, <2>2, ContinuedKept, Zenon
  <1>5. Continued(t)'
    <2>1. tstate'[t] # "STOPPED" /\ tpid'[t] = tpid[t] /\ resumed' = resumed
      BY <1>1, Zenon
    <2>2. pc'[t] = "stop" => ~resumed[tpid[t]]
      BY <1>1, <1>2, Zenon DEF ContinueInv, StopsCancelled
    <2> QED
      BY <2>1, <2>2, Zenon DEF Continued
  <1> QED
    BY <1>3, <1>4, <1>5, Zenon DEF ContinueInv

LEMMA SlotContinue ==
    ASSUME Inv, ContinueInv, NEW t \in Task, SlotSteps(t)
    PROVE  ContinueInv'
  <1>1. PICK c \in Pid :
           /\ main_task[c] = NoTask /\ pending'[c] = {}
           /\ handler'[c] = NoHandlers \/ \E q \in Pid : handler'[c] = handler[q]
           /\ \A p \in Pid \ {c} :
                 pending'[p] = pending[p] /\ handler'[p] = handler[p] /\ resumed'[p] = resumed[p]
    BY SlotsFacts, ZenonT(30)
  <1>2. /\ Others(t) /\ tstate[t] = "ACTIVE" /\ pc'[t] \in {"claimed", "copied", "user"}
        /\ UNCHANGED <<tstate, tpid>>
    BY SlotsFacts, ZenonT(30)
  <1>3. StopsCancelled'
    <2>1. NoHandlers[SIGCONT] # "IGN"
      BY SignalFacts, Zenon DEF NoHandlers
    <2> QED
      BY <1>1, <2>1, Zenon DEF ContinueInv, StopsCancelled
  <1>4. ASSUME NEW u \in Task \ {t} PROVE Continued(u)'
    <2>1. tpid[u] # 0 => tpid[u] \in Pid /\ tpid[u] # c
      BY <1>1, PidOf, Zenon
    <2>2. Continued(u) /\ tpid'[u] = tpid[u] /\ pc'[u] = pc[u] /\ AtMostWoken(u)
      BY <1>2, Zenon DEF Others, ContinueInv
    <2> QED
      BY <1>1, <2>1, <2>2, ContinuedKept, Zenon
  <1>5. Continued(t)'
    BY <1>2, Zenon DEF Continued
  <1> QED
    BY <1>3, <1>4, <1>5, Zenon DEF ContinueInv

LEMMA SendContinue ==
    ASSUME Inv, ContinueInv, NEW t \in Task, NEW S \in SUBSET Pid, NEW sig \in AllSignals, SendTo(t, S, sig)
    PROVE  ContinueInv'
  <1>1. ASSUME NEW p \in Pid, p \notin S PROVE pending'[p] = pending[p] /\ resumed'[p] = resumed[p]
    BY <1>1, Zenon DEF SendTo
  <1>2. ASSUME NEW p \in S, sig = SIGTSTP PROVE ~resumed'[p]
    BY <1>2, Zenon DEF SendTo, StopSignals
  <1>3. ASSUME NEW p \in S, sig = SIGCONT PROVE SIGTSTP \notin pending'[p] /\ SIGCONT \in pending'[p]
    <2>1. pending'[p] = Posted(p, SIGCONT)
      BY <1>3, Zenon DEF SendTo
    <2>2. ~signal_discarded(p, SIGCONT)
      BY SignalFacts, Zenon DEF signal_discarded, ContinueInv, StopsCancelled
    <2>3. Posted(p, SIGCONT) = (pending[p] \ StopSignals) \cup {SIGCONT}
      BY <2>2, SignalFacts DEF Posted
    <2>4. SIGTSTP \in StopSignals /\ SIGTSTP # SIGCONT
      BY SignalFacts, Zenon DEF StopSignals
    <2> QED
      BY <2>1, <2>3, <2>4
  <1>4. ASSUME NEW p \in S, sig \notin {SIGTSTP, SIGCONT}
        PROVE  /\ resumed'[p] = resumed[p] /\ pending[p] \subseteq pending'[p]
               /\ pending'[p] \subseteq pending[p] \cup {sig}
    <2>0. sig \notin StopSignals /\ sig # SIGCONT /\ p \in Pid
      BY <1>4, Zenon DEF StopSignals
    <2>1. pending'[p] = Posted(p, sig) /\ resumed'[p] = resumed[p]
      BY <2>0, Zenon DEF SendTo
    <2>2. /\ pending[p] \subseteq Posted(p, sig) /\ Posted(p, sig) \subseteq pending[p] \cup {sig}
      BY <1>4 DEF Posted, StopSignals
    <2> QED
      BY <2>1, <2>2, Zenon
  <1>5. ASSUME NEW p \in Pid, SIGTSTP \in pending'[p] PROVE ~resumed'[p]
    <2>1. SIGTSTP \in pending[p] => ~resumed[p]
      BY Zenon DEF ContinueInv, StopsCancelled
    <2>2. CASE p \notin S
      BY <1>1, <1>5, <2>1, <2>2, Zenon
    <2>3. CASE p \in S /\ sig \in {SIGTSTP, SIGCONT}
      BY <1>2, <1>3, <1>5, <2>3, Zenon
    <2>4. CASE p \in S /\ sig \notin {SIGTSTP, SIGCONT}
      BY <1>4, <1>5, <2>1, <2>4, Zenon
    <2> QED
      BY <2>2, <2>3, <2>4, Zenon
  <1>6. StopsCancelled'
    BY <1>5, Zenon DEF SendTo, ContinueInv, StopsCancelled
  <1>7. ASSUME NEW u \in Task, tpid[u] # 0, u # t PROVE Continued(u)'
    <2>1. tpid[u] \in Pid /\ main_task[tpid[u]] = u
      BY <1>7, PidOf, Zenon
    <2>2. /\ pc'[u] = pc[u] /\ AtMostWoken(u) /\ tpid'[u] = tpid[u] /\ Continued(u)
          /\ tpid[u] \in S => tstate'[u] = Woken(tpid[u], sig)
      BY <1>7, Zenon DEF SendTo, Others, ContinueInv
    <2>3. CASE tpid[u] \notin S
      BY <1>1, <2>1, <2>2, <2>3, ContinuedKept, Zenon
    <2>4. CASE tpid[u] \in S /\ sig = SIGTSTP
      BY <1>2, <2>2, <2>4, Zenon DEF Continued
    <2>5. CASE tpid[u] \in S /\ sig = SIGCONT
      <3>1. Woken(tpid[u], sig) # "STOPPED"
        <4>1. CASE tstate[u] = "STOPPED"
          BY <2>1, <2>5, <4>1 DEF Woken
        <4>2. CASE tstate[u] # "STOPPED"
          BY <2>1, <2>5, <4>2 DEF Woken
        <4> QED
          BY <4>1, <4>2, Zenon
      <3> QED
        BY <1>3, <2>2, <2>5, <3>1, Zenon DEF Continued
    <2>6. CASE tpid[u] \in S /\ sig \notin {SIGTSTP, SIGCONT}
      <3>1. resumed'[tpid[u]] = resumed[tpid[u]] /\ pending[tpid[u]] \subseteq pending'[tpid[u]]
        BY <1>4, <2>6, Zenon
      <3>2. tstate'[u] = "STOPPED" => tstate[u] = "STOPPED"
        BY <2>2, Zenon DEF AtMostWoken
      <3> QED
        BY <1>7, <2>2, <3>1, <3>2, Zenon DEF Continued
    <2> QED
      BY <2>3, <2>4, <2>5, <2>6, Zenon
  <1>8. ASSUME NEW u \in Task, tpid[u] = 0 PROVE Continued(u)'
    BY <1>8, Zenon DEF SendTo, Continued
  <1>9. Continued(t)'
    <2>1. tstate'[t] = "ACTIVE" /\ pc'[t] # "stop"
      BY Zenon DEF SendTo
    <2> QED
      BY <2>1, Zenon DEF Continued
  <1> QED
    BY <1>6, <1>7, <1>8, <1>9, Zenon DEF ContinueInv

LEMMA NextContinue ==
    ASSUME <<SIGCONT, "IGN">> \notin Handled, Inv, ContinueInv, [Next]_vars
    PROVE  ContinueInv'
  <1>1. CASE UNCHANGED vars
    BY <1>1, Zenon DEF ContinueInv, StopsCancelled, Continued, vars
  <1>2. ASSUME NEW t \in Task, NEW u \in Task, process_start_task(t, u) PROVE ContinueInv'
    <2>1. /\ \A v \in Task \ {t, u} :
                 tpid'[v] = tpid[v] /\ pc'[v] = pc[v] /\ arg'[v] = arg[v] /\ tstate'[v] = tstate[v]
          /\ UNCHANGED <<pending, handler, resumed>>
      BY <1>2, StartFacts, Zenon
    <2>2. /\ tstate'[t] = "ACTIVE" /\ pc'[t] = "user" /\ tstate'[u] = "ACTIVE" /\ pc'[u] = "user"
      BY <1>2, StartFacts, ZenonT(30)
    <2>3. Continued(t)' /\ Continued(u)'
      BY <2>2, Zenon DEF Continued
    <2>4. ASSUME NEW v \in Task \ {t, u} PROVE Continued(v)'
      BY <2>1, Zenon DEF Continued, ContinueInv
    <2>5. StopsCancelled'
      BY <2>1, Zenon DEF StopsCancelled, ContinueInv
    <2> QED
      BY <2>3, <2>4, <2>5, Zenon DEF ContinueInv
  <1>3. ASSUME NEW t \in Task, kill_send(t) \/ NotifySignal(t) PROVE ContinueInv'
    BY <1>3, SendToFacts, SendContinue, Zenon
  <1> QED
    BY <1>1, <1>2, <1>3, Steps, QuietContinue, OwnContinue, SlotContinue, Zenon

\* Where no program ignores SIGCONT, a process whose last job-control signal was a
\* SIGCONT is not stopped: signal_send_target_locked discards a pending stop, and a
\* stop that was being delivered sees the SIGCONT pending.
THEOREM ContinueCancels ==
    ASSUME <<SIGCONT, "IGN">> \notin Handled
    PROVE  Spec => []ContinueCancelsStop
  <1>1. Init => ContinueInv
    <2>1. ASSUME Init, NEW t \in Task PROVE Continued(t)
      <3>1. tstate[t] \in {"ACTIVE", "FREE"} /\ pc[t] = "user"
        BY <2>1, Zenon DEF Init
      <3> QED
        BY <3>1, Zenon DEF Continued
    <2>2. ASSUME Init PROVE StopsCancelled
      <3>1. \A p \in Pid : handler[p] = NoHandlers /\ pending[p] = {}
        BY <2>2, Zenon DEF Init
      <3>2. NoHandlers[SIGCONT] # "IGN"
        BY SignalFacts, Zenon DEF NoHandlers
      <3> QED
        BY <3>1, <3>2, Zenon DEF StopsCancelled
    <2> QED
      BY <2>1, <2>2, Zenon DEF ContinueInv
  <1>2. Inv /\ ContinueInv /\ [Next]_vars => ContinueInv'
    BY NextContinue, Zenon
  <1>3. ASSUME Inv, ContinueInv PROVE ContinueCancelsStop
    <2>1. ASSUME NEW p \in Pid, main_task[p] # NoTask, tstate[main_task[p]] = "STOPPED"
          PROVE  ~resumed[p]
      <3>1. main_task[p] \in Task /\ tpid[main_task[p]] = p /\ p # 0
        BY <1>3, <2>1, TaskOf, Zenon
      <3> QED
        BY <1>3, <2>1, <3>1, Zenon DEF ContinueInv, Continued
    <2> QED
      BY <2>1, Zenon DEF ContinueCancelsStop
  <1> QED
    BY <1>1, <1>2, <1>3, Invariance, PTL DEF Spec

(***************************************************************************)
(* Nobody waits for a child over which waitpid would return.               *)
(***************************************************************************)
\* A task that publishes or hands over zombies is on its way to wake q.
Told(q) ==
    \E u \in Task :
        \/ /\ pc[u] \in {"signal", "unblock"}
           /\ \E i \in 1..Len(arg[u]) : arg[u][i] = q
        \/ pc[u] = "reparented" /\ arg[u] = <<TRUE>> /\ q = init

Waits(t) == tstate[t] = "BLOCKED" /\ pc[t] = "wait"

\* A stop is announced in the step that makes it; an exit later.
Heard(t, c) ==
    Waits(t) /\ Child(t, c) =>
        (state[c] = "ZOMBIE" => Told(tpid[t])) /\ (arg[t][2] => ~StopUnreported(c))
WaitersInv == \A t \in Task, c \in Pid : Heard(t, c)

LEMMA HeardKept ==
    ASSUME NEW u \in Task, NEW c \in Pid, Heard(u, c),
           Waits(u)' => Waits(u) /\ tpid'[u] = tpid[u] /\ arg'[u] = arg[u],
           Waits(u)' => (state'[c] # "EMPTY" /\ parent_pid'[c] = tpid[u] =>
                            state[c] # "EMPTY" /\ parent_pid[c] = tpid[u]),
           state'[c] = "ZOMBIE" => state[c] = "ZOMBIE",
           StopUnreported(c)' => StopUnreported(c),
           Waits(u)' /\ Told(tpid[u]) => Told(tpid[u])'
    PROVE  Heard(u, c)'
  <1> SUFFICES ASSUME Waits(u)', Child(u, c)'
               PROVE  (state'[c] = "ZOMBIE" => Told(tpid[u])') /\ (arg'[u][2] => ~StopUnreported(c)')
    BY Zenon DEF Heard
  <1>1. Waits(u) /\ tpid'[u] = tpid[u] /\ arg'[u] = arg[u]
    BY Zenon
  <1>2. Child(u, c)
    BY <1>1, Zenon DEF Child
  <1>3. (state[c] = "ZOMBIE" => Told(tpid[u])) /\ (arg[u][2] => ~StopUnreported(c))
    BY <1>1, <1>2, Zenon DEF Heard
  <1> QED
    BY <1>1, <1>3, Zenon

LEMMA StopKept ==
    ASSUME NEW c \in Pid, main_task'[c] = main_task[c],
           main_task[c] # NoTask =>
              /\ stop_reported'[c] = stop_reported[c] \/ tstate'[main_task[c]] = "ACTIVE"
              /\ tstate'[main_task[c]] = "STOPPED" => tstate[main_task[c]] = "STOPPED"
    PROVE  StopUnreported(c)' => StopUnreported(c)
  BY Zenon DEF StopUnreported

LEMMA ToldKept ==
    ASSUME NEW t \in Task, Others(t), pc[t] \notin {"signal", "unblock", "reparented"}, NEW q, Told(q)
    PROVE  Told(q)'
  <1>1. PICK u \in Task : \/ /\ pc[u] \in {"signal", "unblock"}
                             /\ \E i \in 1..Len(arg[u]) : arg[u][i] = q
                          \/ pc[u] = "reparented" /\ arg[u] = <<TRUE>> /\ q = init
    BY Zenon DEF Told
  <1>2. pc'[u] = pc[u] /\ arg'[u] = arg[u]
    BY <1>1, Zenon DEF Others
  <1> QED
    BY <1>1, <1>2, Zenon DEF Told

\* The task of a waiter is the main task of a running process.
LEMMA WaiterRuns ==
    ASSUME Inv, NEW u \in Task, Waits(u)
    PROVE  /\ tpid[u] \in Pid /\ main_task[tpid[u]] = u /\ Running(tpid[u]) /\ tpid[u] # 0
  <1>1. tpid[u] \in Pid /\ main_task[tpid[u]] = u
    BY HasProcess, Zenon DEF Waits, NotifyPlaces
  <1>2. u # NoTask /\ tpid[u] # 0
    BY <1>1, PidFacts, Zenon
  <1>3. state[tpid[u]] = "RUNNING"
    BY <1>1, <1>2, Zenon DEF Inv, StateInv, Waits, ExitPlaces
  <1> QED
    BY <1>1, <1>2, <1>3, Zenon DEF Running

\* Steps that leave the table alone, in which t does not begin to wait.
LEMMA TableKept ==
    ASSUME Inv, WaitersInv, NEW t \in Task, Others(t), UNCHANGED <<state, parent_pid, main_task>>,
           pc[t] \notin {"signal", "unblock", "reparented"}, ~Waits(t)',
           tstate'[t] = "STOPPED" => tstate[t] = "STOPPED",
           \A p \in Pid : main_task[p] # NoTask =>
              stop_reported'[p] \in {stop_reported[p], TRUE} \/ tstate'[main_task[p]] = "ACTIVE"
    PROVE  WaitersInv'
  <1>1. ASSUME NEW c \in Pid PROVE StopUnreported(c)' => StopUnreported(c)
    <2>1. CASE main_task[c] = NoTask
      BY <2>1, Zenon DEF StopUnreported
    <2>2. CASE main_task[c] # NoTask
      <3>1. main_task[c] \in Task
        BY <2>2, TaskOf, Zenon
      <3>2. tstate'[main_task[c]] = "STOPPED" => tstate[main_task[c]] = "STOPPED"
        BY <3>1, Zenon DEF Others, AtMostWoken
      <3>3. stop_reported'[c] \in {stop_reported[c], TRUE} \/ tstate'[main_task[c]] = "ACTIVE"
        BY <2>2, Zenon
      <3> QED
        BY <3>2, <3>3, Zenon DEF StopUnreported
    <2> QED
      BY <2>1, <2>2, Zenon
  <1>2. ASSUME NEW u \in Task, NEW c \in Pid PROVE Heard(u, c)'
    <2>1. CASE u = t
      BY <2>1, Zenon DEF Heard
    <2>2. CASE u # t
      <3>1. Waits(u)' => Waits(u) /\ tpid'[u] = tpid[u] /\ arg'[u] = arg[u]
        BY <2>2, Zenon DEF Others, AtMostWoken, Waits
      <3>2. Told(tpid[u]) => Told(tpid[u])'
        <4>1. tpid'[u] = tpid[u]
          BY <2>2, Zenon DEF Others
        <4>2. \A q : Told(q) => Told(q)'
          BY ToldKept, Zenon
        <4> QED
          BY <4>1, <4>2, Zenon
      <3>3. Heard(u, c)
        BY Zenon DEF WaitersInv
      <3> QED
        BY <1>1, <3>1, <3>2, <3>3, HeardKept, Zenon
    <2> QED
      BY <2>1, <2>2, Zenon
  <1> QED
    BY <1>2, Zenon DEF WaitersInv

\* A step that keeps what is told, seen by a task that waits before and after it.
LEMMA OtherHeard ==
    ASSUME Inv, WaitersInv, NEW t \in Task, Others(t), NEW u \in Task \ {t}, NEW c \in Pid,
           Waits(u) => (state'[c] # "EMPTY" /\ parent_pid'[c] = tpid[u] =>
                           state[c] # "EMPTY" /\ parent_pid[c] = tpid[u]),
           state'[c] = "ZOMBIE" => state[c] = "ZOMBIE",
           StopUnreported(c)' => StopUnreported(c),
           Waits(u)' /\ Told(tpid[u]) => \E q : q = tpid[u] /\ Told(q)'
    PROVE  Heard(u, c)'
  <1>1. tpid'[u] = tpid[u] /\ (Waits(u)' => Waits(u) /\ arg'[u] = arg[u])
    BY Zenon DEF Others, AtMostWoken, Waits
  <1>2. Heard(u, c)
    BY Zenon DEF WaitersInv
  <1>3. Waits(u)' /\ Told(tpid[u]) => Told(tpid[u])'
    BY <1>1, Zenon
  <1> QED
    BY <1>1, <1>2, <1>3, HeardKept, Zenon

\* A waiter's process is awake to a stop of its child.
LEMMA StopWaiters ==
    ASSUME Inv, WaitersInv, NEW t \in Task, Stop(t)
    PROVE  WaitersInv'
  <1>1. /\ tpid[t] \in Pid /\ pc[t] = "stop" /\ pc'[t] = "user" /\ Others(t)
        /\ \A u \in Task : Running(parent_pid[tpid[t]]) /\ u = main_task[parent_pid[tpid[t]]] =>
              tstate'[u] # "BLOCKED"
        /\ stop_reported' = [stop_reported EXCEPT ![tpid[t]] = FALSE]
        /\ UNCHANGED <<state, parent_pid, main_task, tpid>>
    BY StopFacts, Zenon DEF Calm, Others
  <1>2. main_task[tpid[t]] = t
    BY <1>1, ExitFacts, Zenon
  <1>3. ASSUME NEW c \in Pid, c # tpid[t] PROVE StopUnreported(c)' => StopUnreported(c)
    <2>1. stop_reported'[c] = stop_reported[c]
      BY <1>1, <1>3, Zenon DEF Inv, TypeOK
    <2>2. main_task[c] # NoTask => main_task[c] \in Task \ {t}
      BY <1>1, <1>3, TaskOf, Zenon
    <2>3. main_task[c] # NoTask => (tstate'[main_task[c]] = "STOPPED" => tstate[main_task[c]] = "STOPPED")
      BY <1>1, <2>2, Zenon DEF Others, AtMostWoken
    <2> QED
      BY <1>1, <2>1, <2>3, StopKept, Zenon
  <1>4. ASSUME NEW u \in Task, NEW c \in Pid PROVE Heard(u, c)'
    <2>1. CASE u = t
      BY <1>1, <2>1, Zenon DEF Heard, Waits
    <2>2. CASE u # t
      <3>0. pc[t] \notin {"signal", "unblock", "reparented"}
        BY <1>1, Zenon
      <3>1. Told(tpid[u]) => \E q : q = tpid[u] /\ Told(q)'
        <4>1. \A q : Told(q) => Told(q)'
          BY <1>1, <3>0, ToldKept, Zenon
        <4> QED
          BY <4>1, Zenon
      <3>2. CASE c # tpid[t]
        BY <1>1, <1>3, <2>2, <3>1, <3>2, OtherHeard, Zenon
      <3>3. CASE c = tpid[t]
        <4> SUFFICES ASSUME Waits(u)', Child(u, c)' PROVE FALSE
          BY Zenon DEF Heard
        <4>1. Waits(u) /\ tpid'[u] = tpid[u]
          BY <1>1, <2>2, Zenon DEF Others, AtMostWoken, Waits
        <4>2. parent_pid[tpid[t]] = tpid[u]
          BY <1>1, <3>3, Zenon DEF Child
        <4>3. Running(tpid[u]) /\ main_task[tpid[u]] = u
          BY <4>1, WaiterRuns, Zenon
        <4>4. tstate'[u] # "BLOCKED"
          BY <1>1, <4>2, <4>3, Zenon
        <4> QED
          BY <4>4, Zenon DEF Waits
      <3> QED
        BY <3>2, <3>3, Zenon
    <2> QED
      BY <2>1, <2>2, Zenon
  <1> QED
    BY <1>4, Zenon DEF WaitersInv

\* The list of those to wake loses only the one that is woken.
LEMMA NotifyWaiters ==
    ASSUME Inv, WaitersInv, NEW t \in Task, NotifyUnblock(t)
    PROVE  WaitersInv'
  <1>1. /\ pc[t] = "unblock" /\ pc'[t] \in {"user", "signal"} /\ Others(t)
        /\ \A i \in 1..Len(arg[t]) :
              \/ arg[t][i] = Head(arg[t])
              \/ pc'[t] = "signal" /\ \E j \in 1..Len(arg'[t]) : arg'[t][j] = arg[t][i]
        /\ Running(Head(arg[t])) =>
              \A u \in Task : u = main_task[Head(arg[t])] => tstate'[u] # "BLOCKED"
        /\ tstate'[t] \in {"FREE", "ACTIVE"}
        /\ UNCHANGED <<state, parent_pid, main_task, stop_reported, tpid>>
    BY NotifyFacts, Zenon DEF Calm, Others
  <1>2. ASSUME NEW c \in Pid PROVE StopUnreported(c)' => StopUnreported(c)
    <2>1. main_task[c] # NoTask => main_task[c] \in Task
      BY TaskOf, Zenon
    <2>2. main_task[c] # NoTask => (tstate'[main_task[c]] = "STOPPED" => tstate[main_task[c]] = "STOPPED")
      BY <1>1, <2>1, Zenon DEF Others, AtMostWoken
    <2> QED
      BY <1>1, <2>2, StopKept, Zenon
  <1>3. ASSUME NEW u \in Task \ {t}, Waits(u)', Told(tpid[u]) PROVE \E q : q = tpid[u] /\ Told(q)'
    <2>1. Waits(u) /\ tstate'[u] = "BLOCKED"
      BY <1>1, <1>3, Zenon DEF Others, AtMostWoken, Waits
    <2>2. tpid[u] # Head(arg[t])
      BY <1>1, <2>1, WaiterRuns, Zenon
    <2>3. PICK v \in Task : \/ /\ pc[v] \in {"signal", "unblock"}
                               /\ \E i \in 1..Len(arg[v]) : arg[v][i] = tpid[u]
                            \/ pc[v] = "reparented" /\ arg[v] = <<TRUE>> /\ tpid[u] = init
      BY <1>3, Zenon DEF Told
    <2>4. CASE v = t
      <3>1. PICK i \in 1..Len(arg[t]) : arg[t][i] = tpid[u]
        BY <1>1, <2>3, <2>4, Zenon
      <3>2. pc'[t] = "signal" /\ \E j \in 1..Len(arg'[t]) : arg'[t][j] = tpid[u]
        BY <1>1, <2>2, <3>1, Zenon
      <3> QED
        BY <3>2, Zenon DEF Told
    <2>5. CASE v # t
      <3>1. pc'[v] = pc[v] /\ arg'[v] = arg[v]
        BY <1>1, <2>5, Zenon DEF Others
      <3> QED
        BY <2>3, <3>1, Zenon DEF Told
    <2> QED
      BY <2>4, <2>5, Zenon
  <1>4. ASSUME NEW u \in Task, NEW c \in Pid PROVE Heard(u, c)'
    <2>1. CASE u = t
      BY <1>1, <2>1, Zenon DEF Heard, Waits
    <2>2. CASE u # t
      BY <1>1, <1>2, <1>3, <2>2, OtherHeard, Zenon
    <2> QED
      BY <2>1, <2>2, Zenon
  <1> QED
    BY <1>4, Zenon DEF WaitersInv

\* The orphans are told about through the note that t makes for itself.
LEMMA ReparentWaiters ==
    ASSUME Inv, WaitersInv, InitWaitsForExits, NEW t \in Task, Reparent(t)
    PROVE  WaitersInv'
  <1>1. PICK b \in BOOLEAN :
          /\ pc[t] = "dying" /\ tpid[t] \in Pid /\ GoTo(t, "reparented", <<b>>)
          /\ ~b => \A c \in Pid : state[c] = "ZOMBIE" /\ parent_pid[c] = tpid[t] => c = tpid[t]
          /\ parent_pid' = [c \in Pid |->
                IF c # tpid[t] /\ state[c] # "EMPTY" /\ parent_pid[c] = tpid[t] THEN init ELSE parent_pid[c]]
          /\ UNCHANGED <<state, main_task, stop_reported, tstate, tpid>>
    BY ReparentFacts, Zenon
  <1>2. pc'[t] = "reparented" /\ arg'[t] = <<b>>
    BY <1>1, GoToFacts, Zenon
  <1>3. Others(t)
    BY <1>1, MoveFacts, Zenon
  <1>4. \A c \in Pid : StopUnreported(c)' <=> StopUnreported(c)
    BY <1>1, Zenon DEF StopUnreported
  <1>5. \A q : Told(q) => Told(q)'
    <2>1. pc[t] \notin {"signal", "unblock", "reparented"}
      BY <1>1, Zenon
    <2> QED
      BY <1>3, <2>1, ToldKept, Zenon
  <1>6. ASSUME NEW u \in Task, NEW c \in Pid PROVE Heard(u, c)'
    <2>1. CASE u = t
      BY <1>2, <2>1, Zenon DEF Heard, Waits
    <2>2. CASE u # t /\ ~(c # tpid[t] /\ state[c] # "EMPTY" /\ parent_pid[c] = tpid[t])
      <3>1. parent_pid'[c] = parent_pid[c] /\ state'[c] = state[c]
        BY <1>1, <2>2, Zenon
      <3> QED
        BY <1>3, <1>4, <1>5, <2>2, <3>1, OtherHeard, Zenon
    <2>3. CASE u # t /\ c # tpid[t] /\ state[c] # "EMPTY" /\ parent_pid[c] = tpid[t]
      <3> SUFFICES ASSUME Waits(u)', Child(u, c)'
                   PROVE  (state'[c] = "ZOMBIE" => Told(tpid[u])') /\ ~arg'[u][2]
        BY Zenon DEF Heard
      <3>1. parent_pid'[c] = init
        BY <1>1, <2>3, Zenon
      <3>2. tpid'[u] = init /\ tpid[u] = init /\ pc[u] = "wait" /\ arg'[u] = arg[u]
        BY <1>1, <1>3, <2>3, <3>1, Zenon DEF Others, Child, Waits
      <3>3. ~arg'[u][2]
        BY <3>2, Zenon DEF InitWaitsForExits
      <3>4. ASSUME state'[c] = "ZOMBIE" PROVE Told(tpid[u])'
        <4>1. b = TRUE
          BY <1>1, <2>3, <3>4, Zenon
        <4>2. arg'[t] = <<TRUE>>
          BY <1>2, <4>1, Zenon
        <4> QED
          BY <1>2, <3>2, <4>2, Zenon DEF Told
      <3> QED
        BY <3>3, <3>4, Zenon
    <2> QED
      BY <2>1, <2>2, <2>3, Zenon
  <1> QED
    BY <1>6, Zenon DEF WaitersInv

\* The zombie's parent, and init if t's note says so, are on the list that t makes.
LEMMA ZombieWaiters ==
    ASSUME Inv, WaitersInv, NEW t \in Task, Zombie(t)
    PROVE  WaitersInv'
  <1>1. PICK pids \in Seq(Pid) :
          /\ tstate[t] = "ACTIVE" /\ pc[t] = "reparented" /\ tpid[t] \in Pid
          /\ state' = [state EXCEPT ![tpid[t]] = "ZOMBIE"]
          /\ main_task' = [main_task EXCEPT ![tpid[t]] = NoTask]
          /\ Notify(t, pids, "signal")
          /\ Running(parent_pid[tpid[t]]) => \E i \in 1..Len(pids) : pids[i] = parent_pid[tpid[t]]
          /\ arg[t] = <<TRUE>> => \E i \in 1..Len(pids) : pids[i] = init
          /\ UNCHANGED <<parent_pid, stop_reported>>
    BY ZombieFacts, Zenon
  <1>2. Others(t)
    BY QuietFacts, Zenon DEF QuietSteps
  <1>3. \A q : (\E i \in 1..Len(pids) : pids[i] = q) =>
               pc'[t] = "signal" /\ \E i \in 1..Len(arg'[t]) : arg'[t][i] = q
    <2>1. CASE pids = <<>>
      <3>1. Len(pids) = 0
        BY <2>1
      <3>2. 1..0 = {}
        OBVIOUS
      <3> QED
        BY <3>1, <3>2, Zenon
    <2>2. CASE pids # <<>>
      <3>1. GoTo(t, "signal", pids)
        BY <1>1, <2>2, Zenon DEF Notify
      <3>2. pc'[t] = "signal" /\ arg'[t] = pids
        BY <3>1, GoToFacts, Zenon
      <3> QED
        BY <3>2, Zenon
    <2> QED
      BY <2>1, <2>2, Zenon
  <1>4. \A q : (\E i \in 1..Len(pids) : pids[i] = q) => Told(q)'
    BY <1>3, Zenon DEF Told
  <1>5. ASSUME NEW q, Told(q) PROVE Told(q)'
    <2>1. PICK v \in Task : \/ /\ pc[v] \in {"signal", "unblock"}
                               /\ \E i \in 1..Len(arg[v]) : arg[v][i] = q
                            \/ pc[v] = "reparented" /\ arg[v] = <<TRUE>> /\ q = init
      BY <1>5, Zenon DEF Told
    <2>2. CASE v = t
      <3>1. arg[t] = <<TRUE>> /\ q = init
        BY <1>1, <2>1, <2>2, Zenon
      <3> QED
        BY <1>1, <1>4, <3>1, Zenon
    <2>3. CASE v # t
      <3>1. pc'[v] = pc[v] /\ arg'[v] = arg[v]
        BY <1>2, <2>3, Zenon DEF Others
      <3> QED
        BY <2>1, <3>1, Zenon DEF Told
    <2> QED
      BY <2>2, <2>3, Zenon
  <1>6. ASSUME NEW c \in Pid \ {tpid[t]}
        PROVE  /\ state'[c] = state[c] /\ main_task'[c] = main_task[c]
               /\ StopUnreported(c)' => StopUnreported(c)
    <2>1. state'[c] = state[c] /\ main_task'[c] = main_task[c]
      BY <1>1, Zenon DEF Inv, TypeOK
    <2>2. main_task[c] # NoTask => main_task[c] \in Task \ {t}
      BY <1>1, ExitFacts, TaskOf, Zenon
    <2>3. main_task[c] # NoTask => (tstate'[main_task[c]] = "STOPPED" => tstate[main_task[c]] = "STOPPED")
      BY <1>2, <2>2, Zenon DEF Others, AtMostWoken
    <2> QED
      BY <1>1, <2>1, <2>3, StopKept, Zenon
  <1>7. main_task'[tpid[t]] = NoTask
    BY <1>1, Zenon DEF Inv, TypeOK
  <1>8. ASSUME NEW u \in Task, NEW c \in Pid PROVE Heard(u, c)'
    <2>1. CASE u = t
      <3>1. ~Waits(t)'
        BY QuietEnds, <1>1, Zenon DEF QuietSteps, Waits, WaitBlock, At
      <3> QED
        BY <2>1, <3>1, Zenon DEF Heard
    <2>2. CASE u # t /\ c # tpid[t]
      <3>1. Told(tpid[u]) => \E q : q = tpid[u] /\ Told(q)'
        BY <1>5, Zenon
      <3>2. c \in Pid \ {tpid[t]} /\ parent_pid' = parent_pid
        BY <1>1, <2>2, Zenon
      <3>3. state'[c] = state[c] /\ (StopUnreported(c)' => StopUnreported(c))
        BY <1>6, <3>2, Zenon
      <3> QED
        BY <1>2, <2>2, <3>1, <3>2, <3>3, OtherHeard, Zenon
    <2>3. CASE u # t /\ c = tpid[t]
      <3> SUFFICES ASSUME Waits(u)', Child(u, c)'
                   PROVE  Told(tpid[u])' /\ ~StopUnreported(c)'
        BY Zenon DEF Heard
      <3>1. ~StopUnreported(c)'
        BY <1>7, <2>3, Zenon DEF StopUnreported
      <3>2. Waits(u) /\ tpid'[u] = tpid[u]
        BY <1>2, <2>3, Zenon DEF Others, AtMostWoken, Waits
      <3>3. parent_pid[tpid[t]] = tpid[u]
        BY <1>1, <2>3, <3>2, Zenon DEF Child
      <3>4. Running(tpid[u])
        BY <3>2, WaiterRuns, Zenon
      <3>5. \E i \in 1..Len(pids) : pids[i] = tpid[u]
        BY <1>1, <3>3, <3>4, Zenon
      <3>6. \A q : q = tpid[u] => Told(q)'
        BY <1>4, <3>5, Zenon
      <3> QED
        BY <3>1, <3>2, <3>6, Zenon
    <2> QED
      BY <2>1, <2>2, <2>3, Zenon
  <1> QED
    BY <1>8, Zenon DEF WaitersInv

\* Steps on a slot that is no zombie before or after, and has no stopped task after.
LEMMA SlotHeard ==
    ASSUME Inv, WaitersInv, NEW t \in Task, Others(t), NEW c \in Pid,
           pc[t] \notin {"signal", "unblock", "reparented"}, ~Waits(t)', tstate' = tstate, main_task' = main_task,
           state'[c] # "ZOMBIE", main_task[c] = NoTask \/ UNCHANGED <<parent_pid, stop_reported>>,
           state[c] = "EMPTY" => state'[c] = "EMPTY" \/ main_task[c] = NoTask,
           \A p \in Pid \ {c} : /\ state'[p] = state[p] /\ parent_pid'[p] = parent_pid[p]
                                /\ stop_reported'[p] = stop_reported[p]
    PROVE  WaitersInv'
  <1>1. \A q : Told(q) => Told(q)'
    BY ToldKept, Zenon
  <1>2. ASSUME NEW u \in Task, NEW d \in Pid PROVE Heard(u, d)'
    <2>1. CASE u = t
      BY <2>1, Zenon DEF Heard
    <2>2. CASE u # t /\ d # c
      <3>1. state'[d] = state[d] /\ parent_pid'[d] = parent_pid[d]
        BY <2>2, Zenon
      <3>2. StopUnreported(d)' => StopUnreported(d)
        BY <2>2, Zenon DEF StopUnreported
      <3> QED
        BY <1>1, <2>2, <3>1, <3>2, OtherHeard, Zenon
    <2>3. CASE u # t /\ d = c /\ main_task[c] = NoTask
      BY <2>3, Zenon DEF Heard, StopUnreported
    <2>4. CASE u # t /\ d = c /\ main_task[c] # NoTask
      <3>1. parent_pid'[c] = parent_pid[c] /\ (state'[c] # "EMPTY" => state[c] # "EMPTY")
        BY <2>4, Zenon
      <3>2. StopUnreported(c)' => StopUnreported(c)
        BY <2>4, Zenon DEF StopUnreported
      <3> QED
        BY <1>1, <2>4, <3>1, <3>2, OtherHeard, Zenon
    <2> QED
      BY <2>2, <2>1, <2>3, <2>4, Zenon
  <1> QED
    BY <1>2, Zenon DEF WaitersInv

\* waitpid blocks under the lock under which it saw that nothing is to report.
LEMMA BlockWaiters ==
    ASSUME Inv, WaitersInv, NEW t \in Task, WaitBlock(t)
    PROVE  WaitersInv'
  <1>1. /\ pc[t] = "wait" /\ \A c \in Pid : ~Reports(t, c)
        /\ tstate[t] = "ACTIVE" /\ tstate' = [tstate EXCEPT ![t] = "BLOCKED"]
        /\ UNCHANGED <<state, parent_pid, main_task, stop_reported, tpid, pc, arg>>
    BY Zenon DEF WaitBlock, At, procVars, idVars, sigVars
  <1>2. /\ \A u \in Task \ {t} : tstate'[u] = tstate[u]
        /\ tstate'[t] = "BLOCKED"
    BY <1>1, Zenon DEF Inv, TypeOK
  <1>3. Others(t)
    BY <1>1, <1>2, Zenon DEF Others, AtMostWoken
  <1>4. ASSUME NEW c \in Pid PROVE StopUnreported(c)' => StopUnreported(c)
    <2>1. main_task[c] # NoTask => main_task[c] \in Task
      BY TaskOf, Zenon
    <2>2. main_task[c] # NoTask => (tstate'[main_task[c]] = "STOPPED" => tstate[main_task[c]] = "STOPPED")
      BY <1>2, <2>1, Zenon
    <2> QED
      BY <1>1, <2>2, StopKept, Zenon
  <1>5. \A q : Told(q) => Told(q)'
    BY <1>1, Zenon DEF Told
  <1>6. ASSUME NEW u \in Task, NEW c \in Pid PROVE Heard(u, c)'
    <2>1. CASE u = t
      <3>1. ~Reports(t, c) /\ (Child(t, c)' => Child(t, c))
        BY <1>1, Zenon DEF Child
      <3>2. Child(t, c) => state[c] # "ZOMBIE" /\ (arg[t][2] => ~StopUnreported(c))
        BY <3>1, Zenon DEF Reports
      <3> QED
        BY <1>1, <1>4, <2>1, <3>1, <3>2, Zenon DEF Heard
    <2>2. CASE u # t
      BY <1>1, <1>3, <1>4, <1>5, <2>2, OtherHeard, Zenon
    <2> QED
      BY <2>1, <2>2, Zenon
  <1> QED
    BY <1>6, Zenon DEF WaitersInv

LEMMA QuietWaiters ==
    ASSUME Inv, WaitersInv, InitWaitsForExits, NEW t \in Task, QuietSteps(t)
    PROVE  WaitersInv'
  <1>1. Others(t)
    BY QuietFacts, Zenon
  <1>2. /\ tstate'[t] = "STOPPED" => Stop(t)
        /\ Waits(t)' => WaitBlock(t)
    BY QuietEnds, Zenon DEF Waits
  <1>3. ASSUME UNCHANGED <<state, parent_pid, main_task, stop_reported>>, ~Stop(t), ~WaitBlock(t),
               pc[t] \notin {"signal", "unblock", "reparented"}
        PROVE  WaitersInv'
    <2>1. \A p \in Pid : stop_reported'[p] \in {stop_reported[p], TRUE}
      BY <1>3, Zenon
    <2> QED
      BY <1>1, <1>2, <1>3, <2>1, TableKept, Zenon
  <1>4. CASE Stop(t) \/ WaitBlock(t) \/ Reparent(t) \/ Zombie(t) \/ NotifyUnblock(t)
    BY <1>4, StopWaiters, BlockWaiters, ReparentWaiters, ZombieWaiters, NotifyWaiters, Zenon
  <1> SUFFICES ASSUME ~Stop(t), ~WaitBlock(t) PROVE WaitersInv'
    BY <1>4, Zenon
  <1>5. CASE \/ \E target \in Pid \cup {-g : g \in Pid}, sig \in Signals : kill_handler(t, target, sig)
             \/ \E w \in WaitFor : WaitCall(t, w)
             \/ StopCancelled(t)
    <2>1. UNCHANGED <<state, parent_pid, main_task, stop_reported>> /\ pc[t] \in {"user", "stop"}
      BY <1>5, Zenon DEF kill_handler, WaitCall, StopCancelled, At, procVars, idVars, sigVars
    <2> QED
      BY <1>3, <2>1, Zenon
  <1>6. CASE (\E target \in Pid, g \in Pid : setpgid(t, target, g)) \/ setsid(t)
    <2>1. UNCHANGED <<state, parent_pid, main_task, stop_reported>> /\ pc[t] = "user"
      BY <1>6, Zenon DEF setpgid, setsid, At, sigVars
    <2> QED
      BY <1>3, <2>1, Zenon
  <1>7. CASE SleepBlock(t) \/ SleepCheck(t) \/ SleepExpires(t) \/ SleepReturn(t) \/ WaitFails(t)
    <2>1. UNCHANGED <<state, parent_pid, main_task, stop_reported>>
      BY <1>7, Zenon DEF SleepBlock, SleepCheck, SleepExpires, SleepReturn, WaitFails, procVars, idVars, sigVars
    <2>2. pc[t] \in {"user", "sleep", "asleep", "wait"}
      BY <1>7, Zenon DEF SleepBlock, SleepCheck, SleepExpires, SleepReturn, WaitFails, At
    <2> QED
      BY <1>3, <2>1, <2>2, Zenon
  <1>8. CASE \E c \in Pid : ReportStop(t, c)
    <2>1. PICK c \in Pid : /\ pc[t] = "wait" /\ stop_reported' = [stop_reported EXCEPT ![c] = TRUE]
                           /\ UNCHANGED <<state, parent_pid, main_task>>
      BY <1>8, Zenon DEF ReportStop, At, idVars
    <2>2. \A p \in Pid : stop_reported'[p] \in {stop_reported[p], TRUE}
      BY <2>1, Zenon DEF Inv, TypeOK
    <2>3. pc[t] \notin {"signal", "unblock", "reparented"}
      BY <2>1, Zenon
    <2> QED
      BY <1>1, <1>2, <2>1, <2>2, <2>3, TableKept, Zenon
  <1>9. CASE ForkNames(t)
    <2>1. /\ tstate[t] = "ACTIVE" /\ pc[t] = "claimed"
          /\ parent_pid' = [parent_pid EXCEPT ![arg[t][1]] = tpid[t]]
          /\ UNCHANGED <<state, main_task, stop_reported, tstate>>
      BY <1>9, Zenon DEF ForkNames, At, sigVars
    <2>2. arg[t][1] \in Pid /\ state[arg[t][1]] = "RUNNING" /\ main_task[arg[t][1]] = NoTask
      BY <2>1, ForkFacts, Zenon DEF ForkPlaces
    <2>3. \A p \in Pid \ {arg[t][1]} : parent_pid'[p] = parent_pid[p]
      BY <2>1, Zenon DEF Inv, TypeOK
    <2>4. pc[t] \notin {"signal", "unblock", "reparented"} /\ ~Waits(t)'
      BY <1>2, <2>1, Zenon
    <2>5. state'[arg[t][1]] # "ZOMBIE"
      BY <2>1, <2>2, Zenon
    <2> QED
      BY <1>1, <2>1, <2>2, <2>3, <2>4, <2>5, SlotHeard, Zenon
  <1>10. CASE Exit(t)
    <2>1. /\ tstate[t] = "ACTIVE" /\ pc[t] \in {"user", "exit"}
          /\ state' = [state EXCEPT ![tpid[t]] = "DEAD"]
          /\ UNCHANGED <<parent_pid, main_task, stop_reported, tstate>>
      BY <1>10, Zenon DEF Exit, At, idVars, sigVars
    <2>2. tpid[t] \in Pid
      BY <2>1, HasProcess, Zenon DEF NotifyPlaces
    <2>3. main_task[tpid[t]] = t /\ t # NoTask
      BY <2>2, ExitFacts, Zenon
    <2>4. state[tpid[t]] # "EMPTY"
      BY <2>1, <2>2, <2>3, Zenon DEF Inv, StateInv
    <2>5. state'[tpid[t]] = "DEAD" /\ \A p \in Pid \ {tpid[t]} : state'[p] = state[p]
      BY <2>1, <2>2, Zenon DEF Inv, TypeOK
    <2>6. pc[t] \notin {"signal", "unblock", "reparented"} /\ ~Waits(t)'
      BY <1>2, <2>1, Zenon
    <2>7. state'[tpid[t]] # "ZOMBIE"
      BY <2>5, Zenon
    <2> QED
      BY <1>1, <2>1, <2>2, <2>4, <2>5, <2>6, <2>7, SlotHeard, Zenon
  <1> QED
    BY <1>4, <1>5, <1>6, <1>7, <1>8, <1>9, <1>10, Zenon DEF QuietSteps

LEMMA SendWaiters ==
    ASSUME Inv, WaitersInv, NEW t \in Task, NEW S \in SUBSET Pid, NEW sig \in AllSignals, SendTo(t, S, sig)
    PROVE  WaitersInv'
  <1>1. /\ Others(t) /\ tstate'[t] = "ACTIVE"
        /\ \/ pc[t] = "kill" /\ pc'[t] = "user"
           \/ pc[t] = "signal" /\ pc'[t] = "unblock" /\ arg'[t] = arg[t]
        /\ UNCHANGED <<state, parent_pid, main_task, tpid>>
        /\ \A u \in Task : tpid[u] # 0 =>
              stop_reported'[tpid[u]] = stop_reported[tpid[u]] \/ tstate'[u] = "ACTIVE"
    BY Zenon DEF SendTo
  <1>2. ASSUME NEW q, Told(q) PROVE Told(q)'
    <2>1. PICK v \in Task : \/ /\ pc[v] \in {"signal", "unblock"}
                               /\ \E i \in 1..Len(arg[v]) : arg[v][i] = q
                            \/ pc[v] = "reparented" /\ arg[v] = <<TRUE>> /\ q = init
      BY <1>2, Zenon DEF Told
    <2>2. CASE v = t
      <3>1. pc'[t] = "unblock" /\ arg'[t] = arg[t] /\ \E i \in 1..Len(arg[t]) : arg[t][i] = q
        BY <1>1, <2>1, <2>2, Zenon
      <3> QED
        BY <3>1, Zenon DEF Told
    <2>3. CASE v # t
      <3>1. pc'[v] = pc[v] /\ arg'[v] = arg[v]
        BY <1>1, <2>3, Zenon DEF Others
      <3> QED
        BY <2>1, <3>1, Zenon DEF Told
    <2> QED
      BY <2>2, <2>3, Zenon
  <1>3. ASSUME NEW c \in Pid PROVE StopUnreported(c)' => StopUnreported(c)
    <2>1. main_task[c] # NoTask => main_task[c] \in Task /\ tpid[main_task[c]] = c /\ c # 0
      BY TaskOf, Zenon
    <2>2. main_task[c] # NoTask =>
             /\ stop_reported'[c] = stop_reported[c] \/ tstate'[main_task[c]] = "ACTIVE"
             /\ tstate'[main_task[c]] = "STOPPED" => tstate[main_task[c]] = "STOPPED"
      BY <1>1, <2>1, Zenon DEF Others, AtMostWoken
    <2> QED
      BY <1>1, <2>2, StopKept, Zenon
  <1>4. ASSUME NEW u \in Task, NEW c \in Pid PROVE Heard(u, c)'
    <2>1. CASE u = t
      BY <1>1, <2>1, Zenon DEF Heard, Waits
    <2>2. CASE u # t
      <3>1. Told(tpid[u]) => \E q : q = tpid[u] /\ Told(q)'
        BY <1>2, Zenon
      <3> QED
        BY <1>1, <1>3, <2>2, <3>1, OtherHeard, Zenon
    <2> QED
      BY <2>1, <2>2, Zenon
  <1> QED
    BY <1>4, Zenon DEF WaitersInv

\* The child's task is new, and not stopped.
LEMMA StartWaiters ==
    ASSUME Inv, WaitersInv, NEW t \in Task, NEW u \in Task, process_start_task(t, u)
    PROVE  WaitersInv'
  <1>0. \A v \in Task \ {t, u} :
           tpid'[v] = tpid[v] /\ pc'[v] = pc[v] /\ arg'[v] = arg[v] /\ tstate'[v] = tstate[v]
    BY StartFacts, Zenon
  <1>m. main_task'[arg[t][1]] = u /\ \A p \in Pid \ {arg[t][1]} : main_task'[p] = main_task[p]
    <2>1. arg[t][1] \in Pid /\ main_task' = [main_task EXCEPT ![arg[t][1]] = u]
      BY ForkFacts, Zenon DEF process_start_task, At, ForkPlaces
    <2> QED
      BY <2>1, Zenon DEF Inv, TypeOK
  <1>1. /\ \A v \in Task \ {t, u} :
              tpid'[v] = tpid[v] /\ pc'[v] = pc[v] /\ arg'[v] = arg[v] /\ tstate'[v] = tstate[v]
        /\ UNCHANGED <<state, parent_pid, stop_reported>>
        /\ \A p \in Pid \ {arg[t][1]} : main_task'[p] = main_task[p]
    BY <1>0, <1>m, Zenon DEF process_start_task, idVars, sigVars
  <1>2. /\ tstate'[t] = "ACTIVE" /\ pc[t] = "copied" /\ tstate'[u] = "ACTIVE" /\ pc[u] = "user"
        /\ main_task'[arg[t][1]] = u
    <2>1. tstate'[t] = "ACTIVE" /\ tstate'[u] = "ACTIVE"
      BY StartFacts, Zenon
    <2>2. pc[t] = "copied" /\ pc[u] = "user"
      BY Zenon DEF process_start_task, At, Inv, TaskInv
    <2> QED
      BY <1>m, <2>1, <2>2, Zenon
  <1>3. ASSUME NEW q, Told(q) PROVE Told(q)'
    <2>1. PICK v \in Task : \/ /\ pc[v] \in {"signal", "unblock"}
                               /\ \E i \in 1..Len(arg[v]) : arg[v][i] = q
                            \/ pc[v] = "reparented" /\ arg[v] = <<TRUE>> /\ q = init
      BY <1>3, Zenon DEF Told
    <2>2. v \in Task \ {t, u}
      BY <1>2, <2>1, Zenon
    <2>3. pc'[v] = pc[v] /\ arg'[v] = arg[v]
      BY <1>1, <2>2, Zenon
    <2> QED
      BY <2>1, <2>3, Zenon DEF Told
  <1>4. ASSUME NEW c \in Pid PROVE StopUnreported(c)' => StopUnreported(c)
    <2>1. CASE c = arg[t][1]
      BY <1>2, <2>1, Zenon DEF StopUnreported
    <2>2. CASE c # arg[t][1]
      <3>1. main_task'[c] = main_task[c]
        BY <1>1, <2>2, Zenon
      <3>2. main_task[c] # NoTask => main_task[c] \in Task
        BY TaskOf, Zenon
      <3>3. main_task[c] # NoTask =>
               (tstate'[main_task[c]] = "STOPPED" => tstate[main_task[c]] = "STOPPED")
        BY <1>1, <1>2, <3>2, Zenon
      <3> QED
        BY <1>1, <3>1, <3>3, StopKept, Zenon
    <2> QED
      BY <2>1, <2>2, Zenon
  <1>5. ASSUME NEW v \in Task, NEW c \in Pid PROVE Heard(v, c)'
    <2>1. CASE v \in {t, u}
      BY <1>2, <2>1, Zenon DEF Heard, Waits
    <2>2. CASE v \in Task \ {t, u}
      <3>1. tpid'[v] = tpid[v] /\ arg'[v] = arg[v] /\ (Waits(v)' => Waits(v))
        BY <1>1, <2>2, Zenon DEF Waits
      <3>2. Told(tpid[v]) => Told(tpid[v])'
        <4>1. \A q : Told(q) => Told(q)'
          BY <1>3, Zenon
        <4> QED
          BY <3>1, <4>1, Zenon
      <3>3. Heard(v, c)
        BY Zenon DEF WaitersInv
      <3> QED
        BY <1>1, <1>4, <3>1, <3>2, <3>3, HeardKept, Zenon
    <2> QED
      BY <2>1, <2>2, Zenon
  <1> QED
    BY <1>5, Zenon DEF WaitersInv

LEMMA NextWaiters ==
    ASSUME Inv, WaitersInv, InitWaitsForExits, [Next]_vars
    PROVE  WaitersInv'
  <1>1. CASE UNCHANGED vars
    <2>1. UNCHANGED <<state, parent_pid, main_task, stop_reported, tstate, tpid, pc, arg>>
      BY <1>1, Zenon DEF vars
    <2>2. ASSUME NEW t \in Task, NEW c \in Pid PROVE Heard(t, c)'
      <3>1. Heard(t, c) /\ (Waits(t)' => Waits(t)) /\ (StopUnreported(c)' => StopUnreported(c))
        BY <2>1, Zenon DEF WaitersInv, Waits, StopUnreported
      <3>2. Told(tpid[t]) => Told(tpid[t])'
        BY <2>1, Zenon DEF Told
      <3> QED
        BY <2>1, <3>1, <3>2, HeardKept, Zenon
    <2> QED
      BY <2>2, Zenon DEF WaitersInv
  <1>2. ASSUME NEW t \in Task, OwnSteps(t) PROVE WaitersInv'
    <2>1. /\ Others(t) /\ tstate[t] = "ACTIVE" /\ pc[t] = "user"
          /\ UNCHANGED <<state, parent_pid, main_task, stop_reported, tstate, tpid>>
      BY <1>2, OwnFacts, Zenon
    <2>2. /\ pc[t] \notin {"signal", "unblock", "reparented"} /\ tstate'[t] = "ACTIVE"
          /\ \A p \in Pid : stop_reported'[p] \in {stop_reported[p], TRUE}
      BY <2>1, Zenon
    <2>3. ~Waits(t)'
      BY <2>2, Zenon DEF Waits
    <2> QED
      BY <2>1, <2>2, <2>3, TableKept, Zenon
  <1>3. ASSUME NEW t \in Task, SlotSteps(t) PROVE WaitersInv'
    <2>1. Others(t) /\ tstate[t] = "ACTIVE" /\ UNCHANGED <<main_task, tstate>>
      BY <1>3, SlotsFacts, ZenonT(60)
    <2>2. PICK c \in Pid : /\ main_task[c] = NoTask /\ state'[c] # "ZOMBIE"
                           /\ \A p \in Pid \ {c} :
                                 /\ state'[p] = state[p] /\ parent_pid'[p] = parent_pid[p]
                                 /\ stop_reported'[p] = stop_reported[p]
      BY <1>3, SlotsFacts, ZenonT(60)
    <2>3. pc[t] \in {"user", "claimed", "copied", "named", "wait"}
      BY <1>3, Zenon DEF SlotSteps, process_claim_slot, process_release_slot, ForkCopies, Reap, At
    <2>4. pc[t] \notin {"signal", "unblock", "reparented"}
      BY <2>3, Zenon
    <2>5. tstate'[t] = "ACTIVE"
      BY <2>1, Zenon
    <2>6. ~Waits(t)'
      BY <2>5, Zenon DEF Waits
    <2> QED
      BY <2>1, <2>2, <2>4, <2>6, SlotHeard, Zenon
  <1>4. ASSUME NEW t \in Task, kill_send(t) \/ NotifySignal(t) PROVE WaitersInv'
    BY <1>4, SendToFacts, SendWaiters, Zenon
  <1>5. ASSUME NEW t \in Task, \E u \in Task : process_start_task(t, u) PROVE WaitersInv'
    BY <1>5, StartWaiters, Zenon
  <1> QED
    BY <1>1, <1>2, <1>3, <1>4, <1>5, Steps, QuietWaiters, Zenon

\* While init waits for exits only, as init.c does, no waitpid sleeps over a child it
\* would report: the scan and the block are one section under process_table_lock, a
\* stop wakes the parent in the step that makes it, and an exiting task that has
\* published a zombie or handed one to init has the parent on its list until it has
\* woken it.
THEOREM WaitersNotified == Spec /\ []InitWaitsForExits => []WaiterNotified
  <1>1. Init => WaitersInv
    <2>1. ASSUME Init, NEW t \in Task PROVE ~Waits(t)
      BY <2>1, Zenon DEF Init, Waits
    <2> QED
      BY <2>1, Zenon DEF WaitersInv, Heard
  <1>2. Inv /\ WaitersInv /\ InitWaitsForExits /\ [Next]_vars => WaitersInv'
    BY NextWaiters, Zenon
  <1>3. WaitersInv => WaiterNotified
    BY Zenon DEF WaitersInv, Heard, Waits, Told, Reports, WaiterNotified
  <1> QED
    BY <1>1, <1>2, <1>3, Invariance, PTL DEF Spec
=============================================================================
