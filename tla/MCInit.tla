------------------------------- MODULE MCInit -------------------------------
(***************************************************************************)
(* An instance of InitLoop for TLC: init, its shell and one more process.  *)
(* The initial state chooses what the other two do: have children and      *)
(* leave them ("families"), or send each other signals that stop and kill  *)
(* while they wait and sleep, and exit only when killed ("jobs").  Nobody  *)
(* execs or changes its group.                                             *)
(***************************************************************************)
EXTENDS InitLoop, TLC

VARIABLE part

MCWaits == {AnyZombie}
MCSignals == {SIGKILL, SIGTSTP}

\* Which task struct the heap returns makes no difference: it is the first.
FirstTask(free) == CHOOSE t \in free : TRUE
TaskTaken == {t \in Task : tstate[t] = "FREE" /\ tstate'[t] # "FREE"}

FamiliesOnly ==
    /\ sends' = 0
    /\ \A t \in Task : tpid[t] # init => pc'[t] # "sleep"
JobsOnly == \A t \in Task : pc[t] = "user" => pc'[t] # "dying"

MCNext ==
    /\ UNCHANGED part
    /\ LoopNext
    /\ \A p \in Pid : has_execed'[p] = FALSE /\ pgid'[p] \in {0, 1}
    /\ \A t \in TaskTaken : t = FirstTask({u \in Task : tstate[u] = "FREE"})
    /\ IF part = "families" THEN FamiliesOnly ELSE JobsOnly
MCStart == LoopInit /\ main_task[init] = FirstTask(Task) /\ part \in {"families", "jobs"}
MCSpec == MCStart /\ [][MCNext]_<<initVars, part>> /\ Fairness
=============================================================================
