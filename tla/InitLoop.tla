------------------------------ MODULE InitLoop ------------------------------
(***************************************************************************)
(* The process table with the program that process 1 runs                  *)
(* (user/apps/init.c): fork a shell, wait until it has exited, reaping     *)
(* whatever else has become a child meanwhile, sleep, and begin again.     *)
(* Every other process does what Process lets a task do.                   *)
(*                                                                         *)
(* `loop' is init's place in its program: before fork, after a fork that   *)
(* failed, in the waitpid loop, or after the shell's exit.  A fork that    *)
(* fails sleeps and tries again with no waitpid in between.                *)
(***************************************************************************)
EXTENDS Process

VARIABLES
    loop,       \* init's place in its program
    shell       \* shell_pid, 0 before the first fork

initVars == <<vars, loop, shell>>

AnyZombie == <<AnyChild, FALSE, FALSE>>

InLoop == UNCHANGED <<loop, shell>>
Continue(place) == loop' = place /\ UNCHANGED shell

\* fork(), which fails when the table is full or memory runs out.
ForkShell(t) ==
    \/ loop = "fork" /\ process_claim_slot(t) /\ InLoop
    \/ /\ loop = "fork" /\ At(t, "user")
       /\ \A p \in Pid : state[p] # "EMPTY"
       /\ Continue("failed") /\ UNCHANGED vars
    \/ (ForkNames(t) \/ ForkCopies(t)) /\ InLoop
    \/ process_release_slot(t) /\ Continue("failed")
    \/ \E u \in Task :
          process_start_task(t, u) /\ loop' = "waiting" /\ shell' = arg[t][1]

\* waitpid(-1, &status, 0) until it returns the shell or an error.
WaitForShell(t) ==
    \/ loop = "waiting" /\ WaitCall(t, AnyZombie) /\ InLoop
    \/ \E c \in Pid : Reap(t, c) /\ Continue(IF c = shell THEN "exited" ELSE "waiting")
    \/ WaitFails(t) /\ Continue("exited")
    \/ WaitBlock(t) /\ InLoop

\* usleep, and back to fork.
Pause(t) ==
    \/ loop \in {"failed", "exited"} /\ SleepBlock(t) /\ InLoop
    \/ SleepCheck(t) /\ Continue(IF pc'[t] = "user" THEN "fork" ELSE loop)
    \/ SleepExpires(t) /\ InLoop
    \/ SleepReturn(t) /\ Continue("fork")

InitStep(t) ==
    /\ tpid[t] = init
    /\ ForkShell(t) \/ WaitForShell(t) \/ Pause(t) \/ (signal_deliver_one(t) /\ InLoop)
OtherStep(t) == tpid[t] # init /\ Step(t) /\ InLoop

LoopInit == Init /\ loop = "fork" /\ shell = 0
LoopNext == \E t \in Task : InitStep(t) \/ OtherStep(t)

\* init goes on with its program, and its sleeps have an end; any other task
\* goes on with what it does in the kernel, and every way back to user mode
\* delivers pending signals first.
Fairness ==
    \A t \in Task :
        /\ WF_initVars(InitStep(t))
        /\ WF_initVars(tpid[t] # init /\ KernelStep(t) /\ InLoop)
        /\ SF_initVars(tpid[t] # init /\ signal_deliver_one(t) /\ InLoop)

LoopSpec == LoopInit /\ [][LoopNext]_initVars /\ Fairness

(***************************************************************************)
(* Properties.                                                             *)
(***************************************************************************)
\* p is the zombie that init's next waitpid finds.
FirstZombie(p) ==
    LET zombies == {q \in Pid : state[q] = "ZOMBIE" /\ parent_pid[q] = init} IN
    p \in zombies /\ \A q \in zombies : p <= q

\* As long as init's own forks do not go on failing, no zombie is left with it
\* for good, however its parent's exit and its own were interleaved: the first
\* of init's zombies is reaped, or a lower slot becomes a zombie of init's too
\* (the scan of process_waitpid is in pid order).  While they do fail, init only
\* sleeps and tries again (init.c:30-34): zombies of its own that fill the table
\* are then never reaped.
InitReaps ==
    <>[](loop # "failed") => \A p \in Pid : FirstZombie(p) ~> ~FirstZombie(p)

\* SIGKILL kills: a process that has it pending leaves the table of the running,
\* asleep in waitpid or in an interruptible sleep, stopped, about to stop or
\* between two system calls (signal_send_target_locked, signal_deliver_one).
KillKills ==
    \A p \in Pid :
        (SIGKILL \in pending[p] /\ main_task[p] # NoTask) ~> ~Running(p)
=============================================================================
