-------------------------------- MODULE Shell --------------------------------
(***************************************************************************)
(* Running a line in the shell (user/apps/sh/exec.c): a pipeline is forked *)
(* stage by stage, put in a process group of its own, given the terminal   *)
(* and waited for; Ctrl-Z parks it until "fg"; a job in the background is  *)
(* reaped by the SIGCHLD handler.  The stages run, exit and read the       *)
(* terminal in any order beside the shell.  Of the kernel this has what    *)
(* setpgid, tcsetpgrp, kill, waitpid and the terminal do for them.  Words, *)
(* redirections and the programs themselves are left out, and so is Ctrl-Z *)
(* at the prompt, which stops the shell itself.                            *)
(***************************************************************************)
EXTENDS Integers, Sequences, FiniteSets

CONSTANTS
    Pids,               \* the process table's free slots, as numbers above 0
    MaxStages,          \* MAX_CMDS
    Codes               \* exit statuses, as numbers

ShellGroup == 0         \* the shell's process group

VARIABLES
    proc,               \* the shell's children
    sh,                 \* where the shell is: execute_pipeline's locals
    held,               \* the pipe ends the shell has open
    foreground,         \* tty->foreground_pgid
    stopped_pgid,
    chld,               \* SIGCHLD is pending
    ended               \* how the last stage of the job ended, if it did

shVars == <<proc, sh, held, foreground, stopped_pgid, chld, ended>>

NoProcess == [st |-> "free"]
NotYet == 0 - 1
StopStatus == 128       \* above every exit status
SignalStatus == 129
Lives(p) == proc[p].st \in {"running", "stopped"}
Members(g) == {p \in Pids : Lives(p) /\ proc[p].pgid = g}

Posted(g, sig) == [p \in Pids |->
    IF p \in Members(g) THEN [proc[p] EXCEPT !.pending = @ \cup {sig}] ELSE proc[p]]

\* setpgid: a group is one that has a live member, or that its leader founds.
Joined(p, g) == IF g = p \/ g = ShellGroup \/ Members(g) # {} THEN g ELSE proc[p].pgid

\* tcsetpgrp by the shell, which ignores SIGTTOU, refuses a group without members.
tcsetpgrp(g) == foreground' = IF g = ShellGroup \/ Members(g) # {} THEN g ELSE foreground
-----------------------------------------------------------------------------
(* The stages. *)

\* The child's half of the set-up: its group, its two ends, the others closed.
ChildSetUp(p) ==
    /\ proc[p].st = "running" /\ ~proc[p].set
    /\ proc' = [proc EXCEPT ![p].set = TRUE, ![p].pgid = Joined(p, proc[p].want),
                            ![p].ends = @ \cap {<<proc[p].stage - 1, "r">>, <<proc[p].stage, "w">>}]
    /\ UNCHANGED <<sh, held, foreground, stopped_pgid, chld, ended>>

Ends(p, code) ==
    /\ proc' = [proc EXCEPT ![p] = [st |-> "zombie", code |-> code]]
    /\ chld' = TRUE
    /\ ended' = IF proc[p].tagged THEN code ELSE ended
    /\ UNCHANGED <<sh, held, foreground, stopped_pgid>>

Exit(p) ==
    /\ proc[p].st = "running" /\ proc[p].set
    /\ \E code \in Codes : Ends(p, code)

\* Signals that stop or end the stage.  SIGINT is ignored until the set-up is over.
Deliver(p) ==
    /\ Lives(p)
    /\ \/ /\ "kill" \in proc[p].pending \/ ("int" \in proc[p].pending /\ proc[p].st = "running")
          /\ Ends(p, SignalStatus)
       \/ /\ "stop" \in proc[p].pending /\ "kill" \notin proc[p].pending /\ proc[p].st = "running"
          /\ proc' = [proc EXCEPT ![p].st = "stopped", ![p].told = FALSE, ![p].pending = @ \ {"stop"}]
          /\ UNCHANGED <<sh, held, foreground, stopped_pgid, chld, ended>>

CtrlC ==
    /\ proc' = [p \in Pids |-> IF p \in Members(foreground) /\ proc[p].set
                               THEN [proc[p] EXCEPT !.pending = @ \cup {"int"}] ELSE proc[p]]
    /\ UNCHANGED <<sh, held, foreground, stopped_pgid, chld, ended>>
CtrlZ ==
    /\ foreground # ShellGroup
    /\ proc' = Posted(foreground, "stop")
    /\ UNCHANGED <<sh, held, foreground, stopped_pgid, chld, ended>>

\* SIGTTIN: a read of the terminal by a group that does not have it.
BackgroundRead(p) ==
    /\ proc[p].st = "running" /\ proc[p].set
    /\ proc[p].pgid \notin {foreground, ShellGroup}
    /\ proc' = Posted(proc[p].pgid, "stop")
    /\ UNCHANGED <<sh, held, foreground, stopped_pgid, chld, ended>>
-----------------------------------------------------------------------------
(* execute_pipeline.  SIGCHLD is blocked from here to the prompt. *)

Line ==
    /\ sh.pc = "prompt"
    /\ \E n \in 1 .. MaxStages, bg \in BOOLEAN :
        sh' = [pc |-> "stage", n |-> n, bg |-> bg, i |-> 1, pids |-> <<>>, pgid |-> 0, failed |-> FALSE]
    /\ proc' = [p \in Pids |-> IF Lives(p) THEN [proc[p] EXCEPT !.tagged = FALSE] ELSE proc[p]]
    /\ ended' = NotYet
    /\ UNCHANGED <<held, foreground, stopped_pgid, chld>>

\* The pipe to the next stage, and the fork: the child has every end that the shell has.
StartStage ==
    /\ sh.pc = "stage"
    /\ held' = held \cup (IF sh.i < sh.n THEN {<<sh.i, "r">>, <<sh.i, "w">>} ELSE {})
    /\ \E p \in Pids :
        /\ proc[p] = NoProcess
        /\ proc' = [proc EXCEPT ![p] =
               [st |-> "running", set |-> FALSE, pgid |-> ShellGroup, stage |-> sh.i,
                want |-> IF sh.i = 1 THEN p ELSE sh.pgid, ends |-> held', pending |-> {},
                told |-> FALSE, tagged |-> sh.i = sh.n /\ ~sh.bg]]
        /\ sh' = [sh EXCEPT !.pc = "forked", !.pids = Append(@, p)]
    /\ UNCHANGED <<foreground, stopped_pgid, chld, ended>>

\* pipe or fork fails: the new ends are closed again.
StageFails ==
    /\ sh.pc = "stage"
    /\ sh' = [sh EXCEPT !.pc = "spare", !.failed = TRUE]
    /\ UNCHANGED <<proc, held, foreground, stopped_pgid, chld, ended>>

\* The parent's half: the group again, and the ends the children now have.
ParentHalf ==
    /\ sh.pc = "forked"
    /\ \E p \in {sh.pids[sh.i]} : \E g \in {IF sh.i = 1 THEN p ELSE sh.pgid} :
        /\ proc' = IF Lives(p) /\ ~proc[p].set THEN [proc EXCEPT ![p].pgid = Joined(p, g)] ELSE proc
        /\ sh' = [sh EXCEPT !.pgid = g, !.i = @ + 1, !.pc = IF sh.i = sh.n THEN "spare" ELSE "stage"]
    /\ held' = held \ {<<sh.i - 1, "r">>, <<sh.i, "w">>}
    /\ UNCHANGED <<foreground, stopped_pgid, chld, ended>>

ToPrompt(status, job) ==
    sh' = [pc |-> "prompt", job |-> job, g_last_status |-> status]

\* The last read end goes; then the job is waited for, left to run or taken down.
CloseSpare ==
    /\ sh.pc = "spare"
    /\ held' = held \ {<<sh.i - 1, "r">>}
    /\ \/ /\ sh.failed
          /\ proc' = IF sh.pgid > 0 THEN Posted(sh.pgid, "kill") ELSE proc
          /\ sh' = [sh EXCEPT !.pc = "reap", !.i = 1]
       \/ ~sh.failed /\ sh.bg /\ ToPrompt(0, "left") /\ UNCHANGED proc
       \/ /\ ~sh.failed /\ ~sh.bg
          /\ sh' = [pc |-> "terminal", pids |-> sh.pids, pgid |-> sh.pgid, job |-> "line"]
          /\ UNCHANGED proc
    /\ UNCHANGED <<foreground, stopped_pgid, chld, ended>>

\* The failed job: every stage that was started is waited for.
ReapFailed ==
    /\ sh.pc = "reap"
    /\ IF sh.i > Len(sh.pids)
       THEN ToPrompt(1, "left") /\ UNCHANGED proc
       ELSE /\ ~Lives(sh.pids[sh.i])
            /\ proc' = [proc EXCEPT ![sh.pids[sh.i]] = NoProcess]
            /\ sh' = [sh EXCEPT !.i = @ + 1]
    /\ UNCHANGED <<held, foreground, stopped_pgid, chld, ended>>
-----------------------------------------------------------------------------
(* wait_foreground *)

GiveTerminal ==
    /\ sh.pc = "terminal"
    /\ tcsetpgrp(sh.pgid)
    /\ sh' = [pc |-> "wait", pids |-> sh.pids, pgid |-> sh.pgid, job |-> sh.job, i |-> 1, status |-> 0]
    /\ UNCHANGED <<proc, held, stopped_pgid, chld, ended>>

\* waitpid(pids[i], WUNTRACED): gone already, ended, or stopped.
WaitStage ==
    /\ sh.pc = "wait" /\ sh.i <= Len(sh.pids)
    /\ \E p \in {sh.pids[sh.i]} :
        \/ /\ proc[p] = NoProcess
           /\ sh' = [sh EXCEPT !.i = @ + 1]
           /\ UNCHANGED <<proc, stopped_pgid>>
        \/ /\ proc[p].st = "zombie"
           /\ proc' = [proc EXCEPT ![p] = NoProcess]
           /\ sh' = [sh EXCEPT !.i = @ + 1,
                               !.status = IF sh.i = Len(sh.pids) THEN proc[p].code ELSE @]
           /\ UNCHANGED stopped_pgid
        \/ /\ proc[p].st = "stopped" /\ ~proc[p].told
           /\ proc' = [proc EXCEPT ![p].told = TRUE]
           /\ stopped_pgid' = sh.pgid
           /\ sh' = [sh EXCEPT !.i = Len(sh.pids) + 1, !.status = StopStatus, !.job = "left"]
    /\ UNCHANGED <<held, foreground, chld, ended>>

TakeTerminal ==
    /\ sh.pc = "wait" /\ sh.i > Len(sh.pids)
    /\ tcsetpgrp(ShellGroup)
    /\ ToPrompt(sh.status, sh.job)
    /\ UNCHANGED <<proc, held, stopped_pgid, chld, ended>>
-----------------------------------------------------------------------------
(* "fg", and handle_sigchld, which runs whenever SIGCHLD is not blocked. *)

Fg ==
    /\ sh.pc = "prompt" /\ stopped_pgid # 0
    /\ proc' = [p \in Pids |->
           IF p \in Members(stopped_pgid)
           THEN [proc[p] EXCEPT !.st = "running", !.pending = @ \ {"stop"}] ELSE proc[p]]
    /\ sh' = [pc |-> "fg", pids |-> <<stopped_pgid>>, pgid |-> stopped_pgid, job |-> "left"]
    /\ stopped_pgid' = 0
    /\ UNCHANGED <<held, foreground, chld, ended>>
FgWaits ==
    /\ sh.pc = "fg"
    /\ sh' = [sh EXCEPT !.pc = "terminal"]
    /\ UNCHANGED <<proc, held, foreground, stopped_pgid, chld, ended>>

\* Mutant: SIGCHLD is blocked only once the shell waits.
UnblockedEarly == sh.pc \notin {"terminal", "wait"}

Unblocked == sh.pc \in {"prompt", "fg"}

handle_sigchld ==
    /\ Unblocked /\ chld
    /\ proc' = [p \in Pids |-> IF proc[p].st = "zombie" THEN NoProcess ELSE proc[p]]
    /\ chld' = FALSE
    /\ UNCHANGED <<sh, held, foreground, stopped_pgid, ended>>
-----------------------------------------------------------------------------
ShellInit ==
    /\ proc = [p \in Pids |-> NoProcess] /\ held = {}
    /\ sh = [pc |-> "prompt", job |-> "left", g_last_status |-> 0]
    /\ foreground = ShellGroup /\ stopped_pgid = 0 /\ chld = FALSE
    /\ ended = NotYet

ShellNext ==
    \/ \E p \in Pids : ChildSetUp(p) \/ Exit(p) \/ Deliver(p) \/ BackgroundRead(p)
    \/ CtrlC \/ CtrlZ
    \/ Line \/ StartStage \/ StageFails \/ ParentHalf \/ CloseSpare \/ ReapFailed
    \/ GiveTerminal \/ WaitStage \/ TakeTerminal
    \/ Fg \/ FgWaits \/ handle_sigchld
-----------------------------------------------------------------------------
(* Back at the prompt the shell has left nothing behind, whatever the stages did meanwhile:
   it has the terminal and no pipe end; a pipeline that ended in the foreground leaves the
   status of its last stage in g_last_status (SIGCHLD's handler took no status from
   wait_foreground); and an ended child not yet reaped has a SIGCHLD pending.  A pipe's write
   end is with its own stage only, so the next stage sees the end of its input. *)
BackAtPrompt ==
    /\ sh.pc = "prompt" =>
        /\ held = {} /\ foreground = ShellGroup
        /\ sh.job = "line" => sh.g_last_status = ended
        /\ (\E p \in Pids : proc[p].st = "zombie") => chld
    /\ \A p \in Pids : Lives(p) =>
           \A e \in proc[p].ends : e[2] = "w" => e[1] = proc[p].stage

(* A pipeline whose set-up failed is taken down: every stage that was started is dead or has
   been sent SIGKILL.  execute_pipeline's comment says so: "A half-built pipeline is taken
   down and reaped, not left running." *)
HalfBuiltTakenDown ==
    sh.pc = "reap" =>
        \A i \in DOMAIN sh.pids : Lives(sh.pids[i]) => "kill" \in proc[sh.pids[i]].pending
=============================================================================
