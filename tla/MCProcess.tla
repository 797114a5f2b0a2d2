----------------------------- MODULE MCProcess -----------------------------
(***************************************************************************)
(* Instances of Process for TLC.                                           *)
(***************************************************************************)
EXTENDS Process, TLC

\* Families: fork, exit and waitpid with no use of signals or groups, and no
\* sleep but in waitpid.  Four processes are needed for an exit that tells a
\* parent other than init and init as well.
FamilyWaits == {<<AnyChild, FALSE, FALSE>>}
FamilyNext ==
    /\ Next
    /\ \A p \in Pid : has_execed'[p] = FALSE /\ pgid'[p] \in {0, 1}
    /\ \A t \in Task : pc'[t] # "sleep"
FamilySpec == Init /\ [][FamilyNext]_vars

\* Which task struct the heap returns makes no difference.
Symmetry == Permutations(Task)

\* Jobs: init and one process with everything it can do to itself and to init.
JobNext ==
    /\ Next
    /\ UNCHANGED <<handler[init], blocked[init], has_execed[init]>>
JobSpec == Init /\ [][JobNext]_vars
JobSignals == {SIGKILL, SIGCONT, SIGTSTP}
JobMasks == {{}, AllSignals}
JobHandled == {<<SIGCONT, "HANDLER">>, <<SIGTSTP, "IGN">>}
\* The same with programs that ignore SIGCONT.
IgnoringContinue == {<<SIGCONT, "IGN">>}
JobWaits == {<<AnyChild, FALSE, TRUE>>, <<AnyChild, TRUE, FALSE>>}
=============================================================================
