------------------------------- MODULE MCAsid -------------------------------
(***************************************************************************)
(* Instances of Asid for TLC.                                              *)
(***************************************************************************)
EXTENDS Asid, TLC

Symmetry == Permutations(Process) \cup Permutations(Pgd)

\* At most one process at a time is in the tail of exec or exit.
OneTail == Cardinality({p \in Process : pc[p] \notin {"free", "user", "zombie"}}) <= 1

TailSpec == Init /\ [][Next /\ OneTail']_vars
QuietTailSpec == Init /\ [][Next /\ Quiet /\ OneTail']_vars
=============================================================================
