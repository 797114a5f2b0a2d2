------------------------------- MODULE MCPipe -------------------------------
(***************************************************************************)
(* Instances of Pipe for TLC.                                              *)
(***************************************************************************)
EXTENDS Pipe

CONSTANTS
    t1, t2, t3

Order == <<t1, t2, t3>>   \* the tasks in the order in which they are forked
Signalled == {t2}         \* the tasks that are sent signals

IsNext(u) == \E i \in DOMAIN Order :
    Order[i] = u /\ \A j \in 1..(i - 1) : tstate[Order[j]] # "NEW"

\* Pipe with the tasks named in the order of their birth.
OrderedNext ==
    \E t \in Task :
        \/ ReadCall(t) \/ WriteCall(t)
        \/ ResumeRead(t) \/ ResumeWrite(t)
        \/ \E e \in End : Close(t, e)
        \/ pipe_close(t)
        \/ \E u \in Task : IsNext(u) /\ Fork(t, u)
        \/ t \in Signalled /\ Signal(t)
        \/ Handle(t)

OrderedSpec == Init /\ [][OrderedNext]_vars /\ Fairness

PipeCounts == {0, 1, 3}
PipeTasks == {t1, t2, t3}
PipePair == {t1, t2}
=============================================================================
