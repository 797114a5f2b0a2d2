---------------------------- MODULE ByteChannel ----------------------------
(***************************************************************************)
(* What a pipe promises: a bounded first-in first-out channel of bytes     *)
(* between a reading and a writing end, each shared by any number of       *)
(* callers.  A write may go in piece by piece; end of file, EPIPE and      *)
(* EAGAIN are told only when they are true, and no call that has moved     *)
(* bytes is told to start over.                                            *)
(***************************************************************************)
EXTENDS Integers, Sequences

CONSTANTS
    Capacity,   \* the number of bytes the channel holds
    Modulus,    \* byte number i of the stream is i % Modulus
    Caller

VARIABLES
    chan,      \* the bytes in transit, oldest first
    next,      \* the next byte of the stream
    ends,      \* the ends that are open
    partial,   \* the callers with a write under way that has moved bytes
    result     \* what the last step told its caller, "none" if nothing

vars == <<chan, next, ends, partial, result>>

Init ==
    /\ chan = <<>>
    /\ next = 0
    /\ ends = {"r", "w"}
    /\ partial = {}
    /\ result = "none"

Written(k) ==
    /\ chan' = chan \o [i \in 1..k |-> (next + i - 1) % Modulus]
    /\ next' = (next + k) % Modulus

Read ==
    /\ result' = "read"
    /\ \E k \in 1..Len(chan) : chan' = SubSeq(chan, k + 1, Len(chan))
    /\ UNCHANGED <<next, ends, partial>>

EndOfFile ==
    /\ result' = "eof"
    /\ chan = <<>> /\ "w" \notin ends
    /\ UNCHANGED <<chan, next, ends, partial>>

\* The last piece of a write.
Write(t) ==
    /\ result' = "wrote"
    /\ "r" \in ends
    /\ \E k \in 1..(Capacity - Len(chan)) : Written(k)
    /\ partial' = partial \ {t}
    /\ UNCHANGED ends

\* A piece that fills the channel.
WritePiece(t) ==
    /\ result' = "none"
    /\ "r" \in ends /\ Len(chan) < Capacity
    /\ Written(Capacity - Len(chan))
    /\ partial' = partial \cup {t}
    /\ UNCHANGED ends

\* A call ends before it is complete: a write that has moved bytes reports
\* them, any other call gets the error err.
CutShort(t, err) ==
    /\ result' = IF t \in partial THEN "wrote" ELSE err
    /\ partial' = partial \ {t}
    /\ UNCHANGED <<chan, next, ends>>

BrokenPipe(t) == "r" \notin ends /\ CutShort(t, "epipe")

Again(t) ==
    /\ (Len(chan) = Capacity /\ "r" \in ends) \/ (chan = <<>> /\ "w" \in ends)
    /\ CutShort(t, "again")

Interrupted(t) == CutShort(t, "restart")

Close(e) ==
    /\ result' = "none"
    /\ e \in ends
    /\ ends' = ends \ {e}
    /\ UNCHANGED <<chan, next, partial>>

\* A step that tells nobody anything.
Silent == result' = "none" /\ UNCHANGED <<chan, next, ends, partial>>

Next ==
    \/ Silent \/ Read \/ EndOfFile
    \/ \E t \in Caller :
          Write(t) \/ WritePiece(t) \/ BrokenPipe(t) \/ Again(t) \/ Interrupted(t)
    \/ \E e \in ends : Close(e)

Spec == Init /\ [][Next]_vars
=============================================================================
