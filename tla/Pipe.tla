-------------------------------- MODULE Pipe --------------------------------
(***************************************************************************)
(* A pipe (kernel/fs/pipe.c): a ring buffer, and two wait queues           *)
(* (kernel/sched/wait.c) on which readers and writers sleep.               *)
(*                                                                         *)
(* A call holds pipe->lock from its beginning to its return or to the      *)
(* sleep inside wq_wait_event_interruptible_locked, and every waker of the *)
(* two queues holds it too: each such stretch is one step.  Signals and    *)
(* the last reference to a file do not respect that lock.                  *)
(*                                                                         *)
(* The loops move a byte at a time; a step moves the bytes they move       *)
(* before they leave the lock.  Byte number i of the stream is i % Modulus *)
(* so that the buffer shows what was lost, repeated or reordered.          *)
(***************************************************************************)
EXTENDS Integers, Sequences

CONSTANTS
    Size,      \* PIPE_BUF_SIZE
    Modulus,   \* bytes are told apart modulo this
    Counts,    \* the counts of the reads and writes
    Task,
    Creator    \* the task that calls pipe_create

ASSUME PipeAssumption ==
    /\ Size \in Nat \ {0}
    /\ Modulus \in Nat /\ Modulus > Size
    /\ Counts \subseteq Nat
    /\ Creator \in Task

End == {"r", "w"}
Slot == 0..(Size - 1)

VARIABLES
    buffer, head, tail, count, readers, writers,
    queue,    \* queue["r"] is read_wq, queue["w"] is write_wq
    sent,     \* how many bytes were written, modulo Modulus
    fd,       \* fd[e]: the tasks that hold the file of end e, its refcount
    tstate,   \* NEW before the fork, BLOCKED, or ACTIVE (READY or RUNNING)
    pc,       \* user; asleep in read or write; about to run pipe_close
    want,     \* what is left of the count of the call
    done,     \* whether a write has moved bytes already
    sig,      \* whether a signal is pending
    result    \* what the last step returned to its caller

ringVars == <<buffer, head, tail, count, sent>>
endVars == <<readers, writers, fd>>
callVars == <<pc, want, done>>
vars == <<buffer, head, tail, count, readers, writers, queue, sent, fd, tstate, pc, want,
          done, sig, result>>

(***************************************************************************)
(* Wait queues.  Only wq_wake_all is used on them, so their order tells    *)
(* nothing apart and a queue is the set of the tasks linked into it.       *)
(***************************************************************************)
Other(e) == IF e = "r" THEN "w" ELSE "r"
Waiting(e) == IF e = "r" THEN "read" ELSE "write"

\* wq_wake_all on the queues in E: the entries are unlinked, and sched_unblock
\* makes their tasks ready.  The task t ends in state s.
WakeAll(E, t, s) ==
    LET woken == UNION {queue[e] : e \in E} IN
    tstate' = [u \in Task |->
                  IF u = t THEN s
                  ELSE IF u \in woken /\ tstate[u] = "BLOCKED" THEN "ACTIVE"
                  ELSE tstate[u]]

\* Task t leaves its call on end e (wq_finish) with r, waking the queues in E.
Return(t, e, r, E) ==
    /\ pc' = [pc EXCEPT ![t] = "user"]
    /\ want' = [want EXCEPT ![t] = 0]
    /\ done' = [done EXCEPT ![t] = FALSE]
    /\ result' = r
    /\ queue' = [f \in End |-> IF f \in E THEN {} ELSE queue[f] \ {t}]
    /\ WakeAll(E, t, "ACTIVE")

\* Task t sleeps on end e (wq_prepare) with n bytes to go, after it has woken
\* the queues in E; an entry that is still linked stays where it is.
Sleep(t, e, n, d, E) ==
    /\ pc' = [pc EXCEPT ![t] = Waiting(e)]
    /\ want' = [want EXCEPT ![t] = n]
    /\ done' = [done EXCEPT ![t] = d]
    /\ result' = "none"
    /\ queue' = [f \in End |-> IF f = e THEN queue[f] \cup {t}
                               ELSE IF f \in E THEN {} ELSE queue[f]]
    /\ WakeAll(E, t, "BLOCKED")

\* A signal is tested for after the task is linked and marked blocked.
WaitEvent(t, e, n, d, E, interrupted) ==
    IF sig[t] THEN Return(t, e, interrupted, E) ELSE Sleep(t, e, n, d, E)

(***************************************************************************)
(* pipe_read, with n bytes to go.                                          *)
(***************************************************************************)
\* A read that wakes no writer.
ReadBytesUntold(t, n) ==
    LET k == IF n <= count THEN n ELSE count IN
    /\ k > 0
    /\ tail' = (tail + k) % Size
    /\ count' = count - k
    /\ Return(t, "r", "read", {})
    /\ UNCHANGED <<buffer, head, sent, endVars, sig>>

ReadBytes(t, n) ==
    LET k == IF n <= count THEN n ELSE count IN
    /\ k > 0
    /\ tail' = (tail + k) % Size
    /\ count' = count - k
    /\ Return(t, "r", "read", {"w"})
    /\ UNCHANGED <<buffer, head, sent, endVars, sig>>

ReadNothing(t, n) ==
    /\ n = 0 \/ (count = 0 /\ writers = 0)
    /\ Return(t, "r", IF n = 0 THEN "none" ELSE "eof", {"w"})
    /\ UNCHANGED <<ringVars, endVars, sig>>

ReadWait(t, n, nonblock) ==
    /\ n > 0 /\ count = 0 /\ writers # 0
    /\ IF nonblock
       THEN Return(t, "r", "again", {})
       ELSE WaitEvent(t, "r", n, FALSE, {}, "restart")
    /\ UNCHANGED <<ringVars, endVars, sig>>

\* F: what the test of O_NONBLOCK may find, where the call comes to it.
pipe_read(t, n, F) ==
    ReadBytes(t, n) \/ ReadNothing(t, n) \/ \E nonblock \in F : ReadWait(t, n, nonblock)

(***************************************************************************)
(* pipe_write, with n bytes to go; d tells whether it has written some.    *)
(***************************************************************************)
Room == Size - count

\* The ring without its wrap-around: the bytes past its end are dropped.
PutBytesClipped(k) ==
    /\ buffer' = [i \in Slot |-> IF i >= head /\ i < head + k THEN (sent + i - head) % Modulus
                                 ELSE buffer[i]]
    /\ head' = (head + k) % Size
    /\ count' = count + k
    /\ sent' = (sent + k) % Modulus
    /\ UNCHANGED tail

PutBytes(k) ==
    /\ buffer' = [i \in Slot |->
                    LET j == (i - head) % Size IN
                    IF j < k THEN (sent + j) % Modulus ELSE buffer[i]]
    /\ head' = (head + k) % Size
    /\ count' = count + k
    /\ sent' = (sent + k) % Modulus
    /\ UNCHANGED tail

\* The writer sends SIGPIPE to itself.
WriteBroken(t, n, d) ==
    /\ n > 0 /\ readers = 0
    /\ sig' = [sig EXCEPT ![t] = TRUE]
    /\ Return(t, "w", IF d THEN "wrote" ELSE "epipe", {})
    /\ UNCHANGED <<ringVars, endVars>>

WriteBytes(t, n) ==
    /\ n = 0 \/ readers # 0
    /\ n <= Room
    /\ PutBytes(n)
    /\ Return(t, "w", IF n = 0 THEN "none" ELSE "wrote", {"r"})
    /\ UNCHANGED <<endVars, sig>>

\* The buffer fills up; the readers are woken before the writer sleeps.
WriteWait(t, n, d, nonblock) ==
    LET moved == d \/ Room > 0 IN
    /\ readers # 0
    /\ n > Room
    /\ PutBytes(Room)
    /\ IF nonblock
       THEN Return(t, "w", IF moved THEN "wrote" ELSE "again", IF moved THEN {"r"} ELSE {})
       ELSE WaitEvent(t, "w", n - Room, moved, {"r"}, IF moved THEN "wrote" ELSE "restart")
    /\ UNCHANGED <<endVars, sig>>

pipe_write(t, n, d, F) ==
    WriteBroken(t, n, d) \/ WriteBytes(t, n) \/ \E nonblock \in F : WriteWait(t, n, d, nonblock)

(***************************************************************************)
(* The calls.  fcntl may change O_NONBLOCK, a flag of the file, at any     *)
(* time.                                                                   *)
(***************************************************************************)
InUser(t) == tstate[t] = "ACTIVE" /\ pc[t] = "user"

ReadCall(t) ==
    /\ InUser(t) /\ t \in fd["r"]
    /\ \E n \in Counts : pipe_read(t, n, BOOLEAN)

WriteCall(t) ==
    /\ InUser(t) /\ t \in fd["w"]
    /\ \E n \in Counts : pipe_write(t, n, FALSE, BOOLEAN)

\* A sleeper was woken by the queue or by a signal.  The loop of
\* __wq_wait_event sleeps again while the condition does not hold, else the
\* loop of the call goes on.
ResumeRead(t) ==
    /\ pc[t] = "read" /\ tstate[t] = "ACTIVE"
    /\ pipe_read(t, want[t], {FALSE})

ResumeWrite(t) ==
    /\ pc[t] = "write" /\ tstate[t] = "ACTIVE"
    /\ IF Room = 0 /\ readers # 0
       THEN /\ WaitEvent(t, "w", want[t], done[t], {}, IF done[t] THEN "wrote" ELSE "restart")
            /\ UNCHANGED <<ringVars, endVars, sig>>
       ELSE pipe_write(t, want[t], done[t], BOOLEAN)

\* A file closed by the first reference that is put.
CloseFirst(t, e) ==
    /\ InUser(t) /\ t \in fd[e]
    /\ fd' = [fd EXCEPT ![e] = @ \ {t}]
    /\ pc' = [pc EXCEPT ![t] = e]
    /\ result' = "none"
    /\ UNCHANGED <<ringVars, readers, writers, queue, tstate, want, done, sig>>

\* vfs_file_put: the last reference to a file runs pipe_close.
Close(t, e) ==
    /\ InUser(t) /\ t \in fd[e]
    /\ fd' = [fd EXCEPT ![e] = @ \ {t}]
    /\ pc' = IF fd[e] = {t} THEN [pc EXCEPT ![t] = e] ELSE pc
    /\ result' = "none"
    /\ UNCHANGED <<ringVars, readers, writers, queue, tstate, want, done, sig>>

Closed(e, E) ==
    /\ readers' = IF e = "r" THEN readers - 1 ELSE readers
    /\ writers' = IF e = "w" THEN writers - 1 ELSE writers
    /\ queue' = [f \in End |-> IF f \in E THEN {} ELSE queue[f]]

\* A close that wakes only its own side.
pipe_close_silent(t) ==
    /\ pc[t] \in End
    /\ Closed(pc[t], {pc[t]})
    /\ WakeAll({pc[t]}, t, "ACTIVE")
    /\ pc' = [pc EXCEPT ![t] = "user"]
    /\ result' = "none"
    /\ UNCHANGED <<ringVars, fd, want, done, sig>>

pipe_close(t) ==
    /\ pc[t] \in End
    /\ Closed(pc[t], End)
    /\ WakeAll(End, t, "ACTIVE")
    /\ pc' = [pc EXCEPT ![t] = "user"]
    /\ result' = "none"
    /\ UNCHANGED <<ringVars, fd, want, done, sig>>

\* process_clone_fds: the child holds the files its parent holds.
Fork(t, u) ==
    /\ InUser(t) /\ tstate[u] = "NEW"
    /\ fd' = [e \in End |-> IF t \in fd[e] THEN fd[e] \cup {u} ELSE fd[e]]
    /\ tstate' = [tstate EXCEPT ![u] = "ACTIVE"]
    /\ result' = "none"
    /\ UNCHANGED <<ringVars, readers, writers, queue, callVars, sig>>

\* signal_send from anybody; the entry of a sleeper stays linked.
Signal(t) ==
    /\ tstate[t] # "NEW" /\ ~sig[t]
    /\ sig' = [sig EXCEPT ![t] = TRUE]
    /\ tstate' = IF tstate[t] = "BLOCKED" THEN [tstate EXCEPT ![t] = "ACTIVE"] ELSE tstate
    /\ result' = "none"
    /\ UNCHANGED <<ringVars, endVars, queue, callVars>>

\* The return to user mode runs the handler.
Handle(t) ==
    /\ InUser(t) /\ sig[t]
    /\ sig' = [sig EXCEPT ![t] = FALSE]
    /\ result' = "none"
    /\ UNCHANGED <<ringVars, endVars, queue, tstate, callVars>>

\* The end of pipe_create.
Init ==
    /\ buffer = [i \in Slot |-> 0] /\ head = 0 /\ tail = 0 /\ count = 0
    /\ readers = 1 /\ writers = 1
    /\ queue = [e \in End |-> {}]
    /\ sent = 0
    /\ fd = [e \in End |-> {Creator}]
    /\ tstate = [t \in Task |-> IF t = Creator THEN "ACTIVE" ELSE "NEW"]
    /\ pc = [t \in Task |-> "user"]
    /\ want = [t \in Task |-> 0]
    /\ done = [t \in Task |-> FALSE]
    /\ sig = [t \in Task |-> FALSE]
    /\ result = "none"

Next ==
    \E t \in Task :
        \/ ReadCall(t) \/ WriteCall(t)
        \/ ResumeRead(t) \/ ResumeWrite(t)
        \/ \E e \in End : Close(t, e)
        \/ pipe_close(t)
        \/ \E u \in Task : Fork(t, u)
        \/ Signal(t) \/ Handle(t)

Spec == Init /\ [][Next]_vars

\* The scheduler runs every task that is ready, so a sleeper that was woken
\* and a close that has begun go on.  No task has to make a call.
Fairness ==
    \A t \in Task : WF_vars(ResumeRead(t)) /\ WF_vars(ResumeWrite(t)) /\ WF_vars(pipe_close(t))

FairSpec == Spec /\ Fairness

(***************************************************************************)
(* Properties.                                                             *)
(***************************************************************************)
\* Every variable has its type; count stays within the ring.
TypeOK ==
    /\ buffer \in [Slot -> 0..(Modulus - 1)]
    /\ head \in Slot /\ tail \in Slot /\ count \in 0..Size
    /\ readers \in {0, 1} /\ writers \in {0, 1}
    /\ queue \in [End -> SUBSET Task]
    /\ sent \in 0..(Modulus - 1)
    /\ fd \in [End -> SUBSET Task]
    /\ tstate \in [Task -> {"NEW", "ACTIVE", "BLOCKED"}]
    /\ pc \in [Task -> {"user", "read", "write", "r", "w"}]
    /\ want \in [Task -> Nat]
    /\ done \in [Task -> BOOLEAN]
    /\ sig \in [Task -> BOOLEAN]
    /\ result \in {"none", "read", "wrote", "eof", "epipe", "again", "restart"}

\* A task sleeps in pipe_read or pipe_write only while it is linked into the
\* queue its wakers empty, no signal waits for it and what it waits for is not
\* there: no wake-up is lost between the test and the sleep.
SleepersHaveToWait ==
    \A t \in Task : tstate[t] = "BLOCKED" =>
        /\ ~sig[t]
        /\ \/ pc[t] = "read" /\ t \in queue["r"] /\ count = 0 /\ writers # 0
           \/ pc[t] = "write" /\ t \in queue["w"] /\ count = Size /\ readers # 0

\* The PANIC of pipe_close is unreachable and nobody uses a freed pipe: when
\* the second end is about to be closed, or both are, no task but the closing
\* one is queued on the pipe, is in a call on it or holds a file of it.
LastCloseIsAlone ==
    \A t \in Task, e \in End :
        (pc[t] = e /\ (IF e = "r" THEN writers ELSE readers) = 0) \/ readers + writers = 0 =>
            /\ \A f \in End : queue[f] = {} /\ fd[f] = {}
            /\ \A u \in Task : pc[u] \notin {"read", "write"}

\* Every sleeper that was signalled, or whose other end lost its last
\* descriptor, returns from its call.
CallsReturn ==
    \A t \in Task, e \in End :
        pc[t] = Waiting(e) /\ (sig[t] \/ fd[Other(e)] = {}) ~> pc[t] = "user"

\* The pipe implements a byte channel: what is read is what was written, in
\* order, once; end of file, EPIPE and EAGAIN are true when they are returned;
\* a call that has moved bytes reports them.
Channel == INSTANCE ByteChannel WITH
    Capacity <- Size,
    Caller <- Task,
    chan <- [i \in 1..count |-> buffer[(tail + i - 1) % Size]],
    next <- sent,
    ends <- (IF readers # 0 THEN {"r"} ELSE {}) \cup (IF writers # 0 THEN {"w"} ELSE {}),
    partial <- {t \in Task : done[t]}

IsByteChannel == Channel!Spec
=============================================================================
