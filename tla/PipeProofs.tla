----------------------------- MODULE PipeProofs -----------------------------
(***************************************************************************)
(* Pipe, for rings of any size, any number of tasks and any counts.        *)
(***************************************************************************)
EXTENDS Pipe, TLAPS

\* As much of the types as the proofs need: nothing about the bytes in the ring.
Typed ==
    /\ count \in 0..Size
    /\ readers \in {0, 1} /\ writers \in {0, 1}
    /\ queue \in [End -> SUBSET Task]
    /\ fd \in [End -> SUBSET Task]
    /\ tstate \in [Task -> {"NEW", "ACTIVE", "BLOCKED"}]
    /\ pc \in [Task -> {"user", "read", "write", "r", "w"}]
    /\ want \in [Task -> Nat]
    /\ done \in [Task -> BOOLEAN]
    /\ sig \in [Task -> BOOLEAN]

\* The counter of an end that struct pipe keeps.
Opened(e) == IF e = "r" THEN readers ELSE writers

\* A task is linked only within a call on that end, and has the file of the end all through it.
Linked == \A e \in End : \A t \in queue[e] : pc[t] = Waiting(e)
Holding == \A t \in Task, e \in End : pc[t] = Waiting(e) => t \in fd[e]

\* An end is counted from pipe_create to pipe_close, which the last of its holders runs alone.
Counted == \A e \in End :
    /\ fd[e] # {} => Opened(e) = 1 /\ \A t \in Task : pc[t] # e
    /\ \A t \in Task : pc[t] = e => Opened(e) = 1
    /\ \A t, u \in Task : pc[t] = e /\ pc[u] = e => t = u

PipeInv == Typed /\ SleepersHaveToWait /\ Linked /\ Holding /\ Counted

-----------------------------------------------------------------------------
LEMMA PipeStart == Init => PipeInv
<1> SUFFICES ASSUME Init PROVE PipeInv
  OBVIOUS
<1>1. Typed
  BY PipeAssumption DEF Init, Typed, End
<1>2. SleepersHaveToWait /\ Linked /\ Holding /\ Counted
  BY PipeAssumption DEF Init, SleepersHaveToWait, Linked, Holding, Counted, Opened, Waiting, End
<1> QED
  BY <1>1, <1>2 DEF PipeInv

(* Whoever is asleep when the fill of the ring changes is in a queue that this step empties. *)
WakesSleepers(t, E) ==
    \A u \in Task \ {t} :
        tstate[u] = "BLOCKED" => count' = count \/ \E f \in E : u \in queue[f]

\* A step in which t leaves a call, or never slept in it.
LEMMA ReturnKeeps ==
    ASSUME PipeInv, NEW t \in Task, NEW e \in End, NEW r, NEW E \in SUBSET End,
           Return(t, e, r, E), WakesSleepers(t, E), UNCHANGED endVars,
           pc[t] \notin End, count' \in 0..Size,
           sig' \in [Task -> BOOLEAN], \A u \in Task \ {t} : sig'[u] = sig[u]
    PROVE  PipeInv'
<1> USE DEF PipeInv
<1>1. /\ pc' = [pc EXCEPT ![t] = "user"] /\ UNCHANGED <<readers, writers, fd>>
      /\ pc'[t] = "user" /\ \A u \in Task \ {t} : pc'[u] = pc[u]
      /\ \A f \in End : queue'[f] \subseteq queue[f] \ {t}
      /\ \A f \in End \ E : queue'[f] = queue[f] \ {t}
  BY DEF Return, endVars, Typed
<1>2. /\ tstate'[t] = "ACTIVE"
      /\ \A u \in Task : tstate'[u] = "BLOCKED" =>
             u # t /\ tstate[u] = "BLOCKED" /\ \A f \in E : u \notin queue[f]
  BY DEF Return, WakeAll, Typed
<1>3. Typed'
  <2>1. tstate' \in [Task -> {"NEW", "ACTIVE", "BLOCKED"}] /\ want' \in [Task -> Nat]
    BY DEF Typed, Return, WakeAll
  <2>2. done' \in [Task -> BOOLEAN] /\ queue' \in [End -> SUBSET Task]
    BY DEF Typed, Return
  <2> QED
    BY <1>1, <2>1, <2>2, Zenon DEF Typed
<1>4. SleepersHaveToWait'
  <2> SUFFICES ASSUME NEW u \in Task, tstate'[u] = "BLOCKED"
               PROVE  /\ ~sig'[u]
                      /\ \/ pc'[u] = "read" /\ u \in queue'["r"] /\ count' = 0 /\ writers' # 0
                         \/ pc'[u] = "write" /\ u \in queue'["w"] /\ count' = Size /\ readers' # 0
    BY DEF SleepersHaveToWait
  <2>1. u # t /\ tstate[u] = "BLOCKED" /\ count' = count /\ \A f \in E : u \notin queue[f]
    BY <1>2 DEF WakesSleepers
  <2>2. \A f \in End : u \in queue[f] => u \in queue'[f]
    BY <1>1, <2>1
  <2> QED
    BY <1>1, <2>1, <2>2 DEF SleepersHaveToWait, End
<1>5. Linked'
  BY <1>1 DEF Linked, Typed
<1>6. Holding'
  BY <1>1 DEF Holding, Waiting
<1>7. Counted'
  BY <1>1 DEF Counted, Opened, End
<1> QED
  BY <1>3, <1>4, <1>5, <1>6, <1>7

\* A step in which t goes to sleep on end e.
LEMMA SleepKeeps ==
    ASSUME PipeInv, NEW t \in Task, NEW e \in End, NEW n \in Nat, NEW d \in BOOLEAN,
           NEW E \in SUBSET {Other(e)}, Sleep(t, e, n, d, E), WakesSleepers(t, E),
           UNCHANGED <<endVars, sig>>, ~sig[t], t \in fd[e], pc[t] \in {"user", Waiting(e)},
           count' \in 0..Size,
           e = "r" => count' = 0 /\ writers # 0,
           e = "w" => count' = Size /\ readers # 0
    PROVE  PipeInv'
<1> USE DEF PipeInv
<1>1. /\ pc' = [pc EXCEPT ![t] = Waiting(e)] /\ UNCHANGED <<readers, writers, fd, sig>>
      /\ pc'[t] = Waiting(e) /\ \A u \in Task \ {t} : pc'[u] = pc[u]
      /\ queue'[e] = queue[e] \cup {t}
      /\ \A f \in End \ {e} : queue'[f] \subseteq queue[f]
      /\ \A f \in (End \ {e}) \ E : queue'[f] = queue[f]
  BY DEF Sleep, endVars, Typed
<1>2. \A u \in Task \ {t} : tstate'[u] = "BLOCKED" =>
          tstate[u] = "BLOCKED" /\ \A f \in E : u \notin queue[f]
  BY DEF Sleep, WakeAll, Typed
<1>3. Typed'
  BY <1>1 DEF Typed, Sleep, WakeAll, Waiting
<1>4. SleepersHaveToWait'
  <2> SUFFICES ASSUME NEW u \in Task, tstate'[u] = "BLOCKED"
               PROVE  /\ ~sig'[u]
                      /\ \/ pc'[u] = "read" /\ u \in queue'["r"] /\ count' = 0 /\ writers' # 0
                         \/ pc'[u] = "write" /\ u \in queue'["w"] /\ count' = Size /\ readers' # 0
    BY DEF SleepersHaveToWait
  <2>1. CASE u = t
    BY <2>1, <1>1 DEF Waiting, End
  <2>2. CASE u # t
    <3>1. tstate[u] = "BLOCKED" /\ count' = count /\ \A f \in E : u \notin queue[f]
      BY <2>2, <1>2 DEF WakesSleepers
    <3>2. \A f \in End : u \in queue[f] => u \in queue'[f]
      BY <1>1, <3>1
    <3> QED
      BY <2>2, <1>1, <3>1, <3>2 DEF SleepersHaveToWait, End
  <2> QED
    BY <2>1, <2>2
<1>5. Linked'
  BY <1>1 DEF Linked, Typed, Waiting, End
<1>6. Holding'
  BY <1>1 DEF Holding, Waiting, End
<1>7. Counted'
  BY <1>1 DEF Counted, Opened, Waiting, End
<1> QED
  BY <1>3, <1>4, <1>5, <1>6, <1>7

-----------------------------------------------------------------------------
\* What the two calls know of their caller: it came from user mode or has slept in this call.
InCall(t, e) == t \in fd[e] /\ pc[t] \in {"user", Waiting(e)}

LEMMA ReadKeeps ==
    ASSUME PipeInv, NEW t \in Task, NEW n \in Nat, NEW F \in SUBSET BOOLEAN, InCall(t, "r"),
           pipe_read(t, n, F)
    PROVE  PipeInv'
<1>1. /\ Typed /\ SleepersHaveToWait /\ pc[t] \notin End /\ "r" \in End /\ {"w"} \in SUBSET End
      /\ {} \in SUBSET End /\ {} \in SUBSET {Other("r")} /\ sig \in [Task -> BOOLEAN] /\ count \in 0..Size
  BY DEF PipeInv, Typed, InCall, Waiting, End
<1>2. CASE ReadBytes(t, n)
  <2>1. count > 0 /\ count' \in 0..Size /\ sig' = sig /\ UNCHANGED endVars
    BY <1>1, <1>2, PipeAssumption DEF ReadBytes
  <2>2. WakesSleepers(t, {"w"})
    BY <1>1, <2>1 DEF WakesSleepers, SleepersHaveToWait
  <2> QED
    BY <1>1, <1>2, <2>1, <2>2, ReturnKeeps DEF ReadBytes
<1>3. CASE ReadNothing(t, n)
  <2>1. count' = count /\ sig' = sig /\ UNCHANGED endVars
    BY <1>3 DEF ReadNothing, ringVars
  <2>2. WakesSleepers(t, {"w"})
    BY <2>1 DEF WakesSleepers
  <2> QED
    BY <1>1, <1>3, <2>1, <2>2, ReturnKeeps DEF ReadNothing
<1>4. ASSUME NEW nonblock \in F, ReadWait(t, n, nonblock)
      PROVE  PipeInv'
  <2>1. count' = count /\ count = 0 /\ writers # 0 /\ sig' = sig /\ UNCHANGED endVars
    BY <1>4 DEF ReadWait, ringVars
  <2>2. WakesSleepers(t, {})
    BY <2>1 DEF WakesSleepers
  <2>3. CASE nonblock
    BY <1>1, <1>4, <2>1, <2>2, <2>3, ReturnKeeps DEF ReadWait
  <2>4. CASE ~nonblock /\ sig[t]
    BY <1>1, <1>4, <2>1, <2>2, <2>4, ReturnKeeps DEF ReadWait, WaitEvent
  <2>5. CASE ~nonblock /\ ~sig[t]
    <3>1. Sleep(t, "r", n, FALSE, {})
      BY <1>4, <2>5, Zenon DEF ReadWait, WaitEvent
    <3> QED
      BY <1>1, <2>1, <2>2, <2>5, <3>1, SleepKeeps, Zenon DEF InCall
  <2> QED
    BY <2>3, <2>4, <2>5
<1> QED
  BY <1>2, <1>3, <1>4 DEF pipe_read

LEMMA WriteKeeps ==
    ASSUME PipeInv, NEW t \in Task, NEW n \in Nat, NEW d \in BOOLEAN, NEW F \in SUBSET BOOLEAN,
           InCall(t, "w"), pipe_write(t, n, d, F)
    PROVE  PipeInv'
<1>1. /\ Typed /\ SleepersHaveToWait /\ pc[t] \notin End /\ "w" \in End /\ {"r"} \in SUBSET End
      /\ {} \in SUBSET End /\ {"r"} \in SUBSET {Other("w")} /\ sig \in [Task -> BOOLEAN]
      /\ count \in 0..Size /\ Room \in Nat
  BY PipeAssumption DEF PipeInv, Typed, InCall, Waiting, End, Other, Room
<1>2. CASE WriteBroken(t, n, d)
  <2>1. /\ count' = count /\ UNCHANGED endVars /\ sig' \in [Task -> BOOLEAN]
        /\ \A u \in Task \ {t} : sig'[u] = sig[u]
    BY <1>1, <1>2 DEF WriteBroken, ringVars
  <2>2. WakesSleepers(t, {})
    BY <2>1 DEF WakesSleepers
  <2> QED
    BY <1>1, <1>2, <2>1, <2>2, ReturnKeeps, Zenon DEF WriteBroken
<1>3. CASE WriteBytes(t, n)
  <2>1. count' = count + n /\ n <= Size - count /\ sig' = sig /\ UNCHANGED endVars
    BY <1>3 DEF WriteBytes, PutBytes, Room
  <2>2. count' \in 0..Size
    BY <1>1, <2>1, PipeAssumption
  <2>3. WakesSleepers(t, {"r"})
    BY <1>1, <2>1, PipeAssumption DEF WakesSleepers, SleepersHaveToWait
  <2> QED
    BY <1>1, <1>3, <2>1, <2>2, <2>3, ReturnKeeps DEF WriteBytes
<1>4. ASSUME NEW nonblock \in F, WriteWait(t, n, d, nonblock)
      PROVE  PipeInv'
  <2>1. /\ count' = Size /\ readers # 0 /\ n > Room /\ sig' = sig /\ UNCHANGED endVars
        /\ count' \in 0..Size /\ n - Room \in Nat
    BY <1>1, <1>4, PipeAssumption DEF WriteWait, PutBytes, Room
  <2>2. WakesSleepers(t, {"r"})
    BY <1>1, <2>1 DEF WakesSleepers, SleepersHaveToWait
  <2>3. CASE nonblock /\ (d \/ Room > 0)
    <3>1. \E r : Return(t, "w", r, {"r"})
      BY <1>4, <2>3 DEF WriteWait
    <3> QED
      BY <1>1, <2>1, <2>2, <3>1, ReturnKeeps
  <2>4. CASE nonblock /\ ~(d \/ Room > 0)
    <3>1. \E r : Return(t, "w", r, {})
      BY <1>4, <2>4 DEF WriteWait
    <3>2. WakesSleepers(t, {})
      BY <1>1, <2>1, <2>4, PipeAssumption DEF WakesSleepers, Room
    <3> QED
      BY <1>1, <2>1, <3>1, <3>2, ReturnKeeps
  <2>5. CASE ~nonblock /\ sig[t]
    <3>1. \E r : Return(t, "w", r, {"r"})
      BY <1>4, <2>5 DEF WriteWait, WaitEvent
    <3> QED
      BY <1>1, <2>1, <2>2, <3>1, ReturnKeeps
  <2>6. CASE ~nonblock /\ ~sig[t]
    <3>1. Sleep(t, "w", n - Room, d \/ Room > 0, {"r"})
      BY <1>4, <2>6 DEF WriteWait, WaitEvent
    <3>2. (d \/ Room > 0) \in BOOLEAN
      OBVIOUS
    <3> QED
      BY <1>1, <2>1, <2>2, <2>6, <3>1, <3>2, SleepKeeps, Zenon DEF InCall
  <2> QED
    BY <2>3, <2>4, <2>5, <2>6
<1> QED
  BY <1>2, <1>3, <1>4 DEF pipe_write

LEMMA ResumeWriteKeeps ==
    ASSUME PipeInv, NEW t \in Task, ResumeWrite(t)
    PROVE  PipeInv'
<1>1. /\ InCall(t, "w") /\ want[t] \in Nat /\ done[t] \in BOOLEAN /\ pc[t] \notin End
      /\ "w" \in End /\ {} \in SUBSET End /\ {} \in SUBSET {Other("w")}
      /\ sig \in [Task -> BOOLEAN] /\ count \in 0..Size
  BY DEF PipeInv, Typed, Holding, InCall, ResumeWrite, Waiting, End
<1>2. CASE Room = 0 /\ readers # 0
  <2>1. count' = count /\ count = Size /\ sig' = sig /\ UNCHANGED endVars
    BY <1>1, <1>2, PipeAssumption DEF ResumeWrite, ringVars, Room
  <2>2. WakesSleepers(t, {})
    BY <2>1 DEF WakesSleepers
  <2>3. CASE sig[t]
    <3>1. \E r : Return(t, "w", r, {})
      BY <1>2, <2>3 DEF ResumeWrite, WaitEvent
    <3> QED
      BY <1>1, <2>1, <2>2, <3>1, ReturnKeeps
  <2>4. CASE ~sig[t]
    <3>1. Sleep(t, "w", want[t], done[t], {})
      BY <1>2, <2>4 DEF ResumeWrite, WaitEvent
    <3> QED
      BY <1>1, <1>2, <2>1, <2>2, <2>4, <3>1, SleepKeeps DEF InCall
  <2> QED
    BY <2>3, <2>4
<1>3. CASE ~(Room = 0 /\ readers # 0)
  <2>1. pipe_write(t, want[t], done[t], BOOLEAN)
    BY <1>3 DEF ResumeWrite
  <2> QED
    BY <1>1, <2>1, WriteKeeps
<1> QED
  BY <1>2, <1>3

LEMMA CloseKeeps ==
    ASSUME PipeInv, NEW t \in Task, NEW e \in End, Close(t, e)
    PROVE  PipeInv'
<1> USE DEF PipeInv
<1>1. /\ count' = count /\ UNCHANGED <<readers, writers, queue, tstate, want, done, sig>>
      /\ tstate[t] = "ACTIVE" /\ pc[t] = "user" /\ t \in fd[e]
      /\ fd'[e] = fd[e] \ {t} /\ \A f \in End \ {e} : fd'[f] = fd[f]
      /\ pc'[t] = (IF fd[e] = {t} THEN e ELSE "user") /\ \A u \in Task \ {t} : pc'[u] = pc[u]
  BY DEF Close, InUser, ringVars, Typed
<1>2. Typed'
  BY <1>1 DEF Typed, Close, End
<1>3. SleepersHaveToWait'
  BY <1>1 DEF SleepersHaveToWait
<1>4. Linked' /\ Holding'
  BY <1>1 DEF Linked, Holding, Typed, Waiting, End
<1>5. Counted'
  BY <1>1 DEF Counted, Opened, Typed, End
<1> QED
  BY <1>2, <1>3, <1>4, <1>5

LEMMA pipe_closeKeeps ==
    ASSUME PipeInv, NEW t \in Task, pipe_close(t)
    PROVE  PipeInv'
<1> USE DEF PipeInv
<1> DEFINE e == pc[t]
<1>1. /\ e \in End /\ UNCHANGED <<fd, want, done, sig, count>> /\ \A f \in End : queue'[f] = {}
      /\ pc'[t] = "user" /\ \A u \in Task \ {t} : pc'[u] = pc[u]
  BY DEF pipe_close, Closed, ringVars, Typed
<1>2. /\ readers' = (IF e = "r" THEN readers - 1 ELSE readers)
      /\ writers' = (IF e = "w" THEN writers - 1 ELSE writers)
  BY DEF pipe_close, Closed
<1>3. Opened(e) = 1 /\ fd[e] = {} /\ \A u \in Task \ {t} : pc[u] # e
  BY <1>1 DEF Counted
<1>4. Typed'
  <2>1. tstate' \in [Task -> {"NEW", "ACTIVE", "BLOCKED"}] /\ queue' \in [End -> SUBSET Task]
    BY DEF Typed, pipe_close, Closed, WakeAll
  <2>2. readers' \in {0, 1} /\ writers' \in {0, 1}
    BY <1>1, <1>2, <1>3 DEF Typed, Opened, End
  <2> QED
    BY <1>1, <2>1, <2>2, Zenon DEF Typed, pipe_close
<1>5. SleepersHaveToWait'
  BY DEF SleepersHaveToWait, pipe_close, WakeAll, End
<1>6. Linked' /\ Holding'
  BY <1>1 DEF Linked, Holding, Waiting, End
<1>7. Counted'
  BY <1>1, <1>2, <1>3 DEF Counted, Opened, End
<1> QED
  BY <1>4, <1>5, <1>6, <1>7

LEMMA ForkKeeps ==
    ASSUME PipeInv, NEW t \in Task, NEW u \in Task, Fork(t, u)
    PROVE  PipeInv'
<1> USE DEF PipeInv
<1>1. /\ count' = count /\ UNCHANGED <<readers, writers, queue, pc, want, done, sig>>
      /\ \A e \in End : fd[e] \subseteq fd'[e] /\ (fd'[e] # {} => fd[e] # {})
      /\ \A x \in Task : tstate'[x] = "BLOCKED" => tstate[x] = "BLOCKED"
  BY DEF Fork, InUser, ringVars, callVars, Typed
<1>2. Typed'
  BY <1>1 DEF Typed, Fork
<1>3. SleepersHaveToWait'
  BY <1>1 DEF SleepersHaveToWait
<1>4. Linked' /\ Holding' /\ Counted'
  BY <1>1 DEF Linked, Holding, Counted, Opened
<1> QED
  BY <1>2, <1>3, <1>4

LEMMA SignalsKeep ==
    ASSUME PipeInv, NEW t \in Task, Signal(t) \/ Handle(t)
    PROVE  PipeInv'
<1> USE DEF PipeInv
<1>1. /\ UNCHANGED <<count, readers, writers, fd, queue, pc, want, done>>
      /\ \A u \in Task : tstate'[u] = "BLOCKED" => tstate[u] = "BLOCKED" /\ sig'[u] = sig[u]
  BY DEF Signal, Handle, InUser, ringVars, endVars, callVars, Typed
<1>2. Typed'
  BY <1>1, Zenon DEF Typed, Signal, Handle
<1>3. SleepersHaveToWait'
  BY <1>1 DEF SleepersHaveToWait
<1>4. Linked' /\ Holding' /\ Counted'
  BY <1>1 DEF Linked, Holding, Counted, Opened
<1> QED
  BY <1>2, <1>3, <1>4

-----------------------------------------------------------------------------
LEMMA PipeStep == PipeInv /\ [Next]_vars => PipeInv'
<1> SUFFICES ASSUME PipeInv, [Next]_vars PROVE PipeInv'
  OBVIOUS
<1>1. CASE Next
  <2>1. PICK t \in Task :
            \/ ReadCall(t) \/ WriteCall(t) \/ ResumeRead(t) \/ ResumeWrite(t)
            \/ (\E e \in End : Close(t, e)) \/ pipe_close(t)
            \/ (\E u \in Task : Fork(t, u)) \/ Signal(t) \/ Handle(t)
    BY <1>1 DEF Next
  <2>2. CASE ReadCall(t)
    <3>1. PICK n \in Nat : pipe_read(t, n, BOOLEAN)
      BY <2>2, PipeAssumption DEF ReadCall
    <3>2. InCall(t, "r")
      BY <2>2 DEF ReadCall, InUser, InCall
    <3> QED
      BY <3>1, <3>2, ReadKeeps
  <2>3. CASE WriteCall(t)
    <3>1. PICK n \in Nat : pipe_write(t, n, FALSE, BOOLEAN)
      BY <2>3, PipeAssumption, Zenon DEF WriteCall
    <3>2. InCall(t, "w")
      BY <2>3 DEF WriteCall, InUser, InCall
    <3> QED
      BY <3>1, <3>2, WriteKeeps, Zenon
  <2>4. CASE ResumeRead(t)
    <3>1. InCall(t, "r") /\ want[t] \in Nat
      BY <2>4 DEF PipeInv, Typed, Holding, ResumeRead, InCall, Waiting, End
    <3> QED
      BY <2>4, <3>1, ReadKeeps, Zenon DEF ResumeRead
  <2> QED
    BY <2>1, <2>2, <2>3, <2>4, ResumeWriteKeeps, CloseKeeps, pipe_closeKeeps, ForkKeeps, SignalsKeep
<1>2. CASE UNCHANGED vars
  BY <1>2 DEF vars, PipeInv, Typed, SleepersHaveToWait, Linked, Holding, Counted, Opened
<1> QED
  BY <1>1, <1>2

LEMMA InvShowsAlone == PipeInv => LastCloseIsAlone
<1> SUFFICES ASSUME PipeInv, NEW t \in Task, NEW e \in End,
                    \/ pc[t] = e /\ (IF e = "r" THEN writers ELSE readers) = 0
                    \/ readers + writers = 0
             PROVE  /\ \A f \in End : queue[f] = {} /\ fd[f] = {}
                    /\ \A u \in Task : pc[u] \notin {"read", "write"}
  BY DEF LastCloseIsAlone
<1>1. \A f \in End : fd[f] = {}
  <2>1. CASE pc[t] = e /\ (IF e = "r" THEN writers ELSE readers) = 0
    BY <2>1 DEF PipeInv, Counted, Opened, End
  <2>2. CASE readers + writers = 0
    BY <2>2 DEF PipeInv, Typed, Counted, Opened, End
  <2> QED
    BY <2>1, <2>2
<1>2. \A u \in Task : pc[u] \notin {"read", "write"}
  BY <1>1 DEF PipeInv, Holding, Waiting, End
<1>3. \A f \in End : queue[f] = {}
  BY <1>2 DEF PipeInv, Typed, Linked, Waiting, End
<1> QED
  BY <1>1, <1>2, <1>3

(***************************************************************************)
(* No wake-up of pipe_read and pipe_write is lost: a task that sleeps in   *)
(* them is linked where its wakers look and still has to wait.             *)
(***************************************************************************)
THEOREM NoLostWakeup == Spec => []SleepersHaveToWait
<1>1. PipeInv => SleepersHaveToWait
  BY DEF PipeInv
<1> QED
  BY PipeStart, PipeStep, <1>1, PTL DEF Spec

(***************************************************************************)
(* pipe_close frees the pipe, past its PANIC, with nobody left to use it.  *)
(***************************************************************************)
THEOREM NobodyUsesAFreedPipe == Spec => []LastCloseIsAlone
  BY PipeStart, PipeStep, InvShowsAlone, PTL DEF Spec
=============================================================================
