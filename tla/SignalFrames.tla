---------------------------- MODULE SignalFrames -----------------------------
(***************************************************************************)
(* One process and its signal handlers (core/signals.c): the frames that   *)
(* delivery pushes on the user stack and sigreturn pops, the masks they    *)
(* carry, the alternate stack, and the calls that a signal interrupts and  *)
(* the kernel issues again: a read, sigsuspend and nanosleep.  Every       *)
(* return to user mode, from an interrupt too, goes through                *)
(* signal_handle_pending.  Signals are small numbers, in the order of      *)
(* their bits; who sends them and may do so is in Process.  A program does *)
(* not write to its frames.                                                *)
(***************************************************************************)
EXTENDS Integers, Sequences, FiniteSets

CONSTANTS
    Default,            \* signal_default_action, for the signals there are
    Fault,              \* SIGSEGV
    SigActions,         \* what the program passes to sigaction
    SetMasks,           \* and to sigprocmask and sigsuspend
    Naps,               \* how long it sleeps
    StackRoom,          \* the frames that fit on each stack
    LastTick            \* the clock stops here

VARIABLES
    posted, mask,       \* pending_signals, blocked_signals
    disp,               \* signal_handlers
    saved_sigmask,      \* with has_saved_sigmask
    sleep_resume_at,
    altstack,           \* sigaltstack is set
    frames,             \* the frames on the user stacks
    user,               \* the registers, and what the program there expects
    mode,               \* what the task does in the kernel, if it is there
    clock

sigVars == <<posted, mask, disp, saved_sigmask, sleep_resume_at, altstack, frames, user, mode, clock>>

Sigs == DOMAIN Default
NoMask == {0 - 1}
NotSet == 0 - 1
SigDfl == [handler |-> "DFL"]
InUser == [at |-> "user"]
Dead == [at |-> "dead"]

\* signal_handle_pending: after a system call whose result is still in x0 (in_syscall), or not.
Return == [at |-> "deliver", active |-> FALSE]
Restart(nohand) == [at |-> "deliver", active |-> TRUE, nohand |-> nohand]

signal_pending == posted \ mask # {}
Lowest(S) == CHOOSE s \in S : \A t \in S : s <= t
NoCall == [user EXCEPT !.op = "run", !.arg = 0, !.due = 0]

signal_on_altstack == altstack /\ user.sp.stack = "alt"
altstack_usable == altstack /\ ~signal_on_altstack
-----------------------------------------------------------------------------
(* Signals arrive at any time: signal_send_target_locked. *)

signal_discarded(s) ==
    disp[s].handler = "IGN" \/ (disp[s].handler = "DFL" /\ Default[s] = "ign")

Arrive(s) ==
    /\ mode # Dead /\ ~signal_discarded(s)
    /\ posted' = posted \cup {s}
    /\ UNCHANGED <<mask, disp, saved_sigmask, sleep_resume_at, altstack, frames, user, mode, clock>>

Tick ==
    /\ clock < LastTick /\ clock' = clock + 1
    /\ UNCHANGED <<posted, mask, disp, saved_sigmask, sleep_resume_at, altstack, frames, user, mode>>
-----------------------------------------------------------------------------
(* What the program does.  Until a call that is to be issued again has been,   *)
(* it can only be interrupted.                                                 *)

\* An interrupt that has nothing to do with the program.
Interrupt ==
    /\ mode = InUser /\ mode' = Return
    /\ UNCHANGED <<posted, mask, disp, saved_sigmask, sleep_resume_at, altstack, frames, user, clock>>

\* A faulting instruction: a signal that is ignored or blocked gets its default action back.
signal_raise_fault ==
    /\ mode = InUser /\ user.op = "run" /\ mode' = Return
    /\ posted' = posted \cup {Fault}
    /\ disp' = IF disp[Fault].handler = "IGN" \/ Fault \in mask
               THEN [disp EXCEPT ![Fault] = SigDfl] ELSE disp
    /\ mask' = mask \ {Fault}
    /\ user' = [user EXCEPT !.faulted = TRUE, !.mask = @ \ {Fault}]
    /\ UNCHANGED <<saved_sigmask, sleep_resume_at, altstack, frames, clock>>

sigaction(s, a) ==
    /\ mode = InUser /\ user.op = "run" /\ mode' = Return
    /\ disp' = [disp EXCEPT ![s] = a]
    /\ posted' = IF a.handler = "IGN" THEN posted \ {s} ELSE posted
    /\ UNCHANGED <<mask, saved_sigmask, sleep_resume_at, altstack, frames, user, clock>>

sigprocmask(m) ==
    /\ mode = InUser /\ user.op = "run" /\ mode' = Return
    /\ mask' = m /\ user' = [user EXCEPT !.mask = m]
    /\ UNCHANGED <<posted, disp, saved_sigmask, sleep_resume_at, altstack, frames, clock>>

\* sigaltstack, which refuses a caller that is on it.
sigaltstack(on) ==
    /\ mode = InUser /\ user.op = "run" /\ mode' = Return
    /\ ~signal_on_altstack
    /\ altstack' = on
    /\ UNCHANGED <<posted, mask, disp, saved_sigmask, sleep_resume_at, frames, user, clock>>

\* The handler returns through its restorer.
sigreturn ==
    /\ mode = InUser /\ user.op = "run" /\ mode' = Return
    /\ frames # <<>>
    /\ \E f \in {frames[Len(frames)]} : user' = f.user /\ mask' = f.saved_mask
    /\ frames' = SubSeq(frames, 1, Len(frames) - 1)
    /\ UNCHANGED <<posted, disp, saved_sigmask, sleep_resume_at, altstack, clock>>

\* The calls that may sleep: made by the program, or issued again.
Read ==
    /\ mode = InUser /\ user.op \in {"run", "read"}
    /\ user' = [user EXCEPT !.op = "read"]
    /\ mode' = [at |-> "read"]
    /\ UNCHANGED <<posted, mask, disp, saved_sigmask, sleep_resume_at, altstack, frames, clock>>
ReadEnds ==
    /\ mode.at = "read"
    /\ \/ mode' = Return /\ user' = NoCall
       \/ signal_pending /\ mode' = Restart(FALSE) /\ UNCHANGED user
    /\ UNCHANGED <<posted, mask, disp, saved_sigmask, sleep_resume_at, altstack, frames, clock>>

sigsuspend ==
    /\ mode = InUser /\ user.op \in {"run", "suspend"}
    /\ \E m \in SetMasks :
        /\ user.op = "suspend" => user.arg = m
        /\ mask' = m /\ user' = [user EXCEPT !.op = "suspend", !.arg = m]
    /\ mode' = [at |-> "suspend", saved_mask |-> mask]
    /\ UNCHANGED <<posted, disp, saved_sigmask, sleep_resume_at, altstack, frames, clock>>
SuspendEnds ==
    /\ mode.at = "suspend" /\ signal_pending
    /\ saved_sigmask' = mode.saved_mask
    /\ mode' = Restart(TRUE)
    /\ UNCHANGED <<posted, mask, disp, sleep_resume_at, altstack, frames, user, clock>>

\* user.due is when the sleep that the program asked for is over.
nanosleep ==
    /\ mode = InUser /\ user.op \in {"run", "sleep"}
    /\ \E ms \in Naps :
        /\ user.op = "sleep" => user.arg = ms
        /\ user.op = "run" => clock + ms <= LastTick
        /\ mode' = [at |-> "sleep", deadline |-> IF sleep_resume_at # NotSet THEN sleep_resume_at
                                                 ELSE clock + ms]
        /\ user' = [user EXCEPT !.op = "sleep", !.arg = ms,
                                !.due = IF user.op = "sleep" THEN @ ELSE clock + ms]
    /\ sleep_resume_at' = NotSet
    /\ UNCHANGED <<posted, mask, disp, saved_sigmask, altstack, frames, clock>>
SleepEnds ==
    /\ mode.at = "sleep"
    /\ \/ /\ clock >= mode.deadline
          /\ mode' = [at |-> "slept"] /\ UNCHANGED sleep_resume_at
       \/ /\ clock < mode.deadline /\ signal_pending
          /\ sleep_resume_at' = mode.deadline
          /\ mode' = Restart(TRUE)
    /\ UNCHANGED <<posted, mask, disp, saved_sigmask, altstack, frames, user, clock>>
SleepReturns ==
    /\ mode.at = "slept"
    /\ mode' = Return /\ user' = NoCall
    /\ UNCHANGED <<posted, mask, disp, saved_sigmask, sleep_resume_at, altstack, frames, clock>>
-----------------------------------------------------------------------------
(* signal_deliver_one, for the lowest signal that is deliverable. *)

Delivers(s) == mode.at = "deliver" /\ signal_pending /\ s = Lowest(posted \ mask)

\* Ignored, or its default is to do nothing or to stop; a stop lasts for any time.
Dropped(s) ==
    /\ Delivers(s)
    /\ \/ disp[s].handler = "IGN"
       \/ disp[s].handler = "DFL" /\ Default[s] \in {"ign", "stop"}
    /\ posted' = posted \ {s}
    /\ UNCHANGED <<mask, disp, saved_sigmask, sleep_resume_at, altstack, frames, user, mode, clock>>

HasHandler(s) == disp[s].handler = "CATCH"
NewSp(s) == IF "ONSTACK" \in disp[s].flags /\ altstack_usable THEN [stack |-> "alt", depth |-> 1]
            ELSE [user.sp EXCEPT !.depth = @ + 1]
FrameFits(sp) == sp.depth <= StackRoom[sp.stack]

Terminated(s) ==
    /\ Delivers(s)
    /\ IF HasHandler(s) THEN ~FrameFits(NewSp(s)) ELSE disp[s].handler = "DFL" /\ Default[s] = "term"
    /\ mode' = Dead
    /\ frames' = <<>> /\ posted' = {}
    /\ UNCHANGED <<mask, disp, saved_sigmask, sleep_resume_at, altstack, user, clock>>

NewMask(s) == mask \cup disp[s].sa_mask \cup (IF "NODEFER" \in disp[s].flags THEN {} ELSE {s})

\* The context that the frame saves: the call is issued again, or has failed with EINTR.
Interrupted(s) ==
    IF mode.active /\ (mode.nohand \/ "RESTART" \notin disp[s].flags) THEN NoCall ELSE user

\* Mutant: the frame has the mask of the moment, the one that sigsuspend set.
FrameMaskNow == mask

FrameMask == IF saved_sigmask # NoMask THEN saved_sigmask ELSE mask

\* A handler is entered; nothing more is delivered on this return.
Handler(s) ==
    /\ Delivers(s) /\ HasHandler(s) /\ FrameFits(NewSp(s))
    /\ posted' = posted \ {s}
    /\ mask' = NewMask(s)
    /\ frames' = Append(frames, [user |-> Interrupted(s), saved_mask |-> FrameMask])
    /\ user' = [op |-> "run", arg |-> 0, due |-> 0, sp |-> NewSp(s), mask |-> NewMask(s), faulted |-> FALSE]
    /\ saved_sigmask' = NoMask
    /\ sleep_resume_at' = NotSet
    /\ disp' = IF "RESETHAND" \in disp[s].flags THEN [disp EXCEPT ![s] = SigDfl] ELSE disp
    /\ mode' = InUser
    /\ UNCHANGED <<altstack, clock>>

\* Nothing more is deliverable: signal_handle_pending puts the mask back and rewinds the call.
Resume ==
    /\ mode.at = "deliver" /\ ~signal_pending
    /\ mask' = IF saved_sigmask # NoMask THEN saved_sigmask ELSE mask
    /\ saved_sigmask' = NoMask
    /\ sleep_resume_at' = IF mode.active THEN sleep_resume_at ELSE NotSet
    /\ mode' = InUser
    /\ user' = [user EXCEPT !.faulted = @ /\ Fault \in posted]
    /\ UNCHANGED <<posted, disp, altstack, frames, clock>>
-----------------------------------------------------------------------------
SigInit ==
    /\ posted = {} /\ mask = {} /\ disp = [s \in Sigs |-> SigDfl]
    /\ saved_sigmask = NoMask /\ sleep_resume_at = NotSet /\ altstack = FALSE
    /\ frames = <<>> /\ mode = InUser /\ clock = 0
    /\ user = [op |-> "run", arg |-> 0, due |-> 0, sp |-> [stack |-> "main", depth |-> 0],
               mask |-> {}, faulted |-> FALSE]

SigNext ==
    \/ \E s \in Sigs : Arrive(s) \/ Dropped(s) \/ Terminated(s) \/ Handler(s)
    \/ Tick \/ Interrupt \/ signal_raise_fault \/ sigreturn \/ Resume
    \/ \E x \in SigActions : sigaction(x[1], x[2])
    \/ \E m \in SetMasks : sigprocmask(m)
    \/ \E on \in BOOLEAN : sigaltstack(on)
    \/ Read \/ ReadEnds \/ sigsuspend \/ SuspendEnds \/ nanosleep \/ SleepEnds \/ SleepReturns
-----------------------------------------------------------------------------
Places == [i \in 1 .. Len(frames) + 1 |-> IF i > Len(frames) THEN user.sp ELSE frames[i].user.sp]

(* However signals nest and interrupt each other, a program that runs finds itself as it was.
   Back in user mode the mask is the one the program has at that level of nesting, although
   sigsuspend replaced it and handlers added to it (the mask that signal_deliver_one saves in the
   frame, sigreturn and signal_handle_pending restore); a faulting instruction is not run again
   before its signal was acted on (signal_raise_fault); no frame lies over a live one
   (altstack_usable); and nanosleep never returns before its time, whatever other sleep its
   deadline could have come from (sleep_resume_at). *)
HandlersReturn ==
    /\ mode = InUser => mask = user.mask /\ ~user.faulted
    /\ \A i, j \in DOMAIN Places : i # j => Places[i] # Places[j]
    /\ mode.at = "slept" => clock >= user.due

(* A sleep that is issued again goes on to the same deadline.  nanosleep_handler's comment says
   so: "A stop or a handlerless signal re-issues the call, which resumes this deadline rather
   than sleeping req again." *)
SleepsOnce == mode.at = "sleep" => mode.deadline <= user.due
=============================================================================
