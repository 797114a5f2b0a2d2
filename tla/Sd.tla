--------------------------------- MODULE Sd ----------------------------------
(***************************************************************************)
(* The SD card driver (driver/sd.c): a request holds sd_op_mutex (the      *)
(* sleeping mutex of core/mutex.c) and moves one block at a time, each by  *)
(* a command whose completions the interrupt handler, on another core,     *)
(* hands over in sd_irq_pending.  A wait gives up after a while, and the   *)
(* completion it waited for can still come.  Before that, sd_probe brings  *)
(* the card up with the same commands.  A block is a value; the clock, the *)
(* card's registers and the fallback that polls when the device tree names *)
(* no interrupt are left out.                                              *)
(***************************************************************************)
EXTENDS Integers, Sequences, FiniteSets

CONSTANTS
    SdTasks, BootTask,
    CardBlocks,         \* block_count
    SizeMod,            \* size_t is arithmetic modulo this
    Transfers,          \* the <<first block, number of blocks>> that are asked for
    CardValues,         \* what a block holds
    Tries,              \* how often the card is asked whether it is ready
    NoOwner

ASSUME SdAssumption ==
    /\ BootTask \notin SdTasks /\ NoOwner \notin SdTasks
    /\ CardBlocks \in Nat \ {0} /\ SizeMod \in Nat /\ CardValues # {}
    /\ Transfers \subseteq (0 .. SizeMod - 1) \X (0 .. SizeMod - 1)

VARIABLES
    op_mutex, mutex_wq, \* sd_op_mutex
    req,                \* what each task does
    ctl,                \* the controller: the command under way
    card,               \* what the blocks hold
    interrupt,          \* regs->interrupt
    irq_pending,        \* sd_irq_pending
    isr,                \* what the handler has read and not yet handed over
    reposted,           \* it held that while a command cleared what was stale
    probe, tries        \* where sd_probe is

sdVars == <<op_mutex, mutex_wq, req, ctl, card, interrupt, irq_pending, isr, reposted, probe, tries>>
mutexVars == <<op_mutex, mutex_wq>>
hwVars == <<ctl, card, interrupt>>
irqVars == <<irq_pending, isr, reposted>>
probeVars == <<probe, tries>>

AtRest == [at |-> "rest"]
NoCommand == [cmd |-> FALSE, dat |-> "idle"]
At(t, pc) == req' = [req EXCEPT ![t].at = pc]
Leave(t) == req' = [req EXCEPT ![t] = [at |-> "unlock"]]
SomeValue == CHOOSE v \in CardValues : TRUE
-----------------------------------------------------------------------------
(* kmutex_lock and kmutex_unlock.  wq_wait_event queues the task before it  *)
(* tries again, and a task that finds the mutex taken keeps its place.      *)

kmutex_try_lock(t) ==
    /\ op_mutex.depth = 0 \/ op_mutex.owner = t
    /\ op_mutex' = [owner |-> t, depth |-> op_mutex.depth + 1]

\* wq_finish: the task's entry is unlinked, unless a waker has done so.
Unqueued(t) ==
    IF \E i \in DOMAIN mutex_wq : mutex_wq[i] = t
    THEN LET place == CHOOSE i \in DOMAIN mutex_wq : mutex_wq[i] = t
         IN [i \in 1 .. Len(mutex_wq) - 1 |-> mutex_wq[IF i < place THEN i ELSE i + 1]]
    ELSE mutex_wq

Lock(t) ==
    /\ req[t].at \in {"lock", "queued", "woken"}
    /\ kmutex_try_lock(t)
    /\ mutex_wq' = Unqueued(t)
    /\ IF req[t].left = 0 THEN Leave(t) ELSE At(t, "cmd")
    /\ UNCHANGED <<hwVars, irqVars, probeVars>>

\* The task is on the queue and tries again (Lock) or sleeps.
Queue(t) ==
    /\ req[t].at \in {"lock", "woken"}
    /\ op_mutex.depth > 0 /\ op_mutex.owner # t
    /\ mutex_wq' = Append(mutex_wq, t)
    /\ At(t, "queued")
    /\ UNCHANGED <<op_mutex, hwVars, irqVars, probeVars>>
SleepOnMutex(t) ==
    /\ req[t].at = "queued"
    /\ op_mutex.depth > 0 /\ op_mutex.owner # t
    /\ At(t, "asleep")
    /\ UNCHANGED <<mutexVars, hwVars, irqVars, probeVars>>

\* Mutant: no wake.
UnlockOnly(t) ==
    /\ req[t].at = "unlock" /\ t # BootTask
    /\ op_mutex.owner = t
    /\ op_mutex' = [owner |-> NoOwner, depth |-> 0]
    /\ req' = [req EXCEPT ![t] = AtRest]
    /\ UNCHANGED <<mutex_wq, hwVars, irqVars, probeVars>>

Unlock(t) ==
    /\ req[t].at = "unlock" /\ t # BootTask
    /\ op_mutex.owner = t
    /\ op_mutex' = [owner |-> NoOwner, depth |-> 0]
    /\ At(t, "wake")
    /\ UNCHANGED <<mutex_wq, hwVars, irqVars, probeVars>>

\* wq_wake_one: a task that has not gone to sleep yet goes on to try again as well.
Wake(t) ==
    /\ req[t].at = "wake"
    /\ IF mutex_wq = <<>>
       THEN req' = [req EXCEPT ![t] = AtRest] /\ UNCHANGED mutex_wq
       ELSE /\ req' = [req EXCEPT ![t] = AtRest, ![Head(mutex_wq)].at = "woken"]
            /\ mutex_wq' = Tail(mutex_wq)
    /\ UNCHANGED <<op_mutex, hwVars, irqVars, probeVars>>
-----------------------------------------------------------------------------
(* sd_read_blocks and sd_write_blocks: what they refuse, and the mutex. *)

InRange(start, num) ==
    LET end == (start + num) % SizeMod IN end <= CardBlocks /\ end >= start

Request(t) ==
    /\ probe = "up" /\ req[t] = AtRest
    /\ \E x \in Transfers, op \in {"read", "write"} :
        /\ InRange(x[1], x[2])
        /\ \E v \in IF op = "read" THEN {SomeValue} ELSE CardValues :
               req' = [req EXCEPT ![t] =
                   [at |-> "lock", op |-> op, block |-> x[1], left |-> x[2], buf |-> v]]
    /\ UNCHANGED <<mutexVars, hwVars, irqVars, probeVars>>
-----------------------------------------------------------------------------
(* sd_send_cmd *)

HasData(t) == req[t].op \in {"read", "write"}

\* Mutant: only the controller's bits are cleared.
ClearController(t) ==
    /\ req[t].at = "cmd"
    /\ ~ctl.cmd /\ (HasData(t) => ctl.dat = "idle")
    /\ interrupt' = {} /\ UNCHANGED irq_pending
    /\ reposted' = (isr # {})
    /\ At(t, "issue")
    /\ UNCHANGED <<mutexVars, ctl, card, isr, probeVars>>

\* The lines are free: completions of earlier commands are dropped, then the command goes out.
ClearStale(t) ==
    /\ req[t].at = "cmd"
    /\ ~ctl.cmd /\ (HasData(t) => ctl.dat = "idle")
    /\ interrupt' = {} /\ irq_pending' = {}
    /\ reposted' = (isr # {})
    /\ At(t, "issue")
    /\ UNCHANGED <<mutexVars, ctl, card, isr, probeVars>>

Issue(t) ==
    /\ req[t].at = "issue"
    /\ ctl' = [cmd |-> TRUE, dat |-> IF HasData(t) THEN "waiting" ELSE "idle"]
    /\ At(t, "wait_cmd")
    /\ UNCHANGED <<mutexVars, card, interrupt, irqVars, probeVars>>

\* sd_wait_interrupt and sd_irq_take: an error counts as an answer.
Answered(bit) == irq_pending \cap {bit, "error"} # {}
TakeBits(bit) == irq_pending' = irq_pending \ {bit, "error"} /\ UNCHANGED <<isr, reposted>>

CommandDone(t) ==
    /\ req[t].at = "wait_cmd"
    /\ Answered("cmd") /\ "error" \notin irq_pending
    /\ TakeBits("cmd")
    /\ At(t, IF HasData(t) THEN "ready" ELSE "sent")
    /\ UNCHANGED <<mutexVars, hwVars, probeVars>>

\* sd_read_locked and sd_write_locked once the command is answered: the buffer, then DATA_DONE.
MoveBlock(t) ==
    /\ req[t].at = "ready" /\ ctl.dat = "ready"
    /\ \/ /\ req[t].op = "read"
          /\ req' = [req EXCEPT ![t].at = "wait_data", ![t].buf = card[req[t].block]]
          /\ ctl' = [cmd |-> FALSE, dat |-> "sent"]
       \/ /\ req[t].op = "write"
          /\ At(t, "wait_data")
          /\ ctl' = [cmd |-> FALSE, dat |-> "storing", block |-> req[t].block, val |-> req[t].buf]
    /\ UNCHANGED <<mutexVars, card, interrupt, irqVars, probeVars>>

DataDone(t) ==
    /\ req[t].at = "wait_data"
    /\ Answered("data") /\ "error" \notin irq_pending
    /\ TakeBits("data")
    /\ At(t, "moved")
    /\ UNCHANGED <<mutexVars, hwVars, probeVars>>

NextBlock(t) ==
    /\ req[t].at = "moved" /\ t # BootTask
    /\ IF req[t].left = 1 THEN Leave(t)
       ELSE req' = [req EXCEPT ![t].at = "cmd", ![t].left = @ - 1, ![t].block = @ + 1]
    /\ UNCHANGED <<mutexVars, hwVars, irqVars, probeVars>>

\* A busy line, an error or a wait that took too long.
Failed(t) ==
    \/ req[t].at = "cmd" /\ (ctl.cmd \/ (HasData(t) /\ ctl.dat # "idle")) /\ UNCHANGED irqVars
    \/ req[t].at = "wait_cmd" /\ "error" \in irq_pending /\ TakeBits("cmd")
    \/ req[t].at = "wait_cmd" /\ ~Answered("cmd") /\ UNCHANGED irqVars
    \/ req[t].at = "ready" /\ ctl.dat # "ready" /\ UNCHANGED irqVars
    \/ req[t].at = "wait_data" /\ "error" \in irq_pending /\ TakeBits("data")
    \/ req[t].at = "wait_data" /\ ~Answered("data") /\ UNCHANGED irqVars

\* A transfer ends with sd_reset_lines: whatever the controller was doing is over.
Abandon(t) ==
    /\ Failed(t)
    /\ ctl' = IF HasData(t) THEN NoCommand ELSE ctl
    /\ IF t = BootTask THEN At(t, "failed") ELSE Leave(t)
    /\ UNCHANGED <<mutexVars, card, interrupt, probeVars>>
-----------------------------------------------------------------------------
(* sd_handle_irq: read and acknowledged in the controller, then handed over. *)

IrqRead ==
    /\ probe # "absent" /\ isr = {} /\ interrupt # {}
    /\ isr' = interrupt /\ interrupt' = {}
    /\ UNCHANGED <<mutexVars, req, ctl, card, irq_pending, reposted, probeVars>>
IrqPost ==
    /\ isr # {}
    /\ irq_pending' = irq_pending \cup isr /\ isr' = {}
    /\ UNCHANGED <<mutexVars, req, hwVars, reposted, probeVars>>
-----------------------------------------------------------------------------
(* The controller and the card (external). *)

Raise(bit) == interrupt' = interrupt \cup {bit}
CardAnswers ==
    /\ ctl.cmd
    /\ \/ /\ Raise("cmd")
          /\ ctl' = [cmd |-> FALSE, dat |-> IF ctl.dat = "idle" THEN "idle" ELSE "ready"]
       \/ Raise("error") /\ ctl' = NoCommand
    /\ UNCHANGED <<mutexVars, req, card, irqVars, probeVars>>

Stored == IF ctl.dat = "storing" THEN [card EXCEPT ![ctl.block] = ctl.val] ELSE card
CardFinishes ==
    /\ ctl.dat \in {"sent", "storing"}
    /\ Raise("data") /\ ctl' = NoCommand
    /\ card' = Stored
    /\ UNCHANGED <<mutexVars, req, irqVars, probeVars>>
CardFails ==
    /\ ctl.dat \in {"ready", "sent", "storing"}
    /\ Raise("error") /\ ctl' = NoCommand
    /\ card' \in {card, Stored}
    /\ UNCHANGED <<mutexVars, req, irqVars, probeVars>>
-----------------------------------------------------------------------------
(* sd_probe: sd_init_card and sd_enable_fast_mode, a command at a time.  Giving up clears and
   masks the controller's interrupts (sd_probe_abort). *)

OnSuccess == [cmd0 |-> {"cmd8"}, cmd8 |-> {"cmd55"}, cmd55 |-> {"acmd41"},
              cmd2 |-> {"cmd3"}, cmd3 |-> {"cmd9"}, cmd9 |-> {"cmd7"}, cmd7 |-> {"cmd16"},
              cmd16 |-> {"bus55", "up"},          \* the base clock may be unknown
              bus55 |-> {"bus4"}, bus4 |-> {"test", "back55"},
              test |-> {"up", "back55"},          \* the signature may be wrong
              back55 |-> {"bus1"}, bus1 |-> {"up"}]
OnFailure == [cmd0 |-> {"absent"}, cmd8 |-> {"absent"}, cmd55 |-> {"acmd41"},
              cmd2 |-> {"absent"}, cmd3 |-> {"absent"}, cmd9 |-> {"cmd7"}, cmd7 |-> {"absent"},
              cmd16 |-> {"absent"}, bus55 |-> {"up"}, bus4 |-> {"up"},
              test |-> {"back55"}, back55 |-> {"up"}, bus1 |-> {"up"}]

\* Whatever became of ACMD41, the response register says whether the card is ready.
Acmd41 ==
    \/ probe' = (IF tries > 0 THEN "cmd2" ELSE "absent") /\ UNCHANGED tries
    \/ tries > 0 /\ probe' = "cmd55" /\ tries' = tries - 1
    \/ tries = 0 /\ probe' = "absent" /\ UNCHANGED tries

BootRequest(stage) ==
    [at |-> "cmd", op |-> IF stage = "test" THEN "read" ELSE "none",
     block |-> 0, left |-> 1, buf |-> SomeValue]

ProbeStep ==
    /\ req[BootTask].at \in {"sent", "moved", "failed"}
    /\ \/ probe = "acmd41" /\ Acmd41
       \/ /\ probe # "acmd41" /\ UNCHANGED tries
          /\ probe' \in IF req[BootTask].at = "failed" THEN OnFailure[probe] ELSE OnSuccess[probe]
    /\ ctl' = IF probe' = "back55" THEN NoCommand ELSE ctl
    /\ req' = [req EXCEPT ![BootTask] = IF probe' \in {"up", "absent"} THEN AtRest ELSE BootRequest(probe')]
    /\ interrupt' = IF probe' = "absent" THEN {} ELSE interrupt
    /\ UNCHANGED <<mutexVars, card, irqVars>>
-----------------------------------------------------------------------------
SdInit ==
    /\ op_mutex = [owner |-> NoOwner, depth |-> 0] /\ mutex_wq = <<>>
    /\ req = [t \in SdTasks \cup {BootTask} |-> IF t = BootTask THEN BootRequest("cmd0") ELSE AtRest]
    /\ ctl = NoCommand /\ card = [b \in 0 .. CardBlocks - 1 |-> SomeValue]
    /\ interrupt = {} /\ irq_pending = {} /\ isr = {} /\ reposted = FALSE
    /\ probe = "cmd0" /\ tries = Tries - 1

SdNext ==
    \/ \E t \in SdTasks : \/ Request(t) \/ Lock(t) \/ Queue(t) \/ SleepOnMutex(t)
                          \/ NextBlock(t) \/ Unlock(t) \/ Wake(t)
    \/ \E t \in SdTasks \cup {BootTask} : \/ ClearStale(t) \/ Issue(t) \/ CommandDone(t)
                                          \/ MoveBlock(t) \/ DataDone(t) \/ Abandon(t)
    \/ ProbeStep
    \/ IrqRead \/ IrqPost
    \/ CardAnswers \/ CardFinishes \/ CardFails

SdSpec == SdInit /\ [][SdNext]_sdVars
-----------------------------------------------------------------------------
(* A transfer that reports a block as done has really moved it: the buffer and the card
   agree and the controller is finished with it, although waits time out, completions come
   late and the handler runs on another core (sd_send_cmd drops what is stale before each
   command).  Set apart is a handler that had read the controller's bits before that and hands
   them over after it.  No transfer reaches past the end of the card, whatever was asked. *)
TransfersAreReal ==
    \A t \in DOMAIN req :
        /\ req[t].at = "moved" /\ ~reposted =>
               req[t].buf = card[req[t].block] /\ ctl.dat = "idle"
        /\ req[t].at \in {"cmd", "issue"} => req[t].block < CardBlocks

(* The same without the exception, as sd_send_cmd's comment has it: "A late completion from
   an earlier, abandoned request must not satisfy this one." *)
LateCompletionsDropped ==
    \A t \in DOMAIN req : req[t].at = "moved" => ctl.dat = "idle"

(* The sleeping mutex is handed on: one task at a time is between kmutex_lock and
   kmutex_unlock, and while tasks sleep on a free mutex, one that has been woken, or will be
   by the unlock under way, is on its way to take it. *)
MutexHandsOver ==
    /\ \A t \in SdTasks : req[t].at \notin {"rest", "lock", "queued", "asleep", "woken", "wake"}
                              <=> op_mutex.owner = t
    /\ (\E t \in SdTasks : req[t].at = "asleep") /\ op_mutex.depth = 0 =>
           \E t \in SdTasks : req[t].at \in {"wake", "woken", "queued"}
=============================================================================
