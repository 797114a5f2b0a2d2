------------------------------ MODULE SdProofs ------------------------------
(***************************************************************************)
(* The SD card driver and its sleeping mutex, for any number of tasks, any *)
(* card and any transfers.                                                 *)
(*                                                                         *)
(* One task at a time has the controller: sd_probe before the card is up,  *)
(* the owner of sd_op_mutex afterwards.  So what is in flight between the  *)
(* controller, the handler and sd_irq_pending since the last ClearStale    *)
(* belongs to that task's command.                                         *)
(***************************************************************************)
EXTENDS Sd, SequenceTheorems, TLAPS

Tasks == SdTasks \cup {BootTask}
Busy == {"cmd", "issue", "wait_cmd", "ready", "sent", "wait_data", "moved", "failed"}
Waiting == {"lock", "queued", "asleep", "woken"}
Ends == {"rest", "unlock", "wake"}
Ops == {"read", "write", "none"}
Bits == {"cmd", "data", "error"}
Lines == {"idle", "waiting", "ready", "sent", "storing"}
Stages == {"cmd0", "cmd8", "cmd55", "acmd41", "cmd2", "cmd3", "cmd9", "cmd7", "cmd16", "bus55", "bus4",
           "test", "back55", "bus1", "up", "absent"}

\* A request in progress has all its fields; one that is over has none but its place.
Pending == [at : Busy \cup Waiting, op : Ops, block : Nat, left : Nat, buf : CardValues]
Over == [at : Ends]

ReqType == req \in [Tasks -> Pending \cup Over]
LockType ==
    /\ op_mutex \in [owner : SdTasks \cup {NoOwner}, depth : {0, 1}]
    /\ mutex_wq \in Seq(SdTasks) /\ probe \in Stages
HwType ==
    /\ ctl.cmd \in BOOLEAN /\ ctl.dat \in Lines
    /\ ctl.dat = "storing" => ctl.block \in 0 .. CardBlocks - 1 /\ ctl.val \in CardValues
    /\ card \in [0 .. CardBlocks - 1 -> CardValues]
    /\ interrupt \subseteq Bits /\ irq_pending \subseteq Bits /\ isr \subseteq Bits

\* Who may be where.
PlaceInv ==
    /\ req[BootTask].at \in Busy \cup {"rest"}
    /\ req[BootTask].at = "rest" <=> probe \in {"up", "absent"}
    /\ \A t \in SdTasks : req[t].at # "rest" => probe = "up"
    /\ \A t \in SdTasks : req[t].at \in Busy \cup {"unlock"} <=> op_mutex.owner = t
    /\ op_mutex.depth = 0 <=> op_mutex.owner = NoOwner

\* What is left of a request lies on the card.
RangeInv ==
    \A t \in Tasks :
        /\ req[t].at \in Busy \cup Waiting => req[t].block + req[t].left <= CardBlocks
        /\ req[t].at \in Busy => req[t].left > 0

\* The tasks on the queue are those that wait, once each.
QueueInv ==
    /\ \A t \in SdTasks : req[t].at \in {"queued", "asleep"} => \E i \in DOMAIN mutex_wq : mutex_wq[i] = t
    /\ \A i \in DOMAIN mutex_wq : req[mutex_wq[i]].at \in {"queued", "asleep"}
    /\ \A i, j \in DOMAIN mutex_wq : mutex_wq[i] = mutex_wq[j] => i = j

HandsOn ==
    (\E t \in SdTasks : req[t].at = "asleep") /\ op_mutex.depth = 0 =>
        \E t \in SdTasks : req[t].at \in {"wake", "woken", "queued"}

MutexInv == ReqType /\ LockType /\ PlaceInv /\ RangeInv /\ QueueInv /\ HandsOn

\* What the controller has raised and nobody has taken.
InFlight == interrupt \cup isr \cup irq_pending

\* How far the command of t is, by what is in flight.
Real(t) ==
    /\ req[t].at \in {"ready", "wait_data", "moved"} => HasData(t)
    /\ req[t].at \in Busy /\ HasData(t) /\ ~reposted =>
        /\ req[t].at = "issue" => ~ctl.cmd /\ ctl.dat = "idle" /\ InFlight = {}
        /\ req[t].at \in {"wait_cmd", "ready"} =>
              "data" \notin InFlight /\ ctl.dat \in {"idle", "waiting", "ready"}
        /\ req[t].at = "wait_data" =>
              /\ ~ctl.cmd /\ ctl.dat \in {"idle", "sent", "storing"}
              /\ "data" \in InFlight => ctl.dat = "idle" /\ req[t].buf = card[req[t].block]
              /\ ctl.dat = "sent" => req[t].buf = card[req[t].block]
              /\ ctl.dat = "storing" => ctl.block = req[t].block /\ ctl.val = req[t].buf
        /\ req[t].at = "moved" => ctl.dat = "idle" /\ req[t].buf = card[req[t].block]
RealInv == \A t \in Tasks : Real(t)

(***************************************************************************)
(* Requests.                                                               *)
(***************************************************************************)
LEMMA PlaceFacts ==
    /\ Busy \cap Waiting = {} /\ Busy \cap Ends = {} /\ Waiting \cap Ends = {}
    /\ \A x : x \in Busy \cup Waiting \cup Ends =>
          (x \notin {"rest", "lock", "queued", "asleep", "woken", "wake"} <=> x \in Busy \cup {"unlock"})
  BY DEF Busy, Waiting, Ends

\* A request is in progress by its place.
LEMMA Kinds ==
    ASSUME ReqType, NEW t \in Tasks
    PROVE  /\ req[t].at \in Busy \cup Waiting \cup Ends
           /\ req[t].at \in Busy \cup Waiting => req[t] \in Pending
           /\ req[t].at \in Ends => req[t] = [at |-> req[t].at]
  <1>1. req[t] \in Pending \/ req[t] \in Over
    BY DEF ReqType
  <1>2. CASE req[t] \in Pending
    <2>1. req[t].at \in Busy \cup Waiting
      BY <1>2 DEF Pending
    <2> QED
      BY <1>2, <2>1, PlaceFacts, Zenon
  <1>3. CASE req[t] \in Over
    <2>1. req[t].at \in Ends /\ req[t] = [at |-> req[t].at]
      BY <1>3 DEF Over
    <2> QED
      BY <2>1, PlaceFacts, Zenon
  <1> QED
    BY <1>1, <1>2, <1>3, Zenon

LEMMA StoreFacts ==
    ASSUME ReqType, NEW t \in Tasks, NEW r, req' = [req EXCEPT ![t] = r]
    PROVE  /\ req'[t] = r /\ \A u \in Tasks \ {t} : req'[u] = req[u]
           /\ r \in Pending \cup Over => ReqType'
  BY DEF ReqType

\* What At stores, in a request in progress and in one that is over.
LEMMA AtFacts ==
    ASSUME ReqType, NEW t \in Tasks, NEW pc, At(t, pc)
    PROVE  /\ \A u \in Tasks \ {t} : req'[u] = req[u]
           /\ req[t].at \in Busy \cup Waiting /\ pc \in Busy \cup Waiting =>
                 /\ ReqType' /\ req'[t].at = pc
                 /\ req'[t].op = req[t].op /\ req'[t].block = req[t].block
                 /\ req'[t].left = req[t].left /\ req'[t].buf = req[t].buf
           /\ req[t].at \in Ends /\ pc \in Ends => ReqType' /\ req'[t].at = pc
  <1>1. req' = [req EXCEPT ![t] = [req[t] EXCEPT !.at = pc]]
    BY DEF At
  <1>2. /\ req'[t] = [req[t] EXCEPT !.at = pc] /\ \A u \in Tasks \ {t} : req'[u] = req[u]
        /\ [req[t] EXCEPT !.at = pc] \in Pending \cup Over => ReqType'
    BY <1>1, StoreFacts, Zenon
  <1>3. ASSUME req[t].at \in Busy \cup Waiting, pc \in Busy \cup Waiting
        PROVE  /\ ReqType' /\ req'[t].at = pc
               /\ req'[t].op = req[t].op /\ req'[t].block = req[t].block
               /\ req'[t].left = req[t].left /\ req'[t].buf = req[t].buf
    <2>1. req[t] \in Pending
      BY <1>3, Kinds, Zenon
    <2>2. /\ [req[t] EXCEPT !.at = pc] \in Pending
          /\ [req[t] EXCEPT !.at = pc].at = pc
          /\ [req[t] EXCEPT !.at = pc].op = req[t].op
          /\ [req[t] EXCEPT !.at = pc].block = req[t].block
          /\ [req[t] EXCEPT !.at = pc].left = req[t].left
          /\ [req[t] EXCEPT !.at = pc].buf = req[t].buf
      BY <1>3, <2>1 DEF Pending
    <2> QED
      BY <1>2, <2>2, Zenon
  <1>4. ASSUME req[t].at \in Ends, pc \in Ends PROVE ReqType' /\ req'[t].at = pc
    <2>0. req[t] = [at |-> req[t].at]
      BY <1>4, Kinds, Zenon
    <2>1. req[t] \in Over
      BY <1>4, <2>0 DEF Over
    <2>2. [req[t] EXCEPT !.at = pc] \in Over /\ [req[t] EXCEPT !.at = pc].at = pc
      BY <1>4, <2>1 DEF Over
    <2> QED
      BY <1>2, <2>2, Zenon
  <1> QED
    BY <1>2, <1>3, <1>4, Zenon

LEMMA LeaveFacts ==
    ASSUME ReqType, NEW t \in Tasks, Leave(t)
    PROVE  /\ \A u \in Tasks \ {t} : req'[u] = req[u]
           /\ ReqType' /\ req'[t].at = "unlock"
  <1>1. [at |-> "unlock"] \in Over /\ [at |-> "unlock"].at = "unlock"
    BY DEF Over, Ends
  <1>2. req' = [req EXCEPT ![t] = [at |-> "unlock"]]
    BY DEF Leave
  <1>3. /\ req'[t] = [at |-> "unlock"] /\ \A u \in Tasks \ {t} : req'[u] = req[u]
        /\ [at |-> "unlock"] \in Pending \cup Over => ReqType'
    BY <1>2, StoreFacts, Zenon
  <1> QED
    BY <1>1, <1>3, Zenon

LEMMA TaskFacts ==
    /\ BootTask \in Tasks /\ BootTask \notin SdTasks /\ NoOwner \notin SdTasks
    /\ \A t \in SdTasks : t \in Tasks
  BY SdAssumption, Zenon DEF Tasks

\* A task that moves outside the queue leaves it and the promise to those asleep alone.
LEMMA AsideInv ==
    ASSUME MutexInv, NEW t \in Tasks, \A u \in Tasks \ {t} : req'[u] = req[u],
           req[t].at \notin {"queued", "asleep", "wake", "woken"}, req'[t].at \notin {"queued", "asleep"},
           UNCHANGED <<op_mutex, mutex_wq>>
    PROVE  QueueInv' /\ HandsOn'
  <1>1. QueueInv /\ HandsOn /\ mutex_wq \in Seq(SdTasks) /\ mutex_wq' = mutex_wq
    BY Zenon DEF MutexInv, LockType
  <1>2. ASSUME NEW u \in SdTasks, req'[u].at \in {"queued", "asleep"}
        PROVE  \E i \in DOMAIN mutex_wq : mutex_wq[i] = u
    BY <1>1, <1>2, TaskFacts, Zenon DEF QueueInv
  <1>3. ASSUME NEW i \in DOMAIN mutex_wq PROVE req'[mutex_wq[i]].at \in {"queued", "asleep"}
    <2>1. mutex_wq[i] \in SdTasks
      BY <1>1, ElementOfSeq, LenProperties
    <2>2. mutex_wq[i] # t
      BY <1>1, Zenon DEF QueueInv
    <2> QED
      BY <1>1, <2>1, <2>2, TaskFacts, Zenon DEF QueueInv
  <1>4. QueueInv'
    <2>1. mutex_wq' = mutex_wq /\ \A i, j \in DOMAIN mutex_wq : mutex_wq[i] = mutex_wq[j] => i = j
      BY <1>1, Zenon DEF QueueInv
    <2> QED
      BY <1>2, <1>3, <2>1, Zenon DEF QueueInv
  <1>5. ASSUME NEW u \in SdTasks, req'[u].at = "asleep", op_mutex'.depth = 0
        PROVE  \E v \in SdTasks : req'[v].at \in {"wake", "woken", "queued"}
    <2>1. u # t /\ req[u].at = "asleep" /\ op_mutex.depth = 0
      BY <1>5, TaskFacts, Zenon
    <2>2. PICK v \in SdTasks : req[v].at \in {"wake", "woken", "queued"}
      BY <1>1, <2>1, Zenon DEF HandsOn
    <2>3. v # t
      BY <2>2, Zenon
    <2> QED
      BY <2>2, <2>3, TaskFacts, Zenon
  <1> QED
    BY <1>4, <1>5, Zenon DEF HandsOn

(***************************************************************************)
(* A step of the task that has the controller, as far as the mutex goes.   *)
(***************************************************************************)
Inside(t) ==
    /\ req[t].at \in Busy /\ ReqType' /\ req'[t].at \in Busy \cup {"unlock"}
    /\ \A u \in Tasks \ {t} : req'[u] = req[u]
    /\ t = BootTask => req'[t].at \in Busy
    /\ req'[t].at \in Busy => req'[t].block + req'[t].left <= CardBlocks /\ req'[t].left > 0
    /\ UNCHANGED <<op_mutex, mutex_wq, probe>>

LEMMA InsideInv ==
    ASSUME MutexInv, NEW t \in Tasks, Inside(t)
    PROVE  MutexInv'
  <1>0. /\ req[t].at \in Busy /\ ReqType' /\ req'[t].at \in Busy \cup {"unlock"}
        /\ \A u \in Tasks \ {t} : req'[u] = req[u]
        /\ t = BootTask => req'[t].at \in Busy
        /\ req'[t].at \in Busy => req'[t].block + req'[t].left <= CardBlocks /\ req'[t].left > 0
        /\ UNCHANGED <<op_mutex, mutex_wq, probe>>
    BY Zenon DEF Inside
  <1>t. BootTask \in Tasks /\ SdTasks \subseteq Tasks /\ BootTask \notin SdTasks
    BY SdAssumption, Zenon DEF Tasks
  <1>1. LockType'
    BY <1>0, Zenon DEF MutexInv, LockType
  <1>2. PlaceInv'
    <2>1. PlaceInv
      BY Zenon DEF MutexInv
    <2>2. "rest" \notin Busy
      BY DEF Busy
    <2>3. /\ req'[BootTask].at \in Busy \cup {"rest"}
          /\ req'[BootTask].at = "rest" <=> probe \in {"up", "absent"}
      <3>1. CASE t = BootTask
        BY <1>0, <2>1, <2>2, <3>1, Zenon DEF PlaceInv
      <3>2. CASE t # BootTask
        <4>1. req'[BootTask] = req[BootTask]
          BY <1>0, <1>t, <3>2, Zenon
        <4> QED
          BY <2>1, <4>1, Zenon DEF PlaceInv
      <3> QED
        BY <3>1, <3>2, Zenon
    <2>4. ASSUME NEW u \in SdTasks
          PROVE  /\ req'[u].at # "rest" => probe = "up"
                 /\ req'[u].at \in Busy \cup {"unlock"} <=> op_mutex.owner = u
      <3>1. CASE u = t
        BY <1>0, <2>1, <2>2, <3>1, Zenon DEF PlaceInv
      <3>2. CASE u # t
        BY <1>0, <1>t, <2>1, <3>2, Zenon DEF PlaceInv
      <3> QED
        BY <3>1, <3>2, Zenon
    <2> QED
      BY <1>0, <2>1, <2>3, <2>4, Zenon DEF PlaceInv
  <1>3. RangeInv'
    <2>1. \A u \in Tasks \ {t} :
             /\ req'[u].at \in Busy \cup Waiting => req'[u].block + req'[u].left <= CardBlocks
             /\ req'[u].at \in Busy => req'[u].left > 0
      BY <1>0, Zenon DEF MutexInv, RangeInv
    <2>2. req'[t].at \in Busy \cup Waiting => req'[t].at \in Busy
      BY <1>0 DEF Busy, Waiting
    <2>3. ASSUME NEW u \in Tasks
          PROVE  /\ req'[u].at \in Busy \cup Waiting => req'[u].block + req'[u].left <= CardBlocks
                 /\ req'[u].at \in Busy => req'[u].left > 0
      <3>1. CASE u = t
        BY <1>0, <2>2, <3>1, Zenon
      <3>2. CASE u # t
        BY <2>1, <3>2, Zenon
      <3> QED
        BY <3>1, <3>2, Zenon
    <2> QED
      BY <2>3, Zenon DEF RangeInv
  <1>4. req[t].at \notin {"queued", "asleep", "wake", "woken"} /\ req'[t].at \notin {"queued", "asleep"}
    BY <1>0 DEF Busy
  <1>5. QueueInv' /\ HandsOn'
    BY <1>0, <1>4, AsideInv, Zenon
  <1> QED
    BY <1>0, <1>1, <1>2, <1>3, <1>5, Zenon DEF MutexInv

LEMMA GoesOn ==
    ASSUME MutexInv, NEW t \in Tasks, NEW pc \in Busy, req[t].at \in Busy, At(t, pc),
           UNCHANGED <<op_mutex, mutex_wq, probe>>
    PROVE  Inside(t)
  <1>1. req[t].block + req[t].left <= CardBlocks /\ req[t].left > 0
    BY Zenon DEF MutexInv, RangeInv
  <1>2. /\ ReqType' /\ req'[t].at = pc /\ req'[t].block = req[t].block /\ req'[t].left = req[t].left
        /\ \A u \in Tasks \ {t} : req'[u] = req[u]
    BY AtFacts, Zenon DEF MutexInv
  <1> QED
    BY <1>1, <1>2, Zenon DEF Inside

LEMMA GivesUp ==
    ASSUME MutexInv, NEW t \in Tasks, t # BootTask, req[t].at \in Busy, Leave(t),
           UNCHANGED <<op_mutex, mutex_wq, probe>>
    PROVE  Inside(t)
  <1>1. ReqType' /\ req'[t].at = "unlock" /\ \A u \in Tasks \ {t} : req'[u] = req[u]
    BY LeaveFacts, Zenon DEF MutexInv
  <1>2. "unlock" \notin Busy
    BY DEF Busy
  <1> QED
    BY <1>1, <1>2, Zenon DEF Inside

\* The block of a request in progress is one of the card.
LEMMA OnCard ==
    ASSUME MutexInv, NEW t \in Tasks, req[t].at \in Busy
    PROVE  /\ req[t] \in Pending /\ req[t].block \in 0 .. CardBlocks - 1
           /\ req[t].block \in Nat /\ req[t].left \in Nat \ {0} /\ req[t].block + req[t].left <= CardBlocks
  <1>1. req[t].block + req[t].left <= CardBlocks /\ req[t].left > 0
    BY Zenon DEF MutexInv, RangeInv
  <1>2. req[t] \in Pending
    BY Kinds, Zenon DEF MutexInv
  <1>3. req[t].block \in Nat /\ req[t].left \in Nat
    BY <1>2 DEF Pending
  <1> QED
    BY <1>1, <1>2, <1>3, SdAssumption

LEMMA MoveFacts ==
    ASSUME MutexInv, HwType, NEW t \in Tasks, MoveBlock(t)
    PROVE  /\ Inside(t) /\ req[t].at = "ready" /\ ctl.dat = "ready" /\ req'[t].at = "wait_data"
           /\ req'[t].op = req[t].op /\ req'[t].block = req[t].block
           /\ \/ /\ req'[t].buf = card[req[t].block] /\ ctl' = [cmd |-> FALSE, dat |-> "sent"]
              \/ /\ req'[t].buf = req[t].buf
                 /\ ctl' = [cmd |-> FALSE, dat |-> "storing", block |-> req[t].block, val |-> req[t].buf]
           /\ UNCHANGED <<card, interrupt, irq_pending, isr, reposted>>
  <1>1. /\ req[t].at = "ready" /\ ctl.dat = "ready"
        /\ \/ /\ req' = [req EXCEPT ![t].at = "wait_data", ![t].buf = card[req[t].block]]
              /\ ctl' = [cmd |-> FALSE, dat |-> "sent"]
           \/ /\ At(t, "wait_data")
              /\ ctl' = [cmd |-> FALSE, dat |-> "storing", block |-> req[t].block, val |-> req[t].buf]
        /\ UNCHANGED <<op_mutex, mutex_wq, probe, card, interrupt, irq_pending, isr, reposted>>
    BY Zenon DEF MoveBlock, mutexVars, irqVars, probeVars
  <1>2. "ready" \in Busy /\ "wait_data" \in Busy
    BY DEF Busy
  <1>3. /\ req[t] \in Pending /\ req[t].block \in 0 .. CardBlocks - 1
        /\ req[t].left \in Nat \ {0} /\ req[t].block + req[t].left <= CardBlocks
    BY <1>1, <1>2, OnCard, Zenon
  <1>4. CASE At(t, "wait_data") /\
             ctl' = [cmd |-> FALSE, dat |-> "storing", block |-> req[t].block, val |-> req[t].buf]
    <2>1. Inside(t)
      BY <1>1, <1>2, <1>4, GoesOn, Zenon
    <2>2. /\ req'[t].at = "wait_data" /\ req'[t].op = req[t].op /\ req'[t].block = req[t].block
          /\ req'[t].buf = req[t].buf
      BY <1>1, <1>2, <1>4, AtFacts, Zenon DEF MutexInv
    <2> QED
      BY <1>1, <1>4, <2>1, <2>2, Zenon
  <1>5. CASE req' = [req EXCEPT ![t].at = "wait_data", ![t].buf = card[req[t].block]] /\
             ctl' = [cmd |-> FALSE, dat |-> "sent"]
    <2> DEFINE r == [req[t] EXCEPT !.at = "wait_data", !.buf = card[req[t].block]]
    <2>1. req' = [req EXCEPT ![t] = r]
      BY <1>5, Zenon DEF MutexInv, ReqType
    <2>2. card[req[t].block] \in CardValues
      BY <1>3 DEF HwType
    <2>3. /\ r \in Pending /\ r.at = "wait_data" /\ r.op = req[t].op /\ r.block = req[t].block
          /\ r.left = req[t].left /\ r.buf = card[req[t].block]
      BY <1>2, <1>3, <2>2, Zenon DEF Pending
    <2> HIDE DEF r
    <2>4. req'[t] = r /\ ReqType' /\ \A u \in Tasks \ {t} : req'[u] = req[u]
      BY <2>1, <2>3, StoreFacts, Zenon DEF MutexInv
    <2>5. req'[t].block + req'[t].left <= CardBlocks /\ req'[t].left > 0
      BY <1>3, <2>3, <2>4
    <2>6. Inside(t)
      BY <1>1, <1>2, <2>3, <2>4, <2>5, Zenon DEF Inside
    <2> QED
      BY <1>1, <1>5, <2>3, <2>4, <2>6, Zenon
  <1> QED
    BY <1>1, <1>4, <1>5, Zenon

LEMMA NextBlockFacts ==
    ASSUME MutexInv, NEW t \in Tasks, NextBlock(t)
    PROVE  /\ Inside(t) /\ req[t].at = "moved" /\ req'[t].at \in {"cmd", "unlock"}
           /\ UNCHANGED <<ctl, card, interrupt, irq_pending, isr, reposted>>
  <1>1. /\ req[t].at = "moved" /\ t # BootTask
        /\ IF req[t].left = 1 THEN Leave(t)
           ELSE req' = [req EXCEPT ![t].at = "cmd", ![t].left = @ - 1, ![t].block = @ + 1]
        /\ UNCHANGED <<op_mutex, mutex_wq, probe, ctl, card, interrupt, irq_pending, isr, reposted>>
    BY Zenon DEF NextBlock, mutexVars, hwVars, irqVars, probeVars
  <1>2. "moved" \in Busy /\ "cmd" \in Busy
    BY DEF Busy
  <1>3. /\ req[t] \in Pending /\ req[t].block \in Nat
        /\ req[t].left \in Nat \ {0} /\ req[t].block + req[t].left <= CardBlocks
    BY <1>1, <1>2, OnCard, Zenon
  <1>4. CASE req[t].left = 1
    <2>1. Leave(t)
      BY <1>1, <1>4, Zenon
    <2> QED
      BY <1>1, <1>2, <2>1, GivesUp, LeaveFacts, Zenon DEF MutexInv
  <1>5. CASE req[t].left # 1
    <2> DEFINE r == [req[t] EXCEPT !.at = "cmd", !.left = @ - 1, !.block = @ + 1]
    <2>1. req' = [req EXCEPT ![t] = r]
      BY <1>1, <1>5, Zenon DEF MutexInv, ReqType
    <2>2. /\ req[t].left - 1 \in Nat /\ req[t].block + 1 \in Nat
          /\ (req[t].block + 1) + (req[t].left - 1) <= CardBlocks /\ req[t].left - 1 > 0
      BY <1>3, <1>5, SdAssumption
    <2>3. r \in Pending /\ r.at = "cmd" /\ r.left = req[t].left - 1 /\ r.block = req[t].block + 1
      BY <1>2, <1>3, <2>2, Zenon DEF Pending
    <2> HIDE DEF r
    <2>4. req'[t] = r /\ ReqType' /\ \A u \in Tasks \ {t} : req'[u] = req[u]
      BY <2>1, <2>3, StoreFacts, Zenon DEF MutexInv
    <2>5. req'[t].block + req'[t].left <= CardBlocks /\ req'[t].left > 0
      BY <2>2, <2>3, <2>4, Zenon
    <2>6. Inside(t)
      BY <1>1, <1>2, <2>3, <2>4, <2>5, Zenon DEF Inside
    <2> QED
      BY <1>1, <2>3, <2>4, <2>6, Zenon
  <1> QED
    BY <1>4, <1>5, Zenon

LEMMA InsideSteps ==
    ASSUME MutexInv, HwType, NEW t \in Tasks,
           \/ ClearStale(t) \/ Issue(t) \/ CommandDone(t) \/ MoveBlock(t) \/ DataDone(t)
           \/ NextBlock(t) \/ Abandon(t)
    PROVE  Inside(t)
  <1>b. Busy = {"cmd", "issue", "wait_cmd", "ready", "sent", "wait_data", "moved", "failed"}
    BY DEF Busy
  <1>1. CASE ClearStale(t)
    <2>1. req[t].at = "cmd" /\ At(t, "issue") /\ UNCHANGED <<op_mutex, mutex_wq, probe>>
      BY <1>1, Zenon DEF ClearStale, mutexVars, probeVars
    <2> QED
      BY <1>b, <2>1, GoesOn, Zenon
  <1>2. CASE Issue(t)
    <2>1. req[t].at = "issue" /\ At(t, "wait_cmd") /\ UNCHANGED <<op_mutex, mutex_wq, probe>>
      BY <1>2, Zenon DEF Issue, mutexVars, probeVars
    <2> QED
      BY <1>b, <2>1, GoesOn, Zenon
  <1>3. CASE CommandDone(t)
    <2> DEFINE pc == IF HasData(t) THEN "ready" ELSE "sent"
    <2>1. req[t].at = "wait_cmd" /\ At(t, pc) /\ UNCHANGED <<op_mutex, mutex_wq, probe>>
      BY <1>3, Zenon DEF CommandDone, mutexVars, probeVars
    <2>2. pc \in Busy
      BY <1>b, Zenon
    <2> HIDE DEF pc
    <2> QED
      BY <1>b, <2>1, <2>2, GoesOn, Zenon
  <1>4. CASE MoveBlock(t)
    BY <1>4, MoveFacts, Zenon
  <1>5. CASE DataDone(t)
    <2>1. req[t].at = "wait_data" /\ At(t, "moved") /\ UNCHANGED <<op_mutex, mutex_wq, probe>>
      BY <1>5, Zenon DEF DataDone, mutexVars, probeVars
    <2> QED
      BY <1>b, <2>1, GoesOn, Zenon
  <1>6. CASE NextBlock(t)
    BY <1>6, NextBlockFacts, Zenon
  <1>7. CASE Abandon(t)
    <2>1. /\ req[t].at \in {"cmd", "wait_cmd", "ready", "wait_data"}
          /\ IF t = BootTask THEN At(t, "failed") ELSE Leave(t)
          /\ UNCHANGED <<op_mutex, mutex_wq, probe>>
      BY <1>7, Zenon DEF Abandon, Failed, mutexVars, probeVars
    <2>2. req[t].at \in Busy /\ "failed" \in Busy
      BY <1>b, <2>1, Zenon
    <2>3. CASE t = BootTask
      BY <2>1, <2>2, <2>3, GoesOn, Zenon
    <2>4. CASE t # BootTask
      BY <2>1, <2>2, <2>4, GivesUp, Zenon
    <2> QED
      BY <2>3, <2>4, Zenon
  <1> QED
    BY <1>1, <1>2, <1>3, <1>4, <1>5, <1>6, <1>7, Zenon

(***************************************************************************)
(* The mutex: a step that moves the tasks of S.                            *)
(***************************************************************************)
LEMMA PlacesKept ==
    ASSUME MutexInv, NEW S \in SUBSET SdTasks, \A u \in Tasks \ S : req'[u] = req[u],
           probe = "up", probe' = probe,
           \A t \in S : req'[t].at \in Busy \cup {"unlock"} <=> op_mutex'.owner = t,
           \A u \in SdTasks \ S : op_mutex'.owner = u <=> op_mutex.owner = u,
           op_mutex'.depth = 0 <=> op_mutex'.owner = NoOwner,
           \A t \in S : /\ req'[t].at \in Busy \cup Waiting => req'[t].block + req'[t].left <= CardBlocks
                        /\ req'[t].at \in Busy => req'[t].left > 0
    PROVE  PlaceInv' /\ RangeInv'
  <1>1. PlaceInv /\ RangeInv
    BY Zenon DEF MutexInv
  <1>2. req'[BootTask] = req[BootTask]
    BY TaskFacts, Zenon
  <1>3. \A t \in SdTasks : req'[t].at \in Busy \cup {"unlock"} <=> op_mutex'.owner = t
    BY <1>1, TaskFacts, ZenonT(40) DEF PlaceInv
  <1>4. PlaceInv'
    BY <1>1, <1>2, <1>3, Zenon DEF PlaceInv
  <1>5. ASSUME NEW u \in Tasks
        PROVE  /\ req'[u].at \in Busy \cup Waiting => req'[u].block + req'[u].left <= CardBlocks
               /\ req'[u].at \in Busy => req'[u].left > 0
    <2>1. CASE u \in S
      BY <2>1, Zenon
    <2>2. CASE u \notin S
      <3>1. req'[u] = req[u]
        BY <2>2, Zenon
      <3> QED
        BY <1>1, <3>1, Zenon DEF RangeInv
    <2> QED
      BY <2>1, <2>2, Zenon
  <1> QED
    BY <1>4, <1>5, Zenon DEF RangeInv

\* A task that is in a request, and not yet a task that has the mutex.
LEMMA WaitingFacts ==
    ASSUME MutexInv, NEW t \in SdTasks
    PROVE  /\ req[t].at # "rest" => probe = "up"
           /\ req[t].at \in Waiting => /\ op_mutex.owner # t /\ req[t] \in Pending
                                       /\ req[t].block + req[t].left <= CardBlocks
           /\ req[t].at \in Ends \ {"unlock"} => op_mutex.owner # t
           /\ mutex_wq \in Seq(SdTasks) /\ op_mutex.depth \in {0, 1} /\ op_mutex.owner \in SdTasks \cup {NoOwner}
  <1>1. PlaceInv /\ RangeInv /\ ReqType /\ LockType
    BY Zenon DEF MutexInv
  <1>2. req[t].at \in Waiting \/ req[t].at \in Ends \ {"unlock"} => req[t].at \notin Busy \cup {"unlock"}
    BY PlaceFacts DEF Busy, Waiting, Ends
  <1>3. mutex_wq \in Seq(SdTasks) /\ op_mutex.depth \in {0, 1} /\ op_mutex.owner \in SdTasks \cup {NoOwner}
    BY <1>1 DEF LockType
  <1>4. req[t].at \in Waiting => req[t] \in Pending /\ req[t].block + req[t].left <= CardBlocks
    BY <1>1, TaskFacts, Kinds, Zenon DEF RangeInv
  <1> QED
    BY <1>1, <1>2, <1>3, <1>4, Zenon DEF PlaceInv

\* What is left of the queue when t has left it.
Without(q, t) ==
    /\ q \in Seq(SdTasks)
    /\ \A i \in DOMAIN q : q[i] # t /\ \E j \in DOMAIN mutex_wq : q[i] = mutex_wq[j]
    /\ \A j \in DOMAIN mutex_wq : mutex_wq[j] # t => \E i \in DOMAIN q : q[i] = mutex_wq[j]
    /\ \A i, j \in DOMAIN q : q[i] = q[j] => i = j

LEMMA UnqueuedFacts ==
    ASSUME QueueInv, mutex_wq \in Seq(SdTasks), NEW t \in SdTasks
    PROVE  Without(Unqueued(t), t)
  <1> DEFINE q == Unqueued(t)
  <1> SUFFICES Without(q, t)
    OBVIOUS
  <1>0. /\ DOMAIN mutex_wq = 1 .. Len(mutex_wq) /\ Len(mutex_wq) \in Nat
        /\ \A i \in DOMAIN mutex_wq : mutex_wq[i] \in SdTasks
        /\ \A i, j \in DOMAIN mutex_wq : mutex_wq[i] = mutex_wq[j] => i = j
    <2>1. \A i, j \in DOMAIN mutex_wq : mutex_wq[i] = mutex_wq[j] => i = j
      BY Zenon DEF QueueInv
    <2>2. /\ DOMAIN mutex_wq = 1 .. Len(mutex_wq) /\ Len(mutex_wq) \in Nat
          /\ \A i \in DOMAIN mutex_wq : mutex_wq[i] \in SdTasks
      BY LenProperties, ElementOfSeq
    <2> QED
      BY <2>1, <2>2, Zenon
  <1> HIDE DEF q
  <1>1. CASE \E i \in DOMAIN mutex_wq : mutex_wq[i] = t
    <2> DEFINE n == Len(mutex_wq)
               place == CHOOSE i \in DOMAIN mutex_wq : mutex_wq[i] = t
    <2>1. q = [i \in 1 .. n - 1 |-> mutex_wq[IF i < place THEN i ELSE i + 1]]
      BY <1>1 DEF q, Unqueued
    <2>2. place \in 1 .. n /\ mutex_wq[place] = t /\ n \in Nat \ {0}
      BY <1>0, <1>1
    <2> HIDE DEF n, place
    <2>3. DOMAIN mutex_wq = 1 .. n
      BY <1>0 DEF n
    <2>4. n - 1 \in Nat /\ \A i \in 1 .. n - 1 : i \in 1 .. n /\ i + 1 \in 1 .. n
      BY <2>2
    <2>5. \A i \in 1 .. n - 1 : q[i] \in SdTasks
      BY <1>0, <2>1, <2>3, <2>4, Zenon
    <2>6. q \in Seq(SdTasks) /\ DOMAIN q = 1 .. n - 1
      <3>1. q \in [1 .. n - 1 -> SdTasks]
        BY <2>1, <2>5
      <3> QED
        BY <2>4, <3>1, SeqDef
    <2>7. ASSUME NEW i \in DOMAIN q
          PROVE  /\ q[i] # t /\ \E j \in DOMAIN mutex_wq : q[i] = mutex_wq[j]
                 /\ \A k \in DOMAIN q : q[i] = q[k] => i = k
      <3> DEFINE f(k) == IF k < place THEN k ELSE k + 1
      <3>1. \A k \in 1 .. n - 1 : f(k) \in 1 .. n /\ f(k) # place
        BY <2>2
      <3>2. \A k, m \in 1 .. n - 1 : f(k) = f(m) => k = m
        BY <2>2
      <3>3. \A k \in 1 .. n - 1 : q[k] = mutex_wq[f(k)]
        BY <2>1
      <3> HIDE DEF f
      <3>4. i \in 1 .. n - 1 /\ f(i) \in DOMAIN mutex_wq /\ f(i) # place /\ q[i] = mutex_wq[f(i)]
        BY <2>3, <2>6, <3>1, <3>3, Zenon
      <3>5. q[i] # t
        BY <1>0, <2>2, <2>3, <3>4, Zenon
      <3>6. ASSUME NEW k \in DOMAIN q, q[i] = q[k] PROVE i = k
        <4>1. k \in 1 .. n - 1 /\ f(k) \in DOMAIN mutex_wq /\ q[k] = mutex_wq[f(k)]
          BY <2>3, <2>6, <3>1, <3>3, Zenon
        <4>2. f(i) = f(k)
          BY <1>0, <3>4, <3>6, <4>1, Zenon
        <4> QED
          BY <3>2, <3>4, <4>1, <4>2, Zenon
      <3> QED
        BY <3>4, <3>5, <3>6, Zenon
    <2>8. ASSUME NEW j \in DOMAIN mutex_wq, mutex_wq[j] # t
          PROVE  \E i \in DOMAIN q : q[i] = mutex_wq[j]
      <3>1. j # place /\ j \in 1 .. n
        BY <2>2, <2>3, <2>8, Zenon
      <3>2. CASE j < place
        <4>1. j \in 1 .. n - 1
          BY <2>2, <3>1, <3>2
        <4>2. q[j] = mutex_wq[j]
          BY <2>1, <3>2, <4>1
        <4> QED
          BY <2>6, <4>1, <4>2, Zenon
      <3>3. CASE j > place
        <4>1. j - 1 \in 1 .. n - 1 /\ ~(j - 1 < place) /\ (j - 1) + 1 = j
          BY <2>2, <3>1, <3>3
        <4>2. q[j - 1] = mutex_wq[j]
          BY <2>1, <4>1
        <4> QED
          BY <2>6, <4>1, <4>2, Zenon
      <3>4. j < place \/ j > place
        BY <2>2, <3>1
      <3> QED
        BY <3>2, <3>3, <3>4, Zenon
    <2> QED
      BY <2>6, <2>7, <2>8, Zenon DEF Without
  <1>2. CASE ~\E i \in DOMAIN mutex_wq : mutex_wq[i] = t
    <2>1. q = mutex_wq
      BY <1>2, Zenon DEF q, Unqueued
    <2> QED
      BY <1>0, <1>2, <2>1, Zenon DEF Without
  <1> QED
    BY <1>1, <1>2, Zenon

\* The range that sd_read_blocks and sd_write_blocks accept lies on the card, wrapped sums included.
LEMMA RangeFacts ==
    ASSUME NEW x \in Transfers, InRange(x[1], x[2])
    PROVE  x[1] \in Nat /\ x[2] \in Nat /\ x[1] + x[2] <= CardBlocks
  <1>1. x[1] \in 0 .. SizeMod - 1 /\ x[2] \in 0 .. SizeMod - 1 /\ SizeMod \in Nat /\ CardBlocks \in Nat
    BY SdAssumption
  <1>2. (x[1] + x[2]) % SizeMod <= CardBlocks /\ (x[1] + x[2]) % SizeMod >= x[1]
    BY DEF InRange
  <1>3. ASSUME NEW a \in 0 .. SizeMod - 1, NEW b \in 0 .. SizeMod - 1,
               (a + b) % SizeMod <= CardBlocks, (a + b) % SizeMod >= a
        PROVE  a + b <= CardBlocks
    <2>1. CASE a + b < SizeMod
      <3>1. (a + b) % SizeMod = a + b
        BY <1>1, <2>1
      <3> QED
        BY <1>3, <3>1
    <2>2. CASE a + b >= SizeMod
      <3>1. (a + b) % SizeMod = a + b - SizeMod
        BY <1>1, <2>2
      <3>2. a + b - SizeMod < a
        BY <1>1
      <3> QED
        BY <1>1, <1>3, <3>1, <3>2
    <2> QED
      BY <1>1, <2>1, <2>2
  <1> QED
    BY <1>1, <1>2, <1>3

LEMMA RequestInv ==
    ASSUME MutexInv, NEW t \in SdTasks, Request(t)
    PROVE  /\ MutexInv' /\ req'[t].at = "lock" /\ req[t].at = "rest"
           /\ \A u \in Tasks \ {t} : req'[u] = req[u]
  <1>1. PICK x \in Transfers, op \in {"read", "write"} :
          /\ InRange(x[1], x[2])
          /\ \E v \in IF op = "read" THEN {SomeValue} ELSE CardValues :
               req' = [req EXCEPT ![t] =
                   [at |-> "lock", op |-> op, block |-> x[1], left |-> x[2], buf |-> v]]
    BY Zenon DEF Request
  <1>2. PICK v \in CardValues :
            req' = [req EXCEPT ![t] = [at |-> "lock", op |-> op, block |-> x[1], left |-> x[2], buf |-> v]]
    <2>1. SomeValue \in CardValues
      BY SdAssumption, Zenon DEF SomeValue
    <2> QED
      BY <1>1, <2>1, Zenon
  <1>3. /\ probe = "up" /\ req[t] = AtRest /\ UNCHANGED <<op_mutex, mutex_wq, probe>>
    BY Zenon DEF Request, mutexVars, probeVars
  <1> DEFINE r == [at |-> "lock", op |-> op, block |-> x[1], left |-> x[2], buf |-> v]
  <1>4. x[1] \in Nat /\ x[2] \in Nat /\ x[1] + x[2] <= CardBlocks
    BY <1>1, RangeFacts, Zenon
  <1>5. r \in Pending /\ r.at = "lock" /\ r.block + r.left <= CardBlocks
    BY <1>4 DEF Pending, Waiting, Ops
  <1>6. req' = [req EXCEPT ![t] = r]
    BY <1>2, Zenon
  <1> HIDE DEF r
  <1>7. req'[t] = r /\ (\A u \in Tasks \ {t} : req'[u] = req[u]) /\ ReqType'
    BY <1>5, <1>6, TaskFacts, StoreFacts, Zenon DEF MutexInv
  <1>8. req[t].at = "rest" /\ "lock" \notin Busy /\ "lock" # "unlock"
    BY <1>3 DEF AtRest, Busy
  <1>9. op_mutex.owner # t
    <2>1. "rest" \in Ends \ {"unlock"}
      BY DEF Ends
    <2> QED
      BY <1>8, <2>1, WaitingFacts, Zenon
  <1>10. PlaceInv' /\ RangeInv'
    <2>1. \A u \in {t} : req'[u].at \in Busy \cup {"unlock"} <=> op_mutex'.owner = u
      BY <1>3, <1>5, <1>7, <1>8, <1>9, Zenon
    <2>2. \A u \in {t} : /\ req'[u].at \in Busy \cup Waiting => req'[u].block + req'[u].left <= CardBlocks
                         /\ req'[u].at \in Busy => req'[u].left > 0
      BY <1>5, <1>7, <1>8, Zenon
    <2>3. op_mutex'.depth = 0 <=> op_mutex'.owner = NoOwner
      BY <1>3, Zenon DEF MutexInv, PlaceInv
    <2>4. /\ \A u \in SdTasks \ {t} : op_mutex'.owner = u <=> op_mutex.owner = u
          /\ \A u \in Tasks \ {t} : req'[u] = req[u]
          /\ {t} \in SUBSET SdTasks /\ probe' = probe
      BY <1>3, <1>7, Zenon
    <2> QED
      BY <1>3, <2>1, <2>2, <2>3, <2>4, PlacesKept, Zenon
  <1>11. QueueInv' /\ HandsOn'
    <2>1. req[t].at \notin {"queued", "asleep", "wake", "woken"} /\ req'[t].at \notin {"queued", "asleep"}
      BY <1>5, <1>7, <1>8
    <2> QED
      BY <1>3, <1>7, <2>1, TaskFacts, AsideInv, Zenon
  <1>12. LockType'
    BY <1>3, Zenon DEF MutexInv, LockType
  <1> QED
    BY <1>5, <1>7, <1>8, <1>10, <1>11, <1>12, Zenon DEF MutexInv

LEMMA LockInv ==
    ASSUME MutexInv, NEW t \in SdTasks, Lock(t)
    PROVE  /\ MutexInv' /\ req[t].at \in Waiting /\ req'[t].at \in {"cmd", "unlock"}
           /\ \A u \in Tasks \ {t} : req'[u] = req[u]
  <1>1. /\ req[t].at \in {"lock", "queued", "woken"} /\ (op_mutex.depth = 0 \/ op_mutex.owner = t)
        /\ op_mutex' = [owner |-> t, depth |-> op_mutex.depth + 1] /\ mutex_wq' = Unqueued(t)
        /\ IF req[t].left = 0 THEN Leave(t) ELSE At(t, "cmd")
        /\ probe' = probe
    BY Zenon DEF Lock, kmutex_try_lock, probeVars
  <1>2. req[t].at \in Waiting /\ req[t].at # "rest" /\ req[t].at # "asleep"
    BY <1>1 DEF Waiting
  <1>3. /\ op_mutex.owner # t /\ req[t] \in Pending /\ req[t].block + req[t].left <= CardBlocks
        /\ probe = "up" /\ mutex_wq \in Seq(SdTasks)
    BY <1>2, WaitingFacts, Zenon
  <1>4. op_mutex.depth = 0
    BY <1>1, <1>3, Zenon
  <1>5. op_mutex'.owner = t /\ op_mutex'.depth = 1 /\ op_mutex' \in [owner : SdTasks \cup {NoOwner}, depth : {0, 1}]
    BY <1>1, <1>4
  <1>6. op_mutex.owner = NoOwner
    BY <1>4, Zenon DEF MutexInv, PlaceInv
  <1>7. /\ ReqType' /\ req'[t].at \in {"cmd", "unlock"} /\ \A u \in Tasks \ {t} : req'[u] = req[u]
        /\ req'[t].at \in Busy \cup Waiting =>
              /\ req'[t].block + req'[t].left <= CardBlocks /\ req'[t].left > 0
    <2>1. CASE req[t].left = 0
      <3>1. Leave(t)
        BY <1>1, <2>1, Zenon
      <3>2. "unlock" \notin Busy \cup Waiting
        BY DEF Busy, Waiting
      <3> QED
        BY <3>1, <3>2, TaskFacts, LeaveFacts, Zenon DEF MutexInv
    <2>2. CASE req[t].left # 0
      <3>1. At(t, "cmd") /\ "cmd" \in Busy
        BY <1>1, <2>2, Zenon DEF Busy
      <3>2. /\ ReqType' /\ req'[t].at = "cmd" /\ \A u \in Tasks \ {t} : req'[u] = req[u]
            /\ req'[t].block = req[t].block /\ req'[t].left = req[t].left
        BY <1>2, <3>1, TaskFacts, AtFacts, Zenon DEF MutexInv
      <3>3. req[t].left > 0
        BY <1>3, <2>2 DEF Pending
      <3> QED
        BY <1>3, <3>2, <3>3, Zenon
    <2> QED
      BY <2>1, <2>2, Zenon
  <1>8. PlaceInv' /\ RangeInv'
    <2>1. \A u \in {t} : req'[u].at \in Busy \cup {"unlock"} <=> op_mutex'.owner = u
      <3>1. "cmd" \in Busy
        BY DEF Busy
      <3> QED
        BY <1>5, <1>7, <3>1, Zenon
    <2>2. \A u \in {t} : /\ req'[u].at \in Busy \cup Waiting => req'[u].block + req'[u].left <= CardBlocks
                         /\ req'[u].at \in Busy => req'[u].left > 0
      BY <1>7, Zenon
    <2>3. op_mutex'.depth = 0 <=> op_mutex'.owner = NoOwner
      BY <1>5, SdAssumption
    <2>4. /\ \A u \in SdTasks \ {t} : op_mutex'.owner = u <=> op_mutex.owner = u
          /\ \A u \in Tasks \ {t} : req'[u] = req[u]
          /\ {t} \in SUBSET SdTasks
      BY <1>5, <1>6, <1>7, TaskFacts, Zenon
    <2> QED
      BY <1>1, <1>3, <2>1, <2>2, <2>3, <2>4, PlacesKept, Zenon
  <1>9. QueueInv' /\ mutex_wq' \in Seq(SdTasks)
    <2>1. QueueInv
      BY Zenon DEF MutexInv
    <2>2. /\ mutex_wq' \in Seq(SdTasks)
          /\ \A i \in DOMAIN mutex_wq' : mutex_wq'[i] # t /\ \E j \in DOMAIN mutex_wq : mutex_wq'[i] = mutex_wq[j]
          /\ \A j \in DOMAIN mutex_wq : mutex_wq[j] # t => \E i \in DOMAIN mutex_wq' : mutex_wq'[i] = mutex_wq[j]
          /\ \A i, j \in DOMAIN mutex_wq' : mutex_wq'[i] = mutex_wq'[j] => i = j
      <3>1. mutex_wq \in Seq(SdTasks) /\ mutex_wq' = Unqueued(t)
        BY <1>1, <1>3, Zenon
      <3>2. Without(mutex_wq', t)
        BY <2>1, <3>1, UnqueuedFacts, Zenon
      <3> QED
        BY <3>2, Zenon DEF Without
    <2>3. ASSUME NEW u \in SdTasks, req'[u].at \in {"queued", "asleep"}
          PROVE  \E i \in DOMAIN mutex_wq' : mutex_wq'[i] = u
      <3>1. u # t /\ req'[u] = req[u]
        BY <1>7, <2>3, TaskFacts, Zenon
      <3>2. PICK j \in DOMAIN mutex_wq : mutex_wq[j] = u
        BY <2>1, <2>3, <3>1, Zenon DEF QueueInv
      <3> QED
        BY <2>2, <3>1, <3>2, Zenon
    <2>4. ASSUME NEW i \in DOMAIN mutex_wq' PROVE req'[mutex_wq'[i]].at \in {"queued", "asleep"}
      <3>1. PICK j \in DOMAIN mutex_wq : mutex_wq'[i] = mutex_wq[j]
        BY <2>2, Zenon
      <3>2. req[mutex_wq'[i]].at \in {"queued", "asleep"} /\ mutex_wq'[i] # t
        BY <2>1, <2>2, <3>1, Zenon DEF QueueInv
      <3>3. mutex_wq'[i] \in SdTasks
        BY <2>2, ElementOfSeq, LenProperties
      <3>4. req'[mutex_wq'[i]] = req[mutex_wq'[i]]
        BY <1>7, <3>2, <3>3, TaskFacts, Zenon
      <3> QED
        BY <3>2, <3>4, Zenon
    <2>5. \A i, j \in DOMAIN mutex_wq' : mutex_wq'[i] = mutex_wq'[j] => i = j
      BY <2>2, Zenon
    <2>6. QueueInv'
      BY <2>3, <2>4, <2>5, Zenon DEF QueueInv
    <2> QED
      BY <2>2, <2>6, Zenon
  <1>10. HandsOn'
    BY <1>5 DEF HandsOn
  <1>11. LockType'
    BY <1>1, <1>5, <1>9, Zenon DEF MutexInv, LockType
  <1> QED
    BY <1>2, <1>7, <1>8, <1>9, <1>10, <1>11, Zenon DEF MutexInv

\* A task that waits stays a task that waits, the mutex as it was.
LEMMA StillWaiting ==
    ASSUME MutexInv, NEW t \in SdTasks, NEW pc \in Waiting, req[t].at \in Waiting, At(t, pc),
           UNCHANGED <<op_mutex, probe>>
    PROVE  /\ ReqType' /\ PlaceInv' /\ RangeInv' /\ req'[t].at = pc
           /\ \A u \in Tasks \ {t} : req'[u] = req[u]
  <1>1. "rest" \notin Waiting
    BY DEF Waiting
  <1>2. /\ op_mutex.owner # t /\ req[t] \in Pending /\ req[t].block + req[t].left <= CardBlocks
        /\ probe = "up"
    BY <1>1, WaitingFacts, Zenon
  <1>3. /\ ReqType' /\ req'[t].at = pc /\ \A u \in Tasks \ {t} : req'[u] = req[u]
        /\ req'[t].block = req[t].block /\ req'[t].left = req[t].left
    BY TaskFacts, AtFacts, Zenon DEF MutexInv
  <1>4. pc \notin Busy /\ pc # "unlock"
    BY DEF Busy, Waiting
  <1>5. PlaceInv' /\ RangeInv'
    <2>1. \A u \in {t} : req'[u].at \in Busy \cup {"unlock"} <=> op_mutex'.owner = u
      BY <1>2, <1>3, <1>4, Zenon
    <2>2. \A u \in {t} : /\ req'[u].at \in Busy \cup Waiting => req'[u].block + req'[u].left <= CardBlocks
                         /\ req'[u].at \in Busy => req'[u].left > 0
      BY <1>2, <1>3, <1>4, Zenon
    <2>3. op_mutex'.depth = 0 <=> op_mutex'.owner = NoOwner
      BY Zenon DEF MutexInv, PlaceInv
    <2>4. /\ \A u \in SdTasks \ {t} : op_mutex'.owner = u <=> op_mutex.owner = u
          /\ \A u \in Tasks \ {t} : req'[u] = req[u]
          /\ {t} \in SUBSET SdTasks /\ probe' = probe
      BY <1>3, Zenon
    <2> QED
      BY <1>2, <2>1, <2>2, <2>3, <2>4, PlacesKept, Zenon
  <1> QED
    BY <1>3, <1>5, Zenon

LEMMA QueueStepInv ==
    ASSUME MutexInv, NEW t \in SdTasks, Queue(t)
    PROVE  /\ MutexInv' /\ req[t].at \in Waiting /\ req'[t].at \in Waiting
           /\ \A u \in Tasks \ {t} : req'[u] = req[u]
  <1>1. /\ req[t].at \in {"lock", "woken"} /\ op_mutex.depth > 0 /\ At(t, "queued")
        /\ mutex_wq' = Append(mutex_wq, t) /\ UNCHANGED <<op_mutex, probe>>
    BY Zenon DEF Queue, probeVars
  <1>2. req[t].at \in Waiting /\ "queued" \in Waiting /\ req[t].at \notin {"queued", "asleep"}
    BY <1>1 DEF Waiting
  <1>3. /\ ReqType' /\ PlaceInv' /\ RangeInv' /\ req'[t].at = "queued"
        /\ \A u \in Tasks \ {t} : req'[u] = req[u]
    BY <1>1, <1>2, StillWaiting, Zenon
  <1>4. QueueInv /\ mutex_wq \in Seq(SdTasks)
    BY Zenon DEF MutexInv, LockType
  <1> DEFINE n == Len(mutex_wq)
  <1>5. /\ n \in Nat /\ DOMAIN mutex_wq = 1 .. n /\ DOMAIN mutex_wq' = 1 .. n + 1
        /\ mutex_wq' \in Seq(SdTasks) /\ mutex_wq'[n + 1] = t
        /\ \A i \in 1 .. n : mutex_wq'[i] = mutex_wq[i] /\ mutex_wq[i] \in SdTasks
    BY <1>1, <1>4
  <1>6. \A i \in 1 .. n : mutex_wq[i] # t
    BY <1>2, <1>4, <1>5, Zenon DEF QueueInv
  <1>7. \A i \in 1 .. n + 1 : i \in 1 .. n \/ i = n + 1
    BY <1>5
  <1> HIDE DEF n
  <1>8. QueueInv'
    <2>1. ASSUME NEW u \in SdTasks, req'[u].at \in {"queued", "asleep"}
          PROVE  \E i \in DOMAIN mutex_wq' : mutex_wq'[i] = u
      <3>0. n + 1 \in 1 .. n + 1 /\ \A i \in 1 .. n : i \in 1 .. n + 1
        BY <1>5
      <3>1. CASE u = t
        BY <1>5, <3>0, <3>1, Zenon
      <3>2. CASE u # t
        <4>1. req'[u] = req[u]
          BY <1>3, <3>2, TaskFacts, Zenon
        <4>2. PICK i \in 1 .. n : mutex_wq[i] = u
          BY <1>4, <1>5, <2>1, <4>1, Zenon DEF QueueInv
        <4> QED
          BY <1>5, <3>0, <4>2, Zenon
      <3> QED
        BY <3>1, <3>2, Zenon
    <2>2. ASSUME NEW i \in DOMAIN mutex_wq' PROVE req'[mutex_wq'[i]].at \in {"queued", "asleep"}
      <3>1. CASE i = n + 1
        BY <1>3, <1>5, <3>1, Zenon
      <3>2. CASE i \in 1 .. n
        <4>1. mutex_wq'[i] = mutex_wq[i] /\ mutex_wq[i] \in SdTasks /\ mutex_wq[i] # t
          BY <1>5, <1>6, <3>2, Zenon
        <4>2. req'[mutex_wq[i]] = req[mutex_wq[i]]
          BY <1>3, <4>1, TaskFacts, Zenon
        <4>3. req[mutex_wq[i]].at \in {"queued", "asleep"}
          BY <1>4, <1>5, <3>2, Zenon DEF QueueInv
        <4> QED
          BY <4>1, <4>2, <4>3, Zenon
      <3> QED
        BY <1>5, <1>7, <3>1, <3>2, Zenon
    <2>3. ASSUME NEW i \in DOMAIN mutex_wq', NEW j \in DOMAIN mutex_wq', mutex_wq'[i] = mutex_wq'[j]
          PROVE  i = j
      <3>1. \A k, m \in 1 .. n : mutex_wq[k] = mutex_wq[m] => k = m
        BY <1>4, <1>5, Zenon DEF QueueInv
      <3>2. (i \in 1 .. n \/ i = n + 1) /\ (j \in 1 .. n \/ j = n + 1)
        BY <1>5, <1>7, Zenon
      <3> QED
        BY <1>5, <1>6, <2>3, <3>1, <3>2, Zenon
    <2> QED
      BY <2>1, <2>2, <2>3, Zenon DEF QueueInv
  <1>9. HandsOn' /\ LockType'
    <2>1. op_mutex'.depth # 0
      BY <1>1
    <2> QED
      BY <1>1, <1>5, <2>1, Zenon DEF MutexInv, LockType, HandsOn
  <1> QED
    BY <1>2, <1>3, <1>8, <1>9, Zenon DEF MutexInv

LEMMA SleepInv ==
    ASSUME MutexInv, NEW t \in SdTasks, SleepOnMutex(t)
    PROVE  /\ MutexInv' /\ req[t].at \in Waiting /\ req'[t].at \in Waiting
           /\ \A u \in Tasks \ {t} : req'[u] = req[u]
  <1>1. /\ req[t].at = "queued" /\ op_mutex.depth > 0 /\ At(t, "asleep")
        /\ UNCHANGED <<op_mutex, mutex_wq, probe>>
    BY Zenon DEF SleepOnMutex, mutexVars, probeVars
  <1>2. req[t].at \in Waiting /\ "asleep" \in Waiting
    BY <1>1 DEF Waiting
  <1>3. /\ ReqType' /\ PlaceInv' /\ RangeInv' /\ req'[t].at = "asleep"
        /\ \A u \in Tasks \ {t} : req'[u] = req[u]
    BY <1>1, <1>2, StillWaiting, Zenon
  <1>4. QueueInv /\ mutex_wq \in Seq(SdTasks)
    BY Zenon DEF MutexInv, LockType
  <1>5. \A u \in SdTasks : req'[u].at \in {"queued", "asleep"} <=> req[u].at \in {"queued", "asleep"}
    BY <1>1, <1>3, TaskFacts, Zenon
  <1>6. QueueInv'
    <2>1. \A i \in DOMAIN mutex_wq : mutex_wq[i] \in SdTasks
      BY <1>4, ElementOfSeq, LenProperties
    <2>2. \A u \in SdTasks : req'[u].at \in {"queued", "asleep"} => \E i \in DOMAIN mutex_wq : mutex_wq[i] = u
      BY <1>4, <1>5, Zenon DEF QueueInv
    <2>3. \A i \in DOMAIN mutex_wq : req'[mutex_wq[i]].at \in {"queued", "asleep"}
      BY <1>4, <1>5, <2>1, Zenon DEF QueueInv
    <2>4. \A i, j \in DOMAIN mutex_wq : mutex_wq[i] = mutex_wq[j] => i = j
      BY <1>4, Zenon DEF QueueInv
    <2> QED
      BY <1>1, <2>2, <2>3, <2>4, Zenon DEF QueueInv
  <1>7. HandsOn' /\ LockType'
    <2>1. op_mutex'.depth # 0
      BY <1>1
    <2> QED
      BY <1>1, <2>1, Zenon DEF MutexInv, LockType, HandsOn
  <1> QED
    BY <1>2, <1>3, <1>6, <1>7, Zenon DEF MutexInv

LEMMA UnlockInv ==
    ASSUME MutexInv, NEW t \in SdTasks, Unlock(t)
    PROVE  /\ MutexInv' /\ req[t].at \in Ends /\ req'[t].at \in Ends
           /\ \A u \in Tasks \ {t} : req'[u] = req[u]
  <1>1. /\ req[t].at = "unlock" /\ op_mutex.owner = t /\ op_mutex' = [owner |-> NoOwner, depth |-> 0]
        /\ At(t, "wake") /\ UNCHANGED <<mutex_wq, probe>>
    BY Zenon DEF Unlock, probeVars
  <1>2. req[t].at \in Ends /\ "wake" \in Ends /\ "wake" \notin Busy \cup Waiting /\ req[t].at # "rest"
    BY <1>1 DEF Busy, Waiting, Ends
  <1>3. ReqType' /\ req'[t].at = "wake" /\ \A u \in Tasks \ {t} : req'[u] = req[u]
    BY <1>1, <1>2, TaskFacts, AtFacts, Zenon DEF MutexInv
  <1>4. /\ op_mutex'.owner = NoOwner /\ op_mutex'.depth = 0
        /\ op_mutex' \in [owner : SdTasks \cup {NoOwner}, depth : {0, 1}]
    BY <1>1
  <1>5. PlaceInv' /\ RangeInv'
    <2>0. probe = "up" /\ probe' = probe /\ {t} \in SUBSET SdTasks
      BY <1>1, <1>2, WaitingFacts, Zenon
    <2>1. \A u \in {t} : req'[u].at \in Busy \cup {"unlock"} <=> op_mutex'.owner = u
      <3>1. "wake" # "unlock"
        OBVIOUS
      <3> QED
        BY <1>2, <1>3, <1>4, <3>1, TaskFacts, Zenon
    <2>2. \A u \in {t} : /\ req'[u].at \in Busy \cup Waiting => req'[u].block + req'[u].left <= CardBlocks
                         /\ req'[u].at \in Busy => req'[u].left > 0
      BY <1>2, <1>3, Zenon
    <2>3. op_mutex'.depth = 0 <=> op_mutex'.owner = NoOwner
      BY <1>4, Zenon
    <2>4. \A u \in SdTasks \ {t} : op_mutex'.owner = u <=> op_mutex.owner = u
      BY <1>1, <1>4, TaskFacts, Zenon
    <2> QED
      BY <1>3, <2>0, <2>1, <2>2, <2>3, <2>4, PlacesKept, Zenon
  <1>6. QueueInv'
    <2>1. /\ req[t].at \notin {"queued", "asleep"} /\ req'[t].at \notin {"queued", "asleep"}
      BY <1>1, <1>3
    <2>2. QueueInv /\ mutex_wq \in Seq(SdTasks) /\ \A i \in DOMAIN mutex_wq : mutex_wq[i] \in SdTasks
      BY ElementOfSeq, LenProperties DEF MutexInv, LockType
    <2>3. \A u \in SdTasks : req'[u].at \in {"queued", "asleep"} => \E i \in DOMAIN mutex_wq : mutex_wq[i] = u
      BY <1>3, <2>1, <2>2, TaskFacts, Zenon DEF QueueInv
    <2>4. ASSUME NEW i \in DOMAIN mutex_wq PROVE req'[mutex_wq[i]].at \in {"queued", "asleep"}
      <3>1. req[mutex_wq[i]].at \in {"queued", "asleep"} /\ mutex_wq[i] # t
        BY <2>1, <2>2, Zenon DEF QueueInv
      <3>2. req'[mutex_wq[i]] = req[mutex_wq[i]]
        BY <1>3, <2>2, <3>1, TaskFacts, Zenon
      <3> QED
        BY <3>1, <3>2, Zenon
    <2>5. \A i, j \in DOMAIN mutex_wq : mutex_wq[i] = mutex_wq[j] => i = j
      BY <2>2, Zenon DEF QueueInv
    <2> QED
      BY <1>1, <2>3, <2>4, <2>5, Zenon DEF QueueInv
  <1>7. HandsOn' /\ LockType'
    BY <1>1, <1>3, <1>4, Zenon DEF MutexInv, LockType, HandsOn
  <1> QED
    BY <1>2, <1>3, <1>5, <1>6, <1>7, Zenon DEF MutexInv

LEMMA WakeInv ==
    ASSUME MutexInv, NEW t \in SdTasks, Wake(t)
    PROVE  /\ MutexInv' /\ req'[BootTask] = req[BootTask]
           /\ \A u \in SdTasks : req'[u] = req[u] \/ (req[u].at \notin Busy /\ req'[u].at \notin Busy)
  <1>1. /\ req[t].at = "wake" /\ UNCHANGED <<op_mutex, probe>>
        /\ mutex_wq = <<>> => req' = [req EXCEPT ![t] = AtRest] /\ mutex_wq' = mutex_wq
        /\ mutex_wq # <<>> => /\ req' = [req EXCEPT ![t] = AtRest, ![Head(mutex_wq)].at = "woken"]
                              /\ mutex_wq' = Tail(mutex_wq)
    BY Zenon DEF Wake, probeVars
  <1>2. /\ req[t].at \in Ends \ {"unlock"} /\ req[t].at # "rest" /\ "rest" \notin Busy \cup Waiting \cup {"unlock"}
        /\ "wake" \notin Busy /\ "woken" \in Waiting /\ "woken" \notin Busy \cup {"unlock"}
    BY <1>1 DEF Busy, Waiting, Ends
  <1>3. probe = "up" /\ op_mutex.owner # t /\ mutex_wq \in Seq(SdTasks)
    BY <1>2, WaitingFacts, Zenon
  <1>4. AtRest \in Over /\ AtRest.at = "rest"
    BY DEF AtRest, Over, Ends
  <1>5. ReqType /\ QueueInv /\ RangeInv
    BY Zenon DEF MutexInv
  <1>6. op_mutex'.depth = 0 <=> op_mutex'.owner = NoOwner
    BY <1>1, Zenon DEF MutexInv, PlaceInv
  <1>7. CASE mutex_wq = <<>>
    <2>1. req'[t] = AtRest /\ (\A u \in Tasks \ {t} : req'[u] = req[u]) /\ ReqType'
      BY <1>1, <1>4, <1>5, <1>7, TaskFacts, StoreFacts, Zenon
    <2>2. PlaceInv' /\ RangeInv'
      <3>1. \A u \in {t} : req'[u].at \in Busy \cup {"unlock"} <=> op_mutex'.owner = u
        BY <1>1, <1>2, <1>3, <1>4, <2>1, Zenon
      <3>2. \A u \in {t} : /\ req'[u].at \in Busy \cup Waiting => req'[u].block + req'[u].left <= CardBlocks
                           /\ req'[u].at \in Busy => req'[u].left > 0
        BY <1>2, <1>4, <2>1, Zenon
      <3>3. /\ \A u \in SdTasks \ {t} : op_mutex'.owner = u <=> op_mutex.owner = u
            /\ {t} \in SUBSET SdTasks /\ probe' = probe
        BY <1>1, Zenon
      <3> QED
        BY <1>3, <1>6, <2>1, <3>1, <3>2, <3>3, PlacesKept, Zenon
    <2>3. \A u \in SdTasks : req'[u].at \notin {"queued", "asleep"}
      <3>1. DOMAIN mutex_wq = {}
        BY <1>7
      <3>2. \A u \in SdTasks : req[u].at \notin {"queued", "asleep"}
        BY <1>5, <3>1, Zenon DEF QueueInv
      <3>3. req'[t].at \notin {"queued", "asleep"}
        BY <1>4, <2>1
      <3> QED
        BY <2>1, <3>2, <3>3, TaskFacts, Zenon
    <2>4. DOMAIN mutex_wq' = {} /\ mutex_wq' \in Seq(SdTasks)
      BY <1>1, <1>3, <1>7
    <2>5. QueueInv' /\ HandsOn' /\ LockType'
      BY <1>1, <2>3, <2>4, Zenon DEF QueueInv, HandsOn, MutexInv, LockType
    <2>6. \A u \in SdTasks : req'[u] = req[u] \/ (req[u].at \notin Busy /\ req'[u].at \notin Busy)
      BY <1>1, <1>2, <1>4, <2>1, TaskFacts, Zenon
    <2> QED
      BY <2>1, <2>2, <2>5, <2>6, TaskFacts, Zenon DEF MutexInv
  <1>8. CASE mutex_wq # <<>>
    <2> DEFINE h == Head(mutex_wq)
               n == Len(mutex_wq)
    <2>1. /\ n \in Nat \ {0} /\ DOMAIN mutex_wq = 1 .. n /\ h = mutex_wq[1] /\ 1 \in 1 .. n
          /\ \A i \in 1 .. n : mutex_wq[i] \in SdTasks
      <3>1. n \in Nat /\ DOMAIN mutex_wq = 1 .. n /\ \A i \in 1 .. n : mutex_wq[i] \in SdTasks
        BY <1>3, LenProperties, ElementOfSeq
      <3>2. n # 0
        BY <1>3, <1>8, EmptySeq
      <3>3. h = mutex_wq[1]
        BY <1>3, <1>8
      <3> QED
        BY <3>1, <3>2, <3>3
    <2>2. /\ DOMAIN mutex_wq' = 1 .. n - 1 /\ mutex_wq' \in Seq(SdTasks)
          /\ \A i \in 1 .. n - 1 : mutex_wq'[i] = mutex_wq[i + 1]
      <3>1. mutex_wq' = Tail(mutex_wq)
        BY <1>1, <1>8, Zenon
      <3>2. /\ Tail(mutex_wq) \in Seq(SdTasks) /\ Len(Tail(mutex_wq)) = n - 1
            /\ \A i \in 1 .. Len(Tail(mutex_wq)) : Tail(mutex_wq)[i] = mutex_wq[i + 1]
        BY <1>3, <1>8, HeadTailProperties, Zenon
      <3>3. DOMAIN mutex_wq' = 1 .. Len(mutex_wq')
        BY <3>1, <3>2, LenProperties, Zenon
      <3> QED
        BY <3>1, <3>2, <3>3, Zenon
    <2>3. req' = [req EXCEPT ![t] = AtRest, ![h].at = "woken"]
      BY <1>1, <1>8, Zenon
    <2> HIDE DEF h, n
    <2>4. h \in SdTasks /\ req[h].at \in {"queued", "asleep"} /\ h # t
      <3>1. h \in SdTasks /\ req[h].at \in {"queued", "asleep"}
        BY <1>5, <2>1, Zenon DEF QueueInv
      <3>2. req[t].at \notin {"queued", "asleep"}
        BY <1>1
      <3> QED
        BY <3>1, <3>2, Zenon
    <2>5. req[h].at \in Waiting
      BY <2>4 DEF Waiting
    <2>6. /\ op_mutex.owner # h /\ req[h] \in Pending /\ req[h].block + req[h].left <= CardBlocks
      BY <2>4, <2>5, WaitingFacts, Zenon
    <2> DEFINE r == [req[h] EXCEPT !.at = "woken"]
    <2>7. /\ r \in Pending /\ r.at = "woken" /\ r.block = req[h].block /\ r.left = req[h].left
      BY <1>2, <2>6 DEF Pending
    <2>8. req' = [[req EXCEPT ![t] = AtRest] EXCEPT ![h] = r]
      BY <1>5, <2>3, <2>4 DEF ReqType
    <2> HIDE DEF r
    <2>9. /\ req'[t] = AtRest /\ req'[h] = r /\ \A u \in Tasks \ {t, h} : req'[u] = req[u]
          /\ ReqType'
      BY <1>4, <1>5, <2>4, <2>7, <2>8, TaskFacts DEF ReqType
    <2>10. PlaceInv' /\ RangeInv'
      <3>1. \A u \in {t, h} : req'[u].at \in Busy \cup {"unlock"} <=> op_mutex'.owner = u
        BY <1>1, <1>2, <1>3, <1>4, <2>6, <2>7, <2>9, Zenon
      <3>2. \A u \in {t, h} : /\ req'[u].at \in Busy \cup Waiting => req'[u].block + req'[u].left <= CardBlocks
                              /\ req'[u].at \in Busy => req'[u].left > 0
        BY <1>2, <1>4, <2>6, <2>7, <2>9, Zenon
      <3>3. /\ \A u \in SdTasks \ {t, h} : op_mutex'.owner = u <=> op_mutex.owner = u
            /\ {t, h} \in SUBSET SdTasks /\ probe' = probe
        BY <1>1, <2>4, Zenon
      <3> QED
        BY <1>3, <1>6, <2>9, <3>1, <3>2, <3>3, PlacesKept, Zenon
    <2>11. QueueInv'
      <3>1. \A i, j \in 1 .. n : mutex_wq[i] = mutex_wq[j] => i = j
        BY <1>5, <2>1, Zenon DEF QueueInv
      <3>2. \A i \in 1 .. n - 1 : i + 1 \in 1 .. n /\ i + 1 # 1
        BY <2>1
      <3>3. ASSUME NEW u \in SdTasks, req'[u].at \in {"queued", "asleep"}
            PROVE  \E i \in DOMAIN mutex_wq' : mutex_wq'[i] = u
        <4>1. req'[t].at \notin {"queued", "asleep"} /\ req'[h].at \notin {"queued", "asleep"}
          BY <1>4, <2>7, <2>9
        <4>2. u # t /\ u # h /\ req'[u] = req[u]
          BY <2>9, <3>3, <4>1, TaskFacts, Zenon
        <4>3. PICK j \in 1 .. n : mutex_wq[j] = u
          BY <1>5, <2>1, <3>3, <4>2, Zenon DEF QueueInv
        <4>4. j # 1
          BY <2>1, <4>2, <4>3, Zenon
        <4>5. j - 1 \in 1 .. n - 1 /\ (j - 1) + 1 = j
          BY <2>1, <4>4
        <4> QED
          BY <2>2, <4>3, <4>5, Zenon
      <3>4. ASSUME NEW i \in DOMAIN mutex_wq' PROVE req'[mutex_wq'[i]].at \in {"queued", "asleep"}
        <4>1. i + 1 \in 1 .. n /\ i + 1 # 1 /\ mutex_wq'[i] = mutex_wq[i + 1]
          BY <2>2, <3>2, Zenon
        <4>2. mutex_wq[i + 1] # h /\ mutex_wq[i + 1] \in SdTasks
          BY <2>1, <3>1, <4>1, Zenon
        <4>3. req[mutex_wq[i + 1]].at \in {"queued", "asleep"}
          BY <1>5, <2>1, <4>1, Zenon DEF QueueInv
        <4>4. mutex_wq[i + 1] # t
          <5>1. req[t].at \notin {"queued", "asleep"}
            BY <1>1
          <5> QED
            BY <4>3, <5>1, Zenon
        <4>5. req'[mutex_wq[i + 1]] = req[mutex_wq[i + 1]]
          BY <2>9, <4>2, <4>4, TaskFacts, Zenon
        <4> QED
          BY <4>1, <4>3, <4>5, Zenon
      <3>5. ASSUME NEW i \in DOMAIN mutex_wq', NEW j \in DOMAIN mutex_wq', mutex_wq'[i] = mutex_wq'[j]
            PROVE  i = j
        <4>1. i + 1 = j + 1
          BY <2>2, <3>1, <3>2, <3>5, ZenonT(40)
        <4> QED
          BY <2>2, <4>1
      <3> QED
        BY <3>3, <3>4, <3>5, Zenon DEF QueueInv
    <2>12. HandsOn' /\ LockType'
      BY <1>1, <2>2, <2>4, <2>7, <2>9, Zenon DEF HandsOn, MutexInv, LockType
    <2>13. \A u \in SdTasks : req'[u] = req[u] \/ (req[u].at \notin Busy /\ req'[u].at \notin Busy)
      <3>1. req[h].at \notin Busy
        BY <2>5, PlaceFacts, Zenon
      <3> QED
        BY <1>1, <1>2, <1>4, <2>7, <2>9, <3>1, TaskFacts, Zenon
    <2>14. req'[BootTask] = req[BootTask]
      BY <2>4, <2>9, TaskFacts, Zenon
    <2> QED
      BY <2>9, <2>10, <2>11, <2>12, <2>13, <2>14, Zenon DEF MutexInv
  <1> QED
    BY <1>7, <1>8, Zenon

(***************************************************************************)
(* sd_probe.                                                               *)
(***************************************************************************)
LEMMA ProbeFacts ==
    ASSUME MutexInv, ProbeStep
    PROVE  /\ probe \in Stages \ {"up", "absent"} /\ probe' \in Stages
           /\ req'[BootTask] = IF probe' \in {"up", "absent"} THEN AtRest ELSE BootRequest(probe')
           /\ \A u \in Tasks \ {BootTask} : req'[u] = req[u]
           /\ \A u \in SdTasks : req[u].at = "rest" /\ req'[u].at = "rest"
           /\ ReqType' /\ UNCHANGED <<op_mutex, mutex_wq>>
  <1>1. /\ req[BootTask].at \in {"sent", "moved", "failed"}
        /\ \/ probe = "acmd41" /\ Acmd41
           \/ /\ probe # "acmd41"
              /\ probe' \in IF req[BootTask].at = "failed" THEN OnFailure[probe] ELSE OnSuccess[probe]
        /\ req' = [req EXCEPT ![BootTask] = IF probe' \in {"up", "absent"} THEN AtRest ELSE BootRequest(probe')]
        /\ UNCHANGED <<op_mutex, mutex_wq>>
    BY Zenon DEF ProbeStep, mutexVars
  <1>2. PlaceInv /\ ReqType /\ probe \in Stages
    BY Zenon DEF MutexInv, LockType
  <1>3. req[BootTask].at # "rest"
    BY <1>1
  <1>4. probe \in Stages \ {"up", "absent"}
    BY <1>2, <1>3, Zenon DEF PlaceInv
  <1>5. probe' \in Stages
    <2>1. CASE probe = "acmd41" /\ Acmd41
      BY <2>1 DEF Acmd41, Stages
    <2>2. CASE probe # "acmd41"
      <3>1. OnFailure[probe] \subseteq Stages /\ OnSuccess[probe] \subseteq Stages
        BY <1>4, <2>2 DEF OnFailure, OnSuccess, Stages
      <3> QED
        BY <1>1, <2>2, <3>1, Zenon
    <2> QED
      BY <1>1, <2>1, <2>2, Zenon
  <1>6. (IF probe' \in {"up", "absent"} THEN AtRest ELSE BootRequest(probe')) \in Pending \cup Over
    <2>1. AtRest \in Over
      BY DEF AtRest, Over, Ends
    <2>2. SomeValue \in CardValues
      BY SdAssumption, Zenon DEF SomeValue
    <2>3. BootRequest(probe') \in Pending
      BY <2>2 DEF BootRequest, Pending, Busy, Ops
    <2> QED
      BY <2>1, <2>3, Zenon
  <1>7. /\ req'[BootTask] = IF probe' \in {"up", "absent"} THEN AtRest ELSE BootRequest(probe')
        /\ ReqType' /\ \A u \in Tasks \ {BootTask} : req'[u] = req[u]
    BY <1>1, <1>2, <1>6, TaskFacts, StoreFacts, Zenon
  <1>8. ASSUME NEW u \in SdTasks PROVE req[u].at = "rest" /\ req'[u].at = "rest"
    <2>1. req[u].at = "rest"
      BY <1>2, <1>4, Zenon DEF PlaceInv
    <2>2. req'[u] = req[u]
      BY <1>7, TaskFacts, Zenon
    <2> QED
      BY <2>1, <2>2, Zenon
  <1> QED
    BY <1>1, <1>4, <1>5, <1>7, <1>8, Zenon

LEMMA ProbeInv ==
    ASSUME MutexInv, ProbeStep
    PROVE  MutexInv'
  <1>1. /\ probe \in Stages \ {"up", "absent"} /\ probe' \in Stages
        /\ req'[BootTask] = IF probe' \in {"up", "absent"} THEN AtRest ELSE BootRequest(probe')
        /\ \A u \in Tasks \ {BootTask} : req'[u] = req[u]
        /\ \A u \in SdTasks : req[u].at = "rest" /\ req'[u].at = "rest"
        /\ ReqType' /\ UNCHANGED <<op_mutex, mutex_wq>>
    BY ProbeFacts, Zenon
  <1>2. PlaceInv /\ RangeInv /\ QueueInv /\ LockType
    BY Zenon DEF MutexInv
  <1>3. /\ AtRest.at = "rest"
        /\ \A s : BootRequest(s).at = "cmd" /\ BootRequest(s).block = 0 /\ BootRequest(s).left = 1
    BY DEF AtRest, BootRequest
  <1>4. "rest" \notin Busy \cup Waiting \cup {"unlock"} /\ "cmd" \in Busy /\ "cmd" # "rest" /\ "rest" # "asleep"
    BY DEF Busy, Waiting
  <1>5. PlaceInv'
    <2>1. /\ req'[BootTask].at \in Busy \cup {"rest"}
          /\ req'[BootTask].at = "rest" <=> probe' \in {"up", "absent"}
      BY <1>1, <1>3, <1>4, Zenon
    <2>2. \A t \in SdTasks : /\ req'[t].at # "rest" => probe' = "up"
                             /\ req'[t].at \in Busy \cup {"unlock"} <=> op_mutex'.owner = t
      BY <1>1, <1>2, ZenonT(40) DEF PlaceInv
    <2>3. op_mutex'.depth = 0 <=> op_mutex'.owner = NoOwner
      BY <1>1, <1>2, Zenon DEF PlaceInv
    <2> QED
      BY <2>1, <2>2, <2>3, Zenon DEF PlaceInv
  <1>6. RangeInv'
    <2>1. ASSUME NEW t \in Tasks
          PROVE  /\ req'[t].at \in Busy \cup Waiting => req'[t].block + req'[t].left <= CardBlocks
                 /\ req'[t].at \in Busy => req'[t].left > 0
      <3>1. CASE t \in SdTasks
        BY <1>1, <1>4, <3>1, Zenon
      <3>2. CASE t = BootTask
        <4>1. 0 + 1 <= CardBlocks /\ 1 > 0
          BY SdAssumption
        <4> QED
          BY <1>1, <1>3, <1>4, <3>2, <4>1, Zenon
      <3> QED
        BY <3>1, <3>2, Zenon DEF Tasks
    <2> QED
      BY <2>1, Zenon DEF RangeInv
  <1>7. QueueInv' /\ HandsOn'
    <2>1. \A u \in SdTasks : req'[u].at \notin {"queued", "asleep"}
      BY <1>1
    <2>2. DOMAIN mutex_wq = {}
      <3>1. \A i \in DOMAIN mutex_wq : mutex_wq[i] \in SdTasks
        BY <1>2, ElementOfSeq, LenProperties DEF LockType
      <3>2. \A u \in SdTasks : req[u].at \notin {"queued", "asleep"}
        BY <1>1
      <3> QED
        BY <1>2, <3>1, <3>2, Zenon DEF QueueInv
    <2> QED
      BY <1>1, <2>1, <2>2, Zenon DEF QueueInv, HandsOn
  <1>8. LockType'
    BY <1>1, <1>2, Zenon DEF LockType
  <1> QED
    BY <1>1, <1>5, <1>6, <1>7, <1>8, Zenon DEF MutexInv

(***************************************************************************)
(* The controller, the handler and the card.                               *)
(***************************************************************************)
LEMMA DevicesKeep ==
    ASSUME MutexInv, \/ IrqRead \/ IrqPost \/ CardAnswers \/ CardFinishes \/ CardFails
                     \/ UNCHANGED sdVars
    PROVE  MutexInv' /\ UNCHANGED req
  <1>1. UNCHANGED <<op_mutex, mutex_wq, req, probe>>
    BY Zenon DEF IrqRead, IrqPost, CardAnswers, CardFinishes, CardFails, sdVars, mutexVars, probeVars
  <1>2. ReqType' /\ LockType' /\ RangeInv' /\ HandsOn'
    BY <1>1, Zenon DEF MutexInv, ReqType, LockType, RangeInv, HandsOn
  <1>3. PlaceInv'
    BY <1>1, Zenon DEF MutexInv, PlaceInv
  <1>4. QueueInv'
    BY <1>1, Zenon DEF MutexInv, QueueInv
  <1> QED
    BY <1>1, <1>2, <1>3, <1>4, Zenon DEF MutexInv

\* One task at a time has the controller.
LEMMA OneBusy ==
    ASSUME MutexInv, NEW t \in Tasks, NEW u \in Tasks, req[t].at \in Busy, req[u].at \in Busy
    PROVE  t = u
  <1>1. PlaceInv /\ "rest" \notin Busy
    BY DEF MutexInv, Busy
  <1>2. ASSUME NEW v \in SdTasks, req[v].at \in Busy PROVE op_mutex.owner = v /\ req[BootTask].at \notin Busy
    BY <1>1, <1>2, Zenon DEF PlaceInv
  <1>3. CASE t = BootTask \/ u = BootTask
    BY <1>2, <1>3, Zenon DEF Tasks
  <1>4. CASE t \in SdTasks /\ u \in SdTasks
    BY <1>2, <1>4, Zenon
  <1> QED
    BY <1>3, <1>4, Zenon DEF Tasks

LEMMA RealElsewhere ==
    ASSUME NEW t, req'[t].at \notin Busy \/ req'[t].at \in {"cmd", "sent", "failed"}
    PROVE  Real(t)'
  <1>1. req'[t].at \notin {"issue", "wait_cmd", "ready", "wait_data", "moved"}
    BY DEF Busy
  <1> QED
    BY <1>1, Zenon DEF Real

LEMMA RealOfOne ==
    ASSUME MutexInv, NEW t \in Tasks, Inside(t), Real(t)'
    PROVE  RealInv'
  <1>1. ASSUME NEW u \in Tasks PROVE Real(u)'
    <2>1. CASE u = t
      BY <2>1, Zenon
    <2>2. CASE u # t
      <3>1. req[t].at \in Busy /\ req'[u] = req[u]
        BY <2>2, Zenon DEF Inside
      <3>2. req[u].at \notin Busy
        BY <2>2, <3>1, OneBusy, Zenon
      <3> QED
        BY <3>1, <3>2, RealElsewhere, Zenon
    <2> QED
      BY <2>1, <2>2, Zenon
  <1> QED
    BY <1>1, Zenon DEF RealInv

\* A step that goes on leaves the operation as it was.
LEMMA SameOp ==
    ASSUME MutexInv, NEW t \in Tasks, NEW pc \in Busy, req[t].at \in Busy, At(t, pc)
    PROVE  /\ req'[t].at = pc /\ HasData(t)' = HasData(t)
           /\ req'[t].block = req[t].block /\ req'[t].buf = req[t].buf
  <1>1. /\ req'[t].at = pc /\ req'[t].op = req[t].op
        /\ req'[t].block = req[t].block /\ req'[t].buf = req[t].buf
    BY AtFacts, Zenon DEF MutexInv
  <1> QED
    BY <1>1, Zenon DEF HasData

LEMMA ClearStaleReal ==
    ASSUME MutexInv, HwType, RealInv, NEW t \in Tasks, ClearStale(t)
    PROVE  HwType' /\ Real(t)'
  <1>1. /\ req[t].at = "cmd" /\ ~ctl.cmd /\ (HasData(t) => ctl.dat = "idle")
        /\ interrupt' = {} /\ irq_pending' = {} /\ reposted' = (isr # {}) /\ At(t, "issue")
        /\ UNCHANGED <<ctl, card, isr>>
    BY Zenon DEF ClearStale
  <1>2. req'[t].at = "issue" /\ HasData(t)' = HasData(t)
    BY <1>1, SameOp, Zenon DEF Busy
  <1>3. HwType'
    BY <1>1, Zenon DEF HwType
  <1>4. ~reposted' => InFlight' = {}
    BY <1>1, Zenon DEF InFlight
  <1>5. /\ req'[t].at \notin {"ready", "wait_data", "moved", "wait_cmd"}
    BY <1>2
  <1> QED
    BY <1>1, <1>2, <1>3, <1>4, <1>5, Zenon DEF Real

LEMMA IssueReal ==
    ASSUME MutexInv, HwType, RealInv, NEW t \in Tasks, Issue(t)
    PROVE  HwType' /\ Real(t)'
  <1>1. /\ req[t].at = "issue" /\ At(t, "wait_cmd")
        /\ ctl' = [cmd |-> TRUE, dat |-> IF HasData(t) THEN "waiting" ELSE "idle"]
        /\ UNCHANGED <<card, interrupt, irq_pending, isr, reposted>>
    BY Zenon DEF Issue, irqVars
  <1>2. req'[t].at = "wait_cmd" /\ HasData(t)' = HasData(t) /\ "issue" \in Busy
    BY <1>1, SameOp DEF Busy
  <1>3. ctl'.cmd = TRUE /\ ctl'.dat \in {"waiting", "idle"}
    BY <1>1
  <1>4. HwType'
    <2>1. ctl'.dat \in Lines /\ ctl'.dat # "storing"
      BY <1>3 DEF Lines
    <2> QED
      BY <1>1, <1>3, <2>1, Zenon DEF HwType
  <1>5. HasData(t) /\ ~reposted => "data" \notin InFlight'
    <2>1. HasData(t) /\ ~reposted => InFlight = {}
      BY <1>1, <1>2, Zenon DEF RealInv, Real
    <2>2. InFlight' = InFlight
      BY <1>1, Zenon DEF InFlight
    <2> QED
      BY <2>1, <2>2, Zenon
  <1>6. /\ req'[t].at \notin {"ready", "wait_data", "moved", "issue"} /\ ctl'.dat \in {"idle", "waiting", "ready"}
    BY <1>2, <1>3
  <1> QED
    BY <1>1, <1>2, <1>4, <1>5, <1>6, Zenon DEF Real

LEMMA CommandDoneReal ==
    ASSUME MutexInv, HwType, RealInv, NEW t \in Tasks, CommandDone(t)
    PROVE  HwType' /\ Real(t)'
  <1> DEFINE pc == IF HasData(t) THEN "ready" ELSE "sent"
  <1>1. /\ req[t].at = "wait_cmd" /\ At(t, pc) /\ irq_pending' = irq_pending \ {"cmd", "error"}
        /\ UNCHANGED <<ctl, card, interrupt, isr, reposted>>
    BY Zenon DEF CommandDone, TakeBits, hwVars
  <1>2. pc \in Busy /\ req[t].at \in Busy
    BY <1>1 DEF Busy
  <1>3. req'[t].at = pc /\ HasData(t)' = HasData(t)
    BY <1>1, <1>2, SameOp, Zenon
  <1>4. HwType'
    BY <1>1, Zenon DEF HwType
  <1>5. HasData(t) /\ ~reposted => "data" \notin InFlight' /\ ctl.dat \in {"idle", "waiting", "ready"}
    <2>1. HasData(t) /\ ~reposted => "data" \notin InFlight /\ ctl.dat \in {"idle", "waiting", "ready"}
      BY <1>1, <1>2, Zenon DEF RealInv, Real
    <2>2. InFlight' \subseteq InFlight
      BY <1>1, Zenon DEF InFlight
    <2> QED
      BY <2>1, <2>2, Zenon
  <1>6. /\ req'[t].at \notin {"wait_data", "moved", "issue", "wait_cmd"}
        /\ req'[t].at = "ready" => HasData(t)
    BY <1>3
  <1> QED
    BY <1>1, <1>3, <1>4, <1>5, <1>6, Zenon DEF Real

LEMMA MoveReal ==
    ASSUME MutexInv, HwType, RealInv, NEW t \in Tasks, MoveBlock(t)
    PROVE  HwType' /\ Real(t)'
  <1>1. /\ req[t].at = "ready" /\ ctl.dat = "ready" /\ req'[t].at = "wait_data"
        /\ req'[t].op = req[t].op /\ req'[t].block = req[t].block
        /\ \/ /\ req'[t].buf = card[req[t].block] /\ ctl' = [cmd |-> FALSE, dat |-> "sent"]
           \/ /\ req'[t].buf = req[t].buf
              /\ ctl' = [cmd |-> FALSE, dat |-> "storing", block |-> req[t].block, val |-> req[t].buf]
        /\ UNCHANGED <<card, interrupt, irq_pending, isr, reposted>>
    BY MoveFacts, Zenon
  <1>2. HasData(t)' = HasData(t) /\ InFlight' = InFlight /\ "ready" \in Busy
    BY <1>1 DEF HasData, InFlight, Busy
  <1>3. HasData(t) /\ (~reposted => "data" \notin InFlight)
    BY <1>1, <1>2, Zenon DEF RealInv, Real
  <1>4. req[t] \in Pending /\ req[t].block \in 0 .. CardBlocks - 1
    BY <1>1, <1>2, OnCard, Zenon
  <1>5. req[t].buf \in CardValues
    BY <1>4 DEF Pending
  <1>6. /\ ctl'.cmd = FALSE /\ ctl'.dat \in {"sent", "storing"}
        /\ ctl'.dat = "sent" => req'[t].buf = card[req[t].block]
        /\ ctl'.dat = "storing" => /\ ctl'.block = req[t].block /\ ctl'.val = req[t].buf
                                   /\ req'[t].buf = req[t].buf
    BY <1>1
  <1>7. HwType'
    <2>1. ctl'.dat \in Lines /\ ctl'.cmd \in BOOLEAN
      BY <1>6, Zenon DEF Lines
    <2>2. ctl'.dat = "storing" => ctl'.block \in 0 .. CardBlocks - 1 /\ ctl'.val \in CardValues
      BY <1>4, <1>5, <1>6, Zenon
    <2> QED
      BY <1>1, <2>1, <2>2, Zenon DEF HwType
  <1>8. req'[t].at \notin {"issue", "wait_cmd", "ready", "moved"}
    BY <1>1
  <1> QED
    BY <1>1, <1>2, <1>3, <1>6, <1>7, <1>8, Zenon DEF Real

LEMMA DataDoneReal ==
    ASSUME MutexInv, HwType, RealInv, NEW t \in Tasks, DataDone(t)
    PROVE  HwType' /\ Real(t)'
  <1>1. /\ req[t].at = "wait_data" /\ At(t, "moved") /\ Answered("data") /\ "error" \notin irq_pending
        /\ irq_pending' = irq_pending \ {"data", "error"} /\ UNCHANGED <<ctl, card, interrupt, isr, reposted>>
    BY Zenon DEF DataDone, TakeBits, hwVars
  <1>2. "wait_data" \in Busy /\ "moved" \in Busy
    BY DEF Busy
  <1>3. /\ req'[t].at = "moved" /\ HasData(t)' = HasData(t)
        /\ req'[t].block = req[t].block /\ req'[t].buf = req[t].buf
    BY <1>1, <1>2, SameOp, Zenon
  <1>4. HwType'
    BY <1>1, Zenon DEF HwType
  <1>5. "data" \in InFlight
    BY <1>1, Zenon DEF Answered, InFlight
  <1>6. HasData(t) /\ (~reposted => ctl.dat = "idle" /\ req[t].buf = card[req[t].block])
    BY <1>1, <1>2, <1>5, Zenon DEF RealInv, Real
  <1>7. req'[t].at \notin {"issue", "wait_cmd", "ready", "wait_data"}
    BY <1>3
  <1> QED
    BY <1>1, <1>3, <1>4, <1>6, <1>7, Zenon DEF Real

LEMMA AbandonReal ==
    ASSUME MutexInv, HwType, RealInv, NEW t \in Tasks, Abandon(t)
    PROVE  HwType' /\ Real(t)'
  <1>1. /\ Failed(t) /\ ctl' = IF HasData(t) THEN NoCommand ELSE ctl
        /\ IF t = BootTask THEN At(t, "failed") ELSE Leave(t)
        /\ UNCHANGED <<card, interrupt>>
    BY Zenon DEF Abandon
  <1>2. isr' = isr /\ irq_pending' \subseteq irq_pending /\ req[t].at \in {"cmd", "wait_cmd", "ready", "wait_data"}
    BY <1>1, Zenon DEF Failed, TakeBits, irqVars
  <1>3. HwType'
    <2>1. NoCommand.cmd = FALSE /\ NoCommand.dat = "idle" /\ "idle" \in Lines /\ "idle" # "storing"
      BY DEF NoCommand, Lines
    <2>2. CASE HasData(t)
      BY <1>1, <1>2, <2>1, <2>2, Zenon DEF HwType
    <2>3. CASE ~HasData(t)
      BY <1>1, <1>2, <2>3, Zenon DEF HwType
    <2> QED
      BY <2>2, <2>3, Zenon
  <1>4. "failed" \in Busy /\ req[t].at \in Busy /\ "unlock" \notin Busy
    BY <1>2 DEF Busy
  <1>5. req'[t].at = "failed" \/ req'[t].at = "unlock"
    BY <1>1, <1>4, SameOp, LeaveFacts, Zenon DEF MutexInv
  <1>6. Real(t)'
    BY <1>4, <1>5, RealElsewhere, Zenon
  <1> QED
    BY <1>3, <1>6, Zenon

LEMMA NextBlockReal ==
    ASSUME MutexInv, HwType, RealInv, NEW t \in Tasks, NextBlock(t)
    PROVE  HwType' /\ Real(t)'
  <1>1. /\ req'[t].at \in {"cmd", "unlock"} /\ UNCHANGED <<ctl, card, interrupt, irq_pending, isr, reposted>>
    BY NextBlockFacts, Zenon
  <1>2. "unlock" \notin Busy
    BY DEF Busy
  <1>3. HwType'
    BY <1>1, Zenon DEF HwType
  <1>4. Real(t)'
    BY <1>1, <1>2, RealElsewhere, Zenon
  <1> QED
    BY <1>3, <1>4, Zenon

\* A task of the mutex's steps is not at the controller, or only about to be.
LEMMA AwayReal ==
    ASSUME RealInv, HwType, UNCHANGED <<ctl, card, interrupt, irq_pending, isr, reposted>>,
           \A u \in Tasks : \/ req'[u] = req[u]
                            \/ req'[u].at \notin Busy \/ req'[u].at \in {"cmd", "sent", "failed"}
    PROVE  HwType' /\ RealInv'
  <1>1. HwType'
    BY Zenon DEF HwType
  <1>2. ASSUME NEW u \in Tasks PROVE Real(u)'
    <2>1. CASE req'[u] = req[u]
      <3>1. HasData(u)' = HasData(u) /\ InFlight' = InFlight
        BY <2>1, Zenon DEF HasData, InFlight
      <3>2. Real(u)
        BY Zenon DEF RealInv
      <3> QED
        BY <2>1, <3>1, <3>2, Zenon DEF Real
    <2>2. CASE req'[u].at \notin Busy \/ req'[u].at \in {"cmd", "sent", "failed"}
      BY <2>2, RealElsewhere, Zenon
    <2> QED
      BY <2>1, <2>2, Zenon
  <1> QED
    BY <1>1, <1>2, Zenon DEF RealInv

\* The handler only carries what is in flight.
LEMMA IrqReal ==
    ASSUME RealInv, HwType, IrqRead \/ IrqPost
    PROVE  HwType' /\ RealInv'
  <1>1. UNCHANGED <<req, ctl, card, reposted>> /\ InFlight' = InFlight
    <2>1. CASE IrqRead
      BY <2>1, Zenon DEF IrqRead, InFlight
    <2>2. CASE IrqPost
      BY <2>2, Zenon DEF IrqPost, InFlight, hwVars
    <2> QED
      BY <2>1, <2>2, Zenon
  <1>2. HwType'
    <2>1. interrupt' \subseteq InFlight' /\ irq_pending' \subseteq InFlight' /\ isr' \subseteq InFlight'
      BY Zenon DEF InFlight
    <2>2. InFlight \subseteq Bits
      BY Zenon DEF HwType, InFlight
    <2> QED
      BY <1>1, <2>1, <2>2, Zenon DEF HwType
  <1>3. ASSUME NEW u \in Tasks PROVE Real(u)'
    <2>1. Real(u) /\ HasData(u)' = HasData(u)
      BY <1>1, Zenon DEF RealInv, HasData
    <2> QED
      BY <1>1, <2>1, Zenon DEF Real
  <1> QED
    BY <1>2, <1>3, Zenon DEF RealInv

\* What is common to the steps of the controller: a bit more, and no command after it but a ready one.
LEMMA RaiseFacts ==
    ASSUME HwType, NEW bit \in Bits, Raise(bit), UNCHANGED <<irq_pending, isr>>
    PROVE  /\ interrupt' \subseteq Bits /\ irq_pending' \subseteq Bits /\ isr' \subseteq Bits
           /\ InFlight' = InFlight \cup {bit}
  <1>1. InFlight' = InFlight \cup {bit}
    BY Zenon DEF Raise, InFlight
  <1>2. interrupt' \subseteq Bits
    BY Zenon DEF Raise, HwType
  <1> QED
    BY <1>1, <1>2, Zenon DEF HwType

LEMMA CardAnswersReal ==
    ASSUME RealInv, HwType, CardAnswers
    PROVE  HwType' /\ RealInv'
  <1>1. /\ ctl.cmd /\ UNCHANGED <<req, card, irq_pending, isr, reposted>>
        /\ \E bit \in {"cmd", "error"} : Raise(bit)
        /\ \/ ctl' = [cmd |-> FALSE, dat |-> IF ctl.dat = "idle" THEN "idle" ELSE "ready"]
           \/ ctl' = NoCommand
    BY Zenon DEF CardAnswers, irqVars
  <1>2. ctl'.cmd = FALSE /\ ctl'.dat \in {"idle", "ready"} /\ (ctl.dat = "idle" => ctl'.dat = "idle")
    BY <1>1 DEF NoCommand
  <1>3. PICK bit \in {"cmd", "error"} : Raise(bit)
    BY <1>1, Zenon
  <1>4. bit \in Bits /\ bit # "data"
    BY <1>3 DEF Bits
  <1>5. /\ interrupt' \subseteq Bits /\ irq_pending' \subseteq Bits /\ isr' \subseteq Bits
        /\ InFlight' = InFlight \cup {bit}
    BY <1>1, <1>3, <1>4, RaiseFacts, Zenon
  <1>6. HwType'
    <2>1. ctl'.dat \in Lines /\ ctl'.dat # "storing"
      BY <1>2 DEF Lines
    <2> QED
      BY <1>1, <1>2, <1>5, <2>1, Zenon DEF HwType
  <1>7. ASSUME NEW u \in Tasks PROVE Real(u)'
    <2>1. Real(u) /\ HasData(u)' = HasData(u) /\ req' = req /\ card' = card /\ reposted' = reposted
      BY <1>1, Zenon DEF RealInv, HasData
    <2>2. "data" \in InFlight' => "data" \in InFlight
      BY <1>4, <1>5, Zenon
    <2>3. ctl'.dat \in {"idle", "waiting", "ready"}
      BY <1>2, Zenon
    <2>4. CASE req[u].at \in Busy /\ HasData(u) /\ ~reposted
      <3>1. req[u].at \notin {"issue", "wait_data"}
        BY <1>1, <2>1, <2>4, Zenon DEF Real
      <3>2. req[u].at = "moved" => ctl'.dat = "idle"
        BY <1>2, <2>1, <2>4, Zenon DEF Real
      <3> QED
        BY <2>1, <2>2, <2>3, <2>4, <3>1, <3>2, Zenon DEF Real
    <2>5. CASE ~(req[u].at \in Busy /\ HasData(u) /\ ~reposted)
      BY <2>1, <2>5, Zenon DEF Real
    <2> QED
      BY <2>4, <2>5, Zenon
  <1> QED
    BY <1>6, <1>7, Zenon DEF RealInv

LEMMA StoredFacts ==
    ASSUME HwType
    PROVE  /\ Stored \in [0 .. CardBlocks - 1 -> CardValues]
           /\ ctl.dat = "storing" => Stored[ctl.block] = ctl.val
           /\ ctl.dat # "storing" => Stored = card
  <1>1. CASE ctl.dat = "storing"
    <2>1. Stored = [card EXCEPT ![ctl.block] = ctl.val]
      BY <1>1, Zenon DEF Stored
    <2>2. /\ ctl.block \in 0 .. CardBlocks - 1 /\ ctl.val \in CardValues
          /\ card \in [0 .. CardBlocks - 1 -> CardValues]
      BY <1>1, Zenon DEF HwType
    <2> QED
      BY <1>1, <2>1, <2>2
  <1>2. CASE ctl.dat # "storing"
    BY <1>2, Zenon DEF Stored, HwType
  <1> QED
    BY <1>1, <1>2, Zenon

LEMMA CardFinishesReal ==
    ASSUME RealInv, HwType, CardFinishes
    PROVE  HwType' /\ RealInv'
  <1>1. /\ ctl.dat \in {"sent", "storing"} /\ Raise("data") /\ ctl' = NoCommand /\ card' = Stored
        /\ UNCHANGED <<req, irq_pending, isr, reposted>>
    BY Zenon DEF CardFinishes, irqVars
  <1>2. ctl'.cmd = FALSE /\ ctl'.dat = "idle" /\ "idle" \in Lines /\ "idle" # "storing" /\ "data" \in Bits
    BY <1>1 DEF NoCommand, Lines, Bits
  <1>3. /\ interrupt' \subseteq Bits /\ irq_pending' \subseteq Bits /\ isr' \subseteq Bits
    BY <1>1, <1>2, RaiseFacts, Zenon
  <1>4. /\ card' \in [0 .. CardBlocks - 1 -> CardValues]
        /\ ctl.dat = "storing" => card'[ctl.block] = ctl.val
        /\ ctl.dat = "sent" => card' = card
    <2>1. ctl.dat = "sent" => ctl.dat # "storing"
      OBVIOUS
    <2> QED
      BY <1>1, <2>1, StoredFacts, Zenon
  <1>5. HwType'
    BY <1>2, <1>3, <1>4, Zenon DEF HwType
  <1>6. ctl.dat \notin {"idle", "waiting", "ready"}
    BY <1>1
  <1>7. ASSUME NEW u \in Tasks PROVE Real(u)'
    <2>1. Real(u) /\ HasData(u)' = HasData(u) /\ req' = req /\ reposted' = reposted
      BY <1>1, Zenon DEF RealInv, HasData
    <2>2. CASE req[u].at \in Busy /\ HasData(u) /\ ~reposted
      <3>1. req[u].at \notin {"issue", "wait_cmd", "ready", "moved"}
        BY <1>6, <2>1, <2>2, Zenon DEF Real
      <3>2. req[u].at = "wait_data" => req[u].buf = card'[req[u].block]
        BY <1>1, <1>4, <2>1, <2>2, Zenon DEF Real
      <3> QED
        BY <1>2, <2>1, <2>2, <3>1, <3>2, Zenon DEF Real
    <2>3. CASE ~(req[u].at \in Busy /\ HasData(u) /\ ~reposted)
      BY <2>1, <2>3, Zenon DEF Real
    <2> QED
      BY <2>2, <2>3, Zenon
  <1> QED
    BY <1>5, <1>7, Zenon DEF RealInv

LEMMA CardFailsReal ==
    ASSUME RealInv, HwType, CardFails
    PROVE  HwType' /\ RealInv'
  <1>1. /\ ctl.dat \in {"ready", "sent", "storing"} /\ Raise("error") /\ ctl' = NoCommand
        /\ card' \in {card, Stored} /\ UNCHANGED <<req, irq_pending, isr, reposted>>
    BY Zenon DEF CardFails, irqVars
  <1>2. /\ ctl'.cmd = FALSE /\ ctl'.dat = "idle" /\ "idle" \in Lines /\ "idle" # "storing"
        /\ "error" \in Bits /\ "error" # "data"
    BY <1>1 DEF NoCommand, Lines, Bits
  <1>3. /\ interrupt' \subseteq Bits /\ irq_pending' \subseteq Bits /\ isr' \subseteq Bits
        /\ InFlight' = InFlight \cup {"error"}
    BY <1>1, <1>2, RaiseFacts, Zenon
  <1>4. card' \in [0 .. CardBlocks - 1 -> CardValues]
    BY <1>1, StoredFacts, Zenon DEF HwType
  <1>5. HwType'
    BY <1>2, <1>3, <1>4, Zenon DEF HwType
  <1>6. ctl.dat # "idle"
    BY <1>1
  <1>7. ASSUME NEW u \in Tasks PROVE Real(u)'
    <2>1. Real(u) /\ HasData(u)' = HasData(u) /\ req' = req /\ reposted' = reposted
      BY <1>1, Zenon DEF RealInv, HasData
    <2>2. CASE req[u].at \in Busy /\ HasData(u) /\ ~reposted
      <3>1. req[u].at \notin {"issue", "moved"}
        BY <1>6, <2>1, <2>2, Zenon DEF Real
      <3>2. req[u].at \in {"wait_cmd", "ready", "wait_data"} => "data" \notin InFlight
        BY <1>6, <2>1, <2>2, Zenon DEF Real
      <3>3. "data" \in InFlight' => "data" \in InFlight
        BY <1>2, <1>3, Zenon
      <3>4. ctl'.dat \in {"idle", "waiting", "ready"} /\ ctl'.dat \notin {"sent", "storing"}
        BY <1>2
      <3> QED
        BY <1>2, <2>1, <2>2, <3>1, <3>2, <3>3, <3>4, Zenon DEF Real
    <2>3. CASE ~(req[u].at \in Busy /\ HasData(u) /\ ~reposted)
      BY <2>1, <2>3, Zenon DEF Real
    <2> QED
      BY <2>2, <2>3, Zenon
  <1> QED
    BY <1>5, <1>7, Zenon DEF RealInv

LEMMA ProbeReal ==
    ASSUME MutexInv, HwType, RealInv, ProbeStep
    PROVE  HwType' /\ RealInv'
  <1>1. /\ ctl' = IF probe' = "back55" THEN NoCommand ELSE ctl
        /\ interrupt' = IF probe' = "absent" THEN {} ELSE interrupt
        /\ UNCHANGED <<card, irq_pending, isr, reposted>>
    BY Zenon DEF ProbeStep, irqVars
  <1>2. /\ req'[BootTask] = IF probe' \in {"up", "absent"} THEN AtRest ELSE BootRequest(probe')
        /\ \A u \in SdTasks : req'[u].at = "rest"
    BY ProbeFacts, Zenon
  <1>3. HwType'
    <2>1. NoCommand.cmd = FALSE /\ NoCommand.dat = "idle" /\ "idle" \in Lines /\ "idle" # "storing"
      BY DEF NoCommand, Lines
    <2>2. interrupt' \subseteq Bits
      BY <1>1, Zenon DEF HwType
    <2>3. CASE ctl' = NoCommand
      BY <1>1, <2>1, <2>2, <2>3, Zenon DEF HwType
    <2>4. CASE ctl' = ctl
      BY <1>1, <2>2, <2>4, Zenon DEF HwType
    <2> QED
      BY <1>1, <2>3, <2>4, Zenon
  <1>4. AtRest.at = "rest" /\ "rest" \notin Busy /\ \A s : BootRequest(s).at = "cmd"
    BY DEF AtRest, Busy, BootRequest
  <1>5. \A u \in Tasks : req'[u].at \notin Busy \/ req'[u].at \in {"cmd", "sent", "failed"}
    BY <1>2, <1>4, Zenon DEF Tasks
  <1>6. RealInv'
    BY <1>5, RealElsewhere, Zenon DEF RealInv
  <1> QED
    BY <1>3, <1>6, Zenon

(***************************************************************************)
(* The inductive invariant, and what it says.                              *)
(***************************************************************************)
SdInv == MutexInv /\ HwType /\ RealInv

LEMMA InitSd ==
    ASSUME SdInit
    PROVE  SdInv
  <1>1. /\ op_mutex = [owner |-> NoOwner, depth |-> 0] /\ mutex_wq = <<>>
        /\ req = [t \in SdTasks \cup {BootTask} |-> IF t = BootTask THEN BootRequest("cmd0") ELSE AtRest]
        /\ ctl = NoCommand /\ card = [b \in 0 .. CardBlocks - 1 |-> SomeValue]
        /\ interrupt = {} /\ irq_pending = {} /\ isr = {} /\ probe = "cmd0"
    BY Zenon DEF SdInit
  <1>2. SomeValue \in CardValues
    BY SdAssumption, Zenon DEF SomeValue
  <1>3. /\ BootRequest("cmd0") \in Pending /\ AtRest \in Over /\ AtRest.at = "rest"
        /\ BootRequest("cmd0").at = "cmd" /\ BootRequest("cmd0").block = 0 /\ BootRequest("cmd0").left = 1
    BY <1>2 DEF BootRequest, AtRest, Pending, Over, Busy, Ends, Ops
  <1>4. /\ req[BootTask] = BootRequest("cmd0") /\ (\A t \in SdTasks : req[t] = AtRest) /\ ReqType
    <2>1. req = [t \in Tasks |-> IF t = BootTask THEN BootRequest("cmd0") ELSE AtRest]
      BY <1>1, Zenon DEF Tasks
    <2>2. \A t \in Tasks : req[t] = IF t = BootTask THEN BootRequest("cmd0") ELSE AtRest
      BY <2>1, Zenon
    <2>3. \A t \in Tasks : req[t] \in Pending \cup Over
      BY <1>3, <2>2, Zenon
    <2>4. ReqType
      BY <2>1, <2>2, <2>3, Zenon DEF ReqType
    <2> QED
      BY <2>2, <2>4, TaskFacts, Zenon
  <1>5. LockType
    BY <1>1 DEF LockType, Stages
  <1>6. HwType
    BY <1>1, <1>2 DEF HwType, NoCommand, Lines
  <1>7. "rest" \notin Busy \cup Waiting \cup {"unlock"} /\ "cmd" \in Busy /\ "cmd" # "rest"
    BY DEF Busy, Waiting
  <1>8. PlaceInv
    <2>1. op_mutex.owner = NoOwner /\ op_mutex.depth = 0 /\ probe \notin {"up", "absent"}
      BY <1>1
    <2>2. \A t \in SdTasks : /\ req[t].at = "rest"
                             /\ req[t].at \in Busy \cup {"unlock"} <=> op_mutex.owner = t
      BY <1>3, <1>4, <1>7, <2>1, TaskFacts, Zenon
    <2>3. req[BootTask].at = "cmd"
      BY <1>3, <1>4, Zenon
    <2> QED
      BY <1>7, <2>1, <2>2, <2>3, Zenon DEF PlaceInv
  <1>9. RangeInv
    <2>1. 0 + 1 <= CardBlocks /\ 1 > 0
      BY SdAssumption
    <2> QED
      BY <1>3, <1>4, <1>7, <2>1, Zenon DEF RangeInv, Tasks
  <1>10. QueueInv /\ HandsOn
    <2>1. \A t \in SdTasks : req[t].at \notin {"queued", "asleep"}
      BY <1>3, <1>4
    <2>2. DOMAIN mutex_wq = {}
      BY <1>1
    <2> QED
      BY <2>1, <2>2, Zenon DEF QueueInv, HandsOn
  <1>11. RealInv
    <2>1. \A t \in Tasks : req[t].at = "rest" \/ req[t].at = "cmd"
      BY <1>3, <1>4, Zenon DEF Tasks
    <2>2. \A t \in Tasks : req[t].at \notin {"issue", "wait_cmd", "ready", "wait_data", "moved"}
      BY <2>1
    <2> QED
      BY <2>2, Zenon DEF RealInv, Real
  <1> QED
    BY <1>4, <1>5, <1>6, <1>8, <1>9, <1>10, <1>11, Zenon DEF SdInv, MutexInv

\* The steps outside the controller.
LEMMA MutexSteps ==
    ASSUME SdInv, NEW t \in SdTasks, Request(t) \/ Lock(t) \/ Queue(t) \/ SleepOnMutex(t) \/ Unlock(t) \/ Wake(t)
    PROVE  SdInv'
  <1>0. MutexInv /\ HwType /\ RealInv
    BY Zenon DEF SdInv
  <1>1. UNCHANGED <<ctl, card, interrupt, irq_pending, isr, reposted>>
    BY Zenon DEF Request, Lock, Queue, SleepOnMutex, Unlock, Wake, hwVars, irqVars
  <1>2. /\ MutexInv'
        /\ \A u \in Tasks : \/ req'[u] = req[u]
                            \/ req'[u].at \notin Busy \/ req'[u].at \in {"cmd", "sent", "failed"}
    <2>b. /\ "unlock" \notin Busy /\ "lock" \notin Busy
          /\ \A x : x \in Waiting \/ x \in Ends => x \notin Busy
      BY DEF Busy, Waiting, Ends
    <2>1. CASE Request(t)
      BY <1>0, <2>1, <2>b, RequestInv, Zenon
    <2>2. CASE Lock(t)
      BY <1>0, <2>2, <2>b, LockInv, Zenon
    <2>3. CASE Queue(t)
      BY <1>0, <2>3, <2>b, QueueStepInv, Zenon
    <2>4. CASE SleepOnMutex(t)
      BY <1>0, <2>4, <2>b, SleepInv, Zenon
    <2>5. CASE Unlock(t)
      BY <1>0, <2>5, <2>b, UnlockInv, Zenon
    <2>6. CASE Wake(t)
      BY <1>0, <2>6, WakeInv, Zenon DEF Tasks
    <2> QED
      BY <2>1, <2>2, <2>3, <2>4, <2>5, <2>6, Zenon
  <1>3. HwType' /\ RealInv'
    BY <1>0, <1>1, <1>2, AwayReal, Zenon
  <1> QED
    BY <1>2, <1>3, Zenon DEF SdInv

\* The steps of the task that has the controller.
LEMMA ControllerSteps ==
    ASSUME SdInv, NEW t \in Tasks,
           \/ ClearStale(t) \/ Issue(t) \/ CommandDone(t) \/ MoveBlock(t) \/ DataDone(t)
           \/ NextBlock(t) \/ Abandon(t)
    PROVE  SdInv'
  <1>0. MutexInv /\ HwType /\ RealInv
    BY Zenon DEF SdInv
  <1>1. Inside(t)
    BY <1>0, InsideSteps, Zenon
  <1>2. MutexInv'
    BY <1>0, <1>1, InsideInv, Zenon
  <1>3. HwType' /\ Real(t)'
    BY <1>0, ClearStaleReal, IssueReal, CommandDoneReal, MoveReal, DataDoneReal, NextBlockReal, AbandonReal, Zenon
  <1>4. RealInv'
    BY <1>0, <1>1, <1>3, RealOfOne, Zenon
  <1> QED
    BY <1>2, <1>3, <1>4, Zenon DEF SdInv

LEMMA NextSd ==
    ASSUME SdInv, [SdNext]_sdVars
    PROVE  SdInv'
  <1>0. MutexInv /\ HwType /\ RealInv
    BY Zenon DEF SdInv
  <1>1. ASSUME NEW t \in SdTasks,
               \/ Request(t) \/ Lock(t) \/ Queue(t) \/ SleepOnMutex(t) \/ NextBlock(t) \/ Unlock(t) \/ Wake(t)
        PROVE  SdInv'
    BY <1>1, TaskFacts, MutexSteps, ControllerSteps, Zenon
  <1>2. ASSUME NEW t \in SdTasks \cup {BootTask},
               \/ ClearStale(t) \/ Issue(t) \/ CommandDone(t) \/ MoveBlock(t) \/ DataDone(t) \/ Abandon(t)
        PROVE  SdInv'
    <2>1. t \in Tasks
      BY Zenon DEF Tasks
    <2> QED
      BY <1>2, <2>1, ControllerSteps, Zenon
  <1>3. CASE ProbeStep
    BY <1>0, <1>3, ProbeInv, ProbeReal, Zenon DEF SdInv
  <1>4. CASE IrqRead \/ IrqPost
    BY <1>0, <1>4, DevicesKeep, IrqReal, Zenon DEF SdInv
  <1>5. CASE CardAnswers
    BY <1>0, <1>5, DevicesKeep, CardAnswersReal, Zenon DEF SdInv
  <1>6. CASE CardFinishes
    BY <1>0, <1>6, DevicesKeep, CardFinishesReal, Zenon DEF SdInv
  <1>7. CASE CardFails
    BY <1>0, <1>7, DevicesKeep, CardFailsReal, Zenon DEF SdInv
  <1>8. CASE UNCHANGED sdVars
    <2>1. UNCHANGED <<ctl, card, interrupt, irq_pending, isr, reposted>> /\ req' = req
      BY <1>8, Zenon DEF sdVars
    <2>2. MutexInv'
      BY <1>0, <1>8, DevicesKeep, Zenon
    <2>3. HwType' /\ RealInv'
      BY <1>0, <2>1, AwayReal, Zenon
    <2> QED
      BY <2>2, <2>3, Zenon DEF SdInv
  <1> QED
    BY <1>1, <1>2, <1>3, <1>4, <1>5, <1>6, <1>7, <1>8, Zenon DEF SdNext

LEMMA SdInvariance == SdSpec => []SdInv
  <1>1. SdInit => SdInv
    BY InitSd
  <1>2. SdInv /\ [SdNext]_sdVars => SdInv'
    BY NextSd
  <1> QED
    BY <1>1, <1>2, PTL DEF SdSpec

(* Whatever number of tasks read and write the card, sd_op_mutex is handed on: one task at a
   time is between kmutex_lock and kmutex_unlock of sd_read_blocks and sd_write_blocks, and no
   task is left asleep in wq_wait_event on a mutex that is free with nobody on the way to it. *)
THEOREM MutexIsHandedOn == SdSpec => []MutexHandsOver
  <1>1. SdInv => MutexHandsOver
    <2> SUFFICES ASSUME SdInv PROVE MutexHandsOver
      OBVIOUS
    <2>1. PlaceInv /\ HandsOn /\ ReqType
      BY Zenon DEF SdInv, MutexInv
    <2>2. ASSUME NEW t \in SdTasks
          PROVE  req[t].at \notin {"rest", "lock", "queued", "asleep", "woken", "wake"} <=> op_mutex.owner = t
      <3>1. req[t].at \in Busy \cup Waiting \cup Ends
        BY <2>1, TaskFacts, Kinds, Zenon
      <3>2. req[t].at \notin {"rest", "lock", "queued", "asleep", "woken", "wake"}
               <=> req[t].at \in Busy \cup {"unlock"}
        BY <3>1, PlaceFacts, Zenon
      <3> QED
        BY <2>1, <3>2, Zenon DEF PlaceInv
    <2> QED
      BY <2>1, <2>2, Zenon DEF MutexHandsOver, HandsOn
  <1> QED
    BY <1>1, SdInvariance, PTL

(* On a card of any size and for any transfers, size_t sums that wrap included, a block that
   sd_read_locked or sd_write_locked reports as moved is on the card and in the buffer alike
   with the controller finished, unless the handler posted bits it had read before sd_send_cmd
   dropped the stale ones; and no command names a block past the end of the card. *)
THEOREM BlocksReallyMove == SdSpec => []TransfersAreReal
  <1>1. SdInv => TransfersAreReal
    <2> SUFFICES ASSUME SdInv PROVE TransfersAreReal
      OBVIOUS
    <2>1. MutexInv /\ RealInv /\ DOMAIN req = Tasks
      BY DEF SdInv, MutexInv, ReqType
    <2>2. ASSUME NEW t \in Tasks
          PROVE  /\ req[t].at = "moved" /\ ~reposted => req[t].buf = card[req[t].block] /\ ctl.dat = "idle"
                 /\ req[t].at \in {"cmd", "issue"} => req[t].block < CardBlocks
      <3>1. "moved" \in Busy /\ "cmd" \in Busy /\ "issue" \in Busy
        BY DEF Busy
      <3>2. req[t].at = "moved" /\ ~reposted => req[t].buf = card[req[t].block] /\ ctl.dat = "idle"
        BY <2>1, <3>1, Zenon DEF RealInv, Real
      <3>3. ASSUME req[t].at \in {"cmd", "issue"} PROVE req[t].block < CardBlocks
        <4>1. req[t].at \in Busy
          BY <3>1, <3>3, Zenon
        <4>2. req[t].block \in 0 .. CardBlocks - 1
          BY <2>1, <4>1, OnCard, Zenon
        <4> QED
          BY <4>2, SdAssumption
      <3> QED
        BY <3>2, <3>3, Zenon
    <2> QED
      BY <2>1, <2>2, Zenon DEF TransfersAreReal
  <1> QED
    BY <1>1, SdInvariance, PTL
=============================================================================
