--------------------------------- MODULE Tty ---------------------------------
(***************************************************************************)
(* The console terminal (core/tty.c) over the PL011 (driver/uart.c).       *)
(* Writers fill a ring under tty->lock; the ring is emptied into the       *)
(* transmit FIFO by whoever pumps it and by the kernel's own messages,     *)
(* which hold uart_tx_lock only.  The interrupt handler pumps the ring,    *)
(* and moves what is received into a second ring for the readers.  What    *)
(* the bytes are is not modelled: a writer's byte needs one slot, or two   *)
(* if it is a newline.  Nothing sets echo_enabled or canon_enabled, so the *)
(* echo and the canonical mode are left out.                               *)
(***************************************************************************)
EXTENDS Integers, Sequences, FiniteSets

CONSTANTS
    Writers, Readers,   \* tasks in tty_write and in tty_read
    Uart, Printer,      \* the interrupt handler, and a core that prints
    Writes,             \* what is written: the slots each byte needs
    RingSize,           \* TTY_BUFFER_SIZE
    FifoSize, Trigger,  \* the UART's transmit FIFO and its interrupt level
    RxFifoSize,         \* and its receive FIFO
    Unlocked

VARIABLES
    tx_ring,            \* bytes in the transmit ring
    fifo,               \* bytes in the transmit FIFO
    tx_raised, tx_mask, \* the transmit interrupt: its state, and TXIM
    rx_fifo, rx_raised, \* bytes received, and the receive interrupt
    rx_ring,            \* bytes in the receive ring
    tty_lock, uart_tx_lock,
    act,                \* what each task, the handler and the printer do
    tx_wq, rx_wq,       \* who sleeps
    rest,               \* what each writer has still to put
    slipped             \* a pump disarmed the interrupt and had woken no one

ttyVars == <<tx_ring, fifo, tx_raised, tx_mask, rx_fifo, rx_raised, rx_ring,
             tty_lock, uart_tx_lock, act, tx_wq, rx_wq, rest, slipped>>
uartVars == <<fifo, tx_raised>>
rxVars == <<rx_fifo, rx_raised, rx_ring, rx_wq>>

Resting == [pc |-> "rest"]
tty_tx_empty == tx_ring = 0
tty_tx_space == RingSize - 1 - tx_ring
-----------------------------------------------------------------------------
(* tty_tx_send_locked, by the pumps (up to a full FIFO) and the printer.   *)

\* The head is read once; the tail is stored at the end, and until then no slot is free.
SendStart(a) ==
    /\ act[a].pc = "pump"
    /\ uart_tx_lock = Unlocked /\ uart_tx_lock' = a
    /\ act' = [act EXCEPT ![a] =
           [pc |-> "send", left |-> tx_ring, sent |-> 0, then |-> @.then]]
    /\ UNCHANGED <<tx_ring, uartVars, tx_mask, rxVars, tty_lock, tx_wq, rest, slipped>>

\* A byte into the FIFO: above its trigger level the interrupt goes away.
ToFifo == /\ fifo < FifoSize
          /\ fifo' = fifo + 1
          /\ tx_raised' = (tx_raised /\ fifo + 1 <= Trigger)

SendByte(a) ==
    /\ act[a].pc = "send" /\ act[a].left > 0
    /\ ToFifo
    /\ act' = [act EXCEPT ![a].left = @ - 1, ![a].sent = @ + 1]
    /\ UNCHANGED <<tx_ring, tx_mask, rxVars, tty_lock, uart_tx_lock, tx_wq, rest, slipped>>

SendEnd(a) ==
    /\ act[a].pc = "send"
    /\ act[a].left = 0 \/ (a # Printer /\ fifo = FifoSize)
    /\ tx_ring' = tx_ring - act[a].sent
    /\ IF a = Printer
       THEN act' = [act EXCEPT ![a] = [pc |-> "message"]] /\ UNCHANGED uart_tx_lock
       ELSE /\ act' = [act EXCEPT ![a] = [pc |-> "wake", sent |-> @.sent > 0, then |-> @.then]]
            /\ uart_tx_lock' = Unlocked
    /\ UNCHANGED <<uartVars, tx_mask, rxVars, tty_lock, tx_wq, rest, slipped>>

\* uart_write_locked and uart_send: the ring first, then the message.
KernelMessage ==
    /\ act[Printer] = Resting
    /\ act' = [act EXCEPT ![Printer] = [pc |-> "pump", then |-> "rest"]]
    /\ UNCHANGED <<tx_ring, uartVars, tx_mask, rxVars, tty_lock, uart_tx_lock, tx_wq, rest, slipped>>
SendMessage ==
    /\ act[Printer].pc = "message"
    /\ ToFifo
    /\ act' = [act EXCEPT ![Printer] = Resting]
    /\ uart_tx_lock' = Unlocked
    /\ UNCHANGED <<tx_ring, tx_mask, rxVars, tty_lock, tx_wq, rest, slipped>>
-----------------------------------------------------------------------------
(* The rest of tty_pump_tx, with tty->lock held.                           *)

Woken(S) == [a \in DOMAIN act |->
    IF a \in S THEN [act[a] EXCEPT !.pc = "woken"] ELSE act[a]]

\* Mutant: a ring that a kernel message emptied wakes nobody.
WakesIfSent(a) == act[a].sent

WakesWriters(a) == act[a].sent \/ tty_tx_empty

PumpWake(a) ==
    /\ act[a].pc = "wake"
    /\ \E all \in {WakesWriters(a)} :
        /\ act' = [Woken(IF all THEN tx_wq ELSE {}) EXCEPT
                      ![a] = [pc |-> "arm", woke |-> all, was_empty |-> tty_tx_empty, then |-> act[a].then]]
        /\ tx_wq' = IF all THEN {} ELSE tx_wq
        /\ slipped' = (slipped /\ ~all)
    /\ UNCHANGED <<tx_ring, uartVars, tx_mask, rxVars, tty_lock, uart_tx_lock, rest>>

\* The second test of the ring.  A kernel message may have emptied it since the first.
PumpArm(a) ==
    /\ act[a].pc = "arm"
    /\ tx_mask' = ~tty_tx_empty
    /\ slipped' = (slipped \/ (tty_tx_empty /\ ~act[a].was_empty /\ ~act[a].woke /\ tx_wq # {}))
    /\ act' = [act EXCEPT ![a] = [pc |-> @.then]]
    /\ tty_lock' = IF act[a].then = "rest" THEN Unlocked ELSE tty_lock
    /\ UNCHANGED <<tx_ring, uartVars, rxVars, uart_tx_lock, tx_wq, rest>>
-----------------------------------------------------------------------------
(* tty_write *)

TtyWrite(t) ==
    /\ act[t] = Resting
    /\ tty_lock = Unlocked /\ tty_lock' = t
    /\ \E w \in Writes : rest' = [rest EXCEPT ![t] = w]
    /\ act' = [act EXCEPT ![t] = [pc |-> "put"]]
    /\ UNCHANGED <<tx_ring, uartVars, tx_mask, rxVars, uart_tx_lock, tx_wq, slipped>>

HasRoom(t) == tty_tx_space >= Head(rest[t])

\* A byte, or a newline and the CR before it.
PutByte(t) ==
    /\ act[t].pc = "put" /\ rest[t] # <<>> /\ HasRoom(t)
    /\ tx_ring' = tx_ring + Head(rest[t])
    /\ rest' = [rest EXCEPT ![t] = Tail(@)]
    /\ UNCHANGED <<uartVars, tx_mask, rxVars, tty_lock, uart_tx_lock, act, tx_wq, slipped>>

\* The ring is pumped for room, and at the end.
PumpForRoom(t) ==
    /\ act[t].pc = "put" /\ (rest[t] # <<>> => ~HasRoom(t))
    /\ act' = [act EXCEPT ![t] =
           [pc |-> "pump", then |-> IF rest[t] = <<>> THEN "rest" ELSE "wait"]]
    /\ UNCHANGED <<tx_ring, uartVars, tx_mask, rxVars, tty_lock, uart_tx_lock, tx_wq, rest, slipped>>

\* wq_wait_event_locked on tx_wq: on the queue first, then the test, then the lock goes.
WaitForRoom(t) ==
    /\ \/ act[t].pc = "wait" /\ UNCHANGED tty_lock
       \/ act[t].pc = "woken" /\ tty_lock = Unlocked /\ tty_lock' = t
    /\ HasRoom(t)
    /\ act' = [act EXCEPT ![t] = [pc |-> "put"]]
    /\ UNCHANGED <<tx_ring, uartVars, tx_mask, rxVars, uart_tx_lock, tx_wq, rest, slipped>>
SleepForRoom(t) ==
    /\ act[t].pc = "wait" \/ (act[t].pc = "woken" /\ tty_lock = Unlocked)
    /\ ~HasRoom(t)
    /\ tty_lock' = Unlocked
    /\ act' = [act EXCEPT ![t] = [pc |-> "asleep"]]
    /\ tx_wq' = tx_wq \cup {t}
    /\ UNCHANGED <<tx_ring, uartVars, tx_mask, rxVars, uart_tx_lock, rest, slipped>>
-----------------------------------------------------------------------------
(* tty_read: its wait can be interrupted. *)

TtyRead(r) ==
    /\ act[r].pc \in {"rest", "woken"}
    /\ tty_lock = Unlocked
    /\ \/ /\ rx_ring > 0
          /\ \E n \in 1 .. rx_ring : rx_ring' = rx_ring - n
          /\ act' = [act EXCEPT ![r] = Resting]
          /\ UNCHANGED rx_wq
       \/ /\ rx_ring = 0
          /\ act' = [act EXCEPT ![r] = [pc |-> "asleep"]]
          /\ rx_wq' = rx_wq \cup {r}
          /\ UNCHANGED rx_ring
    /\ UNCHANGED <<tx_ring, uartVars, tx_mask, rx_fifo, rx_raised, tty_lock, uart_tx_lock, tx_wq, rest, slipped>>
ReadInterrupted(r) ==
    /\ act[r].pc \in {"asleep", "woken"}
    /\ tty_lock = Unlocked /\ rx_ring = 0
    /\ act' = [act EXCEPT ![r] = Resting]
    /\ rx_wq' = rx_wq \ {r}
    /\ UNCHANGED <<tx_ring, uartVars, tx_mask, rx_fifo, rx_raised, rx_ring, tty_lock, uart_tx_lock, tx_wq, rest, slipped>>
-----------------------------------------------------------------------------
(* uart_handle_irq *)

uartUnchanged == UNCHANGED <<tx_ring, tx_mask, uart_tx_lock, tx_wq, rest, slipped>>

\* What is raised and not masked is read, and then acknowledged.
IrqEnter ==
    /\ act[Uart] = Resting
    /\ rx_raised \/ (tx_raised /\ tx_mask)
    /\ act' = [act EXCEPT ![Uart] = [pc |-> "ack", rx |-> rx_raised, tx |-> tx_raised /\ tx_mask]]
    /\ UNCHANGED <<uartVars, rxVars, tty_lock>> /\ uartUnchanged
IrqAck ==
    /\ act[Uart].pc = "ack"
    /\ tx_raised' = (tx_raised /\ ~act[Uart].tx)
    /\ rx_raised' = (rx_raised /\ ~act[Uart].rx)
    /\ act' = [act EXCEPT ![Uart].pc = "drain"]
    /\ UNCHANGED <<fifo, rx_fifo, rx_ring, rx_wq, tty_lock>> /\ uartUnchanged

\* tty_handle_rx for each byte: Ctrl-C and Ctrl-Z are signals, and a full ring drops the byte.
RxByte ==
    /\ act[Uart].pc = "drain" /\ act[Uart].rx /\ rx_fifo > 0
    /\ tty_lock = Unlocked
    /\ rx_fifo' = rx_fifo - 1
    /\ \/ UNCHANGED <<act, rx_ring, rx_wq>>
       \/ /\ rx_ring' = IF rx_ring + 1 < RingSize THEN rx_ring + 1 ELSE rx_ring
          /\ act' = Woken(rx_wq)
          /\ rx_wq' = {}
    /\ UNCHANGED <<uartVars, rx_raised, tty_lock>> /\ uartUnchanged

\* tty_handle_tx, or the end of the handler.
TxPart ==
    /\ act[Uart].pc = "drain" /\ (act[Uart].rx => rx_fifo = 0)
    /\ \/ /\ act[Uart].tx
          /\ tty_lock = Unlocked /\ tty_lock' = Uart
          /\ act' = [act EXCEPT ![Uart] = [pc |-> "pump", then |-> "rest"]]
       \/ /\ ~act[Uart].tx
          /\ act' = [act EXCEPT ![Uart] = Resting]
          /\ UNCHANGED tty_lock
    /\ UNCHANGED <<uartVars, rxVars>> /\ uartUnchanged
-----------------------------------------------------------------------------
(* The PL011: falling to the trigger level, and a byte received, raise the interrupts. *)

FifoDrains ==
    /\ fifo > 0 /\ fifo' = fifo - 1
    /\ tx_raised' = (tx_raised \/ fifo - 1 = Trigger)
    /\ UNCHANGED <<rxVars, tty_lock, act>> /\ uartUnchanged
ByteArrives ==
    /\ rx_fifo < RxFifoSize /\ rx_fifo' = rx_fifo + 1
    /\ rx_raised' = TRUE
    /\ UNCHANGED <<uartVars, rx_ring, rx_wq, tty_lock, act>> /\ uartUnchanged
-----------------------------------------------------------------------------
TtyInit ==
    /\ tx_ring = 0 /\ fifo = 0
    /\ tx_raised = FALSE /\ tx_mask = FALSE
    /\ rx_fifo = 0 /\ rx_raised = FALSE /\ rx_ring = 0
    /\ tty_lock = Unlocked /\ uart_tx_lock = Unlocked
    /\ act = [a \in Writers \cup Readers \cup {Uart, Printer} |-> Resting]
    /\ tx_wq = {} /\ rx_wq = {} /\ rest = [t \in Writers |-> <<>>]
    /\ slipped = FALSE

TtyNext ==
    \/ \E a \in Writers \cup {Uart, Printer} : SendStart(a) \/ SendByte(a) \/ SendEnd(a)
    \/ \E a \in Writers \cup {Uart} : PumpWake(a) \/ PumpArm(a)
    \/ KernelMessage \/ SendMessage
    \/ \E t \in Writers : TtyWrite(t) \/ PutByte(t) \/ PumpForRoom(t) \/ WaitForRoom(t) \/ SleepForRoom(t)
    \/ \E r \in Readers : TtyRead(r) \/ ReadInterrupted(r)
    \/ IrqEnter \/ IrqAck \/ RxByte \/ TxPart
    \/ FifoDrains \/ ByteArrives
-----------------------------------------------------------------------------
IrqWill(bit) == act[Uart].pc \in {"ack", "drain"} /\ act[Uart][bit]

WriterWillWake ==
    \/ tty_lock # Unlocked
    \/ tx_mask /\ (fifo > Trigger \/ tx_raised \/ IrqWill("tx"))
    \/ IrqWill("tx")

(* Nobody waits for the terminal in vain.  A byte in the receive FIFO has an interrupt that
   will fetch it (the order of the acknowledgement and the drain loop of uart_handle_irq); a
   reader sleeps only while the receive ring is empty; and while a writer sleeps on tx_wq
   with tty->lock free, the transmit interrupt is enabled and will be raised.  One exception is
   taken out: a kernel message that empties the ring between tty_pump_tx's two tests of it
   (slipped), after which the interrupt is off and the sleeping writers have not been woken. *)
TerminalWakes ==
    /\ rx_fifo > 0 => rx_raised \/ IrqWill("rx")
    /\ rx_wq # {} => rx_ring = 0
    /\ tx_wq # {} /\ ~slipped => WriterWillWake

(* The same without the exception: what tty_write's comment says of its sleep, "Arms the TX
   interrupt, which is what wakes us once space frees up". *)
WritersWake == tx_wq # {} => WriterWillWake
=============================================================================
