----------------------------- MODULE MCBlocking -----------------------------
(***************************************************************************)
(* Instances for TLC of the parts of the system in which tasks wait for    *)
(* each other, a device or a child: the pipe, the terminal, the SD card    *)
(* driver and the shell.  The parts share no state: the initial state      *)
(* chooses which of them runs, and the others stay as they are at boot.    *)
(***************************************************************************)
EXTENDS MCPipe, Tty, Sd, Shell

VARIABLE part

(* A byte, and a newline, which needs two slots. *)
MCWrites == {<<1>>, <<2>>}

(* Two blocks; and, with sizes modulo 4 on a card of two blocks, one past the end and one that
   wraps around. *)
MCTransfers == {<<0, 2>>, <<2, 1>>, <<3, 2>>}

allVars == <<part, vars, ttyVars, sdVars, shVars>>

PartInit(p) == part = p /\ Init /\ TtyInit /\ SdInit /\ ShellInit

(* The terminal runs without input and without the kernel's messages: with both it is too much
   for one search. *)
PartNext ==
    /\ UNCHANGED part
    /\ \/ part = "pipe" /\ OrderedNext /\ UNCHANGED <<ttyVars, sdVars, shVars>>
       \/ /\ part = "output" /\ TtyNext /\ rx_fifo' = 0 /\ rx_wq' = {}
          /\ UNCHANGED <<vars, sdVars, shVars>>
       \/ /\ part = "input" /\ TtyNext /\ act'[Printer] = Resting
          /\ UNCHANGED <<vars, sdVars, shVars>>
       \/ part = "card" /\ SdNext /\ UNCHANGED <<vars, ttyVars, shVars>>
       \/ part = "shell" /\ ShellNext /\ UNCHANGED <<vars, ttyVars, sdVars>>

BlockingSpec ==
    (\E p \in {"pipe", "output", "input", "card", "shell"} : PartInit(p)) /\ [][PartNext]_allVars
OutputSpec == PartInit("output") /\ [][PartNext]_allVars
CardSpec == PartInit("card") /\ [][PartNext]_allVars
ShellSpec == PartInit("shell") /\ [][PartNext]_allVars
=============================================================================
