------------------------------ MODULE MCDevices ------------------------------
(***************************************************************************)
(* The devices of the kernel for TLC: the terminals behind the keyboard,   *)
(* the driver of a disk, and the block devices made at boot.  They share   *)
(* no state: a behaviour is about one of them, `part`, and the variables   *)
(* of the others keep their value.                                         *)
(***************************************************************************)
EXTENDS Ata

VARIABLES
  part,
  session, tty, cur, held, dead, steps,
  drives, phase, next, ide_devices, block_devices, heap, count, crashed

consoleVars == <<session, tty, cur, held, dead, steps>>
blockVars   == <<drives, phase, next, ide_devices, block_devices, heap, count, crashed>>
vars        == <<part, consoleVars, ataVars, blockVars>>
-----------------------------------------------------------------------------
(* A screen of three lines of four cells over a ring of five lines.  The   *)
(* word 1 clears the screen and the word 2 prints two lines.  One session  *)
(* edits lines and looks at the history; the other one changes between two *)
(* terminals, with modifier keys and a message of the kernel.              *)
Edit ==
  [keys     |-> {<<"char", 1>>, <<"char", 2>>, <<"char", 3>>, <<"special", "backspace">>,
                 <<"special", "enter">>, <<"nav", "pgup">>, <<"nav", "up">>, <<"nav", "down">>},
   messages |-> {},
   steps    |-> 8]

Switch ==
  [keys     |-> {<<"char", 2>>, <<"special", "escape">>, <<"special", "enter">>, <<"special", "backspace">>,
                 <<"nav", "up">>, <<"nav", "pgdn">>, <<"function", 1>>, <<"function", 2>>,
                 <<"press", "ctrl">>, <<"release", "ctrl">>, <<"press", "left_shift">>, <<"toggle", "num">>},
   messages |-> {<<5, -2, 5, -1>>, <<-1, 5>>},
   steps    |-> 6]

Con == INSTANCE Console WITH
         Ttys <- {1, 2}, Width <- 4, Height <- 3, Hist <- 5, TabStop <- 2, MAX_CMD_LEN <- 3,
         Banner <- <<-1, 9, -1>>, Prompt <- <<8>>, Blank <- 3, Clear <- <<1>>, Command <- <<2>>,
         Output <- <<7, -1, 7, -1>>, NotFound <- <<6>>,
         Sessions <- {Edit, Switch}

\* Sector numbers with digits in every register and at its ends
MCLbas == {0, 255, 256^2 - 1, 7 + 256 * 5 + 256^2 * 3 + 256^3, 2^28 - 3, 2^28}

(* Three slots and tables of two entries: none used, one, both, or the     *)
(* second alone, and one without a signature.                              *)
NoEntry == [type |-> 0, start |-> 0, len |-> 0]
One     == [type |-> 1, start |-> 1, len |-> 4]
Two     == [type |-> 2, start |-> 5, len |-> 3]
BootSectors ==
  {[signed |-> TRUE, entries |-> <<One, NoEntry>>], [signed |-> TRUE, entries |-> <<Two, One>>],
   [signed |-> TRUE, entries |-> <<NoEntry, Two>>], [signed |-> FALSE, entries |-> <<One, Two>>]}

Block == INSTANCE Block WITH
           Slots <- {1, 2, 3}, MayMiss <- {1, 2, 3}, Tables <- BootSectors, Unreadable <- TRUE,
           Junk <- {NoEntry, [type |-> 7, start |-> 9, len |-> 9]},
           AllocFails <- {"ide_device", "generic_disk", "block_device", "partition"}, MaxParts <- 2

ASSUME Con!ConsoleAssumptions /\ Block!BlockAssumptions
-----------------------------------------------------------------------------
\* The state of a part that nobody uses
ConsoleIdle == session = Edit /\ Con!Init
AtaIdle     == status = {} /\ AtaInit
BlockIdle   == drives = [s \in 1 .. 3 |-> [present |-> FALSE]] /\ Block!Init

Init ==
  \/ part = "console" /\ Con!Init /\ AtaIdle /\ BlockIdle
  \/ part = "ata"     /\ AtaInit /\ ConsoleIdle /\ BlockIdle
  \/ part = "block"   /\ Block!Init /\ ConsoleIdle /\ AtaIdle

Next ==
  \/ part = "console" /\ Con!Next /\ UNCHANGED <<part, ataVars, blockVars>>
  \/ part = "ata"     /\ AtaNext /\ UNCHANGED <<part, consoleVars, blockVars>>
  \/ part = "block"   /\ Block!Next /\ UNCHANGED <<part, consoleVars, ataVars>>

\* The kernel goes on with a call of the disk driver (AtaSpec)
Spec == Init /\ [][Next]_vars /\ WF_ataVars(part = "ata" /\ Driver)
-----------------------------------------------------------------------------

\* Looking at the history ends where it began (Console!HistorySound).
HistorySound == part = "console" => Con!HistorySound

\* The block devices are what the boot sectors say (Block!DevicesSound).
DevicesSound == part = "block" => Block!DevicesSound
=============================================================================
