--------------------------------- MODULE Ata ---------------------------------
(***************************************************************************)
(* The ATA driver and one drive: ide_identify, ide_polling and             *)
(* ata_access_sector against a drive that takes its time, reports faults   *)
(* and may never answer.  Every read of the status register is a step, so  *)
(* the drive changes its status between any two of them; an unbounded loop *)
(* on a bit is a step that waits for it.  A sector contains its number.    *)
(* The drive, which is external, does not take a command that is written   *)
(* while it is busy or in the middle of another one (BSY or DRQ).          *)
(***************************************************************************)
EXTENDS Integers, Sequences

CONSTANTS Lbas,        \* the sectors asked for
          Counts,      \* and how many from there
          Byte,        \* the number of values of the count register and of a uint8_t, 256
          Tries,       \* the reads of the status in each loop of ide_identify
          LBA          \* whether the capabilities have the bit for LBA

ASSUME AtaAssumptions ==
  /\ Lbas \subseteq Nat /\ Counts \subseteq Nat
  /\ Byte \in Nat \ {0} /\ Tries \in Nat \ {0}

VARIABLES at,          \* where the driver is
          req,         \* the request: what, which sector and how many
          left,        \* sectors, or reads of the status, that are left
          buf,         \* what the driver has read
          result,      \* the result of the last call
          status,      \* the drive: its status register,
          regs,        \* the address, count and command it got,
          pos,         \* the sectors of the command it is done with
          media,       \* and the sectors written
          mishaps      \* not in the code: "zero", a transfer of no sectors was asked for,
                       \* and "fault", the drive has given up the command

ataVars == <<at, req, left, buf, result, status, regs, pos, media, mishaps>>

BSY   == "BSY"
DRQ   == "DRQ"
DF    == "DF"
ERR   == "ERR"
NoRet == -2
-----------------------------------------------------------------------------
lba_io_HeadLost(lba) ==
  [l0 |-> lba % 256, l1 |-> (lba \div 256) % 256, l2 |-> (lba \div 65536) % 256, head |-> 0]

\* The registers ata_access_sector fills from a sector number below 2^28
lba_io(lba) ==
  [l0 |-> lba % 256, l1 |-> (lba \div 256) % 256, l2 |-> (lba \div 65536) % 256,
   head |-> (lba \div 16777216) % 16]

\* The sector the drive reads or writes next
Sector == regs.io.l0 + 256 * regs.io.l1 + 65536 * regs.io.l2 + 16777216 * regs.io.head + pos

MaxLba == 268435456    \* 2^28

\* count is a size_t for the disk and a uint8_t for ata_access_sector
uint8(n) == n % Byte

\* What the drive makes of the count register
Sectors(n) == IF n = 0 THEN Byte ELSE n

AtaInit ==
  /\ at = "boot" /\ req = [op |-> "none", lba |-> 0, count |-> 0] /\ left = 0 /\ buf = <<>> /\ result = NoRet
  /\ status \in {{}, {BSY}} /\ regs = [io |-> lba_io(0), count |-> 0, cmd |-> "none"] /\ pos = 0 /\ media = <<>>
  /\ mishaps = {}

Finish(v) == at' = "idle" /\ result' = v

\* The command register is written; the drive takes the command when it is idle
SendCommand(r) ==
  IF status \cap {BSY, DRQ} = {} THEN regs' = r /\ status' = {BSY} /\ pos' = 0
  ELSE UNCHANGED <<regs, status, pos>>

(* ata_read_sector, ata_write_sector, for a drive that was found.  The     *)
(* count is cut to eight bits; a large number or no LBA is a panic.        *)
Access ==
  /\ at = "idle"
  /\ \E op \in {"read", "write"}, lba \in Lbas, n \in Counts :
       /\ req' = [op |-> op, lba |-> lba, count |-> n]
       /\ left' = uint8(n)
       /\ at' = IF lba >= MaxLba \/ ~LBA THEN "panic" ELSE "wait"
       /\ mishaps' = (mishaps \ {"fault"}) \cup (IF uint8(n) = 0 THEN {"zero"} ELSE {})
  /\ buf' = <<>> /\ media' = <<>> /\ result' = NoRet
  /\ UNCHANGED <<status, regs, pos>>

(* The loop on BSY in front of the command, the registers and the command. *)
(* For a count of 0 the loop over the sectors ends before it has begun.    *)
Issue ==
  /\ at = "wait" /\ BSY \notin status
  /\ SendCommand([io |-> lba_io(req.lba), count |-> left, cmd |-> req.op])
  /\ IF left > 0 THEN at' = "poll" /\ UNCHANGED result
     ELSE IF req.op = "read" THEN Finish(0) ELSE at' = "flush" /\ UNCHANGED result
  /\ UNCHANGED <<req, left, buf, media, mishaps>>

Poll_ForData ==
  /\ at = "poll" /\ DRQ \in status
  /\ at' = IF req.op = "read" THEN "check" ELSE "data"
  /\ UNCHANGED <<req, left, buf, result, status, regs, pos, media, mishaps>>

\* ide_polling up to the advanced check
Poll ==
  /\ at = "poll" /\ BSY \notin status
  /\ at' = IF req.op = "read" THEN "check" ELSE "data"
  /\ UNCHANGED <<req, left, buf, result, status, regs, pos, media, mishaps>>

Check_NoDrq ==
  /\ at = "check"
  /\ IF DF \in status \/ ERR \in status THEN Finish(1) ELSE at' = "data" /\ UNCHANGED result
  /\ UNCHANGED <<req, left, buf, status, regs, pos, media, mishaps>>

\* The advanced check of ide_polling, which ends a read with its error
Check ==
  /\ at = "check"
  /\ CASE DF \in status  -> Finish(1)
       [] DF \notin status /\ ERR \in status -> Finish(2)
       [] status \cap {DF, ERR, DRQ} = {} -> Finish(3)
       [] OTHER -> at' = "data" /\ UNCHANGED result
  /\ UNCHANGED <<req, left, buf, status, regs, pos, media, mishaps>>

\* rep insw: one sector from the drive, which goes on to the next one
Insw ==
  /\ at = "data" /\ req.op = "read"
  /\ buf' = Append(buf, Sector)
  /\ pos' = pos + 1
  /\ status' = IF pos + 1 < Sectors(regs.count) THEN {BSY} ELSE {}
  /\ left' = left - 1
  /\ IF left' = 0 THEN Finish(0) ELSE at' = "poll" /\ UNCHANGED result
  /\ UNCHANGED <<req, regs, media, mishaps>>

Outsw_NoPoll ==
  /\ at \in {"data", "poll"} /\ req.op = "write" /\ left > 0
  /\ IF DRQ \in status THEN media' = Append(media, Sector) /\ pos' = pos + 1 /\ status' = {BSY}
     ELSE UNCHANGED <<media, pos, status>>
  /\ left' = left - 1
  /\ at' = IF left' = 0 THEN "flush" ELSE "poll"
  /\ UNCHANGED <<req, buf, result, regs, mishaps>>

\* rep outsw: one sector to the drive, which takes it if it asked for it
Outsw ==
  /\ at = "data" /\ req.op = "write"
  /\ IF DRQ \in status THEN media' = Append(media, Sector) /\ pos' = pos + 1 /\ status' = {BSY}
     ELSE UNCHANGED <<media, pos, status>>
  /\ left' = left - 1
  /\ at' = IF left' = 0 THEN "flush" ELSE "poll"
  /\ UNCHANGED <<req, buf, result, regs, mishaps>>

(* The command to flush, written right behind the last sector, while the   *)
(* drive may still be busy with it.                                        *)
Flush ==
  /\ at = "flush"
  /\ SendCommand([io |-> regs.io, count |-> regs.count, cmd |-> "flush"])
  /\ at' = "flushing"
  /\ UNCHANGED <<req, left, buf, result, media, mishaps>>

Flushed ==
  /\ at = "flushing" /\ BSY \notin status
  /\ Finish(0)
  /\ UNCHANGED <<req, left, buf, status, regs, pos, media, mishaps>>
-----------------------------------------------------------------------------
\* ide_identify, from ide_probe_channels; a drive that does not answer is not used again
Identify ==
  /\ at = "boot"
  /\ req' = [op |-> "identify", lba |-> 0, count |-> 0]
  /\ at' = "free?" /\ left' = Tries
  /\ buf' = <<>> /\ media' = <<>> /\ result' = NoRet
  /\ UNCHANGED <<status, regs, pos, mishaps>>

NoDrive == at' = "absent" /\ result' = -1

\* The first loop of ide_identify, and the command behind it
IdentifyFree ==
  /\ at = "free?"
  /\ \/ /\ BSY \notin status
        /\ SendCommand([io |-> regs.io, count |-> regs.count, cmd |-> "identify"])
        /\ at' = "answer?" /\ left' = Tries
        /\ UNCHANGED result
     \/ /\ BSY \in status /\ left > 1
        /\ left' = left - 1
        /\ UNCHANGED <<at, result, regs, status, pos>>
     \/ /\ BSY \in status /\ left = 1
        /\ NoDrive
        /\ UNCHANGED <<left, regs, status, pos>>
  /\ UNCHANGED <<req, buf, media, mishaps>>

IdentifyAnswer_Spins ==
  /\ at = "answer?"
  /\ \/ DRQ \in status /\ at' = "id data" /\ UNCHANGED <<left, result>>
     \/ DRQ \notin status /\ ERR \in status /\ NoDrive /\ UNCHANGED left
     \/ DRQ \notin status /\ ERR \notin status /\ UNCHANGED <<at, result, left>>
  /\ UNCHANGED <<req, buf, status, regs, pos, media, mishaps>>

\* The second loop: until data is there, an error, or the last read
IdentifyAnswer ==
  /\ at = "answer?"
  /\ \/ DRQ \in status /\ at' = "id data" /\ UNCHANGED <<left, result>>
     \/ DRQ \notin status /\ (ERR \in status \/ left = 1) /\ NoDrive /\ UNCHANGED left
     \/ DRQ \notin status /\ ERR \notin status /\ left > 1 /\ left' = left - 1 /\ UNCHANGED <<at, result>>
  /\ UNCHANGED <<req, buf, status, regs, pos, media, mishaps>>

\* The identification is read, and the status once more, in which there may be an error
IdentifyData ==
  /\ at = "id data"
  /\ buf' = <<0>>
  /\ status' \in {{}, {ERR}}
  /\ IF ERR \in status' THEN NoDrive ELSE Finish(0)
  /\ UNCHANGED <<req, left, regs, pos, media, mishaps>>
-----------------------------------------------------------------------------
\* The drive: it answers a command, one sector after the other,
Answer ==
  /\ BSY \in status
  /\ status' = IF regs.cmd = "identify" \/ (regs.cmd \in {"read", "write"} /\ pos < Sectors(regs.count))
               THEN {DRQ} ELSE {}
  /\ UNCHANGED <<at, req, left, buf, result, regs, pos, media, mishaps>>

\* or gives it up
Fault ==
  /\ BSY \in status
  /\ regs.cmd \in {"identify", "read", "write"}
  /\ status' \in {{DF}, {ERR}, {}}
  /\ mishaps' = mishaps \cup {"fault"}
  /\ UNCHANGED <<at, req, left, buf, result, regs, pos, media>>

Driver == Issue \/ Poll \/ Check \/ Insw \/ Outsw \/ Flush \/ Flushed
            \/ IdentifyFree \/ IdentifyAnswer \/ IdentifyData
Drive == Answer \/ Fault
AtaNext == Access \/ Identify \/ Driver \/ Drive

\* The kernel goes on with a call; of the drive nothing is known
AtaSpec == AtaInit /\ [][AtaNext]_ataVars /\ WF_ataVars(Driver)
-----------------------------------------------------------------------------
\* The numbers of n sectors from a on
Run(a, n) == [k \in 1 .. n |-> a + k - 1]

(* A read that returns 0 has filled the buffer with the sectors from the   *)
(* first one asked for on, in order, count % 256 of them: all when fewer   *)
(* than 256 were asked for.  A read that fails has filled it up to the     *)
(* fault.                                                                  *)
ReadIsExact ==
  at = "idle" /\ req.op = "read" =>
    buf = Run(req.lba, Len(buf)) /\ (result = 0 <=> Len(buf) = uint8(req.count))

(* The data port is read only when the drive has said that data is there,  *)
(* which ide_polling and ide_identify have to find out before.             *)
ReadOnlyWhenAsked == at = "id data" \/ (at = "data" /\ req.op = "read") => status = {DRQ}

(* When a write returns, the drive is no longer busy and has taken the     *)
(* sectors, each at its place, count % 256 of them.  If it has given up    *)
(* before, it has taken the first ones only, and 0 is returned all the     *)
(* same: ide_polling does not look for a fault then (ata.c:294).           *)
WriteIsExact ==
  at = "idle" /\ req.op = "write" =>
    /\ BSY \notin status
    /\ media = Run(req.lba, Len(media)) /\ Len(media) =< uint8(req.count)
    /\ "fault" \notin mishaps => Len(media) = uint8(req.count)

(* What a call has transferred when it returns is what was asked for, and  *)
(* nothing is taken from the data port that the drive did not put there.   *)
(* Exceptions, which the code has: of a count above 255 only the low eight *)
(* bits are transferred, and 0 is returned (ata.c:316, 321); after one     *)
(* whose low bits are 0 the drive is left in the middle of a command for   *)
(* 256 sectors, and nothing is promised any more.  That a write has been   *)
(* flushed is not promised: the command may come too early (ata.c:303).    *)
TransfersExact == "zero" \notin mishaps => ReadIsExact /\ ReadOnlyWhenAsked /\ WriteIsExact

\* ide_identify returns whatever the drive does, by its bounded loops.
IdentifyEnds == (at \in {"free?", "answer?", "id data"}) ~> (at \in {"idle", "absent"})

\* A read or write returns if the drive does not stay busy for ever.
AccessEnds ==
  WF_ataVars(Drive) => (at \in {"wait", "poll", "check", "data", "flush", "flushing"} ~> at = "idle")

(* Every call of the driver returns: the identification always, a read or  *)
(* a write unless the drive stays busy.                                    *)
CallsEnd == IdentifyEnds /\ AccessEnds
=============================================================================
