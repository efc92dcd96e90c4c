-------------------------------- MODULE Block --------------------------------
(***************************************************************************)
(* The block devices: ide_init probes the drives of both channels, makes a *)
(* disk of each one found, and add_disk makes block devices of the disk    *)
(* and of the partitions in its boot sector.  This runs once, at boot.     *)
(* Allocations may fail.  Memory on the stack that is read before it is    *)
(* written has any value.                                                  *)
(***************************************************************************)
EXTENDS Integers, SequencesExt

CONSTANTS Slots,       \* 1 primary master, 2 primary slave, 3 secondary master ...
          MayMiss,     \* the slots that may have no drive
          Tables,      \* the boot sectors of the drives
          Unreadable,  \* a drive may fail to read its boot sector
          Junk,        \* what unwritten memory looks like as an entry
          AllocFails,  \* the kinds of blocks whose allocation may fail
          MaxParts     \* MBR_MAX_PARTITIONS

\* What the values of the constants must satisfy
BlockAssumptions ==
  /\ MayMiss \subseteq Slots
  /\ AllocFails \subseteq {"ide_device", "generic_disk", "block_device", "partition"}
  /\ \A t \in Tables : Len(t.entries) = MaxParts

VARIABLES drives,        \* the hardware: per slot nothing, or a drive with its boot sector
          phase,         \* "probe", "disks" or "done"
          next,          \* the slot to probe, then the position of the device
          ide_devices,   \* the slots of the devices, in the order of the list
          block_devices, \* the block devices, in the order of the list
          heap,          \* the blocks allocated and not freed
          count,         \* the number in the name of the next disk
          crashed        \* a field was written through a null pointer

vars == <<drives, phase, next, ide_devices, block_devices, heap, count, crashed>>

NoDrive == [present |-> FALSE]
Drive   == [present : {TRUE}, readable : IF Unreadable THEN BOOLEAN ELSE {TRUE}, table : Tables]
NoName  == <<>>
-----------------------------------------------------------------------------
Init ==
  /\ drives \in [Slots -> {NoDrive} \cup Drive]
  /\ \A s \in Slots \ MayMiss : drives[s].present
  /\ phase = "probe" /\ next = 1
  /\ ide_devices = <<>> /\ block_devices = <<>> /\ heap = {} /\ count = 0 /\ crashed = FALSE

\* What kmalloc may answer for a block of this kind
Alloc(kind) == IF kind \in AllocFails THEN BOOLEAN ELSE {TRUE}

Advance(last, now, then) ==
  IF next = last THEN next' = 1 /\ phase' = then ELSE next' = next + 1 /\ phase' = now

(* The body of ide_probe_channels for one slot: the device of a slot where *)
(* nothing answers is freed again.                                         *)
Probe ==
  /\ phase = "probe"
  /\ \E ok \in Alloc("ide_device") :
       IF ok /\ drives[next].present
       THEN /\ ide_devices' = Append(ide_devices, next)
            /\ heap' = heap \cup {<<"ide_device", next>>}
       ELSE UNCHANGED <<ide_devices, heap>>
  /\ Advance(Cardinality(Slots), "probe", "disks")
  /\ UNCHANGED <<drives, block_devices, count, crashed>>

mbr_parse_AllEntries(table, unwritten) ==
  [found |-> IF table.signed THEN MaxParts ELSE 0, parts |-> table.entries]

(* mbr_parse: the number of used entries, and the array they are stored in *)
(* by their place in the table.                                            *)
mbr_parse(table, unwritten) ==
  LET used == {i \in 1 .. MaxParts : table.entries[i].type # 0}
  IN  [found |-> IF table.signed THEN Cardinality(used) ELSE 0,
       parts |-> [i \in 1 .. MaxParts |-> IF i \in used THEN table.entries[i] ELSE unwritten]]

(* The sector mbr_parse looks at.  It takes only a negative result for a   *)
(* failed read, and the driver's errors are positive: a sector that was    *)
(* not read is parsed as the stack left it.                                *)
BootSector(d) == IF d.readable THEN {d.table} ELSE Tables

partition_Orphan(disk, name, i, part) ==
  [name |-> name \o <<i - 1>>, disk |-> disk, parent |-> NoName, start |-> part.start, len |-> part.len]

\* The block device of partition i
partition(disk, name, i, part) ==
  [name |-> name \o <<i - 1>>, disk |-> disk, parent |-> name, start |-> part.start, len |-> part.len]

(* add_disk.  The test behind the allocation of a partition's device looks *)
(* at the device of the disk, so a null pointer is written through.        *)
add_disk(disk, name) ==
  \E table \in BootSector(drives[disk]), unwritten \in Junk :
    LET p == mbr_parse(table, unwritten)
    IN  \E got \in [1 .. p.found -> Alloc("partition")] :
          LET n == IF \A i \in 1 .. p.found : got[i] THEN p.found
                   ELSE Min({i \in 1 .. p.found : ~got[i]}) - 1
              new == <<[name |-> name, disk |-> disk, parent |-> NoName, start |-> 0, len |-> 0]>>
                       \o [i \in 1 .. n |-> partition(disk, name, i, p.parts[i])]
          IN  /\ block_devices' = block_devices \o new
              /\ heap' = heap \cup {<<"generic_disk", disk>>} \cup {<<"block_device", d.name>> : d \in ToSet(new)}
              /\ crashed' = (n < p.found)

DiskFails_KeepsDisk(disk) ==
  /\ heap' = heap \cup {<<"generic_disk", disk>>}
  /\ UNCHANGED <<block_devices, crashed>>

\* add_disk without memory for the device of the disk; ide_init frees the disk
DiskFails(disk) == UNCHANGED <<heap, block_devices, crashed>>

next_name_Same(n) == n

\* name[2] += i++
next_name(n) == n + 1

(* The body of ide_init for one device.  The number in the name advances   *)
(* when the disk could be allocated, whether add_disk succeeds or not.     *)
MakeDisk ==
  /\ phase = "disks" /\ ~crashed
  /\ next \in DOMAIN ide_devices
  /\ LET disk == ide_devices[next] IN
     \/ /\ FALSE \in Alloc("generic_disk")
        /\ UNCHANGED <<heap, block_devices, count, crashed>>
     \/ /\ count' = next_name(count)
        /\ \/ add_disk(disk, <<count>>)
           \/ FALSE \in Alloc("block_device") /\ DiskFails(disk)
  /\ Advance(Len(ide_devices), "disks", "done")
  /\ UNCHANGED <<drives, ide_devices>>

Next == Probe \/ MakeDisk

Spec == Init /\ [][Next]_vars
-----------------------------------------------------------------------------
Partitions(disk) == SelectSeq(block_devices, LAMBDA d : d.disk = disk /\ d.parent # NoName)
Used(t)  == SelectSeq(t.entries, LAMBDA e : e.type # 0)
Dense(t) == IsPrefix(Used(t), t.entries)

(* A disk whose boot sector was read has a block device for each used      *)
(* entry, in the order of the table and with its place and size, when the  *)
(* used entries come first (and the kernel has not written through a null  *)
(* pointer meanwhile).                                                     *)
PartitionsAreEntries ==
  \A i \in DOMAIN block_devices :
    LET d == block_devices[i]
        t == drives[d.disk].table
        p == Partitions(d.disk)
    IN  ~crashed /\ drives[d.disk].readable /\ Dense(t) =>
          /\ Len(p) = IF t.signed THEN Len(Used(t)) ELSE 0
          /\ \A k \in DOMAIN p : p[k].start = Used(t)[k].start /\ p[k].len = Used(t)[k].len

(* The parent of a partition is the device of the whole disk, which lies   *)
(* before it in the list; every disk has exactly one device without parent.*)
ParentIsDisk ==
  /\ \A i \in DOMAIN block_devices :
       Len(block_devices[i].name) > 1 =>
         \E j \in 1 .. i - 1 : /\ block_devices[j].name = block_devices[i].parent
                               /\ block_devices[j].disk = block_devices[i].disk
                               /\ block_devices[j].parent = NoName
  /\ \A i, j \in DOMAIN block_devices :
       block_devices[i].parent = NoName /\ block_devices[j].parent = NoName
         /\ block_devices[i].disk = block_devices[j].disk => i = j

\* No two block devices have the same name, whichever allocations failed.
NamesUnique == \A i, j \in DOMAIN block_devices : block_devices[i].name = block_devices[j].name => i = j

(* lside and lsblk call the same disk by the same name as long as no disk  *)
(* was refused memory: lside counts the devices in the list, ide_init the  *)
(* disks it could allocate.                                                *)
NamesAgree ==
  count = (CASE phase = "probe" -> 0 [] phase = "disks" -> next - 1 [] phase = "done" -> Len(ide_devices)) =>
  \A i \in DOMAIN ide_devices, j \in DOMAIN block_devices :
    block_devices[j].parent = NoName => (block_devices[j].disk = ide_devices[i]) = (block_devices[j].name = <<i - 1>>)

(* Everything allocated is in one of the two lists, or is the disk of a    *)
(* block device: what a failed step had allocated is freed.                *)
HeapAccounted ==
  heap = {<<"ide_device", s>> : s \in ToSet(ide_devices)}
           \cup {<<"block_device", d.name>> : d \in ToSet(block_devices)}
           \cup {<<"generic_disk", d.disk>> : d \in ToSet(block_devices)}

(* What lsblk lists is what the boot sectors say, under names that tell    *)
(* the devices apart, and nothing allocated on the way is forgotten.       *)
DevicesSound == PartitionsAreEntries /\ ParentIsDisk /\ NamesUnique /\ NamesAgree /\ HeapAccounted
=============================================================================
