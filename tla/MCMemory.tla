------------------------------ MODULE MCMemory ------------------------------
(***************************************************************************)
(* The memory management of the kernel for TLC: the way from the boot      *)
(* loader's memory map to the page allocator, the page allocator of one    *)
(* zone, and the slab caches over it.  Each is given any input the one     *)
(* below it may produce, so they share no state: a behaviour is about one  *)
(* of them, `part`, and the variables of the others keep their value.  The *)
(* configuration gives the page allocator a zone of eight pages and blocks *)
(* of up to four.                                                          *)
(***************************************************************************)
EXTENDS Buddy

VARIABLES
  part,
  mmap, pc, bootmem, zones, total_pages, allocs, kernel, linear, bootpst, given,
  zone, heap, live

bootVars   == <<mmap, pc, bootmem, zones, total_pages, allocs, kernel, linear, bootpst, given>>
slabVars   == <<zone, heap, live>>
memoryVars == <<part, bootVars, vars, slabVars>>
-----------------------------------------------------------------------------
(* A machine of 18 pages of two units.  The layout is the kernel's: the    *)
(* null page, low memory up to the middle of a page, the VGA hole, the     *)
(* image with the descriptor tables inside it, and the boot information.   *)
(* The image's first page begins with the multiboot header, in front of    *)
(* kernel_start.                                                           *)
Region(s, e) == [start |-> s, end |-> e]

FixedRegions ==
  <<Region(4, 6), Region(9, 10), Region(10, 11), Region(0, 2), Region(2, 3), Region(7, 11), Region(12, 13)>>

Entry(a, b, ram) == [addr |-> a, len |-> b - a, ram |-> ram]

Even(S) == {x \in S : x % 2 = 0}

\* Low memory, the main block of RAM up to x, and two more entries in either order
MemoryMaps ==
  LET low == <<Entry(0, 3, TRUE), Entry(3, 4, FALSE)>>
  IN  UNION {{low \o <<Entry(6, x, TRUE), Entry(y, z, s), Entry(v, w, t)>>,
              <<Entry(v, w, t), Entry(y, z, s), Entry(6, x, TRUE)>> \o low} :
             <<x, y, z, v, w, s, t>> \in
               {q \in {14, 20, 24, 26} \X Even(16 .. 34) \X Even(18 .. 36)
                      \X Even(20 .. 34) \X Even(22 .. 36) \X BOOLEAN \X BOOLEAN :
                  q[1] =< q[2] /\ q[2] < q[3] /\ q[3] =< q[4] /\ q[4] < q[5]}}

Boot == INSTANCE BootAllocator WITH
          Top <- 36, PageSize <- 2, LowmemStart <- 22, HighmemStart <- 28, MaxRegions <- 16,
          Fixed <- FixedRegions, ImageStart <- 8, ImageEnd <- 11, BootLimit <- 20,
          PtCount <- 2, PtSpan <- 14, DescSize <- 4, Maps <- MemoryMaps, pst <- bootpst

(* Objects of 4 bytes (three to a page, descriptor in the page) and of 8   *)
(* (two to a page, descriptor allocated), and blocks of a whole page.  The *)
(* first zone keeps pages; the second one runs out of pages and of objects *)
(* of the one class asked for.                                             *)
SlabZones == {[pages |-> 7, sizes |-> {0, 3, 7, 16}, live |-> 3],
              [pages |-> 2, sizes |-> {1, 4}, live |-> 7]}

Slab == INSTANCE Slab WITH
          PageSize <- 16, SlabHdr <- 4, MinSize <- 4, Threshold <- 4, NCaches <- 2,
          Zones <- SlabZones

ASSUME Boot!BootAssumptions /\ Slab!SlabAssumptions
-----------------------------------------------------------------------------
\* The state of a part that nobody calls
IdleMap   == CHOOSE m \in MemoryMaps : TRUE
BootIdle  == mmap = IdleMap /\ Boot!Init
BuddyIdle == pst = [p \in Page |-> "RESERVED"] /\ Init
SlabIdle  == Slab!Init /\ zone.pages = 2

MemoryInit ==
  \/ part = "boot"  /\ Boot!Init /\ BuddyIdle /\ SlabIdle
  \/ part = "buddy" /\ Init /\ BootIdle /\ SlabIdle
  \/ part = "slab"  /\ Slab!Init /\ BootIdle /\ BuddyIdle

MemoryNext ==
  \/ part = "boot"  /\ Boot!Next /\ UNCHANGED <<part, vars, slabVars>>
  \/ part = "buddy" /\ Next /\ UNCHANGED <<part, bootVars, slabVars>>
  \/ part = "slab"  /\ Slab!Next /\ UNCHANGED <<part, bootVars, vars>>

MemorySpec == MemoryInit /\ [][MemoryNext]_memoryVars
-----------------------------------------------------------------------------
\* The regions account for the memory map (BootAllocator!RegionsExact).
RegionsExact == part = "boot" => Boot!RegionsExact

\* The page allocator gets the free RAM and only that (BootAllocator!HandsOverRam).
HandsOverRam == part = "boot" => Boot!HandsOverRam

\* Slabs, lists and clients agree on every object (Slab!SlabsSound).
SlabsSound == part = "slab" => Slab!SlabsSound

\* kmalloc and kfree implement RangeAlloc (Slab!KeepsPromise).
SlabKeepsPromise == Slab!KeepsPromise
=============================================================================
