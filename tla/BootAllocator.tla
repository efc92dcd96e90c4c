---------------------------- MODULE BootAllocator ----------------------------
(***************************************************************************)
(* From the memory map of the boot loader to the pages of the page         *)
(* allocator (boot_allocator.c, mb2_info.c, page.c, vmm_finalize and the   *)
(* start of buddy_init), in the order of init() in x86.c.                  *)
(*                                                                         *)
(* Addresses are numbers modulo Top, which stands for 4 GiB: a region that *)
(* ends at the top of memory has end 0, and an entry of the map above the  *)
(* top is cut to its low bits.  Everything runs once, on one processor and *)
(* before the first interrupt, so each call of init() is one action.       *)
(***************************************************************************)
EXTENDS Integers, SequencesExt

CONSTANTS Top,          \* 2^32
          PageSize,     \* PAGE_SIZE, at least 2 so that a region may end inside a page
          LowmemStart,  \* LOWMEM_START
          HighmemStart, \* HIGHMEM_START
          MaxRegions,   \* MAX_REGIONS
          Fixed,        \* the regions boot_allocator_init reserves itself, in its order
          ImageStart,   \* where the kernel's code begins, the page after kernel_start
          ImageEnd,     \* kernel_end
          BootLimit,    \* the 4 MiB the boot page tables map
          PtCount,      \* the number of page tables of the linear mapping
          PtSpan,       \* the memory one page table maps
          DescSize,     \* the size of the page descriptors
          Maps          \* the memory maps: sequences of [addr, len, ram]

\* What the values of the constants must satisfy
BootAssumptions ==
  /\ Top % PageSize = 0 /\ PageSize > 1
  /\ 0 < BootLimit /\ BootLimit =< LowmemStart
  /\ LowmemStart < HighmemStart /\ HighmemStart < Top
  /\ ImageStart % PageSize = 0
  /\ \A m \in Maps : \A i \in DOMAIN m : m[i].len > 0

Zones    == {"LOWMEM", "DMA", "HIGHMEM"}
MaxPages == Top \div PageSize
Page     == 0 .. MaxPages - 1
PageOf(p) == p * PageSize .. p * PageSize + PageSize - 1
W(x)     == x % Top

VARIABLES
  mmap,     \* the memory map handed over by the boot loader
  pc,       \* the next call of init(): "mb2", "vmm", "page", "buddy", "up" or "panic"
  bootmem,  \* the tables of regions: free, res and holes
  zones,    \* free_zones and res_zones, a list of regions for each zone
  total_pages,
  allocs,   \* bootmem.allocations, as regions
  kernel,   \* the addresses the kernel writes its tables to
  linear,   \* the pages the linear mapping reaches
  pst,      \* the state bits of the page descriptors
  given     \* the pages handed to the page allocator

vars == <<mmap, pc, bootmem, zones, total_pages, allocs, kernel, linear, pst, given>>

Reg(s, e)   == [start |-> s, end |-> e]
Extent(r)   == r.start .. (IF r.end = 0 THEN Top ELSE r.end) - 1
Covered(rs) == UNION {Extent(rs[i]) : i \in DOMAIN rs}

\* boot_alloc_get_addr_zone, and the same test in page_get_zone_flag
get_addr_zone(a) ==
  CASE a >= HighmemStart -> "HIGHMEM"
    [] a >= LowmemStart /\ a < HighmemStart -> "LOWMEM"
    [] OTHER -> "DMA"

\* The insertion sort, by start: a region goes behind those that start no later.
sort_regions(rs) ==
  LET before(i) == {j \in DOMAIN rs : \/ rs[j].start < rs[i].start
                                      \/ rs[j].start = rs[i].start /\ j < i}
  IN  [k \in DOMAIN rs |-> rs[CHOOSE i \in DOMAIN rs : Cardinality(before(i)) = k - 1]]

\* Regions are joined only where one begins exactly where the last one ends.
merge(rs) ==
  FoldLeft(LAMBDA acc, r :
             IF acc # <<>> /\ Last(acc).end = r.start
             THEN [acc EXCEPT ![Len(acc)].end = r.end] ELSE Append(acc, r), <<>>, rs)

SORT_AND_MERGE(rs) == merge(sort_regions(rs))

range_overlaps(s, e, rs) ==
  \E i \in DOMAIN rs : ~(e =< rs[i].start \/ s >= rs[i].end)

\* boot_allocator_add_region: an empty region is left out
Stored(r) == r.start # r.end

\* One of the calls of add_region that made the list rs ended in a panic.
Refused(rs) ==
  Len(rs) > MaxRegions \/ \E i \in DOMAIN rs : rs[i].start > rs[i].end /\ rs[i].end # 0
-----------------------------------------------------------------------------
\* mb2_mmap_iter: the entries of one kind, their bounds cut to 32 bits
mmap_iter(m, ram) ==
  LET es == SelectSeq(m, LAMBDA e : e.ram = ram)
  IN  [i \in DOMAIN es |-> Reg(W(es[i].addr), W(es[i].addr + es[i].len))]

cursor_LastOnly(r, res, i) ==
  Max({r.start} \cup {res[j].end : j \in {k \in {i - 1} \cap DOMAIN res : res[k].start < r.end}})

(* Where the loop of free_handler stands when it comes to reserved region  *)
(* i: behind all the earlier ones that begin in the entry r                *)
cursor(r, res, i) ==
  Max({r.start} \cup {res[j].end : j \in {k \in 1 .. i - 1 : res[k].start < r.end}})

(* boot_allocator_free_handler: what the reserved regions res, sorted,     *)
(* leave of the entry r is added piece by piece to the free regions rs,    *)
(* unless it overlaps one of another entry.  An empty piece stands for a   *)
(* region that is skipped, and for all behind the early return.            *)
free_handler(rs, r, res) ==
  LET skipped(i) == res[i].end =< cursor(r, res, i) \/ res[i].start >= r.end
      stop(i)   == IF i > Len(res) THEN r.end ELSE IF skipped(i) THEN 0 ELSE res[i].start
      pieces    == [i \in 1 .. Len(res) + 1 |-> Reg(cursor(r, res, i), stop(i))]
      wanted(p) == p.start < p.end /\ ~range_overlaps(p.start, p.end, rs)
  IN  rs \o SelectSeq(pieces, wanted)

Gap_AcrossFree(all, i) == Reg(all[i].start, all[i + 1].start)

Gap(all, i) == Reg(all[i].end, all[i + 1].start)

\* boot_allocator_fill_gaps_as_holes: the gaps between neighbours of the sorted list
fill_gaps(free, res) ==
  LET all  == SORT_AND_MERGE(free \o res)
      gaps == [i \in 1 .. Len(all) - 1 |-> Gap(all, i)]
  IN  SORT_AND_MERGE(SelectSeq(gaps, LAMBDA g : g.start < g.end))

total_visible_ram_FirstEnd(all) == all[1].end

\* boot_allocator_get_total_visibale_ram: the end of the region that starts last
total_visible_ram(all) == IF Last(all).end = 0 THEN Top - 1 ELSE Last(all).end

\* The part of region r in each zone; HIGHMEM_END is the last address, not the top
InZone(r, z) ==
  LET lo == CASE z = "DMA" -> 0 [] z = "LOWMEM" -> LowmemStart [] z = "HIGHMEM" -> HighmemStart
      hi == CASE z = "DMA" -> LowmemStart [] z = "LOWMEM" -> HighmemStart [] z = "HIGHMEM" -> Top - 1
  IN  Reg(Max({r.start, lo}), Min({r.end, hi}))

\* boot_allocator_init_zones
init_zones(rs) ==
  [z \in Zones |->
     SelectSeq([i \in DOMAIN rs |-> InZone(rs[i], z)], LAMBDA r : r.start < r.end)]
-----------------------------------------------------------------------------
Init ==
  /\ mmap \in Maps
  /\ pc = "mb2"
  /\ bootmem = [free |-> <<>>, res |-> <<>>, holes |-> <<>>]
  /\ zones = [free |-> [z \in Zones |-> <<>>], res |-> [z \in Zones |-> <<>>]]
  /\ total_pages = 0
  /\ allocs = <<>>
  /\ kernel = {} /\ linear = {} /\ given = {}
  /\ pst = [p \in Page |-> "UNUSABLE"]

Panic == pc' = "panic" /\ UNCHANGED <<mmap, bootmem, zones, total_pages, allocs, kernel, linear, pst, given>>

(* mb2_init with the one memory map tag it needs: boot_allocator_init.     *)
(* `reserved` are the fixed regions and the map's, in the order of the     *)
(* calls.  A hand-over with no map, or with two, ends in a panic.          *)
Mb2Init ==
  /\ pc = "mb2"
  /\ LET reserved == SelectSeq(Fixed \o mmap_iter(mmap, FALSE), Stored)
         res      == SORT_AND_MERGE(reserved)
         found    == FoldLeft(LAMBDA rs, r : free_handler(rs, r, res), <<>>, mmap_iter(mmap, TRUE))
         free     == SORT_AND_MERGE(found)
         holes    == fill_gaps(free, res)
     IN  IF Refused(reserved) \/ Refused(found) \/ Refused(holes) THEN Panic
         ELSE /\ bootmem' = [free |-> free, res |-> res, holes |-> holes]
              /\ total_pages' =
                   total_visible_ram(SORT_AND_MERGE(free \o res \o holes)) \div PageSize
              /\ zones' = [free |-> [z \in Zones |-> SORT_AND_MERGE(init_zones(free)[z])],
                           res  |-> [z \in Zones |-> SORT_AND_MERGE(init_zones(res)[z])]]
              /\ pc' = "vmm"
              /\ UNCHANGED <<mmap, allocs, kernel, linear, pst, given>>

\* The tag is missing or found twice, or the magic number is wrong.
Mb2Fails == pc = "mb2" /\ Panic

\* ALIGN
Align(x, a) == ((x + a - 1) \div a) * a

\* An emptied region is replaced by the last one of its list.
Drop(rs, i) == Front(ReplaceAt(rs, i, Last(rs)))

\* boot_allocator_add_to_zones
add_to_zones(res, a, size) ==
  [res EXCEPT ![get_addr_zone(a)] = SORT_AND_MERGE(Append(@, Reg(a, a + size)))]

(* boot_alloc_at: the first region with an aligned place in s .. e.  The   *)
(* part behind it becomes a region of its own, the part in front stays.    *)
boot_alloc_at(size, z, s, e, align, zs) ==
  LET rs == zs.free[z]
      at(i) == Align(Max({rs[i].start, s}), align)
      fits == {i \in DOMAIN rs : rs[i].start < e /\ rs[i].end > s
                                 /\ at(i) + size =< Min({rs[i].end, e})}
      i  == Min(fits)
      a  == at(i)
      tailed == IF a + size < rs[i].end THEN Append(rs, Reg(a + size, rs[i].end)) ELSE rs
      cut    == [tailed EXCEPT ![i].end = a]
  IN  IF s + size > e \/ fits = {} THEN [ret |-> 0, zs |-> zs]
      ELSE [ret |-> a,
            zs  |-> [free |-> [zs.free EXCEPT ![z] =
                                 sort_regions(IF rs[i].start >= a THEN Drop(cut, i) ELSE cut)],
                     res  |-> add_to_zones(zs.res, a, size)]]

boot_alloc_DropsHead(size, z, zs) ==
  LET rs == zs.free[z]
      fits == {i \in DOMAIN rs : rs[i].end - rs[i].start >= size}
      i == Max(fits)
      a == rs[i].end - size
  IN  IF fits = {} THEN [ret |-> 0, zs |-> zs]
      ELSE [ret |-> a,
            zs  |-> [free |-> [zs.free EXCEPT ![z] = Drop(rs, i)],
                     res  |-> add_to_zones(zs.res, a, size)]]

\* boot_alloc: the end of the last region that is large enough
boot_alloc(size, z, zs) ==
  LET rs == zs.free[z]
      fits == {i \in DOMAIN rs : rs[i].end - rs[i].start >= size}
      i == Max(fits)
      a == rs[i].end - size
      cut == [rs EXCEPT ![i].end = a]
  IN  IF fits = {} THEN [ret |-> 0, zs |-> zs]
      ELSE [ret |-> a,
            zs  |-> [free |-> [zs.free EXCEPT ![z] = IF rs[i].start = a THEN Drop(cut, i) ELSE cut],
                     res  |-> add_to_zones(zs.res, a, size)]]

PoolSize_ShortByOne == (PtCount - 1) * PageSize

PoolSize == PtCount * PageSize

Linear_OneTableLess == {p \in Page : p * PageSize < (PtCount - 1) * PtSpan}

\* The pages the filled page tables map at their physical address plus 3 GiB
Linear == {p \in Page : p * PageSize < PtCount * PtSpan}

(* vmm_finalize: the page directory, then all page tables of the linear    *)
(* mapping, in the memory the boot page tables map; both are written.      *)
VmmFinalize ==
  /\ pc = "vmm"
  /\ LET pd == boot_alloc_at(PageSize, "DMA", 0, BootLimit, PageSize, zones)
         pt == boot_alloc_at(PoolSize, "DMA", 0, BootLimit, PageSize, pd.zs)
     IN  IF pd.ret = 0 \/ pt.ret = 0 THEN Panic
         ELSE /\ zones' = pt.zs
              /\ allocs' = allocs \o <<Reg(pd.ret, pd.ret + PageSize), Reg(pt.ret, pt.ret + PoolSize)>>
              /\ kernel' = kernel \cup (pd.ret .. pd.ret + PageSize - 1)
                                  \cup (pt.ret .. pt.ret + PtCount * PageSize - 1)
              /\ linear' = Linear
              /\ pc' = "page"
              /\ UNCHANGED <<mmap, bootmem, total_pages, pst, given>>

page_get_state_flag_PastEnd(a, zs) ==
  LET in(rs) == \E i \in DOMAIN rs : a >= rs[i].start /\ a =< rs[i].end
  IN  CASE \E z \in Zones : in(zs.free[z]) -> "AVAILABLE"
        [] \E z \in Zones : in(zs.res[z]) /\ (\A y \in Zones : ~in(zs.free[y])) -> "RESERVED"
        [] OTHER -> "UNUSABLE"

(* page_get_state_flag, with page_addr_is_in_reg: only the first address   *)
(* of the page is looked up.  The regions of a zone lie in it, so the      *)
(* order in which the zones are searched does not matter.                  *)
page_get_state_flag(a, zs) ==
  LET in(rs) == \E i \in DOMAIN rs : a >= rs[i].start /\ a < rs[i].end
  IN  CASE \E z \in Zones : in(zs.free[z]) -> "AVAILABLE"
        [] \E z \in Zones : in(zs.res[z]) /\ (\A y \in Zones : ~in(zs.free[y])) -> "RESERVED"
        [] OTHER -> "UNUSABLE"

(* page_descriptor_init: the descriptors of all pages, reached through the *)
(* linear mapping, and their state                                         *)
PageDescriptorInit ==
  /\ pc = "page"
  /\ LET d == boot_alloc(DescSize, "LOWMEM", zones)
     IN  IF d.ret = 0 THEN Panic
         ELSE /\ zones' = d.zs
              /\ allocs' = Append(allocs, Reg(d.ret, d.ret + DescSize))
              /\ kernel' = kernel \cup (d.ret .. d.ret + DescSize - 1)
              /\ pst' = [p \in Page |-> page_get_state_flag(p * PageSize, d.zs)]
              /\ pc' = "buddy"
              /\ UNCHANGED <<mmap, bootmem, total_pages, linear, given>>

(* buddy_init: the available pages below total_pages are handed over, and  *)
(* the boot allocator is frozen.                                           *)
BuddyInit ==
  /\ pc = "buddy"
  /\ given' = {p \in Page : p < total_pages /\ pst[p] = "AVAILABLE"}
  /\ pst' = [p \in Page |-> IF p \in given' THEN "FREE" ELSE pst[p]]
  /\ pc' = "up"
  /\ UNCHANGED <<mmap, bootmem, zones, total_pages, allocs, kernel, linear>>

Next == Mb2Init \/ Mb2Fails \/ VmmFinalize \/ PageDescriptorInit \/ BuddyInit

Spec == Init /\ [][Next]_vars
-----------------------------------------------------------------------------
\* The memory the map describes, at its true addresses
Ram == UNION {mmap[i].addr .. mmap[i].addr + mmap[i].len - 1 : i \in {j \in DOMAIN mmap : mmap[j].ram}}

FreeNow == UNION {Covered(zones.free[z]) : z \in Zones}
ResNow  == Covered(bootmem.res) \cup Covered(allocs)

(* What is free is neither reserved nor allocated, the free regions are    *)
(* disjoint, and each lies in the zone it is listed under, after any       *)
(* sequence of splits, cuts and merges (boot_allocator.c).                 *)
FreeIsFree ==
  /\ FreeNow \cap ResNow = {}
  /\ \A z \in Zones : LET rs == zones.free[z] IN
       /\ \A i, j \in DOMAIN rs : i # j => Extent(rs[i]) \cap Extent(rs[j]) = {}
       /\ \A a \in Covered(rs) : get_addr_zone(a) = z

(* No memory is lost: an address of RAM that no one reserved is free or    *)
(* allocated, unless it is the last address or its entry ends at the top   *)
(* of memory, which free_handler takes for an empty one.                   *)
NoRamLost ==
  pc \in {"vmm", "page", "buddy", "up"} =>
    \A i \in DOMAIN mmap :
      mmap[i].ram /\ mmap[i].addr + mmap[i].len # Top =>
        (mmap[i].addr .. mmap[i].addr + mmap[i].len - 1) \subseteq FreeNow \cup ResNow

(* A hole never covers free memory, although reserved regions may lie one  *)
(* inside another and the end of the inner one then begins a gap.          *)
HolesNotFree == Covered(bootmem.holes) \cap Covered(bootmem.free) = {}

(* The page allocator never gets a page with a part of the kernel's image, *)
(* of the page directory, of a page table or of the page descriptors, and  *)
(* these do not overlap each other.                                        *)
KernelKept ==
  /\ \A p \in given : PageOf(p) \cap (kernel \cup (ImageStart .. ImageEnd - 1)) = {}
  /\ kernel \cap (ImageStart .. ImageEnd - 1) = {}
  /\ \A i, j \in DOMAIN allocs : i # j => Extent(allocs[i]) \cap Extent(allocs[j]) = {}

(* Every page below HIGHMEM that is handed over, and every table of the    *)
(* kernel, can be reached through the linear mapping of vmm_finalize.      *)
LinearReaches ==
  pc \in {"page", "buddy", "up"} =>
    /\ \A p \in given : get_addr_zone(p * PageSize) # "HIGHMEM" => p \in linear
    /\ \A a \in kernel : a \div PageSize \in linear

(* Every page whose first address is free is seen by the loop of           *)
(* buddy_init: total_pages is not short of the last one that is whole.     *)
EveryPageGiven ==
  pc = "up" => \A p \in Page : PageOf(p) \subseteq FreeNow => p \in given

LostPages == {p \in given : ~\E i \in DOMAIN bootmem.free :
                 p * PageSize >= bootmem.free[i].start /\ p * PageSize < bootmem.free[i].end}

(* The self test debug_buddy_check_lost_pages passes: every free page      *)
(* begins in a region the memory map gave as free.                         *)
NoLostPages == LostPages = {}

(* A page handed over is all RAM, as "Usable not claimed" of page.h says.  *)
(* Addresses above 4 GiB are cut, so that RAM there looks like RAM below.  *)
GivenIsRam == \A p \in given : PageOf(p) \subseteq Ram

(* The regions account for the memory map: nothing free is claimed, no     *)
(* RAM is lost and no hole is free, through all the splitting and merging. *)
RegionsExact == FreeIsFree /\ NoRamLost /\ HolesNotFree

(* The page allocator gets all the free RAM, nothing of the kernel and     *)
(* nothing that is not RAM, and what it gets below HIGHMEM can be reached. *)
HandsOverRam == KernelKept /\ LinearReaches /\ EveryPageGiven /\ NoLostPages /\ GivenIsRam
=============================================================================
