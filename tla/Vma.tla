--------------------------------- MODULE Vma ---------------------------------
(***************************************************************************)
(* Virtual memory areas (vma.c) and their two clients: vmalloc and vfree,  *)
(* which map at once, and mmap, munmap, the page fault handler and exit,   *)
(* which reserve first and map when the memory is touched.  An area list   *)
(* is a sequence of records in address order.                              *)
(*                                                                         *)
(* Addresses count bytes of a page that has PageSize of them.  `mem` holds *)
(* what the areas consume: free HIGHMEM frames, free LOWMEM frames (one    *)
(* per page table), the page tables present and the entries they hold.     *)
(* Frames are interchangeable: which ones the allocator gives is left open *)
(* in the proofs, and fixed for TLC.                                       *)
(***************************************************************************)
EXTENDS Integers, FiniteSetsExt, Lists

CONSTANTS
  PageSize,    \* PAGE_SIZE
  PtSpan,      \* the pages one page table maps
  Start,       \* the first address vma_init_area is given
  Arena        \* for "vmalloc" and "task": the end of the range, the free HIGHMEM and
               \* LOWMEM frames at first, and the sizes the client asks for

Clients == DOMAIN Arena

ASSUME VmaAssumptions ==
  /\ Clients \subseteq {"vmalloc", "task"}
  /\ PageSize \in Nat \ {0} /\ PtSpan \in Nat \ {0}
  /\ Start \in Nat \ {0} /\ Start % PageSize = 0
  /\ \A c \in Clients : /\ Arena[c].end \in Nat /\ Start < Arena[c].end
                        /\ Arena[c].frames \in Nat /\ Arena[c].tables \in Nat
                        /\ Arena[c].sizes \subseteq Nat \ {0}

VARIABLES
  client,  \* whose areas these are
  areas,   \* the list; <<>> when the task is gone
  mem,     \* [hi, low, tables, pte]
  panic    \* the message of kpanic, or ""

vmaVars == <<client, areas, mem, panic>>

End == Arena[client].end
Frames == 1 .. Arena[client].frames
VPages == Start \div PageSize .. (End - 1) \div PageSize
Table(p) == p \div PtSpan
NULL == 0

DIV_ROUND_UP(n, d) == (n + d - 1) \div d
ALIGN(n) == DIV_ROUND_UP(n, PageSize) * PageSize

Hole(s, n) == [state |-> "FREE", start |-> s, size |-> n, flags |-> 0, nr |-> 0, pages |-> <<>>]
PageOf(a, i) == a.start \div PageSize + i - 1

VmaInit ==
  /\ client \in Clients
  /\ areas = <<Hole(Start, End - Start)>>
  /\ mem = [hi |-> Frames, low |-> Arena[client].tables, tables |-> {}, pte |-> [p \in VPages |-> NULL]]
  /\ panic = ""
-----------------------------------------------------------------------------
(* vmm_unmap_page on each page of a set: a table whose last entry goes is  *)
(* freed; a page that is not mapped changes nothing.                       *)
Unmap(m, S) ==
  LET pte  == [p \in VPages |-> IF p \in S THEN NULL ELSE m.pte[p]]
      gone == {t \in m.tables : /\ \E p \in S : Table(p) = t /\ m.pte[p] # NULL
                                /\ \A p \in VPages : Table(p) = t => pte[p] = NULL}
  IN  [m EXCEPT !.pte = pte, !.tables = @ \ gone, !.low = @ + Cardinality(gone)]

ReleasePages_NoUnmap(m, a) == [m EXCEPT !.hi = @ \cup (Range(a.pages) \ {NULL})]

\* The slots of the areas in a set that have a frame
Slots(A) == UNION {{<<a, i>> : i \in {j \in 1 .. Len(a.pages) : a.pages[j] # NULL}} : a \in A}

\* The pages of some areas are unmapped and their frames freed
ReleaseAll(m, A) ==
  [Unmap(m, {PageOf(x[1], x[2]) : x \in Slots(A)}) EXCEPT !.hi = @ \cup {x[1].pages[x[2]] : x \in Slots(A)}]
ReleasePages(m, a) == ReleaseAll(m, {a})

\* k frames of the set S, in the order they are given
Given(S, k) == CHOOSE f \in [1 .. k -> S] : IsInjective(f)

\* The first loop of vma_map_area: a frame for each page, as far as they last
FramesFor(m, a) == Given(m.hi, Min({Len(a.pages), Cardinality(m.hi)}))

\* The page tables that vmm_map_page has to allocate for the first i pages
NewTables(m, a, i) == {Table(PageOf(a, j)) : j \in 1 .. i} \ m.tables

\* The pages that the second loop maps: as far as there are page tables
PagesMapped(m, a) ==
  IF Len(FramesFor(m, a)) < Len(a.pages) THEN 0
  ELSE Max({i \in 0 .. Len(a.pages) : Cardinality(NewTables(m, a, i)) =< m.low})

vma_map_area_LosesFrames(m, a) ==
  LET f == FramesFor(m, a)
  IN  [ok   |-> Len(f) = Len(a.pages),
       area |-> IF Len(f) = Len(a.pages) THEN [a EXCEPT !.pages = f] ELSE a,
       mem  |-> [m EXCEPT !.hi = @ \ Range(f)]]

(* vma_map_area: either loop may stop half way, and what it did stays      *)
(* done.                                                                   *)
vma_map_area(m, a) ==
  LET f == FramesFor(m, a)
      d == PagesMapped(m, a)
  IN  [ok   |-> d = Len(a.pages),
       area |-> [a EXCEPT !.pages = [j \in 1 .. Len(@) |-> IF j =< Len(f) THEN f[j] ELSE @[j]]],
       mem  |-> [hi     |-> m.hi \ Range(f),
                 low    |-> m.low - Cardinality(NewTables(m, a, d)),
                 tables |-> m.tables \cup NewTables(m, a, d),
                 pte    |-> [p \in VPages |-> IF \E j \in 1 .. d : p = PageOf(a, j)
                                             THEN f[p - PageOf(a, 0)] ELSE m.pte[p]]]]
-----------------------------------------------------------------------------
neighbors(a, b) == a.start + a.size = b.start

\* merge_neighbor on the areas at i and i + 1
merge_neighbor(as, i) ==
  IF as[i].state = "FREE" /\ as[i + 1].state = "FREE" /\ neighbors(as[i], as[i + 1])
  THEN Without([as EXCEPT ![i].size = @ + as[i + 1].size], i + 1)
  ELSE as

vma_merge_area_NextOnly(as, i) == IF i < Len(as) THEN merge_neighbor(as, i) ELSE as

vma_merge_area(as, i) ==
  LET next == IF i < Len(as) THEN merge_neighbor(as, i) ELSE as
  IN  IF i > 1 THEN merge_neighbor(next, i - 1) ELSE next

vma_destroy_area_KeepsFlags(as, i) ==
  vma_merge_area([as EXCEPT ![i] = [@ EXCEPT !.state = "FREE", !.nr = 0, !.pages = <<>>]], i)

\* vma_destroy_area, on the list; ReleasePages is its effect on the memory
vma_destroy_area(as, i) == vma_merge_area([as EXCEPT ![i] = Hole(@.start, @.size)], i)

\* vma_find_by_start; vma_find_by_addr; vma_first_fit_alloc
find_by_start(a) == {i \in 1 .. Len(areas) : areas[i].start = a}
find_by_addr(a) == {i \in 1 .. Len(areas) : areas[i].start =< a /\ a < areas[i].start + areas[i].size}
first_fit(n) == {i \in 1 .. Len(areas) : areas[i].size >= n /\ areas[i].state = "FREE"}

vma_split_area_NoShrink(as, i, n) ==
  Before(as, i, [Hole(as[i].start, ALIGN(n)) EXCEPT !.state = "ALLOCATED", !.nr = ALIGN(n) \div PageSize])

(* vma_split_area, once the area is known to be large enough: the new area *)
(* is the front of the hole, or the hole itself when it fits exactly.      *)
vma_split_area(as, i, n) ==
  LET need == ALIGN(n)
      nr   == need \div PageSize
  IN  IF need = as[i].size THEN [as EXCEPT ![i].state = "ALLOCATED", ![i].nr = nr]
      ELSE Before([as EXCEPT ![i].start = @ + need, ![i].size = @ - need], i,
                    [Hole(as[i].start, need) EXCEPT !.state = "ALLOCATED", !.nr = nr])

(* The areas vma_alloc chooses from: the one the hint starts if it is free *)
(* and large enough, else the free ones that are large enough.             *)
Candidates(n, hint) ==
  LET h == {i \in find_by_start(hint) : areas[i].state = "FREE" /\ areas[i].size >= n}
  IN  IF h # {} THEN h ELSE first_fit(n)

\* The hole fits once the size is rounded up (vma_split_area may still refuse)
Fits(i, n) == ALIGN(n) =< areas[i].size

(* The calls of vma_alloc that fail for want of an area, or of a node for  *)
(* the new one (kmalloc).                                                  *)
AllocRefused(n, hint) ==
  /\ Candidates(n, hint) # {} =>
       LET i == Min(Candidates(n, hint)) IN ~Fits(i, n) \/ ALIGN(n) < areas[i].size
  /\ UNCHANGED <<areas, mem, panic>>

(* vma_alloc and vma_alloc_in_area.  okPages is whether kmalloc has room   *)
(* for the array of frames.  On any failure the new area is destroyed.     *)
vma_alloc(n, flags, hint, eager, okPages) ==
  /\ Candidates(n, hint) # {}
  /\ LET i   == Min(Candidates(n, hint))
         as  == vma_split_area(areas, i, n)
         nr  == DIV_ROUND_UP(n, PageSize)
         new == [as[i] EXCEPT !.nr = nr, !.flags = flags, !.pages = [j \in 1 .. nr |-> NULL]]
         r   == IF eager THEN vma_map_area(mem, new)
                ELSE [ok |-> TRUE, area |-> [new EXCEPT !.state = "LAZY"], mem |-> mem]
     IN  /\ Fits(i, n)
         /\ CASE ~okPages -> areas' = vma_destroy_area(as, i) /\ mem' = mem
              [] okPages /\ r.ok -> areas' = [as EXCEPT ![i] = r.area] /\ mem' = r.mem
              [] OTHER -> /\ areas' = vma_destroy_area([as EXCEPT ![i] = r.area], i)
                          /\ mem' = ReleasePages(r.mem, r.area)
  /\ panic' = panic
-----------------------------------------------------------------------------
RW == 2
RO == 1

\* vmalloc; MIN_VMALLOC_SIZE is one page
vmalloc(n, okPages) == n >= PageSize /\ vma_alloc(n, RW, NULL, TRUE, okPages)
vmallocFails(n) == n >= PageSize /\ AllocRefused(n, NULL)

(* vfree of the start of an area.  The flags stay; a free area has no      *)
(* pages, so for it only the merge could do something.                     *)
vfree(i) ==
  /\ areas' = vma_merge_area([areas EXCEPT ![i] = [Hole(@.start, @.size) EXCEPT !.flags = areas[i].flags]], i)
  /\ mem' = ReleasePages(mem, areas[i])
  /\ panic' = panic

\* mmap, with any address as the hint
mmap(n, prot, hint, okPages) == vma_alloc(n, prot, hint, FALSE, okPages)
mmapFails(n, hint) == AllocRefused(n, hint)

\* munmap of address a; the length does not matter beyond being non-zero
munmap(a) ==
  \E i \in find_by_start(a) :
    /\ areas[i].state # "FREE"
    /\ areas' = vma_destroy_area(areas, i)
    /\ mem' = ReleasePages(mem, areas[i])
    /\ panic' = panic

PageFault_KeepsLazy(a) ==
  \E i \in find_by_addr(a) :
    /\ areas[i].state = "LAZY"
    /\ LET r == vma_map_area(mem, areas[i])
       IN  r.ok /\ mem' = r.mem /\ areas' = [areas EXCEPT ![i] = r.area]
    /\ panic' = panic

(* page_fault_handler on an access to address a that no entry maps: the    *)
(* whole lazy area gets its pages, or the kernel panics.                   *)
PageFault(a) ==
  /\ mem.pte[a \div PageSize] = NULL
  /\ \/ \E i \in find_by_addr(a) :
          /\ areas[i].state = "LAZY"
          /\ LET r == vma_map_area(mem, areas[i])
             IN  /\ mem' = r.mem
                 /\ areas' = [areas EXCEPT ![i] = IF r.ok THEN [r.area EXCEPT !.state = "ALLOCATED"]
                                                  ELSE r.area]
                 /\ panic' = IF r.ok THEN "" ELSE "Failed to map lazy VM area"
     \/ /\ \A i \in find_by_addr(a) : areas[i].state # "LAZY"
        /\ panic' = "Page fault"
        /\ UNCHANGED <<areas, mem>>

\* vma_destroy_areas, from task_exit_cleanup
Exit ==
  /\ areas # <<>>
  /\ mem' = ReleaseAll(mem, Range(areas))
  /\ areas' = <<>> /\ panic' = panic

\* vma_init_area for the next task
Create ==
  /\ areas = <<>>
  /\ areas' = <<Hole(Start, End - Start)>>
  /\ UNCHANGED <<mem, panic>>

NextVmalloc ==
  \/ \E n \in Arena[client].sizes : vmallocFails(n) \/ \E ok \in BOOLEAN : vmalloc(n, ok)
  \/ \E i \in 1 .. Len(areas) : vfree(i)

NextTask ==
  \/ \E n \in Arena[client].sizes, h \in {NULL} \cup {a \in Start .. End - 1 : a % PageSize = 0} :
       \/ areas # <<>> /\ mmapFails(n, h)
       \/ \E prot \in {RO, RW}, ok \in BOOLEAN : mmap(n, prot, h, ok)
  \/ \E a \in Start .. End - 1 : munmap(a)
  \/ \E a \in Start .. End - 1 : areas # <<>> /\ PageFault(a)
  \/ Exit
  \/ Create

VmaNext ==
  /\ panic = ""
  /\ \/ client = "vmalloc" /\ NextVmalloc
     \/ client = "task" /\ NextTask
  /\ client' = client

VmaSpec == VmaInit /\ [][VmaNext]_vmaVars
-----------------------------------------------------------------------------
(* The areas tile the range vma_init_area was given: in address order,     *)
(* without gap or overlap, and no two free areas are neighbours.  The list *)
(* is only ever changed by splitting one area and by merging two, from     *)
(* four places, and munmap and vfree find an area by its start alone.      *)
Tiled ==
  areas # <<>> =>
    /\ areas[1].start = Start /\ areas[Len(areas)].start + areas[Len(areas)].size = End
    /\ \A i \in 1 .. Len(areas) - 1 :
         /\ neighbors(areas[i], areas[i + 1])
         /\ ~(areas[i].state = "FREE" /\ areas[i + 1].state = "FREE")

(* No frame is lost or shared: each is free, or in exactly one slot of one *)
(* area, also after an allocation that failed half way (vma_map_area       *)
(* returns false with some of the frames taken); and so for page tables.   *)
FramesOwnedOnce ==
  /\ \A f \in Frames :
       f \in mem.hi <=> \A i \in 1 .. Len(areas) : \A j \in 1 .. Len(areas[i].pages) : areas[i].pages[j] # f
  /\ \A i, k \in 1 .. Len(areas) :
       \A j \in 1 .. Len(areas[i].pages), l \in 1 .. Len(areas[k].pages) :
         areas[i].pages[j] = areas[k].pages[l] /\ areas[i].pages[j] # NULL => i = k /\ j = l
  /\ mem.low + Cardinality(mem.tables) = Arena[client].tables

(* The page tables say what the areas say: a page is mapped exactly when   *)
(* it belongs to an allocated area, to the frame the area records for it;  *)
(* a table is present exactly when it maps something.  After a panic in    *)
(* the middle of a page fault the lazy area is half mapped.                *)
TablesMatchAreas ==
  panic # "Failed to map lazy VM area" =>
    /\ \A i \in 1 .. Len(areas) : \A j \in 1 .. areas[i].size \div PageSize :
         mem.pte[PageOf(areas[i], j)] =
           IF areas[i].state = "ALLOCATED" THEN areas[i].pages[j] ELSE NULL
    /\ \A i \in 1 .. Len(areas) :
         areas[i].state # "FREE" => /\ areas[i].nr * PageSize = areas[i].size
                                    /\ Len(areas[i].pages) = areas[i].nr
    /\ mem.tables = {Table(p) : p \in {q \in VPages : mem.pte[q] # NULL}}

(* The comment on vm_area: flags, page count and pages are "Initialized    *)
(* for allocated and lazy areas; NULL for free/uninitialized areas"        *)
(* (vma.h:17).                                                             *)
FreeAreasBlank ==
  \A i \in 1 .. Len(areas) :
    areas[i].state = "FREE" => areas[i] = Hole(areas[i].start, areas[i].size)

(* The list and the page tables are what the clients rely on: the areas    *)
(* tile the range, the tables agree with them, and a free area of a task   *)
(* carries nothing over from its last use (vfree leaves its flags there).  *)
AreasSound == Tiled /\ TablesMatchAreas /\ (client = "task" => FreeAreasBlank)

(* The areas implement a plain allocator of address ranges: whatever the   *)
(* splits, the merges, the hint and the failures, a range is given only    *)
(* out of space nobody holds.                                              *)
Promise == INSTANCE RangeAlloc WITH
             Arena <- Start .. Max({Arena[c].end : c \in Clients}) - 1,
             taken <- {areas[i].start .. areas[i].start + areas[i].size - 1 :
                         i \in {j \in 1 .. Len(areas) : areas[j].state # "FREE"}}
KeepsPromise == Promise!Spec
=============================================================================
