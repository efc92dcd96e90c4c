--------------------------------- MODULE Slab ---------------------------------
(***************************************************************************)
(* kmalloc and kfree over the slab caches of one zone (slab.c, kmalloc.c). *)
(* The zones share only the code.                                          *)
(*                                                                         *)
(* Addresses count the bytes of pages that have PageSize of them, so that  *)
(* an object of page p lies in p * PageSize .. (p + 1) * PageSize - 1.  A  *)
(* slab is named by the page of its objects.  The geometry is scaled down  *)
(* by the constants; a large block is one page.  The page allocator gives  *)
(* the lowest free page: which one does not matter here (see Buddy).       *)
(*                                                                         *)
(* `heap.dead` is the kernel's end: "panic" after kpanic, "wild" after a   *)
(* step that follows pointers read from memory that has been given back    *)
(* and used again.                                                         *)
(***************************************************************************)
EXTENDS Integers, FiniteSetsExt, SequencesExt

CONSTANTS
  PageSize,    \* PAGE_SIZE
  SlabHdr,     \* sizeof(struct slab)
  MinSize,     \* the object size of the first cache; each next one doubles
  NCaches,     \* NUM_SLAB_CACHES
  Threshold,   \* SLAB_INTRUSIVE_THRESHOLD
  Zones        \* the zones looked at: their pages, the sizes their clients ask for,
               \* and a bound on the objects these hold at a time

\* What the values of the constants must satisfy
SlabAssumptions ==
  /\ NCaches \in Nat \ {0} /\ MinSize \in Nat \ {0}
  /\ SlabHdr \in 1 .. Threshold /\ MinSize * 2^(NCaches - 1) =< PageSize
  /\ \E i \in 0 .. NCaches - 1 : SlabHdr =< MinSize * 2^i /\ MinSize * 2^i =< Threshold
  /\ \A z \in Zones : z.pages \in Nat /\ z.sizes \subseteq Nat /\ z.live \in Nat

VARIABLES
  zone,   \* the zone kmalloc is asked for
  heap,   \* [free, state, slab, full, partial, empty, dead]
  live    \* what the clients hold: [ptr, size]

vars == <<zone, heap, live>>

NULL == 0
ZonePages == Max({z.pages : z \in Zones})
Pages == 1 .. ZonePages
Caches == 0 .. NCaches - 1
PageOf(ptr) == ptr \div PageSize

cache_sizes(c) == MinSize * 2^c
External(c) == cache_sizes(c) > Threshold
objects_per_slab(c) == (IF External(c) THEN PageSize ELSE PageSize - SlabHdr) \div cache_sizes(c)

size_to_cache_size_Below(n) ==
  LET large == {i \in Caches : n =< 2 * cache_sizes(i)} IN IF large = {} THEN NCaches ELSE Min(large)

size_to_cache_size(n) ==
  LET large == {i \in Caches : n =< cache_sizes(i)} IN IF large = {} THEN NCaches ELSE Min(large)

Objects_OnePast(c, p) ==
  [k \in 1 .. objects_per_slab(c) + 1 |->
     p * PageSize + (IF External(c) THEN 0 ELSE SlabHdr) + (k - 1) * cache_sizes(c)]

\* slab_init_intrusive_freelist: the objects of page p in a slab of cache c
Objects(c, p) ==
  [k \in 1 .. objects_per_slab(c) |->
     p * PageSize + (IF External(c) THEN 0 ELSE SlabHdr) + (k - 1) * cache_sizes(c)]

NoSlab == [cache |-> NCaches, freelist |-> <<>>, inuse |-> 0, desc |-> NULL]

\* slab_init
Init ==
  /\ zone \in Zones
  /\ heap = [free |-> 1 .. zone.pages, state |-> [p \in Pages |-> "FREE"], slab |-> [p \in Pages |-> NoSlab],
             full |-> [c \in Caches |-> <<>>], partial |-> [c \in Caches |-> <<>>],
             empty |-> [c \in Caches |-> <<>>], dead |-> ""]
  /\ live = {}
-----------------------------------------------------------------------------
Die(m, why) == IF m.dead = "" THEN [m EXCEPT !.dead = why] ELSE m

\* buddy_alloc_pages for one page: the heap after it and the page, or NULL
buddy_alloc(m) ==
  IF m.free = {} THEN [m |-> m, page |-> NULL]
  ELSE LET p == Min(m.free)
       IN  [m |-> [m EXCEPT !.free = @ \ {p}, !.state[p] = "ALLOCATED"], page |-> p]

\* buddy_free_block panics on a page that is not ALLOCATED
buddy_free(m, p) ==
  IF m.state[p] # "ALLOCATED" THEN Die(m, "panic")
  ELSE [m EXCEPT !.free = @ \cup {p}, !.state[p] = "FREE"]

\* pop_node: off whichever list the slab is on
pop_node(m, c, p) ==
  [m EXCEPT !.full[c] = Remove(@, p), !.partial[c] = Remove(@, p), !.empty[c] = Remove(@, p)]

ToFull(m, c, p) == [pop_node(m, c, p) EXCEPT !.full[c] = <<p>> \o @]
ToPartial(m, c, p) == [pop_node(m, c, p) EXCEPT !.partial[c] = <<p>> \o @]
ToEmpty(m, c, p) == [pop_node(m, c, p) EXCEPT !.empty[c] = <<p>> \o @]

Listed(m, p) == \E c \in Caches : p \in ToSet(m.full[c] \o m.partial[c] \o m.empty[c])

(* The descriptor of slab p of cache c can still be read: it lies in page  *)
(* p, which nobody has written since, or outside and is still allocated.   *)
Intact(m, c, p) ==
  /\ m.slab[p].cache = c
  /\ m.state[p] = "SLAB" \/ (m.state[p] = "FREE" /\ ~External(c))

slab_free_StaysFull(m, ptr) ==
  LET p  == PageOf(ptr)
      m1 == [m EXCEPT !.slab[p].freelist = <<ptr>> \o @, !.slab[p].inuse = @ - 1]
  IN  IF m1.slab[p].inuse = 0 THEN ToEmpty(m1, m.slab[p].cache, p) ELSE m1

slab_free_NoCount(m, ptr) ==
  [m EXCEPT !.slab[PageOf(ptr)].freelist = <<ptr>> \o @]

slab_free(m, ptr) ==
  LET p  == PageOf(ptr)
      c  == m.slab[p].cache
      n  == m.slab[p].inuse - 1
      m1 == [m EXCEPT !.slab[p].freelist = <<ptr>> \o @, !.slab[p].inuse = n]
  IN  CASE n = objects_per_slab(c) - 1 -> ToPartial(m1, c, p)
        [] n # objects_per_slab(c) - 1 /\ n = 0 -> ToEmpty(m1, c, p)
        [] OTHER -> m1

kfree_IgnoresSlabs(m, ptr) == buddy_free(m, PageOf(ptr))

\* kfree of a block in a free page does nothing
kfree(m, ptr) ==
  LET p == PageOf(ptr)
  IN  CASE m.state[p] = "SLAB" -> slab_free(m, ptr)
        [] m.state[p] = "ALLOCATED" -> buddy_free(m, p)
        [] m.state[p] = "FREE" -> m

(* slab_shrink_caches: the pages of the empty slabs are given back, and    *)
(* the external descriptors.  The lists are left as they are.              *)
slab_shrink_caches(m) ==
  LET ShrinkSlab(c, mm, p) ==
        IF mm.state[p] # "SLAB" \/ mm.slab[p].cache # c THEN Die(mm, "wild")
        ELSE LET given == buddy_free([mm EXCEPT !.state[p] = "ALLOCATED"], p)
             IN  IF External(c) THEN kfree(given, mm.slab[p].desc) ELSE given
      ShrinkCache(mm, c) == FoldLeft(LAMBDA a, p : ShrinkSlab(c, a, p), mm, mm.empty[c])
  IN  FoldLeft(ShrinkCache, m, [i \in 1 .. NCaches |-> i - 1])

\* The end of slab_create; a page that is still on a list ends on two lists
InstallSlab(m, c, p, desc) ==
  LET m1 == [m EXCEPT !.state[p] = "SLAB",
                      !.slab[p] = [cache |-> c, freelist |-> Objects(c, p), inuse |-> 0, desc |-> desc]]
  IN  IF Listed(m, p) THEN Die(m1, "wild") ELSE m1

RECURSIVE kmalloc(_, _)

(* slab_create: the heap and the page of the slab, or NULL.  Its           *)
(* descriptor lies in the page, or comes from kmalloc.                     *)
slab_create(m, c) ==
  LET b == buddy_alloc(m)
      d == kmalloc([b.m EXCEPT !.state[b.page] = "SLAB"], SlabHdr)
  IN  CASE b.page = NULL -> b
        [] b.page # NULL /\ ~External(c) ->
             [m |-> InstallSlab(b.m, c, b.page, NULL), page |-> b.page]
        [] b.page # NULL /\ External(c) ->
             IF d.ptr = NULL THEN [m |-> buddy_free(d.m, b.page), page |-> NULL]
             ELSE [m |-> InstallSlab(d.m, c, b.page, d.ptr), page |-> b.page]

\* slab_alloc from cache c: the heap and the object, or NULL
slab_alloc(m, c) ==
  LET Take(mm, p) ==
        IF ~Intact(mm, c, p) THEN [m |-> Die(mm, "wild"), ptr |-> NULL]
        ELSE LET m2 == [mm EXCEPT !.slab[p].freelist = Tail(@), !.slab[p].inuse = @ + 1]
             IN  [m   |-> IF m2.slab[p].freelist = <<>> THEN ToFull(m2, c, p) ELSE m2,
                  ptr |-> Head(mm.slab[p].freelist)]
      new == slab_create(m, c)
  IN  CASE m.partial[c] # <<>> -> Take(m, Head(m.partial[c]))
        [] m.partial[c] = <<>> /\ m.empty[c] # <<>> ->
             Take(ToPartial(m, c, Head(m.empty[c])), Head(m.empty[c]))
        [] OTHER -> IF new.page = NULL THEN [m |-> new.m, ptr |-> NULL]
                    ELSE Take(ToPartial(new.m, c, new.page), new.page)

\* get_allocation; what a large block held before is the client's to overwrite
get_allocation(m, n) ==
  LET b == buddy_alloc(m)
  IN  CASE size_to_cache_size(n) < NCaches -> slab_alloc(m, size_to_cache_size(n))
        [] size_to_cache_size(n) = NCaches /\ b.page = NULL -> [m |-> m, ptr |-> NULL]
        [] OTHER -> [m |-> [b.m EXCEPT !.slab[b.page] = NoSlab], ptr |-> b.page * PageSize]

try_alloc_with_reclaim(m, n) ==
  LET first == get_allocation(m, n)
  IN  IF first.ptr # NULL THEN first ELSE get_allocation(slab_shrink_caches(first.m), n)

\* kmalloc; the largest block is one page
kmalloc(m, n) ==
  IF n = 0 \/ n > PageSize THEN [m |-> m, ptr |-> NULL] ELSE try_alloc_with_reclaim(m, n)

ksize(m, ptr) ==
  CASE m.state[PageOf(ptr)] = "SLAB" -> cache_sizes(m.slab[PageOf(ptr)].cache)
    [] m.state[PageOf(ptr)] = "ALLOCATED" -> PageSize
    [] m.state[PageOf(ptr)] = "FREE" -> 0
-----------------------------------------------------------------------------
Kmalloc(n) ==
  /\ heap.dead = "" /\ Cardinality(live) < zone.live
  /\ LET r == kmalloc(heap, n)
     IN  /\ r.ptr # NULL
         /\ heap' = r.m /\ live' = live \cup {[ptr |-> r.ptr, size |-> n]}

KmallocFails(n) ==
  /\ heap.dead = "" /\ Cardinality(live) < zone.live
  /\ LET r == kmalloc(heap, n) IN r.ptr = NULL /\ heap' = r.m
  /\ live' = live

Kfree(l) ==
  /\ heap.dead = ""
  /\ heap' = kfree(heap, l.ptr) /\ live' = live \ {l}

Next ==
  /\ \/ \E n \in zone.sizes : Kmalloc(n)
     \/ \E n \in zone.sizes : KmallocFails(n)
     \/ \E l \in live : Kfree(l)
  /\ zone' = zone

Spec == Init /\ [][Next]_vars
-----------------------------------------------------------------------------
Used(p) == {l.ptr : l \in {k \in live : PageOf(k.ptr) = p}}
           \cup {heap.slab[q].desc : q \in {r \in Pages : heap.state[r] = "SLAB" /\ heap.slab[r].desc # NULL
                                                         /\ PageOf(heap.slab[r].desc) = p}}

(* Every slab page is on exactly one list of its cache, the one that its   *)
(* count of objects in use says: slab_alloc and slab_free move it when the *)
(* last object goes and when the first or the last comes back, by tests on *)
(* the free list in one function and on the counter in the other.          *)
SlabsListed ==
  \A p \in Pages, c \in Caches :
    LET n     == heap.slab[p].inuse
        Is(l) == Cardinality({i \in 1 .. Len(l) : l[i] = p})
        mine  == heap.state[p] = "SLAB" /\ heap.slab[p].cache = c
    IN  /\ Is(heap.full[c]) = (IF mine /\ n = objects_per_slab(c) THEN 1 ELSE 0)
        /\ Is(heap.partial[c]) = (IF mine /\ n \in 1 .. objects_per_slab(c) - 1 THEN 1 ELSE 0)
        /\ Is(heap.empty[c]) = (IF mine /\ n = 0 THEN 1 ELSE 0)

(* No object is lost or given twice: the objects of a slab are those on    *)
(* its free list and those in use, each once, and the ones in use are the  *)
(* clients' and the descriptors of external slabs that exist.              *)
ObjectsAccounted ==
  \A p \in Pages : heap.state[p] = "SLAB" =>
    LET s == heap.slab[p]
    IN  /\ IsInjective(s.freelist) /\ s.inuse = Cardinality(Used(p))
        /\ ToSet(s.freelist) \cap Used(p) = {}
        /\ ToSet(s.freelist) \cup Used(p) = ToSet(Objects(s.cache, p))

(* ksize, asked about a block that is held, answers at least what was      *)
(* asked for: the class kmalloc chooses is the one ksize reads back from   *)
(* the page, and bzero of the requested size stays inside the object.      *)
KsizeCovers == \A l \in live : ksize(heap, l.ptr) >= l.size

(* The kernel never ends in the allocator: buddy_free_block is only given  *)
(* blocks in the state it demands, "Attempt to free a page with invalid    *)
(* state" (buddy.c:265), and no list leads to memory used for other things.*)
NeverDies == heap.dead = ""

(* kmalloc gives up only when there is no free page and no free object of  *)
(* the class.                                                              *)
NoFalseRefusal ==
  \A n \in zone.sizes :
    (heap.dead = "" /\ n \in 1 .. PageSize /\ kmalloc(heap, n).ptr = NULL) =>
       /\ heap.free = {}
       /\ \A p \in Pages : ~(heap.state[p] = "SLAB" /\ heap.slab[p].cache = size_to_cache_size(n)
                             /\ heap.slab[p].freelist # <<>>)

(* What the slab lists, the pages and the clients say about each object    *)
(* agrees, in a zone that keeps pages and in one that runs out of them:    *)
(* the lists follow the counters, every object has one owner, kmalloc      *)
(* refuses only for want of memory, and the kernel never ends here.  The   *)
(* zones are those in which no empty slab is reclaimed, as what            *)
(* slab_shrink_caches leaves behind breaks NeverDies, and in which a slab  *)
(* that got its page also gets its external descriptor, as slab.c:94 gives *)
(* the page back in state SLAB otherwise, and buddy_free_block panics.     *)
SlabsSound == SlabsListed /\ ObjectsAccounted /\ KsizeCovers /\ NoFalseRefusal /\ NeverDies

(* Memory that a client holds is not free: the self test of the page       *)
(* allocator calls it an error when an "Allocated block (%p) is STILL      *)
(* present in free list" (buddy.c:425).                                    *)
HeldIsNotFree == \A l \in live : PageOf(l.ptr) \notin heap.free

\* The bytes a client may use are nobody else's: kmalloc is a range allocator
Promise == INSTANCE RangeAlloc WITH
             Arena <- PageSize .. (ZonePages + 1) * PageSize - 1,
             taken <- {l.ptr .. l.ptr + ksize(heap, l.ptr) - 1 : l \in live}
KeepsPromise == Promise!Spec
=============================================================================
