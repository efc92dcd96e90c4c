-------------------------------- MODULE Buddy --------------------------------
(***************************************************************************)
(* The buddy allocator of one zone (buddy.c).  Pages are numbered from the *)
(* base of the zone.  The page descriptors are pst (the state bits) and    *)
(* data (private_data); each order has a free list and a counter.  The     *)
(* allocator looks at the counter to choose a list, and at the descriptor  *)
(* of the buddy page to decide on a merge, never at the lists themselves.  *)
(*                                                                         *)
(* `held` is a history variable: the blocks that clients hold.  A client   *)
(* gives back only what it holds.  Handlers run with IF = 0, so a call is  *)
(* one action.                                                             *)
(***************************************************************************)
EXTENDS Integers, FiniteSetsExt, Lists

CONSTANTS NPages,      \* the pages of the zone, from its base
          MaxOrder,    \* MAX_ORDER
          Requests     \* the sizes clients ask for, in pages

ASSUME BuddyAssumptions ==
  /\ MaxOrder \in Nat /\ NPages \in Nat /\ NPages % 2^MaxOrder = 0
  /\ Requests \subseteq Nat

Page   == 0 .. NPages - 1
Orders == 0 .. MaxOrder
MAGIC  == -1                             \* PAGE_MAGIC, not an order

VARIABLES
  pst,       \* PAGE_GET_STATE: "RESERVED" (or a hole), "AVAILABLE", "FREE", "ALLOCATED"
  data,      \* private_data: the order in the first page of a block, else MAGIC
  free,      \* the free list of each order
  nr_free,   \* its counter
  boot,      \* the next page of the loop in buddy_init
  held       \* the blocks clients hold, as <<first page, order>>

vars == <<pst, data, free, nr_free, boot, held>>

Block(p, o) == p .. p + 2^o - 1

\* DIV_ROUND_UP is left to the caller: n is a number of pages
size_to_order(n) == {o \in Orders : n =< 2^o}

\* The offset from the base with bit o flipped
WHO_IS_MY_BUDDY(p, o) == IF (p \div 2^o) % 2 = 0 THEN p + 2^o ELSE p - 2^o

get_buddy_page_AnyOrder(b, o) == pst[b] = "FREE" /\ data[b] # MAGIC

(* Whether page b, the buddy of a block of order o, is free with this      *)
(* order.  The zones start and end on multiples of the largest block, and  *)
(* every page of a zone has a descriptor, so b is a page of the zone.      *)
get_buddy_page(b, o) == pst[b] = "FREE" /\ data[b] = o

StateSet_ShortByOne(s, p, o, new) ==
  [q \in Page |-> IF q \in p .. p + 2^o - 2 THEN new ELSE s[q]]

\* set_block_metadata, on the states s and on the private data d
StateSet(s, p, o, new) == [q \in Page |-> IF q \in Block(p, o) THEN new ELSE s[q]]

DataSet(d, p, o) ==
  [q \in Page |-> CASE q = p -> o [] q \in Block(p, o) \ {p} -> MAGIC [] OTHER -> d[q]]
-----------------------------------------------------------------------------
(* The states page_descriptor_init leaves: any page is available or not.   *)
Init ==
  /\ pst \in [Page -> {"RESERVED", "AVAILABLE"}]
  /\ data = [p \in Page |-> MAGIC]
  /\ free = [o \in Orders |-> <<>>]
  /\ nr_free = [o \in Orders |-> 0]
  /\ boot = 0
  /\ held = {}

\* The first page of the block once p, of order o, has been merged up to order k
Merged(p, o, k) == p - ((p % 2^k) - (p % 2^o))

MergeOrder_Once(p, o) ==
  IF o < MaxOrder /\ get_buddy_page(WHO_IS_MY_BUDDY(p, o), o) THEN o + 1 ELSE o

\* The order up to which the loop of buddy_free_block merges
MergeOrder(p, o) ==
  Max({k \in o .. MaxOrder :
         \A j \in o .. k - 1 : get_buddy_page(WHO_IS_MY_BUDDY(Merged(p, o, j), j), j)})

free_block_KeepsCount(p, o) ==
  LET k == MergeOrder(p, o)
      m == Merged(p, o, k)
  IN  /\ free' = [j \in Orders |->
                    CASE j \in o .. k - 1 -> Unlink(free[j], WHO_IS_MY_BUDDY(Merged(p, o, j), j))
                      [] j = k -> list_add_head(m, free[j])
                      [] OTHER -> free[j]]
      /\ nr_free' = [nr_free EXCEPT ![k] = @ + 1]
      /\ pst' = StateSet(pst, m, k, "FREE")
      /\ data' = DataSet(data, m, k)

(* The rest of buddy_free_block for block p of order o, once its checks    *)
(* have passed: each free buddy is taken off its list, and the merged      *)
(* block is put on the list of its order.                                  *)
free_block(p, o) ==
  LET k == MergeOrder(p, o)
      m == Merged(p, o, k)
  IN  /\ free' = [j \in Orders |->
                    CASE j \in o .. k - 1 -> Unlink(free[j], WHO_IS_MY_BUDDY(Merged(p, o, j), j))
                      [] j = k -> list_add_head(m, free[j])
                      [] OTHER -> free[j]]
      /\ nr_free' = [j \in Orders |->
                       CASE j \in o .. k - 1 -> nr_free[j] - 1
                         [] j = k -> nr_free[j] + 1
                         [] OTHER -> nr_free[j]]
      /\ pst' = StateSet(pst, m, k, "FREE")
      /\ data' = DataSet(data, m, k)

\* One turn of the loop of buddy_init
BootPage ==
  /\ boot < NPages
  /\ boot' = boot + 1
  /\ IF pst[boot] = "AVAILABLE" THEN free_block(boot, 0)
     ELSE UNCHANGED <<pst, data, free, nr_free>>
  /\ UNCHANGED held

Serving_ExactOnly(o) == {k \in {o} : nr_free[k] > 0}

\* The orders with a free block that can serve a request of order o
Serving(o) == {k \in o .. MaxOrder : nr_free[k] > 0}

DataSplit_Stale(b, o, c) == [DataSet(data, b, o) EXCEPT ![b] = o]

(* private_data once block b of order c is split down to order o           *)
(* (split_block_to_order), and the remaining block allocated               *)
DataSplit(b, o, c) ==
  [q \in Page |->
     CASE q = b -> o
       [] \E k \in o .. c - 1 : q = b + 2^k -> CHOOSE k \in o .. c - 1 : q = b + 2^k
       [] q \in Block(b, c) /\ q # b /\ (\A k \in o .. c - 1 : q # b + 2^k) -> MAGIC
       [] OTHER -> data[q]]

(* buddy_alloc_pages: the first block of the smallest order that has one   *)
(* is split, each upper half going to the head of the list of its order.   *)
Alloc(n) ==
  /\ boot = NPages /\ size_to_order(n) # {}
  /\ LET o == Min(size_to_order(n))
         c == Min(Serving(o))
         b == Head(free[c])
     IN  /\ Serving(o) # {}
         /\ free' = [k \in Orders |->
                       CASE k = c -> Tail(free[k])
                         [] k \in o .. c - 1 -> list_add_head(b + 2^k, free[k])
                         [] OTHER -> free[k]]
         /\ nr_free' = [k \in Orders |->
                          CASE k = c -> nr_free[k] - 1
                            [] k \in o .. c - 1 -> nr_free[k] + 1
                            [] OTHER -> nr_free[k]]
         /\ pst' = StateSet(StateSet(pst, b, c, "FREE"), b, o, "ALLOCATED")
         /\ data' = DataSplit(b, o, c)
         /\ held' = held \cup {<<b, o>>}
  /\ UNCHANGED boot

\* buddy_alloc_pages returns NULL.
AllocFails(n) ==
  /\ boot = NPages
  /\ size_to_order(n) # {} => Serving(Min(size_to_order(n))) = {}
  /\ UNCHANGED vars

(* buddy_free_block on a block a client holds; the order is read from the  *)
(* descriptor.  A free page, or a wrong order, would be a panic.           *)
Free(b) ==
  /\ pst[b[1]] \in {"ALLOCATED", "AVAILABLE"} /\ data[b[1]] \in Orders
  /\ free_block(b[1], data[b[1]])
  /\ held' = held \ {b}
  /\ UNCHANGED boot

Next ==
  \/ BootPage
  \/ \E n \in Requests : Alloc(n) \/ AllocFails(n)
  \/ \E b \in held : Free(b)

Spec == Init /\ [][Next]_vars
-----------------------------------------------------------------------------
\* The blocks on the free lists, as <<first page, order>>
FreeBlocks == UNION {Range(free[o]) \X {o} : o \in Orders}

(* The counters agree with the lists, so the panic "nr_free mismatch" of   *)
(* buddy_alloc_pages (buddy.c:244) is unreachable, and no block is twice   *)
(* on a list.                                                              *)
CountersExact ==
  \A o \in Orders : nr_free[o] = Len(free[o]) /\ IsInjective(free[o])

(* Memory is neither lost nor given away twice: after buddy_init the free  *)
(* blocks and the blocks clients hold are aligned, disjoint, and together  *)
(* all the pages that were available.                                      *)
NoPageLostOrShared ==
  LET All == FreeBlocks \cup held
  IN  /\ FreeBlocks \cap held = {}
      /\ \A b \in All : b[1] % 2^b[2] = 0
      /\ \A b, c \in All : b # c => Block(b[1], b[2]) \cap Block(c[1], c[2]) = {}
      /\ boot = NPages =>
           UNION {Block(b[1], b[2]) : b \in All} = {p \in Page : pst[p] # "RESERVED"}

(* The descriptors say exactly what the lists say: a page is FREE with the *)
(* order k if and only if it heads a block on the list of order k, and a   *)
(* held block can be given back, with its own order.  Merging relies on    *)
(* it, since it reads only the descriptor of the buddy.                    *)
DescriptorsMatch ==
  /\ \A p \in Page, o \in Orders :
       <<p, o>> \in FreeBlocks <=> (pst[p] = "FREE" /\ data[p] = o)
  /\ \A b \in held : pst[b[1]] = "ALLOCATED" /\ data[b[1]] = b[2]

(* Free memory is never fragmented more than its use requires: two buddies *)
(* are never both free.                                                    *)
FullyMerged ==
  \A b \in FreeBlocks :
    b[2] < MaxOrder => <<WHO_IS_MY_BUDDY(b[1], b[2]), b[2]>> \notin FreeBlocks

(* A request is refused only when no aligned run of free pages of its size *)
(* exists, however the free memory came about.                             *)
NoFalseRefusal ==
  boot = NPages =>
    \A o \in Orders : Serving(o) = {} =>
      \A p \in Page : p % 2^o = 0 => \E q \in Block(p, o) : pst[q] # "FREE"

(* The free lists, the counters, the descriptors and the clients' blocks   *)
(* say the same of every page, free memory is merged as far as it can be,  *)
(* and so a request is refused only for want of a free aligned run.        *)
BlocksSound ==
  CountersExact /\ NoPageLostOrShared /\ DescriptorsMatch /\ FullyMerged /\ NoFalseRefusal

(* The allocator implements PageAlloc, whose pages nobody holds are the    *)
(* available and the free ones.                                            *)
Promise == INSTANCE PageAlloc WITH
             avail <- {p \in Page : pst[p] \in {"AVAILABLE", "FREE"}}
KeepsPromise == Promise!Spec
=============================================================================
