------------------------------ MODULE VmaProofs -------------------------------
(***************************************************************************)
(* Proofs about module Vma, second part: every action keeps the inductive  *)
(* invariant, whatever fails in it.  Hence every frame has one owner, the  *)
(* list of areas tiles the range and agrees with the page tables, and the  *)
(* areas implement the abstract allocator of ranges.                       *)
(***************************************************************************)
EXTENDS VmaOpsProofs
-----------------------------------------------------------------------------
\* The nth page of an area that has so many lies in it.
LEMMA PageBytes ==
  ASSUME NEW a, a.start \in Nat, a.size \in Nat, a.start = FirstPage(a) * PageSize,
         NEW n \in Nat \ {0}, n * PageSize =< a.size
  PROVE  /\ PageOf(a, n) \in Nat /\ a.start =< PageOf(a, n) * PageSize
         /\ PageOf(a, n) * PageSize + PageSize =< a.start + a.size
<1>1. PICK p : p = FirstPage(a)
  BY Zenon
<1>2. p \in Nat /\ PageOf(a, n) = p + (n - 1) /\ PageSize \in Nat \ {0}
  BY <1>1, PageArithmetic, Zenon DEF FirstPage, PageOf
<1>3. (p + (n - 1)) * PageSize = p * PageSize + (n - 1) * PageSize
  BY <1>2, PageArithmetic
<1>4. (n - 1) * PageSize + PageSize = n * PageSize /\ (n - 1) * PageSize >= 0
  BY <1>2
<1>5. p * PageSize = a.start /\ (n - 1) * PageSize \in Int /\ n * PageSize \in Int
  BY <1>1, <1>2
<1>6. QED
  BY <1>2, <1>3, <1>4, <1>5

\* Pages of two entries, or two pages of one, are different.
LEMMA PagesDiffer ==
  ASSUME NEW al, Covers(al), NEW i \in 1 .. Len(al), NEW k \in 1 .. Len(al),
         NEW n \in Nat \ {0}, n * PageSize =< al[i].size,
         NEW j \in Nat \ {0}, j * PageSize =< al[k].size,
         PageOf(al[i], n) = PageOf(al[k], j)
  PROVE  i = k /\ n = j
<1>1. \A e \in 1 .. Len(al) : al[e].start \in Nat /\ al[e].size \in Nat /\ al[e].start = FirstPage(al[e]) * PageSize
  BY Entries, Zenon
<1>2. PICK p : p = PageOf(al[i], n)
  BY Zenon
<1>3. p \in Nat /\ al[i].start =< p * PageSize /\ p * PageSize + PageSize =< al[i].start + al[i].size
  BY <1>1, <1>2, PageBytes, Zenon
<1>4. al[k].start =< p * PageSize /\ p * PageSize + PageSize =< al[k].start + al[k].size
  BY <1>1, <1>2, PageBytes, SMTT(30)
<1>5. p * PageSize \in Int /\ PageSize \in Nat \ {0}
  BY <1>3, PageArithmetic
<1>6. i = k
  <2>1. i # k => \/ al[i].start + al[i].size =< al[k].start
                 \/ al[k].start + al[k].size =< al[i].start
    BY EntriesDiffer, Zenon
  <2>2. al[i].start \in Nat /\ al[i].size \in Nat /\ al[k].start \in Nat /\ al[k].size \in Nat
    BY <1>1, Zenon
  <2>3. PICK q : q = p * PageSize
    BY Zenon
  <2>4. q \in Int /\ q < al[i].start + al[i].size /\ al[i].start =< q
    <3>1. q \in Int /\ PageSize \in Nat \ {0} /\ al[i].start =< q /\ q + PageSize =< al[i].start + al[i].size
      BY <1>3, <1>5, <2>3, Zenon
    <3>2. QED
      BY <2>2, <3>1
  <2>5. q < al[k].start + al[k].size /\ al[k].start =< q
    <3>1. q \in Int /\ PageSize \in Nat \ {0} /\ al[k].start =< q /\ q + PageSize =< al[k].start + al[k].size
      BY <1>4, <1>5, <2>3, Zenon
    <3>2. QED
      BY <2>2, <3>1
  <2>6. QED
    BY <2>1, <2>2, <2>4, <2>5, SMTT(30)
<1>7. n = j
  <2>1. al[i].start \div PageSize \in Nat
    BY <1>1, PageArithmetic, Zenon
  <2>2. QED
    BY <1>6, <2>1 DEF PageOf
<1>8. QED
  BY <1>6, <1>7, Zenon

\* The areas in use have no page in common.
LEMMA UsedApart ==
  ASSUME client \in Clients, NEW al, Covers(al),
         \A a \in Used(al) : Len(a.pages) * PageSize = a.size
  PROVE  Apart(Used(al))
<1>1. ASSUME NEW a \in Used(al), NEW n \in 1 .. Len(a.pages)
      PROVE  \E i \in 1 .. Len(al) : a = al[i] /\ n \in Nat \ {0} /\ n * PageSize =< al[i].size
  <2>1. PICK i \in 1 .. Len(al) : a = al[i]
    BY Zenon DEF Used
  <2>2. Len(a.pages) \in Nat
    <3>1. a \in AreaSet
      BY <2>1, Entries, Zenon
    <3>2. QED
      BY <3>1 DEF AreaSet
  <2>3. n * PageSize =< Len(a.pages) * PageSize
    BY <2>2, PageArithmetic
  <2>4. QED
    BY <2>1, <2>2, <2>3
<1>2. ASSUME NEW a \in Used(al), NEW n \in 1 .. Len(a.pages)
      PROVE  PageOf(a, n) \in VPages
  <2>1. PICK i \in 1 .. Len(al) : a = al[i] /\ n \in Nat \ {0} /\ n * PageSize =< al[i].size
    BY <1>1, Zenon
  <2>2. PICK p : p = PageOf(a, n)
    BY Zenon
  <2>3. a.start \in Nat /\ a.size \in Nat /\ a.start = FirstPage(a) * PageSize
    BY <2>1, Entries, Zenon
  <2>4. p \in Nat /\ a.start =< p * PageSize /\ p * PageSize + PageSize =< a.start + a.size
    BY <2>1, <2>2, <2>3, PageBytes, Zenon
  <2>5. Start =< a.start /\ a.start + a.size =< End /\ Start \in Nat /\ End \in Nat
    BY <2>1, InRange, VmaAssumptions, Zenon DEF End
  <2>6. p * PageSize \in Int /\ PageSize \in Nat \ {0}
    BY <2>4, PageArithmetic
  <2>7. Start =< p * PageSize /\ p * PageSize < End
    BY <2>3, <2>4, <2>5, <2>6
  <2>8. QED
    BY <2>2, <2>4, <2>7, PageInRange, Zenon
<1>3. ASSUME NEW a \in Used(al), NEW b \in Used(al), NEW n \in 1 .. Len(a.pages), NEW k \in 1 .. Len(b.pages),
             PageOf(a, n) = PageOf(b, k)
      PROVE  a = b /\ n = k
  <2>1. PICK i \in 1 .. Len(al) : a = al[i] /\ n \in Nat \ {0} /\ n * PageSize =< al[i].size
    BY <1>1, Zenon
  <2>2. PICK j \in 1 .. Len(al) : b = al[j] /\ k \in Nat \ {0} /\ k * PageSize =< al[j].size
    BY <1>1, Zenon
  <2>3. i = j /\ n = k
    BY <1>3, <2>1, <2>2, PagesDiffer
  <2>4. QED
    BY <2>1, <2>2, <2>3, Zenon
<1>4. QED
  BY <1>2, <1>3, Zenon DEF Apart

\* No area in use starts where a free one does.
LEMMA HoleStart ==
  ASSUME NEW al, Covers(al), NEW i \in 1 .. Len(al), al[i].state = "FREE", NEW a \in Used(al)
  PROVE  a.start # al[i].start
<1>1. PICK k \in 1 .. Len(al) : a = al[k] /\ al[k].state # "FREE"
  BY Zenon DEF Used
<1>2. QED
  BY <1>1, EntriesDiffer, Zenon

\* An area in use is replaced by another that is.
Replaced(al, L, i, x) ==
  /\ Covers(L) /\ Merged(L) /\ Len(L) = Len(al) /\ L[i] = x
  /\ Used(L) = (Used(al) \ {al[i]}) \cup {x}

LEMMA EntryReplaced ==
  ASSUME NEW al, Covers(al), Merged(al), NEW i \in 1 .. Len(al),
         NEW x \in AreaSet, x.start = al[i].start, x.size = al[i].size, x.state # "FREE"
  PROVE  Replaced(al, [al EXCEPT ![i] = x], i, x)
<1>1. PICK L : L = [al EXCEPT ![i] = x]
  BY Zenon
<1>2. x.state = "FREE" => Blank(x)
  BY Zenon
<1>3. Changed(al, L, i, x)
  BY <1>1, <1>2, EntryChanged, Zenon
<1>4. /\ Covers(L) /\ Len(L) = Len(al) /\ L[i] = x
      /\ \A k \in 1 .. Len(al) : k # i => L[k] = al[k]
      /\ Used(L) = (Used(al) \ {al[i]}) \cup {a \in {x} : a.state # "FREE"}
  BY <1>3, Zenon DEF Changed
<1>5. Used(L) = (Used(al) \ {al[i]}) \cup {x}
  BY <1>4, Zenon
<1>6. Len(al) \in Nat \ {0}
  BY Entries, Zenon
<1>7. Merged(L)
  <2> SUFFICES ASSUME NEW k \in 1 .. Len(L) - 1
               PROVE  ~(L[k].state = "FREE" /\ L[k + 1].state = "FREE")
    BY Zenon DEF Merged, MergedBut
  <2>1. k \in 1 .. Len(al) /\ k + 1 \in 1 .. Len(al) /\ k \in 1 .. Len(al) - 1 /\ k # 0 /\ k + 1 # 0
    BY <1>4, <1>6
  <2>2. ~(al[k].state = "FREE" /\ al[k + 1].state = "FREE")
    BY <2>1, Zenon DEF Merged, MergedBut
  <2>3. QED
    BY <1>4, <2>1, <2>2, Zenon
<1>8. QED
  BY <1>1, <1>4, <1>5, <1>7, Zenon DEF Replaced
-----------------------------------------------------------------------------
\* Two records of one area hold the same slots.
LEMMA SameSlots ==
  ASSUME NEW U, NEW a, NEW b, a \notin U, a.pages = b.pages, a.start = b.start, NEW m,
         Owned(U \cup {a}, m), Mirrors(U \cup {a}, m)
  PROVE  Owned(U \cup {b}, m) /\ Mirrors(U \cup {b}, m)
<1>1. \A n : PageOf(b, n) = PageOf(a, n)
  BY Zenon DEF PageOf
<1>2. Owned(U \cup {b}, m)
  <2>1. \A c \in U \cup {b} : c.pages \in Seq(Frames \cup {NULL})
    BY Zenon DEF Owned
  <2>2. \A f \in Frames : f \in m.hi <=> \A c \in U \cup {b} : \A n \in 1 .. Len(c.pages) : c.pages[n] # f
    BY DEF Owned
  <2>3. ASSUME NEW c \in U \cup {b}, NEW e \in U \cup {b}, NEW n \in 1 .. Len(c.pages), NEW k \in 1 .. Len(e.pages),
               c.pages[n] = e.pages[k], c.pages[n] # NULL
        PROVE  c = e /\ n = k
    <3>1. CASE c = b /\ e = b
      BY <2>3, <3>1 DEF Owned
    <3>2. CASE c = b /\ e \in U
      BY <2>3, <3>2 DEF Owned
    <3>3. CASE c \in U /\ e = b
      BY <2>3, <3>3 DEF Owned
    <3>4. CASE c \in U /\ e \in U
      BY <2>3, <3>4 DEF Owned
    <3>5. QED
      BY <3>1, <3>2, <3>3, <3>4, Zenon
  <2>4. QED
    BY <2>1, <2>2, <2>3 DEF Owned
<1>3. Mirrors(U \cup {b}, m)
  <2>1. \A c \in U \cup {b} : \A n \in 1 .. Len(c.pages) : m.pte[PageOf(c, n)] = c.pages[n]
    BY <1>1 DEF Mirrors
  <2>2. \A p \in VPages : m.pte[p] # NULL => \E c \in U \cup {b} : \E n \in 1 .. Len(c.pages) : p = PageOf(c, n)
    BY <1>1 DEF Mirrors
  <2>3. QED
    BY <2>1, <2>2, Zenon DEF Mirrors
<1>4. QED
  BY <1>2, <1>3, Zenon

\* The free entries of a list have no pages.
LEMMA FreeHasNoPages ==
  ASSUME NEW al, Covers(al), NEW i \in 1 .. Len(al), al[i].state = "FREE"
  PROVE  al[i].pages = <<>> /\ al[i] \notin Used(al)
<1>1. al[i].pages = <<>>
  BY Zenon DEF Covers, Blank
<1>2. al[i] \notin Used(al)
  BY Zenon DEF Used
<1>3. QED
  BY <1>1, <1>2, Zenon

\* In a good list the areas are apart.
LEMMA GoodApart ==
  ASSUME client \in Clients, NEW al, NEW m, Good(al, m), al # <<>>
  PROVE  Apart(Used(al)) /\ Covers(al) /\ Merged(al)
<1>1. Covers(al) /\ Merged(al)
  BY Zenon DEF Good
<1>2. \A a \in Used(al) : Len(a.pages) * PageSize = a.size
  BY Zenon DEF Good, InUse
<1>3. QED
  BY <1>1, <1>2, UsedApart, Zenon

\* vfree and munmap: an area is freed and its memory released.
LEMMA FreeingGood ==
  ASSUME client \in Clients, NEW al, NEW m, Good(al, m), al # <<>>, NEW i \in 1 .. Len(al),
         NEW x \in AreaSet, x.start = al[i].start, x.size = al[i].size,
         x.state = "FREE", Blank(x)
  PROVE  /\ Good(vma_merge_area([al EXCEPT ![i] = x], i), ReleasePages(m, al[i]))
         /\ Used(vma_merge_area([al EXCEPT ![i] = x], i)) = Used(al) \ {al[i]}
<1>1. Apart(Used(al)) /\ Covers(al) /\ Merged(al)
  BY GoodApart, Zenon
<1>2. PICK L, U : L = vma_merge_area([al EXCEPT ![i] = x], i) /\ U = Used(al)
  BY Zenon
<1>3. Covers(L) /\ Merged(L) /\ Used(L) = U \ {al[i]}
  BY <1>1, <1>2, AreaFreed, Zenon
<1>4. Owned(U \ {al[i]}, ReleasePages(m, al[i])) /\ Mirrors(U \ {al[i]}, ReleasePages(m, al[i]))
  <2>1. Owned(U, m) /\ Mirrors(U, m)
    BY <1>2, Zenon DEF Good
  <2>2. CASE al[i].state = "FREE"
    <3>1. al[i].pages = <<>> /\ al[i] \notin U
      BY <1>1, <1>2, <2>2, FreeHasNoPages, Zenon
    <3>2. PICK A, B : A = {al[i]} /\ B = {}
      BY Zenon
    <3>3. B \subseteq A /\ \A a \in A \ B : a.pages = <<>>
      BY <3>1, <3>2, Zenon
    <3>4. ReleaseAll(m, A) = ReleaseAll(m, B)
      BY <3>3, ReleasedFree, Zenon
    <3>5. Owned(U \ B, ReleaseAll(m, B)) /\ Mirrors(U \ B, ReleaseAll(m, B))
      BY <1>1, <1>2, <2>1, <3>2, Released, Zenon
    <3>6. U \ B = U \ {al[i]}
      BY <3>1, <3>2, Zenon
    <3>7. QED
      BY <3>2, <3>4, <3>5, <3>6, Zenon DEF ReleasePages
  <2>3. CASE al[i].state # "FREE"
    <3>1. {al[i]} \subseteq U
      BY <1>2, <2>3, Zenon DEF Used
    <3>2. QED
      BY <1>1, <1>2, <2>1, <3>1, Released, Zenon DEF ReleasePages
  <2>4. QED
    BY <2>2, <2>3, Zenon
<1>5. \A a \in Used(L) : InUse(a)
  BY <1>2, <1>3, Zenon DEF Good
<1>6. QED
  BY <1>2, <1>3, <1>4, <1>5, Zenon DEF Good

\* Hole is a blank free area.
LEMMA HoleBlank ==
  ASSUME NEW s \in Nat, NEW n \in Nat \ {0}
  PROVE  /\ Hole(s, n) \in AreaSet /\ Hole(s, n).start = s /\ Hole(s, n).size = n
         /\ Hole(s, n).state = "FREE" /\ Blank(Hole(s, n))
         /\ \A g \in 0 .. 2 : [Hole(s, n) EXCEPT !.flags = g] =
              [state |-> "FREE", start |-> s, size |-> n, flags |-> g, nr |-> 0, pages |-> <<>>]
<1>1. <<>> \in Seq(Nat)
  BY EmptySeq, Zenon
<1>2. Hole(s, n) \in AreaSet
  BY <1>1 DEF Hole, AreaSet
<1>3. Hole(s, n).start = s /\ Hole(s, n).size = n /\ Hole(s, n).state = "FREE" /\ Blank(Hole(s, n))
  BY Zenon DEF Hole, Blank
<1>4. ASSUME NEW g \in 0 .. 2
      PROVE  [Hole(s, n) EXCEPT !.flags = g] =
               [state |-> "FREE", start |-> s, size |-> n, flags |-> g, nr |-> 0, pages |-> <<>>]
  BY DEF Hole
<1>5. QED
  BY <1>2, <1>3, <1>4, Zenon

\* A hole in the place of area a.
IsHole(h, a) == h \in AreaSet /\ h.start = a.start /\ h.size = a.size /\ h.state = "FREE" /\ Blank(h)

\* What vma_destroy_area puts in the list.
LEMMA DestroyIs ==
  ASSUME NEW al, Covers(al), NEW i \in 1 .. Len(al)
  PROVE  /\ vma_destroy_area(al, i) = vma_merge_area([al EXCEPT ![i] = Hole(al[i].start, al[i].size)], i)
         /\ IsHole(Hole(al[i].start, al[i].size), al[i])
<1>1. al[i].start \in Nat /\ al[i].size \in Nat \ {0}
  BY Entries, Zenon
<1>2. vma_destroy_area(al, i) = vma_merge_area([al EXCEPT ![i] = Hole(al[i].start, al[i].size)], i)
  BY Zenon DEF vma_destroy_area
<1>3. QED
  BY <1>1, <1>2, HoleBlank DEF IsHole

\* The new area of vma_alloc, before it is mapped.
Fresh(x, flags, nr) == [x EXCEPT !.nr = nr, !.flags = flags, !.pages = [n \in 1 .. nr |-> NULL]]
IsFresh(y, x, nr) ==
  /\ y \in AreaSet /\ y.state = x.state /\ y.start = x.start /\ y.size = x.size
  /\ y.nr = nr /\ Len(y.pages) = nr /\ Reserved(y)

LEMMA FreshIs ==
  ASSUME NEW x \in AreaSet, NEW flags \in 0 .. 2, NEW nr \in Nat
  PROVE  IsFresh(Fresh(x, flags, nr), x, nr)
<1>1. PICK g : g = [n \in 1 .. nr |-> NULL]
  BY Zenon
<1>2. g \in Seq(Nat) /\ Len(g) = nr /\ \A n \in 1 .. nr : g[n] = NULL
  BY <1>1 DEF NULL
<1>3. PICK y : y = Fresh(x, flags, nr)
  BY Zenon
<1>4. y = [x EXCEPT !.nr = nr, !.flags = flags, !.pages = g]
  BY <1>1, <1>3, Zenon DEF Fresh
<1>5. /\ y \in AreaSet /\ y.state = x.state /\ y.start = x.start /\ y.size = x.size /\ y.nr = nr
      /\ y.pages = g
  BY <1>2, <1>4, Zenon DEF AreaSet
<1>6. QED
  BY <1>2, <1>3, <1>5, Zenon DEF Reserved, IsFresh

(* vma_alloc on the hole at i: the list with the new area x in it, and the *)
(* list with the area destroyed again.                                     *)
Placed(al, m, L, i, x) ==
  /\ x \notin Used(al)
  /\ Covers(L) /\ Merged(L) /\ Used(L) = Used(al) \cup {x}
  /\ Good(vma_destroy_area(L, i), m) /\ Used(vma_destroy_area(L, i)) = Used(al)

LEMMA AreaPlaced ==
  ASSUME client \in Clients, NEW al, NEW m, Good(al, m), al # <<>>,
         NEW i \in 1 .. Len(al), al[i].state = "FREE",
         NEW n \in Nat \ {0}, ALIGN(n) =< al[i].size, NEW L, Divided(al, L, i, n),
         NEW x \in AreaSet, x.start = L[i].start, x.size = L[i].size, x.state # "FREE"
  PROVE  Placed(al, m, [L EXCEPT ![i] = x], i, x)
<1>1. Apart(Used(al)) /\ Covers(al) /\ Merged(al)
  BY GoodApart, Zenon
<1>2. /\ Covers(L) /\ Merged(L) /\ i \in 1 .. Len(L) /\ L[i].start = al[i].start
      /\ Used(L) = Used(al) \cup {L[i]} /\ L[i] \notin Used(al)
  BY Zenon DEF Divided
<1>3. x \notin Used(al)
  BY <1>1, <1>2, HoleStart, Zenon
<1>4. PICK E, D : E = [L EXCEPT ![i] = x] /\ D = vma_destroy_area(E, i)
  BY Zenon
<1>5. Replaced(L, E, i, x)
  BY <1>2, <1>4, EntryReplaced, Zenon
<1>6. /\ Covers(E) /\ Merged(E) /\ E[i] = x /\ i \in 1 .. Len(E)
      /\ Used(E) = (Used(L) \ {L[i]}) \cup {x}
  BY <1>2, <1>5, Zenon DEF Replaced
<1>7. Used(E) = Used(al) \cup {x}
  BY <1>2, <1>6, Zenon
<1>8. PICK h : h = Hole(E[i].start, E[i].size)
  BY Zenon
<1>9. D = vma_merge_area([E EXCEPT ![i] = h], i) /\ IsHole(h, E[i])
  BY <1>4, <1>6, <1>8, DestroyIs, Zenon
<1>10. Covers(D) /\ Merged(D) /\ Used(D) = Used(E) \ {E[i]}
  BY <1>6, <1>9, AreaFreed, Zenon DEF IsHole
<1>11. Used(D) = Used(al)
  BY <1>3, <1>6, <1>7, <1>10, Zenon
<1>12. Good(D, m)
  BY <1>10, <1>11, Zenon DEF Good
<1>13. QED
  BY <1>3, <1>4, <1>6, <1>7, <1>11, <1>12 DEF Placed

(* The outcomes of vma_alloc once there is a hole at i: L is the list that  *)
(* vma_split_area returns, y the new area, z the same as a lazy one.       *)
Outcomes(al, m, i, n, L, y, z, r) ==
  /\ Good(vma_destroy_area(L, i), m) /\ Used(vma_destroy_area(L, i)) = Used(al)
  /\ Good([L EXCEPT ![i] = z], m) /\ Used([L EXCEPT ![i] = z]) = Used(al) \cup {z}
  /\ z.start = al[i].start /\ z.size = ALIGN(n) /\ z \notin Used(al)
  /\ r.area.start = al[i].start /\ r.area.size = ALIGN(n) /\ r.area \notin Used(al)
  /\ r.ok => /\ Good([L EXCEPT ![i] = r.area], r.mem)
             /\ Used([L EXCEPT ![i] = r.area]) = Used(al) \cup {r.area}
  /\ Good(vma_destroy_area([L EXCEPT ![i] = r.area], i), ReleasePages(r.mem, r.area))
  /\ Used(vma_destroy_area([L EXCEPT ![i] = r.area], i)) = Used(al)

\* Each of them is good.
LEMMA AllocGood ==
  ASSUME client \in Clients, NEW al, NEW m, Good(al, m), al # <<>>,
         NEW i \in 1 .. Len(al), al[i].state = "FREE",
         NEW n \in Nat \ {0}, ALIGN(n) =< al[i].size, NEW flags \in 0 .. 2, NEW y,
         y = Fresh(vma_split_area(al, i, n)[i], flags, DIV_ROUND_UP(n, PageSize))
  PROVE  Outcomes(al, m, i, n, vma_split_area(al, i, n), y, [y EXCEPT !.state = "LAZY"], vma_map_area(m, y))
<1>0. PICK L, z, r : L = vma_split_area(al, i, n) /\ z = [y EXCEPT !.state = "LAZY"] /\ r = vma_map_area(m, y)
  BY Zenon
<1>1. Apart(Used(al)) /\ Covers(al) /\ Merged(al)
  BY GoodApart, Zenon
<1>2. Divided(al, L, i, n)
  BY <1>0, <1>1, AreaSplit, Zenon
<1>3. /\ Covers(L) /\ Merged(L) /\ i \in 1 .. Len(L) /\ L[i] \in AreaSet
      /\ L[i].state = "ALLOCATED" /\ L[i].start = al[i].start /\ L[i].size = ALIGN(n)
  BY <1>2, Zenon DEF Divided
<1>4. PICK nr : nr = DIV_ROUND_UP(n, PageSize)
  BY Zenon
<1>5. nr \in Nat \ {0} /\ ALIGN(n) = nr * PageSize
  BY <1>4, RoundedUp, Zenon
<1>6. /\ y \in AreaSet /\ y.state = "ALLOCATED" /\ y.start = al[i].start /\ y.size = ALIGN(n)
      /\ y.nr = nr /\ Len(y.pages) = nr /\ Reserved(y)
  <2>1. IsFresh(y, L[i], nr)
    BY <1>0, <1>3, <1>4, <1>5, FreshIs, Zenon
  <2>2. QED
    BY <1>3, <2>1, Zenon DEF IsFresh
<1>7. /\ z \in AreaSet /\ z.state = "LAZY" /\ z.start = y.start /\ z.size = y.size
      /\ z.nr = nr /\ z.pages = y.pages
  BY <1>0, <1>6, Zenon DEF AreaSet
<1>8. Reserved(z)
  BY <1>6, <1>7, Zenon DEF Reserved
<1>9. Owned(Used(al), m) /\ Mirrors(Used(al), m) /\ \A a \in Used(al) : InUse(a)
  BY Zenon DEF Good
<1>10. ASSUME NEW x \in AreaSet, x.start = L[i].start, x.size = L[i].size, x.state # "FREE", Len(x.pages) = nr
       PROVE  Apart(Used(al) \cup {x})
  <2>2. PICK E : E = [L EXCEPT ![i] = x]
    BY Zenon
  <2>0. Placed(al, m, E, i, x)
    BY <1>2, <1>10, <2>2, AreaPlaced, Zenon
  <2>1. Covers(E) /\ Used(E) = Used(al) \cup {x}
    BY <2>0, Zenon DEF Placed
  <2>3. \A a \in Used(E) : Len(a.pages) * PageSize = a.size
    BY <1>3, <1>5, <1>9, <1>10, <2>1, Zenon DEF InUse
  <2>4. QED
    BY <2>1, <2>3, UsedApart, Zenon
<1>11. PICK e : e = L[i]
  BY Zenon
<1>12. Good(vma_destroy_area(L, i), m) /\ Used(vma_destroy_area(L, i)) = Used(al)
  <2>1. [L EXCEPT ![i] = e] = L
    <3>1. L \in Seq(AreaSet)
      BY <1>3, Entries, Zenon
    <3>2. QED
      BY <1>3, <1>11, <3>1
  <2>2. Good(vma_destroy_area([L EXCEPT ![i] = e], i), m) /\ Used(vma_destroy_area([L EXCEPT ![i] = e], i)) = Used(al)
    BY <1>2, <1>3, <1>11, AreaPlaced DEF Placed
  <2>3. QED
    BY <2>1, <2>2, Zenon
<1>13. Good([L EXCEPT ![i] = z], m) /\ Used([L EXCEPT ![i] = z]) = Used(al) \cup {z} /\ z \notin Used(al)
  <2>1. PICK E : E = [L EXCEPT ![i] = z]
    BY Zenon
  <2>2. z \notin Used(al) /\ Covers(E) /\ Merged(E) /\ Used(E) = Used(al) \cup {z}
    <3>1. Placed(al, m, E, i, z)
      BY <1>2, <1>3, <1>6, <1>7, <2>1, AreaPlaced, Zenon
    <3>2. QED
      BY <3>1, Zenon DEF Placed
  <2>3. Apart(Used(al) \cup {z})
    BY <1>3, <1>6, <1>7, <1>10, Zenon
  <2>4. Owned(Used(al) \cup {z}, m) /\ Mirrors(Used(al) \cup {z}, m)
    BY <1>8, <1>9, <2>2, <2>3, ReservedAdded
  <2>5. InUse(z)
    BY <1>5, <1>6, <1>7, <1>8, Zenon DEF InUse, Reserved
  <2>6. QED
    BY <1>9, <2>1, <2>2, <2>4, <2>5, Zenon DEF Good
<1>14. y \notin Used(al)
  BY <1>1, <1>6, HoleStart, Zenon
<1>15. Apart(Used(al) \cup {y})
  BY <1>3, <1>6, <1>10, Zenon
<1>16. MapResult(Used(al), m, y, r)
  BY <1>0, <1>6, <1>9, <1>14, <1>15, AreaMapped
<1>17. PICK b, s : b = r.area /\ s = r.mem
  BY Zenon
<1>18. /\ b \in AreaSet /\ Len(b.pages) = nr /\ b.state = "ALLOCATED" /\ b.start = L[i].start /\ b.size = L[i].size
       /\ b.nr = nr /\ Owned(Used(al) \cup {b}, s) /\ ReleasePages(s, b) = m
       /\ r.ok => Mirrors(Used(al) \cup {b}, s) /\ \A k \in 1 .. nr : b.pages[k] \in Frames
  BY <1>3, <1>6, <1>16, <1>17, Zenon DEF MapResult
<1>19. PICK E : E = [L EXCEPT ![i] = b]
  BY Zenon
<1>20. /\ b \notin Used(al) /\ Covers(E) /\ Merged(E) /\ Used(E) = Used(al) \cup {b}
       /\ Good(vma_destroy_area(E, i), m) /\ Used(vma_destroy_area(E, i)) = Used(al)
  <2>1. Placed(al, m, E, i, b)
    BY <1>2, <1>18, <1>19, AreaPlaced, Zenon
  <2>2. QED
    BY <2>1, Zenon DEF Placed
<1>21. r.ok => Good(E, s)
  <2>1. r.ok => InUse(b)
    BY <1>3, <1>5, <1>18, Zenon DEF InUse
  <2>2. QED
    BY <1>9, <1>18, <1>20, <2>1, Zenon DEF Good
<1>22. QED
  BY <1>0, <1>3, <1>6, <1>7, <1>12, <1>13, <1>17, <1>18, <1>19, <1>20, <1>21 DEF Outcomes

\* A page fault in the lazy area at i: it is mapped, or half mapped.
FaultOutcomes(al, m, i, r, x, L, H) ==
  /\ r.ok => Good(L, r.mem)
  /\ Covers(H) /\ Merged(H) /\ Owned(Used(H), r.mem)
  /\ x.start = al[i].start /\ x.size = al[i].size /\ Used(L) = (Used(al) \ {al[i]}) \cup {x}
  /\ r.area.start = al[i].start /\ r.area.size = al[i].size /\ Used(H) = (Used(al) \ {al[i]}) \cup {r.area}

LEMMA FaultGood ==
  ASSUME client \in Clients, NEW al, NEW m, Good(al, m), al # <<>>,
         NEW i \in 1 .. Len(al), al[i].state = "LAZY", NEW r, r = vma_map_area(m, al[i]),
         NEW x, x = [r.area EXCEPT !.state = "ALLOCATED"]
  PROVE  FaultOutcomes(al, m, i, r, x, [al EXCEPT ![i] = x], [al EXCEPT ![i] = r.area])
<1>1. Apart(Used(al)) /\ Covers(al) /\ Merged(al)
  BY GoodApart, Zenon
<1>2. PICK a, U : a = al[i] /\ U = Used(al) \ {al[i]}
  BY Zenon
<1>3. a \in Used(al) /\ a \in AreaSet /\ InUse(a) /\ U \cup {a} = Used(al) /\ a \notin U
  <2>1. a \in Used(al)
    BY <1>2, Zenon DEF Used
  <2>2. a \in AreaSet
    BY <1>1, <1>2, Entries, Zenon
  <2>3. QED
    BY <1>2, <2>1, <2>2, Zenon DEF Good
<1>4. Reserved(a)
  BY <1>2, <1>3, Zenon DEF Reserved, InUse
<1>5. Owned(U, m) /\ Mirrors(U, m)
  <2>1. Owned(Used(al), m) /\ Mirrors(Used(al), m)
    BY Zenon DEF Good
  <2>2. QED
    BY <1>2, <1>3, <1>4, <2>1, ReservedRemoved, Zenon
<1>6. MapResult(U, m, a, r)
  BY <1>1, <1>2, <1>3, <1>4, <1>5, AreaMapped
<1>7. PICK b, s : b = r.area /\ s = r.mem
  BY Zenon
<1>8. /\ b \in AreaSet /\ b.state = "LAZY" /\ b.start = a.start /\ b.size = a.size /\ b.nr = a.nr
      /\ Len(b.pages) = Len(a.pages) /\ Owned(U \cup {b}, s)
      /\ r.ok => Mirrors(U \cup {b}, s) /\ \A k \in 1 .. Len(a.pages) : b.pages[k] \in Frames
  BY <1>2, <1>6, <1>7, Zenon DEF MapResult
<1>9. /\ x \in AreaSet /\ x.state = "ALLOCATED" /\ x.start = a.start /\ x.size = a.size /\ x.nr = a.nr
      /\ x.pages = b.pages
  BY <1>7, <1>8, Zenon DEF AreaSet
<1>10. PICK L, H : L = [al EXCEPT ![i] = x] /\ H = [al EXCEPT ![i] = b]
  BY Zenon
<1>11. Covers(L) /\ Merged(L) /\ Used(L) = U \cup {x}
  <2>1. Replaced(al, L, i, x)
    BY <1>1, <1>2, <1>9, <1>10, EntryReplaced
  <2>2. QED
    BY <1>2, <2>1, Zenon DEF Replaced
<1>12. Covers(H) /\ Merged(H) /\ Used(H) = U \cup {b}
  <2>1. Replaced(al, H, i, b)
    BY <1>1, <1>2, <1>8, <1>10, EntryReplaced
  <2>2. QED
    BY <1>2, <2>1, Zenon DEF Replaced
<1>13. b \notin U
  <2> SUFFICES ASSUME NEW k \in 1 .. Len(al), al[k] # al[i] PROVE al[k] # b
    BY <1>2, Zenon DEF Used
  <2>1. k # i
    BY Zenon
  <2>2. al[k].start # al[i].start
    BY <1>1, <2>1, EntriesDiffer, Zenon
  <2>3. QED
    BY <1>2, <1>8, <2>2, Zenon
<1>14. r.ok => Good(L, s)
  <2> SUFFICES ASSUME r.ok PROVE Good(L, s)
    BY Zenon
  <2>1. Owned(U \cup {x}, s) /\ Mirrors(U \cup {x}, s)
    <3>1. /\ Owned(U \cup {b}, s) /\ Mirrors(U \cup {b}, s)
          /\ b.pages = x.pages /\ b.start = x.start
      BY <1>8, <1>9, Zenon
    <3>2. QED
      BY <1>13, <3>1, SameSlots
  <2>2. InUse(x)
    BY <1>3, <1>8, <1>9, Zenon DEF InUse
  <2>3. \A c \in U : InUse(c)
    BY <1>2, Zenon DEF Good
  <2>4. QED
    BY <1>11, <2>1, <2>2, <2>3, Zenon DEF Good
<1>15. QED
  BY <1>2, <1>7, <1>8, <1>9, <1>10, <1>11, <1>12, <1>14 DEF FaultOutcomes

\* exit: every area is released.
LEMMA ExitGood ==
  ASSUME client \in Clients, NEW al, NEW m, Good(al, m), al # <<>>
  PROVE  Good(<<>>, ReleaseAll(m, Range(al)))
<1>1. Apart(Used(al)) /\ Covers(al) /\ Merged(al)
  BY GoodApart, Zenon
<1>2. PICK A, U : A = Range(al) /\ U = Used(al)
  BY Zenon
<1>3. A = {al[k] : k \in 1 .. Len(al)}
  <2>1. DOMAIN al = 1 .. Len(al)
    BY <1>1, Entries
  <2>2. QED
    BY <1>2, <2>1, Zenon DEF Range
<1>4. U \subseteq A /\ \A a \in A \ U : a.pages = <<>>
  <2>1. U \subseteq A
    BY <1>2, <1>3, Zenon DEF Used
  <2>2. ASSUME NEW a \in A \ U PROVE a.pages = <<>>
    <3>1. PICK k \in 1 .. Len(al) : a = al[k]
      BY <1>3, Zenon
    <3>2. al[k].state = "FREE"
      BY <1>2, <3>1, Zenon DEF Used
    <3>3. QED
      BY <1>1, <3>1, <3>2, FreeHasNoPages, Zenon
  <2>3. QED
    BY <2>1, <2>2, Zenon
<1>5. ReleaseAll(m, A) = ReleaseAll(m, U)
  BY <1>4, ReleasedFree, Zenon
<1>6. Owned(U \ U, ReleaseAll(m, U)) /\ Mirrors(U \ U, ReleaseAll(m, U))
  BY <1>1, <1>2, Released, Zenon DEF Good
<1>7. Used(<<>>) = U \ U
  BY DEF Used
<1>8. QED
  BY <1>2, <1>5, <1>6, <1>7, Zenon DEF Good

\* vma_init_area: one hole.
LEMMA CreateGood ==
  ASSUME client \in Clients, NEW m, Good(<<>>, m)
  PROVE  Good(<<Hole(Start, End - Start)>>, m) /\ Used(<<Hole(Start, End - Start)>>) = {}
<1>1. Start \in Nat /\ End \in Nat /\ End - Start \in Nat \ {0} /\ Start % PageSize = 0
  BY VmaAssumptions DEF End
<1>2. PICK h, L : h = Hole(Start, End - Start) /\ L = <<h>>
  BY Zenon
<1>3. h \in AreaSet /\ h.start = Start /\ h.size = End - Start /\ h.state = "FREE" /\ Blank(h)
  <2>1. PICK n : n = End - Start
    BY Zenon
  <2>2. n \in Nat \ {0} /\ h = Hole(Start, n)
    BY <1>1, <1>2, <2>1, Zenon
  <2>3. /\ Hole(Start, n) \in AreaSet /\ Hole(Start, n).start = Start /\ Hole(Start, n).size = n
        /\ Hole(Start, n).state = "FREE" /\ Blank(Hole(Start, n))
    BY <1>1, <2>2, HoleBlank, Zenon
  <2>4. QED
    BY <2>1, <2>2, <2>3, Zenon
<1>4. L \in Seq(AreaSet) /\ Len(L) = 1 /\ L[1] = h /\ L # <<>>
  BY <1>2, <1>3
<1>5. Start = (Start \div PageSize) * PageSize
  BY <1>1, PageArithmetic
<1>6. Covers(L)
  BY <1>1, <1>3, <1>4, <1>5 DEF Covers, FirstPage
<1>7. Merged(L)
  BY <1>4 DEF Merged, MergedBut
<1>8. Used(L) = {} /\ Used(<<>>) = {}
  BY <1>3, <1>4 DEF Used
<1>9. QED
  BY <1>2, <1>6, <1>7, <1>8, Zenon DEF Good

\* How the areas in use change in one step.
Moves(U, V) ==
  \/ V = U
  \/ V = {}
  \/ \E a \in U : V = U \ {a}
  \/ \E x : x \notin U /\ V = U \cup {x}
  \/ \E a \in U : \E x : x.start = a.start /\ x.size = a.size /\ V = (U \ {a}) \cup {x}

Reached(al, m, L, s) == Good(L, s) /\ Moves(Used(al), Used(L))

\* vma_alloc chooses a free area that is in the list.
LEMMA ChosenFree ==
  ASSUME NEW n, NEW hint, Candidates(n, hint) # {}
  PROVE  /\ areas # <<>> /\ Min(Candidates(n, hint)) \in 1 .. Len(areas)
         /\ areas[Min(Candidates(n, hint))].state = "FREE"
<1>1. Candidates(n, hint) \subseteq {k \in 1 .. Len(areas) : areas[k].state = "FREE"}
  BY Zenon DEF Candidates, find_by_start, first_fit
<1>2. Candidates(n, hint) \in SUBSET Nat
  BY <1>1
<1>3. Min(Candidates(n, hint)) \in Candidates(n, hint)
  BY <1>2, MinIs, Zenon
<1>4. areas # <<>>
  BY <1>1
<1>5. QED
  BY <1>1, <1>3, <1>4, Zenon

\* A call of vma_alloc, whichever way it ends.
LEMMA AllocStep ==
  ASSUME client \in Clients, Good(areas, mem), NEW n \in Nat \ {0}, NEW flags \in 0 .. 2,
         NEW hint, NEW eager \in BOOLEAN, NEW okPages \in BOOLEAN,
         vma_alloc(n, flags, hint, eager, okPages)
  PROVE  Reached(areas, mem, areas', mem') /\ panic' = panic
<1>1. PICK i : i = Min(Candidates(n, hint))
  BY Zenon
<1>2. /\ areas # <<>> /\ i \in 1 .. Len(areas) /\ areas[i].state = "FREE"
  BY <1>1, ChosenFree, Zenon DEF vma_alloc
<1>3. PICK L, y : /\ L = vma_split_area(areas, i, n)
                  /\ y = Fresh(L[i], flags, DIV_ROUND_UP(n, PageSize))
  BY Zenon
<1>4. PICK z, t : z = [y EXCEPT !.state = "LAZY"] /\ t = vma_map_area(mem, y)
  BY Zenon
<1>5. PICK r : r = IF eager THEN t ELSE [ok |-> TRUE, area |-> z, mem |-> mem]
  BY Zenon
<1>6. /\ Fits(i, n) /\ panic' = panic
      /\ CASE ~okPages -> areas' = vma_destroy_area(L, i) /\ mem' = mem
           [] okPages /\ r.ok -> areas' = [L EXCEPT ![i] = r.area] /\ mem' = r.mem
           [] OTHER -> /\ areas' = vma_destroy_area([L EXCEPT ![i] = r.area], i)
                       /\ mem' = ReleasePages(r.mem, r.area)
  BY <1>1, <1>3, <1>4, <1>5, Zenon DEF vma_alloc, Fresh
<1>7. Outcomes(areas, mem, i, n, L, y, z, t)
  <2>1. ALIGN(n) =< areas[i].size
    BY <1>6, Zenon DEF Fits
  <2>2. y = Fresh(vma_split_area(areas, i, n)[i], flags, DIV_ROUND_UP(n, PageSize))
    BY <1>3, Zenon
  <2>3. QED
    BY <1>2, <1>3, <1>4, <2>1, <2>2, AllocGood, Zenon
<1>8. CASE ~okPages
  <2>1. areas' = vma_destroy_area(L, i) /\ mem' = mem
    BY <1>6, <1>8, Zenon
  <2>2. QED
    BY <1>6, <1>7, <2>1, Zenon DEF Outcomes, Reached, Moves
<1>9. CASE okPages /\ r.ok
  <2>1. areas' = [L EXCEPT ![i] = r.area] /\ mem' = r.mem
    BY <1>6, <1>9, Zenon
  <2>2. CASE eager
    <3>1. r = t
      BY <1>5, <2>2, Zenon
    <3>2. Good(areas', mem') /\ Used(areas') = Used(areas) \cup {t.area} /\ t.area \notin Used(areas)
      BY <1>7, <1>9, <2>1, <3>1, Zenon DEF Outcomes
    <3>3. QED
      BY <1>6, <3>2, Zenon DEF Reached, Moves
  <2>3. CASE ~eager
    <3>1. r.area = z /\ r.mem = mem
      BY <1>5, <2>3, Zenon
    <3>2. Good(areas', mem') /\ Used(areas') = Used(areas) \cup {z} /\ z \notin Used(areas)
      BY <1>7, <1>9, <2>1, <3>1, Zenon DEF Outcomes
    <3>3. QED
      BY <1>6, <3>2, Zenon DEF Reached, Moves
  <2>4. QED
    BY <2>2, <2>3, Zenon
<1>10. CASE okPages /\ ~r.ok
  <2>1. /\ areas' = vma_destroy_area([L EXCEPT ![i] = r.area], i)
        /\ mem' = ReleasePages(r.mem, r.area)
    BY <1>6, <1>10, Zenon
  <2>2. r = t
    BY <1>5, <1>10, Zenon
  <2>3. Good(areas', mem') /\ Used(areas') = Used(areas)
    BY <1>7, <2>1, <2>2, Zenon DEF Outcomes
  <2>4. QED
    BY <1>6, <2>3, Zenon DEF Reached, Moves
<1>11. QED
  BY <1>8, <1>9, <1>10, Zenon

\* munmap and vfree.
LEMMA FreeStep ==
  ASSUME client \in Clients, Good(areas, mem), areas # <<>>, NEW i \in 1 .. Len(areas),
         NEW h, IsHole(h, areas[i]), areas' = vma_merge_area([areas EXCEPT ![i] = h], i),
         mem' = ReleasePages(mem, areas[i])
  PROVE  Reached(areas, mem, areas', mem')
<1>1. Good(areas', mem') /\ Used(areas') = Used(areas) \ {areas[i]}
  BY FreeingGood, Zenon DEF IsHole
<1>2. QED
  BY <1>1, Zenon DEF Reached, Moves

LEMMA MunmapStep ==
  ASSUME client \in Clients, Good(areas, mem), NEW a, munmap(a)
  PROVE  Reached(areas, mem, areas', mem') /\ panic' = panic
<1>1. PICK i \in find_by_start(a) : /\ areas' = vma_destroy_area(areas, i)
                                    /\ mem' = ReleasePages(mem, areas[i]) /\ panic' = panic
  BY Zenon DEF munmap
<1>2. areas # <<>> /\ i \in 1 .. Len(areas)
  BY DEF find_by_start
<1>3. Covers(areas)
  BY <1>2, Zenon DEF Good
<1>4. PICK h : h = Hole(areas[i].start, areas[i].size)
  BY Zenon
<1>5. vma_destroy_area(areas, i) = vma_merge_area([areas EXCEPT ![i] = h], i) /\ IsHole(h, areas[i])
  BY <1>2, <1>3, <1>4, DestroyIs, Zenon
<1>6. QED
  BY <1>1, <1>2, <1>5, FreeStep, Zenon

LEMMA VfreeStep ==
  ASSUME client \in Clients, client # "task", Good(areas, mem), NEW i \in 1 .. Len(areas), vfree(i)
  PROVE  Reached(areas, mem, areas', mem') /\ panic' = panic
<1>1. areas # <<>>
  OBVIOUS
<1>2. Covers(areas)
  BY <1>1, Zenon DEF Good
<1>3. areas[i].start \in Nat /\ areas[i].size \in Nat \ {0} /\ areas[i].flags \in 0 .. 2
  <2>1. areas[i] \in AreaSet
    BY <1>2, Entries, Zenon
  <2>2. QED
    BY <2>1, Zenon DEF AreaSet
<1>4. PICK s, n, g, h : /\ s = areas[i].start /\ n = areas[i].size /\ g = areas[i].flags
                        /\ h = [Hole(s, n) EXCEPT !.flags = g]
  BY Zenon
<1>5. h = [state |-> "FREE", start |-> s, size |-> n, flags |-> g, nr |-> 0, pages |-> <<>>]
  <2>1. s \in Nat /\ n \in Nat \ {0} /\ g \in 0 .. 2
    BY <1>3, <1>4, Zenon
  <2>2. \A f \in 0 .. 2 : [Hole(s, n) EXCEPT !.flags = f] =
          [state |-> "FREE", start |-> s, size |-> n, flags |-> f, nr |-> 0, pages |-> <<>>]
    BY <2>1, HoleBlank, Zenon
  <2>3. QED
    BY <1>4, <2>1, <2>2, Zenon
<1>6. IsHole(h, areas[i])
  <2>1. <<>> \in Seq(Nat)
    BY EmptySeq, Zenon
  <2>2. h \in AreaSet
    <3>1. s \in Nat /\ n \in Nat \ {0} /\ g \in 0 .. 2
      BY <1>3, <1>4, Zenon
    <3>2. QED
      BY <1>5, <2>1, <3>1, Zenon DEF AreaSet
  <2>3. h.start = s /\ h.size = n /\ h.state = "FREE" /\ h.nr = 0 /\ h.pages = <<>>
    BY <1>5, Zenon
  <2>4. QED
    BY <1>4, <2>2, <2>3, Zenon DEF IsHole, Blank
<1>7. /\ areas' = vma_merge_area([areas EXCEPT ![i] = h], i)
      /\ mem' = ReleasePages(mem, areas[i]) /\ panic' = panic
  BY <1>4, Zenon DEF vfree
<1>8. QED
  BY <1>1, <1>6, <1>7, FreeStep, Zenon

\* A page fault: a good state, or the panic with the lazy area half mapped.
LEMMA FaultStep ==
  ASSUME client \in Clients, Good(areas, mem), panic = "", areas # <<>>, NEW a, PageFault(a)
  PROVE  /\ \/ Good(areas', mem')
            \/ /\ panic' = "Failed to map lazy VM area"
               /\ Covers(areas') /\ Merged(areas') /\ Owned(Used(areas'), mem')
         /\ Moves(Used(areas), Used(areas'))
<1>1. CASE UNCHANGED <<areas, mem>>
  BY <1>1, Zenon DEF Moves
<1>2. CASE \E i \in find_by_addr(a) :
             /\ areas[i].state = "LAZY"
             /\ LET r == vma_map_area(mem, areas[i])
                IN  /\ mem' = r.mem
                    /\ areas' = [areas EXCEPT ![i] = IF r.ok THEN [r.area EXCEPT !.state = "ALLOCATED"]
                                                     ELSE r.area]
                    /\ panic' = IF r.ok THEN "" ELSE "Failed to map lazy VM area"
  <2>1. PICK i \in find_by_addr(a) :
             /\ areas[i].state = "LAZY"
             /\ LET r == vma_map_area(mem, areas[i])
                IN  /\ mem' = r.mem
                    /\ areas' = [areas EXCEPT ![i] = IF r.ok THEN [r.area EXCEPT !.state = "ALLOCATED"]
                                                     ELSE r.area]
                    /\ panic' = IF r.ok THEN "" ELSE "Failed to map lazy VM area"
    BY <1>2, Zenon
  <2>2. i \in 1 .. Len(areas)
    BY Zenon DEF find_by_addr
  <2>3. PICK r, x : r = vma_map_area(mem, areas[i]) /\ x = [r.area EXCEPT !.state = "ALLOCATED"]
    BY Zenon
  <2>4. PICK L, H : L = [areas EXCEPT ![i] = x] /\ H = [areas EXCEPT ![i] = r.area]
    BY Zenon
  <2>5. /\ mem' = r.mem
        /\ r.ok => areas' = L
        /\ ~r.ok => areas' = H /\ panic' = "Failed to map lazy VM area"
    BY <2>1, <2>3, <2>4, Zenon
  <2>6. FaultOutcomes(areas, mem, i, r, x, L, H)
    BY <2>1, <2>2, <2>3, <2>4, FaultGood, Zenon
  <2>7. areas[i] \in Used(areas)
    BY <2>1, <2>2, Zenon DEF Used
  <2>8. CASE r.ok
    <3>1. /\ Good(areas', mem') /\ x.start = areas[i].start /\ x.size = areas[i].size
          /\ Used(areas') = (Used(areas) \ {areas[i]}) \cup {x}
      BY <2>5, <2>6, <2>8, Zenon DEF FaultOutcomes
    <3>2. QED
      BY <2>7, <3>1, Zenon DEF Moves
  <2>9. CASE ~r.ok
    <3>1. PICK b : b = r.area
      BY Zenon
    <3>2. /\ Covers(areas') /\ Merged(areas') /\ Owned(Used(areas'), mem')
          /\ b.start = areas[i].start /\ b.size = areas[i].size
          /\ Used(areas') = (Used(areas) \ {areas[i]}) \cup {b}
      BY <2>5, <2>6, <2>9, <3>1, Zenon DEF FaultOutcomes
    <3>3. QED
      BY <2>5, <2>7, <2>9, <3>2, Zenon DEF Moves
  <2>10. QED
    BY <2>8, <2>9, Zenon
<1>3. QED
  BY <1>1, <1>2, Zenon DEF PageFault

\* Any step, from a state that is good.
LEMMA StepReaches ==
  ASSUME client \in Clients, Good(areas, mem), VmaNext
  PROVE  /\ \/ Good(areas', mem')
            \/ /\ panic' = "Failed to map lazy VM area"
               /\ Covers(areas') /\ Merged(areas') /\ Owned(Used(areas'), mem')
         /\ Moves(Used(areas), Used(areas'))
<1>1. Arena[client].sizes \subseteq Nat \ {0}
  BY VmaAssumptions, Zenon
<1>2. ASSUME NEW n, NEW hint, AllocRefused(n, hint)
      PROVE  Good(areas', mem') /\ Moves(Used(areas), Used(areas'))
  BY <1>2, Zenon DEF AllocRefused, Moves
<1>3. ASSUME NEW n \in Arena[client].sizes, NEW ok \in BOOLEAN, vmalloc(n, ok)
      PROVE  Good(areas', mem') /\ Moves(Used(areas), Used(areas'))
  <2>1. n \in Nat \ {0} /\ RW \in 0 .. 2
    BY <1>1 DEF RW
  <2>2. vma_alloc(n, RW, NULL, TRUE, ok)
    BY <1>3, Zenon DEF vmalloc
  <2>3. Reached(areas, mem, areas', mem')
    BY <2>1, <2>2, AllocStep, Zenon
  <2>4. QED
    BY <2>3, Zenon DEF Reached
<1>4. ASSUME NEW n \in Arena[client].sizes, NEW prot \in {RO, RW}, NEW hint, NEW ok \in BOOLEAN,
             mmap(n, prot, hint, ok)
      PROVE  Good(areas', mem') /\ Moves(Used(areas), Used(areas'))
  <2>1. n \in Nat \ {0} /\ prot \in 0 .. 2
    BY <1>1 DEF RW, RO
  <2>2. vma_alloc(n, prot, hint, FALSE, ok)
    BY <1>4, Zenon DEF mmap
  <2>3. Reached(areas, mem, areas', mem')
    BY <2>1, <2>2, AllocStep, Zenon
  <2>4. QED
    BY <2>3, Zenon DEF Reached
<1>5. CASE client = "vmalloc" /\ NextVmalloc
  <2>1. ASSUME NEW i \in 1 .. Len(areas), vfree(i)
        PROVE  Good(areas', mem') /\ Moves(Used(areas), Used(areas'))
    <3>1. Reached(areas, mem, areas', mem')
      BY <1>5, <2>1, VfreeStep, Zenon
    <3>2. QED
      BY <3>1, Zenon DEF Reached
  <2>2. QED
    BY <1>2, <1>3, <1>5, <2>1, Zenon DEF NextVmalloc, vmallocFails
<1>6. CASE client = "task" /\ NextTask
  <2>1. ASSUME NEW a, munmap(a)
        PROVE  Good(areas', mem') /\ Moves(Used(areas), Used(areas'))
    <3>1. Reached(areas, mem, areas', mem')
      BY <2>1, MunmapStep, Zenon
    <3>2. QED
      BY <3>1, Zenon DEF Reached
  <2>2. ASSUME Exit
        PROVE  Good(areas', mem') /\ Moves(Used(areas), Used(areas'))
    <3>1. Good(areas', mem')
      BY <2>2, ExitGood, Zenon DEF Exit
    <3>2. Used(areas') = {}
      BY <2>2 DEF Exit, Used
    <3>3. QED
      BY <3>1, <3>2, Zenon DEF Moves
  <2>3. ASSUME Create
        PROVE  Good(areas', mem') /\ Moves(Used(areas), Used(areas'))
    <3>1. Good(<<>>, mem) /\ areas' = <<Hole(Start, End - Start)>> /\ mem' = mem
      BY <2>3, Zenon DEF Create
    <3>2. QED
      BY <3>1, CreateGood, Zenon DEF Moves
  <2>4. ASSUME NEW a, areas # <<>>, PageFault(a)
        PROVE  /\ \/ Good(areas', mem')
                  \/ /\ panic' = "Failed to map lazy VM area"
                     /\ Covers(areas') /\ Merged(areas') /\ Owned(Used(areas'), mem')
               /\ Moves(Used(areas), Used(areas'))
    BY <2>4, FaultStep, Zenon DEF VmaNext
  <2>5. QED
    BY <1>2, <1>4, <1>6, <2>1, <2>2, <2>3, <2>4 DEF NextTask, mmapFails
<1>7. QED
  BY <1>5, <1>6, Zenon DEF VmaNext

LEMMA VmaInitially ==
  ASSUME VmaInit
  PROVE  VmaIInv
<1>1. client \in Clients /\ Arena[client].tables \in Nat
  BY VmaAssumptions, Zenon DEF VmaInit
<1>2. Used(<<>>) = {}
  BY DEF Used
<1>3. PICK g : g = [p \in VPages |-> NULL]
  BY Zenon
<1>4. mem = [hi |-> Frames, low |-> Arena[client].tables, tables |-> {}, pte |-> g]
  BY <1>3, Zenon DEF VmaInit
<1>5. g \in [VPages -> Nat] /\ \A p \in VPages : g[p] = NULL
  BY <1>3, Zenon DEF NULL
<1>6. mem.hi = Frames /\ mem.low = Arena[client].tables /\ mem.tables = {} /\ mem.pte = g
  BY <1>4, Zenon
<1>7. mem \in Memory
  BY <1>1, <1>4, <1>5, Zenon DEF Memory
<1>8. Owned({}, mem)
  <2>1. IsFiniteSet({}) /\ Cardinality({}) = 0
    BY FS_EmptySet, Zenon
  <2>2. QED
    BY <1>1, <1>6, <1>7, <2>1 DEF Owned
<1>9. Mirrors({}, mem)
  BY <1>5, <1>6, Zenon DEF Mirrors
<1>10. Good(<<>>, mem)
  BY <1>2, <1>8, <1>9, Zenon DEF Good
<1>11. areas = <<Hole(Start, End - Start)>>
  BY Zenon DEF VmaInit
<1>12. QED
  BY <1>1, <1>10, <1>11, CreateGood, Zenon DEF VmaIInv

\* Every step keeps the invariant, and moves at most one area in or out of use.
LEMMA VmaStep ==
  ASSUME VmaIInv, [VmaNext]_vmaVars
  PROVE  /\ VmaIInv' /\ client' = client
         /\ Moves(Used(areas), Used(areas')) /\ (areas' # <<>> => Covers(areas'))
<1>1. client' = client /\ client \in Clients
  BY Zenon DEF VmaIInv, VmaNext, vmaVars
<1>2. End' = End /\ Frames' = Frames
  BY <1>1, Zenon DEF End, Frames
<1>3. VPages' = VPages
  BY <1>2, Zenon DEF VPages
<1>4. \/ Good(areas', mem')
      \/ /\ panic' = "Failed to map lazy VM area"
         /\ Covers(areas') /\ Merged(areas') /\ Owned(Used(areas'), mem')
  <2>1. CASE VmaNext
    <3>1. Good(areas, mem)
      BY <2>1, Zenon DEF VmaIInv, HalfMapped, VmaNext
    <3>2. QED
      BY <1>1, <2>1, <3>1, StepReaches, Zenon
  <2>2. CASE UNCHANGED vmaVars
    BY <2>2, Zenon DEF VmaIInv, HalfMapped, vmaVars
  <2>3. QED
    BY <2>1, <2>2, Zenon
<1>5. Moves(Used(areas), Used(areas'))
  <2>1. CASE VmaNext
    <3>1. Good(areas, mem)
      BY <2>1, Zenon DEF VmaIInv, HalfMapped, VmaNext
    <3>2. QED
      BY <1>1, <2>1, <3>1, StepReaches, Zenon
  <2>2. CASE UNCHANGED vmaVars
    BY <2>2, Zenon DEF Moves, vmaVars
  <2>3. QED
    BY <2>1, <2>2, Zenon
<1>6. Covers(areas') => Covers(areas)'
  BY <1>1, <1>2, Zenon DEF Covers, Blank
<1>7. Merged(areas') => Merged(areas)'
  BY Zenon DEF Merged, MergedBut
<1>8. Used(areas') = Used(areas)'
  BY Zenon DEF Used
<1>9. Owned(Used(areas'), mem') => Owned(Used(areas), mem)'
  BY <1>1, <1>2, <1>3, <1>8, Zenon DEF Owned, Memory
<1>10. Mirrors(Used(areas'), mem') => Mirrors(Used(areas), mem)'
  BY <1>3, <1>8, Zenon DEF Mirrors
<1>11. (\A a \in Used(areas') : InUse(a)) => (\A a \in Used(areas) : InUse(a))'
  BY <1>2, <1>8, Zenon DEF InUse
<1>12. Good(areas', mem') => Good(areas, mem)'
  BY <1>6, <1>7, <1>9, <1>10, <1>11, SMTT(30) DEF Good
<1>13. VmaIInv'
  BY <1>1, <1>4, <1>6, <1>7, <1>9, <1>12 DEF VmaIInv, HalfMapped
<1>14. areas' # <<>> => Covers(areas')
  BY <1>4, Zenon DEF Good
<1>15. QED
  BY <1>1, <1>5, <1>13, <1>14, Zenon

LEMMA VmaInvariant == VmaSpec => []VmaIInv
<1>1. VmaInit => VmaIInv
  BY VmaInitially, Zenon
<1>2. VmaIInv /\ [VmaNext]_vmaVars => VmaIInv'
  BY VmaStep, Zenon
<1>3. QED
  BY <1>1, <1>2, PTL DEF VmaSpec

\* What the invariant says whether or not a page fault panicked.
LEMMA ListIs ==
  ASSUME VmaIInv
  PROVE  /\ client \in Clients /\ Owned(Used(areas), mem)
         /\ areas # <<>> => Covers(areas) /\ Merged(areas)
         /\ panic # "Failed to map lazy VM area" => Good(areas, mem)
BY Zenon DEF VmaIInv, HalfMapped, Good

(* No frame is lost or shared: vma_map_area, on each way that it fails,    *)
(* leaves to vma_destroy_area what it has to release.                      *)
THEOREM VmaFramesOwned == VmaSpec => []FramesOwnedOnce
<1>1. ASSUME VmaIInv PROVE FramesOwnedOnce
  <2>1. Owned(Used(areas), mem) /\ (areas # <<>> => Covers(areas))
    BY <1>1, ListIs, Zenon
  <2>2. \A i \in 1 .. Len(areas) : areas[i].state = "FREE" => Len(areas[i].pages) = 0
    <3> SUFFICES ASSUME NEW i \in 1 .. Len(areas), areas[i].state = "FREE"
                 PROVE  Len(areas[i].pages) = 0
      BY Zenon
    <3>1. Covers(areas)
      BY <2>1
    <3>2. areas[i].pages = <<>>
      BY <3>1, FreeHasNoPages, Zenon
    <3>3. QED
      BY <3>2, EmptySeq, Zenon
  <2>3. \A i \in 1 .. Len(areas) : \A j \in 1 .. Len(areas[i].pages) : areas[i] \in Used(areas)
    <3> SUFFICES ASSUME NEW i \in 1 .. Len(areas), NEW j \in 1 .. Len(areas[i].pages)
                 PROVE  areas[i] \in Used(areas)
      BY Zenon
    <3>1. areas[i].state # "FREE"
      BY <2>2
    <3>2. QED
      BY <3>1, Zenon DEF Used
  <2>4. \A a \in Used(areas) : \E i \in 1 .. Len(areas) : a = areas[i]
    BY Zenon DEF Used
  <2>5. \A f \in Frames :
          f \in mem.hi <=> \A i \in 1 .. Len(areas) : \A j \in 1 .. Len(areas[i].pages) : areas[i].pages[j] # f
    <3>1. \A f \in Frames : f \in mem.hi <=> \A a \in Used(areas) : \A n \in 1 .. Len(a.pages) : a.pages[n] # f
      BY <2>1, Zenon DEF Owned
    <3>2. QED
      BY <2>3, <2>4, <3>1
  <2>6. ASSUME NEW i \in 1 .. Len(areas), NEW k \in 1 .. Len(areas),
               NEW j \in 1 .. Len(areas[i].pages), NEW n \in 1 .. Len(areas[k].pages),
               areas[i].pages[j] = areas[k].pages[n], areas[i].pages[j] # NULL
        PROVE  i = k /\ j = n
    <3>1. areas[i] \in Used(areas) /\ areas[k] \in Used(areas)
      BY <2>3, Zenon
    <3>2. areas[i] = areas[k] /\ j = n
      BY <2>1, <2>6, <3>1, SMTT(30) DEF Owned
    <3>3. i = k
      BY <2>1, <3>2, EntriesDiffer, SMTT(30)
    <3>4. QED
      BY <3>2, <3>3, Zenon
  <2>7. mem.low + Cardinality(mem.tables) = Arena[client].tables
    BY <2>1, Zenon DEF Owned
  <2>8. QED
    BY <2>5, <2>6, <2>7 DEF FramesOwnedOnce
<1>2. QED
  BY <1>1, VmaInvariant, PTL

\* A page of an area is a page of the range.
LEMMA PageOfArea ==
  ASSUME client \in Clients, NEW al, Covers(al), NEW i \in 1 .. Len(al),
         NEW n \in Nat \ {0}, n * PageSize =< al[i].size
  PROVE  PageOf(al[i], n) \in VPages
<1>1. PICK a, p : a = al[i] /\ p = PageOf(al[i], n)
  BY Zenon
<1>2. a.start \in Nat /\ a.size \in Nat \ {0} /\ a.start = FirstPage(a) * PageSize
  BY <1>1, Entries, Zenon
<1>3. /\ p \in Nat /\ a.start =< p * PageSize
      /\ p * PageSize + PageSize =< a.start + a.size
  BY <1>1, <1>2, PageBytes, Zenon
<1>4. Start =< a.start /\ a.start + a.size =< End
  BY <1>1, InRange, Zenon
<1>5. Start \in Nat /\ End \in Nat /\ PageSize \in Nat \ {0}
  BY VmaAssumptions, Zenon DEF End
<1>6. PICK q : q = p * PageSize
  BY Zenon
<1>7. q \in Int
  BY <1>3, <1>6, PageArithmetic, SMTT(30)
<1>8. Start =< q /\ q < End
  BY <1>2, <1>3, <1>4, <1>5, <1>6, <1>7, SMTT(30)
<1>9. QED
  BY <1>1, <1>3, <1>6, <1>8, PageInRange, Zenon

\* The pages that fit in a size.
LEMMA PagesFit ==
  ASSUME NEW s \in Nat, NEW n \in 1 .. s \div PageSize
  PROVE  n \in Nat \ {0} /\ n * PageSize =< s
<1>1. PICK d : d = s \div PageSize
  BY Zenon
<1>2. d \in Nat /\ d * PageSize =< s /\ d * PageSize \in Int
  BY <1>1, PageArithmetic
<1>3. n \in Nat \ {0} /\ n =< d
  BY <1>1, <1>2
<1>4. n * PageSize =< d * PageSize /\ n * PageSize \in Int
  BY <1>2, <1>3, PageArithmetic
<1>5. PICK u, v : u = n * PageSize /\ v = d * PageSize
  BY Zenon
<1>6. u =< s
  BY <1>2, <1>4, <1>5, SMTT(30)
<1>7. QED
  BY <1>3, <1>5, <1>6, Zenon

\* What the page tables hold for a page of an area.
LEMMA EntryIs ==
  ASSUME client \in Clients, NEW al, NEW m, Good(al, m), NEW i \in 1 .. Len(al),
         NEW j \in 1 .. al[i].size \div PageSize
  PROVE  m.pte[PageOf(al[i], j)] = IF al[i].state = "ALLOCATED" THEN al[i].pages[j] ELSE NULL
<1>1. al # <<>>
  OBVIOUS
<1>2. Covers(al)
  BY <1>1, Zenon DEF Good
<1>3. PICK a, p : a = al[i] /\ p = PageOf(al[i], j)
  BY Zenon
<1>4. a.start \in Nat /\ a.size \in Nat \ {0} /\ a.state \in {"FREE", "LAZY", "ALLOCATED"}
  BY <1>2, <1>3, Entries, Zenon
<1>5. j \in Nat \ {0} /\ j * PageSize =< a.size
  BY <1>3, <1>4, PagesFit, Zenon
<1>6. CASE a.state = "FREE"
  <2> SUFFICES ASSUME m.pte[p] # NULL PROVE FALSE
    BY <1>3, <1>6, Zenon
  <2>1. p \in VPages
    BY <1>2, <1>3, <1>5, PageOfArea
  <2>2. PICK b \in Used(al) : \E n \in 1 .. Len(b.pages) : p = PageOf(b, n)
    BY <2>1, Zenon DEF Good, Mirrors
  <2>3. PICK n \in 1 .. Len(b.pages) : p = PageOf(b, n)
    BY <2>2, Zenon
  <2>4. PICK k \in 1 .. Len(al) : b = al[k] /\ al[k].state # "FREE"
    BY Zenon DEF Used
  <2>5. b.nr * PageSize = b.size /\ Len(b.pages) = b.nr /\ b.nr \in Nat /\ b.size \in Nat
    <3>1. b \in AreaSet /\ InUse(b)
      BY <1>2, <2>4, Entries, Zenon DEF Good
    <3>2. QED
      BY <3>1, Zenon DEF InUse, AreaSet
  <2>6. n \in Nat \ {0} /\ n * PageSize =< b.size
    <3>1. n \in Nat \ {0} /\ n =< b.nr
      BY <2>5
    <3>2. PICK e : e = b.nr
      BY Zenon
    <3>3. n * PageSize =< e * PageSize
      <4>1. n \in Int /\ e \in Int /\ n =< e
        BY <2>5, <3>1, <3>2
      <4>2. \A x, y \in Int : x * PageSize =< y * PageSize <=> x =< y
        BY PageArithmetic, Zenon
      <4>3. QED
        BY <4>1, <4>2, Zenon
    <3>4. QED
      BY <2>5, <3>1, <3>2, <3>3, SMTT(30)
  <2>7. PageOf(al[i], j) = PageOf(al[k], n) /\ j * PageSize =< al[i].size /\ n * PageSize =< al[k].size
    BY <1>3, <1>5, <2>3, <2>4, <2>6, SMTT(30)
  <2>8. i = k
    BY <1>2, <1>5, <2>6, <2>7, PagesDiffer, SMTT(30)
  <2>9. QED
    BY <1>3, <1>6, <2>4, <2>8, SMTT(30)
<1>7. CASE a.state # "FREE"
  <2>1. a \in Used(al) /\ InUse(a) /\ a \in AreaSet
    BY <1>2, <1>3, <1>7, Entries, SMTT(30) DEF Used, Good
  <2>2. a.nr * PageSize = a.size /\ Len(a.pages) = a.nr /\ a.nr \in Nat
    BY <2>1, Zenon DEF InUse, AreaSet
  <2>3. a.size \div PageSize = a.nr
    <3>1. PICK e : e = a.nr
      BY Zenon
    <3>2. (e * PageSize) \div PageSize = e
      BY <2>2, <3>1, PageArithmetic
    <3>3. QED
      BY <2>2, <3>1, <3>2, Zenon
  <2>4. j \in 1 .. Len(a.pages) /\ j \in 1 .. a.nr
    BY <1>3, <2>2, <2>3, Zenon
  <2>5. m.pte[p] = a.pages[j]
    BY <1>3, <2>1, <2>4, Zenon DEF Good, Mirrors
  <2>6. a.state = "LAZY" => a.pages[j] = NULL
    BY <2>1, <2>4, Zenon DEF InUse
  <2>7. QED
    BY <1>3, <1>4, <1>7, <2>5, <2>6, SMTT(30)
<1>8. QED
  BY <1>6, <1>7, Zenon

(* The areas tile the range and the page tables agree with them, after any *)
(* sequence of vmalloc and vfree, or of mmap, munmap, page faults and exit *)
(* (vma_split_area, vma_merge_area, vma_map_area, vma_destroy_area).       *)
THEOREM VmaAreasSound == VmaSpec => []AreasSound
<1>1. ASSUME VmaIInv PROVE AreasSound
  <2>1. /\ client \in Clients
        /\ areas # <<>> => Covers(areas) /\ Merged(areas)
        /\ panic # "Failed to map lazy VM area" => Good(areas, mem)
    BY <1>1, ListIs, Zenon
  <2>2. Tiled
    <3> SUFFICES ASSUME areas # <<>> PROVE Tiled
      BY Zenon DEF Tiled
    <3>1. Covers(areas) /\ Merged(areas) /\ Len(areas) \in Nat \ {0}
      BY <2>1, Entries, Zenon
    <3>2. areas[1].start = Start /\ areas[Len(areas)].start + areas[Len(areas)].size = End
      BY <3>1, Zenon DEF Covers
    <3>3. ASSUME NEW i \in 1 .. Len(areas) - 1
          PROVE  /\ neighbors(areas[i], areas[i + 1])
                 /\ ~(areas[i].state = "FREE" /\ areas[i + 1].state = "FREE")
      <4>1. i # 0 /\ i + 1 # 0
        BY <3>1
      <4>2. QED
        BY <3>1, <4>1, Zenon DEF Covers, Merged, MergedBut
    <3>4. QED
      BY <3>2, <3>3, Zenon DEF Tiled
  <2>3. TablesMatchAreas
    <3> SUFFICES ASSUME panic # "Failed to map lazy VM area" PROVE TablesMatchAreas
      BY Zenon DEF TablesMatchAreas
    <3>1. Good(areas, mem)
      BY <2>1, Zenon
    <3>2. \A i \in 1 .. Len(areas) : \A j \in 1 .. areas[i].size \div PageSize :
            mem.pte[PageOf(areas[i], j)] =
              IF areas[i].state = "ALLOCATED" THEN areas[i].pages[j] ELSE NULL
      BY <2>1, <3>1, EntryIs, Zenon
    <3>3. \A i \in 1 .. Len(areas) :
            areas[i].state # "FREE" => /\ areas[i].nr * PageSize = areas[i].size
                                       /\ Len(areas[i].pages) = areas[i].nr
      BY <3>1, Zenon DEF Good, Used, InUse
    <3>4. mem.tables = {Table(p) : p \in {q \in VPages : mem.pte[q] # NULL}}
      BY <3>1, Zenon DEF Good, Mirrors
    <3>5. QED
      BY <3>2, <3>3, <3>4, Zenon DEF TablesMatchAreas
  <2>4. ASSUME client = "task" PROVE FreeAreasBlank
    <3> SUFFICES ASSUME NEW i \in 1 .. Len(areas), areas[i].state = "FREE"
                 PROVE  areas[i] = Hole(areas[i].start, areas[i].size)
      BY Zenon DEF FreeAreasBlank
    <3>1. PICK a : a = areas[i]
      BY Zenon
    <3>2. Covers(areas)
      <4>1. areas # <<>>
        OBVIOUS
      <4>2. QED
        BY <2>1, <4>1, Zenon
    <3>3. a \in AreaSet /\ a.nr = 0 /\ a.pages = <<>> /\ a.flags = 0 /\ a.state = "FREE"
      BY <2>4, <3>1, <3>2, Entries, SMTT(30) DEF Covers, Blank
    <3>4. a = [state |-> a.state, start |-> a.start, size |-> a.size, flags |-> a.flags,
               nr |-> a.nr, pages |-> a.pages]
      BY <3>3, Zenon DEF AreaSet
    <3>5. QED
      BY <3>1, <3>3, <3>4, Zenon DEF Hole
  <2>5. QED
    BY <2>2, <2>3, <2>4, Zenon DEF AreasSound
<1>2. QED
  BY <1>1, VmaInvariant, PTL

\* The addresses of an area, and the ranges that some areas hold.
Bytes(a) == a.start .. a.start + a.size - 1
Ranges(U) == {Bytes(a) : a \in U}

\* The addresses of an area are a run of addresses within the arena.
LEMMA BytesAre ==
  ASSUME client \in Clients, NEW al, Covers(al), NEW i \in 1 .. Len(al)
  PROVE  /\ Bytes(al[i]) # {} /\ Bytes(al[i]) = Min(Bytes(al[i])) .. Max(Bytes(al[i]))
         /\ Bytes(al[i]) \subseteq Start .. End - 1
<1>1. PICK a, T : a = al[i] /\ T = Bytes(al[i])
  BY Zenon
<1>2. a.start \in Nat /\ a.size \in Nat \ {0}
  BY <1>1, Entries, Zenon
<1>3. PICK s, e : s = a.start /\ e = a.start + a.size - 1
  BY Zenon
<1>4. s \in Nat /\ e \in Nat /\ s =< e /\ T = s .. e
  BY <1>1, <1>2, <1>3, SMTT(30) DEF Bytes
<1>5. T \in SUBSET Nat /\ T \in SUBSET (0 .. e) /\ T # {} /\ s \in T /\ e \in T
  BY <1>4
<1>6. Min(T) = s
  <2>1. Min(T) \in T /\ \A y \in T : Min(T) =< y
    BY <1>5, MinIs, Zenon
  <2>2. QED
    BY <1>4, <1>5, <2>1, SMTT(30)
<1>7. Max(T) = e
  <2>1. Max(T) \in T /\ \A y \in T : y =< Max(T)
    BY <1>4, <1>5, MaxIs, Zenon
  <2>2. QED
    BY <1>4, <1>5, <2>1
<1>8. T \subseteq Start .. End - 1
  <2>1. Start =< a.start /\ a.start + a.size =< End
    BY <1>1, InRange, Zenon
  <2>2. Start \in Nat /\ End \in Nat
    BY VmaAssumptions, Zenon DEF End
  <2>3. QED
    BY <1>2, <1>3, <1>4, <2>1, <2>2, SMTT(30)
<1>9. QED
  BY <1>1, <1>4, <1>5, <1>6, <1>7, <1>8, SMTT(30)

\* No two areas of a list have an address in common.
LEMMA BytesApart ==
  ASSUME NEW al, Covers(al), NEW i \in 1 .. Len(al), NEW k \in 1 .. Len(al), al[i] # al[k]
  PROVE  Bytes(al[i]) \cap Bytes(al[k]) = {}
<1>1. i # k
  BY Zenon
<1>2. al[i].start + al[i].size =< al[k].start \/ al[k].start + al[k].size =< al[i].start
  BY <1>1, EntriesDiffer, Zenon
<1>3. /\ al[i].start \in Nat /\ al[i].size \in Nat \ {0}
      /\ al[k].start \in Nat /\ al[k].size \in Nat \ {0}
  BY Entries, Zenon
<1>4. PICK s, n, t, j : s = al[i].start /\ n = al[i].size /\ t = al[k].start /\ j = al[k].size
  BY Zenon
<1>5. s \in Nat /\ n \in Nat /\ t \in Nat /\ j \in Nat /\ (s + n =< t \/ t + j =< s)
  BY <1>2, <1>3, <1>4, Zenon
<1>6. (s .. s + n - 1) \cap (t .. t + j - 1) = {}
  BY <1>5
<1>7. QED
  BY <1>4, <1>6, Zenon DEF Bytes

\* The largest arena holds that of this client.
LEMMA ArenaHolds ==
  ASSUME client \in Clients
  PROVE  Start .. End - 1 \subseteq Start .. Max({Arena[c].end : c \in Clients}) - 1
<1>1. PICK E : E = {Arena[c].end : c \in Clients}
  BY Zenon
<1>2. End \in E /\ E \in SUBSET Nat
  BY <1>1, VmaAssumptions, Zenon DEF End
<1>3. \E n \in Nat : E \in SUBSET (0 .. n)
  <2>1. E \subseteq {Arena["vmalloc"].end, Arena["task"].end}
    BY <1>1, VmaAssumptions, Zenon
  <2>2. PICK v, t : v = Arena["vmalloc"].end /\ t = Arena["task"].end
    BY Zenon
  <2>3. CASE v \in Nat /\ t \in Nat
    <3>1. CASE v =< t
      BY <1>2, <2>1, <2>2, <2>3, <3>1, SMTT(30)
    <3>2. CASE t < v
      BY <1>2, <2>1, <2>2, <2>3, <3>2, SMTT(30)
    <3>3. QED
      BY <2>3, <3>1, <3>2, SMTT(30)
  <2>4. CASE v \notin Nat
    BY <1>2, <2>1, <2>2, <2>4, SMTT(30)
  <2>5. CASE t \notin Nat
    BY <1>2, <2>1, <2>2, <2>5, SMTT(30)
  <2>6. QED
    BY <2>3, <2>4, <2>5, Zenon
<1>4. PICK n \in Nat : E \in SUBSET (0 .. n)
  BY <1>3, Zenon
<1>5. Max(E) \in E /\ \A y \in E : y =< Max(E)
  BY <1>2, <1>4, MaxIs, Zenon
<1>6. Start \in Nat /\ End \in Nat /\ Max(E) \in Nat /\ End =< Max(E)
  BY <1>2, <1>5, VmaAssumptions, Zenon DEF End
<1>7. Start .. End - 1 \subseteq Start .. Max(E) - 1
  BY <1>6
<1>8. QED
  BY <1>1, <1>7, Zenon

\* A step of the allocator of ranges, or none.
RangeStep(t, u) ==
  \/ u = t
  \/ u = {}
  \/ \E r \in t : u = t \ {r}
  \/ \E r \in u \ t : /\ r # {} /\ r = Min(r) .. Max(r)
                      /\ r \subseteq Start .. End - 1 /\ \A q \in t : r \cap q = {}
                      /\ u = t \cup {r}

\* The areas in use change as the ranges that are taken may.
LEMMA RangesMove ==
  ASSUME client \in Clients, NEW al, NEW L, al # <<>> => Covers(al), L # <<>> => Covers(L),
         Moves(Used(al), Used(L))
  PROVE  RangeStep(Ranges(Used(al)), Ranges(Used(L)))
<1>1. PICK U, V, t, u : U = Used(al) /\ V = Used(L) /\ t = Ranges(Used(al)) /\ u = Ranges(Used(L))
  BY Zenon
<1>2. t = {Bytes(a) : a \in U} /\ u = {Bytes(a) : a \in V}
  BY <1>1, Zenon DEF Ranges
<1>3. \A a \in U : \E i \in 1 .. Len(al) : a = al[i]
  BY <1>1, Zenon DEF Used
<1>4. \A a \in V : \E i \in 1 .. Len(L) : a = L[i]
  BY <1>1, Zenon DEF Used
<1>5. CASE V = U
  BY <1>1, <1>5, Zenon DEF RangeStep
<1>6. CASE V = {}
  <2>1. u = {}
    BY <1>2, <1>6, Zenon
  <2>2. QED
    BY <1>1, <2>1, Zenon DEF RangeStep
<1>7. CASE \E a \in U : V = U \ {a}
  <2>1. PICK a \in U : V = U \ {a}
    BY <1>7, Zenon
  <2>2. PICK i \in 1 .. Len(al) : a = al[i]
    BY <1>3, Zenon
  <2>3. al # <<>>
    OBVIOUS
  <2>4. ASSUME NEW b \in U, b # a PROVE Bytes(b) # Bytes(a)
    <3>1. PICK k \in 1 .. Len(al) : b = al[k]
      BY <1>3, Zenon
    <3>2. Bytes(al[k]) \cap Bytes(al[i]) = {}
      BY <2>2, <2>3, <2>4, <3>1, BytesApart, SMTT(30)
    <3>3. Bytes(al[i]) # {}
      BY <2>3, BytesAre, Zenon
    <3>4. QED
      BY <2>2, <3>1, <3>2, <3>3, Zenon
  <2>5. u = t \ {Bytes(a)} /\ Bytes(a) \in t
    BY <1>2, <2>1, <2>4, Zenon
  <2>6. QED
    BY <1>1, <2>5, Zenon DEF RangeStep
<1>8. CASE \E x : x \notin U /\ V = U \cup {x}
  <2>1. PICK x : x \notin U /\ V = U \cup {x}
    BY <1>8, Zenon
  <2>2. PICK i \in 1 .. Len(L) : x = L[i]
    BY <1>4, <2>1, Zenon
  <2>3. L # <<>>
    OBVIOUS
  <2>4. PICK r : r = Bytes(x)
    BY Zenon
  <2>5. r # {} /\ r = Min(r) .. Max(r) /\ r \subseteq Start .. End - 1
    BY <2>2, <2>3, <2>4, BytesAre, SMTT(30)
  <2>6. ASSUME NEW b \in U PROVE r \cap Bytes(b) = {}
    <3>1. b \in V /\ b # x
      BY <2>1, <2>6, Zenon
    <3>2. PICK k \in 1 .. Len(L) : b = L[k]
      BY <1>4, <3>1, Zenon
    <3>3. L[i] # L[k]
      BY <2>2, <3>1, <3>2, Zenon
    <3>4. Bytes(L[i]) \cap Bytes(L[k]) = {}
      BY <2>3, <3>3, BytesApart, Zenon
    <3>5. QED
      BY <2>2, <2>4, <3>2, <3>4, SMTT(30)
  <2>7. \A q \in t : r \cap q = {}
    BY <1>2, <2>6, Zenon
  <2>8. u = t \cup {r}
    BY <1>2, <2>1, <2>4, SMTT(30)
  <2>9. r \in u \ t
    BY <2>5, <2>7, <2>8, SMTT(30)
  <2>10. QED
    BY <1>1, <2>5, <2>7, <2>8, <2>9 DEF RangeStep
<1>9. CASE \E a \in U : \E x : x.start = a.start /\ x.size = a.size /\ V = (U \ {a}) \cup {x}
  <2>1. PICK a, x : a \in U /\ x.start = a.start /\ x.size = a.size /\ V = (U \ {a}) \cup {x}
    BY <1>9, Zenon
  <2>2. Bytes(x) = Bytes(a)
    BY <2>1, Zenon DEF Bytes
  <2>3. u = t
    BY <1>2, <2>1, <2>2, Zenon
  <2>4. QED
    BY <1>1, <2>3, Zenon DEF RangeStep
<1>10. QED
  BY <1>1, <1>5, <1>6, <1>7, <1>8, <1>9, SMTT(30) DEF Moves

(* The areas implement the allocator of address ranges (RangeAlloc): an    *)
(* allocation takes a range nobody holds, munmap, vfree and the clean-up   *)
(* of a failure give one back, exit gives all back, and mapping a lazy     *)
(* area changes no range.                                                  *)
THEOREM VmaKeepsPromise == VmaSpec => KeepsPromise
<1>1. VmaInit => Promise!Init
  <2> SUFFICES ASSUME VmaInit PROVE Promise!Init
    BY Zenon
  <2>1. Len(areas) = 1 /\ areas[1].state = "FREE"
    <3>1. PICK h : h = Hole(Start, End - Start)
      BY Zenon
    <3>2. h.state = "FREE" /\ areas = <<h>>
      BY <3>1, Zenon DEF VmaInit, Hole
    <3>3. QED
      BY <3>2, Zenon
  <2>2. QED
    BY <2>1 DEF Promise!Init
<1>2. ASSUME VmaIInv, [VmaNext]_vmaVars
      PROVE  [Promise!Next]_({areas[i].start .. areas[i].start + areas[i].size - 1 :
                               i \in {j \in 1 .. Len(areas) : areas[j].state # "FREE"}})
  <2>1. PICK t, u : t = Ranges(Used(areas)) /\ u = Ranges(Used(areas'))
    BY Zenon
  <2>2. /\ t = {areas[i].start .. areas[i].start + areas[i].size - 1 :
                  i \in {j \in 1 .. Len(areas) : areas[j].state # "FREE"}}
        /\ u = {areas[i].start .. areas[i].start + areas[i].size - 1 :
                  i \in {j \in 1 .. Len(areas) : areas[j].state # "FREE"}}'
    BY <2>1, Zenon DEF Ranges, Used, Bytes
  <2>3. client \in Clients /\ (areas # <<>> => Covers(areas))
    BY <1>2, ListIs, Zenon
  <2>4. RangeStep(t, u)
    BY <1>2, <2>1, <2>3, VmaStep, RangesMove, SMTT(30)
  <2>5. Start .. End - 1 \subseteq Start .. Max({Arena[c].end : c \in Clients}) - 1
    BY <2>3, ArenaHolds, Zenon
  <2>6. CASE u = t
    BY <2>2, <2>6, Zenon
  <2>7. CASE u = {}
    BY <2>2, <2>7, Zenon DEF Promise!Next, Promise!GiveAllBack
  <2>8. CASE \E r \in t : u = t \ {r}
    BY <2>2, <2>8, Zenon DEF Promise!Next, Promise!GiveBack
  <2>9. CASE \E r \in u \ t : /\ r # {} /\ r = Min(r) .. Max(r)
                              /\ r \subseteq Start .. End - 1 /\ \A q \in t : r \cap q = {}
                              /\ u = t \cup {r}
    <3>1. \E r \in u \ t : /\ r # {} /\ r = Min(r) .. Max(r)
                           /\ r \subseteq Start .. Max({Arena[c].end : c \in Clients}) - 1
                           /\ \A q \in t : r \cap q = {}
                           /\ u = t \cup {r}
      BY <2>5, <2>9, Zenon
    <3>2. Promise!Take
      BY <2>2, <3>1, Zenon DEF Promise!Take, Promise!Min, Promise!Max, Min, Max
    <3>3. QED
      BY <3>2, Zenon DEF Promise!Next
  <2>10. QED
    BY <2>4, <2>6, <2>7, <2>8, <2>9 DEF RangeStep
<1>3. QED
  BY <1>1, <1>2, VmaInvariant, PTL DEF VmaSpec, KeepsPromise, Promise!Spec
=============================================================================
