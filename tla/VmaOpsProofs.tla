----------------------------- MODULE VmaOpsProofs -----------------------------
(***************************************************************************)
(* Proofs about module Vma, first part: the inductive invariant, and what  *)
(* the operations that the actions share do to it, for every range, page   *)
(* size and memory.  Splitting, merging and destroying an area keep the    *)
(* list a tiling of the range; mapping an area takes frames that were free *)
(* and gives all of them back when it fails; unmapping one frees the page  *)
(* tables that no other area uses.                                         *)
(***************************************************************************)
EXTENDS Vma, SequenceTheorems, FiniteSetTheorems, TLAPS

\* An entry of the list; a free one has no pages, and for a task no flags
AreaSet == [state : {"FREE", "LAZY", "ALLOCATED"}, start : Nat, size : Nat \ {0}, flags : 0 .. 2,
            nr : Nat, pages : Seq(Nat)]
Blank(a) == a.nr = 0 /\ a.pages = <<>> /\ (client = "task" => a.flags = 0)
FirstPage(a) == a.start \div PageSize

(* A list that covers the range: each area starts on a page, and where the *)
(* one before it ends.                                                     *)
Covers(al) ==
  /\ al \in Seq(AreaSet) /\ al # <<>>
  /\ al[1].start = Start /\ al[Len(al)].start + al[Len(al)].size = End
  /\ \A k \in 1 .. Len(al) - 1 : neighbors(al[k], al[k + 1])
  /\ \A k \in 1 .. Len(al) : /\ al[k].start = FirstPage(al[k]) * PageSize
                             /\ al[k].state = "FREE" => Blank(al[k])

\* No two free areas are neighbours, but for the pairs with the area at k
MergedBut(al, k) ==
  \A n \in 1 .. Len(al) - 1 : n # k /\ n + 1 # k => ~(al[n].state = "FREE" /\ al[n + 1].state = "FREE")
Merged(al) == MergedBut(al, 0)

\* The areas that are not free, as a set
Used(al) == {al[n] : n \in {k \in 1 .. Len(al) : al[k].state # "FREE"}}

\* An area in use outside the functions of vma.c
InUse(a) ==
  /\ a.nr * PageSize = a.size /\ Len(a.pages) = a.nr
  /\ a.state = "LAZY" => \A n \in 1 .. a.nr : a.pages[n] = NULL
  /\ a.state = "ALLOCATED" => \A n \in 1 .. a.nr : a.pages[n] \in Frames

\* No two pages of these areas are the same
Apart(U) ==
  /\ \A a \in U : \A n \in 1 .. Len(a.pages) : PageOf(a, n) \in VPages
  /\ \A a, b \in U : \A n \in 1 .. Len(a.pages), k \in 1 .. Len(b.pages) :
       PageOf(a, n) = PageOf(b, k) => a = b /\ n = k

Memory == [hi : SUBSET Frames, low : Nat, tables : SUBSET Int, pte : [VPages -> Nat]]

\* FramesOwnedOnce, for a set of areas
Owned(U, m) ==
  /\ m \in Memory /\ IsFiniteSet(m.tables)
  /\ \A a \in U : a.pages \in Seq(Frames \cup {NULL})
  /\ \A f \in Frames : f \in m.hi <=> \A a \in U : \A n \in 1 .. Len(a.pages) : a.pages[n] # f
  /\ \A a, b \in U : \A n \in 1 .. Len(a.pages), k \in 1 .. Len(b.pages) :
       a.pages[n] = b.pages[k] /\ a.pages[n] # NULL => a = b /\ n = k
  /\ m.low + Cardinality(m.tables) = Arena[client].tables

\* The page tables map what these areas record, and nothing else
Mirrors(U, m) ==
  /\ \A a \in U : \A n \in 1 .. Len(a.pages) : m.pte[PageOf(a, n)] = a.pages[n]
  /\ \A p \in VPages : m.pte[p] # NULL => \E a \in U : \E n \in 1 .. Len(a.pages) : p = PageOf(a, n)
  /\ m.tables = {Table(p) : p \in {q \in VPages : m.pte[q] # NULL}}

Good(al, m) ==
  /\ al # <<>> => Covers(al) /\ Merged(al)
  /\ \A a \in Used(al) : InUse(a)
  /\ Owned(Used(al), m)
  /\ Mirrors(Used(al), m)

(* After the panic in the middle of a page fault the lazy area has frames  *)
(* that are not mapped; nothing runs after it.                             *)
HalfMapped == /\ panic = "Failed to map lazy VM area"
              /\ Covers(areas) /\ Merged(areas) /\ Owned(Used(areas), mem)

VmaIInv == client \in Clients /\ (Good(areas, mem) \/ HalfMapped)
----

\* A non-empty set of naturals has a least element.
LEMMA LeastNumber ==
  ASSUME NEW T \in SUBSET Nat, T # {}
  PROVE  \E x \in T : \A y \in T : x =< y
<1>1. PICK R : R = OpToRel(<, Nat)
  BY Zenon
<1>2. \A x, y \in Nat : y < x => <<y, x>> \in R
  BY <1>1, Zenon DEF OpToRel
<1>3. IsWellFoundedOn(R, Nat)
  BY <1>1, NatLessThanWellFounded, Zenon
<1>4. PICK x \in T : \A y \in T : ~(<<y, x>> \in R)
  BY <1>3, WFMin, Zenon
<1>5. \A y \in T : ~(y < x)
  BY <1>2, <1>4, Zenon
<1>6. QED
  BY <1>5

\* Min of such a set is its least element.
LEMMA MinIs ==
  ASSUME NEW T \in SUBSET Nat, T # {}
  PROVE  Min(T) \in T /\ \A y \in T : Min(T) =< y
BY LeastNumber, Zenon DEF Min

\* Max of a non-empty set of naturals up to n is its greatest element.
LEMMA MaxIs ==
  ASSUME NEW n \in Nat, NEW T \in SUBSET (0 .. n), T # {}
  PROVE  Max(T) \in T /\ \A y \in T : y =< Max(T)
<1> DEFINE D == {n - y : y \in T}
<1>1. D \in SUBSET Nat /\ D # {}
  <2>1. \A y \in T : y \in 0 .. n /\ n - y \in Nat
    OBVIOUS
  <2>2. QED
    BY <2>1, Zenon
<1>2. PICK d \in D : \A y \in D : d =< y
  BY <1>1, LeastNumber, Zenon
<1>3. PICK x \in T : d = n - x
  BY Zenon
<1>4. \A y \in T : n - y \in D
  BY Zenon
<1>5. \A y \in T : x >= y
  BY <1>2, <1>3, <1>4
<1>6. QED
  BY <1>5, Zenon DEF Max

\* Pages and bytes: a page is PageSize bytes.
LEMMA PageArithmetic ==
  /\ PageSize \in Nat \ {0}
  /\ \A x, y \in Int : x * PageSize =< y * PageSize <=> x =< y
  /\ \A x, y \in Int : x * PageSize < y * PageSize <=> x < y
  /\ \A x, y \in Int : x * PageSize + y * PageSize = (x + y) * PageSize
  /\ \A x \in Int : x * PageSize \in Int
  /\ \A x \in Nat : x \div PageSize \in Nat /\ (x \div PageSize) * PageSize =< x
                    /\ x < (x \div PageSize) * PageSize + PageSize
  /\ \A x \in Int : (x * PageSize) \div PageSize = x
<1>1. PageSize \in Nat \ {0}
  BY VmaAssumptions, Zenon
<1>2. \A x, y \in Int : x * PageSize =< y * PageSize <=> x =< y
  BY <1>1
<1>3. \A x, y \in Int : x * PageSize < y * PageSize <=> x < y
  BY <1>1
<1>4. \A x, y \in Int : x * PageSize + y * PageSize = (x + y) * PageSize
  BY <1>1
<1>5. \A x \in Int : x * PageSize \in Int
  BY <1>1
<1>6. \A x \in Nat : x \div PageSize \in Nat /\ (x \div PageSize) * PageSize =< x
                     /\ x < (x \div PageSize) * PageSize + PageSize
  BY <1>1
<1>7. \A x \in Int : (x * PageSize) \div PageSize = x
  BY <1>1
<1>8. QED
  BY <1>1, <1>2, <1>3, <1>4, <1>5, <1>6, <1>7, Zenon

\* A page that starts before the end of the range is one of its pages.
LEMMA PageInRange ==
  ASSUME NEW x \in Nat, Start =< x * PageSize, x * PageSize < End, client \in Clients
  PROVE  x \in VPages
<1>1. Start \in Nat /\ End \in Nat /\ End - 1 \in Nat
  BY VmaAssumptions DEF End
<1>2. Start \div PageSize =< x
  <2>1. (Start \div PageSize) * PageSize =< x * PageSize /\ Start \div PageSize \in Nat
    BY <1>1, PageArithmetic
  <2>2. QED
    BY <2>1, PageArithmetic
<1>3. x =< (End - 1) \div PageSize
  <2>1. PICK q : q = (End - 1) \div PageSize
    BY Zenon
  <2>2. q \in Nat /\ End - 1 < q * PageSize + PageSize
    BY <1>1, <2>1, PageArithmetic, Zenon
  <2>3. q * PageSize + PageSize = (q + 1) * PageSize
    BY <2>2, PageArithmetic
  <2>4. x * PageSize < (q + 1) * PageSize
    BY <1>1, <2>2, <2>3, PageArithmetic
  <2>5. x < q + 1
    BY <2>2, <2>4, PageArithmetic
  <2>6. QED
    BY <2>1, <2>2, <2>5
<1>4. QED
  BY <1>1, <1>2, <1>3, PageArithmetic DEF VPages
-----------------------------------------------------------------------------
\* The list L over S is al with e put in at i.
Inserted(S, al, L, i, e) ==
  /\ L \in Seq(S) /\ Len(L) = Len(al) + 1 /\ L[i] = e
  /\ \A k \in 1 .. Len(al) : k < i => L[k] = al[k]
  /\ \A k \in 1 .. Len(al) : k >= i => L[k + 1] = al[k]

\* Before and Without, element by element.
LEMMA BeforeIs ==
  ASSUME NEW S, NEW al \in Seq(S), NEW i \in 1 .. Len(al), NEW e \in S
  PROVE  Inserted(S, al, Before(al, i, e), i, e)
<1>1. PICK s1, s3 : s1 = SubSeq(al, 1, i - 1) /\ s3 = SubSeq(al, i, Len(al))
  BY Zenon
<1>2. /\ s1 \in Seq(S) /\ Len(s1) = i - 1
      /\ \A k \in 1 .. i - 1 : s1[k] = al[k]
  BY <1>1, SubSeqProperties
<1>3. /\ s3 \in Seq(S) /\ Len(s3) = Len(al) - i + 1
      /\ \A k \in 1 .. Len(al) - i + 1 : s3[k] = al[i + k - 1]
  BY <1>1, SubSeqProperties
<1>4. PICK s2 : s2 = s1 \o <<e>>
  BY Zenon
<1>5. s2 \in Seq(S) /\ Len(s2) = i /\ s2[i] = e /\ \A k \in 1 .. i - 1 : s2[k] = al[k]
  BY <1>2, <1>4
<1>6. PICK t : t = s2 \o s3
  BY Zenon
<1>7. /\ t \in Seq(S) /\ Len(t) = Len(al) + 1
      /\ \A k \in 1 .. Len(al) + 1 : t[k] = IF k =< i THEN s2[k] ELSE s3[k - i]
  <2>1. /\ t \in Seq(S) /\ Len(t) = Len(s2) + Len(s3)
        /\ \A k \in 1 .. Len(s2) + Len(s3) : t[k] = IF k <= Len(s2) THEN s2[k] ELSE s3[k - Len(s2)]
    BY <1>3, <1>5, <1>6, ConcatProperties
  <2>2. Len(s2) + Len(s3) = Len(al) + 1
    BY <1>3, <1>5
  <2>3. QED
    BY <1>5, <2>1, <2>2, Zenon
<1>8. t = Before(al, i, e)
  BY <1>1, <1>4, <1>6, Zenon DEF Before
<1>9. t[i] = e /\ \A k \in 1 .. Len(al) : k < i => t[k] = al[k]
  BY <1>5, <1>7
<1>10. \A k \in 1 .. Len(al) : k >= i => t[k + 1] = al[k]
  <2> SUFFICES ASSUME NEW k \in 1 .. Len(al), k >= i PROVE t[k + 1] = al[k]
    BY Zenon
  <2>1. t[k + 1] = s3[k + 1 - i]
    BY <1>7
  <2>2. k + 1 - i \in 1 .. Len(al) - i + 1 /\ i + (k + 1 - i) - 1 = k
    OBVIOUS
  <2>3. s3[k + 1 - i] = al[i + (k + 1 - i) - 1]
    BY <1>3, <2>2, Zenon
  <2>4. QED
    BY <2>1, <2>2, <2>3, Zenon
<1>11. QED
  BY <1>7, <1>8, <1>9, <1>10, Zenon DEF Inserted

LEMMA WithoutIs ==
  ASSUME NEW S, NEW al \in Seq(S), NEW i \in 1 .. Len(al)
  PROVE  /\ Without(al, i) \in Seq(S)
         /\ Len(Without(al, i)) = Len(al) - 1
         /\ \A k \in 1 .. Len(al) - 1 : Without(al, i)[k] = IF k < i THEN al[k] ELSE al[k + 1]
<1>1. PICK s1, s3 : s1 = SubSeq(al, 1, i - 1) /\ s3 = SubSeq(al, i + 1, Len(al))
  BY Zenon
<1>2. /\ s1 \in Seq(S) /\ Len(s1) = i - 1
      /\ \A k \in 1 .. i - 1 : s1[k] = al[k]
  BY <1>1, SubSeqProperties
<1>3. /\ s3 \in Seq(S) /\ Len(s3) = Len(al) - i
      /\ \A k \in 1 .. Len(al) - i : s3[k] = al[i + 1 + k - 1]
  BY <1>1, SubSeqProperties
<1>4. PICK t : t = s1 \o s3
  BY Zenon
<1>5. /\ t \in Seq(S) /\ Len(t) = Len(al) - 1
      /\ \A k \in 1 .. Len(al) - 1 : t[k] = IF k =< i - 1 THEN s1[k] ELSE s3[k - (i - 1)]
  <2>1. /\ t \in Seq(S) /\ Len(t) = Len(s1) + Len(s3)
        /\ \A k \in 1 .. Len(s1) + Len(s3) : t[k] = IF k <= Len(s1) THEN s1[k] ELSE s3[k - Len(s1)]
    BY <1>2, <1>3, <1>4, ConcatProperties, Zenon
  <2>2. Len(s1) + Len(s3) = Len(al) - 1
    BY <1>2, <1>3
  <2>3. QED
    BY <1>2, <2>1, <2>2, Zenon
<1>6. t = Without(al, i)
  BY <1>1, <1>4, Zenon DEF Without
<1>7. \A k \in 1 .. Len(al) - 1 : t[k] = IF k < i THEN al[k] ELSE al[k + 1]
  <2> SUFFICES ASSUME NEW k \in 1 .. Len(al) - 1 PROVE t[k] = IF k < i THEN al[k] ELSE al[k + 1]
    BY Zenon
  <2>1. CASE k < i
    BY <1>2, <1>5, <2>1
  <2>2. CASE k >= i
    <3>1. t[k] = s3[k - (i - 1)]
      BY <1>5, <2>2
    <3>2. k - (i - 1) \in 1 .. Len(al) - i /\ i + 1 + (k - (i - 1)) - 1 = k + 1
      BY <2>2
    <3>3. s3[k - (i - 1)] = al[i + 1 + (k - (i - 1)) - 1]
      BY <1>3, <3>2, Zenon
    <3>4. QED
      BY <2>2, <3>1, <3>2, <3>3
  <2>3. QED
    BY <2>1, <2>2
<1>8. QED
  BY <1>5, <1>6, <1>7, Zenon
-----------------------------------------------------------------------------
\* An area that comes later in a list that covers the range starts later.
LEMMA InOrder ==
  ASSUME NEW al, Covers(al), NEW i \in 1 .. Len(al), NEW k \in 1 .. Len(al), i < k
  PROVE  al[i].start + al[i].size =< al[k].start
<1> DEFINE T == {n \in i + 1 .. Len(al) : ~(al[i].start + al[i].size =< al[n].start)}
<1>1. al \in Seq(AreaSet) /\ Len(al) \in Nat /\ \A n \in 1 .. Len(al) : al[n] \in AreaSet
  BY DEF Covers
<1>2. \A n \in 1 .. Len(al) : al[n].start \in Nat /\ al[n].size \in Nat \ {0}
  BY <1>1, Zenon DEF AreaSet
<1>3. \A n \in 1 .. Len(al) - 1 : al[n].start + al[n].size = al[n + 1].start
  BY Zenon DEF Covers, neighbors
<1>4. ASSUME T # {} PROVE FALSE
  <2>1. T \in SUBSET Nat
    BY <1>1
  <2>2. PICK n \in T : \A y \in T : n =< y
    BY <1>4, <2>1, LeastNumber, Zenon
  <2>3. CASE n = i + 1
    BY <1>2, <1>3, <2>2, <2>3
  <2>4. CASE n > i + 1
    <3>1. n - 1 \in i + 1 .. Len(al) /\ n - 1 \notin T /\ n - 1 \in 1 .. Len(al) - 1
      BY <1>1, <2>2, <2>4
    <3>2. al[i].start + al[i].size =< al[n - 1].start /\ al[n - 1].start + al[n - 1].size = al[n - 1 + 1].start
      BY <1>3, <3>1, Zenon
    <3>3. al[i].start + al[i].size =< al[n].start
      <4>1. n - 1 + 1 = n /\ i \in 1 .. Len(al) /\ n - 1 \in 1 .. Len(al) /\ n \in 1 .. Len(al)
        BY <1>1, <2>2, <3>1
      <4>2. al[n - 1].start + al[n - 1].size = al[n].start
        BY <3>2, <4>1, Zenon
      <4>3. /\ al[i].start \in Nat /\ al[i].size \in Nat
            /\ al[n - 1].start \in Nat /\ al[n - 1].size \in Nat /\ al[n].start \in Nat
        BY <1>2, <4>1, Zenon
      <4>4. QED
        BY <3>2, <4>2, <4>3, SMTT(30)
    <3>4. QED
      BY <2>2, <3>3, Zenon
  <2>5. QED
    BY <2>2, <2>3, <2>4
<1>5. QED
  BY <1>1, <1>4

\* So no two entries are the same, or cover an address in common.
LEMMA EntriesDiffer ==
  ASSUME NEW al, Covers(al), NEW i \in 1 .. Len(al), NEW k \in 1 .. Len(al), i # k
  PROVE  /\ al[i] # al[k] /\ al[i].start # al[k].start
         /\ al[i].start + al[i].size =< al[k].start \/ al[k].start + al[k].size =< al[i].start
<1>1. \A n \in 1 .. Len(al) : al[n] \in AreaSet
  BY DEF Covers
<1>2. \A n \in 1 .. Len(al) : al[n].start \in Nat /\ al[n].size \in Nat \ {0}
  BY <1>1, Zenon DEF AreaSet
<1>3. i < k \/ k < i
  BY DEF Covers
<1>4. al[i].start + al[i].size =< al[k].start \/ al[k].start + al[k].size =< al[i].start
  BY <1>3, InOrder, Zenon
<1>5. QED
  BY <1>2, <1>4

\* An area of the list lies in the range.
LEMMA InRange ==
  ASSUME NEW al, Covers(al), NEW i \in 1 .. Len(al), client \in Clients
  PROVE  Start =< al[i].start /\ al[i].start + al[i].size =< End
<1>1. \A n \in 1 .. Len(al) : al[n] \in AreaSet
  BY DEF Covers
<1>2. \A n \in 1 .. Len(al) : al[n].start \in Nat /\ al[n].size \in Nat \ {0}
  BY <1>1, Zenon DEF AreaSet
<1>3. Len(al) \in Nat /\ al[1].start = Start /\ al[Len(al)].start + al[Len(al)].size = End
  BY DEF Covers
<1>4. i = 1 \/ al[1].start + al[1].size =< al[i].start
  BY <1>3, InOrder
<1>5. i = Len(al) \/ al[i].start + al[i].size =< al[Len(al)].start
  BY <1>3, InOrder
<1>6. i \in 1 .. Len(al) /\ 1 \in 1 .. Len(al) /\ Len(al) \in 1 .. Len(al)
  BY <1>3
<1>7. Start =< al[i].start
  BY <1>2, <1>3, <1>4, <1>6
<1>8. al[i].start + al[i].size =< End
  BY <1>2, <1>3, <1>5, <1>6
<1>9. QED
  BY <1>7, <1>8, Zenon
-----------------------------------------------------------------------------
\* What is needed of the entries of a list that covers the range.
LEMMA Entries ==
  ASSUME NEW al, Covers(al)
  PROVE  /\ al \in Seq(AreaSet) /\ Len(al) \in Nat \ {0}
         /\ \A k \in 1 .. Len(al) : /\ al[k] \in AreaSet /\ al[k].state \in {"FREE", "LAZY", "ALLOCATED"}
                                    /\ al[k].start \in Nat /\ al[k].size \in Nat \ {0}
                                    /\ al[k].start = FirstPage(al[k]) * PageSize
         /\ \A k \in 1 .. Len(al) - 1 : al[k].start + al[k].size = al[k + 1].start
<1>1. al \in Seq(AreaSet) /\ Len(al) \in Nat \ {0}
  BY DEF Covers
<1>2. \A k \in 1 .. Len(al) : al[k] \in AreaSet
  BY <1>1
<1>3. \A k \in 1 .. Len(al) : /\ al[k].state \in {"FREE", "LAZY", "ALLOCATED"}
                              /\ al[k].start \in Nat /\ al[k].size \in Nat \ {0}
  BY <1>2, Zenon DEF AreaSet
<1>4. QED
  BY <1>1, <1>2, <1>3, Zenon DEF Covers, neighbors

\* The list L is al with x at i.
Changed(al, L, i, x) ==
  /\ Covers(L) /\ Len(L) = Len(al) /\ L[i] = x
  /\ \A k \in 1 .. Len(al) : k # i => L[k] = al[k]
  /\ Used(L) = (Used(al) \ {al[i]}) \cup {a \in {x} : a.state # "FREE"}

\* One entry changes and stays where it is.
LEMMA EntryChanged ==
  ASSUME NEW al, Covers(al), NEW i \in 1 .. Len(al),
         NEW x \in AreaSet, x.start = al[i].start, x.size = al[i].size,
         x.state = "FREE" => Blank(x)
  PROVE  Changed(al, [al EXCEPT ![i] = x], i, x)
<1>1. PICK L : L = [al EXCEPT ![i] = x]
  BY Zenon
<1>2. /\ al \in Seq(AreaSet) /\ Len(al) \in Nat \ {0}
      /\ L \in Seq(AreaSet) /\ Len(L) = Len(al) /\ L[i] = x
      /\ \A k \in 1 .. Len(al) : k # i => L[k] = al[k]
  BY <1>1, Entries, ExceptSeq
<1>3. \A k \in 1 .. Len(al) : L[k].start = al[k].start /\ L[k].size = al[k].size
  BY <1>2, Zenon
<1>4. Covers(L)
  <2>1. L # <<>> /\ L[1].start = Start /\ L[Len(L)].start + L[Len(L)].size = End
    BY <1>2, <1>3 DEF Covers
  <2>2. \A k \in 1 .. Len(L) - 1 : neighbors(L[k], L[k + 1])
    BY <1>2, <1>3 DEF Covers, neighbors
  <2>3. \A k \in 1 .. Len(L) : L[k].start = FirstPage(L[k]) * PageSize
    BY <1>2, <1>3, Zenon DEF Covers, FirstPage
  <2>4. \A k \in 1 .. Len(L) : L[k].state = "FREE" => Blank(L[k])
    BY <1>2, Zenon DEF Covers
  <2>5. QED
    BY <1>2, <2>1, <2>2, <2>3, <2>4, Zenon DEF Covers
<1>5. Used(L) = (Used(al) \ {al[i]}) \cup {a \in {x} : a.state # "FREE"}
  <2>1. ASSUME NEW k \in 1 .. Len(al), L[k].state # "FREE"
        PROVE  L[k] \in (Used(al) \ {al[i]}) \cup {a \in {x} : a.state # "FREE"}
    <3>1. CASE k = i
      BY <1>2, <2>1, <3>1, Zenon
    <3>2. CASE k # i
      <4>1. L[k] = al[k] /\ al[k] # al[i]
        BY <1>2, <3>2, EntriesDiffer, Zenon
      <4>2. QED
        BY <2>1, <4>1, Zenon DEF Used
    <3>3. QED
      BY <3>1, <3>2, Zenon
  <2>2. ASSUME NEW a \in Used(al), a # al[i]
        PROVE  a \in Used(L)
    <3>1. PICK k \in 1 .. Len(al) : a = al[k] /\ al[k].state # "FREE"
      BY Zenon DEF Used
    <3>2. k # i /\ L[k] = a
      BY <1>2, <2>2, <3>1, Zenon
    <3>3. QED
      BY <1>2, <3>1, <3>2, Zenon DEF Used
  <2>3. x.state # "FREE" => x \in Used(L)
    BY <1>2, Zenon DEF Used
  <2>4. Used(L) \subseteq (Used(al) \ {al[i]}) \cup {a \in {x} : a.state # "FREE"}
    BY <1>2, <2>1 DEF Used
  <2>5. QED
    BY <2>2, <2>3, <2>4, Zenon
<1>6. QED
  BY <1>1, <1>2, <1>4, <1>5, Zenon DEF Changed

\* Two free neighbours become one.
LEMMA NeighborsMerged ==
  ASSUME NEW al, Covers(al), NEW i \in 1 .. Len(al) - 1
  PROVE  \/ /\ merge_neighbor(al, i) = al
            /\ ~(al[i].state = "FREE" /\ al[i + 1].state = "FREE")
         \/ /\ al[i].state = "FREE" /\ al[i + 1].state = "FREE"
            /\ Covers(merge_neighbor(al, i)) /\ Len(merge_neighbor(al, i)) = Len(al) - 1
            /\ Used(merge_neighbor(al, i)) = Used(al)
            /\ merge_neighbor(al, i)[i].state = "FREE"
            /\ \A k \in 1 .. i - 1 : merge_neighbor(al, i)[k] = al[k]
            /\ \A k \in i + 1 .. Len(al) - 1 : merge_neighbor(al, i)[k] = al[k + 1]
<1>1. CASE ~(al[i].state = "FREE" /\ al[i + 1].state = "FREE")
  BY <1>1, Zenon DEF merge_neighbor
<1>2. CASE al[i].state = "FREE" /\ al[i + 1].state = "FREE"
  <2> DEFINE x == [al[i] EXCEPT !.size = @ + al[i + 1].size]
  <2>1. /\ al \in Seq(AreaSet) /\ Len(al) \in Nat \ {0} /\ i \in 1 .. Len(al) /\ i + 1 \in 1 .. Len(al)
        /\ al[i] \in AreaSet /\ al[i + 1] \in AreaSet
        /\ al[i].start \in Nat /\ al[i].size \in Nat \ {0} /\ al[i + 1].size \in Nat \ {0}
    BY Entries
  <2>2. /\ x \in AreaSet /\ x.start = al[i].start /\ x.size = al[i].size + al[i + 1].size
        /\ x.state = "FREE" /\ x.flags = al[i].flags
    <3>1. PICK n : n = al[i].size + al[i + 1].size
      BY Zenon
    <3>2. n \in Nat \ {0}
      BY <2>1, <3>1
    <3>3. x = [al[i] EXCEPT !.size = n]
      BY <3>1, Zenon
    <3>4. QED
      BY <1>2, <2>1, <3>1, <3>2, <3>3, Zenon DEF AreaSet
  <2>3. Blank(x)
    <3>1. Blank(al[i])
      BY <1>2, <2>1, Zenon DEF Covers
    <3>2. x.nr = al[i].nr /\ x.pages = al[i].pages
      BY <2>1, Zenon DEF AreaSet
    <3>3. QED
      BY <2>2, <3>1, <3>2, Zenon DEF Blank
  <2>4. PICK L : L = [al EXCEPT ![i] = x]
    BY Zenon
  <2>5. /\ L \in Seq(AreaSet) /\ Len(L) = Len(al) /\ L[i] = x
        /\ \A k \in 1 .. Len(al) : k # i => L[k] = al[k]
    BY <2>1, <2>2, <2>4, ExceptSeq
  <2>6. PICK R : R = Without(L, i + 1)
    BY Zenon
  <2>7. /\ R \in Seq(AreaSet) /\ Len(R) = Len(al) - 1
        /\ \A k \in 1 .. Len(al) - 1 : R[k] = IF k < i + 1 THEN L[k] ELSE L[k + 1]
    <3>1. i + 1 \in 1 .. Len(L)
      BY <2>1, <2>5, Zenon
    <3>2. PICK n : n = i + 1
      BY Zenon
    <3>3. /\ Without(L, n) \in Seq(AreaSet) /\ Len(Without(L, n)) = Len(L) - 1
          /\ \A k \in 1 .. Len(L) - 1 : Without(L, n)[k] = IF k < n THEN L[k] ELSE L[k + 1]
      BY <2>5, <3>1, <3>2, WithoutIs, ZenonT(30)
    <3>4. QED
      BY <2>5, <2>6, <3>2, <3>3, Zenon
  <2>8. /\ R[i] = x
        /\ \A k \in 1 .. i - 1 : R[k] = al[k]
        /\ \A k \in i + 1 .. Len(al) - 1 : R[k] = al[k + 1]
    <3> HIDE DEF x
    <3>1. R[i] = x
      BY <2>1, <2>5, <2>7
    <3>2. ASSUME NEW k \in 1 .. i - 1 PROVE R[k] = al[k]
      <4>1. k \in 1 .. Len(al) - 1 /\ k < i + 1 /\ k \in 1 .. Len(al) /\ k # i
        BY <2>1
      <4>2. R[k] = L[k]
        BY <2>7, <4>1, Zenon
      <4>3. QED
        BY <2>5, <4>1, <4>2, Zenon
    <3>3. ASSUME NEW k \in i + 1 .. Len(al) - 1 PROVE R[k] = al[k + 1]
      <4>1. k \in 1 .. Len(al) - 1 /\ ~(k < i + 1) /\ k + 1 \in 1 .. Len(al) /\ k + 1 # i
        BY <2>1
      <4>2. R[k] = L[k + 1]
        BY <2>7, <4>1, Zenon
      <4>3. QED
        BY <2>5, <4>1, <4>2, Zenon
    <3>4. QED
      BY <3>1, <3>2, <3>3, Zenon
  <2>9. merge_neighbor(al, i) = R
    <3>1. neighbors(al[i], al[i + 1])
      BY Zenon DEF Covers
    <3>2. L = [al EXCEPT ![i].size = @ + al[i + 1].size]
      BY <2>4, Zenon
    <3>3. QED
      BY <1>2, <2>6, <3>1, <3>2, Zenon DEF merge_neighbor
  <2> HIDE DEF x
  <2>10. Covers(R)
    <3>1. R # <<>>
      BY <2>1, <2>7
    <3>2. R[1].start = Start
      <4>1. CASE i = 1
        BY <2>2, <2>8, <4>1, Zenon DEF Covers
      <4>2. CASE i > 1
        BY <2>1, <2>8, <4>2 DEF Covers
      <4>3. QED
        BY <4>1, <4>2
    <3>3. R[Len(R)].start + R[Len(R)].size = End
      <4>1. al[Len(al)].start + al[Len(al)].size = End
        BY Zenon DEF Covers
      <4>2. CASE i = Len(al) - 1
        <5>1. al[i].start + al[i].size = al[i + 1].start
          BY Entries, Zenon
        <5>2. i + 1 = Len(al) /\ Len(R) = i
          BY <2>1, <2>7, <4>2
        <5>3. al[i + 1].start + al[i + 1].size = End
          BY <4>1, <5>2, Zenon
        <5>4. QED
          BY <2>1, <2>2, <2>8, <5>1, <5>2, <5>3
      <4>3. CASE i < Len(al) - 1
        <5>1. Len(R) \in i + 1 .. Len(al) - 1 /\ Len(R) + 1 = Len(al)
          BY <2>1, <2>7, <4>3
        <5>2. R[Len(R)] = al[Len(R) + 1]
          BY <2>8, <5>1, Zenon
        <5>3. QED
          BY <4>1, <5>1, <5>2, Zenon
      <4>4. QED
        BY <2>1, <4>2, <4>3
    <3>4. ASSUME NEW k \in 1 .. Len(R) - 1
          PROVE  R[k].start + R[k].size = R[k + 1].start
      <4>1. \A n \in 1 .. Len(al) - 1 : al[n].start + al[n].size = al[n + 1].start
        BY Entries, Zenon
      <4>2. CASE k < i - 1
        <5>1. R[k] = al[k] /\ R[k + 1] = al[k + 1] /\ k \in 1 .. Len(al) - 1
          BY <2>1, <2>8, <4>2, SMTT(30)
        <5>2. QED
          BY <4>1, <5>1, Zenon
      <4>3. CASE k = i - 1
        <5>1. R[k] = al[k] /\ k + 1 = i /\ k \in 1 .. Len(al) - 1
          BY <2>1, <2>8, <4>3
        <5>2. al[k].start + al[k].size = al[k + 1].start
          BY <4>1, <5>1, Zenon
        <5>3. R[k + 1].start = al[k + 1].start
          BY <2>2, <2>8, <5>1, Zenon
        <5>4. QED
          BY <5>1, <5>2, <5>3, Zenon
      <4>4. CASE k = i
        <5>1. R[k] = x /\ R[k + 1] = al[k + 1 + 1] /\ k + 1 \in 1 .. Len(al) - 1
          BY <2>1, <2>7, <2>8, <4>4
        <5>2. al[k + 1].start + al[k + 1].size = al[k + 1 + 1].start
          BY <4>1, <5>1, Zenon
        <5>3. al[i].start + al[i].size = al[i + 1].start
          BY <4>1, Zenon
        <5>4. QED
          BY <2>1, <2>2, <4>4, <5>1, <5>2, <5>3
      <4>5. CASE k > i
        <5>1. R[k] = al[k + 1] /\ R[k + 1] = al[k + 1 + 1] /\ k + 1 \in 1 .. Len(al) - 1
          BY <2>1, <2>7, <2>8, <4>5
        <5>2. QED
          BY <4>1, <5>1, Zenon
      <4>6. QED
        BY <2>1, <4>2, <4>3, <4>4, <4>5
    <3>5. ASSUME NEW k \in 1 .. Len(R)
          PROVE  R[k].start = FirstPage(R[k]) * PageSize /\ (R[k].state = "FREE" => Blank(R[k]))
      <4>1. CASE k = i
        BY <2>1, <2>2, <2>3, <2>8, <4>1, Zenon DEF Covers, FirstPage
      <4>2. CASE k < i
        BY <2>1, <2>8, <4>2, SMTT(30) DEF Covers
      <4>3. CASE k > i
        <5>1. R[k] = al[k + 1] /\ k + 1 \in 1 .. Len(al)
          BY <2>1, <2>7, <2>8, <4>3
        <5>2. QED
          BY <5>1, Zenon DEF Covers
      <4>4. QED
        BY <2>1, <4>1, <4>2, <4>3
    <3>6. QED
      BY <2>7, <3>1, <3>2, <3>3, <3>4, <3>5, Zenon DEF Covers, neighbors
  <2>11. Used(R) = Used(al)
    <3>1. ASSUME NEW k \in 1 .. Len(R), R[k].state # "FREE"
          PROVE  R[k] \in Used(al)
      <4>1. k # i
        BY <2>2, <2>8, <3>1, Zenon
      <4>2. \E n \in 1 .. Len(al) : R[k] = al[n]
        <5>1. CASE k < i
          BY <2>1, <2>8, <5>1
        <5>2. CASE k > i
          BY <2>1, <2>7, <2>8, <5>2
        <5>3. QED
          BY <2>1, <4>1, <5>1, <5>2
      <4>3. QED
        BY <3>1, <4>2, Zenon DEF Used
    <3>2. ASSUME NEW k \in 1 .. Len(al), al[k].state # "FREE"
          PROVE  al[k] \in Used(R)
      <4>1. k # i /\ k # i + 1
        BY <1>2, <3>2, Zenon
      <4>2. \E n \in 1 .. Len(R) : R[n] = al[k]
        <5>1. CASE k < i
          BY <2>1, <2>7, <2>8, <5>1
        <5>2. CASE k > i + 1
          <6>1. k - 1 \in i + 1 .. Len(al) - 1 /\ k - 1 + 1 = k
            BY <2>1, <5>2
          <6>2. R[k - 1] = al[k]
            BY <2>8, <6>1, Zenon
          <6>3. QED
            BY <2>1, <2>7, <6>1, <6>2
        <5>3. QED
          BY <2>1, <4>1, <5>1, <5>2
      <4>3. QED
        BY <3>2, <4>2, Zenon DEF Used
    <3>3. QED
      BY <3>1, <3>2, Zenon DEF Used
  <2>12. QED
    BY <1>2, <2>2, <2>7, <2>8, <2>9, <2>10, <2>11, Zenon
<1>3. QED
  BY <1>1, <1>2, Zenon

\* vma_merge_area around a free area leaves no free neighbours.
LEMMA AreaMerged ==
  ASSUME NEW al, Covers(al), NEW i \in 1 .. Len(al), al[i].state = "FREE", MergedBut(al, i)
  PROVE  /\ Covers(vma_merge_area(al, i)) /\ Merged(vma_merge_area(al, i))
         /\ Used(vma_merge_area(al, i)) = Used(al)
<1>1. PICK L : L = IF i < Len(al) THEN merge_neighbor(al, i) ELSE al
  BY Zenon
<1>2. Len(al) \in Nat \ {0}
  BY Entries, Zenon
<1>3. /\ Covers(L) /\ Used(L) = Used(al) /\ i \in 1 .. Len(L) /\ L[i].state = "FREE"
      /\ \A k \in 1 .. i - 1 : L[k] = al[k]
      /\ \A n \in i .. Len(L) - 1 : ~(L[n].state = "FREE" /\ L[n + 1].state = "FREE")
  <2>1. CASE i < Len(al) /\ al[i + 1].state = "FREE"
    <3>1. i \in 1 .. Len(al) - 1 /\ L = merge_neighbor(al, i)
      BY <1>1, <1>2, <2>1
    <3>2. /\ Covers(L) /\ Len(L) = Len(al) - 1 /\ Used(L) = Used(al) /\ L[i].state = "FREE"
          /\ \A k \in 1 .. i - 1 : L[k] = al[k]
          /\ \A k \in i + 1 .. Len(al) - 1 : L[k] = al[k + 1]
      BY <2>1, <3>1, NeighborsMerged, Zenon
    <3>3. ASSUME NEW n \in i .. Len(L) - 1
          PROVE  ~(L[n].state = "FREE" /\ L[n + 1].state = "FREE")
      <4>1. n + 1 \in 1 .. Len(al) - 1 /\ n + 1 # i /\ n + 1 + 1 # i /\ L[n + 1] = al[n + 1 + 1]
        BY <1>2, <3>1, <3>2
      <4>2. ~(al[n + 1].state = "FREE" /\ al[n + 1 + 1].state = "FREE")
        BY <4>1, Zenon DEF MergedBut
      <4>3. n = i \/ L[n] = al[n + 1]
        BY <1>2, <3>1, <3>2, SMTT(30)
      <4>4. QED
        BY <2>1, <4>1, <4>2, <4>3, Zenon
    <3>4. i \in 1 .. Len(L)
      BY <1>2, <3>1, <3>2, Zenon
    <3>5. QED
      BY <3>2, <3>3, <3>4, Zenon
  <2>2. CASE ~(i < Len(al) /\ al[i + 1].state = "FREE")
    <3>1. L = al
      <4>1. CASE i < Len(al)
        <5>1. i \in 1 .. Len(al) - 1
          BY <1>2, <4>1
        <5>2. QED
          BY <1>1, <2>2, <4>1, <5>1, NeighborsMerged, Zenon
      <4>2. QED
        BY <1>1, <4>1, Zenon
    <3>2. ASSUME NEW n \in i .. Len(L) - 1
          PROVE  ~(L[n].state = "FREE" /\ L[n + 1].state = "FREE")
      <4>1. CASE n = i
        BY <1>2, <2>2, <3>1, <4>1
      <4>2. CASE n > i
        BY <1>2, <3>1, <4>2 DEF MergedBut
      <4>3. QED
        BY <1>2, <4>1, <4>2
    <3>3. QED
      BY <3>1, <3>2, Zenon
  <2>3. QED
    BY <2>1, <2>2, Zenon
<1>4. \A n \in 1 .. Len(L) - 1 : n + 1 # i => ~(L[n].state = "FREE" /\ L[n + 1].state = "FREE")
  <2> SUFFICES ASSUME NEW n \in 1 .. Len(L) - 1, n + 1 # i
               PROVE  ~(L[n].state = "FREE" /\ L[n + 1].state = "FREE")
    BY Zenon
  <2>1. CASE n >= i
    BY <1>2, <1>3, <2>1
  <2>2. CASE n < i
    <3>1. n \in 1 .. i - 1 /\ n + 1 \in 1 .. i - 1 /\ n \in 1 .. Len(al) - 1 /\ n # i
      BY <1>2, <2>2
    <3>2. L[n] = al[n] /\ L[n + 1] = al[n + 1]
      BY <1>3, <3>1, Zenon
    <3>3. QED
      BY <3>1, <3>2, Zenon DEF MergedBut
  <2>3. QED
    BY <1>2, <2>1, <2>2
<1>5. Len(L) \in Nat \ {0}
  BY <1>3, Entries, Zenon
<1>6. CASE i = 1
  <2>1. vma_merge_area(al, i) = L
    BY <1>1, <1>6 DEF vma_merge_area
  <2>2. Merged(L)
    BY <1>4, <1>6 DEF Merged, MergedBut
  <2>3. QED
    BY <1>3, <2>1, <2>2, Zenon
<1>7. CASE i > 1
  <2>1. PICK R : R = merge_neighbor(L, i - 1)
    BY Zenon
  <2>2. vma_merge_area(al, i) = R
    BY <1>1, <1>7, <2>1, Zenon DEF vma_merge_area
  <2>3. i - 1 \in 1 .. Len(L) - 1 /\ i - 1 + 1 = i
    BY <1>3, <1>5, <1>7
  <2>4. CASE L[i - 1].state = "FREE"
    <3>1. /\ Covers(R) /\ Len(R) = Len(L) - 1 /\ Used(R) = Used(L) /\ R[i - 1].state = "FREE"
          /\ \A k \in 1 .. i - 1 - 1 : R[k] = L[k]
          /\ \A k \in i .. Len(L) - 1 : R[k] = L[k + 1]
      <4>1. ~(R = L /\ ~(L[i - 1].state = "FREE" /\ L[i - 1 + 1].state = "FREE"))
        BY <1>3, <2>3, <2>4, Zenon
      <4>2. /\ Covers(R) /\ Len(R) = Len(L) - 1 /\ Used(R) = Used(L) /\ R[i - 1].state = "FREE"
            /\ \A k \in 1 .. i - 1 - 1 : R[k] = L[k]
            /\ \A k \in i - 1 + 1 .. Len(L) - 1 : R[k] = L[k + 1]
        BY <1>3, <2>1, <2>3, <4>1, NeighborsMerged
      <4>3. QED
        BY <2>3, <4>2, Zenon
    <3>2. ASSUME NEW n \in 1 .. Len(R) - 1
          PROVE  ~(R[n].state = "FREE" /\ R[n + 1].state = "FREE")
      <4>1. CASE n >= i - 1
        <5>1. n + 1 \in i .. Len(L) - 1 /\ n + 1 \in 1 .. Len(L) - 1 /\ n + 1 + 1 # i
          BY <1>3, <1>5, <3>1, <4>1
        <5>2. R[n + 1] = L[n + 1 + 1] /\ ~(L[n + 1].state = "FREE" /\ L[n + 1 + 1].state = "FREE")
          BY <1>4, <3>1, <5>1, Zenon
        <5>3. n = i - 1 \/ (n \in i .. Len(L) - 1 /\ R[n] = L[n + 1])
          BY <1>3, <1>5, <3>1, <4>1
        <5>4. n = i - 1 => n + 1 = i
          BY <1>3
        <5>5. QED
          BY <1>3, <5>2, <5>3, <5>4, Zenon
      <4>2. CASE n < i - 1
        <5>1. n \in 1 .. i - 1 - 1 /\ n \in 1 .. Len(L) - 1 /\ n + 1 # i
          BY <1>3, <1>5, <3>1, <4>2
        <5>2. R[n] = L[n] /\ ~(L[n].state = "FREE" /\ L[n + 1].state = "FREE")
          BY <1>4, <3>1, <5>1, Zenon
        <5>3. n + 1 = i - 1 \/ (n + 1 \in 1 .. i - 1 - 1 /\ R[n + 1] = L[n + 1])
          BY <1>3, <1>5, <3>1, <4>2
        <5>4. QED
          BY <2>4, <5>2, <5>3, Zenon
      <4>3. QED
        BY <1>3, <1>5, <3>1, <4>1, <4>2
    <3>3. Merged(R)
      BY <3>2, Zenon DEF Merged, MergedBut
    <3>4. QED
      BY <1>3, <2>2, <3>1, <3>3, Zenon
  <2>5. CASE L[i - 1].state # "FREE"
    <3>1. R = L
      BY <1>3, <2>1, <2>3, <2>5, NeighborsMerged, Zenon
    <3>2. Merged(L)
      <4> SUFFICES ASSUME NEW n \in 1 .. Len(L) - 1
                   PROVE  ~(L[n].state = "FREE" /\ L[n + 1].state = "FREE")
        BY Zenon DEF Merged, MergedBut
      <4>1. n + 1 = i => n = i - 1
        BY <1>3, <1>5
      <4>2. QED
        BY <1>4, <2>5, <4>1, Zenon
    <3>3. QED
      BY <1>3, <2>2, <3>1, <3>2, Zenon
  <2>6. QED
    BY <2>4, <2>5, Zenon
<1>8. QED
  BY <1>6, <1>7

\* vma_destroy_area and vfree, on the list: the area is free again.
LEMMA AreaFreed ==
  ASSUME NEW al, Covers(al), Merged(al), NEW i \in 1 .. Len(al),
         NEW x \in AreaSet, x.start = al[i].start, x.size = al[i].size,
         x.state = "FREE", Blank(x)
  PROVE  /\ Covers(vma_merge_area([al EXCEPT ![i] = x], i))
         /\ Merged(vma_merge_area([al EXCEPT ![i] = x], i))
         /\ Used(vma_merge_area([al EXCEPT ![i] = x], i)) = Used(al) \ {al[i]}
<1>1. PICK L : L = [al EXCEPT ![i] = x]
  BY Zenon
<1>2. /\ Covers(L) /\ Len(L) = Len(al) /\ L[i] = x
      /\ \A k \in 1 .. Len(al) : k # i => L[k] = al[k]
      /\ Used(L) = (Used(al) \ {al[i]}) \cup {a \in {x} : a.state # "FREE"}
  <2>1. x.state = "FREE" => Blank(x)
    BY Zenon
  <2>2. Changed(al, L, i, x)
    BY <1>1, <2>1, EntryChanged, Zenon
  <2>3. QED
    BY <2>2, Zenon DEF Changed
<1>3. Used(L) = Used(al) \ {al[i]}
  BY <1>2, Zenon
<1>4. Len(al) \in Nat \ {0}
  BY Entries, Zenon
<1>5. MergedBut(L, i)
  <2> SUFFICES ASSUME NEW n \in 1 .. Len(L) - 1, n # i, n + 1 # i
               PROVE  ~(L[n].state = "FREE" /\ L[n + 1].state = "FREE")
    BY Zenon DEF MergedBut
  <2>1. n \in 1 .. Len(al) /\ n + 1 \in 1 .. Len(al) /\ n # 0 /\ n + 1 # 0 /\ n \in 1 .. Len(al) - 1
    BY <1>2, <1>4
  <2>2. L[n] = al[n] /\ L[n + 1] = al[n + 1]
    BY <1>2, <2>1, Zenon
  <2>3. QED
    BY <2>1, <2>2, Zenon DEF Merged, MergedBut
<1>6. L[i].state = "FREE" /\ i \in 1 .. Len(L)
  BY <1>2, Zenon
<1>7. QED
  BY <1>1, <1>2, <1>3, <1>5, <1>6, AreaMerged, Zenon
-----------------------------------------------------------------------------
\* A size rounded up is a whole number of pages.
LEMMA RoundedUp ==
  ASSUME NEW n \in Nat \ {0}
  PROVE  /\ DIV_ROUND_UP(n, PageSize) \in Nat \ {0}
         /\ ALIGN(n) = DIV_ROUND_UP(n, PageSize) * PageSize
         /\ ALIGN(n) \div PageSize = DIV_ROUND_UP(n, PageSize)
         /\ ALIGN(n) \in Nat \ {0}
<1>1. PICK q : q = (n + PageSize - 1) \div PageSize
  BY Zenon
<1>2. n + PageSize - 1 \in Nat /\ n + PageSize - 1 >= PageSize /\ PageSize \in Nat \ {0}
  BY PageArithmetic
<1>3. q \in Nat /\ n + PageSize - 1 < q * PageSize + PageSize /\ q * PageSize \in Int
  BY <1>1, <1>2, PageArithmetic
<1>4. q # 0
  BY <1>2, <1>3
<1>5. q * PageSize \in Nat \ {0}
  BY <1>2, <1>3, <1>4
<1>6. (q * PageSize) \div PageSize = q
  BY <1>3, PageArithmetic
<1>7. QED
  BY <1>1, <1>3, <1>4, <1>5, <1>6, Zenon DEF ALIGN, DIV_ROUND_UP

\* The record of a new area.
LEMMA TakenHole ==
  ASSUME NEW s, NEW n, NEW k
  PROVE  [Hole(s, n) EXCEPT !.state = "ALLOCATED", !.nr = k]
           = [state |-> "ALLOCATED", start |-> s, size |-> n, flags |-> 0, nr |-> k, pages |-> <<>>]
<1>1. PICK x : x = [state |-> "ALLOCATED", start |-> s, size |-> n, flags |-> 0, nr |-> 0, pages |-> <<>>]
  BY Zenon
<1>2. [Hole(s, n) EXCEPT !.state = "ALLOCATED"] = x
  BY <1>1 DEF Hole
<1>3. [x EXCEPT !.nr = k]
        = [state |-> "ALLOCATED", start |-> s, size |-> n, flags |-> 0, nr |-> k, pages |-> <<>>]
  BY <1>1
<1>4. [Hole(s, n) EXCEPT !.state = "ALLOCATED", !.nr = k] = [[Hole(s, n) EXCEPT !.state = "ALLOCATED"] EXCEPT !.nr = k]
  BY Zenon
<1>5. QED
  BY <1>2, <1>3, <1>4, Zenon

\* The list L is al with the front of the hole at i taken.
Divided(al, L, i, n) ==
  /\ Covers(L) /\ Merged(L) /\ i \in 1 .. Len(L)
  /\ L[i] \in AreaSet /\ L[i].state = "ALLOCATED"
  /\ L[i].start = al[i].start /\ L[i].size = ALIGN(n)
  /\ Used(L) = Used(al) \cup {L[i]} /\ L[i] \notin Used(al)

\* vma_split_area: the front of a hole becomes an area, the rest stays a hole.
LEMMA AreaSplit ==
  ASSUME NEW al, Covers(al), Merged(al), NEW i \in 1 .. Len(al), al[i].state = "FREE",
         NEW n \in Nat \ {0}, ALIGN(n) =< al[i].size
  PROVE  Divided(al, vma_split_area(al, i, n), i, n)
<1>1. PICK need : need = ALIGN(n)
  BY Zenon
<1>2. PICK nr : nr = need \div PageSize
  BY Zenon
<1>3. need \in Nat \ {0} /\ nr \in Nat /\ need = nr * PageSize
  BY <1>1, <1>2, RoundedUp, Zenon
<1>4. /\ al \in Seq(AreaSet) /\ Len(al) \in Nat \ {0} /\ al[i] \in AreaSet
      /\ al[i].start \in Nat /\ al[i].size \in Nat \ {0} /\ al[i].start = FirstPage(al[i]) * PageSize
  BY Entries, Zenon
<1>5. Blank(al[i])
  BY <1>4, Zenon DEF Covers
<1>6. \A a \in Used(al) : a.start # al[i].start
  <2> SUFFICES ASSUME NEW k \in 1 .. Len(al), al[k].state # "FREE"
               PROVE  al[k].start # al[i].start
    BY Zenon DEF Used
  <2>1. QED
    BY EntriesDiffer, Zenon
<1>7. CASE need = al[i].size
  <2> DEFINE x == [al[i] EXCEPT !.state = "ALLOCATED", !.nr = nr]
  <2>1. x \in AreaSet /\ x.start = al[i].start /\ x.size = al[i].size /\ x.state = "ALLOCATED"
    BY <1>3, <1>4, Zenon DEF AreaSet
  <2>2. PICK L : L = [al EXCEPT ![i] = x]
    BY Zenon
  <2>3. L = vma_split_area(al, i, n)
    <3>1. L = [al EXCEPT ![i].state = "ALLOCATED", ![i].nr = nr]
      BY <1>4, <2>2, Zenon
    <3>2. QED
      BY <1>1, <1>2, <1>7, <3>1, Zenon DEF vma_split_area
  <2> HIDE DEF x
  <2>4. x.state = "FREE" => Blank(x)
    BY <2>1, Zenon
  <2>5. Changed(al, L, i, x)
    BY <2>1, <2>2, <2>4, EntryChanged, Zenon
  <2>6. /\ Covers(L) /\ Len(L) = Len(al) /\ L[i] = x
        /\ \A k \in 1 .. Len(al) : k # i => L[k] = al[k]
        /\ Used(L) = (Used(al) \ {al[i]}) \cup {a \in {x} : a.state # "FREE"}
    BY <2>5, Zenon DEF Changed
  <2>7. Merged(L)
    <3> SUFFICES ASSUME NEW k \in 1 .. Len(L) - 1
                 PROVE  ~(L[k].state = "FREE" /\ L[k + 1].state = "FREE")
      BY Zenon DEF Merged, MergedBut
    <3>1. k \in 1 .. Len(al) /\ k + 1 \in 1 .. Len(al) /\ k \in 1 .. Len(al) - 1 /\ k # 0 /\ k + 1 # 0
      BY <1>4, <2>6
    <3>2. ~(al[k].state = "FREE" /\ al[k + 1].state = "FREE")
      BY <3>1, Zenon DEF Merged, MergedBut
    <3>3. QED
      BY <2>1, <2>6, <3>1, <3>2, Zenon
  <2>8. al[i] \notin Used(al)
    BY <1>6, Zenon
  <2>9. Used(L) = Used(al) \cup {L[i]} /\ L[i] \notin Used(al)
    BY <1>6, <2>1, <2>6, <2>8, Zenon
  <2>10. QED
    BY <1>1, <1>7, <2>1, <2>3, <2>6, <2>7, <2>9, Zenon DEF Divided
<1>8. CASE need # al[i].size
  <2> DEFINE h == [al[i] EXCEPT !.start = @ + need, !.size = @ - need]
             x == [Hole(al[i].start, need) EXCEPT !.state = "ALLOCATED", !.nr = nr]
  <2>1. al[i].start + need \in Nat /\ al[i].size - need \in Nat \ {0}
    BY <1>1, <1>3, <1>4, <1>8
  <2>2. /\ h \in AreaSet /\ h.start = al[i].start + need /\ h.size = al[i].size - need
        /\ h.state = "FREE" /\ h.flags = al[i].flags
    <3>1. PICK s, z : s = al[i].start + need /\ z = al[i].size - need
      BY Zenon
    <3>2. s \in Nat /\ z \in Nat \ {0} /\ h = [al[i] EXCEPT !.start = s, !.size = z]
      BY <2>1, <3>1, Zenon
    <3>3. QED
      BY <1>4, <3>1, <3>2, Zenon DEF AreaSet
  <2>3. Blank(h)
    <3>1. h.nr = al[i].nr /\ h.pages = al[i].pages
      BY <1>4, Zenon DEF AreaSet
    <3>2. QED
      BY <1>5, <2>2, <3>1, Zenon DEF Blank
  <2>4. /\ x \in AreaSet /\ x.start = al[i].start /\ x.size = need /\ x.state = "ALLOCATED"
    <3>1. x = [state |-> "ALLOCATED", start |-> al[i].start, size |-> need, flags |-> 0, nr |-> nr, pages |-> <<>>]
      BY TakenHole, Zenon
    <3>2. <<>> \in Seq(Nat)
      BY EmptySeq, Zenon
    <3> HIDE DEF x
    <3>3. QED
      BY <1>3, <1>4, <3>1, <3>2 DEF AreaSet
  <2>5. PICK H : H = [al EXCEPT ![i] = h]
    BY Zenon
  <2>6. PICK L : L = Before(H, i, x)
    BY Zenon
  <2>7. L = vma_split_area(al, i, n)
    <3>1. H = [al EXCEPT ![i].start = @ + need, ![i].size = @ - need]
      BY <1>4, <2>5, Zenon
    <3>2. QED
      BY <1>1, <1>2, <1>8, <2>6, <3>1 DEF vma_split_area
  <2> HIDE DEF h, x
  <2>8. /\ H \in Seq(AreaSet) /\ Len(H) = Len(al) /\ H[i] = h
        /\ \A k \in 1 .. Len(al) : k # i => H[k] = al[k]
    BY <1>4, <2>2, <2>5, ExceptSeq
  <2>9. /\ L \in Seq(AreaSet) /\ Len(L) = Len(al) + 1 /\ L[i] = x
        /\ \A k \in 1 .. Len(al) : k < i => L[k] = H[k]
        /\ \A k \in 1 .. Len(al) : k >= i => L[k + 1] = H[k]
    <3>1. i \in 1 .. Len(H)
      BY <2>8, Zenon
    <3>2. Inserted(AreaSet, H, L, i, x)
      BY <2>4, <2>6, <2>8, <3>1, BeforeIs, Zenon
    <3>3. QED
      BY <2>8, <3>2, Zenon DEF Inserted
  <2>10. L[i + 1] = h
    BY <2>8, <2>9
  <2>11. \A k \in 1 .. Len(al) : k < i => L[k] = al[k]
    BY <2>8, <2>9
  <2>12. \A k \in 1 .. Len(al) : k > i => L[k + 1] = al[k]
    BY <2>8, <2>9
  <2>13. Covers(L)
    <3>1. L # <<>>
      BY <1>4, <2>9
    <3>2. L[1].start = Start
      <4>1. al[1].start = Start
        BY Zenon DEF Covers
      <4>2. i = 1 \/ L[1] = al[1]
        BY <1>4, <2>11
      <4>3. QED
        BY <2>4, <2>9, <4>1, <4>2, Zenon
    <3>3. L[Len(L)].start + L[Len(L)].size = End
      <4>1. al[Len(al)].start + al[Len(al)].size = End
        BY Zenon DEF Covers
      <4>2. CASE i = Len(al)
        BY <1>3, <1>4, <2>2, <2>9, <2>10, <4>1, <4>2, SMTT(30)
      <4>3. CASE i < Len(al)
        BY <1>4, <2>9, <2>12, <4>1, <4>3, SMTT(30)
      <4>4. QED
        BY <1>4, <4>2, <4>3
    <3>4. ASSUME NEW k \in 1 .. Len(L) - 1
          PROVE  L[k].start + L[k].size = L[k + 1].start
      <4>1. \A j \in 1 .. Len(al) - 1 : al[j].start + al[j].size = al[j + 1].start
        BY Entries, Zenon
      <4>2. CASE k < i - 1
        <5>1. L[k] = al[k] /\ L[k + 1] = al[k + 1] /\ k \in 1 .. Len(al) - 1
          <6>1. k \in 1 .. Len(al) - 1 /\ k \in 1 .. Len(al) /\ k < i /\ k + 1 \in 1 .. Len(al) /\ k + 1 < i
            BY <1>4, <4>2
          <6>2. QED
            BY <2>11, <6>1, Zenon
        <5>2. QED
          BY <4>1, <5>1, Zenon
      <4>3. CASE k = i - 1
        <5>1. L[k] = al[k] /\ k + 1 = i /\ k \in 1 .. Len(al) - 1
          BY <1>4, <2>11, <4>3
        <5>2. al[k].start + al[k].size = al[k + 1].start
          BY <4>1, <5>1, Zenon
        <5>3. L[k + 1].start = al[k + 1].start
          BY <2>4, <2>9, <5>1, Zenon
        <5>4. QED
          BY <5>1, <5>2, <5>3, Zenon
      <4>4. CASE k = i
        BY <2>2, <2>4, <2>9, <2>10, <4>4, Zenon
      <4>5. CASE k = i + 1
        <5>1. i \in 1 .. Len(al) - 1 /\ i + 1 \in 1 .. Len(al) /\ i + 1 > i
          BY <1>4, <2>9, <4>5
        <5>2. L[k] = h /\ L[k + 1] = al[i + 1]
          BY <2>10, <2>12, <4>5, <5>1, Zenon
        <5>3. al[i].start + al[i].size = al[i + 1].start
          BY <4>1, <5>1, Zenon
        <5>4. QED
          BY <1>3, <1>4, <2>2, <5>2, <5>3, SMTT(30)
      <4>6. CASE k > i + 1
        <5>1. k - 1 \in 1 .. Len(al) - 1 /\ k - 1 > i /\ k \in 1 .. Len(al) /\ k > i /\ k - 1 + 1 = k
          BY <1>4, <2>9, <4>6
        <5>2. L[k - 1 + 1] = al[k - 1] /\ L[k + 1] = al[k]
          BY <1>4, <2>12, <5>1, k - 1 \in 1 .. Len(al)
        <5>3. al[k - 1].start + al[k - 1].size = al[k - 1 + 1].start
          BY <4>1, <5>1, Zenon
        <5>4. QED
          BY <5>1, <5>2, <5>3, Zenon
      <4>7. QED
        BY <1>4, <2>9, <4>2, <4>3, <4>4, <4>5, <4>6, SMTT(30)
    <3>5. ASSUME NEW k \in 1 .. Len(L)
          PROVE  L[k].start = FirstPage(L[k]) * PageSize /\ (L[k].state = "FREE" => Blank(L[k]))
      <4>1. CASE k = i
        BY <1>4, <2>4, <2>9, <4>1, Zenon DEF FirstPage
      <4>2. CASE k = i + 1
        <5>1. PICK p : p = FirstPage(al[i])
          BY Zenon
        <5>2. p \in Nat
          BY <1>4, <5>1, PageArithmetic, Zenon DEF FirstPage
        <5>3. h.start = (p + nr) * PageSize
          BY <1>3, <1>4, <2>2, <5>1, <5>2, PageArithmetic
        <5>4. FirstPage(h) = p + nr
          BY <1>3, <5>2, <5>3, PageArithmetic DEF FirstPage
        <5>5. QED
          BY <2>3, <2>10, <4>2, <5>3, <5>4, Zenon
      <4>3. CASE k < i
        BY <1>4, <2>11, <4>3 DEF Covers
      <4>4. CASE k > i + 1
        <5>1. k - 1 \in 1 .. Len(al) /\ k - 1 > i /\ k - 1 + 1 = k
          BY <1>4, <2>9, <4>4
        <5>2. L[k] = al[k - 1]
          BY <2>12, <5>1, Zenon
        <5>3. QED
          BY <5>1, <5>2, Zenon DEF Covers
      <4>5. QED
        BY <1>4, <2>9, <4>1, <4>2, <4>3, <4>4
    <3>6. QED
      BY <2>9, <3>1, <3>2, <3>3, <3>4, <3>5, Zenon DEF Covers, neighbors
  <2>14. Merged(L)
    <3> SUFFICES ASSUME NEW k \in 1 .. Len(L) - 1
                 PROVE  ~(L[k].state = "FREE" /\ L[k + 1].state = "FREE")
      BY Zenon DEF Merged, MergedBut
    <3>1. \A j \in 1 .. Len(al) - 1 : ~(al[j].state = "FREE" /\ al[j + 1].state = "FREE")
      BY <1>4 DEF Merged, MergedBut
    <3>2. CASE k < i - 1
      <4>1. L[k] = al[k] /\ L[k + 1] = al[k + 1] /\ k \in 1 .. Len(al) - 1
        <5>1. k \in 1 .. Len(al) - 1 /\ k \in 1 .. Len(al) /\ k < i /\ k + 1 \in 1 .. Len(al) /\ k + 1 < i
          BY <1>4, <3>2
        <5>2. QED
          BY <2>11, <5>1, Zenon
      <4>2. QED
        BY <3>1, <4>1, Zenon
    <3>3. CASE k = i - 1
      <4>1. k + 1 = i
        BY <3>3
      <4>2. QED
        BY <2>4, <2>9, <4>1, Zenon
    <3>4. CASE k = i
      BY <2>4, <2>9, <3>4, Zenon
    <3>5. CASE k = i + 1
      <4>1. i \in 1 .. Len(al) - 1 /\ i + 1 \in 1 .. Len(al) /\ i + 1 > i
        BY <1>4, <2>9, <3>5
      <4>2. L[k + 1] = al[i + 1]
        BY <2>12, <3>5, <4>1, Zenon
      <4>3. QED
        BY <3>1, <4>1, <4>2, Zenon
    <3>6. CASE k > i + 1
      <4>1. k - 1 \in 1 .. Len(al) - 1 /\ k - 1 > i /\ k \in 1 .. Len(al) /\ k > i /\ k - 1 + 1 = k
        BY <1>4, <2>9, <3>6
      <4>2. L[k - 1 + 1] = al[k - 1] /\ L[k + 1] = al[k]
        BY <1>4, <2>12, <4>1, k - 1 \in 1 .. Len(al)
      <4>3. QED
        BY <3>1, <4>1, <4>2, SMTT(30)
    <3>7. QED
      BY <1>4, <2>9, <3>2, <3>3, <3>4, <3>5, <3>6, SMTT(30)
  <2>15. Used(L) = Used(al) \cup {x}
    <3>1. ASSUME NEW k \in 1 .. Len(L), L[k].state # "FREE"
          PROVE  L[k] \in Used(al) \cup {x}
      <4>1. CASE k < i
        BY <1>4, <2>11, <3>1, <4>1 DEF Used
      <4>2. CASE k > i + 1
        <5>1. k - 1 \in 1 .. Len(al) /\ k - 1 > i /\ k - 1 + 1 = k
          BY <1>4, <2>9, <4>2
        <5>2. L[k] = al[k - 1]
          BY <2>12, <5>1, Zenon
        <5>3. QED
          BY <3>1, <5>1, <5>2, Zenon DEF Used
      <4>3. QED
        BY <1>4, <2>2, <2>9, <2>10, <3>1, <4>1, <4>2, SMTT(30)
    <3>2. ASSUME NEW k \in 1 .. Len(al), al[k].state # "FREE"
          PROVE  al[k] \in Used(L)
      <4>1. CASE k < i
        <5>1. L[k] = al[k] /\ k \in 1 .. Len(L)
          BY <1>4, <2>9, <2>11, <4>1
        <5>2. QED
          BY <3>2, <5>1, Zenon DEF Used
      <4>2. CASE k > i
        <5>1. L[k + 1] = al[k] /\ k + 1 \in 1 .. Len(L)
          BY <1>4, <2>9, <2>12, <4>2
        <5>2. QED
          BY <3>2, <5>1, Zenon DEF Used
      <4>3. QED
        BY <1>4, <3>2, <4>1, <4>2
    <3>3. x \in Used(L)
      <4>1. i \in 1 .. Len(L) /\ L[i].state # "FREE"
        BY <1>4, <2>4, <2>9
      <4>2. QED
        BY <2>9, <4>1, Zenon DEF Used
    <3>4. \A k \in 1 .. Len(L) : L[k].state # "FREE" => L[k] \in Used(al) \cup {x}
      BY <3>1, Zenon
    <3>5. \A k \in 1 .. Len(al) : al[k].state # "FREE" => al[k] \in Used(L)
      BY <3>2, Zenon
    <3>6. Used(L) \subseteq Used(al) \cup {x}
      BY <3>4, Zenon DEF Used
    <3>7. Used(al) \subseteq Used(L)
      BY <3>5, Zenon DEF Used
    <3>8. QED
      BY <3>3, <3>6, <3>7, Zenon
  <2>16. x \notin Used(al)
    BY <1>6, <2>4, Zenon
  <2>17. QED
    BY <1>1, <1>4, <2>4, <2>7, <2>9, <2>13, <2>14, <2>15, <2>16, SMTT(30) DEF Divided
<1>9. QED
  BY <1>7, <1>8, Zenon
-----------------------------------------------------------------------------
\* A page table's number is a number up to that of the last page.
LEMMA TableNumber ==
  ASSUME client \in Clients, NEW p \in VPages
  PROVE  p \in Nat /\ Table(p) \in 0 .. (End - 1) \div PageSize
<1>1. Start \in Nat /\ End - 1 \in Nat /\ PtSpan \in Nat \ {0}
  BY VmaAssumptions DEF End
<1>2. Start \div PageSize \in Nat /\ (End - 1) \div PageSize \in Nat
  BY <1>1, PageArithmetic, Zenon
<1>3. p \in Nat /\ p =< (End - 1) \div PageSize
  BY <1>2 DEF VPages
<1>4. p \div PtSpan \in Nat /\ p \div PtSpan =< p
  BY <1>1, <1>3
<1>5. QED
  BY <1>2, <1>3, <1>4 DEF Table

\* Any set of page tables of the range is finite.
LEMMA TablesFinite ==
  ASSUME client \in Clients, NEW T, \A t \in T : \E p \in VPages : t = Table(p)
  PROVE  IsFiniteSet(T) /\ T \subseteq Int
<1>1. (End - 1) \div PageSize \in Nat
  BY VmaAssumptions, PageArithmetic DEF End
<1>2. T \in SUBSET (0 .. (End - 1) \div PageSize)
  BY TableNumber, Zenon
<1>3. IsFiniteSet(0 .. (End - 1) \div PageSize)
  BY <1>1, FS_Interval
<1>4. IsFiniteSet(T)
  BY <1>2, <1>3, FS_Subset, Zenon
<1>5. T \subseteq Int
  BY <1>1, <1>2
<1>6. QED
  BY <1>4, <1>5, Zenon

\* There are k different elements in a finite set that has as many.
LEMMA GivenIs ==
  ASSUME NEW S, IsFiniteSet(S), NEW k \in Nat, k =< Cardinality(S)
  PROVE  Given(S, k) \in [1 .. k -> S] /\ IsInjective(Given(S, k))
<1>1. PICK c : c = Cardinality(S)
  BY Zenon
<1>2. c \in Nat /\ ExistsBijection(1 .. c, S)
  BY <1>1, FS_CardinalityType, Zenon
<1>3. PICK g \in Bijection(1 .. c, S) : TRUE
  BY <1>2, Zenon DEF ExistsBijection
<1>4. g \in [1 .. c -> S] /\ \A a, b \in 1 .. c : g[a] = g[b] => a = b
  BY <1>3, Zenon DEF Bijection, Injection, IsInjective
<1>5. PICK f : f = [n \in 1 .. k |-> g[n]]
  BY Zenon
<1>6. f \in [1 .. k -> S] /\ \A a, b \in 1 .. k : f[a] = f[b] => a = b
  BY <1>1, <1>2, <1>4, <1>5
<1>7. IsInjective(f)
  BY <1>6, Zenon DEF IsInjective
<1>8. \E h \in [1 .. k -> S] : IsInjective(h)
  BY <1>6, <1>7, Zenon
<1>9. QED
  BY <1>8, Zenon DEF Given

(* What vma_map_area does: it takes the frames f, of them and of the page  *)
(* tables it maps the first d.                                             *)
Mapping(m, a, f, d) ==
  /\ Len(f) \in 0 .. Len(a.pages) /\ f \in [1 .. Len(f) -> m.hi]
  /\ \A n, k \in 1 .. Len(f) : f[n] = f[k] => n = k
  /\ d \in 0 .. Len(f)
  /\ IsFiniteSet(NewTables(m, a, d))
  /\ Cardinality(NewTables(m, a, d)) \in 0 .. m.low

LEMMA MapSteps ==
  ASSUME client \in Clients, NEW m \in Memory, NEW a \in AreaSet,
         \A n \in 1 .. Len(a.pages) : PageOf(a, n) \in VPages
  PROVE  Mapping(m, a, FramesFor(m, a), PagesMapped(m, a))
<1>1. m.hi \subseteq Frames /\ m.low \in Nat
  BY Zenon DEF Memory
<1>2. IsFiniteSet(m.hi) /\ Cardinality(m.hi) \in Nat
  <2>1. Arena[client].frames \in Nat
    BY VmaAssumptions, Zenon
  <2>2. IsFiniteSet(Frames)
    BY <2>1, FS_Interval DEF Frames
  <2>3. m.hi \in SUBSET Frames
    BY <1>1, Zenon
  <2>4. IsFiniteSet(m.hi)
    BY <2>2, <2>3, FS_Subset, Zenon
  <2>5. QED
    BY <2>4, FS_CardinalityType, Zenon
<1>3. a.pages \in Seq(Nat) /\ Len(a.pages) \in Nat
  BY DEF AreaSet
<1>4. PICK k : k = Min({Len(a.pages), Cardinality(m.hi)})
  BY Zenon
<1>5. k \in Nat /\ k =< Len(a.pages) /\ k =< Cardinality(m.hi)
  <2>1. {Len(a.pages), Cardinality(m.hi)} \in SUBSET Nat
    BY <1>2, <1>3, Zenon
  <2>2. k \in {Len(a.pages), Cardinality(m.hi)} /\ \A y \in {Len(a.pages), Cardinality(m.hi)} : k =< y
    BY <1>4, <2>1, MinIs, Zenon
  <2>3. QED
    BY <2>1, <2>2, Zenon
<1>6. PICK f : f = FramesFor(m, a)
  BY Zenon
<1>7. f \in [1 .. k -> m.hi] /\ \A x, y \in 1 .. k : f[x] = f[y] => x = y
  <2>1. f = Given(m.hi, k)
    BY <1>4, <1>6, Zenon DEF FramesFor
  <2>2. f \in [1 .. k -> m.hi] /\ IsInjective(f)
    BY <1>2, <1>5, <2>1, GivenIs, Zenon
  <2>3. QED
    BY <2>2, Zenon DEF IsInjective
<1>8. Len(f) = k
  <2>1. f = [n \in 1 .. k |-> f[n]]
    BY <1>7, Zenon
  <2>2. Len([n \in 1 .. k |-> f[n]]) = k
    BY <1>5
  <2>3. QED
    BY <2>1, <2>2, Zenon
<1>9. PICK d : d = PagesMapped(m, a)
  BY Zenon
<1>10. \A x \in 0 .. Len(a.pages) : IsFiniteSet(NewTables(m, a, x))
  <2> SUFFICES ASSUME NEW x \in 0 .. Len(a.pages) PROVE IsFiniteSet(NewTables(m, a, x))
    BY Zenon
  <2>1. PICK T : T = NewTables(m, a, x)
    BY Zenon
  <2>2. \A t \in T : \E p \in VPages : t = Table(p)
    BY <1>3, <2>1 DEF NewTables
  <2>3. QED
    BY <2>1, <2>2, TablesFinite, Zenon
<1>11. d \in 0 .. k /\ Cardinality(NewTables(m, a, d)) =< m.low
  <2>1. PICK T : T = {x \in 0 .. Len(a.pages) : Cardinality(NewTables(m, a, x)) =< m.low}
    BY Zenon
  <2>2. Cardinality(NewTables(m, a, 0)) =< m.low
    <3>1. NewTables(m, a, 0) = {}
      BY DEF NewTables
    <3>2. Cardinality({}) = 0
      BY FS_EmptySet, Zenon
    <3>3. QED
      BY <1>1, <3>1, <3>2, SMTT(30)
  <2>3. T \in SUBSET (0 .. Len(a.pages)) /\ T # {}
    <3>1. 0 \in 0 .. Len(a.pages)
      BY <1>3
    <3>2. 0 \in T
      BY <2>1, <2>2, <3>1, Zenon
    <3>3. QED
      BY <2>1, <3>2, Zenon
  <2>4. Max(T) \in T
    BY <1>3, <2>3, MaxIs, Zenon
  <2>5. CASE Len(f) < Len(a.pages)
    BY <1>5, <1>6, <1>9, <2>2, <2>5 DEF PagesMapped
  <2>6. CASE ~(Len(f) < Len(a.pages))
    <3>1. d = Max(T)
      BY <1>6, <1>9, <2>1, <2>6, Zenon DEF PagesMapped
    <3>2. k = Len(a.pages)
      BY <1>3, <1>5, <1>8, <2>6
    <3>3. QED
      BY <2>1, <2>4, <3>1, <3>2, Zenon
  <2>7. QED
    BY <2>5, <2>6, Zenon
<1>12. IsFiniteSet(NewTables(m, a, d)) /\ Cardinality(NewTables(m, a, d)) \in Nat
  BY <1>3, <1>5, <1>10, <1>11, FS_CardinalityType
<1>13. QED
  BY <1>1, <1>5, <1>6, <1>7, <1>8, <1>9, <1>11, <1>12 DEF Mapping
-----------------------------------------------------------------------------
\* The slots of some areas are pairs of an area and an index.
LEMMA SlotsAre ==
  ASSUME NEW A, NEW x
  PROVE  x \in Slots(A) <=> \E a \in A : \E n \in 1 .. Len(a.pages) : a.pages[n] # NULL /\ x = <<a, n>>
<1>1. \A a : x \in {<<a, n>> : n \in {k \in 1 .. Len(a.pages) : a.pages[k] # NULL}}
             <=> \E n \in 1 .. Len(a.pages) : a.pages[n] # NULL /\ x = <<a, n>>
  BY Zenon
<1>2. x \in Slots(A) <=> \E a \in A : x \in {<<a, n>> : n \in {k \in 1 .. Len(a.pages) : a.pages[k] # NULL}}
  BY Zenon DEF Slots
<1>3. QED
  BY <1>1, <1>2, Zenon

\* The pages and the frames of those slots.
SlotPages(A) == {PageOf(x[1], x[2]) : x \in Slots(A)}
SlotFrames(A) == {x[1].pages[x[2]] : x \in Slots(A)}

\* They are those of the pairs.
LEMMA SlotContents ==
  ASSUME NEW A
  PROVE  /\ \A p : p \in SlotPages(A) <=>
                   \E a \in A : \E n \in 1 .. Len(a.pages) : a.pages[n] # NULL /\ p = PageOf(a, n)
         /\ \A f : f \in SlotFrames(A) <=>
                   \E a \in A : \E n \in 1 .. Len(a.pages) : a.pages[n] # NULL /\ f = a.pages[n]
<1>1. \A p : p \in SlotPages(A) <=> \E a \in A : \E n \in 1 .. Len(a.pages) : a.pages[n] # NULL /\ p = PageOf(a, n)
  <2>1. ASSUME NEW p, p \in SlotPages(A)
        PROVE  \E a \in A : \E n \in 1 .. Len(a.pages) : a.pages[n] # NULL /\ p = PageOf(a, n)
    <3>1. PICK x \in Slots(A) : p = PageOf(x[1], x[2])
      BY <2>1, Zenon DEF SlotPages
    <3>2. PICK a \in A : \E n \in 1 .. Len(a.pages) : a.pages[n] # NULL /\ x = <<a, n>>
      BY <3>1, SlotsAre
    <3>3. QED
      BY <3>1, <3>2
  <2>2. ASSUME NEW a \in A, NEW n \in 1 .. Len(a.pages), a.pages[n] # NULL
        PROVE  PageOf(a, n) \in SlotPages(A)
    <3>1. PICK x : x = <<a, n>>
      BY Zenon
    <3>2. x \in Slots(A) /\ x[1] = a /\ x[2] = n
      BY <2>2, <3>1, SlotsAre, Zenon
    <3>3. QED
      BY <3>2, Zenon DEF SlotPages
  <2>3. QED
    BY <2>1, <2>2, Zenon
<1>2. \A f : f \in SlotFrames(A) <=> \E a \in A : \E n \in 1 .. Len(a.pages) : a.pages[n] # NULL /\ f = a.pages[n]
  <2>1. ASSUME NEW f, f \in SlotFrames(A)
        PROVE  \E a \in A : \E n \in 1 .. Len(a.pages) : a.pages[n] # NULL /\ f = a.pages[n]
    <3>1. PICK x \in Slots(A) : f = x[1].pages[x[2]]
      BY <2>1, Zenon DEF SlotFrames
    <3>2. PICK a \in A : \E n \in 1 .. Len(a.pages) : a.pages[n] # NULL /\ x = <<a, n>>
      BY <3>1, SlotsAre
    <3>3. QED
      BY <3>1, <3>2
  <2>2. ASSUME NEW a \in A, NEW n \in 1 .. Len(a.pages), a.pages[n] # NULL
        PROVE  a.pages[n] \in SlotFrames(A)
    <3>1. PICK x : x = <<a, n>>
      BY Zenon
    <3>2. x \in Slots(A) /\ x[1] = a /\ x[2] = n
      BY <2>2, <3>1, SlotsAre, Zenon
    <3>3. QED
      BY <3>2, Zenon DEF SlotFrames
  <2>3. QED
    BY <2>1, <2>2, Zenon
<1>3. QED
  BY <1>1, <1>2, Zenon

\* What ReleaseAll leaves of the page tables, and the tables it frees.
Emptied(m, A) == [p \in VPages |-> IF p \in SlotPages(A) THEN NULL ELSE m.pte[p]]
Vacated(m, A) == {t \in m.tables : /\ \E p \in SlotPages(A) : Table(p) = t /\ m.pte[p] # NULL
                                   /\ \A p \in VPages : Table(p) = t => Emptied(m, A)[p] = NULL}

\* Its result, field by field.
LEMMA ReleaseIs ==
  ASSUME NEW m \in Memory, NEW A
  PROVE  ReleaseAll(m, A) = [hi     |-> m.hi \cup SlotFrames(A),
                             low    |-> m.low + Cardinality(Vacated(m, A)),
                             tables |-> m.tables \ Vacated(m, A),
                             pte    |-> Emptied(m, A)]
<1>1. PICK P, F, Q, G : P = SlotPages(A) /\ F = SlotFrames(A) /\ Q = Emptied(m, A) /\ G = Vacated(m, A)
  BY Zenon
<1>2. Q = [p \in VPages |-> IF p \in P THEN NULL ELSE m.pte[p]]
  BY <1>1, Zenon DEF Emptied
<1>3. G = {t \in m.tables : /\ \E p \in P : Table(p) = t /\ m.pte[p] # NULL
                            /\ \A p \in VPages : Table(p) = t => Q[p] = NULL}
  BY <1>1, Zenon DEF Vacated
<1>4. Unmap(m, P) = [m EXCEPT !.pte = Q, !.tables = m.tables \ G, !.low = m.low + Cardinality(G)]
  BY <1>2, <1>3, Zenon DEF Unmap, Memory
<1>5. Unmap(m, P) = [hi |-> m.hi, low |-> m.low + Cardinality(G), tables |-> m.tables \ G, pte |-> Q]
  BY <1>4, Zenon DEF Memory
<1>6. ReleaseAll(m, A) = [Unmap(m, P) EXCEPT !.hi = Unmap(m, P).hi \cup F]
  BY <1>1, Zenon DEF ReleaseAll, SlotPages, SlotFrames
<1>7. PICK v : v = Unmap(m, P)
  BY Zenon
<1>8. [v EXCEPT !.hi = v.hi \cup F] = [hi |-> m.hi \cup F, low |-> m.low + Cardinality(G), tables |-> m.tables \ G, pte |-> Q]
  BY <1>5, <1>7
<1>9. QED
  BY <1>1, <1>6, <1>7, <1>8, Zenon

\* Releasing areas: their frames are free, their pages not mapped.
LEMMA Released ==
  ASSUME client \in Clients, NEW U, NEW A, A \subseteq U, NEW m,
         Apart(U), Owned(U, m), Mirrors(U, m)
  PROVE  Owned(U \ A, ReleaseAll(m, A)) /\ Mirrors(U \ A, ReleaseAll(m, A))
<1> DEFINE P == SlotPages(A)
           F == SlotFrames(A)
           Q == Emptied(m, A)
           G == Vacated(m, A)
<1>1. PICK s : s = ReleaseAll(m, A)
  BY Zenon
<1>2. /\ m \in Memory /\ IsFiniteSet(m.tables) /\ m.hi \subseteq Frames /\ m.low \in Nat
      /\ m.tables \subseteq Int /\ m.pte \in [VPages -> Nat]
  BY Zenon DEF Owned, Memory
<1>3. s = [hi |-> m.hi \cup F, low |-> m.low + Cardinality(G), tables |-> m.tables \ G, pte |-> Q]
  BY <1>1, <1>2, ReleaseIs, Zenon
<1>4. \A p : p \in P <=> \E a \in A : \E n \in 1 .. Len(a.pages) : a.pages[n] # NULL /\ p = PageOf(a, n)
  BY SlotContents, Zenon
<1>5. \A f : f \in F <=> \E a \in A : \E n \in 1 .. Len(a.pages) : a.pages[n] # NULL /\ f = a.pages[n]
  BY SlotContents, Zenon
<1>6. \A a \in U : a.pages \in Seq(Frames \cup {NULL})
  BY Zenon DEF Owned
<1>7. \A a \in U : \A n \in 1 .. Len(a.pages) : a.pages[n] \in Frames \cup {NULL}
  BY <1>6
<1> HIDE DEF P, F
<1>8. F \subseteq Frames
  BY <1>5, <1>7
<1>9. \A f \in Frames : f # NULL /\ f \in Nat
  BY VmaAssumptions DEF Frames, NULL
<1>10. Q \in [VPages -> Nat] /\ \A p \in VPages : Q[p] = IF p \in P THEN NULL ELSE m.pte[p]
  BY <1>2, Zenon DEF NULL, Emptied, P
<1> HIDE DEF Q
<1>0. G = {t \in m.tables : /\ \E p \in P : Table(p) = t /\ m.pte[p] # NULL
                            /\ \A p \in VPages : Table(p) = t => Q[p] = NULL}
  BY Zenon DEF Vacated, P, Q
<1> HIDE DEF G
<1>11. /\ IsFiniteSet(m.tables \ G) /\ Cardinality(G) \in Nat
       /\ Cardinality(m.tables \ G) = Cardinality(m.tables) - Cardinality(G)
  <2>1. G \in SUBSET m.tables
    BY <1>0, Zenon
  <2>2. IsFiniteSet(G) /\ Cardinality(G) \in Nat
    BY <1>2, <2>1, FS_Subset, FS_CardinalityType, Zenon
  <2>3. m.tables \cap G = G
    BY <2>1, Zenon
  <2>4. /\ IsFiniteSet(m.tables \ G)
        /\ Cardinality(m.tables \ G) = Cardinality(m.tables) - Cardinality(m.tables \cap G)
    BY <1>2, FS_Difference, Zenon
  <2>5. QED
    BY <2>2, <2>3, <2>4, Zenon
<1>12. m.tables = {Table(p) : p \in {q \in VPages : m.pte[q] # NULL}}
  BY Zenon DEF Mirrors
<1>13. m.tables \ G = {Table(p) : p \in {q \in VPages : Q[q] # NULL}}
  <2>1. ASSUME NEW t \in m.tables, t \notin G
        PROVE  \E p \in VPages : Q[p] # NULL /\ t = Table(p)
    <3>1. PICK q \in VPages : m.pte[q] # NULL /\ t = Table(q)
      BY <1>12, Zenon
    <3>2. CASE Q[q] # NULL
      BY <3>1, <3>2, Zenon
    <3>3. CASE Q[q] = NULL
      <4>1. q \in P
        BY <1>10, <3>1, <3>3, Zenon
      <4>2. QED
        BY <1>0, <2>1, <3>1, <4>1, Zenon
    <3>4. QED
      BY <3>2, <3>3, Zenon
  <2>2. ASSUME NEW p \in VPages, Q[p] # NULL
        PROVE  Table(p) \in m.tables \ G
    <3>1. m.pte[p] # NULL
      BY <1>10, <2>2, Zenon
    <3>2. Table(p) \in m.tables
      BY <1>12, <3>1, Zenon
    <3>3. Table(p) \notin G
      BY <1>0, <2>2, Zenon
    <3>4. QED
      BY <3>2, <3>3, Zenon
  <2>3. QED
    BY <2>1, <2>2, Zenon
<1>14. Mirrors(U \ A, s)
  <2>1. ASSUME NEW a \in U \ A, NEW n \in 1 .. Len(a.pages)
        PROVE  Q[PageOf(a, n)] = a.pages[n]
    <3>1. PageOf(a, n) \in VPages /\ m.pte[PageOf(a, n)] = a.pages[n]
      BY Zenon DEF Apart, Mirrors
    <3>2. PageOf(a, n) \notin P
      BY <1>4 DEF Apart
    <3>3. QED
      BY <1>10, <3>1, <3>2, Zenon
  <2>2. ASSUME NEW p \in VPages, Q[p] # NULL
        PROVE  \E a \in U \ A : \E n \in 1 .. Len(a.pages) : p = PageOf(a, n)
    <3>1. p \notin P /\ m.pte[p] # NULL
      BY <1>10, <2>2, Zenon
    <3>2. PICK a \in U : \E n \in 1 .. Len(a.pages) : p = PageOf(a, n)
      BY <3>1, Zenon DEF Mirrors
    <3>3. PICK n \in 1 .. Len(a.pages) : p = PageOf(a, n)
      BY <3>2, Zenon
    <3>4. a.pages[n] # NULL
      BY <3>1, <3>3, Zenon DEF Mirrors
    <3>5. a \notin A
      BY <1>4, <3>1, <3>3, <3>4, Zenon
    <3>6. QED
      BY <3>3, <3>5, Zenon
  <2>3. s.pte = Q /\ s.tables = m.tables \ G
    BY <1>3, Zenon
  <2>4. QED
    BY <1>13, <2>1, <2>2, <2>3, Zenon DEF Mirrors
<1>15. Owned(U \ A, s)
  <2>1. s.hi = m.hi \cup F /\ s.low = m.low + Cardinality(G) /\ s.tables = m.tables \ G /\ s.pte = Q
    BY <1>3, Zenon
  <2>2. s \in Memory
    BY <1>2, <1>3, <1>8, <1>10, <1>11 DEF Memory
  <2>3. ASSUME NEW f \in Frames
        PROVE  f \in m.hi \cup F <=> \A a \in U \ A : \A n \in 1 .. Len(a.pages) : a.pages[n] # f
    <3>1. f \in m.hi <=> \A a \in U : \A n \in 1 .. Len(a.pages) : a.pages[n] # f
      BY Zenon DEF Owned
    <3>2. ASSUME f \in m.hi \cup F, NEW a \in U \ A, NEW n \in 1 .. Len(a.pages), a.pages[n] = f
          PROVE  FALSE
      <4>1. f \in F
        BY <3>1, <3>2, Zenon
      <4>2. PICK b \in A : \E k \in 1 .. Len(b.pages) : b.pages[k] # NULL /\ f = b.pages[k]
        BY <1>5, <4>1, Zenon
      <4>3. PICK k \in 1 .. Len(b.pages) : b.pages[k] # NULL /\ f = b.pages[k]
        BY <4>2, Zenon
      <4>4. a = b
        BY <3>2, <4>3, Zenon DEF Owned
      <4>5. QED
        BY <4>4, Zenon
    <3>3. ASSUME \A a \in U \ A : \A n \in 1 .. Len(a.pages) : a.pages[n] # f, f \notin m.hi
          PROVE  f \in F
      <4>1. PICK a \in U : \E n \in 1 .. Len(a.pages) : a.pages[n] = f
        BY <3>1, <3>3, Zenon
      <4>2. a \in A
        BY <3>3, <4>1, Zenon
      <4>3. QED
        BY <1>5, <1>9, <4>1, <4>2, Zenon
    <3>4. QED
      BY <3>2, <3>3, Zenon
  <2>4. \A a, b \in U \ A : \A n \in 1 .. Len(a.pages), k \in 1 .. Len(b.pages) :
          a.pages[n] = b.pages[k] /\ a.pages[n] # NULL => a = b /\ n = k
    BY Zenon DEF Owned
  <2>5. s.low + Cardinality(s.tables) = Arena[client].tables
    <3>1. m.low + Cardinality(m.tables) = Arena[client].tables /\ Cardinality(m.tables) \in Nat
      BY <1>2, FS_CardinalityType, Zenon DEF Owned
    <3>2. QED
      BY <1>2, <1>11, <2>1, <3>1
  <2>6. QED
    BY <1>6, <1>11, <2>1, <2>2, <2>3, <2>4, <2>5, Zenon DEF Owned
<1>16. QED
  BY <1>1, <1>14, <1>15, Zenon

\* Areas without pages release nothing.
LEMMA ReleasedFree ==
  ASSUME NEW A, NEW B, B \subseteq A, \A a \in A \ B : a.pages = <<>>
  PROVE  Slots(A) = Slots(B) /\ \A m : ReleaseAll(m, A) = ReleaseAll(m, B)
<1>1. Slots(A) = Slots(B)
  <2>1. \A a \in A \ B : {n \in 1 .. Len(a.pages) : a.pages[n] # NULL} = {}
    BY EmptySeq
  <2>2. QED
    BY <2>1 DEF Slots
<1>2. QED
  BY <1>1, Zenon DEF ReleaseAll
-----------------------------------------------------------------------------
\* An area that has its place and no frames yet.
Reserved(a) == a \in AreaSet /\ \A n \in 1 .. Len(a.pages) : a.pages[n] = NULL

\* Its pages are not mapped while the areas of U are.
LEMMA ReservedUnmapped ==
  ASSUME NEW U, NEW a, a \notin U, NEW m, Apart(U \cup {a}), Mirrors(U, m), NEW n \in 1 .. Len(a.pages)
  PROVE  PageOf(a, n) \in VPages /\ m.pte[PageOf(a, n)] = NULL
<1>1. PageOf(a, n) \in VPages
  BY Zenon DEF Apart
<1>2. ASSUME m.pte[PageOf(a, n)] # NULL PROVE FALSE
  <2>1. PICK b \in U : \E k \in 1 .. Len(b.pages) : PageOf(a, n) = PageOf(b, k)
    BY <1>1, <1>2, Zenon DEF Mirrors
  <2>2. a = b
    BY <2>1, Zenon DEF Apart
  <2>3. QED
    BY <2>2, Zenon
<1>3. QED
  BY <1>1, <1>2, Zenon

\* Reserving an area changes nothing in the memory, nor does forgetting one.
LEMMA ReservedAdded ==
  ASSUME NEW U, NEW a, a \notin U, Reserved(a), NEW m, Apart(U \cup {a}), Owned(U, m), Mirrors(U, m)
  PROVE  Owned(U \cup {a}, m) /\ Mirrors(U \cup {a}, m)
<1>1. a.pages \in Seq(Frames \cup {NULL})
  <2>1. a.pages \in Seq(Nat) /\ Len(a.pages) \in Nat /\ a.pages \in [1 .. Len(a.pages) -> Nat]
    BY LenProperties, Zenon DEF Reserved, AreaSet
  <2>2. a.pages \in [1 .. Len(a.pages) -> Frames \cup {NULL}]
    BY <2>1, Zenon DEF Reserved
  <2>3. QED
    BY <2>1, <2>2
<1>2. \A f \in Frames : f # NULL
  BY VmaAssumptions DEF Frames, NULL
<1>3. Owned(U \cup {a}, m)
  BY <1>1, <1>2, Zenon DEF Owned, Reserved
<1>4. \A n \in 1 .. Len(a.pages) : m.pte[PageOf(a, n)] = a.pages[n]
  BY ReservedUnmapped, Zenon DEF Reserved
<1>5. QED
  BY <1>3, <1>4, Zenon DEF Mirrors

LEMMA ReservedRemoved ==
  ASSUME NEW U, NEW a \in U, Reserved(a), NEW m, Owned(U, m), Mirrors(U, m)
  PROVE  Owned(U \ {a}, m) /\ Mirrors(U \ {a}, m)
<1>1. \A f \in Frames : f # NULL
  BY VmaAssumptions DEF Frames, NULL
<1>2. Owned(U \ {a}, m)
  BY <1>1, Zenon DEF Owned, Reserved
<1>3. Mirrors(U \ {a}, m)
  <2>1. ASSUME NEW p \in VPages, m.pte[p] # NULL
        PROVE  \E b \in U \ {a} : \E n \in 1 .. Len(b.pages) : p = PageOf(b, n)
    <3>1. PICK b \in U : \E n \in 1 .. Len(b.pages) : p = PageOf(b, n)
      BY <2>1, Zenon DEF Mirrors
    <3>2. PICK n \in 1 .. Len(b.pages) : p = PageOf(b, n)
      BY <3>1, Zenon
    <3>3. b.pages[n] # NULL
      BY <2>1, <3>2, Zenon DEF Mirrors
    <3>4. b # a
      BY <3>3, Zenon DEF Reserved
    <3>5. QED
      BY <3>2, <3>4, Zenon
  <2>2. QED
    BY <2>1, Zenon DEF Mirrors
<1>4. QED
  BY <1>2, <1>3, Zenon

(* What there is to know of a call of vma_map_area on a reserved area: the *)
(* frames are accounted for whatever its result, the page tables agree if  *)
(* it succeeds, and releasing the area takes everything back.              *)
MapResult(U, m, a, r) ==
  /\ r.area \in AreaSet /\ Len(r.area.pages) = Len(a.pages)
  /\ r.area.state = a.state /\ r.area.start = a.start /\ r.area.size = a.size
  /\ r.area.flags = a.flags /\ r.area.nr = a.nr
  /\ Owned(U \cup {r.area}, r.mem)
  /\ r.ok => /\ Mirrors(U \cup {r.area}, r.mem)
             /\ \A n \in 1 .. Len(a.pages) : r.area.pages[n] \in Frames
  /\ ReleasePages(r.mem, r.area) = m

LEMMA AreaMapped ==
  ASSUME client \in Clients, NEW U, NEW a, a \notin U, Reserved(a), NEW m,
         Apart(U \cup {a}), Owned(U, m), Mirrors(U, m)
  PROVE  MapResult(U, m, a, vma_map_area(m, a))
<1>1. PICK r : r = vma_map_area(m, a)
  BY Zenon
<1>2. PICK f, d : f = FramesFor(m, a) /\ d = PagesMapped(m, a)
  BY Zenon
<1>3. PICK b, s, N : b = r.area /\ s = r.mem /\ N = NewTables(m, a, d)
  BY Zenon
<1>4. /\ m \in Memory /\ IsFiniteSet(m.tables) /\ m.hi \subseteq Frames /\ m.low \in Nat
      /\ m.tables \subseteq Int /\ m.pte \in [VPages -> Nat]
  BY Zenon DEF Owned, Memory
<1>5. /\ a \in AreaSet /\ a.pages \in Seq(Nat) /\ Len(a.pages) \in Nat /\ a.start \in Nat
      /\ \A n \in 1 .. Len(a.pages) : a.pages[n] = NULL
  BY DEF Reserved, AreaSet
<1>6. \A n \in 1 .. Len(a.pages) : PageOf(a, n) \in VPages /\ m.pte[PageOf(a, n)] = NULL
  BY ReservedUnmapped, Zenon
<1>7. Mapping(m, a, f, d)
  BY <1>2, <1>4, <1>5, <1>6, MapSteps, Zenon
<1>8. /\ Len(f) \in 0 .. Len(a.pages) /\ f \in [1 .. Len(f) -> m.hi]
      /\ \A n, k \in 1 .. Len(f) : f[n] = f[k] => n = k
      /\ d \in 0 .. Len(f) /\ IsFiniteSet(N) /\ Cardinality(N) \in 0 .. m.low
  BY <1>3, <1>7, Zenon DEF Mapping
<1>9. \A x \in Frames : x # NULL /\ x \in Nat
  BY VmaAssumptions DEF Frames, NULL
<1>10. \A n \in 1 .. Len(f) : f[n] \in m.hi /\ f[n] \in Frames /\ f[n] # NULL
  BY <1>4, <1>8, <1>9, Zenon
<1>11. /\ r.ok <=> d = Len(a.pages)
       /\ b = [a EXCEPT !.pages = [n \in 1 .. Len(a.pages) |-> IF n =< Len(f) THEN f[n] ELSE a.pages[n]]]
       /\ s = [hi     |-> m.hi \ Range(f),
               low    |-> m.low - Cardinality(N),
               tables |-> m.tables \cup N,
               pte    |-> [p \in VPages |-> IF \E n \in 1 .. d : p = PageOf(a, n)
                                           THEN f[p - PageOf(a, 0)] ELSE m.pte[p]]]
  BY <1>1, <1>2, <1>3, Zenon DEF vma_map_area
<1>12. PICK g : g = [n \in 1 .. Len(a.pages) |-> IF n =< Len(f) THEN f[n] ELSE a.pages[n]]
  BY Zenon
<1>13. /\ g \in Seq(Nat) /\ g \in Seq(Frames \cup {NULL}) /\ Len(g) = Len(a.pages)
       /\ \A n \in 1 .. Len(a.pages) : g[n] = IF n =< Len(f) THEN f[n] ELSE NULL
  <2>1. \A n \in 1 .. Len(a.pages) : g[n] = IF n =< Len(f) THEN f[n] ELSE NULL
    BY <1>5, <1>12, Zenon
  <2>2. \A n \in 1 .. Len(a.pages) : n =< Len(f) => f[n] \in Frames /\ f[n] \in Nat
    BY <1>5, <1>8, <1>9, <1>10
  <2>3. g \in [1 .. Len(a.pages) -> Nat] /\ g \in [1 .. Len(a.pages) -> Frames \cup {NULL}]
    <3>1. \A n \in 1 .. Len(a.pages) : g[n] \in Nat /\ g[n] \in Frames \cup {NULL}
      BY <2>1, <2>2 DEF NULL
    <3>2. DOMAIN g = 1 .. Len(a.pages) /\ g = [n \in 1 .. Len(a.pages) |-> g[n]]
      BY <1>12, Zenon
    <3>3. QED
      BY <3>1, <3>2, Zenon
  <2>4. Len(g) = Len(a.pages)
    BY <1>5, <1>12
  <2>5. g \in Seq(Nat)
    BY <1>5, <2>3
  <2>6. g \in Seq(Frames \cup {NULL})
    <3>1. PICK S : S = Frames \cup {NULL}
      BY Zenon
    <3>2. g \in [1 .. Len(a.pages) -> S]
      BY <2>3, <3>1, Zenon
    <3>3. g \in Seq(S)
      BY <1>5, <3>2, SMTT(30)
    <3>4. QED
      BY <3>1, <3>3, Zenon
  <2>7. QED
    BY <2>1, <2>4, <2>5, <2>6, Zenon
<1>14. /\ b \in AreaSet /\ b.pages = g
       /\ b.state = a.state /\ b.start = a.start /\ b.size = a.size /\ b.flags = a.flags /\ b.nr = a.nr
  BY <1>5, <1>11, <1>12, <1>13, Zenon DEF AreaSet
<1>15. \A n : PageOf(b, n) = PageOf(a, n)
  BY <1>14, Zenon DEF PageOf
<1>16. /\ s.hi = m.hi \ Range(f) /\ s.low = m.low - Cardinality(N) /\ s.tables = m.tables \cup N
       /\ s.pte = [p \in VPages |-> IF \E n \in 1 .. d : p = PageOf(a, n)
                                    THEN f[p - PageOf(a, 0)] ELSE m.pte[p]]
  BY <1>11, Zenon
<1>17. \A n \in 1 .. d : s.pte[PageOf(a, n)] = f[n]
  <2> SUFFICES ASSUME NEW n \in 1 .. d PROVE s.pte[PageOf(a, n)] = f[n]
    BY Zenon
  <2>1. n \in 1 .. Len(a.pages) /\ PageOf(a, n) \in VPages
    BY <1>5, <1>6, <1>8
  <2>2. a.start \div PageSize \in Nat
    BY <1>5, PageArithmetic, Zenon
  <2>3. PageOf(a, n) - PageOf(a, 0) = n
    BY <2>2 DEF PageOf
  <2>4. QED
    BY <1>16, <2>1, <2>3, Zenon
<1>18. \A p \in VPages : (\A n \in 1 .. d : p # PageOf(a, n)) => s.pte[p] = m.pte[p]
  BY <1>16, Zenon
<1>19. Range(f) = {f[n] : n \in 1 .. Len(f)} /\ Range(f) \subseteq m.hi
  BY <1>8 DEF Range
<1>20. \A t : t \in N <=> t \notin m.tables /\ \E n \in 1 .. d : t = Table(PageOf(a, n))
  BY <1>3, Zenon DEF NewTables
<1>21. N \subseteq Int
  <2>1. \A t \in N : \E p \in VPages : t = Table(p)
    BY <1>5, <1>6, <1>8, <1>20
  <2>2. QED
    BY <2>1, TablesFinite, Zenon
<1>22. s \in Memory
  <2>1. s.pte \in [VPages -> Nat]
    <3>1. ASSUME NEW p \in VPages PROVE s.pte[p] \in Nat
      <4>1. CASE \E n \in 1 .. d : p = PageOf(a, n)
        <5>1. PICK n \in 1 .. d : p = PageOf(a, n)
          BY <4>1, Zenon
        <5>2. n \in 1 .. Len(f) /\ s.pte[p] = f[n]
          BY <1>5, <1>8, <1>17, <5>1, SMTT(30)
        <5>3. QED
          BY <1>9, <1>10, <5>2, Zenon
      <4>2. CASE \A n \in 1 .. d : p # PageOf(a, n)
        BY <1>4, <1>18, <4>2, Zenon
      <4>3. QED
        BY <4>1, <4>2, Zenon
    <3>2. QED
      BY <1>16, <3>1, Zenon
  <2>2. s.hi \in SUBSET Frames /\ s.low \in Nat /\ s.tables \in SUBSET Int
    <3>1. s.low \in Nat
      BY <1>4, <1>8, <1>16
    <3>2. s.hi \in SUBSET Frames
      BY <1>4, <1>16, Zenon
    <3>3. s.tables \in SUBSET Int
      BY <1>4, <1>16, <1>21, Zenon
    <3>4. QED
      BY <3>1, <3>2, <3>3, Zenon
  <2>3. QED
    BY <1>11, <1>16, <2>1, <2>2, Zenon DEF Memory
<1>23. /\ IsFiniteSet(s.tables) /\ Cardinality(s.tables) = Cardinality(m.tables) + Cardinality(N)
       /\ Cardinality(m.tables) \in Nat
  <2>1. m.tables \cap N = {}
    BY <1>20, Zenon
  <2>2. IsFiniteSet(m.tables \cup N)
        /\ Cardinality(m.tables \cup N) = Cardinality(m.tables) + Cardinality(N) - Cardinality(m.tables \cap N)
    BY <1>4, <1>8, FS_Union, Zenon
  <2>3. Cardinality(m.tables \cap N) = 0
    BY <2>1, FS_EmptySet, Zenon
  <2>4. Cardinality(m.tables) \in Nat /\ Cardinality(N) \in Nat
    BY <1>4, <1>8, FS_CardinalityType, Zenon
  <2>5. QED
    BY <1>16, <2>2, <2>3, <2>4
<1>24. Owned(U \cup {b}, s)
  <2>1. \A x \in U \cup {b} : x.pages \in Seq(Frames \cup {NULL})
    BY <1>13, <1>14, Zenon DEF Owned
  <2>2. ASSUME NEW x \in m.hi, NEW c \in U, NEW n \in 1 .. Len(c.pages) PROVE c.pages[n] # x
    BY <1>4, Zenon DEF Owned
  <2>3. ASSUME NEW x \in Frames
        PROVE  x \in s.hi <=> \A c \in U \cup {b} : \A n \in 1 .. Len(c.pages) : c.pages[n] # x
    <3>1. x \in m.hi <=> \A c \in U : \A n \in 1 .. Len(c.pages) : c.pages[n] # x
      BY Zenon DEF Owned
    <3>2. x \in Range(f) <=> \E n \in 1 .. Len(b.pages) : b.pages[n] = x
      <4>1. ASSUME NEW n \in 1 .. Len(f), x = f[n] PROVE \E k \in 1 .. Len(b.pages) : b.pages[k] = x
        <5>1. n \in 1 .. Len(a.pages) /\ n =< Len(f)
          BY <1>5, <1>8
        <5>2. b.pages[n] = x /\ n \in 1 .. Len(b.pages)
          BY <1>13, <1>14, <4>1, <5>1, Zenon
        <5>3. QED
          BY <5>2, Zenon
      <4>2. ASSUME NEW n \in 1 .. Len(b.pages), b.pages[n] = x PROVE \E k \in 1 .. Len(f) : x = f[k]
        BY <1>5, <1>8, <1>9, <1>13, <1>14, <4>2, SMTT(30)
      <4>3. QED
        BY <1>19, <4>1, <4>2, Zenon
    <3>3. QED
      BY <1>16, <3>1, <3>2, Zenon
  <2>4. ASSUME NEW n \in 1 .. Len(b.pages), b.pages[n] # NULL
        PROVE  n \in 1 .. Len(f) /\ b.pages[n] = f[n] /\ b.pages[n] \in m.hi
    BY <1>5, <1>8, <1>10, <1>13, <1>14, <2>4, SMTT(30)
  <2>5. ASSUME NEW c \in U \cup {b}, NEW e \in U \cup {b}, NEW n \in 1 .. Len(c.pages), NEW k \in 1 .. Len(e.pages),
               c.pages[n] = e.pages[k], c.pages[n] # NULL
        PROVE  c = e /\ n = k
    <3>1. CASE c = b /\ e = b
      BY <1>8, <2>4, <2>5, <3>1, Zenon
    <3>2. CASE c = b /\ e \in U
      BY <2>2, <2>4, <2>5, <3>2, Zenon
    <3>3. CASE c \in U /\ e = b
      BY <2>2, <2>4, <2>5, <3>3, Zenon
    <3>4. CASE c \in U /\ e \in U
      BY <2>5, <3>4 DEF Owned
    <3>5. QED
      BY <3>1, <3>2, <3>3, <3>4, Zenon
  <2>6. s.low + Cardinality(s.tables) = Arena[client].tables
    <3>1. m.low + Cardinality(m.tables) = Arena[client].tables
      BY Zenon DEF Owned
    <3>2. QED
      BY <1>4, <1>8, <1>16, <1>23, <3>1
  <2>7. QED
    BY <1>22, <1>23, <2>1, <2>3, <2>5, <2>6, SMTT(30) DEF Owned
<1>25. ASSUME NEW p \in VPages, m.pte[p] # NULL
       PROVE  s.pte[p] = m.pte[p] /\ \A n \in 1 .. Len(a.pages) : p # PageOf(a, n)
  <2>1. \A n \in 1 .. Len(a.pages) : p # PageOf(a, n)
    BY <1>6, <1>25, Zenon
  <2>2. \A n \in 1 .. d : p # PageOf(a, n)
    BY <1>5, <1>8, <2>1
  <2>3. QED
    BY <1>18, <2>1, <2>2, Zenon
<1>26. m.tables = {Table(p) : p \in {q \in VPages : m.pte[q] # NULL}}
  BY Zenon DEF Mirrors
<1>27. ASSUME NEW p \in VPages, s.pte[p] # NULL
       PROVE  m.pte[p] # NULL \/ \E n \in 1 .. d : p = PageOf(a, n)
  BY <1>18, <1>27, Zenon
<1>28. r.ok => Mirrors(U \cup {b}, s) /\ \A n \in 1 .. Len(a.pages) : b.pages[n] \in Frames
  <2> SUFFICES ASSUME r.ok
               PROVE  Mirrors(U \cup {b}, s) /\ \A n \in 1 .. Len(a.pages) : b.pages[n] \in Frames
    BY Zenon
  <2>1. d = Len(a.pages) /\ Len(f) = Len(a.pages)
    BY <1>5, <1>8, <1>11
  <2>2. \A n \in 1 .. Len(a.pages) : b.pages[n] = f[n] /\ f[n] \in Frames /\ f[n] # NULL
    BY <1>5, <1>10, <1>13, <1>14, <2>1
  <2>3. ASSUME NEW c \in U \cup {b}, NEW n \in 1 .. Len(c.pages)
        PROVE  s.pte[PageOf(c, n)] = c.pages[n]
    <3>1. CASE c = b
      BY <1>13, <1>14, <1>15, <1>17, <2>1, <2>2, <3>1, SMTT(30)
    <3>2. CASE c \in U
      <4>1. PageOf(c, n) \in VPages /\ m.pte[PageOf(c, n)] = c.pages[n]
        BY <3>2, Zenon DEF Apart, Mirrors
      <4>2. \A k \in 1 .. Len(a.pages) : PageOf(c, n) # PageOf(a, k)
        BY <3>2, Zenon DEF Apart
      <4>3. QED
        BY <1>18, <2>1, <4>1, <4>2, Zenon
    <3>3. QED
      BY <3>1, <3>2, Zenon
  <2>4. ASSUME NEW p \in VPages, s.pte[p] # NULL
        PROVE  \E c \in U \cup {b} : \E n \in 1 .. Len(c.pages) : p = PageOf(c, n)
    <3>1. CASE m.pte[p] # NULL
      BY <3>1, Zenon DEF Mirrors
    <3>2. CASE \E n \in 1 .. d : p = PageOf(a, n)
      BY <1>13, <1>14, <1>15, <2>1, <3>2, Zenon
    <3>3. QED
      BY <1>27, <2>4, <3>1, <3>2, Zenon
  <2>5. s.tables = {Table(p) : p \in {q \in VPages : s.pte[q] # NULL}}
    <3>1. ASSUME NEW t \in m.tables PROVE \E p \in VPages : s.pte[p] # NULL /\ t = Table(p)
      <4>1. PICK p \in VPages : m.pte[p] # NULL /\ t = Table(p)
        BY <1>26, Zenon
      <4>2. QED
        BY <1>25, <4>1, Zenon
    <3>2. ASSUME NEW t \in N PROVE \E p \in VPages : s.pte[p] # NULL /\ t = Table(p)
      <4>1. PICK n \in 1 .. d : t = Table(PageOf(a, n))
        BY <1>20, Zenon
      <4>2. n \in 1 .. Len(a.pages)
        BY <2>1, Zenon
      <4>3. QED
        BY <1>6, <1>17, <2>2, <4>1, <4>2, Zenon
    <3>3. ASSUME NEW p \in VPages, s.pte[p] # NULL PROVE Table(p) \in m.tables \cup N
      <4>1. CASE m.pte[p] # NULL
        BY <1>26, <4>1, Zenon
      <4>2. CASE \E n \in 1 .. d : p = PageOf(a, n)
        BY <1>20, <4>2, Zenon
      <4>3. QED
        BY <1>27, <3>3, <4>1, <4>2, Zenon
    <3>4. QED
      BY <1>16, <3>1, <3>2, <3>3
  <2>6. QED
    BY <2>2, <2>3, <2>4, <2>5, Zenon DEF Mirrors
<1>29. ReleasePages(s, b) = m
  <2> DEFINE P == SlotPages({b})
             F == SlotFrames({b})
             Q == Emptied(s, {b})
             G == Vacated(s, {b})
  <2>1. ReleasePages(s, b) = [hi |-> s.hi \cup F, low |-> s.low + Cardinality(G), tables |-> s.tables \ G, pte |-> Q]
    BY <1>22, ReleaseIs, Zenon DEF ReleasePages
  <2>2. \A p : p \in P <=> \E n \in 1 .. Len(f) : p = PageOf(a, n)
    <3>1. \A p : p \in P <=> \E n \in 1 .. Len(b.pages) : b.pages[n] # NULL /\ p = PageOf(b, n)
      BY SlotContents
    <3> HIDE DEF P
    <3>2. \A n : n \in 1 .. Len(b.pages) /\ b.pages[n] # NULL <=> n \in 1 .. Len(f)
      BY <1>5, <1>8, <1>10, <1>13, <1>14, SMTT(30)
    <3>3. QED
      BY <1>15, <3>1, <3>2, Zenon
  <2>3. F = Range(f)
    <3>1. \A x : x \in F <=> \E n \in 1 .. Len(b.pages) : b.pages[n] # NULL /\ x = b.pages[n]
      BY SlotContents
    <3> HIDE DEF F
    <3>2. \A n : n \in 1 .. Len(b.pages) /\ b.pages[n] # NULL <=> n \in 1 .. Len(f)
      BY <1>5, <1>8, <1>10, <1>13, <1>14
    <3>3. ASSUME NEW n \in 1 .. Len(f) PROVE b.pages[n] = f[n]
      <4>1. n \in 1 .. Len(a.pages) /\ n =< Len(f)
        BY <1>5, <1>8
      <4>2. QED
        BY <1>13, <1>14, <4>1, Zenon
    <3>4. \A x : x \in F <=> \E n \in 1 .. Len(f) : x = f[n]
      BY <3>1, <3>2, <3>3, Zenon
    <3>5. QED
      BY <1>19, <3>4, Zenon
  <2> HIDE DEF P, F
  <2>3a. Q = [p \in VPages |-> IF p \in P THEN NULL ELSE s.pte[p]]
    BY Zenon DEF Emptied, P
  <2> HIDE DEF Q
  <2>3b. G = {t \in s.tables : /\ \E p \in P : Table(p) = t /\ s.pte[p] # NULL
                               /\ \A p \in VPages : Table(p) = t => Q[p] = NULL}
    BY Zenon DEF Vacated, P, Q
  <2> HIDE DEF G
  <2>4. s.hi \cup F = m.hi
    BY <1>16, <1>19, <2>3, Zenon
  <2>5. Q = m.pte
    <3>1. ASSUME NEW p \in VPages PROVE Q[p] = m.pte[p]
      <4>1. CASE p \in P
        <5>1. PICK n \in 1 .. Len(f) : p = PageOf(a, n)
          BY <2>2, <4>1, Zenon
        <5>2. m.pte[p] = NULL
          BY <1>5, <1>6, <1>8, <5>1
        <5>3. QED
          BY <2>3a, <4>1, <5>2, Zenon
      <4>2. CASE p \notin P
        <5>1. \A n \in 1 .. d : p # PageOf(a, n)
          BY <1>5, <1>8, <2>2, <4>2
        <5>2. QED
          BY <1>18, <2>3a, <4>2, <5>1, Zenon
      <4>3. QED
        BY <4>1, <4>2, Zenon
    <3>2. QED
      BY <1>4, <2>3a, <3>1, Zenon
  <2>6. G = N
    <3>1. ASSUME NEW t \in N PROVE t \in G
      <4>1. PICK n \in 1 .. d : t = Table(PageOf(a, n)) /\ t \notin m.tables
        BY <1>20, Zenon
      <4>2. n \in 1 .. Len(f) /\ n \in 1 .. Len(a.pages)
        BY <1>5, <1>8
      <4>3. PageOf(a, n) \in P /\ s.pte[PageOf(a, n)] # NULL
        BY <1>10, <1>17, <2>2, <4>2, Zenon
      <4>4. \A p \in VPages : Table(p) = t => m.pte[p] = NULL
        BY <1>26, <4>1, Zenon
      <4>5. QED
        BY <1>16, <2>3b, <2>5, <4>1, <4>3, <4>4, Zenon
    <3>2. ASSUME NEW t \in G PROVE t \in N
      <4>1. \A p \in VPages : Table(p) = t => m.pte[p] = NULL
        BY <2>3b, <2>5
      <4>2. t \notin m.tables
        BY <1>26, <4>1
      <4>3. t \in s.tables
        BY <2>3b
      <4>4. QED
        BY <1>16, <4>2, <4>3, Zenon
    <3>3. QED
      BY <3>1, <3>2, Zenon
  <2>7. s.low + Cardinality(G) = m.low
    BY <1>4, <1>8, <1>16, <2>6
  <2>8. s.tables \ G = m.tables
    BY <1>16, <1>20, <2>6
  <2>9. m = [hi |-> m.hi, low |-> m.low, tables |-> m.tables, pte |-> m.pte]
    BY <1>4 DEF Memory
  <2>10. QED
    BY <2>1, <2>4, <2>5, <2>7, <2>8, <2>9, Zenon
<1>30. QED
  BY <1>1, <1>3, <1>13, <1>14, <1>24, <1>28, <1>29, SMTT(30) DEF MapResult
=============================================================================
