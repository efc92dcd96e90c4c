------------------------------ MODULE OpsProofs ------------------------------
(***************************************************************************)
(* Facts about the operators the components share: the search for a clear  *)
(* bit (IdOps), used by the identifier manager, the byte loop and the      *)
(* process table, and the list operations (Lists), used by the process     *)
(* table and the buddy allocator.                                          *)
(***************************************************************************)
EXTENDS IdOps, Lists, SequenceTheorems, WellFoundedInduction, TLAPS

\* A non-empty set of naturals has a least element.
LEMMA LeastElement ==
  ASSUME NEW T \in SUBSET Nat, T # {}
  PROVE  \E x \in T : \A y \in T : x =< y
<1>1. PICK R : R = OpToRel(<, Nat)
  BY Zenon
<1>2. \A x, y \in Nat : y < x => <<y, x>> \in R
  BY <1>1, Zenon DEF OpToRel
<1>3. IsWellFoundedOn(R, Nat)
  BY <1>1, NatLessThanWellFounded, Zenon
<1>4. PICK x \in T : \A y \in T : ~(<<y, x>> \in R)
  BY <1>3, WFMin, Zenon
<1>5. \A y \in T : ~(y < x)
  BY <1>2, <1>4, Zenon
<1>6. QED
  BY <1>5

\* What FirstZeroFrom returns: -1 when there is no clear bit, else the least.
LEMMA FirstZeroProperties ==
  ASSUME NEW bits, NEW nb \in Nat, NEW from \in Nat
  PROVE  LET f == FirstZeroFrom(bits, nb, from)
         IN  \/ f = -1 /\ \A k \in from .. nb - 1 : k \in bits
             \/ /\ f \in from .. nb - 1
                /\ f \notin bits
                /\ \A k \in from .. f - 1 : k \in bits
<1> DEFINE Z == ZerosFrom(bits, nb, from)
<1>1. CASE Z = {}
  BY <1>1 DEF ZerosFrom, FirstZeroFrom
<1>2. CASE Z # {}
  <2>1. Z \in SUBSET Nat
    BY DEF ZerosFrom
  <2>2. \E x \in Z : \A y \in Z : x =< y
    BY <1>2, <2>1, LeastElement
  <2>3. PICK f : f = FirstZeroFrom(bits, nb, from)
    OBVIOUS
  <2>4. f \in Z /\ \A y \in Z : f =< y
    BY <1>2, <2>2, <2>3 DEF FirstZeroFrom
  <2>5. f \in from .. nb - 1 /\ f \notin bits
    BY <2>4 DEF ZerosFrom
  <2>6. \A k \in from .. f - 1 : k \in bits
    BY <2>4, <2>5 DEF ZerosFrom
  <2>7. QED
    BY <2>3, <2>5, <2>6
<1>3. QED
  BY <1>1, <1>2

\* It is a bit of the map or -1.
LEMMA FirstZeroType ==
  ASSUME NEW bits, NEW nb \in Nat
  PROVE  FirstZeroFrom(bits, nb, 0) \in (0 .. nb - 1) \cup {-1}
<1>1. PICK f : f = FirstZeroFrom(bits, nb, 0)
  OBVIOUS
<1>2. f = -1 \/ f \in 0 .. nb - 1
  BY <1>1, FirstZeroProperties, Zenon
<1>3. QED
  BY <1>1, <1>2

\* The least clear bit is the only value that FirstZeroFrom can return.
LEMMA FirstZeroUnique ==
  ASSUME NEW bits, NEW nb \in Nat, NEW f \in Nat,
         f < nb, f \notin bits, \A k \in 0 .. f - 1 : k \in bits
  PROVE  FirstZeroFrom(bits, nb, 0) = f
<1>1. PICK g : g = FirstZeroFrom(bits, nb, 0)
  OBVIOUS
<1>2. \/ g = -1 /\ \A k \in 0 .. nb - 1 : k \in bits
      \/ g \in 0 .. nb - 1 /\ g \notin bits /\ \A k \in 0 .. g - 1 : k \in bits
  BY <1>1, FirstZeroProperties
<1>3. QED
  BY <1>1, <1>2

\* When every bit is set there is no clear bit to find.
LEMMA FirstZeroNone ==
  ASSUME NEW bits, NEW nb \in Nat, \A k \in 0 .. nb - 1 : k \in bits
  PROVE  FirstZeroFrom(bits, nb, 0) = -1
BY DEF FirstZeroFrom, ZerosFrom

(* The hint search is right after the lowest clear bit `from - 1` has been *)
(* set: it finds the lowest clear bit of the whole map.                    *)
LEMMA HintAfterTake ==
  ASSUME NEW bits, NEW nb \in Nat, NEW from \in Nat,
         \A k \in 0 .. from - 1 : k \in bits
  PROVE  NextHint(bits, nb, from) = FirstZeroFrom(bits, nb, 0)
<1>1. PICK up : up = FirstZeroFrom(bits, nb, from)
  OBVIOUS
<1>2. \/ up = -1
      \/ up \in from .. nb - 1 /\ up \notin bits /\ \A k \in from .. up - 1 : k \in bits
  BY <1>1, FirstZeroProperties
<1>3. CASE up = -1
  BY <1>1, <1>3 DEF NextHint
<1>4. CASE up # -1
  <2>1. up \in Nat /\ up < nb /\ up \notin bits /\ \A k \in 0 .. up - 1 : k \in bits
    BY <1>2, <1>4
  <2>2. FirstZeroFrom(bits, nb, 0) = up
    BY <2>1, FirstZeroUnique
  <2>3. QED
    BY <1>1, <1>4, <2>2 DEF NextHint
<1>5. QED
  BY <1>3, <1>4

(* id_manager_alloc on a manager whose hint is exact takes a clear bit and *)
(* leaves the hint exact.                                                  *)
LEMMA AllocSound ==
  ASSUME NEW nb \in Nat, NEW m \in [bits : SUBSET (0 .. nb - 1), next_free : (0 .. nb - 1) \cup {-1}],
         m.next_free = FirstZeroFrom(m.bits, nb, 0), m.next_free # -1, NEW a,
         a = id_manager_alloc(m, nb)
  PROVE  /\ m.next_free \in 0 .. nb - 1 /\ m.next_free \notin m.bits
         /\ a \in [bits : SUBSET (0 .. nb - 1), next_free : (0 .. nb - 1) \cup {-1}]
         /\ a.bits = m.bits \cup {m.next_free}
         /\ a.next_free = FirstZeroFrom(a.bits, nb, 0)
<1> DEFINE n == m.next_free
           b == m.bits \cup {n}
<1>1. n \in 0 .. nb - 1 /\ n \notin m.bits /\ \A k \in 0 .. n - 1 : k \in m.bits
  <2>1. PICK f : f = FirstZeroFrom(m.bits, nb, 0)
    OBVIOUS
  <2>2. \/ f = -1
        \/ f \in 0 .. nb - 1 /\ f \notin m.bits /\ \A k \in 0 .. f - 1 : k \in m.bits
    BY <2>1, FirstZeroProperties
  <2>3. QED
    BY <2>1, <2>2
<1>2. a = [bits |-> b, next_free |-> NextHint(b, nb, n + 1)]
  <2>1. BitmapSet(m.bits, nb, n) = b
    BY <1>1 DEF BitmapSet
  <2>2. QED
    BY <2>1, Zenon DEF id_manager_alloc
<1>3. NextHint(b, nb, n + 1) = FirstZeroFrom(b, nb, 0)
  <2>1. \A k \in 0 .. (n + 1) - 1 : k \in b
    BY <1>1
  <2>2. QED
    BY <1>1, <2>1, HintAfterTake
<1>4. b \in SUBSET (0 .. nb - 1)
  BY <1>1
<1> HIDE DEF b
<1>5. FirstZeroFrom(b, nb, 0) \in (0 .. nb - 1) \cup {-1}
  BY FirstZeroType
<1>6. QED
  BY <1>1, <1>2, <1>3, <1>4, <1>5 DEF b

(* id_manager_free of an identifier that is taken clears its bit and       *)
(* leaves the hint exact.                                                  *)
LEMMA FreeSound ==
  ASSUME NEW nb \in Nat, NEW m \in [bits : SUBSET (0 .. nb - 1), next_free : (0 .. nb - 1) \cup {-1}],
         m.next_free = FirstZeroFrom(m.bits, nb, 0), NEW id \in m.bits, NEW r,
         r = id_manager_free(m, nb, id)
  PROVE  /\ r \in [bits : SUBSET (0 .. nb - 1), next_free : (0 .. nb - 1) \cup {-1}]
         /\ r.bits = m.bits \ {id}
         /\ r.next_free = FirstZeroFrom(r.bits, nb, 0)
<1> DEFINE n == m.next_free
           b == m.bits \ {id}
           h == IF n = -1 \/ id < n THEN id ELSE n
<1>1. \/ n = -1 /\ \A k \in 0 .. nb - 1 : k \in m.bits
      \/ n \in 0 .. nb - 1 /\ n \notin m.bits /\ \A k \in 0 .. n - 1 : k \in m.bits
  <2>1. PICK f : f = FirstZeroFrom(m.bits, nb, 0)
    OBVIOUS
  <2>2. \/ f = -1 /\ \A k \in 0 .. nb - 1 : k \in m.bits
        \/ f \in 0 .. nb - 1 /\ f \notin m.bits /\ \A k \in 0 .. f - 1 : k \in m.bits
    BY <2>1, FirstZeroProperties
  <2>3. QED
    BY <2>1, <2>2
<1>2. id \in 0 .. nb - 1 /\ b \in SUBSET (0 .. nb - 1)
  OBVIOUS
<1>3. r = [bits |-> b, next_free |-> h]
  BY <1>2 DEF id_manager_free, BitmapUnset
<1>4. h \in Nat /\ h < nb /\ h \notin b /\ \A k \in 0 .. h - 1 : k \in b
  BY <1>1, <1>2
<1> HIDE DEF b, h
<1>5. FirstZeroFrom(b, nb, 0) = h
  BY <1>4, FirstZeroUnique
<1>6. QED
  BY <1>2, <1>3, <1>4, <1>5 DEF b
-----------------------------------------------------------------------------
\* An element of a list has a position in it.
LEMMA ToSetElement ==
  ASSUME NEW S, NEW s \in Seq(S)
  PROVE  /\ Range(s) \subseteq S
         /\ \A e : e \in Range(s) <=> \E i \in 1 .. Len(s) : s[i] = e
         /\ s = <<>> <=> Range(s) = {}
<1>1. DOMAIN s = 1 .. Len(s) /\ Len(s) \in Nat
  BY LenProperties
<1>2. \A i \in 1 .. Len(s) : s[i] \in S
  BY ElementOfSeq
<1>3. s # <<>> => 1 \in 1 .. Len(s)
  BY EmptySeq
<1>4. \A e : e \in Range(s) <=> \E i \in 1 .. Len(s) : s[i] = e
  BY <1>1, Zenon DEF Range
<1>5. Range(s) \subseteq S
  BY <1>2, <1>4
<1>6. s = <<>> <=> Range(s) = {}
  <2>1. CASE s = <<>>
    <3>1. Len(s) = 0
      BY <2>1, EmptySeq
    <3>2. QED
      BY <2>1, <3>1, <1>4
  <2>2. CASE s # <<>>
    BY <2>2, <1>3, <1>4, Zenon
  <2>3. QED
    BY <2>1, <2>2
<1>7. QED
  BY <1>4, <1>5, <1>6

LEMMA EmptyList ==
  ASSUME NEW S
  PROVE  <<>> \in Seq(S) /\ IsInjective(<<>>) /\ Range(<<>>) = {}
<1>1. <<>> \in Seq(S) /\ Len(<<>>) = 0
  BY EmptySeq
<1>2. DOMAIN <<>> = 1 .. 0
  BY <1>1, LenProperties
<1>3. QED
  BY <1>1, <1>2, ToSetElement, Zenon DEF IsInjective

LEMMA AppendList ==
  ASSUME NEW S, NEW s \in Seq(S), NEW e \in S
  PROVE  /\ Append(s, e) \in Seq(S) /\ Append(s, e) # <<>>
         /\ Range(Append(s, e)) = Range(s) \cup {e}
         /\ IsInjective(s) /\ e \notin Range(s) => IsInjective(Append(s, e))
<1> DEFINE a == Append(s, e)
<1>1. /\ a \in Seq(S) /\ a # <<>> /\ Len(a) = Len(s) + 1 /\ Len(s) \in Nat
      /\ \A i \in 1 .. Len(s) : a[i] = s[i]
      /\ a[Len(s) + 1] = e
      /\ DOMAIN a = 1 .. Len(a) /\ DOMAIN s = 1 .. Len(s)
  BY AppendProperties, LenProperties
<1> HIDE DEF a
<1>2. \A i \in 1 .. Len(a) : i \in 1 .. Len(s) \/ i = Len(s) + 1
  BY <1>1
<1>3. Range(a) = Range(s) \cup {e}
  BY <1>1, <1>2 DEF Range
<1>4. ASSUME IsInjective(s), e \notin Range(s) PROVE IsInjective(a)
  BY <1>1, <1>2, <1>4 DEF IsInjective, Range
<1>5. QED
  BY <1>1, <1>3, <1>4 DEF a

LEMMA ConcatList ==
  ASSUME NEW S, NEW s \in Seq(S), NEW t \in Seq(S)
  PROVE  /\ s \o t \in Seq(S)
         /\ Range(s \o t) = Range(s) \cup Range(t)
         /\ IsInjective(s) /\ IsInjective(t) /\ Range(s) \cap Range(t) = {}
              => IsInjective(s \o t)
<1> DEFINE c == s \o t
<1>1. /\ c \in Seq(S) /\ Len(c) = Len(s) + Len(t) /\ Len(s) \in Nat /\ Len(t) \in Nat
      /\ \A i \in 1 .. Len(s) + Len(t) : c[i] = IF i <= Len(s) THEN s[i] ELSE t[i - Len(s)]
      /\ DOMAIN c = 1 .. Len(c) /\ DOMAIN s = 1 .. Len(s) /\ DOMAIN t = 1 .. Len(t)
  BY ConcatProperties, LenProperties
<1> HIDE DEF c
<1>2. \A i \in 1 .. Len(c) : \/ i \in 1 .. Len(s) /\ c[i] = s[i]
                             \/ i > Len(s) /\ i - Len(s) \in 1 .. Len(t) /\ c[i] = t[i - Len(s)]
  BY <1>1
<1>3. Range(c) = Range(s) \cup Range(t)
  <2>1. \A i \in 1 .. Len(s) : i \in 1 .. Len(c) /\ c[i] = s[i]
    BY <1>1
  <2>2. \A i \in 1 .. Len(t) : i + Len(s) \in 1 .. Len(c) /\ c[i + Len(s)] = t[i]
    BY <1>1
  <2>3. \A e : e \in Range(c) <=> e \in Range(s) \/ e \in Range(t)
    <3>1. \A e : e \in Range(c) <=> \E i \in 1 .. Len(c) : c[i] = e
      BY <1>1, ToSetElement, Zenon
    <3>2. \A e : e \in Range(s) <=> \E i \in 1 .. Len(s) : s[i] = e
      BY ToSetElement
    <3>3. \A e : e \in Range(t) <=> \E i \in 1 .. Len(t) : t[i] = e
      BY ToSetElement
    <3>4. ASSUME NEW e \in Range(c) PROVE e \in Range(s) \/ e \in Range(t)
      <4>1. PICK i \in 1 .. Len(c) : c[i] = e
        BY <3>1, Zenon
      <4>2. QED
        BY <1>2, <3>2, <3>3, <4>1, Zenon
    <3>5. ASSUME NEW e \in Range(s) PROVE e \in Range(c)
      BY <2>1, <3>1, <3>2, Zenon
    <3>6. ASSUME NEW e \in Range(t) PROVE e \in Range(c)
      BY <2>2, <3>1, <3>3, Zenon
    <3>7. QED
      BY <3>4, <3>5, <3>6
  <2>4. QED
    BY <2>3
<1>4. ASSUME IsInjective(s), IsInjective(t), Range(s) \cap Range(t) = {}
      PROVE  IsInjective(c)
  <2>1. \A i \in 1 .. Len(s), j \in 1 .. Len(t) : s[i] # t[j]
    <3>1. \A i \in 1 .. Len(s) : s[i] \in Range(s)
      BY ToSetElement
    <3>2. \A i \in 1 .. Len(t) : t[i] \in Range(t)
      BY ToSetElement
    <3>3. QED
      BY <1>4, <3>1, <3>2
  <2>2. SUFFICES ASSUME NEW i \in 1 .. Len(c), NEW j \in 1 .. Len(c), c[i] = c[j] PROVE i = j
    BY <1>1 DEF IsInjective
  <2>3. CASE i \in 1 .. Len(s) /\ j \in 1 .. Len(s)
    <3>1. c[i] = s[i] /\ c[j] = s[j]
      BY <1>1, <2>3
    <3>2. QED
      BY <1>1, <1>4, <2>2, <2>3, <3>1, Zenon DEF IsInjective
  <2>4. CASE i > Len(s) /\ j > Len(s)
    <3>1. i - Len(s) \in 1 .. Len(t) /\ j - Len(s) \in 1 .. Len(t)
          /\ t[i - Len(s)] = t[j - Len(s)]
      BY <1>1, <2>2, <2>4
    <3>2. i - Len(s) = j - Len(s)
      BY <1>1, <1>4, <3>1, Zenon DEF IsInjective
    <3>3. QED
      BY <1>1, <3>2
  <2>5. CASE i \in 1 .. Len(s) /\ j > Len(s)
    <3>1. c[i] = s[i] /\ j - Len(s) \in 1 .. Len(t) /\ c[j] = t[j - Len(s)]
      BY <1>1, <2>5
    <3>2. QED
      BY <2>1, <2>2, <2>5, <3>1, Zenon
  <2>6. CASE i > Len(s) /\ j \in 1 .. Len(s)
    <3>1. c[j] = s[j] /\ i - Len(s) \in 1 .. Len(t) /\ c[i] = t[i - Len(s)]
      BY <1>1, <2>6
    <3>2. QED
      BY <2>1, <2>2, <2>6, <3>1
  <2>7. QED
    BY <1>1, <2>3, <2>4, <2>5, <2>6
<1>5. QED
  BY <1>1, <1>3, <1>4 DEF c

LEMMA ConsList ==
  ASSUME NEW S, NEW s \in Seq(S), NEW e \in S
  PROVE  /\ list_add_head(e, s) \in Seq(S)
         /\ Range(list_add_head(e, s)) = Range(s) \cup {e}
         /\ IsInjective(s) /\ e \notin Range(s) => IsInjective(list_add_head(e, s))
<1>1. <<e>> \in Seq(S) /\ Range(<<e>>) = {e} /\ IsInjective(<<e>>)
  BY DEF Range, IsInjective
<1>2. /\ <<e>> \o s \in Seq(S)
      /\ Range(<<e>> \o s) = Range(<<e>>) \cup Range(s)
      /\ IsInjective(<<e>>) /\ IsInjective(s) /\ Range(<<e>>) \cap Range(s) = {}
           => IsInjective(<<e>> \o s)
  BY <1>1, ConcatList, Zenon
<1>3. QED
  BY <1>1, <1>2 DEF list_add_head

LEMMA TailList ==
  ASSUME NEW S, NEW s \in Seq(S), s # <<>>
  PROVE  /\ Head(s) \in Range(s) /\ Head(s) \in S /\ Tail(s) \in Seq(S)
         /\ IsInjective(s) => /\ Range(Tail(s)) = Range(s) \ {Head(s)}
                              /\ IsInjective(Tail(s))
<1> DEFINE t == Tail(s)
<1>1. /\ t \in Seq(S) /\ Len(t) = Len(s) - 1 /\ Len(s) \in Nat \ {0}
      /\ \A i \in 1 .. Len(t) : t[i] = s[i + 1]
      /\ DOMAIN t = 1 .. Len(t) /\ DOMAIN s = 1 .. Len(s)
      /\ Head(s) = s[1] /\ Head(s) \in S
  BY HeadTailProperties, LenProperties, EmptySeq
<1> HIDE DEF t
<1>2. Head(s) \in Range(s)
  BY <1>1 DEF Range
<1>3. ASSUME IsInjective(s) PROVE Range(t) = Range(s) \ {s[1]} /\ IsInjective(t)
  <2>1. \A i \in 1 .. Len(s) : i = 1 \/ (i - 1 \in 1 .. Len(t) /\ t[i - 1] = s[i])
    BY <1>1
  <2>2. \A i \in 1 .. Len(t) : i + 1 \in 1 .. Len(s) /\ t[i] = s[i + 1] /\ s[i + 1] # s[1]
    <3>1. \A i \in 1 .. Len(t) : i + 1 \in 1 .. Len(s) /\ i + 1 # 1 /\ t[i] = s[i + 1]
      BY <1>1
    <3>2. \A i \in 1 .. Len(s) : s[i] = s[1] => i = 1
      BY <1>1, <1>3 DEF IsInjective
    <3>3. QED
      BY <3>1, <3>2
  <2>3. Range(t) = Range(s) \ {s[1]}
    <3>1. \A e : e \in Range(t) <=> \E i \in 1 .. Len(t) : t[i] = e
      BY <1>1, ToSetElement, Zenon
    <3>2. \A e : e \in Range(s) <=> \E i \in 1 .. Len(s) : s[i] = e
      BY ToSetElement
    <3>3. ASSUME NEW e \in Range(t) PROVE e \in Range(s) /\ e # s[1]
      <4>1. PICK i \in 1 .. Len(t) : t[i] = e
        BY <3>1
      <4>2. QED
        BY <2>2, <3>2, <4>1
    <3>4. ASSUME NEW e \in Range(s), e # s[1] PROVE e \in Range(t)
      <4>1. PICK i \in 1 .. Len(s) : s[i] = e
        BY <3>2
      <4>2. i - 1 \in 1 .. Len(t) /\ t[i - 1] = e
        BY <2>1, <3>4, <4>1
      <4>3. QED
        BY <3>1, <4>2
    <3>5. QED
      BY <3>3, <3>4
  <2>4. IsInjective(t)
    <3>1. \A i, j \in 1 .. Len(s) : s[i] = s[j] => i = j
      BY <1>1, <1>3 DEF IsInjective
    <3>2. ASSUME NEW i \in 1 .. Len(t), NEW j \in 1 .. Len(t), t[i] = t[j] PROVE i = j
      <4>1. i + 1 = j + 1
        BY <2>2, <3>1, <3>2
      <4>2. QED
        BY <1>1, <4>1
    <3>3. QED
      BY <1>1, <3>2 DEF IsInjective
  <2>5. QED
    BY <2>3, <2>4
<1>4. QED
  BY <1>1, <1>2, <1>3 DEF t

(* pop_node takes an element out of the list and leaves the others.        *)
LEMMA UnlinkList ==
  ASSUME NEW S, NEW s \in Seq(S), NEW e
  PROVE  /\ Unlink(s, e) \in Seq(S)
         /\ IsInjective(s) => /\ Range(Unlink(s, e)) = Range(s) \ {e}
                              /\ IsInjective(Unlink(s, e))
<1>1. CASE e \notin Range(s)
  BY <1>1 DEF Unlink
<1>2. CASE e \in Range(s)
  <2>1. PICK k : k = CHOOSE i \in DOMAIN s : s[i] = e
    OBVIOUS
  <2>2. k \in 1 .. Len(s) /\ s[k] = e /\ Len(s) \in Nat /\ DOMAIN s = 1 .. Len(s)
    BY <1>2, <2>1, LenProperties, ToSetElement
  <2> DEFINE a == SubSeq(s, 1, k - 1)
             b == SubSeq(s, k + 1, Len(s))
  <2>3. Unlink(s, e) = a \o b
    BY <1>2, <2>1, Zenon DEF Unlink, Without
  <2>4. /\ a \in Seq(S) /\ Len(a) = k - 1
        /\ \A i \in 1 .. k - 1 : a[i] = s[i]
    BY <2>2, SubSeqProperties
  <2>5. /\ b \in Seq(S) /\ Len(b) = Len(s) - k
        /\ \A i \in 1 .. Len(s) - k : b[i] = s[k + i]
    <3>1. /\ k + 1 \in 1 .. Len(s) + 1 /\ Len(s) \in (k + 1) - 1 .. Len(s)
          /\ (Len(s) - (k + 1)) + 1 = Len(s) - k
      BY <2>2
    <3>2. /\ b \in Seq(S) /\ Len(b) = Len(s) - k
          /\ \A i \in 1 .. Len(s) - k : b[i] = s[(k + 1) + (i - 1)]
      BY <3>1, SubSeqProperties
    <3>3. \A i \in 1 .. Len(s) - k : (k + 1) + (i - 1) = k + i
      BY <2>2
    <3> HIDE DEF b
    <3>4. QED
      BY <3>2, <3>3
  <2> HIDE DEF a, b
  <2>6. a \o b \in Seq(S)
    BY <2>4, <2>5, ConcatList
  <2>7. ASSUME IsInjective(s)
        PROVE  Range(a \o b) = Range(s) \ {e} /\ IsInjective(a \o b)
    <3>1. \A i, j \in 1 .. Len(s) : s[i] = s[j] => i = j
      BY <2>2, <2>7 DEF IsInjective
    <3>2. /\ DOMAIN a = 1 .. k - 1 /\ DOMAIN b = 1 .. Len(s) - k
      BY <2>4, <2>5, LenProperties
    <3>3. IsInjective(a) /\ IsInjective(b)
      <4>1. IsInjective(a)
        BY <2>2, <2>4, <3>1, <3>2 DEF IsInjective
      <4>2. ASSUME NEW i \in 1 .. Len(s) - k, NEW j \in 1 .. Len(s) - k, b[i] = b[j]
            PROVE  i = j
        <5>1. k + i \in 1 .. Len(s) /\ k + j \in 1 .. Len(s) /\ s[k + i] = s[k + j]
          BY <2>2, <2>5, <4>2
        <5>2. k + i = k + j
          BY <3>1, <5>1
        <5>3. QED
          BY <2>2, <5>2
      <4>3. QED
        BY <3>2, <4>1, <4>2 DEF IsInjective
    <3>4. \A x : x \in Range(a) <=> \E i \in 1 .. k - 1 : s[i] = x
      <4>1. \A x : x \in Range(a) <=> \E i \in 1 .. k - 1 : a[i] = x
        BY <2>4, ToSetElement
      <4>2. QED
        BY <2>4, <4>1
    <3>5. \A x : x \in Range(b) <=> \E i \in 1 .. Len(s) - k : s[k + i] = x
      <4>1. \A x : x \in Range(b) <=> \E i \in 1 .. Len(s) - k : b[i] = x
        BY <2>5, ToSetElement
      <4>2. QED
        BY <2>5, <4>1
    <3>6. \A x : x \in Range(s) <=> \E i \in 1 .. Len(s) : s[i] = x
      BY ToSetElement
    <3>7. Range(a) \cap Range(b) = {}
      <4>1. SUFFICES ASSUME NEW x \in Range(a), x \in Range(b) PROVE FALSE
        OBVIOUS
      <4>2. PICK i \in 1 .. k - 1 : s[i] = x
        BY <3>4
      <4>3. PICK j \in 1 .. Len(s) - k : s[k + j] = x
        BY <3>5, <4>1
      <4>4. i \in 1 .. Len(s) /\ k + j \in 1 .. Len(s) /\ i # k + j
        BY <2>2
      <4>5. QED
        BY <3>1, <4>2, <4>3, <4>4
    <3>8. ASSUME NEW x \in Range(a) \cup Range(b) PROVE x \in Range(s) \ {e}
      <4>1. CASE x \in Range(a)
        <5>1. PICK i \in 1 .. k - 1 : s[i] = x
          BY <3>4, <4>1
        <5>2. i \in 1 .. Len(s) /\ i # k
          BY <2>2
        <5>3. QED
          BY <2>2, <3>1, <3>6, <5>1, <5>2
      <4>2. CASE x \in Range(b)
        <5>1. PICK i \in 1 .. Len(s) - k : s[k + i] = x
          BY <3>5, <4>2
        <5>2. k + i \in 1 .. Len(s) /\ k + i # k
          BY <2>2
        <5>3. QED
          BY <2>2, <3>1, <3>6, <5>1, <5>2
      <4>3. QED
        BY <3>8, <4>1, <4>2
    <3>9. ASSUME NEW x \in Range(s), x # e PROVE x \in Range(a) \cup Range(b)
      <4>1. PICK i \in 1 .. Len(s) : s[i] = x
        BY <3>6
      <4>2. CASE i < k
        BY <2>2, <3>4, <4>1, <4>2
      <4>3. CASE i > k
        <5>1. i - k \in 1 .. Len(s) - k /\ s[k + (i - k)] = x
          BY <2>2, <4>1, <4>3
        <5>2. QED
          BY <3>5, <5>1
      <4>4. QED
        BY <2>2, <3>9, <4>1, <4>2, <4>3
    <3>10. /\ Range(a \o b) = Range(a) \cup Range(b)
           /\ IsInjective(a \o b)
      BY <2>4, <2>5, <3>3, <3>7, ConcatList
    <3>11. Range(a) \cup Range(b) = Range(s) \ {e}
      BY <3>8, <3>9
    <3>12. QED
      BY <3>10, <3>11
  <2>8. QED
    BY <2>3, <2>6, <2>7
<1>3. QED
  BY <1>1, <1>2

(* Moving a list to another one by one turns it round and keeps its        *)
(* elements.                                                               *)
LEMMA ReverseList ==
  ASSUME NEW S, NEW s \in Seq(S)
  PROVE  /\ Reversed(s) \in Seq(S)
         /\ Range(Reversed(s)) = Range(s)
         /\ IsInjective(s) => IsInjective(Reversed(s))
<1> DEFINE r == Reversed(s)
           n == Len(s)
<1>1. n \in Nat /\ DOMAIN s = 1 .. n /\ \A i \in 1 .. n : s[i] \in S
  BY LenProperties, ElementOfSeq
<1>2. r = [i \in 1 .. n |-> s[(n - i) + 1]]
  BY DEF Reversed
<1>3. \A i \in 1 .. n : (n - i) + 1 \in 1 .. n
  BY <1>1
<1>4. r \in [1 .. n -> S]
  BY <1>1, <1>2, <1>3
<1>5. r \in Seq(S) /\ Len(r) = n /\ DOMAIN r = 1 .. n
  BY <1>1, <1>4, SeqDef, LenProperties
<1>6. \A i \in 1 .. n : r[i] = s[(n - i) + 1]
  BY <1>2
<1> HIDE DEF r, n
<1>7. \A x : x \in Range(r) <=> \E i \in 1 .. n : r[i] = x
  BY <1>5, ToSetElement
<1>8. \A x : x \in Range(s) <=> \E i \in 1 .. n : s[i] = x
  BY ToSetElement DEF n
<1>9. ASSUME NEW x \in Range(r) PROVE x \in Range(s)
  BY <1>3, <1>6, <1>7, <1>8
<1>10. ASSUME NEW x \in Range(s) PROVE x \in Range(r)
  <2>1. PICK i \in 1 .. n : s[i] = x
    BY <1>8
  <2>2. (n - i) + 1 \in 1 .. n /\ (n - ((n - i) + 1)) + 1 = i
    BY <1>1
  <2>3. QED
    BY <1>6, <1>7, <2>1, <2>2
<1>11. ASSUME IsInjective(s) PROVE IsInjective(r)
  <2>1. ASSUME NEW i \in 1 .. n, NEW j \in 1 .. n, r[i] = r[j] PROVE i = j
    <3>1. (n - i) + 1 = (n - j) + 1
      BY <1>1, <1>3, <1>6, <1>11, <2>1 DEF IsInjective
    <3>2. QED
      BY <1>1, <3>1
  <2>2. QED
    BY <1>5, <2>1 DEF IsInjective
<1>12. QED
  BY <1>5, <1>9, <1>10, <1>11, Zenon DEF r

\* What the operations do to the length of a list, which the counters follow.
LEMMA ListLengths ==
  ASSUME NEW S, NEW s \in Seq(S)
  PROVE  /\ Len(s) \in Nat
         /\ \A e \in S : Len(list_add_head(e, s)) = Len(s) + 1
         /\ s # <<>> => Len(s) > 0 /\ Len(Tail(s)) = Len(s) - 1
         /\ \A e \in Range(s) : Len(s) > 0 /\ Len(Unlink(s, e)) = Len(s) - 1
<1>1. Len(s) \in Nat /\ DOMAIN s = 1 .. Len(s)
  BY LenProperties
<1>2. ASSUME NEW e \in S PROVE Len(list_add_head(e, s)) = Len(s) + 1
  <2>1. <<e>> \in Seq(S) /\ Len(<<e>>) = 1
    OBVIOUS
  <2>2. Len(<<e>> \o s) = Len(<<e>>) + Len(s)
    BY <2>1, ConcatProperties
  <2>3. QED
    BY <1>1, <2>1, <2>2 DEF list_add_head
<1>3. ASSUME s # <<>> PROVE Len(s) > 0 /\ Len(Tail(s)) = Len(s) - 1
  BY <1>1, <1>3, HeadTailProperties, EmptySeq
<1>4. ASSUME NEW e \in Range(s) PROVE Len(s) > 0 /\ Len(Unlink(s, e)) = Len(s) - 1
  <2>1. PICK k : k = CHOOSE i \in DOMAIN s : s[i] = e
    OBVIOUS
  <2>2. k \in 1 .. Len(s)
    BY <1>1, <2>1, ToSetElement
  <2> DEFINE a == SubSeq(s, 1, k - 1)
             b == SubSeq(s, k + 1, Len(s))
  <2>3. Unlink(s, e) = a \o b
    BY <1>4, <2>1, Zenon DEF Unlink, Without
  <2>4. a \in Seq(S) /\ Len(a) = k - 1
    BY <1>1, <2>2, SubSeqProperties
  <2>5. b \in Seq(S) /\ Len(b) = Len(s) - k
    <3>1. /\ k + 1 \in 1 .. Len(s) + 1 /\ Len(s) \in (k + 1) - 1 .. Len(s)
          /\ (Len(s) - (k + 1)) + 1 = Len(s) - k
      BY <1>1, <2>2
    <3>2. QED
      BY <3>1, SubSeqProperties
  <2> HIDE DEF a, b
  <2>6. Len(a \o b) = Len(a) + Len(b)
    BY <2>4, <2>5, ConcatProperties
  <2>7. QED
    BY <1>1, <2>2, <2>3, <2>4, <2>5, <2>6
<1>5. QED
  BY <1>1, <1>2, <1>3, <1>4
=============================================================================
