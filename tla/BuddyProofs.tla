----------------------------- MODULE BuddyProofs -----------------------------
(***************************************************************************)
(* Proofs about module Buddy, for every size of the zone, every largest    *)
(* order and all requests: the free lists, the counters, the descriptors   *)
(* and the clients' blocks agree on every page, free memory is merged as   *)
(* far as it can be, and the allocator implements PageAlloc.  The first    *)
(* part is about merging and splitting: powers of two, aligned blocks and  *)
(* their buddies, the inductive invariant, the loop of buddy_free_block    *)
(* and the parts that split_block_to_order cuts a block into.              *)
(***************************************************************************)
EXTENDS Buddy, OpsProofs, FiniteSetTheorems

(* Powers of two.  The provers know nothing of x^y: what is needed of 2^k  *)
(* is derived from the number of subsets of 1 .. k.                        *)
LEMMA PowIsCardinality ==
  ASSUME NEW k \in Nat
  PROVE  IsFiniteSet(SUBSET (1 .. k)) /\ Cardinality(SUBSET (1 .. k)) = 2^k
<1>1. IsFiniteSet(1 .. k) /\ Cardinality(1 .. k) = k
  BY FS_Interval
<1>2. QED
  BY <1>1, FS_SUBSET, Zenon

LEMMA PowNat == ASSUME NEW k \in Nat PROVE 2^k \in Nat
BY PowIsCardinality, FS_CardinalityType, Zenon

LEMMA PowNext == ASSUME NEW k \in Nat PROVE 2^(k + 1) = 2 * 2^k
<1> DEFINE A == SUBSET (1 .. k)
           B == {x \cup {k + 1} : x \in A}
<1>1. IsFiniteSet(A) /\ Cardinality(A) = 2^k
  BY PowIsCardinality, Zenon
<1>2. Cardinality(SUBSET (1 .. k + 1)) = 2^(k + 1)
  <2>1. k + 1 \in Nat
    OBVIOUS
  <2>2. QED
    BY <2>1, PowIsCardinality, Zenon
<1>3. SUBSET (1 .. k + 1) = A \cup B
  <2>1. ASSUME NEW x \in SUBSET (1 .. k + 1), x \notin A PROVE x \in B
    <3>1. k + 1 \in x /\ x \ {k + 1} \in A
      BY <2>1
    <3>2. x = (x \ {k + 1}) \cup {k + 1}
      BY <3>1, Zenon
    <3>3. QED
      BY <3>1, <3>2, Zenon
  <2>2. ASSUME NEW x \in A \cup B PROVE x \in SUBSET (1 .. k + 1)
    OBVIOUS
  <2>3. QED
    BY <2>1, <2>2, Zenon
<1>4. A \cap B = {}
  OBVIOUS
<1>5. IsFiniteSet(B) /\ Cardinality(B) = Cardinality(A)
  <2> DEFINE f == [x \in A |-> x \cup {k + 1}]
  <2>1. f \in [A -> B]
    BY Zenon
  <2>2. \A x, y \in A : f[x] = f[y] => x = y
    <3>1. SUFFICES ASSUME NEW x \in A, NEW y \in A, f[x] = f[y] PROVE x = y
      BY Zenon
    <3>2. x \cup {k + 1} = y \cup {k + 1} /\ k + 1 \notin x /\ k + 1 \notin y
      BY <3>1
    <3>3. QED
      BY <3>2
  <2>3. \A y \in B : \E x \in A : f[x] = y
    BY Zenon
  <2>4. f \in Bijection(A, B)
    <3> HIDE DEF A, B, f
    <3>1. DOMAIN f = A
      BY <2>1, Zenon
    <3>2. QED
      BY <2>1, <2>2, <2>3, <3>1, Zenon DEF Bijection, Injection, Surjection, IsInjective
  <2>5. QED
    BY <1>1, <2>4, FS_Bijection DEF ExistsBijection
<1>6. Cardinality(A \cup B) = Cardinality(A) + Cardinality(B)
  <2>1. Cardinality(A \cup B) = Cardinality(A) + Cardinality(B) - Cardinality({})
    <3> HIDE DEF A, B
    <3>1. QED
      BY <1>1, <1>4, <1>5, FS_Union
  <2>2. QED
    BY <2>1, <1>1, <1>5, PowNat, FS_EmptySet
<1> HIDE DEF A, B
<1>7. 2^k \in Nat /\ 2^(k + 1) = 2^k + 2^k
  BY <1>1, <1>2, <1>3, <1>5, <1>6, PowNat, Zenon
<1>8. QED
  BY <1>7

\* 2^k is positive, grows with k, and the smaller powers divide the larger ones.
LEMMA PowPositive == ASSUME NEW k \in Nat PROVE 2^k \in Nat \ {0}
<1>1. {} \in SUBSET (1 .. k)
  BY Zenon
<1>2. QED
  BY <1>1, PowIsCardinality, PowNat, FS_EmptySet, Zenon

LEMMA PowZero == 2^0 = 1
<1>1. Cardinality(SUBSET (1 .. 0)) = 2^0
  BY PowIsCardinality, Zenon
<1>2. SUBSET (1 .. 0) = {{}}
  OBVIOUS
<1>3. Cardinality({{}}) = 1
  BY FS_Singleton, Zenon
<1>4. QED
  BY <1>1, <1>2, <1>3, Zenon

LEMMA PowMultiple ==
  ASSUME NEW j \in Nat, NEW k \in Nat, j =< k
  PROVE  \E c \in Nat \ {0} : 2^k = c * 2^j
<1> DEFINE T == {i \in Nat : j =< i /\ ~\E c \in Nat \ {0} : 2^i = c * 2^j}
<1>1. SUFFICES ASSUME T # {} PROVE FALSE
  BY Zenon
<1>2. PICK i \in T : \A y \in T : i =< y
  BY <1>1, LeastElement, Zenon
<1>3. 2^j \in Nat \ {0}
  BY PowPositive, Zenon
<1>4. i # j
  BY <1>3
<1>5. i - 1 \in Nat /\ j =< i - 1 /\ i - 1 \notin T
  BY <1>2, <1>4
<1>6. PICK c \in Nat \ {0} : 2^(i - 1) = c * 2^j
  BY <1>5, Zenon
<1>7. 2^i = 2 * 2^(i - 1)
  <2>1. (i - 1) + 1 = i
    BY <1>5
  <2>2. QED
    BY <1>5, <2>1, PowNext, Zenon
<1>8. 2 * c \in Nat \ {0} /\ 2^i = (2 * c) * 2^j
  BY <1>3, <1>6, <1>7
<1>9. QED
  BY <1>2, <1>8, Zenon

LEMMA PowLess ==
  ASSUME NEW j \in Nat, NEW k \in Nat, j < k
  PROVE  2 * 2^j =< 2^k
<1>1. j + 1 \in Nat /\ j + 1 =< k
  OBVIOUS
<1>2. PICK c \in Nat \ {0} : 2^k = c * 2^(j + 1)
  BY <1>1, PowMultiple, Zenon
<1>3. 2^(j + 1) = 2 * 2^j /\ 2^j \in Nat /\ 2^(j + 1) \in Nat
  BY <1>1, PowNext, PowNat, Zenon
<1>4. c * 2^(j + 1) >= 2^(j + 1)
  BY <1>3
<1>5. QED
  BY <1>2, <1>3, <1>4, Zenon
-----------------------------------------------------------------------------
\* Division with remainder
LEMMA DivMod ==
  ASSUME NEW p \in Nat, NEW n \in Nat \ {0}
  PROVE  /\ p \div n \in Nat /\ p % n \in Nat /\ p % n < n
         /\ p = n * (p \div n) + (p % n)
OBVIOUS

LEMMA DivModUnique ==
  ASSUME NEW n \in Nat \ {0}, NEW q \in Nat, NEW r \in 0 .. n - 1
  PROVE  n * q + r \in Nat /\ (n * q + r) \div n = q /\ (n * q + r) % n = r
<1>1. n * q + r \in Nat
  OBVIOUS
<1>2. QED
  BY <1>1

\* A multiple is what has no remainder.
LEMMA Multiple ==
  ASSUME NEW n \in Nat \ {0}, NEW q \in Nat
  PROVE  q * n \in Nat /\ (q * n) % n = 0 /\ (q * n) \div n = q
<1>1. 0 \in 0 .. n - 1 /\ n * q + 0 = q * n
  OBVIOUS
<1>2. QED
  BY <1>1, DivModUnique

LEMMA MultipleOf ==
  ASSUME NEW n \in Nat \ {0}, NEW p \in Nat, p % n = 0
  PROVE  p \div n \in Nat /\ p = (p \div n) * n
<1>1. p \div n \in Nat /\ p = n * (p \div n) + 0
  BY DivMod, Zenon
<1>2. QED
  BY <1>1

\* The multiple of n at or below p
LEMMA RoundDown ==
  ASSUME NEW n \in Nat \ {0}, NEW p \in Nat
  PROVE  /\ p - (p % n) \in Nat /\ (p - (p % n)) % n = 0 /\ (p - (p % n)) \div n = p \div n
         /\ p - (p % n) =< p /\ p < (p - (p % n)) + n
<1>1. PICK q, r \in Nat : q = p \div n /\ r = p % n /\ r < n /\ p = n * q + r
  BY DivMod, Zenon
<1>2. q * n \in Nat /\ p - r = q * n
  BY <1>1
<1>3. (q * n) % n = 0 /\ (q * n) \div n = q
  BY <1>1, Multiple, Zenon
<1>4. p - r =< p /\ p < (p - r) + n
  BY <1>1
<1>5. QED
  BY <1>1, <1>2, <1>3, <1>4, Zenon

\* A block that begins in a zone of whole blocks ends in it.
LEMMA WholeBlocks ==
  ASSUME NEW n \in Nat \ {0}, NEW p \in Nat, NEW z \in Nat, p % n = 0, z % n = 0, p < z
  PROVE  p + n =< z
<1>1. PICK a, b \in Nat : p = a * n /\ z = b * n
  BY MultipleOf, Zenon
<1>2. a < b
  BY <1>1
<1>3. (a + 1) * n =< b * n
  BY <1>2
<1>4. QED
  BY <1>1, <1>3

\* Of two aligned blocks of which one has c times the size, one contains the other.
LEMMA SizesNest ==
  ASSUME NEW n \in Nat \ {0}, NEW c \in Nat \ {0}, NEW p \in Nat, NEW s \in Nat, NEW x \in Nat,
         p % n = 0, s % (c * n) = 0, p =< x, x < p + n, s =< x, x < s + c * n
  PROVE  s =< p /\ p + n =< s + c * n
<1>1. PICK a \in Nat : p = a * n
  BY MultipleOf, Zenon
<1>2. c * n \in Nat \ {0}
  OBVIOUS
<1>3. PICK b \in Nat : s = b * (c * n)
  BY <1>2, MultipleOf, Zenon
<1>4. PICK e \in Nat : e = b * c /\ s = e * n
  BY <1>3
<1>5. s + c * n = (e + c) * n /\ p + n = (a + 1) * n
  BY <1>1, <1>4
<1>6. e * n < (a + 1) * n /\ a * n < (e + c) * n
  BY <1>1, <1>4, <1>5
<1>7. e < a + 1 /\ a < e + c
  BY <1>6
<1>8. e =< a /\ a + 1 =< e + c
  BY <1>7
<1>9. e * n =< a * n /\ (a + 1) * n =< (e + c) * n
  BY <1>8
<1>10. QED
  BY <1>1, <1>4, <1>5, <1>9, Zenon

(* The remainder for twice the size has one digit more: whether the block  *)
(* of p is the upper of a pair.                                            *)
LEMMA DoubleMod ==
  ASSUME NEW n \in Nat \ {0}, NEW p \in Nat
  PROVE  p % (2 * n) = IF (p \div n) % 2 = 0 THEN p % n ELSE (p % n) + n
<1>1. PICK q, r \in Nat : q = p \div n /\ r = p % n /\ r < n /\ p = n * q + r
  BY DivMod, Zenon
<1>2. PICK s, t \in Nat : t = q % 2 /\ t < 2 /\ q = 2 * s + t
  <2>1. q \div 2 \in Nat /\ q % 2 \in Nat /\ q % 2 < 2 /\ q = 2 * (q \div 2) + (q % 2)
    BY <1>1
  <2>2. QED
    BY <2>1, Zenon
<1>3. CASE t = 0
  <2>0. q = 2 * s /\ n * (2 * s) = (2 * n) * s
    BY <1>2, <1>3
  <2>1. p = (2 * n) * s + r
    BY <1>1, <2>0, Zenon
  <2>2. 2 * n \in Nat \ {0} /\ r \in 0 .. (2 * n) - 1
    BY <1>1
  <2>3. p % (2 * n) = r
    BY <2>1, <2>2, <1>2, DivModUnique, Zenon
  <2>4. QED
    BY <1>1, <1>2, <1>3, <2>3, Zenon
<1>4. CASE t = 1
  <2>0. q = 2 * s + 1 /\ n * (2 * s + 1) = (2 * n) * s + n
    BY <1>2, <1>4
  <2>1. p = (2 * n) * s + (r + n)
    BY <1>1, <2>0
  <2>2. 2 * n \in Nat \ {0} /\ r + n \in 0 .. (2 * n) - 1
    BY <1>1
  <2>3. p % (2 * n) = r + n
    BY <2>1, <2>2, <1>2, DivModUnique, Zenon
  <2>4. QED
    BY <1>1, <1>2, <1>4, <2>3
<1>5. QED
  BY <1>2, <1>3, <1>4
-----------------------------------------------------------------------------
\* Blocks: aligned runs of 2^o pages

LEMMA AlignedSmaller ==
  ASSUME NEW i \in Nat, NEW j \in Nat, i =< j, NEW p \in Nat, p % 2^j = 0
  PROVE  p % 2^i = 0
<1>1. PICK n, m \in Nat \ {0} : n = 2^i /\ m = 2^j
  BY PowPositive, Zenon
<1>2. PICK c \in Nat \ {0} : m = c * n
  BY <1>1, PowMultiple, Zenon
<1>3. PICK a \in Nat : p = a * m
  BY <1>1, MultipleOf, Zenon
<1>4. a * c \in Nat /\ p = (a * c) * n
  BY <1>2, <1>3
<1>5. p % n = 0
  BY <1>4, Multiple, Zenon
<1>6. QED
  BY <1>1, <1>5, Zenon

\* Two aligned blocks that share a page: the smaller one lies in the larger one.
LEMMA BlocksNest ==
  ASSUME NEW i \in Nat, NEW j \in Nat, i =< j, NEW p \in Nat, NEW s \in Nat,
         p % 2^i = 0, s % 2^j = 0, NEW x, x \in Block(p, i), x \in Block(s, j)
  PROVE  Block(p, i) \subseteq Block(s, j)
<1>1. PICK n, m \in Nat \ {0} : n = 2^i /\ m = 2^j
  BY PowPositive, Zenon
<1>2. PICK c \in Nat \ {0} : m = c * n
  BY <1>1, PowMultiple, Zenon
<1>3. x \in Nat /\ p =< x /\ x < p + n /\ s =< x /\ x < s + m
  BY <1>1 DEF Block
<1>4. s =< p /\ p + n =< s + m
  BY <1>1, <1>2, <1>3, SizesNest, Zenon
<1>5. QED
  BY <1>1, <1>4 DEF Block

\* What a block is, without the power
LEMMA BlockRange ==
  ASSUME NEW p \in Nat, NEW o \in Nat
  PROVE  /\ 2^o \in Nat \ {0} /\ p \in Block(p, o)
         /\ \A x : x \in Block(p, o) <=> x \in Nat /\ p =< x /\ x < p + 2^o
<1>1. PICK n \in Nat \ {0} : n = 2^o
  BY PowPositive, Zenon
<1>2. QED
  BY <1>1 DEF Block

(* WHO_IS_MY_BUDDY is its own inverse, and a block and its buddy are the   *)
(* two halves of the aligned block of the next order.                      *)
LEMMA BuddyPair ==
  ASSUME NEW j \in Nat, NEW p \in Nat, p % 2^j = 0, NEW b, b = WHO_IS_MY_BUDDY(p, j),
         NEW u, u = p - (p % 2^(j + 1))
  PROVE  /\ b \in Nat /\ b % 2^j = 0 /\ b # p /\ WHO_IS_MY_BUDDY(b, j) = p
         /\ u \in Nat /\ u % 2^(j + 1) = 0
         /\ Block(u, j + 1) = Block(p, j) \cup Block(b, j)
<1>1. PICK n \in Nat \ {0} : n = 2^j /\ 2^(j + 1) = 2 * n
  BY PowPositive, PowNext, Zenon
<1>2. PICK a \in Nat : a = p \div n /\ p = a * n
  BY <1>1, MultipleOf, SMTT(30)
<1>3. p % (2 * n) = IF a % 2 = 0 THEN 0 ELSE n
  <2>1. p % (2 * n) = IF (p \div n) % 2 = 0 THEN p % n ELSE (p % n) + n
    BY DoubleMod, Zenon
  <2>2. p % n = 0
    BY <1>1, Zenon
  <2>3. QED
    BY <1>2, <2>1, <2>2
<1>4. u \in Nat /\ u % (2 * n) = 0
  <2>1. PICK m \in Nat \ {0} : m = 2 * n
    OBVIOUS
  <2>2. u = p - (p % m)
    BY <1>1, <2>1, Zenon
  <2>3. u \in Nat /\ u % m = 0
    BY <2>2, RoundDown, ZenonT(30)
  <2>4. QED
    BY <2>1, <2>3, Zenon
<1>w. b = IF a % 2 = 0 THEN p + n ELSE p - n
  BY <1>1, <1>2, Zenon DEF WHO_IS_MY_BUDDY
<1>u. u = IF a % 2 = 0 THEN p ELSE p - n
  BY <1>1, <1>3
<1>5. CASE a % 2 = 0
  <2>1. b = p + n /\ u = p
    BY <1>5, <1>w, <1>u, Zenon
  <2>2. b = (a + 1) * n /\ (a + 1) % 2 # 0
    BY <1>2, <1>5, <2>1
  <2>3. b \in Nat /\ b % n = 0 /\ b \div n = a + 1
    BY <2>2, Multiple
  <2>4. WHO_IS_MY_BUDDY(b, j) = b - n
    BY <1>1, <2>2, <2>3, Zenon DEF WHO_IS_MY_BUDDY
  <2>5. Block(u, j + 1) = Block(p, j) \cup Block(b, j)
    BY <1>1, <2>1 DEF Block
  <2>6. QED
    BY <1>1, <1>4, <2>1, <2>3, <2>4, <2>5
<1>6. CASE a % 2 # 0
  <2>1. b = p - n /\ u = p - n
    BY <1>6, <1>w, <1>u, Zenon
  <2>2. a - 1 \in Nat /\ b = (a - 1) * n /\ (a - 1) % 2 = 0
    BY <1>2, <1>6, <2>1
  <2>3. b \in Nat /\ b % n = 0 /\ b \div n = a - 1
    BY <2>2, Multiple, Zenon
  <2>4. WHO_IS_MY_BUDDY(b, j) = b + n
    BY <1>1, <2>2, <2>3, Zenon DEF WHO_IS_MY_BUDDY
  <2>5. Block(u, j + 1) = Block(p, j) \cup Block(b, j)
    BY <1>1, <2>1, <2>3 DEF Block
  <2>6. QED
    BY <1>1, <1>4, <2>1, <2>3, <2>4, <2>5
<1>7. QED
  BY <1>5, <1>6, Zenon

\* Rounding down to the next order goes through the order before it.
LEMMA RoundDownTwice ==
  ASSUME NEW j \in Nat, NEW p \in Nat, NEW d, d = p - (p % 2^j)
  PROVE  p - (p % 2^(j + 1)) = d - (d % 2^(j + 1))
<1>1. PICK n \in Nat \ {0} : n = 2^j /\ 2^(j + 1) = 2 * n
  BY PowPositive, PowNext, Zenon
<1>2. d \in Nat /\ d % n = 0 /\ d \div n = p \div n
  BY <1>1, RoundDown, Zenon
<1>3. p % (2 * n) = IF (p \div n) % 2 = 0 THEN p % n ELSE (p % n) + n
  BY DoubleMod, Zenon
<1>4. d % (2 * n) = IF (p \div n) % 2 = 0 THEN 0 ELSE 0 + n
  BY <1>2, DoubleMod, Zenon
<1>5. p % n \in Nat
  BY DivMod, Zenon
<1>6. QED
  BY <1>1, <1>3, <1>4, <1>5
-----------------------------------------------------------------------------
\* Least and greatest elements, as Min and Max choose them

LEMMA MinElement ==
  ASSUME NEW T \in SUBSET Nat, T # {}
  PROVE  Min(T) \in T /\ \A y \in T : Min(T) =< y
<1>1. \E x \in T : \A y \in T : x =< y
  BY LeastElement, Zenon
<1>2. QED
  BY <1>1, Zenon DEF Min

LEMMA MaxElement ==
  ASSUME NEW b \in Nat, NEW T \in SUBSET (0 .. b), T # {}
  PROVE  Max(T) \in T /\ \A y \in T : Max(T) >= y
<1> DEFINE U == {b - y : y \in T}
<1>1. U \in SUBSET Nat /\ U # {}
  <2>1. \A y \in T : b - y \in Nat
    OBVIOUS
  <2>2. PICK y : y \in T
    BY Zenon
  <2>3. QED
    BY <2>1, <2>2, Zenon
<1>2. PICK u \in U : \A v \in U : u =< v
  BY <1>1, LeastElement, Zenon
<1>3. PICK x \in T : u = b - x
  BY <1>2, Zenon
<1>4. ASSUME NEW y \in T PROVE x >= y
  <2>1. b - x =< b - y
    BY <1>2, <1>3, Zenon
  <2>2. x \in 0 .. b /\ y \in 0 .. b
    BY Zenon
  <2>3. QED
    BY <2>1, <2>2
<1>5. \E z \in T : \A y \in T : z >= y
  BY <1>4, Zenon
<1>6. QED
  BY <1>5, Zenon DEF Max
-----------------------------------------------------------------------------
\* How far the loop of buddy_free_block merges, and what it merges

LEMMA MergeOrderProperties ==
  ASSUME NEW p, NEW o \in Orders, NEW k, k = MergeOrder(p, o)
  PROVE  /\ k \in o .. MaxOrder
         /\ \A j \in o .. k - 1 : get_buddy_page(WHO_IS_MY_BUDDY(Merged(p, o, j), j), j)
         /\ k < MaxOrder => ~get_buddy_page(WHO_IS_MY_BUDDY(Merged(p, o, k), k), k)
<1> DEFINE g(j) == get_buddy_page(WHO_IS_MY_BUDDY(Merged(p, o, j), j), j)
           T == {i \in o .. MaxOrder : \A j \in o .. i - 1 : g(j)}
<1>1. o \in Nat /\ MaxOrder \in Nat /\ o =< MaxOrder
  BY BuddyAssumptions DEF Orders
<1>2. k = Max(T)
  BY Zenon DEF MergeOrder
<1> HIDE DEF g
<1>3. T \in SUBSET (0 .. MaxOrder) /\ T # {}
  <2>1. o \in T
    BY <1>1
  <2>2. QED
    BY <1>1, <2>1
<1>4. k \in T /\ \A y \in T : k >= y
  BY <1>1, <1>2, <1>3, MaxElement, Zenon
<1>5. k \in o .. MaxOrder /\ \A j \in o .. k - 1 : g(j)
  BY <1>4, Zenon
<1>6. ASSUME k < MaxOrder, g(k) PROVE FALSE
  <2>1. k + 1 \in o .. MaxOrder
    BY <1>1, <1>5, <1>6
  <2>2. \A j \in o .. (k + 1) - 1 : g(j)
    BY <1>1, <1>5, <1>6
  <2>3. k + 1 \in T
    BY <2>1, <2>2, Zenon
  <2>4. QED
    BY <1>1, <1>4, <1>5, <2>3
<1>7. QED
  BY <1>5, <1>6, Zenon DEF g

(* The block that p, aligned for order o, merges into is aligned, in the   *)
(* zone, and made of the block before it and its buddy.                    *)
LEMMA MergedBlock ==
  ASSUME NEW p \in Page, NEW o \in Orders, p % 2^o = 0, NEW j \in o .. MaxOrder,
         NEW m, m = Merged(p, o, j)
  PROVE  /\ m \in Nat /\ m % 2^j = 0 /\ m + 2^j =< NPages /\ p \in Block(m, j)
         /\ j = o => m = p
<1>1. /\ o \in Nat /\ j \in Nat /\ MaxOrder \in Nat /\ o =< j /\ j =< MaxOrder
      /\ p \in Nat /\ p < NPages /\ NPages \in Nat
  BY BuddyAssumptions DEF Orders, Page
<1>2. PICK n \in Nat \ {0} : n = 2^j
  BY <1>1, PowPositive, Zenon
<1>3. m = p - (p % n)
  <2>1. p % n \in Nat
    BY <1>1, <1>2, DivMod, Zenon
  <2>2. QED
    BY <1>1, <1>2, <2>1 DEF Merged
<1>4. m \in Nat /\ m % n = 0 /\ m =< p /\ p < m + n
  BY <1>1, <1>3, RoundDown, Zenon
<1>5. NPages % n = 0
  BY <1>1, <1>2, AlignedSmaller, BuddyAssumptions, Zenon
<1>6. m + n =< NPages
  BY <1>1, <1>4, <1>5, WholeBlocks
<1>7. j = o => m = p
  BY <1>1, <1>2, <1>3
<1>8. QED
  BY <1>1, <1>2, <1>4, <1>6, <1>7 DEF Block

LEMMA MergedHalves ==
  ASSUME NEW p \in Page, NEW o \in Orders, p % 2^o = 0, NEW j \in o .. MaxOrder - 1,
         NEW m, m = Merged(p, o, j), NEW b, b = WHO_IS_MY_BUDDY(m, j)
  PROVE  /\ b \in Nat /\ b % 2^j = 0 /\ b # m /\ WHO_IS_MY_BUDDY(b, j) = m
         /\ Block(Merged(p, o, j + 1), j + 1) = Block(m, j) \cup Block(b, j)
<1>1. /\ o \in Nat /\ j \in Nat /\ MaxOrder \in Nat /\ p \in Nat /\ j \in o .. MaxOrder
      /\ 2^j \in Nat \ {0} /\ 2^(j + 1) \in Nat \ {0}
  BY BuddyAssumptions, PowPositive DEF Orders, Page
<1>2. m = p - (p % 2^j) /\ Merged(p, o, j + 1) = p - (p % 2^(j + 1))
  <2>1. p % 2^j \in Nat /\ p % 2^(j + 1) \in Nat
    BY <1>1, DivMod, Zenon
  <2>2. QED
    BY <1>1, <2>1 DEF Merged
<1>3. Merged(p, o, j + 1) = m - (m % 2^(j + 1))
  BY <1>1, <1>2, RoundDownTwice, Zenon
<1>4. m \in Nat /\ m % 2^j = 0
  BY <1>1, MergedBlock
<1>5. QED
  BY <1>1, <1>3, <1>4, BuddyPair, SMTT(30)

(* The pages of the merged block are those of the block that was freed and *)
(* those of the buddies it was merged with.                                *)
LEMMA MergedPages ==
  ASSUME NEW p \in Page, NEW o \in Orders, p % 2^o = 0, NEW k \in o .. MaxOrder
  PROVE  /\ \A r \in Block(Merged(p, o, k), k) :
              \/ r \in Block(p, o)
              \/ \E i \in o .. k - 1 : r \in Block(WHO_IS_MY_BUDDY(Merged(p, o, i), i), i)
         /\ Block(p, o) \subseteq Block(Merged(p, o, k), k)
         /\ \A i \in o .. k - 1 :
              Block(WHO_IS_MY_BUDDY(Merged(p, o, i), i), i) \subseteq Block(Merged(p, o, k), k)
<1> DEFINE B(i) == Block(WHO_IS_MY_BUDDY(Merged(p, o, i), i), i)
           M(i) == Block(Merged(p, o, i), i)
           Holds(i) == /\ \A r \in M(i) : r \in Block(p, o) \/ \E h \in o .. i - 1 : r \in B(h)
                       /\ Block(p, o) \subseteq M(i)
                       /\ \A h \in o .. i - 1 : B(h) \subseteq M(i)
           T == {i \in o .. MaxOrder : ~Holds(i)}
<1>1. o \in Nat /\ MaxOrder \in Nat
  BY BuddyAssumptions DEF Orders
<1>2. \A j \in o .. MaxOrder - 1 : M(j + 1) = M(j) \cup B(j)
  BY MergedHalves
<1>3. M(o) = Block(p, o)
  BY <1>1, MergedBlock DEF Orders
<1> HIDE DEF B, M
<1>4. SUFFICES ASSUME T # {} PROVE FALSE
  BY Zenon DEF B, M
<1>5. PICK i \in T : \A y \in T : i =< y
  <2>1. T \in SUBSET Nat
    BY <1>1
  <2>2. QED
    BY <1>4, <2>1, LeastElement, Zenon
<1>6. i # o
  <2>1. Holds(o)
    BY <1>1, <1>3
  <2>2. QED
    BY <2>1, Zenon
<1>7. i \in o .. MaxOrder /\ i - 1 \in o .. MaxOrder - 1 /\ i - 1 \in o .. MaxOrder /\ (i - 1) + 1 = i
  BY <1>1, <1>6
<1>8. Holds(i - 1)
  <2>1. i - 1 \notin T
    BY <1>5, <1>7
  <2>2. QED
    BY <1>7, <2>1, Zenon
<1>9. M(i) = M(i - 1) \cup B(i - 1)
  BY <1>2, <1>7, Zenon
<1>10. \A h : h \in o .. i - 1 <=> h = i - 1 \/ h \in o .. (i - 1) - 1
  BY <1>1, <1>7
<1>11. Holds(i)
  <2>1. ASSUME NEW r \in M(i) PROVE r \in Block(p, o) \/ \E h \in o .. i - 1 : r \in B(h)
    BY <1>8, <1>9, <1>10, Zenon
  <2>2. Block(p, o) \subseteq M(i)
    BY <1>8, <1>9, Zenon
  <2>3. ASSUME NEW h \in o .. i - 1 PROVE B(h) \subseteq M(i)
    BY <1>8, <1>9, <1>10, Zenon
  <2>4. QED
    BY <2>1, <2>2, <2>3, Zenon
<1>12. QED
  BY <1>11, Zenon
-----------------------------------------------------------------------------
\* The states and the private data that set_block_metadata leaves

LEMMA StateSetPages ==
  ASSUME NEW s \in [Page -> {"RESERVED", "AVAILABLE", "FREE", "ALLOCATED"}], NEW p, NEW o,
         NEW new \in {"FREE", "ALLOCATED"}
  PROVE  /\ StateSet(s, p, o, new) \in [Page -> {"RESERVED", "AVAILABLE", "FREE", "ALLOCATED"}]
         /\ \A q \in Page : StateSet(s, p, o, new)[q] = IF q \in Block(p, o) THEN new ELSE s[q]
BY Zenon DEF StateSet

LEMMA DataSetPages ==
  ASSUME NEW d \in [Page -> Orders \cup {MAGIC}], NEW p, NEW o \in Orders
  PROVE  /\ DataSet(d, p, o) \in [Page -> Orders \cup {MAGIC}]
         /\ \A q \in Page : q = p => DataSet(d, p, o)[q] = o
         /\ \A q \in Page : q # p /\ q \in Block(p, o) => DataSet(d, p, o)[q] = MAGIC
         /\ \A q \in Page : q # p /\ q \notin Block(p, o) => DataSet(d, p, o)[q] = d[q]
<1>1. \A q \in Page : DataSet(d, p, o)[q] =
        IF q = p THEN o ELSE IF q \in Block(p, o) THEN MAGIC ELSE d[q]
  BY Zenon DEF DataSet
<1>2. DataSet(d, p, o) = [q \in Page |-> DataSet(d, p, o)[q]]
  BY Zenon DEF DataSet
<1>3. \A q \in Page : DataSet(d, p, o)[q] \in Orders \cup {MAGIC}
  BY <1>1, Zenon
<1>4. QED
  BY <1>1, <1>2, <1>3, Zenon
-----------------------------------------------------------------------------
(* The inductive invariant.  It speaks of the descriptors: the blocks are  *)
(* found from the pages whose private data is an order, and the lists, the *)
(* counters and the clients' blocks are tied to them.                      *)
States == {"RESERVED", "AVAILABLE", "FREE", "ALLOCATED"}

BuddyType ==
  /\ pst \in [Page -> States] /\ data \in [Page -> Orders \cup {MAGIC}]
  /\ free \in [Orders -> Seq(Page)] /\ nr_free \in [Orders -> Nat]
  /\ boot \in 0 .. NPages /\ held \subseteq Page \X Orders

\* The first pages of the free and of the allocated blocks, and the block of one
Heads == {p \in Page : pst[p] \in {"FREE", "ALLOCATED"} /\ data[p] \in Orders}
BlockOf(p) == Block(p, data[p])

(* The blocks are aligned and in the zone, their pages have the state of   *)
(* the first one, they are disjoint, and every free or allocated page is   *)
(* in one.                                                                 *)
Tiling ==
  /\ \A p \in Heads : /\ p % 2^data[p] = 0 /\ p + 2^data[p] =< NPages
                      /\ \A q \in BlockOf(p) : pst[q] = pst[p]
  /\ \A q \in Page : pst[q] \in {"FREE", "ALLOCATED"} => \E p \in Heads : q \in BlockOf(p)
  /\ \A p, q \in Heads : p # q => BlockOf(p) \cap BlockOf(q) = {}

\* Each list has the first pages of the free blocks of its order, once.
ListsExact ==
  \A o \in Orders :
    /\ nr_free[o] = Len(free[o]) /\ IsInjective(free[o])
    /\ \A p \in Page : p \in Range(free[o]) <=> (pst[p] = "FREE" /\ data[p] = o)

HeldExact ==
  \A p \in Page, o \in Orders : <<p, o>> \in held <=> (pst[p] = "ALLOCATED" /\ data[p] = o)

\* buddy_init has been at the pages before `boot`, and only at those.
BootProgress ==
  \A p \in Page : IF p < boot THEN pst[p] # "AVAILABLE" ELSE pst[p] \in {"RESERVED", "AVAILABLE"}

NoFreeBuddies ==
  \A p, q \in Heads : pst[p] = "FREE" /\ pst[q] = "FREE" /\ data[p] = data[q] /\ data[p] < MaxOrder
                        => q # WHO_IS_MY_BUDDY(p, data[p])

IInv == BuddyType /\ Tiling /\ ListsExact /\ HeldExact /\ BootProgress /\ NoFreeBuddies
-----------------------------------------------------------------------------
\* A block that buddy_free_block may be given: not free, and not cut by another one
MayFree(p, o) ==
  /\ p \in Page /\ o \in Orders /\ p % 2^o = 0
  /\ \A q \in Block(p, o) : pst[q] # "FREE"
  /\ \A h \in Heads : BlockOf(h) \subseteq Block(p, o) \/ BlockOf(h) \cap Block(p, o) = {}

LEMMA HeadInBlock ==
  ASSUME NEW h \in Heads
  PROVE  /\ h \in Page /\ h \in Nat /\ data[h] \in Orders /\ data[h] \in Nat /\ h \in BlockOf(h)
         /\ pst[h] \in {"FREE", "ALLOCATED"}
<1>1. h \in Page /\ h \in Nat /\ data[h] \in Orders /\ pst[h] \in {"FREE", "ALLOCATED"}
  BY BuddyAssumptions DEF Heads, Page
<1>2. data[h] \in Nat
  BY <1>1, BuddyAssumptions DEF Orders
<1>3. h \in Block(h, data[h])
  BY <1>1, <1>2, BlockRange, Zenon
<1>4. QED
  BY <1>1, <1>2, <1>3, Zenon DEF BlockOf

LEMMA HeadPages ==
  ASSUME Tiling, NEW h \in Heads
  PROVE  BlockOf(h) \subseteq Page /\ \A q \in BlockOf(h) : pst[q] = pst[h]
<1>1. h \in Nat /\ data[h] \in Nat
  BY HeadInBlock, Zenon
<1>2. h + 2^data[h] =< NPages /\ \A q \in BlockOf(h) : pst[q] = pst[h]
  BY Zenon DEF Tiling
<1>3. 2^data[h] \in Nat /\ \A x \in BlockOf(h) : x \in Nat /\ x < h + 2^data[h]
  BY <1>1, BlockRange, Zenon DEF BlockOf
<1>4. QED
  BY <1>1, <1>2, <1>3, BuddyAssumptions DEF Page

(* What the loop of buddy_free_block finds: each buddy it merges with is a *)
(* free block of that order, the merged block takes in whole blocks only,  *)
(* and it has no free buddy itself.                                        *)
LEMMA MergeFinds ==
  ASSUME BuddyType, Tiling, NEW p, NEW o, MayFree(p, o),
         NEW k, k = MergeOrder(p, o), NEW m, m = Merged(p, o, k)
  PROVE  /\ k \in Orders /\ o =< k /\ m \in Page /\ m % 2^k = 0 /\ m + 2^k =< NPages
         /\ m \in Block(m, k) /\ Block(m, k) \subseteq Page /\ Block(p, o) \subseteq Block(m, k)
         /\ \A q \in Block(m, k) : q \in Block(p, o) \/ pst[q] = "FREE"
         /\ \A j \in o .. k - 1 :
              /\ WHO_IS_MY_BUDDY(Merged(p, o, j), j) \in Heads \cap Block(m, k)
              /\ get_buddy_page(WHO_IS_MY_BUDDY(Merged(p, o, j), j), j)
         /\ \A h \in Heads : h \notin Block(m, k) => BlockOf(h) \cap Block(m, k) = {}
         /\ \A h \in Heads : h \in Block(m, k) => BlockOf(h) \subseteq Block(m, k)
         /\ \A h \in Heads : h \in Block(m, k) /\ pst[h] = "FREE" =>
              data[h] \in o .. k - 1 /\ h = WHO_IS_MY_BUDDY(Merged(p, o, data[h]), data[h])
         /\ k < MaxOrder => ~get_buddy_page(WHO_IS_MY_BUDDY(m, k), k)
<1> DEFINE W(j) == WHO_IS_MY_BUDDY(Merged(p, o, j), j)
<1>1. /\ p \in Page /\ o \in Orders /\ p % 2^o = 0 /\ \A q \in Block(p, o) : pst[q] # "FREE"
      /\ \A h \in Heads : BlockOf(h) \subseteq Block(p, o) \/ BlockOf(h) \cap Block(p, o) = {}
  BY Zenon DEF MayFree
<1>2. /\ k \in o .. MaxOrder /\ \A j \in o .. k - 1 : get_buddy_page(W(j), j)
      /\ k < MaxOrder => ~get_buddy_page(WHO_IS_MY_BUDDY(m, k), k)
  BY <1>1, MergeOrderProperties, Zenon
<1>3. k \in Orders /\ o =< k /\ o \in Nat /\ k \in Nat /\ MaxOrder \in Nat /\ NPages \in Nat
  BY <1>1, <1>2, BuddyAssumptions DEF Orders
<1>4. m \in Nat /\ m % 2^k = 0 /\ m + 2^k =< NPages
  BY <1>1, <1>2, MergedBlock
<1>5. /\ m \in Block(m, k) /\ 2^k \in Nat \ {0}
      /\ \A x : x \in Block(m, k) <=> x \in Nat /\ m =< x /\ x < m + 2^k
  BY <1>3, <1>4, BlockRange, Zenon
<1>6. Block(m, k) \subseteq Page
  BY <1>3, <1>4, <1>5 DEF Page
<1>7. /\ \A r \in Block(m, k) : r \in Block(p, o) \/ \E i \in o .. k - 1 : r \in Block(W(i), i)
      /\ Block(p, o) \subseteq Block(m, k)
      /\ \A i \in o .. k - 1 : Block(W(i), i) \subseteq Block(m, k)
  BY <1>1, <1>2, MergedPages, Zenon
<1>8. ASSUME NEW j \in o .. k - 1
      PROVE  W(j) \in Heads /\ W(j) \in Block(m, k) /\ data[W(j)] = j /\ pst[W(j)] = "FREE"
  <2>1. j \in Nat /\ j \in Orders /\ j \in o .. MaxOrder - 1
    BY <1>3 DEF Orders
  <2>2. W(j) \in Nat
    BY <1>1, <2>1, MergedHalves, Zenon
  <2>3. W(j) \in Block(W(j), j)
    BY <2>1, <2>2, BlockRange, Zenon
  <2>4. W(j) \in Block(m, k) /\ W(j) \in Page
    BY <1>6, <1>7, <2>3, Zenon
  <2>5. pst[W(j)] = "FREE" /\ data[W(j)] = j
    BY <1>2, Zenon DEF get_buddy_page
  <2>6. QED
    BY <2>1, <2>4, <2>5, Zenon DEF Heads
<1> HIDE DEF W
<1>9. \A q \in Block(m, k) : q \in Block(p, o) \/ pst[q] = "FREE"
  <2>1. SUFFICES ASSUME NEW q \in Block(m, k), q \notin Block(p, o) PROVE pst[q] = "FREE"
    BY Zenon
  <2>2. PICK i \in o .. k - 1 : q \in Block(W(i), i)
    BY <1>7, <2>1, Zenon
  <2>3. W(i) \in Heads /\ pst[W(i)] = "FREE" /\ q \in BlockOf(W(i))
    BY <1>8, <2>2, Zenon DEF BlockOf
  <2>4. QED
    BY <2>3, Zenon DEF Tiling
<1>10. ASSUME NEW h \in Heads, NEW r \in BlockOf(h), r \in Block(m, k), r \notin Block(p, o)
       PROVE  \E i \in o .. k - 1 : h = W(i)
  <2>1. PICK i \in o .. k - 1 : r \in Block(W(i), i)
    BY <1>7, <1>10, Zenon
  <2>2. W(i) \in Heads /\ r \in BlockOf(W(i))
    BY <1>8, <2>1, Zenon DEF BlockOf
  <2>3. h = W(i)
    BY <1>10, <2>2, Zenon DEF Tiling
  <2>4. QED
    BY <2>3, Zenon
<1>11. ASSUME NEW h \in Heads, h \notin Block(m, k) PROVE BlockOf(h) \cap Block(m, k) = {}
  <2>1. SUFFICES ASSUME NEW r \in BlockOf(h), r \in Block(m, k) PROVE FALSE
    BY Zenon
  <2>2. h \in BlockOf(h)
    BY HeadInBlock, Zenon
  <2>3. r \notin Block(p, o)
    BY <1>1, <1>7, <1>11, <2>1, <2>2, SMTT(30)
  <2>4. QED
    BY <1>8, <1>10, <1>11, <2>1, <2>3
<1>12. ASSUME NEW h \in Heads, h \in Block(m, k)
       PROVE  /\ BlockOf(h) \subseteq Block(m, k)
              /\ pst[h] = "FREE" => data[h] \in o .. k - 1 /\ h = W(data[h])
  <2>1. h \in BlockOf(h)
    BY HeadInBlock, Zenon
  <2>2. CASE h \in Block(p, o)
    <3>1. BlockOf(h) \subseteq Block(p, o)
      BY <1>1, <2>1, <2>2, Zenon
    <3>2. pst[h] # "FREE"
      BY <1>1, <2>2, Zenon
    <3>3. QED
      BY <1>7, <3>1, <3>2, Zenon
  <2>3. CASE h \notin Block(p, o)
    <3>1. PICK i \in o .. k - 1 : h = W(i)
      BY <1>10, <1>12, <2>1, <2>3, Zenon
    <3>2. data[h] = i
      BY <1>8, <3>1, Zenon
    <3>3. QED
      BY <1>7, <3>1, <3>2, Zenon DEF BlockOf
  <2>4. QED
    BY <2>2, <2>3, Zenon
<1>13. m \in Page
  BY <1>5, <1>6, Zenon
<1>14. QED
  BY <1>2, <1>3, <1>4, <1>5, <1>6, <1>7, <1>8, <1>9, <1>11, <1>12, <1>13, SMTT(30) DEF W

(* buddy_free_block keeps the blocks sound.  The pages of the freed block  *)
(* become free and no other page changes its state.                        *)
LEMMA FreeBlockTiling ==
  ASSUME BuddyType, Tiling, NoFreeBuddies, NEW p, NEW o, MayFree(p, o), free_block(p, o)
  PROVE  /\ pst' \in [Page -> States] /\ data' \in [Page -> Orders \cup {MAGIC}]
         /\ Tiling' /\ NoFreeBuddies'
         /\ \A q \in Page : pst'[q] = IF q \in Block(p, o) THEN "FREE" ELSE pst[q]
         /\ \A q \in Page : q \notin Block(p, o) /\ pst[q] # "FREE" => data'[q] = data[q]
<1>1. PICK k, m : k = MergeOrder(p, o) /\ m = Merged(p, o, k)
  BY Zenon
<1>2. /\ k \in Orders /\ o =< k /\ m \in Page /\ m % 2^k = 0 /\ m + 2^k =< NPages
      /\ m \in Block(m, k) /\ Block(m, k) \subseteq Page /\ Block(p, o) \subseteq Block(m, k)
      /\ \A q \in Block(m, k) : q \in Block(p, o) \/ pst[q] = "FREE"
      /\ \A h \in Heads : h \notin Block(m, k) => BlockOf(h) \cap Block(m, k) = {}
      /\ \A h \in Heads : h \in Block(m, k) => BlockOf(h) \subseteq Block(m, k)
      /\ k < MaxOrder => ~get_buddy_page(WHO_IS_MY_BUDDY(m, k), k)
  BY <1>1, MergeFinds
<1>3. pst' = StateSet(pst, m, k, "FREE") /\ data' = DataSet(data, m, k)
  BY <1>1, Zenon DEF free_block
<1>4. /\ pst' \in [Page -> States]
      /\ \A q \in Page : pst'[q] = IF q \in Block(m, k) THEN "FREE" ELSE pst[q]
  BY <1>3, StateSetPages DEF BuddyType, States
<1>5. /\ data' \in [Page -> Orders \cup {MAGIC}] /\ data'[m] = k
      /\ \A q \in Page : q # m /\ q \in Block(m, k) => data'[q] = MAGIC
      /\ \A q \in Page : q \notin Block(m, k) => data'[q] = data[q]
  <2>1. data \in [Page -> Orders \cup {MAGIC}] /\ k \in Orders
    BY <1>2, Zenon DEF BuddyType
  <2>2. /\ data' \in [Page -> Orders \cup {MAGIC}]
        /\ \A q \in Page : q = m => data'[q] = k
        /\ \A q \in Page : q # m /\ q \in Block(m, k) => data'[q] = MAGIC
        /\ \A q \in Page : q # m /\ q \notin Block(m, k) => data'[q] = data[q]
    BY <1>3, <2>1, DataSetPages
  <2>3. QED
    BY <1>2, <2>2, Zenon
<1>6. MAGIC \notin Orders
  BY BuddyAssumptions DEF MAGIC, Orders
<1>7. \A h : h \in Heads' <=> h = m \/ (h \in Heads /\ h \notin Block(m, k))
  BY <1>2, <1>4, <1>5, <1>6, Zenon DEF Heads
<1>8. \A h \in Heads : h \notin Block(m, k) =>
        BlockOf(h)' = BlockOf(h) /\ pst'[h] = pst[h] /\ data'[h] = data[h]
  BY <1>4, <1>5, HeadInBlock, Zenon DEF BlockOf
<1>9. BlockOf(m)' = Block(m, k) /\ pst'[m] = "FREE"
  BY <1>2, <1>4, <1>5, Zenon DEF BlockOf
<1>10. Tiling'
  <2>1. ASSUME NEW h \in Heads'
        PROVE  /\ h % 2^data'[h] = 0 /\ h + 2^data'[h] =< NPages
               /\ \A q \in BlockOf(h)' : pst'[q] = pst'[h]
    <3>1. CASE h = m
      BY <1>2, <1>4, <1>5, <1>9, <3>1, Zenon
    <3>2. CASE h # m
      <4>1. h \in Heads /\ h \notin Block(m, k)
        BY <1>7, <2>1, <3>2, Zenon
      <4>2. BlockOf(h)' = BlockOf(h) /\ pst'[h] = pst[h] /\ data'[h] = data[h]
        BY <1>8, <4>1, Zenon
      <4>3. h % 2^data[h] = 0 /\ h + 2^data[h] =< NPages /\ \A q \in BlockOf(h) : pst[q] = pst[h]
        BY <4>1, Zenon DEF Tiling
      <4>4. \A q \in BlockOf(h) : q \notin Block(m, k) /\ q \in Page
        BY <1>2, <4>1, <4>3, HeadPages, Zenon
      <4>5. QED
        BY <1>4, <4>2, <4>3, <4>4, Zenon
    <3>3. QED
      BY <3>1, <3>2, Zenon
  <2>2. ASSUME NEW q \in Page, pst'[q] \in {"FREE", "ALLOCATED"}
        PROVE  \E h \in Heads' : q \in BlockOf(h)'
    <3>1. CASE q \in Block(m, k)
      BY <1>7, <1>9, <3>1, Zenon
    <3>2. CASE q \notin Block(m, k)
      <4>1. PICK h \in Heads : q \in BlockOf(h)
        BY <1>4, <2>2, <3>2, Zenon DEF Tiling
      <4>2. h \notin Block(m, k)
        BY <1>2, <3>2, <4>1, Zenon
      <4>3. QED
        BY <1>7, <1>8, <4>1, <4>2, Zenon
    <3>3. QED
      BY <3>1, <3>2, Zenon
  <2>3. ASSUME NEW g \in Heads', NEW h \in Heads', g # h PROVE BlockOf(g)' \cap BlockOf(h)' = {}
    <3>1. CASE g = m
      BY <1>2, <1>7, <1>8, <1>9, <2>3, <3>1
    <3>2. CASE h = m
      BY <1>2, <1>7, <1>8, <1>9, <2>3, <3>2
    <3>3. CASE g # m /\ h # m
      BY <1>7, <1>8, <2>3, <3>3, Zenon DEF Tiling
    <3>4. QED
      BY <3>1, <3>2, <3>3, Zenon
  <2>4. QED
    BY <2>1, <2>2, <2>3, Zenon DEF Tiling
<1>11. NoFreeBuddies'
  <2>1. SUFFICES ASSUME NEW g \in Heads', NEW h \in Heads', pst'[g] = "FREE", pst'[h] = "FREE",
                        data'[g] = data'[h], data'[g] < MaxOrder, h = WHO_IS_MY_BUDDY(g, data'[g])
                 PROVE  FALSE
    BY Zenon DEF NoFreeBuddies
  <2>2. g \in Nat /\ data'[g] \in Nat /\ g % 2^data'[g] = 0
    <3>1. g \in Page /\ data'[g] \in Orders
      BY <2>1, Zenon DEF Heads
    <3>2. g % 2^data'[g] = 0
      BY <1>10, <2>1, Zenon DEF Tiling
    <3>3. QED
      BY <3>1, <3>2, BuddyAssumptions DEF Page, Orders
  <2>3. h # g /\ WHO_IS_MY_BUDDY(h, data'[g]) = g
    BY <2>1, <2>2, BuddyPair
  <2>4. ASSUME NEW x \in Heads', x # m, data'[x] = k, x = WHO_IS_MY_BUDDY(m, k), pst'[x] = "FREE",
               k < MaxOrder
        PROVE  FALSE
    <3>1. pst[x] = "FREE" /\ data[x] = k
      BY <1>7, <1>8, <2>4, Zenon
    <3>2. QED
      BY <1>2, <2>4, <3>1, Zenon DEF get_buddy_page
  <2>5. CASE g = m
    BY <1>5, <2>1, <2>3, <2>4, <2>5, Zenon
  <2>6. CASE h = m
    BY <1>5, <2>1, <2>3, <2>4, <2>6, Zenon
  <2>7. CASE g # m /\ h # m
    <3>1. g \in Heads /\ h \in Heads /\ pst[g] = "FREE" /\ pst[h] = "FREE"
          /\ data'[g] = data[g] /\ data'[h] = data[h]
      BY <1>7, <1>8, <2>1, <2>7, Zenon
    <3>2. QED
      BY <2>1, <3>1, Zenon DEF NoFreeBuddies
  <2>8. QED
    BY <2>5, <2>6, <2>7, Zenon
<1>12. \A q \in Page : pst'[q] = IF q \in Block(p, o) THEN "FREE" ELSE pst[q]
  BY <1>2, <1>4, Zenon
<1>13. \A q \in Page : q \notin Block(p, o) /\ pst[q] # "FREE" => data'[q] = data[q]
  BY <1>2, <1>5, Zenon
<1>14. QED
  BY <1>4, <1>5, <1>10, <1>11, <1>12, <1>13, Zenon

(* buddy_free_block keeps the free lists and the counters exact: each free *)
(* buddy leaves its list, and the merged block enters the list of its      *)
(* order.                                                                  *)
LEMMA FreeBlockLists ==
  ASSUME BuddyType, Tiling, ListsExact, NEW p, NEW o, MayFree(p, o), free_block(p, o)
  PROVE  /\ free' \in [Orders -> Seq(Page)] /\ nr_free' \in [Orders -> Nat]
         /\ ListsExact'
<1>1. PICK k, m : k = MergeOrder(p, o) /\ m = Merged(p, o, k)
  BY Zenon
<1>2. /\ k \in Orders /\ m \in Page /\ m \in Block(m, k) /\ Block(m, k) \subseteq Page
      /\ \A j \in o .. k - 1 :
           /\ WHO_IS_MY_BUDDY(Merged(p, o, j), j) \in Heads \cap Block(m, k)
           /\ get_buddy_page(WHO_IS_MY_BUDDY(Merged(p, o, j), j), j)
      /\ \A h \in Heads : h \in Block(m, k) /\ pst[h] = "FREE" =>
           data[h] \in o .. k - 1 /\ h = WHO_IS_MY_BUDDY(Merged(p, o, data[h]), data[h])
  BY <1>1, MergeFinds
<1>3. o \in Nat /\ k \in Nat /\ o .. k - 1 \subseteq Orders
  BY <1>2, BuddyAssumptions DEF MayFree, Orders
<1>4. /\ free' = [j \in Orders |->
                    CASE j \in o .. k - 1 -> Unlink(free[j], WHO_IS_MY_BUDDY(Merged(p, o, j), j))
                      [] j = k -> list_add_head(m, free[j])
                      [] OTHER -> free[j]]
      /\ nr_free' = [j \in Orders |->
                       CASE j \in o .. k - 1 -> nr_free[j] - 1
                         [] j = k -> nr_free[j] + 1
                         [] OTHER -> nr_free[j]]
      /\ pst' = StateSet(pst, m, k, "FREE") /\ data' = DataSet(data, m, k)
  BY <1>1 DEF free_block
<1>5. \A q \in Page : pst'[q] = IF q \in Block(m, k) THEN "FREE" ELSE pst[q]
  BY <1>4, StateSetPages, SMTT(30) DEF BuddyType, States
<1>6. /\ data'[m] = k
      /\ \A q \in Page : q # m /\ q \in Block(m, k) => data'[q] = MAGIC
      /\ \A q \in Page : q \notin Block(m, k) => data'[q] = data[q]
  <2>1. data \in [Page -> Orders \cup {MAGIC}] /\ k \in Orders
    BY <1>2, Zenon DEF BuddyType
  <2>2. /\ \A q \in Page : q = m => data'[q] = k
        /\ \A q \in Page : q # m /\ q \in Block(m, k) => data'[q] = MAGIC
        /\ \A q \in Page : q # m /\ q \notin Block(m, k) => data'[q] = data[q]
    BY <1>4, <2>1, DataSetPages
  <2>3. QED
    BY <1>2, <2>2, Zenon
<1>7. MAGIC \notin Orders
  BY BuddyAssumptions DEF MAGIC, Orders
<1>8. \A q \in Page, j \in Orders :
        (pst'[q] = "FREE" /\ data'[q] = j)
          <=> \/ q = m /\ j = k
              \/ q \notin Block(m, k) /\ pst[q] = "FREE" /\ data[q] = j
  BY <1>2, <1>5, <1>6, <1>7, Zenon
<1>9. \A q \in Page, j \in Orders : pst[q] = "FREE" /\ data[q] = j => q \in Heads
  BY Zenon DEF Heads
<1>10. ASSUME NEW j \in Orders
       PROVE  /\ free'[j] \in Seq(Page) /\ nr_free'[j] \in Nat
              /\ nr_free'[j] = Len(free'[j]) /\ IsInjective(free'[j])
              /\ \A q \in Page : q \in Range(free'[j]) <=> (pst'[q] = "FREE" /\ data'[q] = j)
  <2>1. /\ free[j] \in Seq(Page) /\ nr_free[j] = Len(free[j]) /\ IsInjective(free[j])
        /\ \A q \in Page : q \in Range(free[j]) <=> (pst[q] = "FREE" /\ data[q] = j)
    BY Zenon DEF BuddyType, ListsExact
  <2>2. Len(free[j]) \in Nat
    BY <2>1, ListLengths, Zenon
  <2>3. CASE j \in o .. k - 1
    <3>1. PICK w : w = WHO_IS_MY_BUDDY(Merged(p, o, j), j)
      BY Zenon
    <3>2. j # k
      BY <1>3, <2>3
    <3>3. free'[j] = Unlink(free[j], w) /\ nr_free'[j] = nr_free[j] - 1
      BY <1>4, <2>3, <3>1, SMTT(30)
    <3>4. w \in Heads /\ w \in Block(m, k) /\ w \in Page /\ pst[w] = "FREE" /\ data[w] = j
      BY <1>2, <2>3, <3>1, Zenon DEF get_buddy_page
    <3>5. w \in Range(free[j])
      BY <2>1, <3>4, Zenon
    <3>6. /\ Unlink(free[j], w) \in Seq(Page) /\ IsInjective(Unlink(free[j], w))
          /\ Range(Unlink(free[j], w)) = Range(free[j]) \ {w}
      BY <2>1, UnlinkList, Zenon
    <3>7. Len(free[j]) > 0 /\ Len(Unlink(free[j], w)) = Len(free[j]) - 1
      BY <2>1, <3>5, ListLengths, Zenon
    <3>8. ASSUME NEW q \in Page
          PROVE  q \in Range(free'[j]) <=> (pst'[q] = "FREE" /\ data'[q] = j)
      <4>1. q \in Block(m, k) /\ pst[q] = "FREE" /\ data[q] = j => q = w
        BY <1>2, <1>9, <3>1, Zenon
      <4>2. (pst'[q] = "FREE" /\ data'[q] = j) <=> q \notin Block(m, k) /\ pst[q] = "FREE" /\ data[q] = j
        BY <1>8, <3>2, Zenon
      <4>3. q \in Range(free'[j]) <=> pst[q] = "FREE" /\ data[q] = j /\ q # w
        BY <2>1, <3>3, <3>6, Zenon
      <4>4. QED
        BY <3>4, <4>1, <4>2, <4>3, Zenon
    <3>9. QED
      BY <2>1, <2>2, <3>3, <3>6, <3>7, <3>8
  <2>4. CASE j = k
    <3>1. j \notin o .. k - 1
      BY <1>3, <2>4
    <3>2. free'[j] = list_add_head(m, free[j]) /\ nr_free'[j] = nr_free[j] + 1
      BY <1>4, <2>4, <3>1, Zenon
    <3>3. \A q \in Page : q \in Block(m, k) => ~(pst[q] = "FREE" /\ data[q] = j)
      BY <1>2, <1>9, <3>1, Zenon
    <3>4. m \notin Range(free[j])
      BY <1>2, <2>1, <3>3, Zenon
    <3>5. /\ list_add_head(m, free[j]) \in Seq(Page) /\ IsInjective(list_add_head(m, free[j]))
          /\ Range(list_add_head(m, free[j])) = Range(free[j]) \cup {m}
      BY <1>2, <2>1, <3>4, ConsList
    <3>6. Len(list_add_head(m, free[j])) = Len(free[j]) + 1
      BY <1>2, <2>1, ListLengths, Zenon
    <3>7. \A q \in Page : q \in Range(free'[j]) <=> (pst'[q] = "FREE" /\ data'[q] = j)
      BY <1>8, <2>1, <2>4, <3>2, <3>3, <3>5
    <3>8. QED
      BY <2>1, <2>2, <3>2, <3>5, <3>6, <3>7
  <2>5. CASE j \notin o .. k - 1 /\ j # k
    <3>1. free'[j] = free[j] /\ nr_free'[j] = nr_free[j]
      BY <1>4, <2>5, Zenon
    <3>2. \A q \in Page : q \in Block(m, k) => ~(pst[q] = "FREE" /\ data[q] = j)
      BY <1>2, <1>9, <2>5, Zenon
    <3>3. \A q \in Page : q \in Range(free'[j]) <=> (pst'[q] = "FREE" /\ data'[q] = j)
      BY <1>8, <2>1, <2>5, <3>1, <3>2, Zenon
    <3>4. QED
      BY <2>1, <2>2, <3>1, <3>3, Zenon
  <2>6. QED
    BY <2>3, <2>4, <2>5, Zenon
<1>11. free' \in [Orders -> Seq(Page)] /\ nr_free' \in [Orders -> Nat]
  <2>1. free' = [j \in Orders |-> free'[j]] /\ nr_free' = [j \in Orders |-> nr_free'[j]]
    BY <1>4
  <2>2. \A j \in Orders : free'[j] \in Seq(Page) /\ nr_free'[j] \in Nat
    BY <1>10, Zenon
  <2>3. QED
    BY <2>1, <2>2, Zenon
<1>12. ListsExact'
  BY <1>10, Zenon DEF ListsExact
<1>13. QED
  BY <1>11, <1>12, Zenon
-----------------------------------------------------------------------------
(* Splitting.  The upper half of the aligned block b of order j + 1 is the *)
(* buddy of its lower half.                                                *)
LEMMA BuddyAbove ==
  ASSUME NEW b \in Nat, NEW j \in Nat, b % 2^j = 0, NEW h, h = WHO_IS_MY_BUDDY(b, j)
  PROVE  b % 2^(j + 1) = 0 =>
           /\ h = b + 2^j /\ h \in Nat /\ h % 2^j = 0 /\ WHO_IS_MY_BUDDY(h, j) = b
           /\ Block(b, j + 1) = Block(b, j) \cup Block(h, j)
<1>1. PICK u : u = b - (b % 2^(j + 1))
  BY Zenon
<1>2. /\ h \in Nat /\ h % 2^j = 0 /\ WHO_IS_MY_BUDDY(h, j) = b
      /\ Block(u, j + 1) = Block(b, j) \cup Block(h, j)
  BY <1>1, BuddyPair
<1>3. HAVE b % 2^(j + 1) = 0
<1>4. PICK n \in Nat \ {0} : n = 2^j /\ 2^(j + 1) = 2 * n
  BY PowPositive, PowNext, Zenon
<1>5. b % (2 * n) = IF (b \div n) % 2 = 0 THEN b % n ELSE (b % n) + n
  BY DoubleMod, Zenon
<1>6. (b \div n) % 2 = 0
  BY <1>3, <1>4, <1>5
<1>7. h = b + 2^j
  BY <1>4, <1>6, Zenon DEF WHO_IS_MY_BUDDY
<1>8. u = b
  BY <1>1, <1>3
<1>9. QED
  BY <1>2, <1>7, <1>8, Zenon

LEMMA UpperHalf ==
  ASSUME NEW b \in Nat, NEW c \in Nat, b % 2^c = 0, NEW j \in Nat, j < c
  PROVE  /\ b + 2^j \in Nat /\ (b + 2^j) % 2^j = 0 /\ WHO_IS_MY_BUDDY(b + 2^j, j) = b
         /\ Block(b, j + 1) = Block(b, j) \cup Block(b + 2^j, j)
         /\ Block(b + 2^j, j) \subseteq Block(b, c)
<1>1. j + 1 \in Nat /\ j + 1 =< c /\ j =< c
  OBVIOUS
<1>2. b % 2^(j + 1) = 0
  BY <1>1, AlignedSmaller, Zenon
<1>3. b % 2^j = 0
  BY <1>1, AlignedSmaller, Zenon
<1>4. PICK h : h = WHO_IS_MY_BUDDY(b, j)
  BY Zenon
<1>5. /\ h = b + 2^j /\ h \in Nat /\ h % 2^j = 0 /\ WHO_IS_MY_BUDDY(h, j) = b
      /\ Block(b, j + 1) = Block(b, j) \cup Block(h, j)
  BY <1>2, <1>3, <1>4, BuddyAbove, Zenon
<1>6. b \in Block(b, j + 1) /\ b \in Block(b, c)
  BY <1>1, BlockRange, Zenon
<1>7. Block(b, j + 1) \subseteq Block(b, c)
  BY <1>1, <1>2, <1>6, BlocksNest, Zenon
<1>8. QED
  BY <1>5, <1>7, Zenon

\* The upper halves and the remaining block cover the block that is split.
LEMMA SplitCover ==
  ASSUME NEW b \in Nat, NEW o \in Nat, NEW c \in Nat, o =< c, b % 2^c = 0, NEW q \in Block(b, c)
  PROVE  q \in Block(b, o) \/ \E j \in o .. c - 1 : q \in Block(b + 2^j, j)
<1> DEFINE T == {k \in o .. c : q \in Block(b, k)}
<1>1. c \in T /\ T \in SUBSET Nat
  OBVIOUS
<1>2. PICK k \in T : \A y \in T : k =< y
  BY <1>1, LeastElement, Zenon
<1>3. k \in o .. c /\ k \in Nat /\ q \in Block(b, k)
  OBVIOUS
<1>4. CASE k = o
  BY <1>3, <1>4, Zenon
<1>5. CASE k # o
  <2>1. PICK j \in o .. c - 1 : k = j + 1
    BY <1>3, <1>5
  <2>2. j \in Nat /\ j < c /\ j \in o .. c /\ ~(k =< j)
    BY <2>1
  <2>3. q \notin Block(b, j)
    BY <1>2, <2>2, Zenon
  <2>4. Block(b, j + 1) = Block(b, j) \cup Block(b + 2^j, j)
    BY <2>2, UpperHalf, Zenon
  <2>5. QED
    BY <1>3, <2>1, <2>3, <2>4, Zenon
<1>6. QED
  BY <1>4, <1>5, Zenon

\* They are disjoint.
LEMMA SplitDisjoint ==
  ASSUME NEW b \in Nat, NEW i \in Nat, NEW j \in Nat
  PROVE  /\ i =< j => Block(b, i) \cap Block(b + 2^j, j) = {}
         /\ i < j => Block(b + 2^i, i) \cap Block(b + 2^j, j) = {} /\ b + 2^i # b + 2^j
<1>1. PICK n, m \in Nat \ {0} : n = 2^i /\ m = 2^j
  BY PowPositive, Zenon
<1>2. i < j => 2 * n =< m
  BY <1>1, PowLess, Zenon
<1>3. i =< j => n =< m
  BY <1>1, <1>2
<1>4. b + n \in Nat /\ b + m \in Nat
  BY <1>1
<1>5. /\ \A x : x \in Block(b, i) <=> x \in Nat /\ b =< x /\ x < b + n
      /\ \A x : x \in Block(b + n, i) <=> x \in Nat /\ b + n =< x /\ x < (b + n) + n
      /\ \A x : x \in Block(b + m, j) <=> x \in Nat /\ b + m =< x /\ x < (b + m) + m
  BY <1>1, <1>4, BlockRange, Zenon
<1>6. i =< j => Block(b, i) \cap Block(b + m, j) = {}
  BY <1>1, <1>3, <1>5
<1>7. i < j => Block(b + n, i) \cap Block(b + m, j) = {} /\ b + n # b + m
  BY <1>1, <1>2, <1>5
<1>8. QED
  BY <1>1, <1>6, <1>7, Zenon
-----------------------------------------------------------------------------
\* Block b of order c is free and can be split down to order o.
MaySplit(b, o, c) ==
  o \in Orders /\ c \in Orders /\ o =< c /\ b \in Page /\ pst[b] = "FREE" /\ data[b] = c

\* The first pages of the upper halves
Uppers(b, o, c) == {b + 2^j : j \in o .. c - 1}

LEMMA SplitBlock ==
  ASSUME Tiling, NEW b, NEW o, NEW c, MaySplit(b, o, c)
  PROVE  /\ b \in Nat /\ o \in Nat /\ c \in Nat /\ o =< c /\ o .. c - 1 \subseteq Orders
         /\ b \in Heads /\ BlockOf(b) = Block(b, c) /\ b % 2^c = 0 /\ b % 2^o = 0
         /\ Block(b, c) \subseteq Page /\ \A q \in Block(b, c) : pst[q] = "FREE"
         /\ Block(b, o) \subseteq Block(b, c) /\ b \in Block(b, o)
         /\ Uppers(b, o, c) \subseteq Block(b, c) \ Block(b, o)
         /\ \A j \in o .. c - 1 : /\ b + 2^j \in Uppers(b, o, c)
                                  /\ Block(b + 2^j, j) \subseteq Block(b, c) \ Block(b, o)
<1>1. /\ b \in Nat /\ o \in Nat /\ c \in Nat /\ o =< c /\ o .. c - 1 \subseteq Orders
      /\ c \in Orders /\ b \in Page
  BY BuddyAssumptions DEF MaySplit, Orders, Page
<1>2. b \in Heads /\ BlockOf(b) = Block(b, c)
  BY <1>1, Zenon DEF MaySplit, Heads, BlockOf
<1>3. b % 2^c = 0
  BY <1>2, Zenon DEF Tiling, MaySplit
<1>4. b % 2^o = 0
  BY <1>1, <1>3, AlignedSmaller, Zenon
<1>5. Block(b, c) \subseteq Page /\ \A q \in Block(b, c) : pst[q] = "FREE"
  BY <1>2, HeadPages, Zenon DEF MaySplit
<1>6. b \in Block(b, o) /\ b \in Block(b, c)
  BY <1>1, BlockRange, Zenon
<1>7. Block(b, o) \subseteq Block(b, c)
  BY <1>1, <1>3, <1>4, <1>6, BlocksNest, Zenon
<1>8. ASSUME NEW j \in o .. c - 1
      PROVE  b + 2^j \in Uppers(b, o, c) /\ b + 2^j \in Block(b + 2^j, j)
             /\ Block(b + 2^j, j) \subseteq Block(b, c) \ Block(b, o)
  <2>1. j \in Nat /\ j < c /\ o =< j
    BY <1>1
  <2>2. b + 2^j \in Nat /\ Block(b + 2^j, j) \subseteq Block(b, c)
    BY <1>1, <1>3, <2>1, UpperHalf, Zenon
  <2>3. b + 2^j \in Block(b + 2^j, j)
    BY <2>1, <2>2, BlockRange, Zenon
  <2>4. Block(b, o) \cap Block(b + 2^j, j) = {}
    BY <1>1, <2>1, SplitDisjoint, Zenon
  <2>5. QED
    BY <2>2, <2>3, <2>4, Zenon DEF Uppers
<1>9. QED
  BY <1>1, <1>2, <1>3, <1>4, <1>5, <1>6, <1>7, <1>8, Zenon DEF Uppers

\* private_data after the split: only the first pages of the parts hold an order.
LEMMA DataSplitPages ==
  ASSUME BuddyType, Tiling, NEW b, NEW o, NEW c, MaySplit(b, o, c), NEW d, d = DataSplit(b, o, c)
  PROVE  /\ d \in [Page -> Orders \cup {MAGIC}] /\ d[b] = o
         /\ \A j \in o .. c - 1 : d[b + 2^j] = j
         /\ \A q \in Block(b, c) : q # b /\ q \notin Uppers(b, o, c) => d[q] = MAGIC
         /\ \A q \in Page : q \notin Block(b, c) => d[q] = data[q]
<1>1. /\ b \in Nat /\ o \in Nat /\ c \in Nat /\ o =< c /\ o .. c - 1 \subseteq Orders
      /\ Block(b, c) \subseteq Page /\ b \in Block(b, o) /\ Block(b, o) \subseteq Block(b, c)
      /\ Uppers(b, o, c) \subseteq Block(b, c) \ Block(b, o)
      /\ \A j \in o .. c - 1 : b + 2^j \in Uppers(b, o, c)
  BY SplitBlock, Zenon
<1>2. b \in Page /\ o \in Orders
  BY Zenon DEF MaySplit
<1>3. ASSUME NEW i \in o .. c - 1, NEW j \in o .. c - 1, b + 2^i = b + 2^j PROVE i = j
  <2>1. i \in Nat /\ j \in Nat
    BY <1>1
  <2>2. i < j => b + 2^i # b + 2^j
    BY <1>1, <2>1, SplitDisjoint, Zenon
  <2>3. j < i => b + 2^j # b + 2^i
    BY <1>1, <2>1, SplitDisjoint, Zenon
  <2>4. QED
    BY <1>3, <2>1, <2>2, <2>3, SMTT(30)
<1>4. d[b] = o
  <2>1. \A k \in o .. c - 1 : b # b + 2^k
    BY <1>1, Zenon
  <2>2. QED
    BY <1>2, <2>1, Zenon DEF DataSplit
<1>5. ASSUME NEW j \in o .. c - 1 PROVE d[b + 2^j] = j
  <2>1. PICK q : q = b + 2^j
    BY Zenon
  <2>2. q \in Page /\ q # b
    BY <1>1, <2>1, Zenon
  <2>3. d[q] = CHOOSE k \in o .. c - 1 : q = b + 2^k
    BY <2>1, <2>2, Zenon DEF DataSplit
  <2>4. d[q] \in o .. c - 1 /\ q = b + 2^d[q]
    BY <2>1, <2>3, Zenon
  <2>5. QED
    BY <1>3, <2>1, <2>4, Zenon
<1>6. ASSUME NEW q \in Block(b, c), q # b, q \notin Uppers(b, o, c) PROVE d[q] = MAGIC
  <2>1. q \in Page /\ \A k \in o .. c - 1 : q # b + 2^k
    BY <1>1, <1>6, Zenon
  <2>2. QED
    BY <1>6, <2>1, Zenon DEF DataSplit
<1>7. ASSUME NEW q \in Page, q \notin Block(b, c) PROVE d[q] = data[q]
  <2>1. q # b /\ \A k \in o .. c - 1 : q # b + 2^k
    BY <1>1, <1>7, Zenon
  <2>2. QED
    BY <1>7, <2>1, Zenon DEF DataSplit
<1>8. ASSUME NEW q \in Page PROVE d[q] \in Orders \cup {MAGIC}
  <2>1. CASE q \in Uppers(b, o, c)
    BY <1>1, <1>5, <2>1, Zenon DEF Uppers
  <2>2. CASE q \notin Uppers(b, o, c) /\ q # b
    BY <1>6, <1>7, <2>2, Zenon DEF BuddyType
  <2>3. QED
    BY <1>2, <1>4, <2>1, <2>2, Zenon
<1>9. d = [q \in Page |-> d[q]]
  BY DEF DataSplit
<1>10. QED
  BY <1>4, <1>5, <1>6, <1>7, <1>8, <1>9, Zenon
-----------------------------------------------------------------------------

\* One turn of buddy_init: an available page becomes a free block of order 0.
LEMMA BootStep ==
  ASSUME IInv, BootPage
  PROVE  /\ IInv'
         /\ \A q \in Page : pst'[q] \in {"AVAILABLE", "FREE"} <=> pst[q] \in {"AVAILABLE", "FREE"}
<1>1. BuddyType /\ Tiling /\ ListsExact /\ HeldExact /\ BootProgress /\ NoFreeBuddies
  BY Zenon DEF IInv
<1>2. /\ boot \in Page /\ boot \in Nat /\ NPages \in Nat /\ boot' = boot + 1 /\ held' = held
      /\ boot' \in 0 .. NPages
  BY <1>1, BuddyAssumptions DEF BootPage, BuddyType, Page
<1>3. CASE pst[boot] = "AVAILABLE"
  <2>1. Block(boot, 0) = {boot}
    BY <1>2, PowZero DEF Block
  <2>2. MayFree(boot, 0)
    <3>1. 0 \in Orders /\ boot % 2^0 = 0
      BY <1>2, PowZero, BuddyAssumptions DEF Orders
    <3>2. ASSUME NEW h \in Heads PROVE boot \notin BlockOf(h)
      BY <1>1, <1>3, HeadPages, HeadInBlock, Zenon
    <3>3. QED
      BY <1>2, <1>3, <2>1, <3>1, <3>2, Zenon DEF MayFree
  <2>3. free_block(boot, 0)
    BY <1>3, Zenon DEF BootPage
  <2>4. /\ pst' \in [Page -> States] /\ data' \in [Page -> Orders \cup {MAGIC}]
        /\ Tiling' /\ NoFreeBuddies'
        /\ \A q \in Page : pst'[q] = IF q \in Block(boot, 0) THEN "FREE" ELSE pst[q]
        /\ \A q \in Page : q \notin Block(boot, 0) /\ pst[q] # "FREE" => data'[q] = data[q]
    BY <1>1, <2>2, <2>3, FreeBlockTiling, Zenon
  <2>5. free' \in [Orders -> Seq(Page)] /\ nr_free' \in [Orders -> Nat] /\ ListsExact'
    BY <1>1, <2>2, <2>3, FreeBlockLists, Zenon
  <2>6. BuddyType'
    BY <1>1, <1>2, <2>4, <2>5, Zenon DEF BuddyType
  <2>7. HeldExact'
    BY <1>1, <1>2, <1>3, <2>1, <2>4, Zenon DEF HeldExact
  <2>8. BootProgress'
    <3>1. \A p \in Page : p \in Nat
      BY BuddyAssumptions DEF Page
    <3>2. \A p \in Page : p # boot => pst'[p] = pst[p]
      BY <2>1, <2>4, Zenon
    <3>3. pst'[boot] = "FREE"
      BY <1>2, <2>1, <2>4, Zenon
    <3>4. QED
      BY <1>1, <1>2, <3>1, <3>2, <3>3 DEF BootProgress
  <2>9. QED
    BY <1>3, <2>1, <2>4, <2>5, <2>6, <2>7, <2>8, Zenon DEF IInv
<1>4. CASE pst[boot] # "AVAILABLE"
  <2>1. pst' = pst /\ data' = data /\ free' = free /\ nr_free' = nr_free
    BY <1>4, Zenon DEF BootPage
  <2>2. BuddyType'
    BY <1>1, <1>2, <2>1, Zenon DEF BuddyType
  <2>3. Tiling' /\ NoFreeBuddies'
    BY <1>1, <2>1, Zenon DEF Tiling, NoFreeBuddies, Heads, BlockOf
  <2>4. ListsExact' /\ HeldExact'
    BY <1>1, <1>2, <2>1, Zenon DEF ListsExact, HeldExact
  <2>5. BootProgress'
    <3>1. \A p \in Page : p \in Nat
      BY BuddyAssumptions DEF Page
    <3>2. QED
      BY <1>1, <1>2, <1>4, <2>1, <3>1, SMTT(30) DEF BootProgress
  <2>6. QED
    BY <2>1, <2>2, <2>3, <2>4, <2>5, Zenon DEF IInv
<1>5. QED
  BY <1>3, <1>4, Zenon

\* buddy_free_block on a block that a client holds
LEMMA FreeStep ==
  ASSUME IInv, NEW b \in held, Free(b)
  PROVE  /\ IInv' /\ held' = held \ {b}
         /\ \A q \in Page : pst'[q] \in {"AVAILABLE", "FREE"}
                              <=> pst[q] \in {"AVAILABLE", "FREE"} \/ q \in Block(b[1], b[2])
         /\ Block(b[1], b[2]) \subseteq Page
<1>1. BuddyType /\ Tiling /\ ListsExact /\ HeldExact /\ BootProgress /\ NoFreeBuddies
  BY Zenon DEF IInv
<1>2. PICK p \in Page, o \in Orders : b = <<p, o>> /\ b[1] = p /\ b[2] = o
  BY <1>1 DEF BuddyType
<1>3. pst[p] = "ALLOCATED" /\ data[p] = o /\ p \in Heads /\ BlockOf(p) = Block(p, o)
  BY <1>1, <1>2, Zenon DEF HeldExact, Heads, BlockOf
<1>4. free_block(p, o) /\ held' = held \ {b} /\ boot' = boot
  BY <1>2, <1>3, Zenon DEF Free
<1>5. Block(p, o) \subseteq Page /\ \A q \in Block(p, o) : pst[q] = "ALLOCATED"
  BY <1>1, <1>3, HeadPages, Zenon
<1>6. MayFree(p, o)
  <2>1. p % 2^o = 0
    BY <1>1, <1>3, Zenon DEF Tiling
  <2>2. \A h \in Heads : h = p \/ BlockOf(h) \cap BlockOf(p) = {}
    BY <1>1, <1>3, Zenon DEF Tiling
  <2>3. QED
    BY <1>2, <1>3, <1>5, <2>1, <2>2, Zenon DEF MayFree
<1>7. /\ pst' \in [Page -> States] /\ data' \in [Page -> Orders \cup {MAGIC}]
      /\ Tiling' /\ NoFreeBuddies'
      /\ \A q \in Page : pst'[q] = IF q \in Block(p, o) THEN "FREE" ELSE pst[q]
      /\ \A q \in Page : q \notin Block(p, o) /\ pst[q] # "FREE" => data'[q] = data[q]
  BY <1>1, <1>4, <1>6, FreeBlockTiling, Zenon
<1>8. free' \in [Orders -> Seq(Page)] /\ nr_free' \in [Orders -> Nat] /\ ListsExact'
  BY <1>1, <1>4, <1>6, FreeBlockLists, Zenon
<1>9. BuddyType'
  BY <1>1, <1>4, <1>7, <1>8, Zenon DEF BuddyType
<1>10. HeldExact'
  <2>1. ASSUME NEW q \in Page, NEW j \in Orders, q \in Block(p, o), pst[q] = "ALLOCATED", data[q] = j
        PROVE  q = p /\ j = o
    <3>1. q \in Heads /\ q \in BlockOf(q)
      BY <2>1, HeadInBlock, Zenon DEF Heads
    <3>2. q = p
      BY <1>1, <1>3, <2>1, <3>1 DEF Tiling
    <3>3. QED
      BY <1>3, <2>1, <3>2, Zenon
  <2>2. ASSUME NEW q \in Page, NEW j \in Orders
        PROVE  <<q, j>> \in held' <=> (pst'[q] = "ALLOCATED" /\ data'[q] = j)
    <3>1. <<q, j>> \in held <=> (pst[q] = "ALLOCATED" /\ data[q] = j)
      BY <1>1, Zenon DEF HeldExact
    <3>2. <<q, j>> \in held' <=> <<q, j>> \in held /\ ~(q = p /\ j = o)
      BY <1>2, <1>4, Zenon
    <3>3. (pst'[q] = "ALLOCATED" /\ data'[q] = j)
            <=> q \notin Block(p, o) /\ pst[q] = "ALLOCATED" /\ data[q] = j
      BY <1>7, Zenon
    <3>4. p \in Block(p, o)
      BY <1>3, HeadInBlock, Zenon
    <3>5. QED
      BY <2>1, <3>1, <3>2, <3>3, <3>4, Zenon
  <2>3. QED
    BY <2>2, Zenon DEF HeldExact
<1>11. BootProgress'
  BY <1>1, <1>4, <1>5, <1>7, Zenon DEF BootProgress
<1>12. QED
  BY <1>2, <1>4, <1>5, <1>7, <1>8, <1>9, <1>10, <1>11, SMTT(30) DEF IInv

(* What buddy_alloc_pages does to the descriptors: the block found is cut  *)
(* into one allocated block and free upper halves, no two of them buddies. *)
LEMMA SplitTiling ==
  ASSUME BuddyType, Tiling, NoFreeBuddies, NEW b, NEW o, NEW c, MaySplit(b, o, c),
         pst' = StateSet(StateSet(pst, b, c, "FREE"), b, o, "ALLOCATED"),
         data' = DataSplit(b, o, c)
  PROVE  /\ pst' \in [Page -> States] /\ data' \in [Page -> Orders \cup {MAGIC}]
         /\ Tiling' /\ NoFreeBuddies'
         /\ \A q \in Page : pst'[q] = IF q \in Block(b, o) THEN "ALLOCATED" ELSE pst[q]
<1>1. /\ b \in Nat /\ o \in Nat /\ c \in Nat /\ o =< c /\ o .. c - 1 \subseteq Orders
      /\ b \in Heads /\ BlockOf(b) = Block(b, c) /\ b % 2^c = 0 /\ b % 2^o = 0
      /\ Block(b, c) \subseteq Page /\ \A q \in Block(b, c) : pst[q] = "FREE"
      /\ Block(b, o) \subseteq Block(b, c) /\ b \in Block(b, o)
      /\ Uppers(b, o, c) \subseteq Block(b, c) \ Block(b, o)
      /\ \A j \in o .. c - 1 : /\ b + 2^j \in Uppers(b, o, c)
                               /\ Block(b + 2^j, j) \subseteq Block(b, c) \ Block(b, o)
  BY SplitBlock, Zenon
<1>2. /\ data' \in [Page -> Orders \cup {MAGIC}] /\ data'[b] = o
      /\ \A j \in o .. c - 1 : data'[b + 2^j] = j
      /\ \A q \in Block(b, c) : q # b /\ q \notin Uppers(b, o, c) => data'[q] = MAGIC
      /\ \A q \in Page : q \notin Block(b, c) => data'[q] = data[q]
  BY DataSplitPages
<1>3. /\ pst' \in [Page -> States]
      /\ \A q \in Page : pst'[q] = IF q \in Block(b, o) THEN "ALLOCATED" ELSE pst[q]
  <2>1. PICK s : s = StateSet(pst, b, c, "FREE")
    BY Zenon
  <2>2. /\ s \in [Page -> States]
        /\ \A q \in Page : s[q] = IF q \in Block(b, c) THEN "FREE" ELSE pst[q]
    BY <2>1, StateSetPages DEF BuddyType, States
  <2>3. pst' = StateSet(s, b, o, "ALLOCATED")
    BY <2>1, Zenon
  <2>4. /\ pst' \in [Page -> States]
        /\ \A q \in Page : pst'[q] = IF q \in Block(b, o) THEN "ALLOCATED" ELSE s[q]
    BY <2>2, <2>3, StateSetPages DEF States
  <2>5. QED
    BY <1>1, <2>2, <2>4, Zenon
<1>4. MAGIC \notin Orders /\ b \in Page /\ o \in Orders
  BY BuddyAssumptions DEF MAGIC, Orders, MaySplit
<1>5. ASSUME NEW h
      PROVE  h \in Heads' <=> h = b \/ h \in Uppers(b, o, c) \/ (h \in Heads /\ h \notin Block(b, c))
  <2>1. b \in Heads'
    BY <1>1, <1>2, <1>3, <1>4, Zenon DEF Heads
  <2>2. \A j \in o .. c - 1 : b + 2^j \in Heads'
    <3>1. ASSUME NEW j \in o .. c - 1 PROVE b + 2^j \in Heads'
      <4>1. b + 2^j \in Page /\ pst'[b + 2^j] = "FREE" /\ data'[b + 2^j] = j /\ j \in Orders
        BY <1>1, <1>2, <1>3, Zenon
      <4>2. QED
        BY <4>1, Zenon DEF Heads
    <3>2. QED
      BY <3>1, Zenon
  <2>3. h \in Page /\ h \notin Block(b, c) => (h \in Heads' <=> h \in Heads)
    BY <1>1, <1>2, <1>3, Zenon DEF Heads
  <2>4. h \in Heads' => h \in Page /\ data'[h] \in Orders
    BY Zenon DEF Heads
  <2>5. h \in Heads => h \in Page
    BY Zenon DEF Heads
  <2>6. h \in Uppers(b, o, c) => h \in Heads'
    BY <2>2, Zenon DEF Uppers
  <2>7. h \in Heads' /\ h \in Block(b, c) => h = b \/ h \in Uppers(b, o, c)
    BY <1>2, <1>4, <2>4, Zenon
  <2>8. QED
    BY <2>1, <2>3, <2>4, <2>5, <2>6, <2>7, SMTT(30)
<1>6. BlockOf(b)' = Block(b, o) /\ pst'[b] = "ALLOCATED"
  BY <1>1, <1>2, <1>3, <1>4, Zenon DEF BlockOf
<1>7. ASSUME NEW h \in Uppers(b, o, c)
      PROVE  \E j \in o .. c - 1 : /\ h = b + 2^j /\ data'[h] = j /\ pst'[h] = "FREE"
                                    /\ BlockOf(h)' = Block(b + 2^j, j)
  <2>1. PICK j \in o .. c - 1 : h = b + 2^j
    BY Zenon DEF Uppers
  <2>2. data'[h] = j /\ pst'[h] = "FREE"
    BY <1>1, <1>2, <1>3, <2>1, SMTT(30)
  <2>3. QED
    BY <2>1, <2>2, Zenon DEF BlockOf
<1>8. ASSUME NEW h \in Heads, h \notin Block(b, c)
      PROVE  /\ BlockOf(h)' = BlockOf(h) /\ pst'[h] = pst[h] /\ data'[h] = data[h]
             /\ BlockOf(h) \cap Block(b, c) = {}
  <2>1. h \in Page /\ h # b
    BY <1>1, <1>8, HeadInBlock, Zenon
  <2>2. QED
    BY <1>1, <1>2, <1>3, <1>8, <2>1, SMTT(30) DEF BlockOf, Tiling
<1>9. Tiling'
  <2>1. ASSUME NEW h \in Heads'
        PROVE  /\ h % 2^data'[h] = 0 /\ h + 2^data'[h] =< NPages
               /\ \A q \in BlockOf(h)' : pst'[q] = pst'[h]
    <3>1. ASSUME NEW x \in Nat, NEW j \in Nat, Block(x, j) \subseteq Page
          PROVE  x + 2^j =< NPages
      <4>1. PICK m \in Nat \ {0} : m = 2^j
        BY PowPositive, Zenon
      <4>2. x + m - 1 \in Block(x, j)
        BY <4>1 DEF Block
      <4>3. x + m - 1 \in Page
        BY <3>1, <4>2, Zenon
      <4>4. QED
        BY <4>1, <4>3, BuddyAssumptions DEF Page
    <3>2. CASE h = b
      <4>1. b + 2^o =< NPages
        BY <1>1, <3>1, Zenon
      <4>2. \A q \in Block(b, o) : pst'[q] = "ALLOCATED"
        BY <1>1, <1>3, Zenon
      <4>3. QED
        BY <1>1, <1>2, <1>6, <3>2, <4>1, <4>2, SMTT(30)
    <3>3. CASE h \in Uppers(b, o, c)
      <4>1. PICK j \in o .. c - 1 : /\ h = b + 2^j /\ data'[h] = j /\ pst'[h] = "FREE"
                                     /\ BlockOf(h)' = Block(b + 2^j, j)
        BY <1>7, <3>3, Zenon
      <4>2. j \in Nat /\ j < c
        BY <1>1
      <4>3. h \in Nat /\ h % 2^j = 0
        BY <1>1, <4>1, <4>2, UpperHalf, SMTT(30)
      <4>4. Block(h, j) \subseteq Block(b, c) \ Block(b, o)
        BY <1>1, <4>1, Zenon
      <4>5. h + 2^j =< NPages
        BY <1>1, <3>1, <4>2, <4>3, <4>4, SMTT(30)
      <4>6. \A q \in Block(h, j) : pst'[q] = "FREE"
        BY <1>1, <1>3, <4>4, Zenon
      <4>7. QED
        BY <4>1, <4>3, <4>5, <4>6, Zenon
    <3>4. CASE h \in Heads /\ h \notin Block(b, c)
      <4>1. /\ BlockOf(h)' = BlockOf(h) /\ pst'[h] = pst[h] /\ data'[h] = data[h]
            /\ BlockOf(h) \cap Block(b, c) = {}
        BY <1>8, <3>4, Zenon
      <4>2. h % 2^data[h] = 0 /\ h + 2^data[h] =< NPages
        BY <3>4, Zenon DEF Tiling
      <4>3. BlockOf(h) \subseteq Page /\ \A q \in BlockOf(h) : pst[q] = pst[h]
        BY <3>4, HeadPages, Zenon
      <4>4. \A q \in BlockOf(h) : pst'[q] = pst[q]
        BY <1>1, <1>3, <4>1, <4>3, SMTT(30)
      <4>5. QED
        BY <4>1, <4>2, <4>3, <4>4, Zenon
    <3>5. QED
      BY <1>5, <2>1, <3>2, <3>3, <3>4, SMTT(30)
  <2>2. ASSUME NEW q \in Page, pst'[q] \in {"FREE", "ALLOCATED"}
        PROVE  \E h \in Heads' : q \in BlockOf(h)'
    <3>1. CASE q \in Block(b, o)
      BY <1>5, <1>6, <3>1, Zenon
    <3>2. CASE q \in Block(b, c) /\ q \notin Block(b, o)
      <4>1. PICK j \in o .. c - 1 : q \in Block(b + 2^j, j)
        BY <1>1, <3>2, SplitCover, Zenon
      <4>2. PICK h : h = b + 2^j
        BY Zenon
      <4>3. h \in Uppers(b, o, c) /\ data'[h] = j
        BY <1>1, <1>2, <4>2, Zenon
      <4>4. BlockOf(h)' = Block(b + 2^j, j) /\ h \in Heads'
        BY <1>5, <4>2, <4>3, Zenon DEF BlockOf
      <4>5. QED
        BY <4>1, <4>4, Zenon
    <3>3. CASE q \notin Block(b, c)
      <4>1. pst[q] \in {"FREE", "ALLOCATED"}
        BY <1>1, <1>3, <2>2, <3>3, SMTT(30)
      <4>2. PICK h \in Heads : q \in BlockOf(h)
        BY <4>1, Zenon DEF Tiling
      <4>3. h \notin Block(b, c)
        <5>1. SUFFICES ASSUME h \in Block(b, c) PROVE FALSE
          BY Zenon
        <5>2. h \in BlockOf(h)
          BY HeadInBlock, Zenon
        <5>3. h = b
          BY <1>1, <5>1, <5>2, SMTT(30) DEF Tiling
        <5>4. QED
          BY <1>1, <3>3, <4>2, <5>3, SMTT(30)
      <4>4. QED
        BY <1>5, <1>8, <4>2, <4>3, Zenon
    <3>4. QED
      BY <3>1, <3>2, <3>3, Zenon
  <2>3. ASSUME NEW g \in Heads', NEW h \in Heads', g # h PROVE BlockOf(g)' \cap BlockOf(h)' = {}
    <3>1. \A x \in Heads' : x = b \/ x \in Uppers(b, o, c) => BlockOf(x)' \subseteq Block(b, c)
      BY <1>1, <1>6, <1>7, Zenon
    <3>2. \A x \in Heads' : ~(x = b \/ x \in Uppers(b, o, c)) =>
            /\ x \in Heads /\ x \notin Block(b, c)
            /\ BlockOf(x)' = BlockOf(x) /\ BlockOf(x) \cap Block(b, c) = {}
      BY <1>5, <1>8, Zenon
    <3>3. \A x \in Uppers(b, o, c) : BlockOf(x)' \cap Block(b, o) = {}
      BY <1>1, <1>7
    <3>4. ASSUME NEW x \in Uppers(b, o, c), NEW y \in Uppers(b, o, c), x # y
          PROVE  BlockOf(x)' \cap BlockOf(y)' = {}
      <4>1. PICK i \in o .. c - 1 : x = b + 2^i /\ BlockOf(x)' = Block(b + 2^i, i)
        BY <1>7, Zenon
      <4>2. PICK j \in o .. c - 1 : y = b + 2^j /\ BlockOf(y)' = Block(b + 2^j, j)
        BY <1>7, Zenon
      <4>3. i \in Nat /\ j \in Nat /\ i # j
        BY <1>1, <3>4, <4>1, <4>2, SMTT(30)
      <4>4. CASE i < j
        BY <1>1, <4>1, <4>2, <4>3, <4>4, SplitDisjoint, SMTT(30)
      <4>5. CASE j < i
        <5>1. Block(b + 2^j, j) \cap Block(b + 2^i, i) = {}
          BY <1>1, <4>3, <4>5, SplitDisjoint, SMTT(30)
        <5>2. QED
          BY <4>1, <4>2, <5>1, Zenon
      <4>6. QED
        BY <4>3, <4>4, <4>5
    <3>5. QED
      BY <1>6, <2>3, <3>1, <3>2, <3>3, <3>4, SMTT(30) DEF Tiling
  <2>4. QED
    BY <2>1, <2>2, <2>3, Zenon DEF Tiling
<1>10. NoFreeBuddies'
  <2>1. SUFFICES ASSUME NEW g \in Heads', NEW h \in Heads', pst'[g] = "FREE", pst'[h] = "FREE",
                        data'[g] = data'[h], data'[g] < MaxOrder, h = WHO_IS_MY_BUDDY(g, data'[g])
                 PROVE  FALSE
    BY Zenon DEF NoFreeBuddies
  <2>2. g \in Nat /\ data'[g] \in Nat /\ g % 2^data'[g] = 0
    <3>1. g \in Page /\ data'[g] \in Orders
      BY <2>1, Zenon DEF Heads
    <3>2. g % 2^data'[g] = 0
      BY <1>9, <2>1, Zenon DEF Tiling
    <3>3. QED
      BY <3>1, <3>2, BuddyAssumptions, SMTT(30) DEF Page, Orders
  <2>3. WHO_IS_MY_BUDDY(h, data'[h]) = g
    BY <2>1, <2>2, BuddyPair, SMTT(30)
  <2>4. ASSUME NEW x \in Uppers(b, o, c) PROVE WHO_IS_MY_BUDDY(x, data'[x]) = b
    <3>1. PICK j \in o .. c - 1 : x = b + 2^j /\ data'[x] = j
      BY <1>7, Zenon
    <3>2. j \in Nat /\ j < c
      BY <1>1
    <3>3. QED
      BY <1>1, <3>1, <3>2, UpperHalf, SMTT(30)
  <2>5. g \notin Uppers(b, o, c) /\ g # b
    BY <1>6, <2>1, <2>4, SMTT(30)
  <2>6. h \notin Uppers(b, o, c) /\ h # b
    BY <1>6, <2>1, <2>3, <2>4, SMTT(30)
  <2>7. /\ g \in Heads /\ h \in Heads /\ pst[g] = "FREE" /\ pst[h] = "FREE"
        /\ data'[g] = data[g] /\ data'[h] = data[h]
    BY <1>5, <1>8, <2>1, <2>5, <2>6, SMTT(30)
  <2>8. QED
    BY <2>1, <2>7, Zenon DEF NoFreeBuddies
<1>11. QED
  BY <1>2, <1>3, <1>9, <1>10, Zenon

\* The block found leaves its list, and each upper half enters the list of its order.
ListsSplit(b, o, c) ==
  /\ free' = [k \in Orders |->
                CASE k = c -> Tail(free[k])
                   [] k \in o .. c - 1 -> list_add_head(b + 2^k, free[k])
                   [] OTHER -> free[k]]
  /\ nr_free' = [k \in Orders |->
                    CASE k = c -> nr_free[k] - 1
                      [] k \in o .. c - 1 -> nr_free[k] + 1
                      [] OTHER -> nr_free[k]]

(* What buddy_alloc_pages does to the lists: the block found leaves its    *)
(* list, and each upper half enters the list of its order.                 *)
LEMMA SplitLists ==
  ASSUME BuddyType, Tiling, NoFreeBuddies, ListsExact, NEW b, NEW o, NEW c, MaySplit(b, o, c),
         b = Head(free[c]), free[c] # <<>>,
         pst' = StateSet(StateSet(pst, b, c, "FREE"), b, o, "ALLOCATED"),
         data' = DataSplit(b, o, c),
         ListsSplit(b, o, c)
  PROVE  /\ free' \in [Orders -> Seq(Page)] /\ nr_free' \in [Orders -> Nat]
         /\ ListsExact'
<1>1. /\ b \in Nat /\ o \in Nat /\ c \in Nat /\ o =< c /\ o .. c - 1 \subseteq Orders
      /\ b \in Heads /\ BlockOf(b) = Block(b, c)
      /\ Block(b, c) \subseteq Page /\ \A q \in Block(b, c) : pst[q] = "FREE"
      /\ Block(b, o) \subseteq Block(b, c) /\ b \in Block(b, o)
      /\ Uppers(b, o, c) \subseteq Block(b, c) \ Block(b, o)
      /\ \A j \in o .. c - 1 : b + 2^j \in Uppers(b, o, c)
  BY SplitBlock, Zenon
<1>2. /\ data'[b] = o
      /\ \A j \in o .. c - 1 : data'[b + 2^j] = j
      /\ \A q \in Block(b, c) : q # b /\ q \notin Uppers(b, o, c) => data'[q] = MAGIC
      /\ \A q \in Page : q \notin Block(b, c) => data'[q] = data[q]
  BY DataSplitPages
<1>3. /\ free' = [k \in Orders |->
                    CASE k = c -> Tail(free[k])
                      [] k \in o .. c - 1 -> list_add_head(b + 2^k, free[k])
                      [] OTHER -> free[k]]
      /\ nr_free' = [k \in Orders |->
                       CASE k = c -> nr_free[k] - 1
                         [] k \in o .. c - 1 -> nr_free[k] + 1
                         [] OTHER -> nr_free[k]]
  BY Zenon DEF ListsSplit
<1>4. \A q \in Page : pst'[q] = IF q \in Block(b, o) THEN "ALLOCATED" ELSE pst[q]
  BY SplitTiling, Zenon
<1>5. MAGIC \notin Orders /\ data[b] = c
  BY BuddyAssumptions DEF MAGIC, Orders, MaySplit
<1>6. ASSUME NEW q \in Block(b, c), data[q] \in Orders PROVE q = b
  <2>1. q \in Heads /\ q \in BlockOf(q)
    BY <1>1, <1>6, HeadInBlock, Zenon DEF Heads
  <2>2. q \in BlockOf(b) /\ b \in Heads
    BY <1>1, Zenon
  <2>3. \A p, r \in Heads : p # r => BlockOf(p) \cap BlockOf(r) = {}
    BY Zenon DEF Tiling
  <2>4. QED
    BY <2>1, <2>2, <2>3, Zenon
<1>7. ASSUME NEW q \in Page, NEW j \in Orders
      PROVE  (pst'[q] = "FREE" /\ data'[q] = j)
               <=> \/ j \in o .. c - 1 /\ q = b + 2^j
                   \/ q \notin Block(b, c) /\ pst[q] = "FREE" /\ data[q] = j
  <2>1. CASE q \notin Block(b, c)
    BY <1>1, <1>2, <1>4, <2>1, SMTT(30)
  <2>2. CASE q \in Uppers(b, o, c)
    <3>1. PICK i \in o .. c - 1 : q = b + 2^i
      BY <2>2, Zenon DEF Uppers
    <3>2. data'[q] = i /\ pst'[q] = "FREE" /\ q \in Block(b, c)
      BY <1>1, <1>2, <1>4, <2>2, <3>1, SMTT(30)
    <3>3. j \in o .. c - 1 /\ q = b + 2^j => data'[q] = j
      BY <1>2, SMTT(30)
    <3>4. QED
      BY <3>1, <3>2, <3>3, Zenon
  <2>3. CASE q \in Block(b, c) /\ q \notin Uppers(b, o, c)
    <3>1. ~(j \in o .. c - 1 /\ q = b + 2^j)
      BY <1>1, <2>3, Zenon
    <3>2. q = b => pst'[q] = "ALLOCATED"
      BY <1>1, <1>4, SMTT(30)
    <3>3. q # b => data'[q] # j
      BY <1>2, <1>5, <2>3, SMTT(30)
    <3>4. QED
      BY <2>3, <3>1, <3>2, <3>3, SMTT(30)
  <2>4. QED
    BY <2>1, <2>2, <2>3, SMTT(30)
<1>8. ASSUME NEW j \in Orders
      PROVE  /\ free'[j] \in Seq(Page) /\ nr_free'[j] \in Nat
             /\ nr_free'[j] = Len(free'[j]) /\ IsInjective(free'[j])
             /\ \A q \in Page : q \in Range(free'[j]) <=> (pst'[q] = "FREE" /\ data'[q] = j)
  <2>1. /\ free[j] \in Seq(Page) /\ nr_free[j] = Len(free[j]) /\ IsInjective(free[j])
        /\ \A q \in Page : q \in Range(free[j]) <=> (pst[q] = "FREE" /\ data[q] = j)
    BY Zenon DEF BuddyType, ListsExact
  <2>2. Len(free[j]) \in Nat
    BY <2>1, ListLengths, SMTT(30)
  <2>3. CASE j = c
    <3>1. free'[j] = Tail(free[j]) /\ nr_free'[j] = nr_free[j] - 1 /\ free[j] # <<>> /\ Head(free[j]) = b
      BY <1>3, <2>3, SMTT(30)
    <3>2. /\ Tail(free[j]) \in Seq(Page) /\ IsInjective(Tail(free[j]))
          /\ Range(Tail(free[j])) = Range(free[j]) \ {b}
      BY <2>1, <3>1, TailList, SMTT(30)
    <3>3. Len(free[j]) > 0 /\ Len(Tail(free[j])) = Len(free[j]) - 1
      BY <2>1, <3>1, ListLengths, Zenon
    <3>4. ASSUME NEW q \in Page
          PROVE  q \in Range(free'[j]) <=> (pst'[q] = "FREE" /\ data'[q] = j)
      <4>1. q \in Range(free'[j]) <=> pst[q] = "FREE" /\ data[q] = j /\ q # b
        BY <2>1, <3>1, <3>2, SMTT(30)
      <4>2. (pst'[q] = "FREE" /\ data'[q] = j) <=> q \notin Block(b, c) /\ pst[q] = "FREE" /\ data[q] = j
        <5>1. j \notin o .. c - 1
          BY <1>1, <2>3, SMTT(30)
        <5>2. QED
          BY <1>7, <5>1, SMTT(30)
      <4>3. q \in Block(b, c) /\ data[q] = j => q = b
        BY <1>6, SMTT(30)
      <4>4. QED
        BY <1>1, <4>1, <4>2, <4>3, SMTT(30)
    <3>5. QED
      BY <2>1, <2>2, <3>1, <3>2, <3>3, <3>4, SMTT(30)
  <2>4. CASE j \in o .. c - 1
    <3>1. PICK u : u = b + 2^j
      BY Zenon
    <3>2. j # c /\ u \in Page /\ u \in Block(b, c) /\ u # b
      BY <1>1, <2>4, <3>1, SMTT(30)
    <3>3. free'[j] = list_add_head(u, free[j]) /\ nr_free'[j] = nr_free[j] + 1
      BY <1>3, <2>4, <3>1, <3>2, SMTT(30)
    <3>4. \A q \in Block(b, c) : data[q] # j
      BY <1>5, <1>6, <3>2, SMTT(30)
    <3>5. u \notin Range(free[j])
      BY <2>1, <3>2, <3>4, Zenon
    <3>6. /\ list_add_head(u, free[j]) \in Seq(Page) /\ IsInjective(list_add_head(u, free[j]))
          /\ Range(list_add_head(u, free[j])) = Range(free[j]) \cup {u}
      <4>1. free[j] \in Seq(Page) /\ IsInjective(free[j]) /\ u \in Page
        BY <2>1, <3>2, Zenon
      <4>2. QED
        BY <3>5, <4>1, ConsList, ZenonT(40)
    <3>7. Len(list_add_head(u, free[j])) = Len(free[j]) + 1
      BY <2>1, <3>2, ListLengths, Zenon
    <3>8. ASSUME NEW q \in Page
          PROVE  q \in Range(free'[j]) <=> (pst'[q] = "FREE" /\ data'[q] = j)
      <4>1. q \in Range(free'[j]) <=> (pst[q] = "FREE" /\ data[q] = j) \/ q = u
        BY <2>1, <3>3, <3>6, Zenon
      <4>2. (pst'[q] = "FREE" /\ data'[q] = j)
              <=> q = u \/ (q \notin Block(b, c) /\ pst[q] = "FREE" /\ data[q] = j)
        BY <1>7, <2>4, <3>1
      <4>3. QED
        BY <3>4, <4>1, <4>2, SMTT(30)
    <3>9. QED
      BY <2>1, <2>2, <3>3, <3>6, <3>7, <3>8, SMTT(30)
  <2>5. CASE j \notin o .. c - 1 /\ j # c
    <3>1. free'[j] = free[j] /\ nr_free'[j] = nr_free[j]
      BY <1>3, <2>5, SMTT(30)
    <3>2. \A q \in Block(b, c) : data[q] # j
      BY <1>5, <1>6, <2>5, SMTT(30)
    <3>3. \A q \in Page : q \in Range(free'[j]) <=> (pst'[q] = "FREE" /\ data'[q] = j)
      BY <1>7, <2>1, <2>5, <3>1, <3>2, SMTT(30)
    <3>4. QED
      BY <2>1, <2>2, <3>1, <3>3, Zenon
  <2>6. QED
    BY <2>3, <2>4, <2>5, Zenon
<1>9. free' \in [Orders -> Seq(Page)] /\ nr_free' \in [Orders -> Nat]
  <2>1. free' = [j \in Orders |-> free'[j]] /\ nr_free' = [j \in Orders |-> nr_free'[j]]
    BY <1>3, SMTT(30)
  <2>2. \A j \in Orders : free'[j] \in Seq(Page) /\ nr_free'[j] \in Nat
    BY <1>8, Zenon
  <2>3. QED
    BY <2>1, <2>2, Zenon
<1>10. ListsExact'
  BY <1>8, SMTT(30) DEF ListsExact
<1>11. QED
  BY <1>9, <1>10, SMTT(30)

\* buddy_alloc_pages for n pages, which finds a block
LEMMA AllocStep ==
  ASSUME IInv, NEW n \in Requests, Alloc(n)
  PROVE  /\ IInv'
         /\ \E o \in Orders, b \in Page :
              /\ n =< 2^o /\ \A k \in 0 .. o - 1 : 2^k < n
              /\ b % 2^o = 0 /\ Block(b, o) \subseteq Page /\ \A q \in Block(b, o) : pst[q] = "FREE"
              /\ held' = held \cup {<<b, o>>}
              /\ \A q \in Page : pst'[q] = IF q \in Block(b, o) THEN "ALLOCATED" ELSE pst[q]
<1>1. BuddyType /\ Tiling /\ ListsExact /\ HeldExact /\ BootProgress /\ NoFreeBuddies
  BY Zenon DEF IInv
<1>2. PICK o, c, b : o = Min(size_to_order(n)) /\ c = Min(Serving(o)) /\ b = Head(free[c])
  BY Zenon
<1>3. /\ size_to_order(n) # {} /\ Serving(o) # {} /\ boot' = boot /\ boot = NPages
      /\ ListsSplit(b, o, c)
      /\ pst' = StateSet(StateSet(pst, b, c, "FREE"), b, o, "ALLOCATED")
      /\ data' = DataSplit(b, o, c)
      /\ held' = held \cup {<<b, o>>}
  BY <1>2 DEF Alloc, ListsSplit
<1>4. o \in Orders /\ o \in Nat /\ n =< 2^o /\ \A k \in 0 .. o - 1 : 2^k < n
  <2>1. size_to_order(n) \in SUBSET Nat
    BY BuddyAssumptions DEF size_to_order, Orders
  <2>2. o \in size_to_order(n) /\ \A y \in size_to_order(n) : o =< y
    BY <1>2, <1>3, <2>1, MinElement, Zenon
  <2>3. o \in Orders /\ o \in Nat /\ n =< 2^o
    BY <2>1, <2>2, Zenon DEF size_to_order
  <2>4. ASSUME NEW k \in 0 .. o - 1 PROVE 2^k < n
    <3>1. k \in Nat /\ k \in Orders /\ ~(o =< k)
      BY <2>3, BuddyAssumptions DEF Orders
    <3>2. k \notin size_to_order(n)
      BY <2>2, <3>1, Zenon
    <3>3. ~(n =< 2^k)
      BY <3>1, <3>2, Zenon DEF size_to_order
    <3>4. n \in Nat /\ 2^k \in Nat
      BY <3>1, PowNat, BuddyAssumptions, Zenon
    <3>5. QED
      BY <3>3, <3>4
  <2>5. QED
    BY <2>3, <2>4, Zenon
<1>5. c \in Orders /\ o =< c /\ nr_free[c] > 0
  <2>1. Serving(o) \in SUBSET Nat
    BY <1>4, BuddyAssumptions, SMTT(30) DEF Serving
  <2>2. c \in Serving(o)
    BY <1>2, <1>3, <2>1, MinElement, Zenon
  <2>3. QED
    BY <1>4, <2>2, BuddyAssumptions DEF Serving, Orders
<1>6. free[c] \in Seq(Page) /\ free[c] # <<>>
  <2>1. free[c] \in Seq(Page) /\ Len(free[c]) > 0
    BY <1>1, <1>5, Zenon DEF BuddyType, ListsExact
  <2>2. QED
    BY <2>1, EmptySeq
<1>7. b \in Page /\ pst[b] = "FREE" /\ data[b] = c
  <2>1. b \in Range(free[c]) /\ b \in Page
    BY <1>2, <1>6, TailList, Zenon
  <2>2. QED
    BY <1>1, <1>5, <2>1, Zenon DEF ListsExact
<1>8. MaySplit(b, o, c)
  BY <1>4, <1>5, <1>7, SMTT(30) DEF MaySplit
<1>9. /\ pst' \in [Page -> States] /\ data' \in [Page -> Orders \cup {MAGIC}]
      /\ Tiling' /\ NoFreeBuddies'
      /\ \A q \in Page : pst'[q] = IF q \in Block(b, o) THEN "ALLOCATED" ELSE pst[q]
  BY <1>1, <1>3, <1>8, SplitTiling, SMTT(30)
<1>10. free' \in [Orders -> Seq(Page)] /\ nr_free' \in [Orders -> Nat] /\ ListsExact'
  BY <1>1, <1>2, <1>3, <1>6, <1>8, SplitLists, Zenon
<1>11. BuddyType'
  BY <1>1, <1>3, <1>4, <1>7, <1>9, <1>10, SMTT(30) DEF BuddyType
<1>12. /\ b % 2^o = 0 /\ Block(b, o) \subseteq Block(b, c) /\ Block(b, c) \subseteq Page /\ b \in Block(b, o)
       /\ \A q \in Block(b, c) : pst[q] = "FREE"
       /\ Uppers(b, o, c) \subseteq Block(b, c) \ Block(b, o)
  BY <1>1, <1>8, SplitBlock, SMTT(30)
<1>13. HeldExact'
  <2>1. /\ data'[b] = o
        /\ \A q \in Block(b, c) : q # b /\ q \notin Uppers(b, o, c) => data'[q] = MAGIC
        /\ \A q \in Page : q \notin Block(b, c) => data'[q] = data[q]
    BY <1>1, <1>3, <1>8, DataSplitPages, SMTT(30)
  <2>2. MAGIC \notin Orders
    BY BuddyAssumptions DEF MAGIC, Orders
  <2>3. ASSUME NEW q \in Page, NEW j \in Orders
        PROVE  <<q, j>> \in held' <=> (pst'[q] = "ALLOCATED" /\ data'[q] = j)
    <3>1. <<q, j>> \in held <=> (pst[q] = "ALLOCATED" /\ data[q] = j)
      BY <1>1, Zenon DEF HeldExact
    <3>2. <<q, j>> \in held' <=> <<q, j>> \in held \/ (q = b /\ j = o)
      BY <1>3, Zenon
    <3>3. q \in Block(b, o) => ((pst'[q] = "ALLOCATED" /\ data'[q] = j) <=> (q = b /\ j = o))
      BY <1>9, <1>12, <2>1, <2>2, SMTT(30)
    <3>4. q \notin Block(b, o) /\ pst'[q] = "ALLOCATED" => q \notin Block(b, c)
      BY <1>9, <1>12, SMTT(30)
    <3>5. QED
      BY <1>9, <1>12, <2>1, <3>1, <3>2, <3>3, <3>4, Zenon
  <2>4. QED
    BY <2>3, Zenon DEF HeldExact
<1>14. BootProgress'
  BY <1>1, <1>3, <1>9, <1>12, Zenon DEF BootProgress
<1>15. IInv'
  BY <1>9, <1>10, <1>11, <1>13, <1>14, SMTT(30) DEF IInv
<1>16. Block(b, o) \subseteq Page /\ \A q \in Block(b, o) : pst[q] = "FREE"
  BY <1>12, Zenon
<1>17. QED
  BY <1>3, <1>4, <1>7, <1>9, <1>12, <1>15, <1>16, SMTT(30)
-----------------------------------------------------------------------------
LEMMA InitIInv == Init => IInv
<1>1. SUFFICES ASSUME Init PROVE IInv
  BY Zenon
<1>2. NPages \in Nat /\ MAGIC \notin Orders
  BY BuddyAssumptions DEF MAGIC, Orders
<1>3. /\ pst \in [Page -> {"RESERVED", "AVAILABLE"}] /\ data = [p \in Page |-> MAGIC]
      /\ free = [o \in Orders |-> <<>>] /\ nr_free = [o \in Orders |-> 0] /\ boot = 0 /\ held = {}
  BY <1>1, Zenon DEF Init
<1>4. <<>> \in Seq(Page) /\ IsInjective(<<>>) /\ Range(<<>>) = {} /\ Len(<<>>) = 0
  BY EmptyList, EmptySeq, Zenon
<1>5. BuddyType
  BY <1>2, <1>3, <1>4 DEF BuddyType, States
<1>6. Heads = {} /\ \A q \in Page : pst[q] \in {"RESERVED", "AVAILABLE"}
  BY <1>3, Zenon DEF Heads
<1>7. Tiling /\ NoFreeBuddies
  BY <1>6, Zenon DEF Tiling, NoFreeBuddies
<1>8. ListsExact
  BY <1>3, <1>4, <1>6 DEF ListsExact
<1>9. HeldExact
  BY <1>3, <1>6, Zenon DEF HeldExact
<1>10. BootProgress
  <2>1. \A p \in Page : ~(p < 0)
    BY <1>2 DEF Page
  <2>2. QED
    BY <1>3, <1>6, <2>1, Zenon DEF BootProgress
<1>11. QED
  BY <1>5, <1>7, <1>8, <1>9, <1>10, SMTT(30) DEF IInv

LEMMA NextIInv == IInv /\ [Next]_vars => IInv'
<1>1. SUFFICES ASSUME IInv, [Next]_vars PROVE IInv'
  BY Zenon
<1>2. CASE BootPage
  BY <1>1, <1>2, BootStep, Zenon
<1>3. ASSUME NEW n \in Requests, Alloc(n) PROVE IInv'
  BY <1>1, <1>3, AllocStep, Zenon
<1>4. ASSUME NEW n \in Requests, AllocFails(n) PROVE UNCHANGED vars
  BY <1>4, Zenon DEF AllocFails
<1>5. ASSUME NEW b \in held, Free(b) PROVE IInv'
  BY <1>1, <1>5, FreeStep, Zenon
<1>6. CASE UNCHANGED vars
  <2>1. pst' = pst /\ data' = data /\ free' = free /\ nr_free' = nr_free /\ boot' = boot /\ held' = held
    BY <1>6, Zenon DEF vars
  <2>2. BuddyType' /\ BootProgress' /\ HeldExact' /\ ListsExact'
    BY <1>1, <2>1, SMTT(30) DEF IInv, BuddyType, BootProgress, HeldExact, ListsExact
  <2>3. Tiling' /\ NoFreeBuddies'
    BY <1>1, <2>1, SMTT(30) DEF IInv, Tiling, NoFreeBuddies, Heads, BlockOf
  <2>4. QED
    BY <2>2, <2>3, Zenon DEF IInv
<1>7. QED
  BY <1>1, <1>2, <1>3, <1>4, <1>5, <1>6, SMTT(30) DEF Next

LEMMA Invariance == Spec => []IInv
<1>1. QED
  BY InitIInv, NextIInv, PTL DEF Spec
-----------------------------------------------------------------------------
\* The blocks on the lists are the blocks the descriptors call free.
LEMMA FreeBlocksExact ==
  ASSUME IInv
  PROVE  /\ \A p \in Page, o \in Orders : <<p, o>> \in FreeBlocks <=> (pst[p] = "FREE" /\ data[p] = o)
         /\ \A x \in FreeBlocks : \E p \in Page, o \in Orders : x = <<p, o>>
<1>1. \A o \in Orders : free[o] \in Seq(Page)
  BY Zenon DEF IInv, BuddyType
<1>2. \A o \in Orders : Range(free[o]) \subseteq Page
  BY <1>1, ToSetElement, Zenon
<1>3. \A x : x \in FreeBlocks <=> \E o \in Orders : \E p \in Range(free[o]) : x = <<p, o>>
  BY DEF FreeBlocks
<1>4. \A p \in Page, o \in Orders : p \in Range(free[o]) <=> (pst[p] = "FREE" /\ data[p] = o)
  BY Zenon DEF IInv, ListsExact
<1>5. QED
  BY <1>2, <1>3, <1>4

\* A block on a list or with a client is a block of the tiling.
LEMMA BlocksAreHeads ==
  ASSUME IInv, NEW x \in FreeBlocks \cup held
  PROVE  /\ x[1] \in Heads /\ x[2] = data[x[1]] /\ x = <<x[1], x[2]>> /\ x[1] \in Page /\ x[2] \in Orders
         /\ pst[x[1]] = IF x \in FreeBlocks THEN "FREE" ELSE "ALLOCATED"
         /\ x \in held => pst[x[1]] = "ALLOCATED"
<1>1. PICK p \in Page, o \in Orders : x = <<p, o>>
  BY FreeBlocksExact DEF IInv, BuddyType
<1>2. x[1] = p /\ x[2] = o /\ x = <<x[1], x[2]>>
  BY <1>1, Zenon
<1>3. x \in FreeBlocks => pst[p] = "FREE" /\ data[p] = o
  BY <1>1, FreeBlocksExact, Zenon
<1>4. x \in held => pst[p] = "ALLOCATED" /\ data[p] = o
  BY <1>1, Zenon DEF IInv, HeldExact
<1>5. p \in Heads
  BY <1>3, <1>4, Zenon DEF Heads
<1>6. QED
  BY <1>2, <1>3, <1>4, <1>5, Zenon

LEMMA NothingLost == IInv => NoPageLostOrShared
<1>1. SUFFICES ASSUME IInv PROVE NoPageLostOrShared
  BY Zenon
<1> DEFINE All == FreeBlocks \cup held
<1>2. Tiling /\ BootProgress /\ BuddyType /\ HeldExact
  BY <1>1, Zenon DEF IInv
<1>3. \A x \in All : /\ x[1] \in Heads /\ x[2] = data[x[1]] /\ x = <<x[1], x[2]>>
                     /\ pst[x[1]] = IF x \in FreeBlocks THEN "FREE" ELSE "ALLOCATED"
                     /\ x \in held => pst[x[1]] = "ALLOCATED"
                     /\ Block(x[1], x[2]) = BlockOf(x[1])
  BY <1>1, BlocksAreHeads, Zenon DEF BlockOf
<1>4. FreeBlocks \cap held = {}
  BY <1>3, Zenon
<1>5. \A x \in All : x[1] % 2^x[2] = 0
  BY <1>2, <1>3 DEF Tiling
<1>6. ASSUME NEW x \in All, NEW y \in All, x # y PROVE Block(x[1], x[2]) \cap Block(y[1], y[2]) = {}
  <2>1. x[1] # y[1]
    BY <1>3, <1>6, Zenon
  <2>2. QED
    BY <1>2, <1>3, <2>1 DEF Tiling
<1>7. ASSUME boot = NPages
      PROVE  UNION {Block(x[1], x[2]) : x \in All} = {p \in Page : pst[p] # "RESERVED"}
  <2>1. ASSUME NEW x \in All, NEW q \in Block(x[1], x[2]) PROVE q \in Page /\ pst[q] # "RESERVED"
    <3>1. x[1] \in Heads /\ q \in BlockOf(x[1])
      BY <1>3, Zenon
    <3>2. q \in Page /\ pst[q] = pst[x[1]]
      BY <1>2, <3>1, HeadPages, Zenon
    <3>3. QED
      BY <3>1, <3>2, HeadInBlock, Zenon
  <2>2. ASSUME NEW q \in Page, pst[q] # "RESERVED" PROVE \E x \in All : q \in Block(x[1], x[2])
    <3>1. pst[q] # "AVAILABLE"
      BY <1>2, <1>7, BuddyAssumptions DEF BootProgress, Page
    <3>2. pst[q] \in {"FREE", "ALLOCATED"}
      BY <1>2, <2>2, <3>1 DEF BuddyType, States
    <3>3. PICK h \in Heads : q \in BlockOf(h)
      BY <1>2, <3>2, Zenon DEF Tiling
    <3>4. h \in Page /\ data[h] \in Orders /\ pst[h] \in {"FREE", "ALLOCATED"}
      BY HeadInBlock, Zenon
    <3>5. PICK x : x = <<h, data[h]>>
      BY Zenon
    <3>6. x \in All
      BY <1>1, <1>2, <3>4, <3>5, FreeBlocksExact, SMTT(30) DEF HeldExact
    <3>7. x[1] = h /\ x[2] = data[h]
      BY <3>5, Zenon
    <3>8. QED
      BY <3>3, <3>6, <3>7, Zenon DEF BlockOf
  <2>3. QED
    BY <2>1, <2>2, Zenon
<1>8. QED
  BY <1>4, <1>5, <1>6, <1>7, Zenon DEF NoPageLostOrShared

(* A free page of an aligned run of free pages is in a free block.  When   *)
(* no list of the order of the run or above has a block, the block is      *)
(* smaller than the run and inside it.                                     *)
LEMMA SmallerBlock ==
  ASSUME IInv, NEW o \in Orders, Serving(o) = {}, NEW p \in Nat, p % 2^o = 0,
         Block(p, o) \subseteq Page, \A q \in Block(p, o) : pst[q] = "FREE", NEW q \in Block(p, o)
  PROVE  \E h \in Heads : /\ q \in BlockOf(h) /\ data[h] < o /\ pst[h] = "FREE"
                          /\ BlockOf(h) \subseteq Block(p, o)
<1>1. Tiling /\ ListsExact /\ BuddyType
  BY Zenon DEF IInv
<1>2. o \in Nat /\ MaxOrder \in Nat
  BY BuddyAssumptions DEF Orders
<1>3. PICK h \in Heads : q \in BlockOf(h)
  BY <1>1, Zenon DEF Tiling
<1>4. h \in Nat /\ h \in Page /\ data[h] \in Orders /\ data[h] \in Nat /\ pst[h] = "FREE"
  BY <1>1, <1>3, HeadPages, HeadInBlock, SMTT(30)
<1>5. data[h] < o
  <2>1. h \in Range(free[data[h]]) /\ free[data[h]] \in Seq(Page)
    BY <1>1, <1>4, Zenon DEF ListsExact, BuddyType
  <2>2. Len(free[data[h]]) > 0
    BY <2>1, ListLengths, Zenon
  <2>3. nr_free[data[h]] > 0
    BY <1>1, <1>4, <2>2, Zenon DEF ListsExact
  <2>4. data[h] \notin o .. MaxOrder
    BY <2>3, Zenon DEF Serving
  <2>5. QED
    BY <1>2, <1>4, <2>4 DEF Orders
<1>6. h % 2^data[h] = 0 /\ q \in Block(h, data[h])
  BY <1>1, <1>3, Zenon DEF Tiling, BlockOf
<1>7. data[h] =< o
  BY <1>2, <1>4, <1>5, SMTT(30)
<1>8. Block(h, data[h]) \subseteq Block(p, o)
  BY <1>2, <1>4, <1>6, <1>7, BlocksNest, SMTT(30)
<1>9. QED
  BY <1>3, <1>4, <1>5, <1>8, SMTT(30) DEF BlockOf

(* Refusals are right.  The smallest block of an aligned free run would    *)
(* have a free buddy in the run, and free buddies are always merged.       *)
LEMMA RefusalsRight == IInv => NoFalseRefusal
<1>1. SUFFICES ASSUME IInv, NEW o \in Orders, Serving(o) = {}, NEW p \in Page, p % 2^o = 0,
                      \A q \in Block(p, o) : pst[q] = "FREE"
               PROVE  FALSE
  BY Zenon DEF NoFalseRefusal
<1>2. /\ o \in Nat /\ p \in Nat /\ NPages \in Nat /\ MaxOrder \in Nat /\ o =< MaxOrder
      /\ NPages % 2^MaxOrder = 0 /\ p < NPages
  BY BuddyAssumptions DEF Orders, Page
<1>3. Tiling /\ NoFreeBuddies
  BY <1>1, Zenon DEF IInv
<1>4. Block(p, o) \subseteq Page /\ p \in Block(p, o)
  <2>1. PICK n \in Nat \ {0} : n = 2^o
    BY <1>2, PowPositive, Zenon
  <2>2. NPages % 2^o = 0
    BY <1>2, AlignedSmaller, Zenon
  <2>3. p + n =< NPages
    BY <1>1, <1>2, <2>1, <2>2, WholeBlocks, Zenon
  <2>4. p \in Block(p, o) /\ \A x : x \in Block(p, o) <=> x \in Nat /\ p =< x /\ x < p + n
    BY <1>2, <2>1, BlockRange, Zenon
  <2>5. QED
    BY <1>2, <2>1, <2>3, <2>4 DEF Page
<1>5. ASSUME NEW q \in Block(p, o)
      PROVE  \E h \in Heads : /\ q \in BlockOf(h) /\ data[h] < o /\ pst[h] = "FREE"
                              /\ BlockOf(h) \subseteq Block(p, o)
  BY <1>1, <1>2, <1>4, SmallerBlock
<1> DEFINE T == {data[h] : h \in {g \in Heads : BlockOf(g) \subseteq Block(p, o)}}
<1>6. T # {} /\ T \in SUBSET Nat
  <2>1. PICK h \in Heads : BlockOf(h) \subseteq Block(p, o)
    BY <1>4, <1>5, Zenon
  <2>2. data[h] \in T
    BY <2>1, Zenon
  <2>3. \A g \in Heads : data[g] \in Nat
    BY HeadInBlock, Zenon
  <2>4. QED
    BY <2>2, <2>3, Zenon
<1>7. PICK k \in T : \A y \in T : k =< y
  BY <1>6, LeastElement, Zenon
<1>8. PICK h \in Heads : k = data[h] /\ BlockOf(h) \subseteq Block(p, o)
  BY <1>7, Zenon
<1>9. \A g \in Heads : BlockOf(g) \subseteq Block(p, o) => k =< data[g]
  BY <1>7, Zenon
<1> HIDE DEF T
<1>10. /\ h \in Nat /\ k \in Nat /\ h \in BlockOf(h) /\ BlockOf(h) = Block(h, k) /\ h % 2^k = 0
       /\ h \in Block(p, o) /\ pst[h] = "FREE"
  BY <1>1, <1>3, <1>8, HeadInBlock, SMTT(30) DEF Tiling, BlockOf
<1>11. k < o
  BY <1>3, <1>5, <1>8, <1>10 DEF Tiling
<1>12. PICK g, u : g = WHO_IS_MY_BUDDY(h, k) /\ u = h - (h % 2^(k + 1))
  BY Zenon
<1>13. /\ g \in Nat /\ g % 2^k = 0 /\ g # h
       /\ u \in Nat /\ u % 2^(k + 1) = 0 /\ Block(u, k + 1) = Block(h, k) \cup Block(g, k)
  BY <1>10, <1>12, BuddyPair, SMTT(30)
<1>14. k + 1 \in Nat /\ k + 1 =< o /\ k < MaxOrder
  BY <1>2, <1>10, <1>11
<1>15. g \in Block(g, k)
  BY <1>10, <1>13, BlockRange, Zenon
<1>16. Block(u, k + 1) \subseteq Block(p, o)
  <2>1. h \in Block(u, k + 1)
    BY <1>10, <1>13, Zenon
  <2>2. QED
    BY <1>1, <1>2, <1>10, <1>13, <1>14, <2>1, BlocksNest, Zenon
<1>17. PICK f \in Heads : g \in BlockOf(f) /\ pst[f] = "FREE" /\ BlockOf(f) \subseteq Block(p, o)
  BY <1>5, <1>13, <1>15, <1>16, SMTT(30)
<1>18. f \in Nat /\ data[f] \in Nat /\ f % 2^data[f] = 0 /\ BlockOf(f) = Block(f, data[f]) /\ k =< data[f]
       /\ f \in BlockOf(f)
  BY <1>3, <1>9, <1>17, HeadInBlock, SMTT(30) DEF Tiling, BlockOf
<1>19. data[f] = k
  <2>1. SUFFICES ASSUME k # data[f] PROVE FALSE
    BY <1>18, Zenon
  <2>2. k + 1 =< data[f]
    BY <1>10, <1>18, <2>1
  <2>3. g \in Block(u, k + 1) /\ g \in Block(f, data[f])
    BY <1>13, <1>15, <1>17, <1>18, SMTT(30)
  <2>4. Block(u, k + 1) \subseteq Block(f, data[f])
    BY <1>13, <1>14, <1>18, <2>2, <2>3, BlocksNest, SMTT(30)
  <2>5. h \in BlockOf(f)
    BY <1>10, <1>13, <1>18, <2>4, SMTT(30)
  <2>6. h = f
    BY <1>3, <1>10, <2>5 DEF Tiling
  <2>7. QED
    BY <1>8, <2>1, <2>6
<1>20. f = g
  <2>1. g \in Block(f, k) /\ f \in Block(f, k)
    BY <1>17, <1>18, <1>19
  <2>2. k =< k /\ f % 2^k = 0
    BY <1>10, <1>18, <1>19, SMTT(30)
  <2>3. Block(f, k) \subseteq Block(g, k)
    BY <1>10, <1>13, <1>15, <1>18, <2>1, <2>2, BlocksNest, SMTT(30)
  <2>4. f =< g /\ g =< f
    BY <1>10, <1>13, <1>18, <2>1, <2>3, BlockRange, SMTT(30)
  <2>5. QED
    BY <1>13, <1>18, <2>4
<1>21. QED
  BY <1>3, <1>8, <1>10, <1>12, <1>14, <1>17, <1>19, <1>20, SMTT(30) DEF NoFreeBuddies

LEMMA InvariantSound == IInv => BlocksSound
<1>1. SUFFICES ASSUME IInv PROVE BlocksSound
  BY Zenon
<1>2. CountersExact
  BY <1>1, Zenon DEF IInv, ListsExact, CountersExact
<1>3. DescriptorsMatch
  <2>1. \A x \in held : pst[x[1]] = "ALLOCATED" /\ data[x[1]] = x[2]
    BY <1>1, BlocksAreHeads, Zenon
  <2>2. QED
    BY <1>1, <2>1, FreeBlocksExact, Zenon DEF DescriptorsMatch
<1>4. FullyMerged
  <2>1. SUFFICES ASSUME NEW x \in FreeBlocks, x[2] < MaxOrder,
                        <<WHO_IS_MY_BUDDY(x[1], x[2]), x[2]>> \in FreeBlocks
                 PROVE  FALSE
    BY Zenon DEF FullyMerged
  <2>2. PICK g : g = WHO_IS_MY_BUDDY(x[1], x[2])
    BY Zenon
  <2>3. PICK y \in FreeBlocks : y[1] = g /\ y[2] = x[2]
    BY <2>1, <2>2, Zenon
  <2>4. x[1] \in Heads /\ x[2] = data[x[1]] /\ pst[x[1]] = "FREE"
    BY <1>1, BlocksAreHeads, Zenon
  <2>5. y[1] \in Heads /\ y[2] = data[y[1]] /\ pst[y[1]] = "FREE"
    BY <1>1, BlocksAreHeads, Zenon
  <2>6. QED
    BY <1>1, <2>1, <2>2, <2>3, <2>4, <2>5, SMTT(30) DEF IInv, NoFreeBuddies
<1>5. QED
  BY <1>1, <1>2, <1>3, <1>4, NothingLost, RefusalsRight, SMTT(30) DEF BlocksSound

(* The buddy allocator is sound, whatever the size of the zone, the        *)
(* largest order and the sizes asked for (buddy.c).  The counters agree    *)
(* with the lists, no page is lost or in two blocks, the descriptors say   *)
(* what the lists say, no two buddies are both free, and a request is      *)
(* refused only when no aligned run of free pages is large enough.         *)
THEOREM BlocksCorrect == Spec => []BlocksSound
<1>1. QED
  BY Invariance, InvariantSound, PTL
-----------------------------------------------------------------------------
LEMMA PromiseInit == Init => Promise!Init
<1>1. SUFFICES ASSUME Init PROVE Promise!Init
  BY Zenon
<1>2. {p \in Page : pst[p] \in {"AVAILABLE", "FREE"}} \in SUBSET Page /\ held = {}
  BY <1>1, Zenon DEF Init
<1>3. QED
  BY <1>2, Zenon DEF Promise!Init, Promise!Page, Page

LEMMA PromiseStep ==
  IInv /\ [Next]_vars => [Promise!Next]_<<{p \in Page : pst[p] \in {"AVAILABLE", "FREE"}}, held>>
<1> DEFINE avail == {p \in Page : pst[p] \in {"AVAILABLE", "FREE"}}
<1>1. SUFFICES ASSUME IInv, [Next]_vars PROVE [Promise!Next]_<<avail, held>>
  BY Zenon
<1>2. avail' = {p \in Page : pst'[p] \in {"AVAILABLE", "FREE"}}
  BY Zenon
<1>3. CASE BootPage
  <2>1. \A q \in Page : pst'[q] \in {"AVAILABLE", "FREE"} <=> pst[q] \in {"AVAILABLE", "FREE"}
    BY <1>1, <1>3, BootStep
  <2>2. avail' = avail
    BY <1>2, <2>1, Zenon
  <2>3. held' = held
    BY <1>3, Zenon DEF BootPage
  <2>4. QED
    BY <2>2, <2>3, Zenon
<1>4. ASSUME NEW n \in Requests, Alloc(n) PROVE Promise!Next
  <2>1. PICK o \in Orders, b \in Page :
          /\ n =< 2^o /\ \A k \in 0 .. o - 1 : 2^k < n
          /\ b % 2^o = 0 /\ Block(b, o) \subseteq Page /\ \A q \in Block(b, o) : pst[q] = "FREE"
          /\ held' = held \cup {<<b, o>>}
          /\ \A q \in Page : pst'[q] = IF q \in Block(b, o) THEN "ALLOCATED" ELSE pst[q]
    BY <1>1, <1>4, AllocStep, SMTT(30)
  <2>2. avail' = avail \ Block(b, o)
    BY <1>2, <2>1, Zenon
  <2>3. Block(b, o) \subseteq avail
    BY <2>1, Zenon
  <2>4. Promise!Fits(n, o)
    BY <2>1, Zenon DEF Promise!Fits, Orders
  <2>5. Promise!Block(b, o) = Block(b, o) /\ Promise!Page = Page /\ Orders = 0 .. MaxOrder
    BY Zenon DEF Promise!Block, Block, Promise!Page, Page, Orders
  <2>6. Promise!Run(b, o)
    BY <2>1, <2>3, <2>5, Zenon DEF Promise!Run
  <2>7. Promise!Alloc(n)
    BY <2>1, <2>2, <2>4, <2>5, <2>6, SMTT(30) DEF Promise!Alloc
  <2>8. QED
    BY <2>7, Zenon DEF Promise!Next
<1>5. ASSUME NEW n \in Requests, AllocFails(n) PROVE UNCHANGED vars
  BY <1>5, Zenon DEF AllocFails
<1>6. ASSUME NEW b \in held, Free(b) PROVE Promise!Next
  <2>1. /\ held' = held \ {b} /\ Block(b[1], b[2]) \subseteq Page
        /\ \A q \in Page : pst'[q] \in {"AVAILABLE", "FREE"}
                             <=> pst[q] \in {"AVAILABLE", "FREE"} \/ q \in Block(b[1], b[2])
    BY <1>1, <1>6, FreeStep, Zenon
  <2>2. avail' = avail \cup Block(b[1], b[2])
    BY <1>2, <2>1, Zenon
  <2>3. Promise!Block(b[1], b[2]) = Block(b[1], b[2])
    BY Zenon DEF Promise!Block, Block
  <2>4. Promise!Free(b)
    BY <2>1, <2>2, <2>3 DEF Promise!Free
  <2>5. QED
    BY <2>4, Zenon DEF Promise!Next
<1>7. CASE UNCHANGED vars
  BY <1>2, <1>7, Zenon DEF vars
<1>8. QED
  BY <1>1, <1>3, <1>4, <1>5, <1>6, <1>7, SMTT(30) DEF Next

(* The buddy allocator implements PageAlloc: a client that asks for n      *)
(* pages gets an aligned run of the smallest sufficient power of two that  *)
(* nobody holds, and what it gives back is free again.  The lists, the     *)
(* splits and the merges of buddy.c are invisible to it.                   *)
THEOREM PromiseKept == Spec => KeepsPromise
<1>1. QED
  BY Invariance, PromiseInit, PromiseStep, PTL DEF Spec, KeepsPromise, Promise!Spec
=============================================================================
