---------------------------- MODULE ServiceProofs ----------------------------
(***************************************************************************)
(* Proofs about services the rest of the kernel or a program relies on.    *)
(* The identifier manager, for every number of identifiers: it is well     *)
(* typed, its hint is the lowest clear bit, and no identifier is granted   *)
(* twice.  The byte loop of bitmap_find_next_zero_from, which computes     *)
(* FirstZeroFrom for every bitmap and every start: the loop invariant says *)
(* that every bit between the start and the loop's position is set.  The   *)
(* ATA driver, for every sector number and count and whatever the drive    *)
(* does: what it read or wrote so far is a run of sectors from the one     *)
(* asked for, and the drive stands at the next.  Signal frames, for any    *)
(* stack, any number of signals and any nesting of handlers: the main      *)
(* program finds its registers and its stack as it left them.              *)
(***************************************************************************)
EXTENDS IdManager, BitmapSearch, Ata, SigFrame, OpsProofs

\* The inductive invariant: the three invariants support one another.
ManagerIInv == ManagerTypeOK /\ HintIsLowestFree /\ BitsAreGrants /\ UniqueGrant

LEMMA ManagerInitIInv == ManagerInit => ManagerIInv
<1> SUFFICES ASSUME ManagerInit PROVE ManagerIInv
  BY Zenon
<1> USE MaxIdAssumption DEF Ids
<1>1. mgr.bits = {} /\ mgr.next_free = 0
  BY Zenon DEF ManagerInit, id_manager_create
<1>2. FirstZeroFrom(mgr.bits, MaxId, 0) = 0
  BY <1>1, FirstZeroUnique
<1>3. QED
  BY <1>1, <1>2 DEF ManagerInit, id_manager_create, ManagerIInv, ManagerTypeOK, HintIsLowestFree,
                    BitsAreGrants, UniqueGrant

\* One step of the manager keeps the invariant.
LEMMA ManagerNextIInv == ManagerIInv /\ [ManagerNext]_managerVars => ManagerIInv'
<1> SUFFICES ASSUME ManagerIInv, [ManagerNext]_managerVars PROVE ManagerIInv'
  BY Zenon
<1> USE MaxIdAssumption DEF Ids
<1> DEFINE n == mgr.next_free
<1>t. mgr = [bits |-> mgr.bits, next_free |-> n] /\ mgr.bits \in SUBSET Ids
      /\ n \in Ids \cup {-1}
  BY Zenon DEF ManagerIInv, ManagerTypeOK
<1>l. /\ n = -1 => \A k \in Ids : k \in mgr.bits
      /\ n # -1 => n \in Ids /\ n \notin mgr.bits /\ \A k \in 0 .. n - 1 : k \in mgr.bits
  <2>1. n = FirstZeroFrom(mgr.bits, MaxId, 0)
    BY Zenon DEF ManagerIInv, HintIsLowestFree
  <2>2. PICK f : f = FirstZeroFrom(mgr.bits, MaxId, 0)
    BY Zenon
  <2>3. \/ f = -1 /\ \A k \in 0 .. MaxId - 1 : k \in mgr.bits
        \/ f \in 0 .. MaxId - 1 /\ f \notin mgr.bits /\ \A k \in 0 .. f - 1 : k \in mgr.bits
    BY <2>2, FirstZeroProperties, Zenon
  <2>4. QED
    BY <2>1, <2>2, <2>3
<1>1. CASE Alloc
  <2> DEFINE b == mgr.bits \cup {n}
  <2>1. n \in Ids /\ n \notin mgr.bits /\ \A k \in 0 .. n : k \in b
    BY <1>1, <1>l, <1>t DEF Alloc
  <2>2. mgr' = [bits |-> b, next_free |-> NextHint(b, MaxId, n + 1)]
    <3>1. mgr' = id_manager_alloc(mgr, MaxId) /\ BitmapSet(mgr.bits, MaxId, n) = b
      BY <1>1, <2>1 DEF Alloc, BitmapSet
    <3>2. QED
      BY <3>1, Zenon DEF id_manager_alloc
  <2>3. NextHint(b, MaxId, n + 1) = FirstZeroFrom(b, MaxId, 0)
    <3>1. n + 1 \in Nat /\ \A k \in 0 .. (n + 1) - 1 : k \in b
      BY <2>1
    <3> HIDE DEF b, n
    <3>2. QED
      BY <3>1, HintAfterTake, Zenon
  <2>4. HintIsLowestFree'
    BY <2>2, <2>3, Zenon DEF HintIsLowestFree
  <2>5. FirstZeroFrom(b, MaxId, 0) \in Ids \cup {-1}
    BY FirstZeroType, Zenon
  <2>6. grants' = [grants EXCEPT ![n] = @ + 1] /\ grants \in [Ids -> Nat] /\ grants[n] = 0
    BY <1>1, <2>1 DEF Alloc, ManagerIInv, ManagerTypeOK, BitsAreGrants
  <2>7. ManagerTypeOK'
    BY <1>t, <2>1, <2>2, <2>3, <2>5, <2>6 DEF ManagerTypeOK
  <2>8. BitsAreGrants' /\ UniqueGrant'
    BY <2>1, <2>2, <2>6 DEF ManagerIInv, BitsAreGrants, UniqueGrant
  <2>9. QED
    BY <2>4, <2>7, <2>8, Zenon DEF ManagerIInv
<1>2. CASE AllocExhausted
  BY <1>2, Zenon DEF AllocExhausted, managerVars, ManagerIInv, ManagerTypeOK, HintIsLowestFree, BitsAreGrants, UniqueGrant
<1>3. ASSUME NEW id \in Ids, Free(id) PROVE ManagerIInv'
  <2> DEFINE b == mgr.bits \ {id}
             h == IF n = -1 \/ id < n THEN id ELSE n
  <2>0. id < MaxId
    BY DEF Ids
  <2>1. mgr' = [bits |-> b, next_free |-> h]
    BY <1>3, <2>0, Zenon DEF Free, id_manager_free, BitmapUnset
  <2>2. h \in Ids /\ h \notin b /\ \A k \in 0 .. h - 1 : k \in b
    BY <1>l, <1>t
  <2>3. HintIsLowestFree'
    BY <2>1, <2>2, FirstZeroUnique DEF HintIsLowestFree
  <2>4. grants' = [grants EXCEPT ![id] = @ - 1] /\ grants \in [Ids -> Nat] /\ grants[id] = 1
    BY <1>3 DEF Free, ManagerIInv, ManagerTypeOK, UniqueGrant
  <2>5. ManagerTypeOK'
    BY <1>t, <2>1, <2>2, <2>4 DEF ManagerTypeOK
  <2>6. BitsAreGrants' /\ UniqueGrant'
    BY <2>1, <2>4 DEF ManagerIInv, BitsAreGrants, UniqueGrant
  <2>7. QED
    BY <2>3, <2>5, <2>6, Zenon DEF ManagerIInv
<1>4. ASSUME NEW id \in Ids, Reserve(id) PROVE ManagerIInv'
  <2> DEFINE b == mgr.bits \cup {id}
  <2>1. id \notin mgr.bits /\ n # -1
    BY <1>4, <1>l, Zenon DEF Reserve
  <2>r. mgr' = id_manager_reserve_id(mgr, MaxId, id) /\ BitmapSet(mgr.bits, MaxId, id) = b
    BY <1>4 DEF Reserve, BitmapSet
  <2>2. mgr'.bits = b /\ mgr'.next_free = FirstZeroFrom(b, MaxId, 0)
        /\ mgr' = [bits |-> b, next_free |-> mgr'.next_free]
    <3>1. CASE id = n
      <4>0. id + 1 \in Nat /\ \A k \in 0 .. (id + 1) - 1 : k \in b
        BY <1>l, <2>1, <3>1
      <4>1. NextHint(b, MaxId, id + 1) = FirstZeroFrom(b, MaxId, 0)
        <5> HIDE DEF b
        <5>1. QED
          BY <4>0, HintAfterTake, Zenon
      <4>2. mgr' = [bits |-> b, next_free |-> NextHint(b, MaxId, id + 1)]
        BY <2>r, <3>1, Zenon DEF id_manager_reserve_id
      <4>3. QED
        BY <4>1, <4>2, Zenon
    <3>2. CASE id # n
      <4>0. n \in Nat /\ n < MaxId /\ n \notin b /\ \A k \in 0 .. n - 1 : k \in b
        BY <1>l, <2>1, <3>2
      <4>1. FirstZeroFrom(b, MaxId, 0) = n
        <5> HIDE DEF b, n
        <5>1. QED
          BY <4>0, FirstZeroUnique, Zenon
      <4>2. mgr' = [bits |-> b, next_free |-> n]
        BY <2>r, <3>2, Zenon DEF id_manager_reserve_id
      <4>3. QED
        BY <4>1, <4>2, Zenon
    <3>3. QED
      BY <3>1, <3>2, Zenon
  <2>3. FirstZeroFrom(b, MaxId, 0) \in Ids \cup {-1}
    BY FirstZeroType, Zenon
  <2>4. grants' = [grants EXCEPT ![id] = @ + 1] /\ grants \in [Ids -> Nat] /\ grants[id] = 0
    BY <1>4, <2>1 DEF Reserve, ManagerIInv, ManagerTypeOK, BitsAreGrants
  <2>5. ManagerTypeOK'
    BY <1>t, <2>2, <2>3, <2>4 DEF ManagerTypeOK
  <2>6. HintIsLowestFree'
    BY <2>2, Zenon DEF HintIsLowestFree
  <2>7. BitsAreGrants' /\ UniqueGrant'
    BY <2>2, <2>4 DEF ManagerIInv, BitsAreGrants, UniqueGrant
  <2>8. QED
    BY <2>5, <2>6, <2>7, Zenon DEF ManagerIInv
<1>5. CASE UNCHANGED managerVars
  BY <1>5, Zenon DEF managerVars, ManagerIInv, ManagerTypeOK, HintIsLowestFree, BitsAreGrants, UniqueGrant
<1>6. QED
  BY <1>1, <1>2, <1>3, <1>4, <1>5, Zenon DEF ManagerNext

LEMMA ManagerInvariance == ManagerSpec => []ManagerIInv
BY ManagerInitIInv, ManagerNextIInv, PTL DEF ManagerSpec

(* id_manager_alloc, _free and _reserve_id keep the manager well typed,    *)
(* however many identifiers it manages.                                    *)
THEOREM TypeCorrect == ManagerSpec => []ManagerTypeOK
<1>1. ManagerIInv => ManagerTypeOK
  BY Zenon DEF ManagerIInv
<1>2. QED
  BY <1>1, ManagerInvariance, PTL

(* No identifier is held by two clients: id_manager_alloc may return the   *)
(* hint without testing its bit.                                           *)
THEOREM GrantsUnique == ManagerSpec => []UniqueGrant
<1>1. ManagerIInv => UniqueGrant
  BY Zenon DEF ManagerIInv
<1>2. QED
  BY <1>1, ManagerInvariance, PTL

\* The hint of id_manager.c is the lowest clear bit, -1 only when none is.
THEOREM HintCorrect == ManagerSpec => []HintIsLowestFree
<1>1. ManagerIInv => HintIsLowestFree
  BY Zenon DEF ManagerIInv
<1>2. QED
  BY <1>1, ManagerInvariance, PTL
-----------------------------------------------------------------------------
LEMMA ByteBitsCases ==
  \/ ByteBits = 1 \/ ByteBits = 2 \/ ByteBits = 3 \/ ByteBits = 4
  \/ ByteBits = 5 \/ ByteBits = 6 \/ ByteBits = 7 \/ ByteBits = 8
BY ByteBitsAssumption

\* Splitting an index into its byte and its bit, as the code does with / and %.
LEMMA ByteAndBit ==
  ASSUME NEW s \in Nat
  PROVE  /\ s \div ByteBits \in Nat /\ s % ByteBits \in 0 .. ByteBits - 1
         /\ s = (s \div ByteBits) * ByteBits + (s % ByteBits)
BY ByteBitsCases

\* BITS_TO_BYTES rounds up: n bits fit, and byte Bytes(n) starts past them.
LEMMA BytesCover ==
  ASSUME NEW n \in Nat
  PROVE  /\ Bytes(n) \in Nat
         /\ \A k \in Nat : k >= Bytes(n) => k * ByteBits >= n
BY ByteBitsCases DEF Bytes

\* The byte of an index in range is in the array.
LEMMA ByteInArray ==
  ASSUME NEW n \in Nat, NEW s \in Nat, s < n
  PROVE  s \div ByteBits < Bytes(n)
BY ByteBitsCases DEF Bytes

\* The bits of a byte and the first bit of the next one.
LEMMA NextByteStart ==
  ASSUME NEW k \in Nat
  PROVE  k * ByteBits \in Nat /\ (k + 1) * ByteBits = k * ByteBits + ByteBits
BY ByteBitsAssumption
-----------------------------------------------------------------------------
\* The bits of the search range before position p are all set.
SetUpTo(p) == \A k \in start .. p - 1 : k \in data

\* The loop invariant, per loop.
LoopInv ==
  /\ pc = "byte" =>
       /\ start < nb /\ i >= start \div ByteBits
       /\ SetUpTo(i * ByteBits)
  /\ pc = "bit" =>
       /\ start < nb /\ i >= start \div ByteBits
       /\ i * ByteBits + j >= start
       /\ SetUpTo(i * ByteBits + j)

SearchIInv == TypeOK /\ LoopInv /\ ResultIsFirstZero

\* A clear bit with only set bits before it is the answer.
LEMMA FoundIsFirst ==
  ASSUME NEW bits, NEW n \in Nat, NEW s \in Nat, NEW f \in Nat,
         s =< f, f \notin bits, \A k \in s .. f - 1 : k \in bits
  PROVE  FirstZeroFrom(bits, n, s) = IF f >= n THEN -1 ELSE f
<1>1. PICK g : g = FirstZeroFrom(bits, n, s)
  BY Zenon
<1>2. \/ g = -1 /\ \A k \in s .. n - 1 : k \in bits
      \/ g \in s .. n - 1 /\ g \notin bits /\ \A k \in s .. g - 1 : k \in bits
  BY <1>1, FirstZeroProperties, Zenon
<1>3. CASE f >= n
  BY <1>1, <1>2, <1>3
<1>4. CASE f < n
  BY <1>1, <1>2, <1>4
<1>5. QED
  BY <1>3, <1>4

\* When every bit from s on is set, or there is none, the answer is -1.
LEMMA NoneIsMinusOne ==
  ASSUME NEW bits, NEW n \in Nat, NEW s \in Nat, \A k \in s .. n - 1 : k \in bits
  PROVE  FirstZeroFrom(bits, n, s) = -1
BY Zenon DEF FirstZeroFrom, ZerosFrom

LEMMA SearchInitIInv == Init => SearchIInv
<1> SUFFICES ASSUME Init PROVE SearchIInv
  BY Zenon
<1>1. nb \in Nat /\ Bytes(nb) \in Nat
  BY MaxBitsAssumption, BytesCover DEF Init
<1>2. QED
  BY <1>1, ByteBitsAssumption DEF Init, SearchIInv, TypeOK, LoopInv, ResultIsFirstZero

LEMMA SearchNextIInv == SearchIInv /\ [Next]_vars => SearchIInv'
<1> SUFFICES ASSUME SearchIInv, [Next]_vars PROVE SearchIInv'
  BY Zenon
<1> USE ByteBitsAssumption, MaxBitsAssumption
<1>t. /\ nb \in Nat /\ start \in Nat /\ Bytes(nb) \in Nat
      /\ i \in Nat /\ j \in Nat /\ i * ByteBits \in Nat
      /\ TypeOK /\ LoopInv
  BY BytesCover, NextByteStart DEF SearchIInv, TypeOK
<1>1. CASE Reject
  <2>1. FirstZeroFrom(data, nb, start) = -1
    BY <1>1, <1>t, NoneIsMinusOne DEF Reject
  <2>2. QED
    BY <1>1, <1>t, <2>1 DEF Reject, Return, SearchIInv, TypeOK, LoopInv, ResultIsFirstZero
<1>2. CASE Enter
  <2>1. i' = start \div ByteBits /\ i' \in Nat /\ i' < Bytes(nb) /\ i' * ByteBits =< start
    <3>1. i' = start \div ByteBits /\ start < nb
      BY <1>2, Zenon DEF Enter
    <3>2. start \div ByteBits < Bytes(nb)
      BY <1>t, <3>1, ByteInArray, Zenon
    <3>3. start \div ByteBits \in Nat /\ (start \div ByteBits) * ByteBits =< start
      BY <1>t, ByteAndBit, NextByteStart
    <3>4. QED
      BY <3>1, <3>2, <3>3, Zenon
  <2>2. TypeOK'
    BY <1>2, <1>t, <2>1 DEF Enter, TypeOK
  <2>3. LoopInv'
    BY <1>2, <1>t, <2>1, NextByteStart DEF Enter, LoopInv, SetUpTo
  <2>4. QED
    BY <1>2, <2>2, <2>3, Zenon DEF Enter, SearchIInv, ResultIsFirstZero
<1>3. CASE SkipByte
  <2>1. \A k \in i * ByteBits .. i * ByteBits + ByteBits - 1 : k \in data
    <3>1. TAKE k \in i * ByteBits .. i * ByteBits + ByteBits - 1
    <3>2. k - i * ByteBits \in 0 .. ByteBits - 1 /\ k = i * ByteBits + (k - i * ByteBits)
      BY <1>t
    <3>3. QED
      BY <1>3, <3>2, Zenon DEF SkipByte, ByteFull
  <2>2. (i + 1) * ByteBits = i * ByteBits + ByteBits
    BY <1>t, NextByteStart, Zenon
  <2>3. \A k \in start .. i * ByteBits + ByteBits - 1 : k \in data
    BY <1>3, <1>t, <2>1 DEF SkipByte, LoopInv, SetUpTo
  <2>4. SetUpTo(i * ByteBits)'
    BY <1>3, <1>t, <2>2, <2>3 DEF SkipByte, SetUpTo
  <2>5. TypeOK'
    BY <1>3, <1>t DEF SkipByte, TypeOK
  <2>6. start \div ByteBits \in Nat
    BY <1>t, ByteAndBit, Zenon
  <2>7. QED
    BY <1>3, <1>t, <2>4, <2>5, <2>6 DEF SkipByte, SearchIInv, LoopInv, ResultIsFirstZero
<1>4. CASE EnterByte
  <2>1. j' = FirstBit(i) /\ j' \in 0 .. ByteBits
    BY <1>4, <1>t, ByteAndBit DEF EnterByte, FirstBit
  <2>2. i * ByteBits + j' >= start
    <3>1. CASE i = start \div ByteBits
      BY <1>t, <2>1, <3>1, ByteAndBit DEF FirstBit
    <3>2. CASE i # start \div ByteBits
      <4>1. i >= (start \div ByteBits) + 1 /\ start \div ByteBits \in Nat
        BY <1>4, <1>t, <3>2, ByteAndBit DEF EnterByte, LoopInv
      <4>2. i * ByteBits >= ((start \div ByteBits) + 1) * ByteBits
        BY <1>t, <4>1, ByteBitsCases
      <4>3. QED
        BY <1>t, <2>1, <4>1, <4>2, ByteAndBit, NextByteStart
    <3>3. QED
      BY <3>1, <3>2, Zenon
  <2>3. \A k \in start .. i * ByteBits + j' - 1 : k \in data
    <3>1. CASE i = start \div ByteBits
      BY <1>t, <2>1, <3>1, ByteAndBit DEF FirstBit
    <3>2. CASE i # start \div ByteBits
      BY <1>4, <1>t, <2>1, <3>2 DEF EnterByte, LoopInv, SetUpTo, FirstBit
    <3>3. QED
      BY <3>1, <3>2, Zenon
  <2>4. TypeOK'
    BY <1>4, <1>t, <2>1, Zenon DEF EnterByte, TypeOK
  <2>5. SetUpTo(i * ByteBits + j)'
    <3>1. i' = i /\ data' = data /\ start' = start
      BY <1>4, Zenon DEF EnterByte
    <3>2. QED
      BY <1>t, <2>1, <2>3, <3>1 DEF SetUpTo
  <2>6. LoopInv'
    BY <1>4, <1>t, <2>2, <2>5, Zenon DEF EnterByte, LoopInv
  <2>7. QED
    BY <1>4, <2>4, <2>6, Zenon DEF EnterByte, SearchIInv, ResultIsFirstZero
<1>5. CASE SkipBit
  <2>1. TypeOK'
    BY <1>5, <1>t DEF SkipBit, TypeOK
  <2>2. LoopInv'
    BY <1>5, <1>t DEF SkipBit, LoopInv, SetUpTo
  <2>3. QED
    BY <1>5, <2>1, <2>2, Zenon DEF SkipBit, SearchIInv, ResultIsFirstZero
<1>6. CASE FoundBit
  <2> DEFINE f == i * ByteBits + j
  <2>1. FirstZeroFrom(data, nb, start) = IF f >= nb THEN -1 ELSE f
    <3>1. f \in Nat /\ start =< f /\ f \notin data /\ \A k \in start .. f - 1 : k \in data
      BY <1>6, <1>t DEF FoundBit, LoopInv, SetUpTo
    <3>2. QED
      BY <1>t, <3>1, FoundIsFirst, Zenon
  <2>2. QED
    BY <1>6, <1>t, <2>1 DEF FoundBit, Return, SearchIInv, TypeOK, LoopInv, ResultIsFirstZero
<1>7. CASE NextByte
  <2>1. (i + 1) * ByteBits = i * ByteBits + ByteBits /\ start \div ByteBits \in Nat
    BY <1>t, NextByteStart, ByteAndBit, Zenon
  <2>2. j = ByteBits
    BY <1>7, <1>t DEF NextByte, TypeOK
  <2>3. TypeOK'
    BY <1>7, <1>t DEF NextByte, TypeOK
  <2>4. SetUpTo(i * ByteBits)'
    BY <1>7, <1>t, <2>1, <2>2, Zenon DEF NextByte, LoopInv, SetUpTo
  <2>5. QED
    BY <1>7, <1>t, <2>1, <2>3, <2>4 DEF NextByte, SearchIInv, LoopInv, ResultIsFirstZero
<1>8. CASE Exhausted
  <2>1. FirstZeroFrom(data, nb, start) = -1
    <3>1. i * ByteBits >= nb
      BY <1>8, <1>t, BytesCover, Zenon DEF Exhausted
    <3>2. \A k \in start .. nb - 1 : k \in data
      BY <1>8, <1>t, <3>1 DEF Exhausted, LoopInv, SetUpTo
    <3>3. QED
      BY <1>t, <3>2, NoneIsMinusOne, Zenon
  <2>2. QED
    BY <1>8, <1>t, <2>1 DEF Exhausted, Return, SearchIInv, TypeOK, LoopInv, ResultIsFirstZero
<1>9. CASE UNCHANGED vars
  BY <1>9, Zenon DEF vars, SearchIInv, TypeOK, LoopInv, SetUpTo, ResultIsFirstZero
<1>10. QED
  BY <1>1, <1>2, <1>3, <1>4, <1>5, <1>6, <1>7, <1>8, <1>9, Zenon DEF Next

LEMMA SearchInvariance == Spec => []SearchIInv
BY SearchInitIInv, SearchNextIInv, PTL DEF Spec

(* The loop of bitmap_find_next_zero_from returns the first clear bit from *)
(* bit_start on, or -1, whatever the bitmap's size and contents.           *)
THEOREM SearchCorrect == Spec => []ResultIsFirstZero
<1>1. SearchIInv => ResultIsFirstZero
  BY Zenon DEF SearchIInv
<1>2. QED
  BY <1>1, SearchInvariance, PTL
-----------------------------------------------------------------------------
Statuses == {{}, {BSY}, {DRQ}, {DF}, {ERR}}

\* The sectors that are transferred
Todo == uint8(req.count)

\* A read or write that has been sent to the drive
Sent(op) ==
  /\ req.op = op /\ req.lba \in Nat /\ req.lba < MaxLba /\ Todo \in Nat \ {0}
  /\ regs = [io |-> lba_io(req.lba), count |-> Todo, cmd |-> op]
  /\ pos \in 0 .. Todo

\* In the loop of a read: the sectors behind it are in the buffer
Reading ==
  /\ Sent("read") /\ pos < Todo /\ left = Todo - pos
  /\ buf = Run(req.lba, pos) /\ result = NoRet
  /\ at = "check" => BSY \notin status
  /\ at = "data" => status = {DRQ}

\* The drive is in step with the driver
InStep == /\ pos < Todo /\ left = Todo - pos
          /\ status \in {{BSY}, {DRQ}}
          /\ at = "data" => status = {DRQ}

\* or has given up and takes nothing any more
GivenUp == "fault" \in mishaps /\ status \in {{}, {DF}, {ERR}}

\* In the loop of a write: the sectors the drive has taken are on the medium
Writing == Sent("write") /\ media = Run(req.lba, pos) /\ (InStep \/ GivenUp)

\* Behind the loop of a write
Written == \E n \in 0 .. Todo : media = Run(req.lba, n) /\ ("fault" \notin mishaps => n = Todo)

\* The drive asks for nothing, and will not when it is done
Flushing ==
  /\ req.op = "write" /\ req.lba \in Nat /\ Todo \in Nat \ {0} /\ Written /\ DRQ \notin status
  /\ BSY \in status => regs.cmd = "flush" \/ (regs.cmd = "write" /\ ~(pos < Sectors(regs.count)))

\* The drive waits for a command
Waits == status \in {{}, {DF}, {ERR}}

Transfers ==
  /\ status \in Statuses
  /\ at \in {"boot", "free?"} => status \in {{}, {BSY}} /\ regs.cmd = "none"
  /\ at \in {"idle", "wait"} => Waits
  /\ at = "idle" /\ req.op = "read" => /\ \E n \in 0 .. Todo : buf = Run(req.lba, n)
                                       /\ result = 0 <=> Len(buf) = Todo
                                       /\ Todo \in Nat \ {0} /\ req.lba \in Nat
  /\ at = "idle" /\ req.op = "write" => Written /\ req.lba \in Nat /\ Todo \in Nat \ {0}
  /\ at = "wait" => /\ req.op \in {"read", "write"} /\ req.lba \in Nat /\ req.lba < MaxLba
                    /\ Todo \in Nat \ {0} /\ left = Todo /\ buf = <<>> /\ media = <<>> /\ result = NoRet
  /\ at \in {"poll", "check", "data"} => Reading \/ (at # "check" /\ Writing)
  /\ at \in {"flush", "flushing"} => Flushing
  /\ at = "id data" => status = {DRQ}
  /\ at \in {"free?", "answer?", "id data"} => req.op = "identify"

(* The inductive invariant: nothing is known of a drive that was asked for *)
(* no sectors, and never will be.                                          *)
AtaIInv == "zero" \notin mishaps => Transfers

(* The registers hold the sector number.  (Zenon writes a numeral in unary, *)
(* so the large ones are for the SMT solver alone.)                        *)
LEMMA RegistersHold ==
  ASSUME NEW lba \in Nat, lba < MaxLba
  PROVE  lba_io(lba).l0 + 256 * lba_io(lba).l1 + 65536 * lba_io(lba).l2 + 16777216 * lba_io(lba).head = lba
<1>1. PICK a, b, c : a = lba \div 256 /\ b = lba \div 65536 /\ c = lba \div 16777216
  BY SMT
<1>2. /\ a \in Nat /\ lba = 256 * a + (lba % 256)
      /\ b \in Nat /\ c \in Nat /\ c < 16
  BY <1>1, SMT DEF MaxLba
<1>3. a = 256 * b + (a % 256)
  BY <1>1, <1>2, SMT
<1>4. b = 256 * c + (b % 256)
  BY <1>1, <1>2, SMT
<1>5. c % 16 = c
  BY <1>2, SMT
<1>6. PICK d, e, f : d = lba % 256 /\ e = a % 256 /\ f = b % 256
  BY SMT
<1>7. d \in Nat /\ e \in Nat /\ f \in Nat
  BY <1>2, <1>6, SMT
<1>8. lba_io(lba).l0 = d /\ lba_io(lba).l1 = e /\ lba_io(lba).l2 = f /\ lba_io(lba).head = c
  BY <1>1, <1>5, <1>6, SMT DEF lba_io
<1>9. lba = 256 * a + d /\ a = 256 * b + e /\ b = 256 * c + f
  BY <1>2, <1>3, <1>4, <1>6, SMT
<1>10. d + 256 * e + 65536 * f + 16777216 * c = lba
  BY <1>2, <1>7, <1>9, SMT
<1>11. QED
  BY <1>8, <1>10, SMT

LEMMA SectorIs ==
  ASSUME NEW op, Sent(op)
  PROVE  Sector = req.lba + pos
<1>1. regs.io = lba_io(req.lba) /\ req.lba \in Nat /\ req.lba < MaxLba /\ pos \in Nat
  BY DEF Sent
<1>2. PICK a, io : a = req.lba /\ io = lba_io(req.lba)
  BY Zenon
<1>3. io.l0 + 256 * io.l1 + 65536 * io.l2 + 16777216 * io.head = a
  BY <1>1, <1>2, RegistersHold, SMT
<1>4. QED
  BY <1>1, <1>2, <1>3, SMT DEF Sector

\* A run of sectors grows by the next one.
LEMMA RunGrows ==
  ASSUME NEW a \in Nat, NEW n \in Nat
  PROVE  /\ Run(a, n) \in Seq(Nat) /\ Len(Run(a, n)) = n
         /\ Append(Run(a, n), a + n) = Run(a, n + 1) /\ Run(a, 0) = <<>>
<1>1. PICK f, g : f = Run(a, n) /\ g = Run(a, n + 1)
  BY Zenon
<1>2. f \in Seq(Nat) /\ Len(f) = n /\ \A k \in 1 .. n : f[k] = a + k - 1
  BY <1>1 DEF Run
<1>3. g \in Seq(Nat) /\ Len(g) = n + 1 /\ \A k \in 1 .. n + 1 : g[k] = a + k - 1
  BY <1>1 DEF Run
<1>4. PICK h : h = Append(f, a + n)
  BY Zenon
<1>5. h \in Seq(Nat) /\ Len(h) = n + 1 /\ (\A k \in 1 .. n : h[k] = f[k]) /\ h[n + 1] = a + n
  BY <1>2, <1>4, AppendProperties
<1>6. \A k \in 1 .. n + 1 : h[k] = g[k]
  BY <1>2, <1>3, <1>5
<1>7. h = g
  BY <1>3, <1>5, <1>6, SeqEqual, Zenon
<1>8. Run(a, 0) = <<>>
  BY DEF Run
<1>9. QED
  BY <1>1, <1>2, <1>4, <1>7, <1>8, Zenon

LEMMA AtaInitially == AtaInit => AtaIInv
BY DEF AtaInit, AtaIInv, Transfers, Statuses

\* The names of the bits differ.
LEMMA Bits ==
  /\ BSY \notin {} /\ BSY \notin {DRQ} /\ BSY \notin {DF} /\ BSY \notin {ERR} /\ BSY \in {BSY}
  /\ DRQ \notin {} /\ DRQ \notin {BSY} /\ DRQ \notin {DF} /\ DRQ \notin {ERR} /\ DRQ \in {DRQ}
  /\ DF \notin {} /\ DF \notin {BSY} /\ DF \notin {DRQ} /\ DF \notin {ERR}
  /\ ERR \notin {} /\ ERR \notin {BSY} /\ ERR \notin {DRQ} /\ ERR \notin {DF}
BY Zenon DEF BSY, DRQ, DF, ERR

\* A step that changes only the status leaves a call where it was.
LEMMA DriveStep ==
  ASSUME Transfers, Drive
  PROVE  Transfers'
<1>1. BSY \in status /\ UNCHANGED <<at, req, left, buf, result, regs, pos, media>>
  BY Zenon DEF Drive, Answer, Fault
<1>2. status = {BSY} /\ at \notin {"id data", "idle", "wait"}
  BY <1>1, Bits, Zenon DEF Transfers, Waits, Statuses
<1>3. status' \in {{}, {DRQ}, {DF}, {ERR}} /\ BSY \notin status'
  BY Bits, Zenon DEF Drive, Answer, Fault
<1>4. ASSUME at \in {"poll", "check", "data"} PROVE (Reading \/ (at # "check" /\ Writing))'
  <2>1. CASE Reading
    <3>1. at # "check" /\ at # "data"
      BY <1>2, <2>1, Bits, Zenon DEF Reading
    <3>2. QED
      BY <1>1, <2>1, <3>1, Zenon DEF Reading, Sent, Todo
  <2>2. CASE at # "check" /\ Writing
    <3>1. /\ InStep /\ regs.cmd = "write" /\ regs.count = Todo /\ Todo \in Nat \ {0}
          /\ Sent("write") /\ media = Run(req.lba, pos)
      <4>1. ~GivenUp /\ InStep
        BY <1>2, <2>2, Bits, Zenon DEF Writing, GivenUp
      <4>2. QED
        BY <2>2, <4>1, Zenon DEF Writing, Sent
    <3>2. pos < Sectors(regs.count) /\ at # "data"
      <4>1. Sectors(Todo) = Todo
        BY <3>1, Zenon DEF Sectors
      <4>2. QED
        BY <1>2, <3>1, <4>1, Bits, Zenon DEF InStep
    <3>3. InStep' \/ GivenUp'
      <4>1. CASE Answer
        <5>1. status' = {DRQ}
          BY <3>1, <3>2, <4>1, Zenon DEF Answer
        <5>2. QED
          BY <1>1, <3>1, <3>2, <5>1, Zenon DEF InStep, Todo
      <4>2. CASE Fault
        BY <4>2, Zenon DEF Fault, GivenUp
      <4>3. QED
        BY <4>1, <4>2, Zenon DEF Drive
    <3>4. QED
      BY <1>1, <2>2, <3>1, <3>3, Zenon DEF Writing, Sent, Todo
  <2>3. QED
    BY <1>4, <2>1, <2>2, Zenon DEF Transfers
<1>5. ASSUME at \in {"flush", "flushing"} PROVE Flushing'
  <2>1. Flushing
    BY <1>5, Zenon DEF Transfers
  <2>2. DRQ \notin status'
    <3>1. CASE Answer
      <4>1. regs.cmd # "identify" /\ ~(regs.cmd \in {"read", "write"} /\ pos < Sectors(regs.count))
        BY <1>2, <2>1, Bits, Zenon DEF Flushing
      <4>2. QED
        BY <3>1, <4>1, Bits, Zenon DEF Answer
    <3>2. CASE Fault
      BY <3>2, Bits, Zenon DEF Fault
    <3>3. QED
      BY <3>1, <3>2, Zenon DEF Drive
  <2>3. mishaps \subseteq mishaps'
    BY Zenon DEF Drive, Answer, Fault
  <2>4. Written'
    BY <1>1, <2>1, <2>3, Zenon DEF Flushing, Written, Todo
  <2>5. QED
    BY <1>1, <1>3, <2>1, <2>2, <2>4, Zenon DEF Flushing, Todo
<1>6. ASSUME at \in {"boot", "free?"} PROVE status' = {}
  <2>1. regs.cmd = "none"
    BY <1>6, Zenon DEF Transfers
  <2>2. QED
    BY <2>1, Zenon DEF Drive, Answer, Fault
<1>7. QED
  BY <1>1, <1>2, <1>3, <1>4, <1>5, <1>6, Zenon DEF Transfers, Statuses

LEMMA AtaStep ==
  ASSUME AtaIInv, [AtaNext]_ataVars
  PROVE  AtaIInv'
<1> SUFFICES ASSUME "zero" \notin mishaps'
             PROVE  Transfers'
  BY Zenon DEF AtaIInv
<1>0. "zero" \notin mishaps /\ Transfers
  <2>1. mishaps' = mishaps \/ mishaps' = mishaps \cup {"fault"} \/ Access
    BY Zenon DEF AtaNext, ataVars, Driver, Drive, Access, Identify, Issue, Poll, Check, Insw, Outsw, Flush, Flushed,
                 IdentifyFree, IdentifyAnswer, IdentifyData, Answer, Fault
  <2>2. ASSUME Access, "zero" \in mishaps PROVE "zero" \in mishaps'
    BY <2>2 DEF Access
  <2>3. QED
    BY <2>1, <2>2, Zenon DEF AtaIInv
<1>1. CASE Access
  <2>1. PICK op \in {"read", "write"}, lba \in Lbas, n \in Counts :
          /\ req' = [op |-> op, lba |-> lba, count |-> n] /\ left' = uint8(n)
          /\ at' = IF lba >= MaxLba \/ ~LBA THEN "panic" ELSE "wait"
          /\ mishaps' = (mishaps \ {"fault"}) \cup (IF uint8(n) = 0 THEN {"zero"} ELSE {})
    BY <1>1, Zenon DEF Access
  <2>2. lba \in Nat /\ uint8(n) \in Nat /\ MaxLba \in Nat
    BY AtaAssumptions, SMT DEF MaxLba, uint8
  <2>3. uint8(n) # 0
    BY <2>1, Zenon
  <2>4. at' = "panic" \/ (at' = "wait" /\ lba < MaxLba)
    BY <2>1, <2>2
  <2>5. req'.op = op /\ req'.lba = lba /\ req'.count = n
    BY <2>1, Zenon
  <2>6. buf' = <<>> /\ media' = <<>> /\ result' = NoRet /\ status' = status /\ at = "idle"
    BY <1>1, Zenon DEF Access
  <2>7. Todo' = uint8(n) /\ Todo' \in Nat \ {0} /\ left' = Todo'
    BY <2>1, <2>2, <2>3, <2>5, Zenon DEF Todo
  <2>8. QED
    BY <1>0, <2>2, <2>4, <2>5, <2>6, <2>7, Zenon DEF Transfers, Waits
<1>2. CASE Identify
  BY <1>0, <1>2, Zenon DEF Transfers, Identify
<1>3. CASE Issue
  <2>1. /\ at = "wait" /\ req.op \in {"read", "write"} /\ req.lba \in Nat /\ req.lba < MaxLba
        /\ Todo \in Nat \ {0} /\ left = Todo /\ buf = <<>> /\ media = <<>> /\ result = NoRet
        /\ SendCommand([io |-> lba_io(req.lba), count |-> left, cmd |-> req.op])
        /\ status \in {{}, {DF}, {ERR}} /\ UNCHANGED <<req, left, buf, media>>
    BY <1>0, <1>3, Zenon DEF Transfers, Issue, Waits
  <2>2. at' = "poll" /\ result' = result
    BY <1>3, <2>1 DEF Issue
  <2>3. regs' = [io |-> lba_io(req.lba), count |-> Todo, cmd |-> req.op] /\ status' = {BSY} /\ pos' = 0
    <3>1. status \cap {BSY, DRQ} = {}
      BY <2>1, Bits, Zenon
    <3>2. QED
      BY <2>1, <3>1, Zenon DEF SendCommand
  <2>4. Run(req.lba, 0) = <<>> /\ req' = req /\ Todo' = Todo
    BY <2>1, RunGrows, Zenon DEF Todo
  <2>5. Sent(req.op)'
    BY <2>1, <2>3, <2>4 DEF Sent
  <2>6. CASE req.op = "read"
    <3>1. Reading'
      BY <2>1, <2>2, <2>3, <2>4, <2>5, <2>6 DEF Reading
    <3>2. QED
      BY <2>2, <2>3, <3>1, Zenon DEF Transfers, Statuses
  <2>7. CASE req.op = "write"
    <3>1. Writing'
      BY <2>1, <2>2, <2>3, <2>4, <2>5, <2>7 DEF Writing, InStep
    <3>2. QED
      BY <2>2, <2>3, <3>1, Zenon DEF Transfers, Statuses
  <2>8. QED
    BY <2>1, <2>6, <2>7, Zenon
<1>4. CASE Poll
  <2>1. /\ at = "poll" /\ BSY \notin status /\ at' = IF req.op = "read" THEN "check" ELSE "data"
        /\ UNCHANGED <<req, left, buf, result, status, regs, pos, media, mishaps>>
        /\ status \in Statuses /\ (Reading \/ Writing)
    BY <1>0, <1>4, Zenon DEF Transfers, Poll
  <2>2. CASE Reading
    <3>1. at' = "check" /\ Reading'
      BY <2>1, <2>2, Zenon DEF Reading, Sent, Todo
    <3>2. QED
      BY <2>1, <3>1, Zenon DEF Transfers
  <2>3. CASE Writing
    <3>1. at' = "data"
      BY <2>1, <2>3, Zenon DEF Writing, Sent
    <3>2. InStep' \/ GivenUp'
      BY <2>1, <2>3, Bits, Zenon DEF Writing, InStep, GivenUp, Todo
    <3>3. Writing'
      BY <2>1, <2>3, <3>2, Zenon DEF Writing, Sent, Todo
    <3>4. QED
      BY <2>1, <3>1, <3>3, Zenon DEF Transfers
  <2>4. QED
    BY <2>1, <2>2, <2>3, Zenon
<1>5. CASE Check
  <2>1. /\ at = "check" /\ Reading /\ status \in Statuses /\ BSY \notin status
        /\ UNCHANGED <<req, left, buf, status, regs, pos, media>>
    BY <1>0, <1>5, Zenon DEF Transfers, Check, Reading
  <2>2. \/ at' = "idle" /\ result' \in {1, 2, 3} /\ DRQ \notin status
        \/ at' = "data" /\ result' = result /\ status = {DRQ}
    BY <1>5, <2>1, Bits, Zenon DEF Check, Finish, Statuses
  <2>3. CASE at' = "data" /\ result' = result /\ status = {DRQ}
    <3>1. Reading'
      BY <2>1, <2>3, Zenon DEF Reading, Sent, Todo
    <3>2. QED
      BY <2>1, <2>3, <3>1, Zenon DEF Transfers
  <2>4. CASE at' = "idle" /\ result' \in {1, 2, 3} /\ DRQ \notin status
    <3>1. /\ pos \in 0 .. Todo /\ pos \in Nat /\ pos # Todo /\ Todo \in Nat \ {0} /\ req.lba \in Nat
          /\ buf = Run(req.lba, pos) /\ req.op = "read"
      BY <2>1 DEF Reading, Sent
    <3>2. Len(buf) = pos /\ result' # 0
      <4>1. Len(buf) = pos
        BY <3>1, RunGrows, Zenon
      <4>2. result' # 0
        BY <2>4
      <4>3. QED
        BY <4>1, <4>2, Zenon
    <3>3. status' \in {{}, {DF}, {ERR}} /\ Todo' = Todo
      BY <2>1, <2>4, Bits, Zenon DEF Statuses, Todo
    <3>4. QED
      BY <2>1, <2>4, <3>1, <3>2, <3>3, Zenon DEF Transfers, Waits
  <2>5. QED
    BY <2>2, <2>3, <2>4, Zenon
<1>6. CASE Insw
  <2>1. /\ at = "data" /\ Reading
        /\ buf' = Append(buf, Sector) /\ pos' = pos + 1 /\ left' = left - 1
        /\ status' = IF pos + 1 < Sectors(regs.count) THEN {BSY} ELSE {}
        /\ IF left' = 0 THEN at' = "idle" /\ result' = 0 ELSE at' = "poll" /\ result' = result
        /\ UNCHANGED <<req, regs, media>>
    BY <1>0, <1>6, Zenon DEF Transfers, Insw, Writing, Sent, Finish
  <2>2. /\ Sent("read") /\ req.op = "read" /\ req.lba \in Nat /\ Todo \in Nat \ {0} /\ pos \in Nat
        /\ pos < Todo /\ left = Todo - pos /\ buf = Run(req.lba, pos) /\ result = NoRet
    BY <2>1 DEF Reading, Sent
  <2>3. Sector = req.lba + pos
    BY <2>2, SectorIs, Zenon
  <2>4. buf' = Run(req.lba, pos + 1) /\ Todo' = Todo
    BY <2>1, <2>2, <2>3, RunGrows, Zenon DEF Todo
  <2>5. CASE left' = 0
    <3>1. pos + 1 = Todo
      BY <2>1, <2>2, <2>5
    <3>2. Len(buf') = Todo
      BY <2>2, <2>4, <3>1, RunGrows, Zenon
    <3>3. status' = {}
      <4>1. Sectors(regs.count) = Todo
        BY <2>2 DEF Sent, Sectors
      <4>2. QED
        BY <2>1, <2>2, <3>1, <4>1
    <3>4. req' = req /\ at' = "idle" /\ result' = 0
      BY <2>1, <2>5, Zenon
    <3>5. \E n \in 0 .. Todo : buf' = Run(req.lba, n)
      BY <2>2, <2>4, <3>1
    <3>6. QED
      BY <2>2, <2>4, <3>2, <3>3, <3>4, <3>5, Zenon DEF Transfers, Waits, Statuses
  <2>6. CASE left' # 0
    <3>1. pos + 1 < Todo
      BY <2>1, <2>2, <2>6
    <3>2. Reading'
      BY <2>1, <2>2, <2>4, <2>6, <3>1 DEF Reading, Sent
    <3>3. QED
      BY <2>1, <2>2, <2>6, <3>2, Zenon DEF Transfers, Statuses
  <2>7. QED
    BY <2>5, <2>6, Zenon
<1>7. CASE Outsw
  <2>1. /\ at = "data" /\ Writing
        /\ IF DRQ \in status THEN media' = Append(media, Sector) /\ pos' = pos + 1 /\ status' = {BSY}
           ELSE UNCHANGED <<media, pos, status>>
        /\ left' = left - 1
        /\ at' = IF left' = 0 THEN "flush" ELSE "poll"
        /\ UNCHANGED <<req, buf, result, regs, mishaps>>
    BY <1>0, <1>7, Zenon DEF Transfers, Outsw, Reading, Sent
  <2>2. /\ Sent("write") /\ req.op = "write" /\ req.lba \in Nat /\ Todo \in Nat \ {0} /\ pos \in 0 .. Todo
        /\ pos \in Nat /\ media = Run(req.lba, pos) /\ Todo' = Todo /\ req' = req
        /\ regs.cmd = "write" /\ regs.count = Todo /\ regs' = regs
    BY <2>1 DEF Writing, Sent, Todo
  <2>3. Sectors(regs.count) = Todo
    BY <2>2 DEF Sectors
  <2>4. CASE GivenUp
    <3>1. GivenUp' /\ media' = media /\ pos' = pos /\ status' = status /\ DRQ \notin status /\ BSY \notin status
      BY <2>1, <2>4, Bits, Zenon DEF GivenUp
    <3>2. Written' /\ Writing'
      BY <2>1, <2>2, <3>1, Zenon DEF Written, Writing, Sent, GivenUp, Todo
    <3>3. status' \in Statuses
      BY <3>1, Zenon DEF GivenUp, Statuses
    <3>4. QED
      BY <2>1, <2>2, <3>1, <3>2, <3>3, Zenon DEF Transfers, Flushing
  <2>5. CASE InStep
    <3>1. pos < Todo /\ left = Todo - pos /\ status = {DRQ}
      BY <2>1, <2>5, Zenon DEF InStep
    <3>2. Sector = req.lba + pos
      BY <2>2, SectorIs, Zenon
    <3>3. media' = Run(req.lba, pos + 1) /\ pos' = pos + 1 /\ status' = {BSY}
      BY <2>1, <2>2, <3>1, <3>2, RunGrows, Bits, Zenon
    <3>4. CASE left' = 0
      <4>1. pos + 1 = Todo /\ Todo \in 0 .. Todo /\ ~(pos' < Sectors(regs'.count))
        BY <2>1, <2>2, <2>3, <3>1, <3>3, <3>4
      <4>2. Written'
        BY <2>2, <3>3, <4>1, Zenon DEF Written
      <4>3. at' = "flush"
        BY <2>1, <3>4, Zenon
      <4>4. Flushing'
        BY <2>2, <3>3, <4>1, <4>2, Bits, Zenon DEF Flushing
      <4>5. QED
        BY <3>3, <4>3, <4>4, Zenon DEF Transfers, Statuses
    <3>5. CASE left' # 0
      <4>1. at' = "poll" /\ pos' < Todo /\ left' = Todo - pos' /\ pos' \in 0 .. Todo
        BY <2>1, <2>2, <3>1, <3>3, <3>5
      <4>2. InStep' /\ Sent("write")'
        BY <2>2, <3>3, <4>1, Zenon DEF InStep, Sent
      <4>3. Writing'
        BY <2>2, <3>3, <4>2, Zenon DEF Writing
      <4>4. QED
        BY <3>3, <4>1, <4>3, Zenon DEF Transfers, Statuses
    <3>6. QED
      BY <3>4, <3>5, Zenon
  <2>6. QED
    BY <2>1, <2>4, <2>5, Zenon DEF Writing
<1>8. CASE Flush
  <2>1. /\ at = "flush" /\ at' = "flushing" /\ Flushing /\ status \in Statuses
        /\ SendCommand([io |-> regs.io, count |-> regs.count, cmd |-> "flush"])
        /\ UNCHANGED <<req, left, buf, result, media, mishaps>>
    BY <1>0, <1>8, Zenon DEF Transfers, Flush
  <2>2. Written' /\ Todo' = Todo
    BY <2>1, Zenon DEF Flushing, Written, Todo
  <2>3. CASE status \cap {BSY, DRQ} = {}
    <3>1. regs'.cmd = "flush" /\ status' = {BSY}
      <4>1. regs' = [io |-> regs.io, count |-> regs.count, cmd |-> "flush"] /\ status' = {BSY}
        BY <2>1, <2>3, Zenon DEF SendCommand
      <4>2. QED
        BY <4>1, SMT
    <3>2. Flushing'
      BY <2>1, <2>2, <3>1, Bits, Zenon DEF Flushing
    <3>3. QED
      BY <2>1, <3>1, <3>2, Zenon DEF Transfers, Statuses
  <2>4. CASE status \cap {BSY, DRQ} # {}
    <3>1. UNCHANGED <<regs, status, pos>>
      BY <2>1, <2>4, Zenon DEF SendCommand
    <3>2. Flushing'
      BY <2>1, <2>2, <3>1, Zenon DEF Flushing
    <3>3. QED
      BY <2>1, <3>1, <3>2, Zenon DEF Transfers
  <2>5. QED
    BY <2>3, <2>4, Zenon
<1>9. CASE Flushed
  <2>1. /\ at = "flushing" /\ at' = "idle" /\ Flushing /\ status \in Statuses /\ BSY \notin status
        /\ UNCHANGED <<req, left, buf, status, regs, pos, media, mishaps>>
    BY <1>0, <1>9, Zenon DEF Transfers, Flushed, Finish
  <2>2. Written' /\ Todo' = Todo
    BY <2>1, Zenon DEF Flushing, Written, Todo
  <2>3. status' \in {{}, {DF}, {ERR}}
    BY <2>1, Bits, Zenon DEF Flushing, Statuses
  <2>4. QED
    BY <2>1, <2>2, <2>3, Zenon DEF Transfers, Flushing, Waits
<1>10. CASE IdentifyFree
  <2>1. status \in {{}, {BSY}} /\ regs.cmd = "none" /\ req.op = "identify" /\ req' = req
    BY <1>0, <1>10, Zenon DEF Transfers, IdentifyFree
  <2>2. \/ at' = "answer?" /\ status' \in {{}, {BSY}}
        \/ at' = "free?" /\ status' = status /\ regs' = regs
        \/ at' = "absent" /\ status' = status
    BY <1>10, <2>1, Zenon DEF IdentifyFree, NoDrive, SendCommand
  <2>3. QED
    BY <2>1, <2>2, Zenon DEF Transfers, Statuses
<1>11. CASE IdentifyAnswer
  <2>1. DRQ \in status => status = {DRQ}
    BY <1>0, Bits, Zenon DEF Transfers, Statuses
  <2>2. QED
    BY <1>0, <1>11, <2>1, Zenon DEF Transfers, IdentifyAnswer, NoDrive
<1>12. CASE IdentifyData
  <2>1. /\ at = "id data" /\ req' = req /\ req.op = "identify" /\ status' \in {{}, {ERR}}
        /\ at' \in {"idle", "absent"}
    BY <1>0, <1>12, Zenon DEF Transfers, IdentifyData, Finish, NoDrive
  <2>2. QED
    BY <2>1, Zenon DEF Transfers, Waits, Statuses
<1>13. CASE Drive
  BY <1>0, <1>13, DriveStep, Zenon
<1>14. CASE UNCHANGED ataVars
  <2>1. /\ at' = at /\ req' = req /\ left' = left /\ buf' = buf /\ result' = result
        /\ status' = status /\ regs' = regs /\ pos' = pos /\ media' = media /\ mishaps' = mishaps
    BY <1>14, Zenon DEF ataVars
  <2>2. Todo' = Todo /\ (Waits => Waits')
    BY <2>1, Zenon DEF Todo, Waits
  <2>3. (Sent("read") => Sent("read")') /\ (Sent("write") => Sent("write")')
    BY <2>1, <2>2, Zenon DEF Sent
  <2>4. (InStep => InStep') /\ (GivenUp => GivenUp') /\ (Written => Written')
    BY <2>1, <2>2, Zenon DEF InStep, GivenUp, Written
  <2>5. Reading => Reading'
    BY <2>1, <2>2, <2>3, Zenon DEF Reading
  <2>6. (Writing => Writing') /\ (Flushing => Flushing')
    BY <2>1, <2>2, <2>3, <2>4, Zenon DEF Writing, Flushing
  <2>7. QED
    BY <1>0, <2>1, <2>2, <2>4, <2>5, <2>6, Zenon DEF Transfers
<1>15. QED
  BY <1>1, <1>2, <1>3, <1>4, <1>5, <1>6, <1>7, <1>8, <1>9, <1>10, <1>11, <1>12, <1>13, <1>14, Zenon
  DEF AtaNext, Driver

(* A read or write transfers the sectors asked for, each from or to its    *)
(* place (ata_access_sector), as many as the cut count says, and the data  *)
(* port is read only when the drive has data (ide_polling, ide_identify);  *)
(* whatever the drive does between any two reads of its status register,   *)
(* and with the exceptions that TransfersExact states.                     *)
THEOREM AtaTransfersExact == AtaSpec => []TransfersExact
<1>1. AtaInit => AtaIInv
  BY AtaInitially, Zenon
<1>2. AtaIInv /\ [AtaNext]_ataVars => AtaIInv'
  BY AtaStep, Zenon
<1>3. ASSUME AtaIInv PROVE TransfersExact
  <2> SUFFICES ASSUME Transfers PROVE ReadIsExact /\ ReadOnlyWhenAsked /\ WriteIsExact
    BY <1>3, Zenon DEF AtaIInv, TransfersExact
  <2>1. ReadIsExact
    <3> SUFFICES ASSUME at = "idle", req.op = "read" PROVE ReadIsExact
      BY Zenon DEF ReadIsExact
    <3>1. PICK n \in 0 .. Todo : buf = Run(req.lba, n)
      BY Zenon DEF Transfers
    <3>2. n \in Nat /\ req.lba \in Nat /\ (result = 0 <=> Len(buf) = Todo)
      BY DEF Transfers
    <3>3. Len(buf) = n
      BY <3>1, <3>2, RunGrows, Zenon
    <3>4. QED
      BY <3>1, <3>2, <3>3, Zenon DEF ReadIsExact, Todo
  <2>2. ReadOnlyWhenAsked
    BY Zenon DEF Transfers, ReadOnlyWhenAsked, Reading, Writing, Sent
  <2>3. WriteIsExact
    <3> SUFFICES ASSUME at = "idle", req.op = "write" PROVE WriteIsExact
      BY Zenon DEF WriteIsExact
    <3>1. Written /\ req.lba \in Nat /\ Todo \in Nat /\ status \in {{}, {DF}, {ERR}}
      BY Zenon DEF Transfers, Waits
    <3>2. PICK n \in 0 .. Todo : media = Run(req.lba, n) /\ ("fault" \notin mishaps => n = Todo)
      BY <3>1, Zenon DEF Written
    <3>3. n \in Nat /\ n =< Todo /\ BSY \notin status
      BY <3>1, Bits
    <3>4. Len(media) = n
      BY <3>1, <3>2, <3>3, RunGrows, Zenon
    <3>5. QED
      BY <3>2, <3>3, <3>4, Zenon DEF WriteIsExact, Todo
  <2>4. QED
    BY <2>1, <2>2, <2>3, Zenon
<1>4. QED
  BY <1>1, <1>2, <1>3, PTL DEF AtaSpec
-----------------------------------------------------------------------------
Regs  == [eip : Int, esp : Int, eax : Int]
Words == Int \cup {Min(P) : P \in SUBSET Sigs}
Act   == [base : Nat, ctx : Regs, used : Nat]
Addr  == 0 .. StackTop - 1
InKernel == [tf : Regs, stack : [Addr -> Words], pending : SUBSET Sigs, acts : Seq(Act), dead : BOOLEAN]

\* The registers as a main program may leave them
MainRegs == {m \in Regs : m.eip \in Main /\ m.esp \in 0 .. StackTop}

(* The frames on the stack st, for a main program that was left with the   *)
(* registers m: each is intact, below the words of the main program, and   *)
(* below the frames of the handlers it interrupted.                        *)
FramesOn(st, ac, m) ==
  /\ \A k \in 1 .. Len(ac) :
       /\ ac[k].base + SIGFRAME =< m.esp
       /\ st[ac[k].base + 2] = ac[k].ctx.eip
       /\ st[ac[k].base + 3] = ac[k].ctx.esp
       /\ st[ac[k].base + 4] = ac[k].ctx.eax
  /\ \A h, k \in 1 .. Len(ac) : h < k => ac[k].base + SIGFRAME =< ac[h].base + 1
  /\ \A a \in m.esp .. StackTop - 1 : st[a] = Own(a)

\* The registers with which handler h was left, the last one with tf
LeftWith(tf, ac, h) == IF h = Len(ac) THEN tf ELSE ac[h + 1].ctx

(* Handler h was left in its own code, with its locals on the stack and    *)
(* its return address behind them, or in the trampoline.                   *)
Handling(r, st, act) ==
  \/ r.eip = HANDLER /\ r.esp = act.base - act.used /\ st[act.base] = TRAMPOLINE
  \/ r.eip = TRAMPOLINE /\ r.esp = act.base + 1

(* The registers tf are those of the main program or of the last handler,  *)
(* and each handler interrupted the one before it, the first one the main  *)
(* program.                                                                *)
Context(tf, st, ac, m) ==
  /\ ac = <<>> => tf = m
  /\ ac # <<>> => ac[1].ctx = m
  /\ \A h \in 1 .. Len(ac) : Handling(LeftWith(tf, ac, h), st, ac[h])

FrameSound(k, m) ==
  /\ k \in InKernel /\ m \in MainRegs
  /\ FramesOn(k.stack, k.acts, m)
  /\ ~k.dead => Context(k.tf, k.stack, k.acts, m)

SigIInv ==
  /\ u \in Regs /\ where \in {"user", "blocked", "dead"} /\ stack \in [Addr -> Words]
  /\ pending \in SUBSET Sigs /\ main \in MainRegs /\ acts \in Seq(Act)
  /\ FramesOn(stack, acts, main)
  /\ where # "dead" => Context(u, stack, acts, main)

USE DEF Main, HANDLER, TRAMPOLINE, SIGFRAME, ESP_ALIGN
-----------------------------------------------------------------------------
\* A new frame lies whole below the stack pointer
LEMMA NewEspBelow == ASSUME NEW e \in Int PROVE NewEsp(e) \in Int /\ NewEsp(e) + SIGFRAME =< e
  BY DEF NewEsp

\* The arithmetic of the frames: e is a stack pointer, b and c are bases
LEMMA Below ==
  ASSUME NEW e \in Int, NEW b \in Nat, NEW c \in Nat, e =< b + 1
  PROVE  b + SIGFRAME =< c + 1 => e =< c /\ e =< c + 1
  OBVIOUS

LEMMA Within ==
  ASSUME NEW e \in Int, NEW b \in Nat, NEW t \in Int, e =< b + 1, b + SIGFRAME =< t, t =< StackTop
  PROVE  \A w \in 2 .. 4 : b + w \in Addr /\ b + w >= e
  BY SigFrameAssumptions DEF Addr

\* Delivery of one signal keeps the frames and the chain of handlers
LEMMA DeliverySound ==
  ASSUME NEW k, NEW m, FrameSound(k, m) PROVE FrameSound(signal_call_curtask_handlers(k), m)
<1> DEFINE r    == signal_call_curtask_handlers(k)
           sig  == Min(k.pending)
           base == NewEsp(k.tf.esp)
           sf   == <<TRAMPOLINE, sig, k.tf.eip, k.tf.esp, k.tf.eax>>
           new  == [base |-> base, ctx |-> k.tf, used |-> 0]
           st   == [a \in Addr |-> IF a \in base .. base + SIGFRAME - 1
                                   THEN sf[a - base + 1] ELSE k.stack[a]]
           ac   == Append(k.acts, new)
           tf   == [eip |-> HANDLER, esp |-> base, eax |-> k.tf.eax]
<1>0. k \in InKernel /\ m \in MainRegs /\ FramesOn(k.stack, k.acts, m)
  BY Zenon DEF FrameSound
<1>1. CASE k.dead \/ k.pending = {}
  BY <1>1, Zenon DEF signal_call_curtask_handlers
<1>2. CASE ~(k.dead \/ k.pending = {}) /\ ~Mapped(base, SIGFRAME)
  <2>1. r = [k EXCEPT !.pending = @ \ {sig}, !.dead = TRUE]
    BY <1>2, Zenon DEF signal_call_curtask_handlers
  <2>2. SUFFICES FrameSound(r, m)
    BY Zenon
  <2> HIDE DEF r, sig
  <2>3. /\ r \in InKernel /\ r.dead = TRUE
        /\ r.stack = k.stack /\ r.acts = k.acts
    BY <2>1, <1>0, Zenon DEF InKernel
  <2> QED
    BY <2>3, <1>0, Zenon DEF FrameSound
<1>3. CASE ~(k.dead \/ k.pending = {}) /\ Mapped(base, SIGFRAME)
  <2>1. base \in Nat /\ base + SIGFRAME =< k.tf.esp /\ base + SIGFRAME =< StackTop
    BY <1>0, <1>3, NewEspBelow DEF Mapped, InKernel, Regs
  <2>2. r = [k EXCEPT !.pending = @ \ {sig}, !.stack = st, !.tf = tf, !.acts = ac]
    BY <1>0, <1>3, Zenon DEF signal_call_curtask_handlers, InKernel, Regs
  <2>3. /\ st[base] = TRAMPOLINE /\ st[base + 2] = k.tf.eip
        /\ st[base + 3] = k.tf.esp /\ st[base + 4] = k.tf.eax
    <3> HIDE DEF sf, base
    <3>1. \A w \in 0 .. 4 : base + w \in Addr /\ base + w \in base .. base + SIGFRAME - 1
      BY <2>1, <1>0, SigFrameAssumptions DEF Addr, InKernel, Regs
    <3>2. \A w \in 0 .. 4 : st[base + w] = sf[(base + w) - base + 1]
      BY <3>1, Zenon
    <3>3. st[base + 0] = sf[1] /\ st[base + 2] = sf[3] /\ st[base + 3] = sf[4] /\ st[base + 4] = sf[5]
      BY <3>2, <2>1
    <3>4. base + 0 = base
      BY <2>1
    <3> QED
      BY <3>3, <3>4, Zenon DEF sf
  <2>4. \A a \in Addr : a >= k.tf.esp => st[a] = k.stack[a]
    BY <2>1, <1>0, SMTT(30) DEF Addr, InKernel, Regs
  <2>5. st \in [Addr -> Words]
    <3>1. sig \in Words
      BY <1>0, Zenon DEF Words, InKernel
    <3>2. \A w \in 1 .. 5 : sf[w] \in Words
      BY <3>1, <1>0 DEF Words, InKernel, Regs
    <3> HIDE DEF sf, base
    <3> QED
      BY <3>2, <2>1, <1>0, SigFrameAssumptions, SMTT(30) DEF InKernel, Addr
  <2>6. tf \in Regs /\ tf.eip = HANDLER /\ tf.esp = base
    <3> HIDE DEF base
    <3>1. k.tf \in Regs /\ base \in Int
      BY <2>1, <1>0 DEF InKernel
    <3> QED
      BY <3>1 DEF Regs
  <2>7. new \in Act /\ new.base = base /\ new.ctx = k.tf /\ new.used = 0
    BY <2>1, <1>0, Zenon DEF InKernel, Act
  <2> HIDE DEF r, sig, base, sf, new, st, tf
  <2>8. /\ ac \in Seq(Act) /\ ac # <<>> /\ Len(ac) = Len(k.acts) + 1 /\ ac[Len(ac)] = new
        /\ Len(k.acts) \in Nat /\ k.acts \in Seq(Act)
        /\ \A h \in 1 .. Len(k.acts) : ac[h] = k.acts[h]
    BY <2>7, <1>0 DEF InKernel
  <2> HIDE DEF ac
  <2>9. r \in InKernel /\ r.stack = st /\ r.acts = ac /\ r.tf = tf /\ r.dead = k.dead
    BY <2>2, <2>5, <2>6, <2>8, <1>0, Zenon DEF InKernel
  <2>10. Context(k.tf, k.stack, k.acts, m)
    BY <1>3, Zenon DEF FrameSound
  <2>a. \A h \in 1 .. Len(k.acts) : k.acts[h] \in Act
    BY <2>8
  <2>b. k.tf.esp \in Int /\ m.esp \in Int /\ m.esp =< StackTop /\ StackTop \in Int
    BY <1>0, SigFrameAssumptions DEF InKernel, Regs, MainRegs
  <2>11. /\ \A h \in 1 .. Len(k.acts) : k.tf.esp =< k.acts[h].base + 1
         /\ k.tf.esp =< m.esp
    <3>1. CASE k.acts = <<>>
      BY <3>1, <2>10, <1>0 DEF Context, MainRegs, Regs
    <3>2. CASE k.acts # <<>>
      <4>1. Len(k.acts) \in 1 .. Len(k.acts) /\ k.acts[Len(k.acts)] \in Act
        BY <3>2, <2>8
      <4>2. k.tf.esp =< k.acts[Len(k.acts)].base + 1
        <5>1. Handling(k.tf, k.stack, k.acts[Len(k.acts)])
          BY <4>1, <2>10, Zenon DEF Context, LeftWith
        <5>2. k.acts[Len(k.acts)].base \in Nat /\ k.acts[Len(k.acts)].used \in Nat
          BY <4>1, Zenon DEF Act
        <5> QED
          BY <5>1, <5>2, SMTT(30) DEF Handling
      <4>3. ASSUME NEW h \in 1 .. Len(k.acts) PROVE k.tf.esp =< k.acts[h].base + 1
        <5>1. k.acts[h].base \in Nat /\ k.acts[Len(k.acts)].base \in Nat
          BY <4>1, <2>a, Zenon DEF Act
        <5>2. h # Len(k.acts) => k.acts[Len(k.acts)].base + SIGFRAME =< k.acts[h].base + 1
          <6>1. h # Len(k.acts) => h < Len(k.acts)
            BY <2>8
          <6> QED
            BY <6>1, <4>1, <1>0, Zenon DEF FramesOn
        <5> QED
          BY <5>1, <5>2, <4>2, <2>b, Below, Zenon
      <4>4. k.tf.esp =< m.esp
        <5>1. k.acts[Len(k.acts)].base + SIGFRAME =< m.esp /\ k.acts[Len(k.acts)].base \in Nat
          BY <4>1, <1>0, Zenon DEF FramesOn, Act
        <5> QED
          BY <5>1, <4>2, <2>b, SMTT(30)
      <4> QED
        BY <4>3, <4>4, Zenon
    <3> QED
      BY <3>1, <3>2, Zenon
  <2>12. FramesOn(st, ac, m)
    <3>1. ASSUME NEW h \in 1 .. Len(ac)
          PROVE  /\ ac[h].base + SIGFRAME =< m.esp
                 /\ st[ac[h].base + 2] = ac[h].ctx.eip
                 /\ st[ac[h].base + 3] = ac[h].ctx.esp
                 /\ st[ac[h].base + 4] = ac[h].ctx.eax
      <4>1. CASE h = Len(ac)
        <5>1. ac[h] = new /\ ac[h].base = base /\ ac[h].ctx = k.tf
          BY <4>1, <2>7, <2>8, Zenon
        <5>2. base + SIGFRAME =< m.esp
          BY <2>1, <2>11, <2>b, SMTT(30)
        <5> QED
          BY <5>1, <5>2, <2>3, Zenon
      <4>2. CASE h # Len(ac)
        <5>1. h \in 1 .. Len(k.acts) /\ ac[h] = k.acts[h] /\ ac[h] \in Act
          BY <4>2, <2>8, <2>a, SMTT(30)
        <5>2. /\ ac[h].base + SIGFRAME =< m.esp /\ ac[h].base \in Nat
              /\ k.stack[ac[h].base + 2] = ac[h].ctx.eip
              /\ k.stack[ac[h].base + 3] = ac[h].ctx.esp
              /\ k.stack[ac[h].base + 4] = ac[h].ctx.eax
          BY <5>1, <1>0, SMTT(30) DEF FramesOn, Act
        <5>3. \A w \in 2 .. 4 : ac[h].base + w \in Addr /\ ac[h].base + w >= k.tf.esp
          <6>1. k.tf.esp =< ac[h].base + 1
            BY <5>1, <2>11, Zenon
          <6> QED
            BY <6>1, <5>2, <2>b, Within, Zenon
        <5> QED
          BY <5>2, <5>3, <2>4, SMTT(30)
      <4> QED
        BY <4>1, <4>2, Zenon
    <3>2. ASSUME NEW w \in 1 .. Len(ac), NEW h \in 1 .. Len(ac), w < h
          PROVE  ac[h].base + SIGFRAME =< ac[w].base + 1
      <4>1. w \in 1 .. Len(k.acts) /\ ac[w] = k.acts[w] /\ k.acts[w].base \in Nat
        <5>1. w \in 1 .. Len(k.acts)
          BY <3>2, <2>8
        <5> QED
          BY <5>1, <2>8, <2>a, Zenon DEF Act
      <4>2. CASE h = Len(ac)
        <5>1. ac[h].base = base /\ k.tf.esp =< ac[w].base + 1
          BY <4>1, <4>2, <2>7, <2>8, <2>11, Zenon
        <5> QED
          BY <5>1, <4>1, <2>1, <2>b, SMTT(30)
      <4>3. CASE h # Len(ac)
        <5>1. h \in 1 .. Len(k.acts)
          BY <4>3, <2>8
        <5>2. ac[h] = k.acts[h]
          BY <5>1, <2>8, Zenon
        <5> QED
          BY <5>1, <5>2, <3>2, <4>1, <1>0, Zenon DEF FramesOn
      <4> QED
        BY <4>2, <4>3, Zenon
    <3>3. \A a \in m.esp .. StackTop - 1 : st[a] = Own(a)
      <4>1. \A a \in m.esp .. StackTop - 1 : a \in Addr /\ a >= k.tf.esp
        BY <2>11, <2>b, <1>0 DEF Addr, MainRegs
      <4> QED
        BY <4>1, <2>4, <1>0, Zenon DEF FramesOn
    <3> QED
      BY <3>1, <3>2, <3>3, Zenon DEF FramesOn
  <2>13. Context(tf, st, ac, m)
    <3>1. ac[1].ctx = m
      <4>1. CASE k.acts = <<>>
        BY <4>1, <2>7, <2>8, <2>10 DEF Context
      <4>2. CASE k.acts # <<>>
        BY <4>2, <2>8, <2>10 DEF Context
      <4> QED
        BY <4>1, <4>2, Zenon
    <3>2. ASSUME NEW h \in 1 .. Len(ac) PROVE Handling(LeftWith(tf, ac, h), st, ac[h])
      <4>1. CASE h = Len(ac)
        BY <4>1, <2>1, <2>3, <2>6, <2>7, <2>8, SMTT(30) DEF LeftWith, Handling
      <4>2. CASE h # Len(ac)
        <5>1. h \in 1 .. Len(k.acts) /\ ac[h] = k.acts[h] /\ k.acts[h] \in Act
          BY <4>2, <2>8, <2>a
        <5>2. LeftWith(tf, ac, h) = LeftWith(k.tf, k.acts, h)
          BY <4>2, <5>1, <2>7, <2>8, SMTT(30) DEF LeftWith
        <5>3. Handling(LeftWith(k.tf, k.acts, h), k.stack, k.acts[h])
          BY <5>1, <2>10, Zenon DEF Context
        <5>4. LeftWith(k.tf, k.acts, h).eip = HANDLER => st[ac[h].base] = k.stack[ac[h].base]
          <6>1. ac[h].base \in Addr /\ ac[h].base \in Nat /\ ac[h].used \in Nat
            BY <5>1, <2>b, <1>0, SMTT(30) DEF FramesOn, Act, Addr
          <6>2. CASE h = Len(k.acts)
            BY <6>1, <6>2, <5>1, <5>3, <2>4, <2>b, SMTT(30) DEF LeftWith, Handling
          <6>3. CASE h # Len(k.acts)
            <7>1. Len(k.acts) \in 1 .. Len(k.acts) /\ h < Len(k.acts)
              BY <5>1, <6>3, <2>8
            <7>2. k.acts[Len(k.acts)].base + SIGFRAME =< k.acts[h].base + 1
              BY <7>1, <5>1, <1>0, Zenon DEF FramesOn
            <7>3. k.acts[Len(k.acts)].base \in Nat /\ k.tf.esp =< k.acts[Len(k.acts)].base + 1
              BY <7>1, <2>11, <2>a, Zenon DEF Act
            <7> QED
              <8>1. ac[h].base >= k.tf.esp
                BY <7>2, <7>3, <6>1, <5>1, <2>b, Below, Zenon
              <8> QED
                BY <8>1, <6>1, <2>4, Zenon
          <6> QED
            BY <6>2, <6>3, Zenon
        <5> QED
          BY <5>1, <5>2, <5>3, <5>4, Zenon DEF Handling
      <4> QED
        BY <4>1, <4>2, Zenon
    <3> QED
      BY <3>1, <3>2, <2>8, Zenon DEF Context
  <2>14. FrameSound(r, m)
    BY <2>9, <2>12, <2>13, <1>0, Zenon DEF FrameSound
  <2> QED
    BY <2>14, Zenon DEF r
<1> QED
  BY <1>1, <1>2, <1>3, Zenon
-----------------------------------------------------------------------------
\* The registers are typed as records of three fields
LEMMA RegsRecord ==
  ASSUME NEW r \in Regs PROVE r = [eip |-> r.eip, esp |-> r.esp, eax |-> r.eax]
  BY Zenon DEF Regs

\* sigreturn goes back to what the last handler interrupted
LEMMA SigreturnSound ==
  ASSUME NEW k, NEW m, FrameSound(k, m), ~k.dead, k.tf.eip = TRAMPOLINE PROVE FrameSound(sigreturn(k), m)
<1> DEFINE n  == Len(k.acts)
           b  == k.tf.esp - 1
           tf == [eip |-> k.stack[b + 2], esp |-> k.stack[b + 3], eax |-> k.stack[b + 4]]
           ac == SubSeq(k.acts, 1, n - 1)
           r  == sigreturn(k)
<1>0. /\ k \in InKernel /\ m \in MainRegs /\ FramesOn(k.stack, k.acts, m)
      /\ Context(k.tf, k.stack, k.acts, m)
  BY Zenon DEF FrameSound
<1>1. k.acts \in Seq(Act) /\ n \in Nat /\ k.tf \in Regs
  BY <1>0 DEF InKernel
<1>2. k.acts # <<>> /\ n \in 1 .. n
  <2>1. k.acts # <<>>
    <3>1. m.eip \in Main
      BY <1>0, Zenon DEF MainRegs
    <3>2. k.tf # m
      BY <3>1
    <3> QED
      BY <3>2, <1>0, Zenon DEF Context
  <2> QED
    BY <2>1, <1>1
<1>3. k.acts[n] \in Act /\ k.acts[n].base \in Nat /\ k.acts[n].ctx \in Regs
  <2>1. k.acts[n] \in Act
    BY <1>1, <1>2
  <2> QED
    BY <2>1, Zenon DEF Act
<1>4. b = k.acts[n].base
  <2>1. Handling(k.tf, k.stack, k.acts[n])
    BY <1>0, <1>2, Zenon DEF Context, LeftWith
  <2>2. k.tf.esp = k.acts[n].base + 1
    BY <2>1 DEF Handling
  <2> QED
    BY <2>2, <1>3
<1>5. tf = k.acts[n].ctx /\ tf \in Regs
  <2>1. /\ k.stack[b + 2] = k.acts[n].ctx.eip /\ k.stack[b + 3] = k.acts[n].ctx.esp
        /\ k.stack[b + 4] = k.acts[n].ctx.eax
    BY <1>0, <1>2, <1>4, SMTT(30) DEF FramesOn
  <2> QED
    BY <2>1, <1>3, RegsRecord, Zenon
<1>6. /\ ac \in Seq(Act) /\ Len(ac) = n - 1
      /\ \A h \in 1 .. n - 1 : ac[h] = k.acts[h]
  <2>1. \A h \in 1 .. n - 1 : k.acts[h] \in Act
    BY <1>1
  <2>2. /\ ac \in Seq(Act) /\ Len(ac) = IF 1 =< n - 1 THEN (n - 1) - 1 + 1 ELSE 0
        /\ \A h \in 1 .. (n - 1) - 1 + 1 : ac[h] = k.acts[1 + h - 1]
    BY <2>1, <1>1, SubSeqProperties
  <2> QED
    BY <2>2, <1>2
<1>7. CASE ~Mapped(b + 2, SIGFRAME - 2)
  <2>1. r = [k EXCEPT !.dead = TRUE]
    BY <1>7, Zenon DEF sigreturn
  <2>2. r \in InKernel /\ r.dead = TRUE /\ r.stack = k.stack /\ r.acts = k.acts
    BY <2>1, <1>0, Zenon DEF InKernel
  <2> QED
    BY <2>2, <1>0, Zenon DEF FrameSound
<1>8. CASE Mapped(b + 2, SIGFRAME - 2)
  <2>1. r = [k EXCEPT !.tf = tf, !.acts = ac]
    BY <1>8, Zenon DEF sigreturn
  <2> HIDE DEF r, tf, ac
  <2>2. r \in InKernel /\ r.stack = k.stack /\ r.acts = ac /\ r.tf = tf
    BY <2>1, <1>0, <1>5, <1>6, Zenon DEF InKernel
  <2>3. \A h \in 1 .. Len(ac) : h \in 1 .. n /\ ac[h] = k.acts[h]
    BY <1>1, <1>6
  <2>4. FramesOn(k.stack, ac, m)
    BY <2>3, <1>0, Zenon DEF FramesOn
  <2>5. Context(tf, k.stack, ac, m)
    <3>1. ac = <<>> => tf = m
      <4>1. ac = <<>> => n = 1
        BY <1>6, <1>1
      <4> QED
        BY <4>1, <1>0, <1>2, <1>5, Zenon DEF Context
    <3>2. ac # <<>> => ac[1].ctx = m
      <4>1. ac # <<>> => 1 \in 1 .. Len(ac)
        BY <1>6
      <4> QED
        BY <4>1, <2>3, <1>0, <1>2, Zenon DEF Context
    <3>3. ASSUME NEW h \in 1 .. Len(ac) PROVE Handling(LeftWith(tf, ac, h), k.stack, ac[h])
      <4>1. h \in 1 .. n /\ h # n /\ (h # Len(ac) => h + 1 \in 1 .. Len(ac)) /\ (h = Len(ac) => h + 1 = n)
        BY <1>1, <1>6
      <4>2. LeftWith(tf, ac, h) = LeftWith(k.tf, k.acts, h)
        BY <4>1, <2>3, <1>5, Zenon DEF LeftWith
      <4> QED
        BY <4>1, <4>2, <2>3, <1>0, Zenon DEF Context
    <3> QED
      BY <3>1, <3>2, <3>3, Zenon DEF Context
  <2>6. FrameSound(r, m)
    BY <2>2, <2>4, <2>5, <1>0, Zenon DEF FrameSound
  <2> QED
    BY <2>6, Zenon DEF r
<1> QED
  BY <1>7, <1>8, Zenon
-----------------------------------------------------------------------------
\* From the state in user mode into the kernel, and back
LEMMA EntrySound ==
  ASSUME NEW tf \in Regs, NEW m \in MainRegs, SigIInv, FramesOn(stack, acts, m), Context(tf, stack, acts, m)
  PROVE  /\ FrameSound(Kernel(tf), m) /\ Kernel(tf).tf = tf /\ ~Kernel(tf).dead
         /\ Kernel(tf).acts = acts /\ Kernel(tf).pending = pending /\ Kernel(tf).stack = stack
  BY Zenon DEF FrameSound, Kernel, SigIInv, InKernel

LEMMA ExitSound ==
  ASSUME NEW k, SigIInv, FrameSound(k, main'), interrupt_exit(k) PROVE SigIInv'
<1> DEFINE r == signal_call_curtask_handlers(k)
<1>1. FrameSound(r, main')
  BY DeliverySound, Zenon
<1>2. /\ stack' = r.stack /\ pending' = r.pending /\ acts' = r.acts
      /\ where' = (IF r.dead THEN "dead" ELSE "user") /\ u' = (IF r.dead THEN u ELSE r.tf)
  BY Zenon DEF interrupt_exit
<1> HIDE DEF r
<1> QED
  BY <1>1, <1>2, Zenon DEF FrameSound, InKernel, SigIInv

\* In the main program there is no handler left, and it has its registers
LEMMA MainAlone == ASSUME SigIInv, InMain PROVE acts = <<>> /\ u = main
<1>1. acts = <<>>
  <2>1. SUFFICES ASSUME acts # <<>> PROVE FALSE
    BY Zenon
  <2>2. Len(acts) \in 1 .. Len(acts)
    BY <2>1 DEF SigIInv
  <2>3. Handling(u, stack, acts[Len(acts)])
    BY <2>2, Zenon DEF SigIInv, Context, LeftWith, InMain
  <2> QED
    BY <2>3 DEF Handling, InMain
<1> QED
  BY <1>1, Zenon DEF SigIInv, Context, InMain

\* Elsewhere the last handler has the processor
LEMMA LastHandler ==
  ASSUME SigIInv, where = "user", u.eip \notin Main
  PROVE  /\ acts # <<>> /\ Len(acts) \in 1 .. Len(acts) /\ acts[Len(acts)] \in Act
         /\ Handling(u, stack, acts[Len(acts)])
<1>1. acts # <<>>
  BY Zenon DEF SigIInv, Context, MainRegs
<1>2. Len(acts) \in 1 .. Len(acts) /\ acts[Len(acts)] \in Act
  BY <1>1 DEF SigIInv
<1> QED
  BY <1>1, <1>2, Zenon DEF SigIInv, Context, LeftWith
-----------------------------------------------------------------------------
LEMMA SigInitIInv == SigInit => SigIInv
  BY SigFrameAssumptions
  DEF SigInit, SigIInv, Regs, MainRegs, Words, Addr, Act, FramesOn, Context

\* Entries into the kernel
LEMMA InterruptIInv == ASSUME SigIInv, Interrupt \/ Tick PROVE SigIInv'
<1>1. FrameSound(Kernel(u), main)
  BY EntrySound, Zenon DEF SigIInv, Interrupt, Tick
<1>2. FrameSound(signal_call_curtask_handlers(Kernel(u)), main)
  BY <1>1, DeliverySound, Zenon
<1> QED
  BY <1>1, <1>2, ExitSound, Zenon DEF Interrupt, Tick

LEMMA SyscallIInv == ASSUME SigIInv, Syscall PROVE SigIInv'
<1> DEFINE tf == [u EXCEPT !.eax = RES]
<1>1. acts = <<>> /\ u = main
  BY MainAlone, Zenon DEF Syscall
<1>2. tf \in MainRegs /\ tf \in Regs /\ tf.esp = main.esp
  BY <1>1 DEF SigIInv, MainRegs, Regs, RES
<1>3. main' = tf /\ interrupt_exit(Kernel(tf))
  BY Zenon DEF Syscall
<1> HIDE DEF tf
<1>4. FramesOn(stack, acts, tf) /\ Context(tf, stack, acts, tf)
  BY <1>1, <1>2 DEF SigIInv, FramesOn, Context
<1>5. FrameSound(Kernel(tf), main')
  BY <1>2, <1>3, <1>4, EntrySound, Zenon
<1> QED
  BY <1>3, <1>5, ExitSound, Zenon

LEMMA BlockIInv == ASSUME SigIInv, Block PROVE SigIInv'
<1> DEFINE tf == [u EXCEPT !.eax = NR]
<1>1. acts = <<>> /\ u = main
  BY MainAlone, Zenon DEF Block
<1>2. tf \in MainRegs /\ tf \in Regs /\ tf.esp = main.esp
  BY <1>1 DEF SigIInv, MainRegs, Regs, NR
<1>3. u' = tf /\ main' = tf /\ where' = "blocked" /\ UNCHANGED <<stack, pending, acts>>
  BY Zenon DEF Block
<1> HIDE DEF tf
<1>4. FramesOn(stack, acts, tf) /\ Context(tf, stack, acts, tf)
  BY <1>1, <1>2 DEF SigIInv, FramesOn, Context
<1> QED
  BY <1>2, <1>3, <1>4, Zenon DEF SigIInv

\* A delivery that does not kill leaves a handler to run
LEMMA DeliveryActs ==
  ASSUME NEW k, NEW m, FrameSound(k, m), k.pending # {}, ~k.dead
  PROVE  LET r == signal_call_curtask_handlers(k) IN r.dead \/ r.acts # <<>>
<1> DEFINE base == NewEsp(k.tf.esp)
           new  == [base |-> base, ctx |-> k.tf, used |-> 0]
           r    == signal_call_curtask_handlers(k)
<1>0. k \in InKernel
  BY Zenon DEF FrameSound
<1>1. CASE ~Mapped(base, SIGFRAME)
  <2>1. r = [k EXCEPT !.pending = @ \ {Min(k.pending)}, !.dead = TRUE]
    BY <1>1, Zenon DEF signal_call_curtask_handlers
  <2> HIDE DEF r
  <2>2. r.dead
    BY <2>1, <1>0, Zenon DEF InKernel
  <2> QED
    BY <2>2, Zenon DEF r
<1>2. CASE Mapped(base, SIGFRAME)
  <2>1. r.acts = Append(k.acts, new)
    BY <1>0, <1>2, Zenon DEF signal_call_curtask_handlers, InKernel
  <2>2. Append(k.acts, new) # <<>>
    BY <1>0 DEF InKernel
  <2> QED
    BY <2>1, <2>2, Zenon
<1> QED
  BY <1>1, <1>2, Zenon

(* The result of a call that was blocked goes to the main program, or to   *)
(* the handler that was put before it.                                     *)
LEMMA WakeUpIInv == ASSUME SigIInv, WakeUp PROVE SigIInv'
<1> DEFINE k == signal_call_curtask_handlers(Kernel(u))
           h == [k EXCEPT !.tf.eax = RES]
<1>1. /\ u \in Regs /\ main \in MainRegs /\ FramesOn(stack, acts, main) /\ Context(u, stack, acts, main)
      /\ acts \in Seq(Act)
  BY Zenon DEF SigIInv, WakeUp
<1>2. /\ FrameSound(Kernel(u), main) /\ Kernel(u).tf = u /\ ~Kernel(u).dead /\ Kernel(u).acts = acts
      /\ Kernel(u).pending = pending /\ Kernel(u).stack = stack
  BY <1>1, EntrySound, Zenon
<1>3. FrameSound(k, main)
  BY <1>2, DeliverySound, Zenon
<1>4. /\ h \in InKernel /\ h.stack = k.stack /\ h.acts = k.acts /\ h.dead = k.dead
      /\ h.tf = [k.tf EXCEPT !.eax = RES] /\ h.tf.eip = k.tf.eip /\ h.tf.esp = k.tf.esp
  <2> HIDE DEF k
  <2>1. k \in InKernel /\ k.tf \in Regs
    BY <1>3, Zenon DEF FrameSound, InKernel
  <2>2. [k.tf EXCEPT !.eax = RES] \in Regs
    BY <2>1 DEF Regs, RES
  <2>3. h = [k EXCEPT !.tf = [k.tf EXCEPT !.eax = RES]]
    BY <2>1, Zenon DEF InKernel
  <2> QED
    BY <2>1, <2>2, <2>3, Zenon DEF InKernel, Regs
<1>5. interrupt_exit(h) /\ main' = IF pending = {} /\ acts = <<>> THEN [main EXCEPT !.eax = RES] ELSE main
  BY Zenon DEF WakeUp
<1>6. pending = {} => k = Kernel(u)
  BY <1>2, Zenon DEF signal_call_curtask_handlers
<1>7. CASE pending = {} /\ acts = <<>>
  <2>1. k.tf = main /\ k.acts = <<>> /\ k.stack = stack
    BY <1>1, <1>2, <1>6, <1>7, Zenon DEF Context
  <2> HIDE DEF k, h
  <2>2. main' = h.tf
    BY <1>4, <1>5, <1>7, <2>1, Zenon
  <2>3. main' \in MainRegs /\ main'.esp = main.esp
    BY <1>1, <1>5, <1>7 DEF MainRegs, Regs, RES
  <2>4. FramesOn(h.stack, h.acts, main') /\ Context(h.tf, h.stack, h.acts, main')
    BY <1>1, <1>4, <1>7, <2>1, <2>2, <2>3, SMTT(30) DEF FramesOn, Context
  <2> QED
    BY <2>3, <2>4, <1>4, <1>5, ExitSound, Zenon DEF FrameSound
<1>8. CASE ~(pending = {} /\ acts = <<>>)
  <2>1. main' = main
    BY <1>5, <1>8, Zenon
  <2>2. k.dead \/ k.acts # <<>>
    BY <1>2, <1>6, <1>8, DeliveryActs, Zenon
  <2> HIDE DEF k, h
  <2>3. ~k.dead => Context(h.tf, h.stack, h.acts, main)
    BY <2>2, <1>3, <1>4, ZenonT(30) DEF FrameSound, Context, LeftWith, Handling
  <2>4. FrameSound(h, main)
    BY <2>3, <1>3, <1>4, Zenon DEF FrameSound
  <2> QED
    BY <2>1, <2>4, <1>5, ExitSound, Zenon
<1> QED
  BY <1>7, <1>8, Zenon

\* A call that parks again has taken a signal like any other entry
LEMMA WaitsAgainIInv == ASSUME SigIInv, WaitsAgain PROVE SigIInv'
<1> DEFINE k == signal_call_curtask_handlers(Kernel(u))
<1>1. FrameSound(k, main)
  <2>1. FrameSound(Kernel(u), main)
    BY EntrySound, Zenon DEF SigIInv, WaitsAgain
  <2> QED
    BY <2>1, DeliverySound, Zenon
<1>2. /\ stack' = k.stack /\ pending' = k.pending /\ acts' = k.acts /\ main' = main
      /\ where' = (IF k.dead THEN "dead" ELSE "blocked") /\ u' = (IF k.dead THEN u ELSE k.tf)
  BY Zenon DEF WaitsAgain
<1> HIDE DEF k
<1> QED
  BY <1>1, <1>2, Zenon DEF FrameSound, InKernel, SigIInv

LEMMA TrampolineIInv == ASSUME SigIInv, Trampoline PROVE SigIInv'
<1> DEFINE tf == [u EXCEPT !.eax = 119]
<1>1. tf \in Regs /\ tf.eip = TRAMPOLINE /\ tf.eip = u.eip /\ tf.esp = u.esp
  BY DEF SigIInv, Regs, Trampoline
<1>2. where = "user" /\ main' = main /\ interrupt_exit(sigreturn(Kernel(tf)))
  BY Zenon DEF Trampoline
<1>3. acts # <<>>
  BY <1>1, <1>2, LastHandler
<1> HIDE DEF tf
<1>4. Context(tf, stack, acts, main)
  BY <1>1, <1>2, <1>3, Zenon DEF SigIInv, Context, LeftWith, Handling
<1>5. FrameSound(Kernel(tf), main) /\ Kernel(tf).tf = tf /\ ~Kernel(tf).dead
  BY <1>1, <1>4, EntrySound, Zenon DEF SigIInv
<1>6. FrameSound(sigreturn(Kernel(tf)), main)
  BY <1>1, <1>5, SigreturnSound, Zenon
<1> QED
  BY <1>2, <1>6, ExitSound, Zenon

\* The main program: no handler is left, and its words are its own
LEMMA MainIInv == ASSUME SigIInv, MainComputes \/ MainPushes \/ MainPops PROVE SigIInv'
<1>1. acts = <<>> /\ u = main /\ where = "user" /\ where' = where /\ acts' = acts
  BY MainAlone, Zenon DEF MainComputes, MainPushes, MainPops, InMain
<1>2. u \in MainRegs /\ u \in Regs /\ main' = u' /\ pending' = pending
  BY <1>1, Zenon DEF SigIInv, MainRegs, MainComputes, MainPushes, MainPops
<1>3. u' \in MainRegs
  <2>1. CASE MainComputes
    <3>1. u.eip \in {1, 2} /\ u.esp \in 0 .. StackTop /\ u.esp \in Int
      BY <1>2, Zenon DEF MainRegs, Regs
    <3>2. u' = [eip |-> 3 - u.eip, esp |-> u.esp, eax |-> 0]
      BY <2>1, <1>2, Zenon DEF MainComputes, Regs
    <3>3. 3 - u.eip \in {1, 2}
      BY <3>1
    <3> QED
      BY <3>1, <3>2, <3>3 DEF MainRegs, Regs
  <2>2. CASE MainPushes
    BY <2>2, <1>2, SigFrameAssumptions DEF MainPushes, MainRegs, Regs
  <2>3. CASE MainPops
    BY <2>3, <1>2, SigFrameAssumptions DEF MainPops, MainRegs, Regs
  <2> QED
    BY <2>1, <2>2, <2>3, Zenon
<1>4. stack' \in [Addr -> Words] /\ \A a \in u'.esp .. StackTop - 1 : stack'[a] = Own(a)
  <2>0. stack \in [Addr -> Words] /\ \A a \in u.esp .. StackTop - 1 : stack[a] = Own(a)
    BY <1>1, Zenon DEF SigIInv, FramesOn
  <2>1. CASE MainComputes
    BY <2>0, <2>1, <1>2, Zenon DEF MainComputes, MainRegs, Regs
  <2>2. CASE MainPushes
    <3>1. /\ u.esp \in Int /\ u.esp - 1 \in Addr /\ u'.esp = u.esp - 1
          /\ stack' = [stack EXCEPT ![u.esp - 1] = Own(u.esp - 1)]
      BY <2>2, <1>2, SigFrameAssumptions DEF MainPushes, MainRegs, Regs, Addr
    <3>2. Own(u.esp - 1) \in Words
      BY <3>1 DEF Own, Words
    <3>3. \A a \in u'.esp .. StackTop - 1 : a \in Addr /\ (a = u.esp - 1 \/ a \in u.esp .. StackTop - 1)
      BY <3>1, SigFrameAssumptions DEF Addr
    <3> QED
      BY <3>1, <3>2, <3>3, <2>0, Zenon
  <2>3. CASE MainPops
    BY <2>0, <2>3, <1>2, SigFrameAssumptions, SMTT(30) DEF MainPops, MainRegs, Regs
  <2> QED
    BY <2>1, <2>2, <2>3, <1>1, Zenon DEF MainComputes, MainPushes, MainPops
<1>5. FramesOn(stack, acts, main)' /\ Context(u, stack, acts, main)'
  BY <1>1, <1>2, <1>4 DEF FramesOn, Context
<1> QED
  BY <1>1, <1>2, <1>3, <1>4, <1>5, Zenon DEF SigIInv, MainRegs

LEMMA HandlerReturnsIInv == ASSUME SigIInv, HandlerReturns PROVE SigIInv'
<1> DEFINE n == Len(acts)
<1>1. /\ acts # <<>> /\ n \in 1 .. n /\ acts[n] \in Act /\ Handling(u, stack, acts[n])
      /\ where = "user" /\ u.eip = HANDLER
  BY LastHandler DEF HandlerReturns, InHandler
<1>2. acts[n].base \in Nat /\ acts[n].used \in Nat /\ u.esp = acts[n].base - acts[n].used
  BY <1>1 DEF Act, Handling
<1>3. u.esp + acts[n].used = acts[n].base /\ stack[acts[n].base] = TRAMPOLINE
  BY <1>1, <1>2 DEF Handling
<1>4. u' = [eip |-> TRAMPOLINE, esp |-> acts[n].base + 1, eax |-> JUNK]
  BY <1>3, Zenon DEF HandlerReturns
<1>5. u' \in Regs /\ u'.eip = TRAMPOLINE /\ u'.esp = acts[n].base + 1
  BY <1>2, <1>4 DEF Regs, JUNK
<1>6. Context(u', stack, acts, main)
  <2>1. Handling(u', stack, acts[n])
    BY <1>5, Zenon DEF Handling
  <2>2. Context(u, stack, acts, main)
    BY <1>1, Zenon DEF SigIInv
  <2>3. \A h \in 1 .. n : h # n => LeftWith(u', acts, h) = LeftWith(u, acts, h)
    BY Zenon DEF LeftWith
  <2>4. LeftWith(u', acts, n) = u'
    BY Zenon DEF LeftWith
  <2> QED
    BY <2>1, <2>2, <2>3, <2>4, <1>1, Zenon DEF Context
<1> QED
  BY <1>1, <1>5, <1>6, Zenon DEF SigIInv, HandlerReturns

\* What a handler pushes lies below every frame
LEMMA HandlerPushesIInv == ASSUME SigIInv, HandlerPushes PROVE SigIInv'
<1> DEFINE n == Len(acts)
           a == u.esp - 1
<1>1. /\ acts # <<>> /\ n \in 1 .. n /\ acts[n] \in Act /\ Handling(u, stack, acts[n])
      /\ where = "user" /\ u.eip = HANDLER /\ u.esp > 0
  BY LastHandler DEF HandlerPushes, InHandler
<1>2. /\ acts[n].base \in Nat /\ acts[n].used \in Nat /\ u.esp = acts[n].base - acts[n].used
      /\ stack[acts[n].base] = TRAMPOLINE
  BY <1>1 DEF Act, Handling
<1>3. /\ u' = [u EXCEPT !.esp = @ - 1, !.eax = JUNK] /\ stack' = [stack EXCEPT ![a] = 0]
      /\ acts' = [acts EXCEPT ![n].used = @ + 1]
      /\ where' = where /\ pending' = pending /\ main' = main
  BY Zenon DEF HandlerPushes
<1>4. /\ u \in Regs /\ stack \in [Addr -> Words] /\ main \in MainRegs /\ acts \in Seq(Act)
      /\ FramesOn(stack, acts, main) /\ Context(u, stack, acts, main)
  BY <1>1, Zenon DEF SigIInv
<1>5. main.esp \in Int /\ main.esp =< StackTop /\ acts[n].base + SIGFRAME =< main.esp /\ StackTop \in Int
  BY <1>1, <1>4, SigFrameAssumptions DEF FramesOn, MainRegs
<1>6. a \in Addr /\ a < acts[n].base /\ a < main.esp
  <2>1. PICK b, d \in Nat : b = acts[n].base /\ d = acts[n].used
    BY <1>2, Zenon
  <2>2. a = (b - d) - 1 /\ b - d > 0 /\ b + SIGFRAME =< main.esp
    BY <1>1, <1>2, <1>5, <2>1, Zenon
  <2>3. a \in Nat /\ a < b /\ a < main.esp /\ a =< StackTop - 1
    BY <1>5, <2>2
  <2>4. QED
    BY <1>5, <2>1, <2>3 DEF Addr
<1>7. u' \in Regs /\ u'.eip = HANDLER /\ u'.esp = a
  <2>1. u.esp \in Int /\ u.eip \in Int
    BY <1>4, Zenon DEF Regs
  <2>2. u' = [eip |-> u.eip, esp |-> u.esp - 1, eax |-> JUNK]
    BY <1>3, <1>4, Zenon DEF Regs
  <2> QED
    BY <2>1, <2>2, <1>1 DEF Regs, JUNK
<1>8. /\ acts' \in Seq(Act) /\ Len(acts') = n
      /\ \A h \in 1 .. n : acts'[h].base = acts[h].base /\ acts'[h].ctx = acts[h].ctx
      /\ acts'[n].used = acts[n].used + 1
      /\ \A h \in 1 .. n : h # n => acts'[h] = acts[h]
  <2> DEFINE top == [acts[n] EXCEPT !.used = @ + 1]
  <2>1. top \in Act /\ top.base = acts[n].base /\ top.ctx = acts[n].ctx /\ top.used = acts[n].used + 1
    BY <1>1, <1>2 DEF Act
  <2>2. acts' = [acts EXCEPT ![n] = top]
    BY <1>3, Zenon
  <2> HIDE DEF top
  <2>3. acts' \in Seq(Act) /\ Len(acts') = n
    BY <2>1, <2>2, <1>1, <1>4
  <2>4. \A h \in 1 .. n : acts'[h] = IF h = n THEN top ELSE acts[h]
    BY <2>2, <1>4
  <2> QED
    BY <2>1, <2>3, <2>4, <1>1, Zenon
<1>9. stack' \in [Addr -> Words] /\ \A x \in Addr : x > a => stack'[x] = stack[x]
  <2>1. 0 \in Words
    BY DEF Words
  <2>2. a \in Int
    BY <1>6 DEF Addr
  <2> HIDE DEF a
  <2>3. \A x \in Addr : x > a => x # a
    BY <2>2 DEF Addr
  <2> QED
    BY <2>1, <2>3, <1>3, <1>4, Zenon
<1> HIDE DEF a
<1>10. \A h \in 1 .. n : /\ acts[h].base \in Nat /\ acts[h].base > a
                         /\ \A w \in 0 .. 4 : acts[h].base + w \in Addr /\ acts[h].base + w > a
  <2> SUFFICES ASSUME NEW h \in 1 .. n
               PROVE  /\ acts[h].base \in Nat /\ acts[h].base > a
                      /\ \A w \in 0 .. 4 : acts[h].base + w \in Addr /\ acts[h].base + w > a
    BY Zenon
  <2>1. acts[h] \in Act
    BY <1>4
  <2>2. acts[h].base \in Nat
    BY <2>1, Zenon DEF Act
  <2>3. acts[h].base + SIGFRAME =< main.esp
    BY <1>4, Zenon DEF FramesOn
  <2>4. h # n => acts[n].base + SIGFRAME =< acts[h].base + 1
    <3>1. h # n => h < n
      BY <1>1
    <3> QED
      BY <3>1, <1>1, <1>4, Zenon DEF FramesOn
  <2>5. acts[n].base =< acts[h].base
    BY <2>2, <2>4, <1>2
  <2>6. a \in Int /\ a < acts[h].base
    BY <2>2, <2>5, <1>2, <1>6 DEF Addr
  <2>7. ASSUME NEW w \in 0 .. 4 PROVE acts[h].base + w \in Addr /\ acts[h].base + w > a
    BY <2>2, <2>3, <2>6, <1>5, SMTT(30) DEF Addr
  <2> QED
    BY <2>2, <2>6, <2>7, Zenon
<1>11. FramesOn(stack', acts', main)
  <2>1. \A h \in 1 .. n :
          /\ acts'[h].base + SIGFRAME =< main.esp
          /\ stack'[acts'[h].base + 2] = acts'[h].ctx.eip
          /\ stack'[acts'[h].base + 3] = acts'[h].ctx.esp
          /\ stack'[acts'[h].base + 4] = acts'[h].ctx.eax
    <3>1. \A h \in 1 .. n : \A w \in 2 .. 4 : stack'[acts[h].base + w] = stack[acts[h].base + w]
      BY <1>9, <1>10, SMTT(30)
    <3> QED
      BY <3>1, <1>4, <1>8 DEF FramesOn
  <2>2. \A w, h \in 1 .. n : w < h => acts'[h].base + SIGFRAME =< acts'[w].base + 1
    BY <1>4, <1>8, Zenon DEF FramesOn
  <2>3. \A x \in main.esp .. StackTop - 1 : stack'[x] = Own(x)
    <3>1. \A x \in main.esp .. StackTop - 1 : x \in Addr /\ x > a
      BY <1>4, <1>5, <1>6 DEF MainRegs, Addr
    <3> QED
      BY <3>1, <1>4, <1>9, Zenon DEF FramesOn
  <2> QED
    BY <2>1, <2>2, <2>3, <1>8, Zenon DEF FramesOn
<1>12. Context(u', stack', acts', main)
  <2>1. acts' # <<>> /\ acts'[1].ctx = main
    BY <1>1, <1>4, <1>8 DEF Context
  <2>2. \A h \in 1 .. n : stack'[acts[h].base] = stack[acts[h].base]
    <3>1. \A h \in 1 .. n : acts[h].base + 0 = acts[h].base
      BY <1>10
    <3> QED
      BY <3>1, <1>9, <1>10
  <2>3. Handling(u', stack', acts'[n])
    <3>1. u'.esp = acts'[n].base - acts'[n].used
      BY <1>1, <1>2, <1>7, <1>8, SMTT(30) DEF a
    <3> QED
      BY <3>1, <2>2, <1>1, <1>2, <1>7, <1>8, Zenon DEF Handling
  <2>4. ASSUME NEW h \in 1 .. n, h # n PROVE Handling(LeftWith(u', acts', h), stack', acts'[h])
    <3>1. h + 1 \in 1 .. n
      BY <2>4, <1>1
    <3>2. LeftWith(u', acts', h) = LeftWith(u, acts, h)
      BY <3>1, <2>4, <1>8, Zenon DEF LeftWith
    <3>3. Handling(LeftWith(u, acts, h), stack, acts[h])
      BY <1>4, Zenon DEF Context
    <3> QED
      BY <3>2, <3>3, <2>2, <2>4, <1>8, Zenon DEF Handling
  <2>5. LeftWith(u', acts', n) = u'
    BY <1>8, Zenon DEF LeftWith
  <2> QED
    BY <2>1, <2>3, <2>4, <2>5, <1>8, Zenon DEF Context
<1> QED
  BY <1>1, <1>3, <1>4, <1>7, <1>8, <1>9, <1>11, <1>12, Zenon DEF SigIInv
-----------------------------------------------------------------------------
LEMMA SigNextIInv == SigIInv /\ [SigNext]_sigVars => SigIInv'
<1> SUFFICES ASSUME SigIInv, [SigNext]_sigVars PROVE SigIInv'
  BY Zenon
<1>1. ASSUME NEW s \in Sigs, Send(s) PROVE SigIInv'
  BY <1>1, Zenon DEF SigIInv, Send
<1>2. CASE UNCHANGED sigVars
  BY <1>2, Zenon DEF SigIInv, sigVars
<1> QED
  BY <1>1, <1>2, InterruptIInv, SyscallIInv, BlockIInv, WakeUpIInv, WaitsAgainIInv, TrampolineIInv, MainIInv,
     HandlerPushesIInv, HandlerReturnsIInv, Zenon DEF SigNext

\* The frames and the chain of handlers are always in order.
THEOREM SigInvariance == SigSpec => []SigIInv
  BY SigInitIInv, SigNextIInv, PTL DEF SigSpec

(* However signals and handlers nest, the main program always goes on with *)
(* the registers it had (signal.c:131-165, sigreturn.c:10-32).             *)
THEOREM HandlersTransparent == SigSpec => []Transparent
<1>1. SigIInv => Transparent
  BY MainAlone, Zenon DEF Transparent
<1> QED
  BY <1>1, SigInvariance, PTL

(* No frame and no local of a handler touches the stack of the main        *)
(* program (signal.c:149).                                                 *)
THEOREM MainStackKept == SigSpec => []StackKept
<1>1. SigIInv => StackKept
  BY Zenon DEF SigIInv, FramesOn, StackKept
<1> QED
  BY <1>1, SigInvariance, PTL

(* The frame of a handler stays intact until sigreturn reads it            *)
(* (signal.c:149-160).                                                     *)
THEOREM FramesKept == SigSpec => []FramesIntact
<1>1. SigIInv => FramesIntact
  <2> SUFFICES ASSUME SigIInv, NEW k \in 1 .. Len(acts)
               PROVE  /\ <<stack[acts[k].base + 2], stack[acts[k].base + 3], stack[acts[k].base + 4]>>
                           = <<acts[k].ctx.eip, acts[k].ctx.esp, acts[k].ctx.eax>>
                      /\ k < Len(acts) => acts[k + 1].base + SIGFRAME =< acts[k].base + 1
    BY Zenon DEF FramesIntact
  <2>1. FramesOn(stack, acts, main) /\ Len(acts) \in Nat
    BY DEF SigIInv
  <2>2. k < Len(acts) => k + 1 \in 1 .. Len(acts) /\ k < k + 1
    BY <2>1
  <2> QED
    BY <2>1, <2>2, Zenon DEF FramesOn
<1> QED
  BY <1>1, SigInvariance, PTL
=============================================================================
