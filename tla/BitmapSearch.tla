---------------------------- MODULE BitmapSearch ----------------------------
(***************************************************************************)
(* The byte loop of bitmap_find_next_zero_from (lib/data_structs/bitmap/   *)
(* bitmap_find.c): whole bytes of ones are skipped, the first byte is      *)
(* entered at bit start % 8, and the padding bits of the last byte, which  *)
(* may hold anything, must not be returned.  IdOps!FirstZeroFrom is what   *)
(* it has to compute.                                                      *)
(***************************************************************************)
EXTENDS IdOps

CONSTANTS ByteBits,   \* bits of one byte: 8 in the code, fewer for TLC
          MaxBits     \* bound on nb_bits

ASSUME ByteBitsAssumption == ByteBits \in 1 .. 8
ASSUME MaxBitsAssumption  == MaxBits \in Nat

\* BITS_TO_BYTES
Bytes(n) == (n + (ByteBits - 1)) \div ByteBits

VARIABLES nb, data, start,   \* the arguments: nb_bits, data, bit_start
          pc, i, j, ret      \* the loops' state and the returned value
vars == <<nb, data, start, pc, i, j, ret>>

Init ==
  /\ nb \in 0 .. MaxBits
  /\ data \in SUBSET (0 .. Bytes(nb) * ByteBits - 1)
  /\ start \in 0 .. MaxBits + 1
  /\ pc = "enter" /\ i = 0 /\ j = 0 /\ ret = -1

Return(r) == pc' = "done" /\ ret' = r /\ UNCHANGED <<nb, data, start, i, j>>

FirstBit_EveryByte(k) == start % ByteBits

FirstBit(k) == IF k = start \div ByteBits THEN start % ByteBits ELSE 0

ByteFull(k) == \A b \in 0 .. ByteBits - 1 : k * ByteBits + b \in data

Reject == pc = "enter" /\ start >= nb /\ Return(-1)

Enter ==
  /\ pc = "enter" /\ start < nb
  /\ pc' = "byte" /\ i' = start \div ByteBits
  /\ UNCHANGED <<nb, data, start, j, ret>>

SkipByte ==
  /\ pc = "byte" /\ i < Bytes(nb) /\ ByteFull(i)
  /\ i' = i + 1
  /\ UNCHANGED <<nb, data, start, pc, j, ret>>

EnterByte ==
  /\ pc = "byte" /\ i < Bytes(nb) /\ ~ByteFull(i)
  /\ pc' = "bit" /\ j' = FirstBit(i)
  /\ UNCHANGED <<nb, data, start, i, ret>>

SkipBit ==
  /\ pc = "bit" /\ j < ByteBits /\ i * ByteBits + j \in data
  /\ j' = j + 1
  /\ UNCHANGED <<nb, data, start, pc, i, ret>>

FoundBit ==
  /\ pc = "bit" /\ j < ByteBits /\ i * ByteBits + j \notin data
  /\ Return(IF i * ByteBits + j >= nb THEN -1 ELSE i * ByteBits + j)

NextByte ==
  /\ pc = "bit" /\ j >= ByteBits
  /\ pc' = "byte" /\ i' = i + 1
  /\ UNCHANGED <<nb, data, start, j, ret>>

Exhausted == pc = "byte" /\ i >= Bytes(nb) /\ Return(-1)

Next ==
  \/ Reject \/ Enter \/ SkipByte \/ EnterByte
  \/ SkipBit \/ FoundBit \/ NextByte \/ Exhausted

Spec == Init /\ [][Next]_vars
-----------------------------------------------------------------------------
\* The loop indices stay inside the array and the byte while they are used.
TypeOK ==
  /\ nb \in 0 .. MaxBits /\ start \in 0 .. MaxBits + 1
  /\ data \in SUBSET (0 .. Bytes(nb) * ByteBits - 1)
  /\ pc \in {"enter", "byte", "bit", "done"}
  /\ i \in 0 .. Bytes(nb) /\ j \in 0 .. ByteBits
  /\ pc = "bit" => i < Bytes(nb)
  /\ ret \in -1 .. nb - 1

(* What the search returns is the first clear bit from bit_start on, and   *)
(* -1 when there is none: skipping full bytes, entering the first byte in  *)
(* the middle and the padding of the last byte never change the answer.    *)
ResultIsFirstZero == pc = "done" => ret = FirstZeroFrom(data, nb, start)
=============================================================================
