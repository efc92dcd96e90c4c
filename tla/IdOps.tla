-------------------------------- MODULE IdOps --------------------------------
(***************************************************************************)
(* The identifier manager as pure operators (src/src/utils/id_manager.c)   *)
(* over the bitmap library (src/lib/data_structs/bitmap).  A bitmap is the *)
(* set of its set bits; a manager is the record [bits, next_free].  The    *)
(* operators take nb, the number of identifiers, so that both IdManager    *)
(* and Process can use them.  A name with an underscore and a capital      *)
(* after it (id_manager_alloc_NoSet) is a faulty variant of the operator   *)
(* it is named after, used only to confirm that a property detects it.     *)
(***************************************************************************)
EXTENDS Integers

(* bitmap_find_next_zero_from: the first clear bit from `from` on, or -1.  *)
(* BitmapSearch models the byte loop that computes it.                     *)
ZerosFrom(bits, nb, from) == {k \in from .. nb - 1 : k \notin bits}

FirstZeroFrom(bits, nb, from) ==
  LET Z == ZerosFrom(bits, nb, from)
  IN  IF Z = {} THEN -1 ELSE CHOOSE k \in Z : \A j \in Z : k =< j

\* bitmap_set, bitmap_unset: an index past the end is ignored
BitmapSet(bits, nb, id)   == IF id < nb THEN bits \cup {id} ELSE bits
BitmapUnset(bits, nb, id) == IF id < nb THEN bits \ {id} ELSE bits

(* The search both id_manager_alloc and id_manager_reserve_id make for the *)
(* next hint: upwards from the identifier just taken, then from the start. *)
NextHint(bits, nb, from) ==
  LET up == FirstZeroFrom(bits, nb, from)
  IN  IF up = -1 THEN FirstZeroFrom(bits, nb, 0) ELSE up

id_manager_create == [bits |-> {}, next_free |-> 0]

id_manager_alloc_NoSet(m, nb) ==
  [bits |-> m.bits, next_free |-> NextHint(m.bits, nb, m.next_free + 1)]

\* id_manager_alloc on a manager with a hint; the identifier is m.next_free
id_manager_alloc(m, nb) ==
  LET b == BitmapSet(m.bits, nb, m.next_free)
  IN  [bits |-> b, next_free |-> NextHint(b, nb, m.next_free + 1)]

id_manager_free_HintKept(m, nb, id) ==
  [bits      |-> BitmapUnset(m.bits, nb, id),
   next_free |-> IF m.next_free = -1 THEN id ELSE m.next_free]

id_manager_free(m, nb, id) ==
  [bits      |-> BitmapUnset(m.bits, nb, id),
   next_free |-> IF m.next_free = -1 \/ id < m.next_free THEN id ELSE m.next_free]

\* id_manager_reserve_id on an identifier in range whose bit is clear
id_manager_reserve_id(m, nb, id) ==
  LET b == BitmapSet(m.bits, nb, id)
  IN  [bits      |-> b,
       next_free |-> IF id = m.next_free THEN NextHint(b, nb, id + 1) ELSE m.next_free]
=============================================================================
