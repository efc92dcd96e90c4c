-------------------------------- MODULE Lists --------------------------------
(***************************************************************************)
(* The kernel's intrusive doubly linked lists (include/list.h) as          *)
(* sequences without repetition: list_add_tail is Append, list_first_entry *)
(* is Head.  The module keeps to the small standard modules, because every *)
(* definition it brings along is in the context of each proof obligation   *)
(* of the modules that use lists.                                          *)
(***************************************************************************)
EXTENDS Integers, Sequences, Functions

list_add_head(e, s) == <<e>> \o s

\* list_insert of a new node between element i and the one before it
Before(s, i, e) == SubSeq(s, 1, i - 1) \o <<e>> \o SubSeq(s, i, Len(s))

Without(s, i) == SubSeq(s, 1, i - 1) \o SubSeq(s, i + 1, Len(s))

(* pop_node of an element.  The callers test list_node_is_linked first, or *)
(* the node is a fresh sentinel, linked to itself: nothing is then popped. *)
Unlink(s, e) ==
  IF e \in Range(s) THEN Without(s, CHOOSE i \in DOMAIN s : s[i] = e) ELSE s

\* What list_add_head makes of the elements of s, one after the other
Reversed(s) == [i \in 1 .. Len(s) |-> s[(Len(s) - i) + 1]]
=============================================================================
