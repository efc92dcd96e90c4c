------------------------------ MODULE RangeAlloc ------------------------------
(***************************************************************************)
(* What an allocator of address ranges promises: a request gets a range    *)
(* inside the arena that touches no range already given, and a range that  *)
(* is given back can be given again.  Nothing is said of how the free      *)
(* space is organised, nor of which range a request gets.                  *)
(***************************************************************************)
EXTENDS Naturals, FiniteSetsExt

CONSTANTS Arena   \* the addresses that may be given

VARIABLES taken   \* the ranges given and not yet given back, as sets of addresses

Init == taken = {}

\* The new range is a run of addresses that were not given
Take ==
  \E r \in taken' \ taken :
    /\ r # {} /\ r = Min(r) .. Max(r)
    /\ r \subseteq Arena /\ \A t \in taken : r \cap t = {}
    /\ taken' = taken \cup {r}

GiveBack == \E r \in taken : taken' = taken \ {r}

GiveAllBack == taken' = {}

Next == Take \/ GiveBack \/ GiveAllBack

Spec == Init /\ [][Next]_taken
=============================================================================
