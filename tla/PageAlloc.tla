------------------------------ MODULE PageAlloc ------------------------------
(***************************************************************************)
(* What the page allocator promises its clients: a request for n pages     *)
(* gets an aligned run of at least n pages that nobody else holds, of the  *)
(* smallest power of two, and a block that is given back is free again.    *)
(* Nothing is said of how free memory is organised.                        *)
(***************************************************************************)
EXTENDS Naturals, FiniteSets

CONSTANTS NPages,      \* the pages of the zone, from its base
          MaxOrder,    \* the largest block has 2^MaxOrder pages
          Requests     \* the sizes clients ask for, in pages

Page == 0 .. NPages - 1
Block(p, o) == p .. p + 2^o - 1

VARIABLES avail,   \* the pages nobody holds
          held     \* the blocks clients hold, as <<first page, order>>

\* The order of a block for n pages: the smallest that is large enough
Fits(n, o) == o \in 0 .. MaxOrder /\ n =< 2^o /\ \A k \in 0 .. o - 1 : 2^k < n

Run(p, o) == p % 2^o = 0 /\ Block(p, o) \subseteq avail

Init == avail \in SUBSET Page /\ held = {}

Alloc(n) ==
  \E o \in 0 .. MaxOrder, p \in Page :
    /\ Fits(n, o) /\ Run(p, o)
    /\ avail' = avail \ Block(p, o)
    /\ held' = held \cup {<<p, o>>}

Free(b) ==
  /\ avail' = avail \cup Block(b[1], b[2])
  /\ held' = held \ {b}

Next ==
  \/ \E n \in Requests : Alloc(n)
  \/ \E b \in held : Free(b)

Spec == Init /\ [][Next]_<<avail, held>>
=============================================================================
