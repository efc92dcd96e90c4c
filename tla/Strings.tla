------------------------------- MODULE Strings -------------------------------
(***************************************************************************)
(* Calls of the routines of StringOps with all arguments from small sets,  *)
(* and what they must return.                                              *)
(***************************************************************************)
EXTENDS StringOps

CONSTANTS Lines,     \* the lines given to ft_split
          Words,     \* the other string arguments
          Blank,     \* the separator of ft_split
          Memory,    \* the contents of memory given to the bounded copies
          Behind     \* the bytes that may lie before the string of ft_strtrim

\* What the values of the constants must satisfy
StringsAssumptions ==
  /\ \A s \in Lines \cup Words : \A i \in DOMAIN s : s[i] # NUL
  /\ \A b \in Behind : b # <<>> /\ Head(b) = NUL

VARIABLES call,      \* the routine and its arguments
          out        \* its results, NoResult before

vars == <<call, out>>

NoResult == [done |-> FALSE]
-----------------------------------------------------------------------------
Offsets(m) == DOMAIN m

Init ==
  /\ out = NoResult
  /\ \/ \E s \in Lines, f \in SUBSET (0 .. 3) : call = [op |-> "split", s |-> s, fail |-> f]
     \/ \E s \in Words, c \in SUBSET {1, 2}, b \in Behind :
          call = [op |-> "trim", s |-> s, set |-> c, behind |-> b]
     \/ \E s \in Words, i, n \in 0 .. 4 : call = [op |-> "substr", s |-> s, start |-> i, len |-> n]
     \/ \E s, t \in Words, n \in 0 .. 4 : call = [op |-> "strnstr", s |-> s, seg |-> t, len |-> n]
     \/ \E m \in Memory : \E d, s, n \in Offsets(m) :
          /\ d + n \in Offsets(m) /\ s + n \in Offsets(m)
          /\ call = [op |-> "memmove", m |-> m, dst |-> d, src |-> s, n |-> n]
     \/ \E o \in {"strlcpy", "strlcat"}, m \in Memory, s \in Words : \E n \in Offsets(m) :
          call = [op |-> o, m |-> m, s |-> s, n |-> n]

(* tty_cli_handle_nl splits the line, counts the arguments and frees them. *)
(* `got` is the number of blocks allocated and `freed` of those given back.*)
Split ==
  /\ call.op = "split"
  /\ out' = LET t == ft_split(call.s, Blank, call.fail)
            IN  IF 0 \in call.fail
                THEN [done |-> TRUE, argv |-> <<>>, got |-> 0, freed |-> 0, used |-> 0, size |-> 0]
                ELSE [done  |-> TRUE,
                      argv  |-> SubSeq(t.tab, 1, ft_strslen(t.tab)),
                      got   |-> 1 + Cardinality({k \in DOMAIN t.tab : t.tab[k] # NULL}),
                      freed |-> ft_free_strs(t.tab),
                      used  |-> Len(t.tab),
                      size  |-> t.size]

Trim    == call.op = "trim" /\ out' = [done |-> TRUE, r |-> ft_strtrim(call.s, call.set, call.behind)]
Substr  == call.op = "substr" /\ out' = [done |-> TRUE, r |-> ft_substr(call.s, call.start, call.len)]
Strnstr == call.op = "strnstr" /\ out' = [done |-> TRUE, r |-> ft_strnstr(call.s, call.seg, call.len)]
Memmove == call.op = "memmove" /\ out' = [done |-> TRUE, r |-> ft_memmove(call.m, call.dst, call.src, call.n)]
Strlcpy == call.op = "strlcpy" /\ out' = [done |-> TRUE, r |-> ft_strlcpy(call.m, call.s, call.n)]
Strlcat == call.op = "strlcat" /\ out' = [done |-> TRUE, r |-> ft_strlcat(call.m, call.s, call.n)]

Next ==
  /\ ~out.done
  /\ Split \/ Trim \/ Substr \/ Strnstr \/ Memmove \/ Strlcpy \/ Strlcat
  /\ UNCHANGED call

Spec == Init /\ [][Next]_vars
-----------------------------------------------------------------------------
Done(o) == out.done /\ call.op = o

\* Where the words of a line begin and end
Starts(s) == {a \in DOMAIN s : s[a] # Blank /\ (a = 1 \/ s[a - 1] = Blank)}
Ends(s)   == {b \in DOMAIN s : s[b] # Blank /\ (b = Len(s) \/ s[b + 1] = Blank)}
Rank(S, x) == Cardinality({y \in S : y =< x})

(* ft_countwords, which sizes the table, counts the words the way the loop *)
(* of ft_split finds them: the words and the null pointer behind them fit. *)
SplitFits == Done("split") => out.used =< out.size

(* The arguments a command gets are the words of the line in their order,  *)
(* all of them unless a copy failed, and otherwise those before it.        *)
ArgumentsAreWords ==
  Done("split") =>
    LET S == Starts(call.s)
        E == Ends(call.s)
        F == call.fail \cap 0 .. Cardinality(S)
    IN  /\ Len(out.argv) = IF F = {} THEN Cardinality(S) ELSE IF 0 \in F THEN 0 ELSE Min(F) - 1
        /\ \A a \in S, b \in E :
             Rank(S, a) = Rank(E, b) /\ Rank(S, a) =< Len(out.argv) =>
               out.argv[Rank(S, a)] = SubSeq(call.s, a, b)

(* Everything ft_split allocated for a line is given back behind the       *)
(* command, as long as no copy succeeds behind one that failed.            *)
SplitGivenBack ==
  Done("split") =>
    \/ out.freed = out.got
    \/ \E j, k \in 1 .. Cardinality(Starts(call.s)) : j < k /\ j \in call.fail /\ k \notin call.fail

(* ft_strtrim cuts exactly the separators at both ends, into a block that  *)
(* holds the result, whatever lies in memory before the string.            *)
TrimsBothEnds ==
  Done("trim") =>
    LET kept == {i \in DOMAIN call.s : call.s[i] \notin call.set}
    IN  /\ out.r.str = IF kept = {} THEN <<>> ELSE SubSeq(call.s, Min(kept), Max(kept))
        /\ out.r.size = Len(out.r.str) + 1

\* ft_substr returns the piece asked for, cut at the end, and it fits its block.
SubstrIsPiece ==
  Done("substr") =>
    /\ Len(out.r.str) < out.r.size
    /\ out.r.str = [i \in 1 .. Cardinality({j \in DOMAIN call.s : j - call.start \in 1 .. call.len})
                     |-> call.s[call.start + i]]

\* ft_strnstr finds the first place at which the whole of seg lies within len.
StrnstrFindsFirst ==
  Done("strnstr") =>
    LET P == {i \in 0 .. Len(call.s) : /\ call.seg = <<>> \/ i + Len(call.seg) =< call.len
                                       /\ IsPrefix(call.seg, SubSeq(call.s, i + 1, Len(call.s)))}
    IN  out.r = IF P = {} THEN -1 ELSE Min(P)

(* ft_memmove copies the bytes as they were before the call, however the   *)
(* two ranges overlap, and changes nothing else.                           *)
MoveKeepsSource ==
  Done("memmove") =>
    out.r = [a \in DOMAIN call.m |-> IF a \in call.dst .. call.dst + call.n - 1
                                     THEN call.m[call.src + (a - call.dst)] ELSE call.m[a]]

(* ft_strlcpy and ft_strlcat write nothing at dsize or behind, leave a NUL *)
(* before dsize (unless there was none and no room), keep as much of the   *)
(* source as fits, and return the length the result should have had.       *)
BoundedCopies ==
  out.done /\ call.op \in {"strlcpy", "strlcat"} =>
    LET ends == {i \in 0 .. call.n - 1 : call.m[i] = NUL}
        from == IF call.op = "strlcpy" THEN 0 ELSE IF ends = {} THEN call.n ELSE Min(ends)
        cut  == Min({from + Len(call.s), call.n - 1})
    IN  /\ out.r.ret = from + Len(call.s)
        /\ \A a \in DOMAIN call.m :
             out.r.mem[a] = CASE a < from \/ a >= call.n \/ a > cut -> call.m[a]
                              [] a = cut /\ a < call.n /\ a >= from -> NUL
                              [] OTHER -> call.s[a - from + 1]

(* Each string routine returns what its loop is there to compute, writes   *)
(* only into the room it was given or has allocated, and the command line  *)
(* gives back what the split allocated.                                    *)
StringsExact ==
  /\ SplitFits /\ ArgumentsAreWords /\ SplitGivenBack
  /\ TrimsBothEnds /\ SubstrIsPiece /\ StrnstrFindsFirst
  /\ MoveKeepsSource /\ BoundedCopies
=============================================================================
