------------------------------ MODULE StringOps ------------------------------
(***************************************************************************)
(* The string routines of libk and libutils with loops that can go wrong:  *)
(* splitting a command line, trimming, cutting and searching, and the      *)
(* bounded copies.  A character is a positive number and NUL is 0.  A      *)
(* string is the sequence before its NUL; a piece of memory is a function  *)
(* on offsets.  The allocations of ft_split may fail.                      *)
(***************************************************************************)
EXTENDS Integers, SequencesExt

NUL  == 0
NULL == <<NUL>>      \* a null pointer, no string
-----------------------------------------------------------------------------
\* The character at offset i of the string s, its NUL included
at(s, i) == IF i = Len(s) THEN NUL ELSE s[i + 1]

ft_countwords_Separators(s, set) == Cardinality({i \in 0 .. Len(s) - 1 : at(s, i) = set})

\* ft_countwords: one at the start, and one at each separator before a word
ft_countwords(s, set) ==
  (IF at(s, 0) \notin {set, NUL} THEN 1 ELSE 0)
    + Cardinality({i \in 0 .. Len(s) - 1 : at(s, i) = set /\ at(s, i + 1) \notin {set, NUL}})

len_word(s, set, i) == Min({k \in 0 .. Len(s) - i : at(s, i + k) \in {set, NUL}})

split_words_OneShort(s, set) ==
  LET from[i \in 0 .. Len(s)] ==
        CASE i = Len(s)     -> <<>>
          [] at(s, i) = set -> from[i + 1]
          [] OTHER          -> LET n == len_word(s, set, i)
                               IN  <<SubSeq(s, i + 1, i + n)>>
                                     \o from[Min({i + n + 2, Len(s)})]
  IN  from[0]

\* The loop of ft_split: at a separator one on, at a word behind the word
split_words(s, set) ==
  LET from[i \in 0 .. Len(s)] ==
        CASE i = Len(s)     -> <<>>
          [] at(s, i) = set -> from[i + 1]
          [] OTHER          -> LET n == len_word(s, set, i)
                               IN  <<SubSeq(s, i + 1, i + n)>> \o from[i + n]
  IN  from[0]

(* ft_split: a table of ft_countwords + 1 places, and a copy of each word; *)
(* the table is allocation 0 and the copy of word k allocation k, and the  *)
(* ones in `fail` fail.  A copy that fails leaves a null pointer.          *)
ft_split(s, set, fail) ==
  LET w == split_words(s, set)
  IN  [size |-> ft_countwords(s, set) + 1,
       tab  |-> [k \in 1 .. Len(w) |-> IF k \in fail THEN NULL ELSE w[k]] \o <<NULL>>]

\* ft_strslen: the entries before the first null pointer
ft_strslen(tab) == Min({k \in DOMAIN tab : tab[k] = NULL}) - 1

ft_free_strs_First(tab) == 1 + (IF ft_strslen(tab) > 0 THEN ft_strslen(tab) - 1 ELSE 0)

\* ft_free_strs: the blocks it gives back, the table included
ft_free_strs(tab) == ft_strslen(tab) + 1

(* end_charset: the separators counted backwards from the last character.  *)
(* The loop has no lower end: it goes on into the bytes before the string. *)
end_charset(s, charset, behind) ==
  LET b == behind \o s
  IN  Min({k \in 0 .. Len(b) - 1 : b[Len(b) - k] \notin charset})

ft_strtrim_KeepsCount(s, charset, behind) ==
  LET k == end_charset(s, charset, behind)
      i == Min({n \in 0 .. Len(s) : at(s, n) \notin charset})
  IN  [size |-> Len(s) - (k + i) + 1, str |-> SubSeq(s, i + 1, Len(s) - k)]

\* ft_strtrim: the size it allocates and the string it writes there
ft_strtrim(s, charset, behind) ==
  LET i == Min({n \in 0 .. Len(s) : at(s, n) \notin charset})
      k == IF i = Len(s) THEN 0 ELSE end_charset(s, charset, behind)
  IN  [size |-> Len(s) - (k + i) + 1, str |-> SubSeq(s, i + 1, Len(s) - k)]

ft_substr_Rest(s, start, len) ==
  IF start >= Len(s) THEN [size |-> 1, str |-> <<>>]
  ELSE [size |-> len + 1, str |-> SubSeq(s, start + 1, Len(s))]

\* ft_substr, with the copy of the whole rest when len exceeds the string
ft_substr(s, start, len) ==
  LET rest == SubSeq(s, start + 1, Len(s))
  IN  CASE start >= Len(s) -> [size |-> 1, str |-> <<>>]
        [] start < Len(s) /\ len > Len(s) -> [size |-> Len(rest) + 1, str |-> rest]
        [] OTHER -> [size |-> len + 1,
                     str  |-> SubSeq(rest, 1, Min({len, Len(rest)}))]

ft_strnstr_Past(str, seg, len) ==
  LET hits == {i \in 0 .. Len(str) - Len(seg) : i < len /\ SubSeq(str, i + 1, i + Len(seg)) = seg}
  IN  IF seg = <<>> THEN 0 ELSE IF hits = {} THEN -1 ELSE Min(hits)

\* The characters of seg that the inner loop of ft_strnstr matches at i
matched(str, seg, len, i) ==
  Min({l \in 0 .. Min({Len(seg), Len(str) - i}) :
         at(seg, l) = NUL \/ at(str, i + l) # at(seg, l) \/ i + l >= len})

\* ft_strnstr: the offset of the match, or -1
ft_strnstr(str, seg, len) ==
  LET hits == {i \in 0 .. Len(str) - 1 : i < len /\ matched(str, seg, len, i) = Len(seg)}
  IN  CASE seg = <<>>  -> 0
        [] seg # <<>> /\ hits = {} -> -1
        [] OTHER -> Min(hits)
-----------------------------------------------------------------------------
Upwards(n)   == [k \in 1 .. n |-> k - 1]
Downwards(n) == [k \in 1 .. n |-> n - k]

\* The loop that copies bytes one after the other, at the offsets of `order`
copy(m, dst, src, order) ==
  FoldLeft(LAMBDA mm, i : [mm EXCEPT ![dst + i] = mm[src + i]], m, order)

ft_memmove_Forward(m, dst, src, n) == copy(m, dst, src, Upwards(n))

\* ft_memmove: upwards when the target lies below, downwards when above
ft_memmove(m, dst, src, n) ==
  CASE dst < src -> copy(m, dst, src, Upwards(n))
    [] dst > src -> copy(m, dst, src, Downwards(n))
    [] OTHER     -> m

\* Memory with the string s written at offset i, and a NUL behind it
put(m, i, s) ==
  [a \in DOMAIN m |-> IF a \in i .. i + Len(s) - 1 THEN s[a - i + 1]
                      ELSE IF a = i + Len(s) THEN NUL ELSE m[a]]

ft_strlcpy_NoRoom(m, src, dsize) ==
  [ret |-> Len(src), mem |-> IF dsize > 0 THEN put(m, 0, SubSeq(src, 1, Min({Len(src), dsize}))) ELSE m]

\* ft_strlcpy to offset 0
ft_strlcpy(m, src, dsize) ==
  [ret |-> Len(src),
   mem |-> IF dsize > 0 THEN put(m, 0, SubSeq(src, 1, Min({Len(src), dsize - 1}))) ELSE m]

(* ft_strlcat to offset 0.  The search for the end of the target looks at  *)
(* the byte before it compares the offset with dsize.                      *)
ft_strlcat(m, src, dsize) ==
  LET dst_len == Min({i \in 0 .. dsize : m[i] = NUL \/ i = dsize})
  IN  IF dst_len = dsize THEN [ret |-> dsize + Len(src), mem |-> m]
      ELSE [ret |-> dst_len + Len(src),
            mem |-> put(m, dst_len, SubSeq(src, 1, Min({Len(src), dsize - 1 - dst_len})))]
=============================================================================
