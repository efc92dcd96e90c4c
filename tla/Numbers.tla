------------------------------- MODULE Numbers -------------------------------
(***************************************************************************)
(* Numbers and their digits: ft_itoa, ft_itoa_base and ft_atoi of the      *)
(* libraries, and the printing of numbers in vga.c.  A word has Bits bits; *)
(* `long long` and size_t are wider than any value met here.  Texts are    *)
(* sequences of digits 0 .. 9 and of other characters, which are negative. *)
(* A signed overflow of ft_atoi wraps, as it does in the code the compiler *)
(* makes.                                                                  *)
(***************************************************************************)
EXTENDS Integers, SequencesExt

CONSTANTS Bits,         \* the width of an int
          MinHead,      \* the two numbers ft_putnbr prints for the least int
          MinTail,
          Bases,        \* the lengths of the digit strings given to ft_itoa_base
          Texts         \* the texts given to ft_atoi

\* What the values of the constants must satisfy
NumbersAssumptions ==
  /\ Bits \in Nat /\ Bits > 4
  /\ MinHead =< 0 /\ MinTail >= 0
  /\ \A b \in Bases : b > 1

IntMax   == 2^(Bits - 1) - 1
IntMin   == -(2^(Bits - 1))
Ints     == IntMin .. IntMax
Unsigned == 0 .. 2^Bits - 1

\* A value as the int with the same low bits
Wrap(x) == ((x - IntMin) % 2^Bits) + IntMin

VARIABLES op,    \* the function called
          arg,   \* its argument; for "itoa_base" the number and the base
          out    \* the text or number it returned or printed, <<>> before

vars == <<op, arg, out>>

Digit == 0 .. 9
Minus == -1
Plus  == -2
Space == -3
Other == -4
-----------------------------------------------------------------------------
\* The loop that divides by b until nothing is left, counting
len[n \in Nat, b \in Nat] == IF n = 0 THEN 0 ELSE 1 + len[n \div b, b]

intlen_NoSign(n) == IF n = 0 THEN 1 ELSE len[IF n < 0 THEN -n ELSE n, 10]

\* intlen: the characters of n, the sign included
intlen(n) == IF n = 0 THEN 1 ELSE (IF n < 0 THEN 1 ELSE 0) + len[IF n < 0 THEN -n ELSE n, 10]

\* The digit at position i of the text of m whose last position is `last`
DigitAt(m, b, last, i) == (m \div b^(last - i)) % b

(* ft_itoa with makeit: the text has intlen(n) places; the digits are put  *)
(* in from the last place downwards, and the sign in the first.            *)
ft_itoa(n) ==
  LET m     == IF n < 0 THEN -n ELSE n
      size  == intlen(n)
      first == IF n < 0 THEN 2 ELSE 1
  IN  [i \in 1 .. size |-> IF n < 0 /\ i < first THEN Minus ELSE DigitAt(m, 10, size, i)]

ft_itoa_base_Long(n, b) ==
  LET size == 1 + len[n, b]
  IN  [i \in 1 .. size |-> DigitAt(n, b, size, i)]

(* ft_itoa_base with ft_countlen and makebase; a digit is its index in the *)
(* base string, whose first character is "0" (zero is written as "0").     *)
ft_itoa_base(n, b) ==
  LET size == IF n = 0 THEN 1 ELSE len[n, b]
  IN  [i \in 1 .. size |-> DigitAt(n, b, size, i)]

\* s from its first character that ft_isspace does not accept
skip_space(s) ==
  LET i == SelectInSeq(s, LAMBDA c : c # Space)
  IN  IF i = 0 THEN <<>> ELSE SubSeq(s, i, Len(s))

\* Num after the digits s: num = num * 10 + digit, in an int
horner[s \in Seq(Digit)] == IF s = <<>> THEN 0 ELSE Wrap(Wrap(horner[Front(s)] * 10) + Last(s))

\* Num after the leading digits of s
number(s) ==
  LET k == SelectInSeq(s, LAMBDA c : c \notin Digit)
  IN  horner[IF k = 0 THEN s ELSE SubSeq(s, 1, k - 1)]

ft_atoi_NoSign(s) ==
  LET t == skip_space(s)
  IN  IF t # <<>> /\ Head(t) = Plus THEN number(Tail(t)) ELSE number(t)

\* ft_atoi: spaces, one sign, then digits up to the first other character
ft_atoi(s) ==
  LET t == skip_space(s)
  IN  CASE t # <<>> /\ Head(t) = Minus -> Wrap(-number(Tail(t)))
        [] t # <<>> /\ Head(t) = Plus  -> number(Tail(t))
        [] OTHER -> number(t)

\* The part of ft_putnbr for a number that is not negative
putdigits[n \in Nat] == IF n < 10 THEN <<n>> ELSE putdigits[n \div 10] \o putdigits[n % 10]

ft_putnbr_NoMin(n) == IF n < 0 THEN <<Minus>> \o putdigits[IF n = IntMin THEN 0 ELSE -n] ELSE putdigits[n]

(* ft_putnbr: the least int, whose negation is no int, is printed as two   *)
(* numbers one behind the other.                                           *)
ft_putnbr(n) ==
  CASE n = IntMin -> <<Minus>> \o putdigits[-MinHead] \o putdigits[MinTail]
    [] n \in IntMin + 1 .. -1 -> <<Minus>> \o putdigits[-n]
    [] OTHER -> putdigits[n]

ft_putunsignednbr_Signed(n) == ft_putnbr(Wrap(n))

\* ft_putunsignednbr: all but the last digit go through ft_putnbr, as an int
ft_putunsignednbr(n) ==
  IF n >= 10 THEN ft_putnbr(Wrap(n \div 10)) \o ft_putnbr(Wrap(n % 10)) ELSE <<n>>

\* ft_puthexa
ft_puthexa[n \in Nat] == IF n < 16 THEN <<n>> ELSE ft_puthexa[n \div 16] \o ft_puthexa[n % 16]
-----------------------------------------------------------------------------
Init ==
  /\ out = <<>>
  /\ \/ op \in {"itoa", "putnbr"} /\ arg \in Ints
     \/ op = "itoa_base" /\ arg \in Unsigned \X Bases
     \/ op \in {"putunsignednbr", "puthexa"} /\ arg \in Unsigned
     \/ op = "atoi" /\ arg \in Texts

Itoa == op = "itoa" /\ out' = ft_itoa(arg)
ItoaBase == op = "itoa_base" /\ out' = ft_itoa_base(arg[1], arg[2])
Putnbr == op = "putnbr" /\ out' = ft_putnbr(arg)
Putunsignednbr == op = "putunsignednbr" /\ out' = ft_putunsignednbr(arg)
Puthexa == op = "puthexa" /\ out' = ft_puthexa[arg]
Atoi == op = "atoi" /\ out' = <<ft_atoi(arg)>>

Next ==
  /\ out = <<>>
  /\ Itoa \/ ItoaBase \/ Putnbr \/ Putunsignednbr \/ Puthexa \/ Atoi
  /\ UNCHANGED <<op, arg>>

Spec == Init /\ [][Next]_vars
-----------------------------------------------------------------------------
Done(o) == op = o /\ out # <<>>

\* Places and their weights: the value of the digits s in base b
Value(s, b) == FoldLeft(LAMBDA v, d : v * b + d, 0, s)
Plain(s, b) == /\ \A i \in DOMAIN s : s[i] \in 0 .. b - 1
               /\ Len(s) > 1 => Head(s) # 0

(* What ft_itoa writes, ft_atoi reads back, for every int with the least   *)
(* one; so ft_itoa allocates and fills exactly the places it needs.        *)
RoundTrip == Done("itoa") => ft_atoi(out) = arg

\* ft_itoa_base writes the number in the base, without leading zeros.
BaseDigits == Done("itoa_base") => Value(out, arg[2]) = arg[1] /\ Plain(out, arg[2])

(* What vga_printf prints for %d and %i is the number, the least int and   *)
(* its two halves included.                                                *)
PrintsSigned ==
  Done("putnbr") =>
    IF arg < 0 THEN Head(out) = Minus /\ Plain(Tail(out), 10) /\ Value(Tail(out), 10) = -arg
    ELSE Plain(out, 10) /\ Value(out, 10) = arg

(* What vga_printf prints for %u is the number although it goes through    *)
(* the signed routine, up to the largest word; %x and %p likewise.         *)
PrintsUnsigned ==
  /\ Done("putunsignednbr") => Plain(out, 10) /\ Value(out, 10) = arg
  /\ Done("puthexa") => Plain(out, 16) /\ Value(out, 16) = arg

(* ft_atoi takes the sign and the longest run of digits behind the spaces, *)
(* and ignores the rest.  The reference reads the text from its end.       *)
AtoiReads ==
  Done("atoi") =>
    \E i, j, k \in 0 .. Len(arg) :
      /\ i =< j /\ j =< k /\ j - i =< 1
      /\ \A x \in 1 .. i : arg[x] = Space
      /\ \A x \in i + 1 .. j : arg[x] \in {Plus, Minus}
      /\ \A x \in j + 1 .. k : arg[x] \in Digit
      /\ k < Len(arg) => arg[k + 1] \notin Digit /\ (k = i => arg[k + 1] \notin {Space, Plus, Minus})
      /\ LET v == FoldRight(LAMBDA d, p : [w |-> p.w * 10, v |-> p.v + d * p.w],
                            SubSeq(arg, j + 1, k), [w |-> 1, v |-> 0]).v
         IN  Head(out) = Wrap(IF j > i /\ arg[j] = Minus THEN -v ELSE v)

(* Numbers keep their value through text: written and read back, in any    *)
(* base, printed as signed, unsigned or hexadecimal, and read from a text  *)
(* with other characters around them.                                      *)
NumbersExact == RoundTrip /\ BaseDigits /\ PrintsSigned /\ PrintsUnsigned /\ AtoiReads
=============================================================================
