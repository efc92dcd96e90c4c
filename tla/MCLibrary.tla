------------------------------ MODULE MCLibrary ------------------------------
(***************************************************************************)
(* The library under the kernel: the identifier manager, the bitmap search *)
(* under it, and the routines on numbers and strings.  They share no state,*)
(* so a behaviour is about one of them, `part`, and the variables of the   *)
(* others keep their value.                                                *)
(*   - manager: seven identifiers;                                         *)
(*   - search:  3-bit bytes, every bitmap of up to seven bits (three bytes,*)
(*     the last one partly padding) and every start;                       *)
(*   - numbers: every int and word of eight bits, and short texts;         *)
(*   - strings: lines of up to five characters with two letters and a      *)
(*     blank, words of up to three, and five bytes of memory.              *)
(***************************************************************************)
EXTENDS IdManager, BitmapSearch

VARIABLES part, op, arg, text, call, result

N == INSTANCE Numbers WITH
       Bits <- 8, MinHead <- -1, MinTail <- 28, Bases <- {2, 10, 16},
       Texts <- UNION {[1 .. n -> -4 .. 2 \cup {8}] : n \in 0 .. 4},
       out <- text

S == INSTANCE Strings WITH
       Lines  <- UNION {[1 .. n -> 1 .. 3] : n \in 0 .. 5},
       Words  <- UNION {[1 .. n -> 1 .. 2] : n \in 0 .. 3},
       Blank  <- 3,
       Memory <- [0 .. 4 -> 0 .. 2],
       Behind <- {<<0>>, <<0, 1>>, <<0, 2, 1>>, <<0, 1, 3>>},
       out    <- result

ASSUME N!NumbersAssumptions /\ S!StringsAssumptions

searchVars  == vars
numberVars  == <<op, arg, text>>
stringVars  == <<call, result>>
libraryVars == <<part, managerVars, searchVars, numberVars, stringVars>>

\* The state of a part nobody calls
ManagerIdle == ManagerInit
SearchIdle  == nb = 0 /\ data = {} /\ start = 0 /\ pc = "done" /\ i = 0 /\ j = 0 /\ ret = -1
NumbersIdle == op = "none" /\ arg = 0 /\ text = <<>>
StringsIdle == call = [op |-> "none"] /\ result = S!NoResult

LibraryInit ==
  \/ part = "manager" /\ ManagerInit /\ SearchIdle /\ NumbersIdle /\ StringsIdle
  \/ part = "search"  /\ Init /\ ManagerIdle /\ NumbersIdle /\ StringsIdle
  \/ part = "numbers" /\ N!Init /\ ManagerIdle /\ SearchIdle /\ StringsIdle
  \/ part = "strings" /\ S!Init /\ ManagerIdle /\ SearchIdle /\ NumbersIdle

LibraryNext ==
  \/ part = "manager" /\ ManagerNext /\ UNCHANGED <<part, searchVars, numberVars, stringVars>>
  \/ part = "search"  /\ Next /\ UNCHANGED <<part, managerVars, numberVars, stringVars>>
  \/ part = "numbers" /\ N!Next /\ UNCHANGED <<part, managerVars, searchVars, stringVars>>
  \/ part = "strings" /\ S!Next /\ UNCHANGED <<part, managerVars, searchVars, numberVars>>

LibrarySpec == LibraryInit /\ [][LibraryNext]_libraryVars

\* Numbers written, printed and read keep their value (Numbers!NumbersExact).
NumbersExact == N!NumbersExact

\* The string routines return what they should (Strings!StringsExact).
StringsExact == S!StringsExact
=============================================================================
