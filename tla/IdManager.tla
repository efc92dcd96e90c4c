------------------------------ MODULE IdManager ------------------------------
(***************************************************************************)
(* The identifier manager that hands out pids (id_manager.c): a bitmap of  *)
(* taken identifiers and a hint, next_free, that allocation trusts without *)
(* looking at the bitmap.  `grants` is a history variable: how many        *)
(* clients currently hold each identifier.                                 *)
(***************************************************************************)
EXTENDS IdOps

CONSTANT MaxId   \* the number of identifiers (PID_MAX in task.c)

ASSUME MaxIdAssumption == MaxId \in Nat \ {0}

Ids == 0 .. MaxId - 1

VARIABLES mgr, grants
managerVars == <<mgr, grants>>

ManagerInit ==
  /\ mgr = id_manager_create
  /\ grants = [id \in Ids |-> 0]

\* A successful id_manager_alloc.
Alloc ==
  /\ mgr.next_free # -1
  /\ mgr' = id_manager_alloc(mgr, MaxId)
  /\ grants' = [grants EXCEPT ![mgr.next_free] = @ + 1]

\* id_manager_alloc with no identifier left returns -1.
AllocExhausted ==
  /\ mgr.next_free = -1
  /\ UNCHANGED managerVars

\* A client gives back an identifier it holds.
Free(id) ==
  /\ grants[id] > 0
  /\ mgr' = id_manager_free(mgr, MaxId, id)
  /\ grants' = [grants EXCEPT ![id] = @ - 1]

\* id_manager_reserve_id: refused when the bit is set.
Reserve(id) ==
  /\ id \notin mgr.bits
  /\ mgr' = id_manager_reserve_id(mgr, MaxId, id)
  /\ grants' = [grants EXCEPT ![id] = @ + 1]

ManagerNext ==
  \/ Alloc
  \/ AllocExhausted
  \/ \E id \in Ids : Free(id) \/ Reserve(id)

ManagerSpec == ManagerInit /\ [][ManagerNext]_managerVars

-----------------------------------------------------------------------------
\* The manager is a set of identifiers in range and a hint in range or -1.
ManagerTypeOK ==
  /\ mgr \in [bits : SUBSET Ids, next_free : Ids \cup {-1}]
  /\ grants \in [Ids -> Nat]

(* No identifier is ever held by two clients, although id_manager_alloc    *)
(* returns next_free without testing its bit: two live tasks never share a *)
(* pid.                                                                    *)
UniqueGrant == \A id \in Ids : grants[id] =< 1

(* The hint is the lowest clear bit, and -1 exactly when every bit is set: *)
(* pids are recycled lowest first, allocation fails only when all are in   *)
(* use, and the second search of id_manager_alloc, from bit 0, never finds *)
(* anything the first one missed.                                          *)
HintIsLowestFree == mgr.next_free = FirstZeroFrom(mgr.bits, MaxId, 0)

\* A bit is set exactly for the identifiers somebody holds: none leaks.
BitsAreGrants == \A id \in Ids : id \in mgr.bits <=> grants[id] > 0
=============================================================================
