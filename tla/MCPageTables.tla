---------------------------- MODULE MCPageTables ----------------------------
(* Tables of two entries, so that tables fill, empty and are used again.   *)
(* Directories of tasks, page tables and frames are interchangeable.       *)
EXTENDS PageTables, TLC

Symmetry == Permutations(Users) \cup Permutations(Tables) \cup Permutations(Frames)
=============================================================================
