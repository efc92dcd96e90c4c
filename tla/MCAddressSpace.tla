--------------------------- MODULE MCAddressSpace ---------------------------
(***************************************************************************)
(* Address spaces of three tasks on small memories.  On the first machine  *)
(* tasks come and go; on the second fork runs out of frames and of kernel  *)
(* pages; on the third programs fork, are replaced and write to memory; on *)
(* the fourth they write and frames go from the dead to the living; on the *)
(* fifth the block of a trampoline is freed twice.  Task slots are         *)
(* interchangeable.                                                        *)
(***************************************************************************)
EXTENDS AddressSpace, TLC

MCMachines == {[high |-> 12, low |-> 16, ops |-> {"spawn", "mmap", "exit"}],
               [high |-> 14, low |-> 15, ops |-> {"spawn", "fork", "mmap"}],
               [high |-> 13, low |-> 16, ops |-> {"spawn", "fork", "execve", "mmap", "write"}],
               [high |-> 8,  low |-> 16, ops |-> {"spawn", "mmap", "write", "exit"}],
               [high |-> 11, low |-> 16, ops |-> {"spawn", "fork", "exit"}]}

TaskSymmetry == Permutations(Tasks)
=============================================================================
