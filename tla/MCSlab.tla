------------------------------- MODULE MCSlab -------------------------------
(***************************************************************************)
(* A zone of three pages whose clients ask for objects of one class and    *)
(* for whole pages, so that kmalloc comes to reclaim empty slabs.          *)
(***************************************************************************)
EXTENDS Slab

MCZones == {[pages |-> 3, sizes |-> {4, 16}, live |-> 7]}

=============================================================================
