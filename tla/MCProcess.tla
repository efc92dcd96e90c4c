------------------------------ MODULE MCProcess ------------------------------
(* Small instances of the process core for TLC. *)
EXTENDS Process
=============================================================================
