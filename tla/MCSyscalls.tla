----------------------------- MODULE MCSyscalls -----------------------------
(* Threads of one address space. *)
EXTENDS Syscalls

CONSTANT Space

OneSpace == [t \in Threads |-> Space]
=============================================================================
