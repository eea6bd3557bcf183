---------------------------- MODULE MCProcesses -----------------------------
(* The first process and two that are executed, with five threads. *)
EXTENDS Processes

IDs == {0, MaxProcesses}
=============================================================================
