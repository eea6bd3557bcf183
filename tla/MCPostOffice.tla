---------------------------- MODULE MCPostOffice ----------------------------
(* Instances of PostOffice for TLC. *)
EXTENDS PostOffice

CONSTANTS m1, m2, u1, u2, v1

(* Two threads that share a mailbox of the first machine, one on the second. *)
MCReads == [u \in Users |-> IF u = v1 THEN {1} ELSE {0}]
MCHome == [u \in Users |-> IF u = v1 THEN m2 ELSE m1]

=============================================================================
