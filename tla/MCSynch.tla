------------------------------ MODULE MCSynch ------------------------------
(* Instances of Synch for TLC. *)
EXTENDS Synch, TLC

Symmetry == Permutations(Threads \ {Main}) \cup Permutations(Locks)

=============================================================================
