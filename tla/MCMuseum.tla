------------------------------ MODULE MCMuseum ------------------------------
(* Instances of Museum for TLC. *)
EXTENDS Museum

(* Of vehicles without passengers there are more. *)
MCMaxVehicles == << 1, 4, 2, 3, 2, 2, 3, 3, 3, 2, 2 >>
=============================================================================
