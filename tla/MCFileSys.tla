------------------------------ MODULE MCFileSys ------------------------------
(* Files of no bytes and of two sectors, the second of them half full; two   *)
(* of these do not fit on the disk together.                                 *)
EXTENDS FileSys, TLC

CONSTANTS x, y

ShortWritings == {<<x>>, <<y, y>>}

Symmetry == Permutations(Names)
==============================================================================
