------------------------------ MODULE MCDevices ------------------------------
(* Two threads at two sectors of different tracks, or one of them and one    *)
(* that echoes.                                                              *)
EXTENDS Devices, TLC

Pairs == {DiskThreads, EchoThreads \cup {CHOOSE t \in DiskThreads : TRUE}}
==============================================================================
