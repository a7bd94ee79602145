---------------------------- MODULE MCEventLoop ----------------------------
(* Small servers for TLC.                                                   *)
EXTENDS EventLoopProps, TLC

SameConnections == Permutations(Connections)
Interchangeable == SameConnections \cup Permutations(Pipes)
=============================================================================
