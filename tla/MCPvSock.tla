------------------------------ MODULE MCPvSock ------------------------------
(* PvSock on a few handles and connections. *)
EXTENDS PvSock, TLC

CONSTANTS h1, h2

Symmetry == Permutations({h1, h2})
=============================================================================
