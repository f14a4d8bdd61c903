---------------------------- MODULE MCPop3Server ----------------------------
(* Symmetric connections for the safety run of Pop3Server. *)
EXTENDS Pop3Server

Symmetry == Permutations(Conns)
=============================================================================
