------------------------------- MODULE MCPair -------------------------------
(* PairSync for TLC.  Paths are interchangeable: nothing in the flat pair  *)
(* orders them.                                                            *)
EXTENDS PairSync, TLC

Symmetric == Permutations(Paths)
=============================================================================
