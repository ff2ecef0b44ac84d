------------------------------ MODULE MCEngine ------------------------------
(***************************************************************************)
(* Small instances of the engine for TLC.                                  *)
(***************************************************************************)
EXTENDS EngineRefinement, TLC

(* Order ids are only compared and used as keys, slab keys likewise.       *)
Symmetry == Permutations(OrderId) \cup Permutations(NodeId)
=============================================================================
