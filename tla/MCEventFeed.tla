----------------------------- MODULE MCEventFeed ----------------------------
(***************************************************************************)
(* An instance of the engine and its event consumer for TLC.               *)
(***************************************************************************)
EXTENDS EventFeed, TLC

Symmetry == Permutations(OrderId) \cup Permutations(NodeId)
=============================================================================
