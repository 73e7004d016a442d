---------------------------- MODULE MCPlacement ----------------------------
(***************************************************************************)
(* Placement and its inductive invariant on a small instance: see          *)
(* MCPlacement.cfg.                                                        *)
(***************************************************************************)
EXTENDS PlacementInv, TLC

Symmetry == Permutations(Apps) \cup Permutations(Workers)
=============================================================================
