----------------------------- MODULE MCMembership -----------------------------
(***************************************************************************)
(* Membership on a small instance: see MCMembership.cfg.                   *)
(***************************************************************************)
EXTENDS MembershipInv, TLC

Symmetry == Permutations(Workers)
=============================================================================
