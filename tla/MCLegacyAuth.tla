----------------------------- MODULE MCLegacyAuth -----------------------------
(***************************************************************************)
(* The earlier backend's auth on a small instance.                         *)
(***************************************************************************)
EXTENDS LegacyAuth, TLC

Symmetry == Permutations(Requests) \cup Permutations(Existing)
=============================================================================
