------------------------------ MODULE MCSessions ------------------------------
(***************************************************************************)
(* Sessions on a small instance: an administrator the seed has created and *)
(* a customer who may register.                                            *)
(***************************************************************************)
EXTENDS Sessions, TLC

Symmetry == Permutations(Requests) \cup Permutations(Otps)
=============================================================================
