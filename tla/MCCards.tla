------------------------------ MODULE MCCards -------------------------------
(***************************************************************************)
(* Cards on a small instance: a customer with an issued card and one she   *)
(* may be issued, and a second customer without any.                       *)
(***************************************************************************)
EXTENDS Cards, TLC

CONSTANTS ann, first, second

OwnerOf == [c \in {first, second} |-> ann]

Symmetry == Permutations(Requests) \cup Permutations(Otps)
=============================================================================
