--------------------------- MODULE MCLegacyTransfers ---------------------------
(***************************************************************************)
(* The earlier backend's transfers on a small instance: opposite transfers *)
(* between two customers, one of them large enough to be rejected or       *)
(* flagged, and a payment that competes for the same money.                *)
(***************************************************************************)
EXTENDS LegacyTransfers, TLC

CONSTANTS ann, bob, checking, other

OwnerOf == checking :> ann @@ other :> bob
Opening == checking :> 60000 @@ other :> 1

Transfer(u, f, t, n, x) ==
  [user |-> u, from |-> f, to |-> t, amount |-> n, foreign |-> x]
CallsMade ==
  {Transfer(ann, checking, other, 50001, TRUE), Transfer(bob, other, checking, 1, FALSE),
   Transfer(ann, checking, Outside, 20000, FALSE),
   Transfer(bob, other, Outside, 60000, FALSE),
   Transfer(ann, checking, checking, 1, FALSE), Transfer(ann, other, checking, 1, FALSE)}

Symmetry == Permutations(Requests) \cup Permutations(Keys)


=============================================================================
