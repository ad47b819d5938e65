----------------------------- MODULE MCPayments -----------------------------
(***************************************************************************)
(* Payments on small instances: a customer ann with two accounts, a second *)
(* customer bob with one, who also owns the settlement account the way the *)
(* seed's administrator does.                                              *)
(***************************************************************************)
EXTENDS Payments, TLC

CONSTANTS ann, bob, checking, savings, other, settlement, external, payee, shop

Call(k, f, t, n) == [kind |-> k, from |-> f, to |-> t, amount |-> n]
Nothing == [x \in {} |-> x]

SettlementOf == shop :> settlement

\* Every kind of payment under one key: a small one and large ones; bob has the same
\* key.
OwnerOf == checking :> ann @@ savings :> ann @@ other :> bob @@ settlement :> bob
PayeeOwnerOf == payee :> ann
PayeeAccountOf == payee :> other
CallsOneKey ==
  {Call("INTERNAL", checking, savings, 1),
   Call("BENEFICIARY", checking, payee, 2), Call("MERCHANT", checking, shop, 2)}
OpeningOneKey == checking :> 2 @@ savings :> 0 @@ other :> 0 @@ settlement :> 0

\* Opposite transfers between two accounts and an admin credit, under two keys;
\* both debits of either account cannot be paid, and a transfer to the account it
\* comes from is refused.
OwnerAnn == [a \in {checking, savings, settlement} |-> ann]
CallsCrossing ==
  {Call("INTERNAL", checking, savings, 1), Call("INTERNAL", savings, checking, 2),
   Call("INTERNAL", savings, savings, 1), Call("CREDIT", settlement, savings, 1)}
OpeningCrossing == checking :> 1 @@ savings :> 2 @@ settlement :> 0

\* One transfer between the customer's own accounts.
CallsOwn == {Call("INTERNAL", checking, savings, 1)}

\* The owner of the bank's own accounts asks for a transfer between two of them.
OwnerBank == [a \in {settlement, external} |-> bob]
SettlementExternal == shop :> external
CallsSettlement == {Call("INTERNAL", settlement, external, 1)}
OpeningSettlement == settlement :> 1 @@ external :> 0

Symmetry == Permutations(Requests)
=============================================================================
