------------------------------- MODULE MCRecords -------------------------------
(***************************************************************************)
(* Two requests at a time of any kind, of or about two customers who use   *)
(* one tab; entries before, on and after the only day of a statement.      *)
(***************************************************************************)
EXTENDS Records, TLC

CONSTANTS ann, bob, early, credit, debit, late, iban, other

Old == {[customer |-> ann, iban |-> iban]}
Account == early :> ann @@ credit :> ann @@ debit :> ann @@ late :> ann
Side == early :> "CREDIT" @@ credit :> "CREDIT" @@ debit :> "DEBIT" @@ late :> "DEBIT"
Date == early :> 1 @@ credit :> 2 @@ debit :> 2 @@ late :> 3

Kinds == {op[r].kind : r \in Requests} \ {"none"}

\* The three parts share no state but the set of events, so that one is looked at
\* at a time: decisions and their notifications, beneficiaries, or statements.
OnePart ==
  /\ Cardinality(Kinds \ {"kyc", "statement"}) > 0 => Kinds \subseteq {"create", "remove"}
  /\ "statement" \in Kinds => Kinds = {"statement"}
  /\ posted # {} => Kinds \subseteq {"statement"}
  /\ user # None => Kinds \subseteq {"kyc"} /\ posted = {}

Symmetry == Permutations(Requests) \cup Permutations(Polls)
=============================================================================
