------------------------------- MODULE Ledger -------------------------------
(***************************************************************************)
(* What the payment service promises, without handlers, retries, database *)
(* transactions or crashes: money moves atomically between two accounts, a *)
(* customer's account never pays more than it holds, and each idempotency  *)
(* slot (a user and a key) pays at most once.  Module Payments implements  *)
(* this specification.                                                     *)
(***************************************************************************)
EXTENDS Integers

CONSTANTS
  Accounts,     \* all accounts of the bank
  System,       \* the bank's own settlement accounts, a subset of Accounts
  Slots,        \* idempotency slots: one per user and key
  Amounts,      \* the amounts that can be asked for
  Opening,      \* opening balance of every account
  Unpaid        \* the value of a slot that has paid nothing yet

Movement == [from : Accounts, to : Accounts, amount : Amounts]

\* What the parameters must satisfy (shown of Payments' in PaymentsProofs).
LedgerParameters ==
  /\ System \subseteq Accounts
  /\ Amounts \subseteq Nat \ {0}
  /\ Opening \in [Accounts -> Int]
  /\ \A a \in Accounts \ System : Opening[a] >= 0
  /\ Unpaid \notin Movement

VARIABLES
  balance,      \* what each account holds
  paid          \* what each slot has paid for

ledgerVars == <<balance, paid>>

LedgerInit ==
  /\ balance = Opening
  /\ paid = [s \in Slots |-> Unpaid]

Move(m) ==
  balance' = [balance EXCEPT ![m.from] = @ - m.amount, ![m.to] = @ + m.amount]

\* A payment fills a free slot and never overdraws its source.
Pay(s, m) ==
  /\ paid[s] = Unpaid
  /\ m.from # m.to
  /\ balance[m.from] >= m.amount
  /\ Move(m)
  /\ paid' = [paid EXCEPT ![s] = m]

\* An administrator funds a customer from a settlement account, which may go
\* below zero: that side is the bank's own money.
Fund(m) ==
  /\ m.from \in System
  /\ m.to \notin System
  /\ Move(m)
  /\ UNCHANGED paid

LedgerNext ==
  \E m \in Movement : Fund(m) \/ \E s \in Slots : Pay(s, m)

LedgerSpec == LedgerInit /\ [][LedgerNext]_ledgerVars

-----------------------------------------------------------------------------

LedgerTypeOK ==
  /\ balance \in [Accounts -> Int]
  /\ paid \in [Slots -> Movement \cup {Unpaid}]

\* No customer account is ever overdrawn.
NoOverdraft == \A a \in Accounts \ System : balance[a] >= 0
=============================================================================
