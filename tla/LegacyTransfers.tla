---------------------------- MODULE LegacyTransfers ----------------------------
(***************************************************************************)
(* Transfers and merchant payments of the earlier backend,                 *)
(* _legacy_demo/backend/src/transactions and risk: looked up by key outside *)
(* the transaction, scored, then executed under row locks at the default   *)
(* isolation level, READ COMMITTED, and never retried.                     *)
(*                                                                         *)
(*   new -> lookup -> accounts -> risk -> source -> dest -> insert         *)
(*       -> commit -> done                 (a payment has no dest)         *)
(*                           \-> reject -> done                            *)
(*                                                                         *)
(* A Transaction row is named by the request that creates it.              *)
(***************************************************************************)
EXTENDS Integers

CONSTANTS
  Users, Accounts,
  Owner,            \* account -> its user
  Keys, Requests,
  Calls,            \* the calls that may be made
  StepUpAmount,     \* STEP_UP_THRESHOLD_AMOUNT
  OpeningBalance,
  Outside,          \* where merchants are paid: no account of the bank
  None

CallType ==
  [user : Users, from : Accounts, to : Accounts \cup {Outside}, amount : Nat \ {0},
   foreign : BOOLEAN]

ASSUME LegacyTransfersAssumption ==
  /\ Outside \notin Accounts /\ Keys \cap Accounts = {}
  /\ Owner \in [Accounts -> Users]
  /\ Calls \subseteq CallType
  /\ OpeningBalance \in [Accounts -> Nat]
  /\ None \notin Requests \cup Keys \cup {"PENDING", "COMPLETED", "REJECTED"}
  /\ None \notin [from : Accounts, to : Accounts \cup {Outside},
                 amount : {c.amount : c \in Calls}]

VARIABLES
  balance,     \* account -> balance
  spent,       \* what merchants have been paid
  status,      \* request -> the status of the Transaction row it created, or None
  entries,     \* the LedgerEntry rows: [of, account, type]
  req,         \* request -> [call, key]
  level,       \* request -> risk level, once scored
  pc,
  answer       \* request -> [code, txn]

db == <<balance, spent, status, entries>>
vars == <<db, req, level, pc, answer>>

Pcs == {"new", "lookup", "accounts", "risk", "reject", "source", "dest", "insert",
        "commit", "done"}
Levels == {"LOW", "MEDIUM", "HIGH"}
Codes == {"none", "201", "step-up", "400", "404", "500", "lost"}
NoRequest == [call |-> None, key |-> None]
Answer(code, txn) == [code |-> code, txn |-> txn]

Call(r) == req[r].call
From(r) == Call(r).from
To(r) == Call(r).to
Amount(r) == Call(r).amount
IsTransfer(r) == To(r) # Outside

Finish(r, code, txn) ==
  /\ pc' = [pc EXCEPT ![r] = "done"]
  /\ answer' = [answer EXCEPT ![r] = Answer(code, txn)]
Goto(r, l) == pc' = [pc EXCEPT ![r] = l] /\ UNCHANGED answer

\* What was committed is answered, or the answer is lost: on its way, or with the
\* process, when Crash ends the other requests next.
Reply(r) == Finish(r, "201", r) \/ Finish(r, "lost", None)

-----------------------------------------------------------------------------
(* Risk scoring, risk.service.ts.                                          *)

AmountScore(n) ==
  CASE n > 50000 -> 40 [] n > 10000 -> 25 [] n > 5000 -> 10 [] OTHER -> 0

\* Faulty: the third-party factor counts twice.
ScoreTwice(c, own, night, noise) ==
  AmountScore(c.amount) + (IF c.foreign THEN 15 ELSE 0) + (IF own THEN 0 ELSE 25)
    + (IF night THEN 15 ELSE 0) + noise

\* evaluateRisk, before the cap at 100, which no sum reaches.
Score(c, own, night, noise) ==
  AmountScore(c.amount) + (IF c.foreign THEN 15 ELSE 0) + (IF own THEN 0 ELSE 10)
    + (IF night THEN 15 ELSE 0) + noise

\* getRiskLevel
RiskLevel(score) ==
  IF score >= 80 THEN "HIGH" ELSE IF score >= 50 THEN "MEDIUM" ELSE "LOW"

\* Whether the money stays with the user; it never does in a payment.
IsInternal(c) == c.to # Outside /\ Owner[c.to] = c.user

PossibleLevels(c) ==
  {RiskLevel(Score(c, IsInternal(c), night, noise)) : night \in BOOLEAN, noise \in 0..9}

-----------------------------------------------------------------------------
(* Before the transaction.                                                 *)

\* The controller: a large transfer needs a token that has passed MFA.
Receive(r, c, k, mfaVerified) ==
  /\ pc[r] = "new"
  /\ req' = [req EXCEPT ![r] = [call |-> c, key |-> k]]
  /\ IF c.to # Outside /\ c.amount >= StepUpAmount /\ ~mfaVerified
     THEN Finish(r, "step-up", None)
     ELSE Goto(r, "lookup")
  /\ UNCHANGED <<db, level>>

RowsOf(k) == {s \in Requests : status[s] # None /\ req[s].key = k}

\* findUnique by key, of any user and whatever the body: the row found is the answer.
FindKey(r) ==
  /\ pc[r] = "lookup"
  /\ IF RowsOf(req[r].key) = {} THEN Goto(r, "accounts")
     ELSE \E s \in RowsOf(req[r].key) : Finish(r, "201", s)
  /\ UNCHANGED <<db, req, level>>

\* The source is the user's own and active, the destination another account.  What is
\* not modelled may refuse any call: the source's status, or an IBAN nobody has.
FindAccounts(r) ==
  /\ pc[r] = "accounts"
  /\ \/ Finish(r, IF IsTransfer(r) THEN "404" ELSE "400", None)
     \/ Owner[From(r)] = Call(r).user /\ Finish(r, "400", None)
     \/ Owner[From(r)] = Call(r).user /\ From(r) # To(r) /\ Goto(r, "risk")
  /\ UNCHANGED <<db, req, level>>

Evaluate(r) ==
  /\ pc[r] = "risk"
  /\ \E l \in PossibleLevels(Call(r)) :
       /\ level' = [level EXCEPT ![r] = l]
       /\ Goto(r, IF l = "HIGH" THEN "reject" ELSE "source")
  /\ UNCHANGED <<db, req>>

-----------------------------------------------------------------------------
(* The transaction.                                                        *)

\* Faulty: the row is inserted before the destination is locked.
HoldsKeyEarly(r) ==
  (IF pc[r] \in {"dest", "insert", "commit"} THEN {From(r)} ELSE {})
  \cup (IF pc[r] \in {"insert", "commit"} /\ IsTransfer(r) THEN {To(r)} ELSE {})
  \cup (IF pc[r] \in {"dest", "commit"} THEN {req[r].key} ELSE {})

\* The rows and the unique key an open transaction has locked, and the one it waits for.
Holds(r) ==
  (IF pc[r] \in {"dest", "insert", "commit"} THEN {From(r)} ELSE {})
  \cup (IF pc[r] \in {"insert", "commit"} /\ IsTransfer(r) THEN {To(r)} ELSE {})
  \cup (IF pc[r] = "commit" THEN {req[r].key} ELSE {})

Wants(r) ==
  CASE pc[r] = "source" -> {From(r)}
    [] pc[r] = "dest"   -> {To(r)}
    [] pc[r] \in {"insert", "reject"} -> {req[r].key}
    [] OTHER -> {}

Waits(r, s) == r # s /\ Wants(r) \cap Holds(s) # {}
Blocked(r) == \E s \in Requests : Waits(r, s)

\* Faulty: the key's column is not unique.
KeyIgnored(r) == TRUE

\* A transaction.create whose key has a row by now fails, and with it the request.
KeyFree(r) == RowsOf(req[r].key) = {}

\* The REJECTED row, with no entries.
Reject(r) ==
  /\ pc[r] = "reject" /\ ~Blocked(r)
  /\ IF KeyFree(r)
     THEN /\ status' = [status EXCEPT ![r] = "REJECTED"]
          /\ Reply(r)
     ELSE Finish(r, "500", None) /\ UNCHANGED status
  /\ UNCHANGED <<balance, spent, entries, req, level>>

\* Faulty: the lock is not asked for, and the balance seen may be spent by another.
LockNothing(r) ==
  /\ pc[r] = "source"
  /\ IF balance[From(r)] < Amount(r) THEN Finish(r, "400", None)
     ELSE Goto(r, IF IsTransfer(r) THEN "dest" ELSE "insert")
  /\ UNCHANGED <<db, req, level>>

\* SELECT ... FOR UPDATE of the source, and the check of its balance as it is once
\* the lock is granted.
LockSource(r) ==
  /\ pc[r] = "source" /\ ~Blocked(r)
  /\ IF balance[From(r)] < Amount(r) THEN Finish(r, "400", None)
     ELSE Goto(r, IF IsTransfer(r) THEN "dest" ELSE "insert")
  /\ UNCHANGED <<db, req, level>>

LockDestination(r) ==
  /\ pc[r] = "dest" /\ ~Blocked(r)
  /\ Goto(r, "insert")
  /\ UNCHANGED <<db, req, level>>

InsertTransaction(r) ==
  /\ pc[r] = "insert" /\ ~Blocked(r)
  /\ IF KeyFree(r) THEN Goto(r, "commit") ELSE Finish(r, "500", None)
  /\ UNCHANGED <<db, req, level>>

Entry(r, a, t) == [of |-> r, account |-> a, type |-> t]

\* Faulty: a transfer leaves a debit only, as a payment does.
EntriesDebitOnly(r) == {Entry(r, From(r), "DEBIT")}

\* The two entries of a transfer; the single entry of a payment, whose money leaves
\* the system.
EntriesOf(r) ==
  {Entry(r, From(r), "DEBIT")}
    \cup (IF IsTransfer(r) THEN {Entry(r, To(r), "CREDIT")} ELSE {})

\* A flagged transfer is PENDING, a flagged payment is not.
FinalStatus(r) ==
  IF IsTransfer(r) /\ level[r] = "MEDIUM" THEN "PENDING" ELSE "COMPLETED"

\* The entries, the two updates of balances, and COMMIT.
Commit(r) ==
  /\ pc[r] = "commit"
  /\ status' = [status EXCEPT ![r] = FinalStatus(r)]
  /\ entries' = entries \cup EntriesOf(r)
  /\ balance' = [a \in Accounts |->
       balance[a] + (IF a = To(r) THEN Amount(r) ELSE 0)
                  - (IF a = From(r) THEN Amount(r) ELSE 0)]
  /\ spent' = IF IsTransfer(r) THEN spent ELSE spent + Amount(r)
  /\ Reply(r)
  /\ UNCHANGED <<req, level>>

\* Transactions that wait for each other in a circle.
InWaitCycle(r) ==
  \E C \in SUBSET Requests :
    r \in C /\ \A s \in C : \E t \in C : Waits(s, t)

\* The deadlock detector ends one of them.
DeadlockAbort(r) ==
  /\ InWaitCycle(r)
  /\ Finish(r, "500", None)
  /\ UNCHANGED <<db, req, level>>

InFlight(r) == pc[r] \notin {"new", "done"}

\* A statement fails or the transaction times out: it is rolled back.
Fail(r) ==
  /\ InFlight(r)
  /\ Finish(r, "500", None)
  /\ UNCHANGED <<db, req, level>>

\* The server process stops; the database rolls back what is open.
Crash ==
  /\ \E r \in Requests : InFlight(r)
  /\ pc' = [r \in Requests |-> IF InFlight(r) THEN "done" ELSE pc[r]]
  /\ answer' = [r \in Requests |->
                  IF InFlight(r) THEN Answer("lost", None) ELSE answer[r]]
  /\ UNCHANGED <<db, req, level>>

-----------------------------------------------------------------------------

Init ==
  /\ balance = OpeningBalance /\ spent = 0
  /\ status = [r \in Requests |-> None]
  /\ entries = {}
  /\ req = [r \in Requests |-> NoRequest]
  /\ level = [r \in Requests |-> "LOW"]
  /\ pc = [r \in Requests |-> "new"]
  /\ answer = [r \in Requests |-> Answer("none", None)]

Handle(r) ==
  \/ FindKey(r) \/ FindAccounts(r) \/ Evaluate(r) \/ Reject(r)
  \/ LockSource(r) \/ LockDestination(r) \/ InsertTransaction(r) \/ Commit(r)
  \/ DeadlockAbort(r)

Next ==
  \/ \E r \in Requests :
       \/ Handle(r) \/ Fail(r)
       \/ \E c \in Calls, k \in Keys, m \in BOOLEAN : Receive(r, c, k, m)
  \/ Crash

Spec == Init /\ [][Next]_vars

-----------------------------------------------------------------------------
(* Properties.                                                             *)

\* Type correctness of the rows and of what each handler carries between its awaits.
TypeOK ==
  /\ balance \in [Accounts -> Int] /\ spent \in Nat
  /\ status \in [Requests -> {None, "PENDING", "COMPLETED", "REJECTED"}]
  /\ entries \subseteq [of : Requests, account : Accounts, type : {"DEBIT", "CREDIT"}]
  /\ req \in [Requests -> [call : Calls, key : Keys] \cup {NoRequest}]
  /\ level \in [Requests -> Levels]
  /\ pc \in [Requests -> Pcs]
  /\ answer \in [Requests -> [code : Codes, txn : Requests \cup {None}]]

\* No account is overdrawn: the balance checked under the lock is the one debited,
\* at an isolation level that would let it change otherwise.
NoOverdraft == \A a \in Accounts : balance[a] >= 0

\* One row per key, of two requests that both looked the key up before either wrote.
AtMostOncePerKey ==
  \A r, s \in Requests :
    status[r] # None /\ status[s] # None /\ req[r].key = req[s].key => r = s

\* A row that was not rejected has moved money and has its entries, a rejected one
\* has neither; an answer names a row with the key that was asked for.
RowsSound ==
  /\ \A e \in entries : status[e.of] \in {"PENDING", "COMPLETED"}
  /\ \A r \in Requests : status[r] \in {"PENDING", "COMPLETED"} =>
       /\ Entry(r, From(r), "DEBIT") \in entries
       /\ IsTransfer(r) => Entry(r, To(r), "CREDIT") \in entries
  /\ \A r \in Requests :
       answer[r].code = "201" => /\ answer[r].txn \in Requests
                                 /\ status[answer[r].txn] # None
                                 /\ req[answer[r].txn].key = req[r].key

\* Only the worst case is rejected: a very large amount to a third party in another
\* currency.  The scores of any three of the four factors, with the most noise, stay
\* below the threshold.
OnlyExtremeRejected ==
  \A r \in Requests :
    status[r] = "REJECTED" =>
      Amount(r) > 50000 /\ Call(r).foreign /\ ~IsInternal(Call(r))

\* Only opposite transfers ever wait for each other: the key, which any two requests
\* may share, is the last thing a transaction locks.
OnlyOppositeTransfersDeadlock ==
  \A r, s \in Requests :
    Waits(r, s) /\ Waits(s, r) => /\ From(r) = To(s) /\ From(s) = To(r)
                                 /\ IsTransfer(r) /\ IsTransfer(s)

-----------------------------------------------------------------------------
(* The inductive invariant.                                                *)

Extreme(c) == c.amount > 50000 /\ c.foreign /\ ~IsInternal(c)

\* Where a request may be, and what it has checked by then.
HandlerSound(r) ==
  /\ pc[r] # "new" => req[r] \in [call : Calls, key : Keys]
  /\ pc[r] # "done" => status[r] = None /\ answer[r].code = "none"
  /\ pc[r] \notin {"new", "done", "lookup", "accounts"} => From(r) # To(r)
  /\ pc[r] = "dest" => IsTransfer(r)
  /\ pc[r] = "reject" => level[r] = "HIGH"
  /\ level[r] = "HIGH" => pc[r] \in {"reject", "done"} /\ Extreme(Call(r))
  /\ status[r] = "REJECTED" => level[r] = "HIGH"

\* What a transaction has locked is its own, and as it was when it was checked.
LocksSound ==
  /\ \A r, s \in Requests : r # s => Holds(r) \cap Holds(s) = {}
  /\ \A r \in Requests :
       /\ pc[r] \in {"dest", "insert", "commit"} => balance[From(r)] >= Amount(r)
       /\ pc[r] = "commit" => KeyFree(r)

IndInv ==
  /\ TypeOK /\ NoOverdraft /\ AtMostOncePerKey /\ RowsSound
  /\ \A r \in Requests : HandlerSound(r)
  /\ LocksSound

-----------------------------------------------------------------------------
(* What is promised, with the merchants' side as an account.               *)

Moved(r) == [from |-> From(r), to |-> To(r), amount |-> Amount(r)]

Paid == [k \in Keys |->
  IF \E r \in RowsOf(k) : status[r] # "REJECTED"
  THEN Moved(CHOOSE r \in RowsOf(k) : status[r] # "REJECTED") ELSE None]

L == INSTANCE Ledger WITH
       Accounts <- Accounts \cup {Outside}, System <- {Outside}, Slots <- Keys,
       Amounts <- {c.amount : c \in Calls},
       Opening <- [a \in Accounts \cup {Outside} |->
                     IF a = Outside THEN 0 ELSE OpeningBalance[a]],
       Unpaid <- None,
       balance <- [a \in Accounts \cup {Outside} |->
                     IF a = Outside THEN spent ELSE balance[a]],
       paid <- Paid

\* The earlier backend, with other means, keeps the promise of the later one.
ImplementsLedger == L!LedgerSpec
=============================================================================
