------------------------------ MODULE Payments ------------------------------
(***************************************************************************)
(* The payment service of backend/src/payments and the admin funding       *)
(* operation of backend/src/admin, as concurrent HTTP handlers over one    *)
(* PostgreSQL database (through Prisma) and one Redis.                     *)
(*                                                                         *)
(* A request is one HTTP call; a client's retry is another request.  Its   *)
(* handler moves through the awaits of the code:                           *)
(*                                                                         *)
(*   new -> kyc -> fraud -> begin -> key -> debit -> credit -> notify      *)
(*       -> commit -> respond -> done                                      *)
(*                                                                         *)
(* From "key" to "commit" it is inside a SERIALIZABLE transaction.  The    *)
(* transaction's reads come from the snapshot taken at "begin"; its writes *)
(* take row locks in the order of the statements (idempotency row, source  *)
(* account, destination account) and wait for a lock another transaction   *)
(* holds.  A row that another transaction committed a change to since the  *)
(* snapshot is stale: writing it is a serialization failure (P2034).       *)
(*                                                                         *)
(* The state of an uncommitted transaction is its handler's, so a rollback *)
(* is a step that changes nothing else; "notify" is a write through        *)
(* another connection, which no rollback undoes.                           *)
(***************************************************************************)
EXTENDS Integers, FiniteSets

CONSTANTS
  Users, Accounts, Keys,
  System,            \* accounts with isSystem = true
  Owner,             \* the user whose profile owns an account
  Payees,            \* beneficiaries
  PayeeOwner,        \* the user who saved a beneficiary
  PayeeAccount,      \* the account its iban resolves to (here, or EXTERNAL_SETTLEMENT)
  Merchants, ActiveMerchants,
  Settlement,        \* a merchant's settlement account
  Calls,             \* the request bodies clients send
  Threshold,         \* STEP_UP_THRESHOLD
  MaxAttempts,       \* SERIALIZABLE_RETRIES
  OpeningBalance,    \* balances the seed creates
  Requests,          \* HTTP requests of the run
  NoKey, None

Kinds == {"INTERNAL", "BENEFICIARY", "MERCHANT", "CREDIT"}

CallType ==
  [kind : Kinds, from : Accounts, to : Accounts \cup Payees \cup Merchants,
   amount : Nat \ {0}]

\* The account a call credits: named, looked up by the payee's iban, or the
\* merchant's settlement account.
Dest(c) ==
  CASE c.kind = "BENEFICIARY" -> PayeeAccount[c.to]
    [] c.kind = "MERCHANT"    -> Settlement[c.to]
    [] OTHER                  -> c.to

WellFormed(c) ==
  /\ c.kind \in {"INTERNAL", "CREDIT"} => c.to \in Accounts
  /\ c.kind = "BENEFICIARY" => c.to \in Payees
  /\ c.kind = "MERCHANT" => c.to \in Merchants
  \* creditAccount picks some system account: the database's choice is the call's
  /\ c.kind = "CREDIT" => c.from \in System

ASSUME PaymentsAssumption ==
  /\ System \subseteq Accounts
  /\ Owner \in [Accounts -> Users]
  /\ PayeeOwner \in [Payees -> Users]
  /\ PayeeAccount \in [Payees -> Accounts]
  /\ Settlement \in [Merchants -> System]
  /\ ActiveMerchants \subseteq Merchants
  /\ Calls \subseteq CallType
  /\ \A c \in Calls : WellFormed(c)
  /\ Threshold \in Nat
  /\ MaxAttempts \in Nat \ {0}
  /\ OpeningBalance \in [Accounts -> Int]
  /\ \A a \in Accounts \ System : OpeningBalance[a] >= 0
  /\ NoKey \notin Keys
  /\ None \notin Requests \cup Users
  /\ None \notin [from : Accounts, to : Accounts, amount : {c.amount : c \in Calls}]

VARIABLES
  balance,     \* account -> availableBalance
  rows,        \* (user, key) -> the committed IdempotencyKey row
  posted,      \* requests whose Transaction row (with its two entries) is committed
  notices,     \* (request, user): a "posted" notification was written to the user
  challenges,  \* requests whose step-up challenge is alive in Redis
  verified,    \* users whose kycStatus is VERIFIED
  active,      \* beneficiaries whose status is ACTIVE
  req,         \* request -> what it asks for
  pc,          \* request -> where its handler is
  attempt,     \* request -> number of the transaction attempt
  allowed,     \* request -> the snapshot passes the business checks
  stale,       \* request -> rows it writes that others changed since its snapshot
  answer       \* request -> the HTTP response

db == <<balance, rows, posted>>
env == <<verified, active>>
tx == <<attempt, allowed, stale>>
vars == <<db, notices, challenges, env, req, pc, tx, answer>>

RowStatus == {"ABSENT", "IN_PROGRESS", "COMPLETED", "FAILED"}
NoRow == [status |-> "ABSENT", by |-> None]
Row == [status : RowStatus, by : Requests \cup {None}]

Pcs == {"new", "kyc", "del", "fraud", "begin", "key", "debit", "credit", "notify",
        "commit", "respond", "done"}
InTx == {"key", "debit", "credit", "notify", "commit"}

NoRequest == [user |-> None, key |-> NoKey, call |-> None, via |-> None]
Request ==
  [user : Users, key : Keys \cup {NoKey}, call : Calls, via : Requests \cup {None}]

Codes == {"none", "200", "201", "400", "403", "step-up", "409", "500", "lost"}
Answer(code, txn) == [code |-> code, txn |-> txn]

-----------------------------------------------------------------------------
(* What a handler works on.                                                *)

Slot(r) == <<req[r].user, req[r].key>>
From(r) == req[r].call.from
To(r) == Dest(req[r].call)
Amount(r) == req[r].call.amount
IsPayment(r) == req[r].call.kind # "CREDIT"

\* The rows an open transaction is to write, and those it has locked so far.
Footprint(r) == {From(r), To(r)} \cup (IF IsPayment(r) THEN {Slot(r)} ELSE {})
Holds(r) ==
  (IF pc[r] \in {"debit", "credit", "notify", "commit"} /\ IsPayment(r)
   THEN {Slot(r)} ELSE {})
  \cup (IF pc[r] \in {"credit", "notify", "commit"} THEN {From(r)} ELSE {})
  \cup (IF pc[r] \in {"notify", "commit"} THEN {To(r)} ELSE {})

Wants(r) ==
  CASE pc[r] = "key"    -> {Slot(r)}
    [] pc[r] = "debit"  -> IF allowed[r] THEN {From(r)} ELSE {}
    [] pc[r] = "credit" -> {To(r)}
    [] OTHER            -> {}

Waits(r, s) == r # s /\ Wants(r) \cap Holds(s) # {}
Blocked(r) == \E s \in Requests : Waits(r, s)

\* Faulty: a merchant payment notifies the way the other payments do.
NextPcAlwaysNotify(r) ==
  CASE pc[r] = "key"    -> "debit"
    [] pc[r] = "debit"  -> "credit"
    [] pc[r] = "credit" -> "notify"

NextPc(r) ==
  CASE pc[r] = "key"    -> "debit"
    [] pc[r] = "debit"  -> "credit"
    [] pc[r] = "credit" -> IF req[r].call.kind = "MERCHANT" THEN "commit" ELSE "notify"

\* Handler r ends with a response; an open transaction of its is rolled back.
Finish(r, code, txn) ==
  /\ pc' = [pc EXCEPT ![r] = "done"]
  /\ answer' = [answer EXCEPT ![r] = Answer(code, txn)]
  /\ stale' = [stale EXCEPT ![r] = {}]
  /\ allowed' = [allowed EXCEPT ![r] = FALSE]
  /\ UNCHANGED attempt

Goto(r, l) ==
  /\ pc' = [pc EXCEPT ![r] = l]
  /\ UNCHANGED <<tx, answer>>

-----------------------------------------------------------------------------
(* Before the transaction.                                                 *)

\* POST /payments/transfer, /transfer-to-beneficiary, /pay-merchant
Receive(r, u, k, c) ==
  /\ pc[r] = "new"
  /\ c.kind # "CREDIT"
  /\ req' = [req EXCEPT ![r] = [user |-> u, key |-> k, call |-> c, via |-> None]]
  /\ Goto(r, "kyc")
  /\ UNCHANGED <<db, notices, challenges, env>>

\* POST /admin/accounts/:id/credit
ReceiveCredit(r, u, c) ==
  /\ pc[r] = "new"
  /\ c.kind = "CREDIT"
  /\ req' = [req EXCEPT ![r] = [user |-> u, key |-> NoKey, call |-> c, via |-> None]]
  /\ Goto(r, "begin")
  /\ UNCHANGED <<db, notices, challenges, env>>

\* POST /payments/confirm-step-up: Redis GET under the caller's own prefix and
\* the OTP comparison.  The challenge is named by the request that raised it.
ReceiveConfirm(r, ch) ==
  /\ pc[r] = "new"
  /\ ch \in challenges
  /\ req' = [req EXCEPT ![r] = [req[ch] EXCEPT !.via = ch]]
  /\ Goto(r, "del")
  /\ UNCHANGED <<db, notices, challenges, env>>

\* ... with no such challenge, or a wrong OTP; a payment without a key.
Refuse(r) ==
  /\ pc[r] = "new"
  /\ Finish(r, "400", None)
  /\ UNCHANGED <<db, notices, challenges, env, req>>

\* Redis DEL, whose count of deleted keys the code ignores
DeleteChallenge(r) ==
  /\ pc[r] = "del"
  /\ challenges' = challenges \ {req[r].via}
  /\ Goto(r, "kyc")
  /\ UNCHANGED <<db, notices, env, req>>

\* The profile is read outside the transaction.
PassKyc(r) ==
  /\ pc[r] = "kyc"
  /\ req[r].user \in verified
  /\ req[r].call.kind = "INTERNAL" => From(r) # To(r)
  /\ Goto(r, IF req[r].via = None THEN "fraud" ELSE "begin")
  /\ UNCHANGED <<db, notices, challenges, env, req>>

FailKyc(r) ==
  /\ pc[r] = "kyc"
  /\ \/ req[r].user \notin verified /\ Finish(r, "403", None)
     \/ /\ req[r].user \in verified
        /\ req[r].call.kind = "INTERNAL" /\ From(r) = To(r)
        /\ Finish(r, "400", None)
  /\ UNCHANGED <<db, notices, challenges, env, req>>

\* Faulty: the threshold is off by one.
NeedsStepUpOffByOne(r) ==
  /\ Amount(r) > Threshold + 1
  /\ rows[Slot(r)].status # "COMPLETED"

\* runMockFraudCheck: a large amount needs a confirmation, unless the key's row
\* (read outside the transaction) says that the payment is already made.
NeedsStepUp(r) ==
  /\ Amount(r) > Threshold
  /\ rows[Slot(r)].status # "COMPLETED"

PassFraudCheck(r) ==
  /\ pc[r] = "fraud"
  /\ ~NeedsStepUp(r)
  /\ Goto(r, "begin")
  /\ UNCHANGED <<db, notices, challenges, env, req>>

IssueChallenge(r) ==
  /\ pc[r] = "fraud"
  /\ NeedsStepUp(r)
  /\ challenges' = challenges \cup {r}
  /\ Finish(r, "step-up", None)
  /\ UNCHANGED <<db, notices, env, req>>

-----------------------------------------------------------------------------
(* The transaction.                                                        *)

\* Faulty: the body is not compared with the one the row was made for.
ReplayAnyBody(r) ==
  LET row == rows[Slot(r)]
  IN  IF row.status = "COMPLETED" THEN Answer("200", row.by) ELSE Answer("409", None)

\* The response of a request whose key has a row: the stored response if the
\* body is the one the row was made for, else a conflict.
ReplayAnswer(r) ==
  LET row  == rows[Slot(r)]
      same == req[row.by].call = req[r].call
  IN  IF row.status = "COMPLETED" /\ same THEN Answer("200", row.by)
      ELSE IF row.status = "FAILED" /\ same /\ req[r].call.kind # "INTERNAL"
           THEN Answer("400", None)
      ELSE Answer("409", None)

\* The first statement takes the snapshot and finds the key's row.
Replay(r) ==
  /\ pc[r] = "begin"
  /\ IsPayment(r)
  /\ rows[Slot(r)].status # "ABSENT"
  /\ Finish(r, ReplayAnswer(r).code, ReplayAnswer(r).txn)
  /\ UNCHANGED <<db, notices, challenges, env, req>>

\* Faulty: the funds are not checked.
FundedUnchecked(r) == TRUE

Funded(r) == balance[From(r)] >= Amount(r)

\* The checks on rows other than the key's, as the snapshot shows them.  An own
\* transfer does not ask whether its source is a system account.
Checks(r) ==
  LET c == req[r].call
      u == req[r].user
  IN  CASE c.kind = "INTERNAL"    -> /\ Owner[c.from] = u
                                     /\ Owner[c.to] = u
                                     /\ Funded(r)
        [] c.kind = "BENEFICIARY" -> /\ Owner[c.from] = u /\ c.from \notin System
                                     /\ Funded(r)
                                     /\ PayeeOwner[c.to] = u /\ c.to \in active
                                     /\ Dest(c) # c.from
        [] c.kind = "MERCHANT"    -> /\ Owner[c.from] = u /\ c.from \notin System
                                     /\ c.to \in ActiveMerchants
                                     /\ Funded(r)
        [] OTHER                  -> c.to \notin System

\* Faulty: the key is not looked up.
FindsAnything(r) == TRUE

FindsNoRow(r) == IsPayment(r) => rows[Slot(r)].status = "ABSENT"

\* ... or finds none, and the transaction goes on from this snapshot.
Begin(r) ==
  /\ pc[r] = "begin"
  /\ FindsNoRow(r)
  /\ pc' = [pc EXCEPT ![r] = IF IsPayment(r) THEN "key" ELSE "debit"]
  /\ allowed' = [allowed EXCEPT ![r] = Checks(r)]
  /\ stale' = [stale EXCEPT ![r] = {}]
  /\ UNCHANGED <<db, notices, challenges, env, req, attempt, answer>>

\* Faulty: an isolation level that lets a transaction write what others changed
\* since it looked.
WritesStale(r) == ~Blocked(r)

\* What the isolation level the code asks for lets a transaction write.
MayWrite(r) == ~Blocked(r) /\ Wants(r) \cap stale[r] = {}

\* The INSERT of the key's row, the UPDATE of the source (whose WHERE asks for
\* the funds again, in the snapshot) and the UPDATE of the destination.
Acquire(r) ==
  /\ Wants(r) # {}
  /\ MayWrite(r)
  /\ Goto(r, NextPc(r))
  /\ UNCHANGED <<db, notices, challenges, env, req>>

\* Faulty: the FAILED status survives the exception.
RejectKeepsRow(r) ==
  /\ pc[r] = "debit"
  /\ ~allowed[r]
  /\ Finish(r, "400", None)
  /\ rows' = IF IsPayment(r)
             THEN [rows EXCEPT ![Slot(r)] = [status |-> "FAILED", by |-> r]] ELSE rows
  /\ UNCHANGED <<balance, posted, notices, challenges, env, req>>

\* A business check fails: the exception rolls the transaction back, with the
\* key's row and the FAILED status the code writes to it before it throws.  (A
\* credit to an unknown or system account is a 404.)
Reject(r) ==
  /\ pc[r] = "debit"
  /\ ~allowed[r]
  /\ Finish(r, "400", None)
  /\ UNCHANGED <<db, notices, challenges, env, req>>

\* Faulty: the attempts are not counted; one attempt too many is made.
RestartUncounted(r) ==
  /\ pc' = [pc EXCEPT ![r] = "begin"]
  /\ stale' = [stale EXCEPT ![r] = {}]
  /\ allowed' = [allowed EXCEPT ![r] = FALSE]
  /\ UNCHANGED <<attempt, answer>>
MayRetryOnceMore(r) == IsPayment(r) /\ attempt[r] <= MaxAttempts

\* P2034: try again, at most MaxAttempts times; an admin credit is never retried.
Restart(r) ==
  /\ attempt' = [attempt EXCEPT ![r] = @ + 1]
  /\ pc' = [pc EXCEPT ![r] = "begin"]
  /\ stale' = [stale EXCEPT ![r] = {}]
  /\ allowed' = [allowed EXCEPT ![r] = FALSE]
  /\ UNCHANGED answer

MayRetry(r) == IsPayment(r) /\ attempt[r] < MaxAttempts

TryAgain(r) == IF MayRetry(r) THEN Restart(r) ELSE Finish(r, "500", None)

\* The row to write was changed since the snapshot.
ConflictAbort(r) ==
  /\ Wants(r) \cap stale[r] # {}
  /\ ~Blocked(r)
  /\ TryAgain(r)
  /\ UNCHANGED <<db, notices, challenges, env, req>>

\* ... the same for the key's row, reported as a unique violation (P2002).  An
\* own transfer reads the row again in its own transaction, which PostgreSQL has
\* aborted (500) or whose snapshot predates the row (409); the others let it pass.
UniqueViolation(r) ==
  /\ pc[r] = "key"
  /\ Slot(r) \in stale[r]
  /\ ~Blocked(r)
  /\ \/ Finish(r, "500", None)
     \/ req[r].call.kind = "INTERNAL" /\ Finish(r, "409", None)
  /\ UNCHANGED <<db, notices, challenges, env, req>>

\* PostgreSQL aborts a transaction that is part of a cycle of waiting ones.
InWaitCycle(r) ==
  \E S \in SUBSET Requests :
     /\ r \in S
     /\ \A s \in S : (\E t \in S : Waits(s, t)) /\ (\E t \in S : Waits(t, s))

DeadlockAbort(r) ==
  /\ InWaitCycle(r)
  /\ TryAgain(r)
  /\ UNCHANGED <<db, notices, challenges, env, req>>

\* Serializable isolation may refuse any open transaction, at its commit too.
SerializationAbort(r) ==
  /\ pc[r] \in InTx
  /\ TryAgain(r)
  /\ UNCHANGED <<db, notices, challenges, env, req>>

\* maxWait or timeout of the interactive transaction (P2028), never retried.
Timeout(r) ==
  /\ pc[r] \in InTx \cup {"begin"}
  /\ Finish(r, "500", None)
  /\ UNCHANGED <<db, notices, challenges, env, req>>

\* NotificationsService.create swallows its errors: some of the users concerned
\* are told, through a connection of its own, before the transaction commits.
Recipients(r) ==
  CASE req[r].call.kind = "BENEFICIARY" /\ To(r) \notin System -> {req[r].user, Owner[To(r)]}
    [] req[r].call.kind = "CREDIT" -> {Owner[To(r)]}
    [] OTHER -> {req[r].user}

Notify(r) ==
  /\ pc[r] = "notify"
  /\ \E told \in SUBSET Recipients(r) : notices' = notices \cup ({r} \X told)
  /\ Goto(r, "commit")
  /\ UNCHANGED <<db, challenges, env, req>>

\* Faulty: the source is not debited.
MoveMoneyCreditOnly(r) == balance' = [balance EXCEPT ![To(r)] = @ + Amount(r)]

MoveMoney(r) ==
  balance' = [balance EXCEPT ![From(r)] = @ - Amount(r), ![To(r)] = @ + Amount(r)]

\* Everything the transaction wrote becomes visible: both balances, the
\* Transaction with its two entries, the COMPLETED key row, the audit event and,
\* for a merchant payment, the notification.
Commit(r) ==
  /\ pc[r] = "commit"
  /\ MoveMoney(r)
  /\ posted' = posted \cup {r}
  /\ rows' = IF IsPayment(r)
             THEN [rows EXCEPT ![Slot(r)] = [status |-> "COMPLETED", by |-> r]]
             ELSE rows
  /\ notices' = IF req[r].call.kind = "MERCHANT"
                THEN notices \cup ({r} \X Recipients(r)) ELSE notices
  /\ stale' = [s \in Requests |->
                 IF s # r /\ pc[s] \in InTx
                 THEN stale[s] \cup (Footprint(s) \cap Holds(r)) ELSE {}]
  /\ pc' = [pc EXCEPT ![r] = "respond"]
  /\ UNCHANGED <<challenges, env, req, attempt, allowed, answer>>

Respond(r) ==
  /\ pc[r] = "respond"
  /\ Finish(r, "201", r)
  /\ UNCHANGED <<db, notices, challenges, env, req>>

-----------------------------------------------------------------------------
(* The rest of the system.                                                 *)

\* The server process stops and starts again: every handler in flight is lost,
\* PostgreSQL rolls its transaction back, Redis keeps the challenges.
InFlight(r) == pc[r] \notin {"new", "done"}

Crash ==
  /\ \E r \in Requests : InFlight(r)
  /\ pc' = [r \in Requests |-> IF InFlight(r) THEN "done" ELSE pc[r]]
  /\ answer' = [r \in Requests |-> IF InFlight(r) THEN Answer("lost", None) ELSE answer[r]]
  /\ stale' = [r \in Requests |-> {}]
  /\ allowed' = [r \in Requests |-> FALSE]
  /\ UNCHANGED <<db, notices, challenges, env, req, attempt>>

\* The 300 seconds of a challenge are over.
ExpireChallenge(ch) ==
  /\ ch \in challenges
  /\ challenges' = challenges \ {ch}
  /\ UNCHANGED <<db, notices, env, req, pc, tx, answer>>

\* AdminService.updateKycStatus: verify or reject
SetKyc(u) ==
  /\ verified' \in {verified \cup {u}, verified \ {u}}
  /\ UNCHANGED <<db, notices, challenges, active, req, pc, tx, answer>>

\* BeneficiariesService: archive, or activate again
SetPayee(p) ==
  /\ active' \in {active \cup {p}, active \ {p}}
  /\ UNCHANGED <<db, notices, challenges, verified, req, pc, tx, answer>>

-----------------------------------------------------------------------------

Init ==
  /\ balance = OpeningBalance
  /\ rows = [slot \in Users \X Keys |-> NoRow]
  /\ posted = {}
  /\ notices = {}
  /\ challenges = {}
  /\ verified = Users
  /\ active = Payees
  /\ req = [r \in Requests |-> NoRequest]
  /\ pc = [r \in Requests |-> "new"]
  /\ attempt = [r \in Requests |-> 1]
  /\ allowed = [r \in Requests |-> FALSE]
  /\ stale = [r \in Requests |-> {}]
  /\ answer = [r \in Requests |-> Answer("none", None)]

Arrive(r) ==
  \/ \E u \in Users, k \in Keys, c \in Calls : Receive(r, u, k, c)
  \/ \E u \in Users, c \in Calls : ReceiveCredit(r, u, c)
  \/ \E ch \in Requests : ReceiveConfirm(r, ch)
  \/ Refuse(r)

\* What the server and the database do for r once it has arrived.
Handle(r) ==
  \/ DeleteChallenge(r) \/ PassKyc(r) \/ FailKyc(r)
  \/ PassFraudCheck(r) \/ IssueChallenge(r)
  \/ Replay(r) \/ Begin(r) \/ Acquire(r) \/ Reject(r)
  \/ ConflictAbort(r) \/ DeadlockAbort(r)
  \/ Notify(r) \/ Commit(r) \/ Respond(r)

\* What may go wrong, and need not.
Disturb(r) == UniqueViolation(r) \/ SerializationAbort(r) \/ Timeout(r)

Next ==
  \/ \E r \in Requests : Arrive(r) \/ Handle(r) \/ Disturb(r) \/ ExpireChallenge(r)
  \/ Crash
  \/ \E u \in Users : SetKyc(u)
  \/ \E p \in Payees : SetPayee(p)

\* Node's event loop and PostgreSQL keep serving what they have begun.
Fairness == \A r \in Requests : WF_vars(Handle(r))

Safety == Init /\ [][Next]_vars
Spec == Safety /\ Fairness

-----------------------------------------------------------------------------
(* Properties.                                                             *)

\* Two requests of one user with one key and one body.
SameRequest(r, s) ==
  req[r].user = req[s].user /\ req[r].key = req[s].key /\ req[r].call = req[s].call

\* The types of the variables.  Amounts stay positive, a request never makes more
\* attempts than SERIALIZABLE_RETRIES and every answer is one the code can give.
TypeOK ==
  /\ balance \in [Accounts -> Int]
  /\ rows \in [Users \X Keys -> Row]
  /\ posted \subseteq Requests
  /\ notices \subseteq Requests \X Users
  /\ challenges \subseteq Requests
  /\ verified \subseteq Users
  /\ active \subseteq Payees
  /\ req \in [Requests -> Request \cup {NoRequest}]
  /\ pc \in [Requests -> Pcs]
  /\ attempt \in [Requests -> 1..MaxAttempts]
  /\ allowed \in [Requests -> BOOLEAN]
  /\ stale \in [Requests -> SUBSET (Accounts \cup (Users \X Keys))]
  /\ answer \in [Requests -> [code : Codes, txn : Requests \cup {None}]]

\* Concurrent debits never overdraw a customer: the balance each of them checked
\* is the one in its snapshot, and other transactions commit in between.
NoOverdraft == \A a \in Accounts \ System : balance[a] >= 0

\* However requests with one user and key race, retry, are confirmed or crash, at
\* most one of them moves money.
AtMostOncePerKey ==
  \A r, s \in posted : IsPayment(r) /\ IsPayment(s) /\ Slot(r) = Slot(s) => r = s

\* A key's row and the posting it stands for are committed together: no crash,
\* abort or timeout leaves a key IN_PROGRESS or FAILED (it would be refused for
\* ever), COMPLETED without its transaction, or a payment without its key.
KeyRowsMatchPostings ==
  /\ \A slot \in Users \X Keys :
       \/ rows[slot] = NoRow
       \/ /\ rows[slot].status = "COMPLETED"
          /\ rows[slot].by \in posted
          /\ IsPayment(rows[slot].by)
          /\ Slot(rows[slot].by) = slot
  /\ \A r \in posted : IsPayment(r) => rows[Slot(r)].by = r

\* The step-up request ch stands for what r asks for.
Confirms(ch, r) ==
  ch # None /\ answer[ch].code = "step-up" /\ SameRequest(ch, r)

\* A client can trust the response: 200 and 201 name a posted transaction of the
\* same user, key and body, and a request that was refused moved no money.
AnswersAreTrue ==
  \A r \in Requests :
     /\ answer[r].code \in {"200", "201"} =>
          answer[r].txn \in posted /\ SameRequest(answer[r].txn, r)
     /\ answer[r].code \in {"400", "403", "step-up", "409", "500"} => r \notin posted

\* No large payment is posted without a confirmation: a challenge was issued for
\* this very user, key and body.  The fraud check lets a request through on a row
\* it reads before the transaction and never looks at again.
LargePaymentsConfirmed ==
  \A r \in posted :
     IsPayment(r) /\ Amount(r) > Threshold => Confirms(req[r].via, r)

\* A merchant payment's notification is written if and only if it is posted, in
\* spite of aborts and retries.
MerchantNoticeAtomic ==
  \A r \in Requests :
     req[r] # NoRequest /\ pc[r] # "new" /\ req[r].call.kind = "MERCHANT" =>
       ((\E u \in Users : <<r, u>> \in notices) <=> r \in posted)

\* Two open transactions never hold a lock on one row, and what a transaction
\* concluded from its snapshot still holds of every row that is not marked stale:
\* it may write the row without looking again.
OpenTransactionsSound ==
  /\ \A r, s \in Requests : r # s => Holds(r) \cap Holds(s) = {}
  /\ \A r \in Requests : pc[r] \in InTx =>
       /\ Holds(r) \cap stale[r] = {}
       /\ IsPayment(r) /\ Slot(r) \notin stale[r] => rows[Slot(r)] = NoRow
       /\ IsPayment(r) /\ allowed[r] /\ From(r) \notin stale[r]
            => balance[From(r)] >= Amount(r)

\* The money a set of requests moves, counted unit by unit.
Units(R) == UNION {{r} \X (1..Amount(r)) : r \in R}
Total(R) == Cardinality(Units(R))

Credits(a) == {r \in posted : To(r) = a}
Debits(a) == {r \in posted : From(r) = a}

\* Every balance is its opening balance and the postings on it: no update is
\* lost, and none is visible without its transaction.
LedgerBacked ==
  \A a \in Accounts :
     balance[a] = OpeningBalance[a] + Total(Credits(a)) - Total(Debits(a))

\* Every request that arrived is answered, or lost in a crash: deadlocks between
\* opposite transfers are broken and the retries end.
EveryRequestEnds == \A r \in Requests : pc[r] # "new" ~> pc[r] = "done"

\* A user is told "has been posted" only about payments that are posted.
NoticesAreTrue ==
  \A r \in Requests, u \in Users :
     <<r, u>> \in notices /\ pc[r] = "done" => r \in posted

\* Customers' payments only take money from accounts that are not the bank's own.
PaymentsSpareSystemAccounts ==
  \A r \in posted : IsPayment(r) => From(r) \notin System

-----------------------------------------------------------------------------
(* The inductive invariant: the properties above and what links them.      *)

\* Requests know what they ask for once they have arrived, and a confirmation
\* asks for exactly what its challenge was issued for.
RequestSound(r) ==
  /\ pc[r] = "new" => req[r] = NoRequest
  /\ pc[r] \notin {"new", "done"} \/ r \in posted \cup challenges => req[r] \in Request
  /\ pc[r] \in {"del", "kyc", "fraud", "key"} => IsPayment(r)
  /\ pc[r] = "fraud" => req[r].via = None
  /\ pc[r] \in InTx \cup {"fraud", "begin"} /\ req[r].call.kind = "INTERNAL" =>
       From(r) # To(r)
  /\ req[r] \in Request => (IsPayment(r) <=> req[r].key \in Keys)
  /\ r \in challenges => IsPayment(r) /\ req[r].via = None /\ answer[r].code = "step-up"
  /\ req[r].via # None => req[r].via \in Requests /\ Confirms(req[r].via, r)

RequestsSound == \A r \in Requests : RequestSound(r)

\* Where a request is agrees with what it has done.
Progress(r) ==
  /\ r \in posted => pc[r] \in {"respond", "done"}
  /\ pc[r] = "respond" => r \in posted
  /\ pc[r] # "done" <=> answer[r].code = "none"
  /\ pc[r] \in InTx \cup {"begin"} /\ IsPayment(r) /\ Amount(r) > Threshold =>
       \/ req[r].via # None
       \/ pc[r] = "begin" /\ rows[Slot(r)].status = "COMPLETED"
  /\ pc[r] \in {"credit", "notify", "commit"} => allowed[r]
  /\ pc[r] \in InTx /\ allowed[r] => From(r) # To(r)
  /\ pc[r] \in InTx /\ allowed[r] /\ ~IsPayment(r) => To(r) \notin System

ProgressSound == \A r \in Requests : Progress(r)

\* Nobody is told of a request that has not arrived, and a merchant payment tells
\* nobody but in its commit.
NoticesSound ==
  /\ \A r \in Requests, u \in Users : <<r, u>> \in notices => pc[r] # "new"
  /\ \A r \in Requests : pc[r] = "notify" => req[r].call.kind # "MERCHANT"

\* The postings of a run are finitely many: what they move can be added up.
FinitePostings == IsFiniteSet(Units(posted))

IndInv ==
  /\ TypeOK
  /\ RequestsSound
  /\ ProgressSound
  /\ OpenTransactionsSound
  /\ KeyRowsMatchPostings
  /\ AnswersAreTrue
  /\ LargePaymentsConfirmed
  /\ NoOverdraft
  /\ NoticesSound
  /\ MerchantNoticeAtomic
  /\ FinitePostings
  /\ LedgerBacked

-----------------------------------------------------------------------------
(* Payments implements Ledger: a slot has paid what its committed row says. *)

Moved(r) == [from |-> From(r), to |-> To(r), amount |-> Amount(r)]

Paid == [slot \in Users \X Keys |->
           IF rows[slot].status = "COMPLETED" THEN Moved(rows[slot].by) ELSE None]

L == INSTANCE Ledger WITH
       Slots <- Users \X Keys,
       Amounts <- {c.amount : c \in Calls},
       Opening <- OpeningBalance,
       Unpaid <- None,
       paid <- Paid

\* Every step of the service is a whole movement of money for a free idempotency
\* slot, the funding of a customer, or invisible.
ImplementsLedger == L!LedgerSpec

-----------------------------------------------------------------------------
(* Payments implements PaymentApi: a call has asked once its request has   *)
(* arrived, and what it is answered is decided when its payment commits,   *)
(* whether or not the answer ever leaves the server.                       *)

AsksToPay(r) == req[r] # NoRequest /\ IsPayment(r)

Asked == [r \in Requests |->
  IF AsksToPay(r)
  THEN [kind |-> IF req[r].via = None THEN "submit" ELSE "confirm", slot |-> Slot(r),
        body |-> req[r].call, challenge |-> req[r].via]
  ELSE [kind |-> "none"]]

Decided(r) ==
  CASE r \in posted            -> [code |-> "paid", by |-> r]
    [] answer[r].code = "200"  -> [code |-> "paid", by |-> answer[r].txn]
    [] answer[r].code = "step-up" -> [code |-> "step-up", by |-> None]
    [] answer[r].code \in {"400", "403", "409", "500"} -> [code |-> "refused", by |-> None]
    [] OTHER                   -> [code |-> "none", by |-> None]

Replied == [r \in Requests |->
  IF AsksToPay(r) THEN Decided(r) ELSE [code |-> "none", by |-> None]]

PaymentBodies == {c \in Calls : c.kind # "CREDIT"}
LargeBodies == {c \in PaymentBodies : c.amount > Threshold}

Api == INSTANCE PaymentApi WITH
         Calls <- Requests,
         Slots <- Users \X Keys,
         Bodies <- PaymentBodies,
         Large <- LargeBodies,
         asked <- Asked,
         reply <- Replied,
         posted <- {r \in posted : IsPayment(r)},
         row <- [slot \in Users \X Keys |-> rows[slot].by]

\* The service is the server the payment pages are written for: whatever its handlers
\* go through, every answer it has decided on is one PaymentApi allows at that moment.
ImplementsApi == Api!ApiSpec
=============================================================================
