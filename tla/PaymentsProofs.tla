--------------------------- MODULE PaymentsProofs ---------------------------
(***************************************************************************)
(* Proofs about Payments, for any users, accounts, keys, bodies, number of *)
(* requests and number of attempts.                                        *)
(***************************************************************************)
EXTENDS Payments, FiniteSetTheorems, TLAPS

USE DEF Answer, NoRow, NoRequest

LEMMA CallFacts ==
  ASSUME NEW c \in Calls
  PROVE  /\ c \in CallType
         /\ c.kind \in Kinds
         /\ c.from \in Accounts
         /\ Dest(c) \in Accounts
         /\ c.amount \in Nat \ {0}
         /\ c.kind = "CREDIT" => c.from \in System
         /\ c.kind = "MERCHANT" => Dest(c) \in System
<1>1. /\ c \in CallType
      /\ WellFormed(c)
  BY PaymentsAssumption
<1>2. /\ c.kind \in Kinds
      /\ c.from \in Accounts
      /\ c.amount \in Nat \ {0}
  BY <1>1 DEF CallType
<1>3. Dest(c) \in Accounts /\ (c.kind = "MERCHANT" => Dest(c) \in System)
  BY <1>1, <1>2, PaymentsAssumption DEF WellFormed, Dest, Kinds
<1> QED
  BY <1>1, <1>2, <1>3 DEF WellFormed

\* What is known of a request whose fields are set.
LEMMA RequestFacts ==
  ASSUME TypeOK, NEW r \in Requests, req[r] \in Request
  PROVE  /\ req[r].user \in Users
         /\ req[r].key \in Keys \cup {NoKey}
         /\ req[r].call \in Calls
         /\ req[r].via \in Requests \cup {None}
         /\ From(r) \in Accounts
         /\ To(r) \in Accounts
         /\ Amount(r) \in Nat \ {0}
         /\ ~IsPayment(r) => From(r) \in System
         /\ req[r].call.kind \in Kinds
  BY CallFacts DEF Request, From, To, Amount, IsPayment

LEMMA InitIndInv == Init => IndInv
<1> SUFFICES ASSUME Init PROVE IndInv
  OBVIOUS
<1> USE DEF Init
<1>1. TypeOK
  BY PaymentsAssumption DEF TypeOK, Row, RowStatus, Pcs, Codes
<1>2. RequestsSound
  BY PaymentsAssumption DEF RequestsSound, RequestSound, InTx, Request
<1>3. ProgressSound
  BY DEF ProgressSound, Progress, InTx
<1>4. OpenTransactionsSound
  BY DEF OpenTransactionsSound, InTx, Holds
<1>5. KeyRowsMatchPostings /\ AnswersAreTrue /\ LargePaymentsConfirmed
  BY DEF KeyRowsMatchPostings, AnswersAreTrue, LargePaymentsConfirmed
<1>6. NoOverdraft
  BY PaymentsAssumption DEF NoOverdraft
<1>7. NoticesSound /\ MerchantNoticeAtomic
  BY DEF NoticesSound, MerchantNoticeAtomic
<1>8. Units({}) = {}
  BY DEF Units
<1>9. FinitePostings
  BY <1>8, FS_EmptySet DEF FinitePostings
<1>10. LedgerBacked
  <2>1. ASSUME NEW a \in Accounts
        PROVE  Total(Credits(a)) = 0 /\ Total(Debits(a)) = 0
    <3>1. Credits(a) = {} /\ Debits(a) = {}
      BY DEF Credits, Debits
    <3> QED
      BY <1>8, <3>1, FS_EmptySet DEF Total
  <2>2. ASSUME NEW a \in Accounts
        PROVE  balance[a] = OpeningBalance[a] + 0 - 0
    BY PaymentsAssumption
  <2> QED
    BY <2>1, <2>2 DEF LedgerBacked
<1> QED
  BY <1>1, <1>2, <1>3, <1>4, <1>5, <1>6, <1>7, <1>9, <1>10 DEF IndInv

-----------------------------------------------------------------------------
(* Types.                                                                  *)

LEMMA FinishType ==
  ASSUME TypeOK, NEW r \in Requests, NEW code \in Codes, NEW txn \in Requests \cup {None},
         Finish(r, code, txn)
  PROVE  /\ pc' \in [Requests -> Pcs]
         /\ attempt' \in [Requests -> 1..MaxAttempts]
         /\ allowed' \in [Requests -> BOOLEAN]
         /\ stale' \in [Requests -> SUBSET (Accounts \cup (Users \X Keys))]
         /\ answer' \in [Requests -> [code : Codes, txn : Requests \cup {None}]]
  BY DEF TypeOK, Finish, Pcs

LEMMA TryAgainType ==
  ASSUME TypeOK, NEW r \in Requests, TryAgain(r)
  PROVE  /\ pc' \in [Requests -> Pcs]
         /\ attempt' \in [Requests -> 1..MaxAttempts]
         /\ allowed' \in [Requests -> BOOLEAN]
         /\ stale' \in [Requests -> SUBSET (Accounts \cup (Users \X Keys))]
         /\ answer' \in [Requests -> [code : Codes, txn : Requests \cup {None}]]
<1>1. CASE MayRetry(r)
  <2>1. attempt[r] + 1 \in 1..MaxAttempts
    BY <1>1, PaymentsAssumption DEF MayRetry, TypeOK
  <2>2. Restart(r)
    BY <1>1 DEF TryAgain
  <2>3. attempt' \in [Requests -> 1..MaxAttempts]
    BY <2>1, <2>2 DEF Restart, TypeOK
  <2> QED
    BY <2>2, <2>3 DEF Restart, TypeOK, Pcs
<1>2. CASE ~MayRetry(r)
  <2>1. Finish(r, "500", None)
    BY <1>2 DEF TryAgain
  <2> QED
    BY <2>1, FinishType DEF Codes
<1> QED
  BY <1>1, <1>2

\* The identifiers of the steps are those of the actions of Next, in their order.
LEMMA TypeStep ==
  ASSUME IndInv, Next
  PROVE  TypeOK'
<1> TypeOK
  BY DEF IndInv
<1>1. ASSUME NEW r \in Requests, Arrive(r)
      PROVE  TypeOK'
  <2>1. ASSUME NEW u \in Users, NEW k \in Keys, NEW c \in Calls, Receive(r, u, k, c)
        PROVE  TypeOK'
    BY <2>1 DEF TypeOK, Receive, Goto, db, env, tx, Request, Pcs
  <2>2. ASSUME NEW u \in Users, NEW c \in Calls, ReceiveCredit(r, u, c)
        PROVE  TypeOK'
    BY <2>2 DEF TypeOK, ReceiveCredit, Goto, db, env, tx, Request, Pcs
  <2>3. ASSUME NEW ch \in Requests, ReceiveConfirm(r, ch)
        PROVE  TypeOK'
    <3>1. req[ch] \in Request
      BY <2>3 DEF ReceiveConfirm, IndInv, RequestsSound, RequestSound
    <3>2. [req[ch] EXCEPT !.via = ch] \in Request
      BY <3>1 DEF Request
    <3> QED
      BY <2>3, <3>2 DEF TypeOK, ReceiveConfirm, Goto, db, env, tx, Pcs
  <2>4. ASSUME Refuse(r)
        PROVE  TypeOK'
    BY <2>4, FinishType DEF TypeOK, Refuse, db, env, Codes
  <2> QED
    BY <1>1, <2>1, <2>2, <2>3, <2>4 DEF Arrive
<1>2. ASSUME NEW r \in Requests, Handle(r)
      PROVE  TypeOK'
  <2>1. CASE DeleteChallenge(r)
    BY <2>1 DEF TypeOK, DeleteChallenge, Goto, db, env, tx, Pcs
  <2>2. CASE PassKyc(r)
    BY <2>2 DEF TypeOK, PassKyc, Goto, db, env, tx, Pcs
  <2>3. CASE FailKyc(r)
    BY <2>3, FinishType DEF TypeOK, FailKyc, db, env, Codes
  <2>4. CASE PassFraudCheck(r)
    BY <2>4 DEF TypeOK, PassFraudCheck, Goto, db, env, tx, Pcs
  <2>5. CASE IssueChallenge(r)
    BY <2>5, FinishType DEF TypeOK, IssueChallenge, db, env, Codes
  <2>6. CASE Replay(r)
    <3>1. req[r] \in Request /\ req[r].key \in Keys
      BY <2>6 DEF Replay, IndInv, RequestsSound, RequestSound
    <3>2. rows[Slot(r)] \in Row
      BY <3>1, RequestFacts DEF TypeOK, Slot
    <3>3. ReplayAnswer(r).code \in Codes /\ ReplayAnswer(r).txn \in Requests \cup {None}
      BY <3>2 DEF ReplayAnswer, Row, Codes
    <3> QED
      BY <2>6, <3>3, FinishType DEF TypeOK, Replay, db, env
  <2>7. CASE Begin(r)
    <3>1. Checks(r) \in BOOLEAN
      BY DEF Checks
    <3> QED
      BY <2>7, <3>1 DEF TypeOK, Begin, db, env, Pcs
  <2>8. CASE Acquire(r)
    <3>1. NextPc(r) \in Pcs
      BY <2>8 DEF Acquire, Wants, NextPc, Pcs
    <3> QED
      BY <2>8, <3>1 DEF TypeOK, Acquire, Goto, db, env, tx
  <2>9. CASE Reject(r)
    BY <2>9, FinishType DEF TypeOK, Reject, db, env, Codes
  <2>10. CASE ConflictAbort(r)
    BY <2>10, TryAgainType DEF TypeOK, ConflictAbort, db, env
  <2>11. CASE DeadlockAbort(r)
    BY <2>11, TryAgainType DEF TypeOK, DeadlockAbort, db, env
  <2>12. CASE Notify(r)
    <3>1. Recipients(r) \subseteq Users
      <4>1. req[r] \in Request
        BY <2>12 DEF Notify, IndInv, RequestsSound, RequestSound
      <4> QED
        BY <4>1, RequestFacts, PaymentsAssumption DEF Recipients
    <3> QED
      BY <2>12, <3>1 DEF TypeOK, Notify, Goto, db, env, tx, Pcs
  <2>13. CASE Commit(r)
    <3>1. req[r] \in Request /\ (IsPayment(r) <=> req[r].key \in Keys)
      BY <2>13 DEF Commit, IndInv, RequestsSound, RequestSound
    <3>2. From(r) \in Accounts /\ To(r) \in Accounts /\ Amount(r) \in Int
      BY <3>1, RequestFacts
    <3>3. balance' \in [Accounts -> Int]
      BY <2>13, <3>2 DEF Commit, MoveMoney, TypeOK
    <3>4. rows' \in [Users \X Keys -> Row]
      BY <2>13 DEF Commit, TypeOK, Row, RowStatus
    <3>5. notices' \subseteq Requests \X Users
      BY <2>13, <3>1, RequestFacts, PaymentsAssumption DEF Commit, TypeOK, Recipients
    <3>6. stale' \in [Requests -> SUBSET (Accounts \cup (Users \X Keys))]
      <4>1. Holds(r) \subseteq Accounts \cup (Users \X Keys)
        BY <3>1, <3>2, RequestFacts DEF Holds, Footprint, Slot
      <4> QED
        BY <2>13, <4>1 DEF Commit, TypeOK
    <3> QED
      BY <2>13, <3>3, <3>4, <3>5, <3>6 DEF Commit, TypeOK, env, Pcs
  <2>14. CASE Respond(r)
    BY <2>14, FinishType DEF TypeOK, Respond, db, env, Codes
  <2> QED
    BY <1>2, <2>1, <2>2, <2>3, <2>4, <2>5, <2>6, <2>7, <2>8, <2>9, <2>10, <2>11,
       <2>12, <2>13, <2>14 DEF Handle
<1>3. ASSUME NEW r \in Requests, Disturb(r)
      PROVE  TypeOK'
  <2>1. CASE UniqueViolation(r)
    BY <2>1, FinishType DEF TypeOK, UniqueViolation, db, env, Codes
  <2>2. CASE SerializationAbort(r)
    BY <2>2, TryAgainType DEF TypeOK, SerializationAbort, db, env
  <2>3. CASE Timeout(r)
    BY <2>3, FinishType DEF TypeOK, Timeout, db, env, Codes
  <2> QED
    BY <1>3, <2>1, <2>2, <2>3 DEF Disturb
<1>4. ASSUME NEW r \in Requests, ExpireChallenge(r)
      PROVE  TypeOK'
  BY <1>4 DEF TypeOK, ExpireChallenge, db, env, tx
<1>5. CASE Crash
  BY <1>5 DEF TypeOK, Crash, db, env, Pcs, Codes
<1>6. ASSUME NEW u \in Users, SetKyc(u)
      PROVE  TypeOK'
  BY <1>6 DEF TypeOK, SetKyc, db, tx
<1>7. ASSUME NEW p \in Payees, SetPayee(p)
      PROVE  TypeOK'
  BY <1>7 DEF TypeOK, SetPayee, db, tx
<1> QED
  BY <1>1, <1>2, <1>3, <1>4, <1>5, <1>6, <1>7 DEF Next

-----------------------------------------------------------------------------
(* The steps, grouped by what they do to the state the invariant is about. *)

LEMMA WantsFacts ==
  ASSUME NEW r \in Requests, Wants(r) # {}
  PROVE  /\ pc[r] \in {"key", "debit", "credit"}
         /\ pc[r] = "debit" => allowed[r]
  BY DEF Wants

\* r is answered, and nothing else happens.
Ends(r) ==
  /\ UNCHANGED <<db, notices, challenges, req>>
  /\ pc[r] # "done"
  /\ \/ /\ pc[r] = "respond"
        /\ Finish(r, "201", r)
     \/ /\ Replay(r)
        /\ rows[Slot(r)].status = "COMPLETED"
        /\ req[rows[Slot(r)].by].call = req[r].call
        /\ Finish(r, "200", rows[Slot(r)].by)
     \/ /\ pc[r] # "respond"
        /\ \E code \in {"400", "403", "409", "500"} : Finish(r, code, None)

\* r's transaction is aborted and the loop goes round.
Restarts(r) ==
  /\ UNCHANGED <<db, notices, challenges, req>>
  /\ pc[r] \in InTx
  /\ IsPayment(r)
  /\ Restart(r)

\* A step that concerns no request.
Elsewhere == UNCHANGED <<db, notices, challenges, req, pc, tx, answer>>

StepOf(r) ==
  \/ \E u \in Users, k \in Keys, c \in Calls : Receive(r, u, k, c)
  \/ \E u \in Users, c \in Calls : ReceiveCredit(r, u, c)
  \/ \E ch \in Requests : ReceiveConfirm(r, ch)
  \/ DeleteChallenge(r) \/ PassKyc(r) \/ PassFraudCheck(r) \/ IssueChallenge(r)
  \/ Begin(r) \/ Acquire(r) \/ Notify(r) \/ Commit(r)
  \/ Ends(r) \/ Restarts(r) \/ ExpireChallenge(r)

LEMMA AbortCases ==
  ASSUME NEW r \in Requests, TryAgain(r), pc[r] \in InTx, UNCHANGED <<db, notices, challenges, req>>
  PROVE  Ends(r) \/ Restarts(r)
  BY DEF TryAgain, MayRetry, Ends, Restarts, InTx

LEMMA ReplayCases ==
  ASSUME NEW r \in Requests, Replay(r)
  PROVE  Ends(r)
<1>1. Finish(r, ReplayAnswer(r).code, ReplayAnswer(r).txn)
  BY DEF Replay
<1>2. UNCHANGED <<db, notices, challenges, req>> /\ pc[r] = "begin"
  BY DEF Replay
<1>3. CASE /\ rows[Slot(r)].status = "COMPLETED"
           /\ req[rows[Slot(r)].by].call = req[r].call
  <2>1. ReplayAnswer(r) = Answer("200", rows[Slot(r)].by)
    BY <1>3 DEF ReplayAnswer
  <2> QED
    BY <1>1, <1>2, <1>3, <2>1 DEF Ends
<1>4. CASE ~(/\ rows[Slot(r)].status = "COMPLETED"
             /\ req[rows[Slot(r)].by].call = req[r].call)
  <2>1. ReplayAnswer(r) \in {Answer("400", None), Answer("409", None)}
    BY <1>4 DEF ReplayAnswer
  <2> QED
    BY <1>1, <1>2, <2>1 DEF Ends
<1> QED
  BY <1>3, <1>4

LEMMA StepCases ==
  ASSUME Next
  PROVE  Crash \/ Elsewhere \/ \E r \in Requests : StepOf(r)
<1> USE DEF StepOf
<1>1. ASSUME NEW r \in Requests, Arrive(r)
      PROVE  StepOf(r)
  <2>1. CASE Refuse(r)
    BY <2>1 DEF Refuse, Ends
  <2> QED
    BY <1>1, <2>1 DEF Arrive
<1>2. ASSUME NEW r \in Requests, Handle(r)
      PROVE  StepOf(r)
  <2>1. CASE FailKyc(r)
    BY <2>1 DEF FailKyc, Ends
  <2>2. CASE Replay(r)
    BY <2>2, ReplayCases
  <2>3. CASE Reject(r)
    BY <2>3 DEF Reject, Ends
  <2>4. CASE ConflictAbort(r)
    BY <2>4, AbortCases, WantsFacts DEF ConflictAbort, InTx
  <2>5. CASE DeadlockAbort(r)
    <3>1. Wants(r) # {}
      BY <2>5 DEF DeadlockAbort, InWaitCycle, Waits
    <3> QED
      BY <2>5, <3>1, AbortCases, WantsFacts DEF DeadlockAbort, InTx
  <2>6. CASE Respond(r)
    BY <2>6 DEF Respond, Ends
  <2> QED
    BY <1>2, <2>1, <2>2, <2>3, <2>4, <2>5, <2>6 DEF Handle
<1>3. ASSUME NEW r \in Requests, Disturb(r)
      PROVE  StepOf(r)
  <2>1. CASE UniqueViolation(r)
    BY <2>1 DEF UniqueViolation, Ends
  <2>2. CASE SerializationAbort(r)
    BY <2>2, AbortCases DEF SerializationAbort
  <2>3. CASE Timeout(r)
    BY <2>3 DEF Timeout, Ends, InTx
  <2> QED
    BY <1>3, <2>1, <2>2, <2>3 DEF Disturb
<1>4. ASSUME NEW u \in Users, SetKyc(u)
      PROVE  Elsewhere
  BY <1>4 DEF SetKyc, Elsewhere
<1>5. ASSUME NEW p \in Payees, SetPayee(p)
      PROVE  Elsewhere
  BY <1>5 DEF SetPayee, Elsewhere
<1> QED
  BY <1>1, <1>2, <1>3, <1>4, <1>5 DEF Next

\* What a request asked for and was answered never changes.
Persists(s) ==
  /\ pc[s] # "new" => req'[s] = req[s] /\ pc'[s] # "new"
  /\ pc[s] = "done" => pc'[s] = "done" /\ answer'[s] = answer[s]

LEMMA PersistStep ==
  ASSUME IndInv, Next, NEW s \in Requests
  PROVE  Persists(s)
<1> TypeOK
  BY DEF IndInv
<1> USE DEF TypeOK, tx, Goto, Finish, Persists
<1>1. ASSUME NEW r \in Requests, StepOf(r)
      PROVE  Persists(s)
  <2>1. ASSUME NEW u \in Users, NEW k \in Keys, NEW c \in Calls, Receive(r, u, k, c)
        PROVE  Persists(s)
    BY <2>1 DEF Receive
  <2>2. ASSUME NEW u \in Users, NEW c \in Calls, ReceiveCredit(r, u, c)
        PROVE  Persists(s)
    BY <2>2 DEF ReceiveCredit
  <2>3. ASSUME NEW ch \in Requests, ReceiveConfirm(r, ch)
        PROVE  Persists(s)
    BY <2>3 DEF ReceiveConfirm
  <2>4. CASE DeleteChallenge(r) \/ PassKyc(r) \/ PassFraudCheck(r) \/ IssueChallenge(r)
    BY <2>4 DEF DeleteChallenge, PassKyc, PassFraudCheck, IssueChallenge
  <2>5. CASE Begin(r) \/ Notify(r) \/ Commit(r)
    BY <2>5 DEF Begin, Notify, Commit
  <2>6. CASE Acquire(r)
    <3>1. NextPc(r) \in {"debit", "credit", "notify", "commit"}
      BY <2>6 DEF Acquire, Wants, NextPc
    <3> QED
      BY <2>6, <3>1, WantsFacts DEF Acquire
  <2>7. CASE Ends(r) \/ Restarts(r)
    BY <2>7 DEF Ends, Restarts, Restart, InTx
  <2>8. CASE ExpireChallenge(r)
    BY <2>8 DEF ExpireChallenge
  <2> QED
    BY <1>1, <2>1, <2>2, <2>3, <2>4, <2>5, <2>6, <2>7, <2>8 DEF StepOf
<1>2. CASE Crash
  BY <1>2 DEF Crash, InFlight
<1>3. CASE Elsewhere
  BY <1>3 DEF Elsewhere
<1> QED
  BY <1>1, <1>2, <1>3, StepCases

\* Only Commit writes to the payment tables.
LEMMA DatabaseStep ==
  ASSUME Next
  PROVE  UNCHANGED db \/ \E r \in Requests : Commit(r)
<1>1. ASSUME NEW r \in Requests, StepOf(r)
      PROVE  UNCHANGED db \/ Commit(r)
  BY <1>1 DEF StepOf, Receive, ReceiveCredit, ReceiveConfirm, DeleteChallenge, PassKyc,
       PassFraudCheck, IssueChallenge, Begin, Acquire, Notify, Ends, Restarts,
       ExpireChallenge
<1> QED
  BY <1>1, StepCases DEF Crash, Elsewhere

\* What Commit writes, and to whom it matters.
LEMMA CommitFacts ==
  ASSUME IndInv, NEW r \in Requests, Commit(r)
  PROVE  /\ req[r] \in Request /\ req' = req
         /\ From(r) \in Accounts /\ To(r) \in Accounts /\ From(r) # To(r)
         /\ Amount(r) \in Nat \ {0}
         /\ {From(r), To(r)} \subseteq Holds(r)
         /\ IsPayment(r) => Slot(r) \in (Users \X Keys) \cap Holds(r) /\ rows[Slot(r)] = NoRow
         /\ IsPayment(r) => balance[From(r)] >= Amount(r)
         /\ ~IsPayment(r) => From(r) \in System /\ To(r) \notin System
         /\ \A a \in Accounts : balance'[a] = IF a = From(r) THEN balance[a] - Amount(r)
                                ELSE IF a = To(r) THEN balance[a] + Amount(r)
                                ELSE balance[a]
         /\ \A slot \in Users \X Keys :
              rows'[slot] = IF IsPayment(r) /\ slot = Slot(r)
                            THEN [status |-> "COMPLETED", by |-> r] ELSE rows[slot]
<1> TypeOK
  BY DEF IndInv
<1>1. req[r] \in Request /\ req' = req /\ pc[r] = "commit"
  BY DEF Commit, IndInv, RequestsSound, RequestSound
<1>2. allowed[r] /\ From(r) # To(r) /\ (~IsPayment(r) => To(r) \notin System)
  BY <1>1 DEF IndInv, ProgressSound, Progress, InTx
<1>3. /\ From(r) \in Accounts /\ To(r) \in Accounts
      /\ Amount(r) \in Nat \ {0}
      /\ ~IsPayment(r) => From(r) \in System
  BY <1>1, RequestFacts
<1>4. {From(r), To(r)} \subseteq Holds(r) /\ (IsPayment(r) => Slot(r) \in Holds(r))
  BY <1>1 DEF Holds, Footprint, InTx
<1>5. /\ Holds(r) \cap stale[r] = {}
      /\ IsPayment(r) /\ Slot(r) \notin stale[r] => rows[Slot(r)] = NoRow
      /\ IsPayment(r) /\ allowed[r] /\ From(r) \notin stale[r] => balance[From(r)] >= Amount(r)
  BY <1>1 DEF IndInv, OpenTransactionsSound, InTx
<1>6. IsPayment(r) => Slot(r) \in Users \X Keys
  BY <1>1 DEF IndInv, RequestsSound, RequestSound, Slot, Request
<1>7. \A a \in Accounts : balance'[a] = IF a = From(r) THEN balance[a] - Amount(r)
                                ELSE IF a = To(r) THEN balance[a] + Amount(r)
                                ELSE balance[a]
  BY <1>2, <1>3 DEF Commit, MoveMoney, TypeOK
<1>8. \A slot \in Users \X Keys :
         rows'[slot] = IF IsPayment(r) /\ slot = Slot(r)
                       THEN [status |-> "COMPLETED", by |-> r] ELSE rows[slot]
  BY <1>6 DEF Commit, TypeOK
<1> QED
  BY <1>1, <1>2, <1>3, <1>4, <1>5, <1>6, <1>7, <1>8

-----------------------------------------------------------------------------
(* The database.                                                           *)

LEMMA NoOverdraftStep ==
  ASSUME IndInv, Next
  PROVE  NoOverdraft'
<1> NoOverdraft /\ TypeOK
  BY DEF IndInv
<1>1. ASSUME NEW r \in Requests, Commit(r)
      PROVE  NoOverdraft'
  <2>1. SUFFICES ASSUME NEW a \in Accounts \ System
                 PROVE  balance'[a] >= 0
    BY DEF NoOverdraft
  <2>2. balance[a] \in Int /\ balance[a] >= 0
    BY DEF NoOverdraft, TypeOK
  <2>3. /\ Amount(r) \in Nat
        /\ a = From(r) => balance[a] >= Amount(r)
        /\ balance'[a] = IF a = From(r) THEN balance[a] - Amount(r)
                         ELSE IF a = To(r) THEN balance[a] + Amount(r)
                         ELSE balance[a]
    BY <1>1, CommitFacts
  <2> QED
    BY <2>2, <2>3
<1>2. CASE UNCHANGED db
  BY <1>2 DEF NoOverdraft, db
<1> QED
  BY <1>1, <1>2, DatabaseStep

\* A posted request keeps what it asked for.
LEMMA PostedStep ==
  ASSUME IndInv, Next
  PROVE  /\ \A r \in posted : req'[r] = req[r] /\ r \in posted'
         /\ \A r \in posted' \ posted : Commit(r) /\ r \in Requests
<1>1. \A r \in posted : req'[r] = req[r]
  BY PersistStep DEF IndInv, TypeOK, ProgressSound, Progress, Persists
<1>2. CASE UNCHANGED db
  BY <1>1, <1>2 DEF db
<1>3. ASSUME NEW r \in Requests, Commit(r)
      PROVE  posted' = posted \cup {r}
  BY <1>3 DEF Commit
<1> QED
  BY <1>1, <1>2, <1>3, DatabaseStep

\* A request's money, added to what others have moved.
LEMMA TotalAdds ==
  ASSUME NEW R, NEW r, r \notin R, Amount(r) \in Nat, IsFiniteSet(Units(R))
  PROVE  /\ IsFiniteSet(Units(R \cup {r}))
         /\ Total(R \cup {r}) = Total(R) + Amount(r)
<1> DEFINE Own == {r} \X (1..Amount(r))
<1>1. Units(R \cup {r}) = Units(R) \cup Own
  BY DEF Units
<1>2. Units(R) \cap Own = {}
  BY DEF Units
<1>3. IsFiniteSet(Own) /\ Cardinality(Own) = Amount(r)
  <2>1. IsFiniteSet({r}) /\ Cardinality({r}) = 1
    BY FS_Singleton
  <2>2. IsFiniteSet(1..Amount(r)) /\ Cardinality(1..Amount(r)) = Amount(r)
    BY FS_Interval
  <2>3. /\ IsFiniteSet({r} \X (1..Amount(r)))
        /\ Cardinality({r} \X (1..Amount(r)))
             = Cardinality({r}) * Cardinality(1..Amount(r))
    <3> HIDE DEF Own
    <3> QED
      BY <2>1, <2>2, FS_Product, Zenon
  <2>4. Cardinality({r}) * Cardinality(1..Amount(r)) = 1 * Amount(r)
    BY <2>1, <2>2, Zenon
  <2>5. 1 * Amount(r) = Amount(r)
    OBVIOUS
  <2> QED
    BY <2>3, <2>4, <2>5, Zenon
<1>4. Cardinality(Units(R) \cap Own) = 0
  BY <1>2, FS_EmptySet
<1> HIDE DEF Own
<1>5. /\ IsFiniteSet(Units(R) \cup Own)
      /\ Cardinality(Units(R) \cup Own)
           = Cardinality(Units(R)) + Cardinality(Own) - Cardinality(Units(R) \cap Own)
  BY <1>3, FS_Union
<1>6. Cardinality(Units(R)) \in Nat
  BY FS_CardinalityType
<1>7. Cardinality(Units(R) \cup Own) = Cardinality(Units(R)) + Amount(r)
  BY <1>3, <1>4, <1>5, <1>6
<1> QED
  BY <1>1, <1>5, <1>7 DEF Total

\* What some of the posted requests move is finite too.
LEMMA UnitsFinite ==
  ASSUME FinitePostings, NEW R \in SUBSET posted
  PROVE  IsFiniteSet(Units(R)) /\ Total(R) \in Nat
<1>1. Units(R) \subseteq Units(posted)
  BY DEF Units
<1> QED
  BY <1>1, FS_Subset, FS_CardinalityType DEF FinitePostings, Total

\* Requests that keep what they ask for move what they moved.
LEMMA TotalKept ==
  ASSUME NEW R, \A r \in R : req'[r] = req[r]
  PROVE  Units(R)' = Units(R) /\ Total(R)' = Total(R)
<1>1. \A r \in R : Amount(r)' = Amount(r)
  BY DEF Amount
<1>2. Units(R)' = Units(R)
  BY <1>1 DEF Units
<1> QED
  BY <1>2 DEF Total

LEMMA LedgerBackedStep ==
  ASSUME IndInv, Next
  PROVE  FinitePostings' /\ LedgerBacked'
<1> TypeOK /\ FinitePostings /\ LedgerBacked
  BY DEF IndInv
<1>1. \A r \in posted : req'[r] = req[r]
  BY PostedStep
<1>2. \A r \in posted : To(r)' = To(r) /\ From(r)' = From(r)
  BY <1>1 DEF To, From, Dest
<1>3. CASE UNCHANGED db
  <2>1. Units(posted)' = Units(posted)
    BY <1>1, <1>3, TotalKept DEF db
  <2>2. ASSUME NEW a \in Accounts
        PROVE  Total(Credits(a))' = Total(Credits(a)) /\ Total(Debits(a))' = Total(Debits(a))
    <3>1. Credits(a)' = Credits(a) /\ Debits(a)' = Debits(a)
      BY <1>2, <1>3 DEF Credits, Debits, db
    <3>2. Units(Credits(a))' = Units(Credits(a)) /\ Units(Debits(a))' = Units(Debits(a))
      BY <1>1, <3>1 DEF Units, Amount, Credits, Debits
    <3> QED
      BY <3>2 DEF Total
  <2> QED
    BY <1>3, <2>1, <2>2 DEF FinitePostings, LedgerBacked, db
<1>4. ASSUME NEW r \in Requests, Commit(r)
      PROVE  FinitePostings' /\ LedgerBacked'
  <2>1. /\ req' = req
        /\ posted' = posted \cup {r}
        /\ r \notin posted
        /\ Amount(r) \in Nat /\ From(r) # To(r)
    BY <1>4, CommitFacts DEF Commit, IndInv, ProgressSound, Progress
  <2>2. FinitePostings'
    <3>1. IsFiniteSet(Units(posted \cup {r}))
      BY <2>1, TotalAdds DEF FinitePostings
    <3>2. Units(posted)' = Units(posted \cup {r})
      BY <2>1 DEF Units, Amount
    <3> QED
      BY <3>1, <3>2 DEF FinitePostings
  <2>3. ASSUME NEW a \in Accounts
        PROVE  /\ Total(Credits(a))' = Total(Credits(a)) + (IF a = To(r) THEN Amount(r) ELSE 0)
               /\ Total(Credits(a)) \in Nat
    <3>1. Credits(a)' = IF a = To(r) THEN Credits(a) \cup {r} ELSE Credits(a)
      BY <2>1 DEF Credits, To, Dest
    <3>2. Total(Credits(a))' = Cardinality(Units(Credits(a)'))
      BY <2>1 DEF Total, Units, Amount
    <3>3. /\ IsFiniteSet(Units(Credits(a))) /\ Total(Credits(a)) \in Nat
          /\ r \notin Credits(a)
      BY <2>1, UnitsFinite DEF Credits
    <3> QED
      BY <2>1, <3>1, <3>2, <3>3, TotalAdds DEF Total
  <2>4. ASSUME NEW a \in Accounts
        PROVE  /\ Total(Debits(a))' = Total(Debits(a)) + (IF a = From(r) THEN Amount(r) ELSE 0)
               /\ Total(Debits(a)) \in Nat
    <3>1. Debits(a)' = IF a = From(r) THEN Debits(a) \cup {r} ELSE Debits(a)
      BY <2>1 DEF Debits, From
    <3>2. Total(Debits(a))' = Cardinality(Units(Debits(a)'))
      BY <2>1 DEF Total, Units, Amount
    <3>3. /\ IsFiniteSet(Units(Debits(a))) /\ Total(Debits(a)) \in Nat
          /\ r \notin Debits(a)
      BY <2>1, UnitsFinite DEF Debits
    <3> QED
      BY <2>1, <3>1, <3>2, <3>3, TotalAdds DEF Total
  <2>5. ASSUME NEW a \in Accounts
        PROVE  balance'[a] = OpeningBalance[a] + Total(Credits(a))' - Total(Debits(a))'
    <3>1. /\ balance[a] = OpeningBalance[a] + Total(Credits(a)) - Total(Debits(a))
          /\ OpeningBalance[a] \in Int
      BY PaymentsAssumption DEF LedgerBacked
    <3>2. balance'[a] = IF a = From(r) THEN balance[a] - Amount(r)
                        ELSE IF a = To(r) THEN balance[a] + Amount(r)
                        ELSE balance[a]
      BY <1>4, CommitFacts
    <3> HIDE DEF Credits, Debits
    <3> QED
      BY <2>1, <2>3, <2>4, <3>1, <3>2
  <2> QED
    BY <2>2, <2>5 DEF LedgerBacked
<1> QED
  BY <1>3, <1>4, DatabaseStep

LEMMA KeyRowsStep ==
  ASSUME IndInv, Next
  PROVE  KeyRowsMatchPostings'
<1> KeyRowsMatchPostings /\ TypeOK
  BY DEF IndInv
<1>1. \A r \in posted : Slot(r)' = Slot(r) /\ IsPayment(r)' = IsPayment(r)
  BY PostedStep DEF Slot, IsPayment
<1>2. CASE UNCHANGED db
  BY <1>1, <1>2 DEF KeyRowsMatchPostings, db
<1>3. ASSUME NEW r \in Requests, Commit(r)
      PROVE  KeyRowsMatchPostings'
  <2>1. posted' = posted \cup {r}
    BY <1>3 DEF Commit
  <2>2. Slot(r)' = Slot(r) /\ IsPayment(r)' = IsPayment(r)
    BY <1>3, CommitFacts DEF Slot, IsPayment
  <2>5. /\ IsPayment(r) => rows[Slot(r)] = NoRow
        /\ \A slot \in Users \X Keys :
              rows'[slot] = IF IsPayment(r) /\ slot = Slot(r)
                            THEN [status |-> "COMPLETED", by |-> r] ELSE rows[slot]
    BY <1>3, CommitFacts
  <2>3. ASSUME NEW slot \in Users \X Keys
        PROVE  (\/ rows[slot] = NoRow
                \/ /\ rows[slot].status = "COMPLETED"
                   /\ rows[slot].by \in posted
                   /\ IsPayment(rows[slot].by)
                   /\ Slot(rows[slot].by) = slot)'
    <3>1. CASE IsPayment(r) /\ slot = Slot(r)
      <4>1. rows'[slot] = [status |-> "COMPLETED", by |-> r]
        BY <2>5, <3>1
      <4> QED
        BY <2>1, <2>2, <3>1, <4>1
    <3>2. CASE ~(IsPayment(r) /\ slot = Slot(r))
      <4>1. rows'[slot] = rows[slot]
        BY <2>5, <3>2
      <4> QED
        BY <1>1, <2>1, <4>1 DEF KeyRowsMatchPostings
    <3> QED
      BY <3>1, <3>2
  <2>4. ASSUME NEW s \in posted', IsPayment(s)'
        PROVE  (rows[Slot(s)].by = s)'
    <3>1. CASE s = r
      <4>1. rows'[Slot(r)] = [status |-> "COMPLETED", by |-> r]
        BY <1>3, <2>2, <2>4, <3>1, CommitFacts
      <4> QED
        BY <2>2, <3>1, <4>1
    <3>2. CASE s # r
      <4>1. s \in posted /\ Slot(s)' = Slot(s) /\ IsPayment(s)
        BY <1>1, <2>1, <2>4, <3>2
      <4>2. rows[Slot(s)].by = s /\ s \in Requests
        BY <4>1 DEF KeyRowsMatchPostings, TypeOK
      <4>3. Slot(s) \in Users \X Keys
        BY <4>1 DEF IndInv, RequestsSound, RequestSound, TypeOK, Slot, Request
      <4>4. ~(IsPayment(r) /\ Slot(s) = Slot(r))
        BY <2>5, <4>2, PaymentsAssumption
      <4>5. rows'[Slot(s)] = rows[Slot(s)]
        BY <2>5, <4>3, <4>4
      <4> QED
        BY <4>1, <4>2, <4>5
    <3> QED
      BY <3>1, <3>2
  <2> QED
    BY <2>3, <2>4 DEF KeyRowsMatchPostings
<1> QED
  BY <1>2, <1>3, DatabaseStep

LEMMA LargePaymentsStep ==
  ASSUME IndInv, Next
  PROVE  LargePaymentsConfirmed'
<1> LargePaymentsConfirmed /\ TypeOK
  BY DEF IndInv
<1>1. SUFFICES ASSUME NEW r \in posted', IsPayment(r)', (Amount(r) > Threshold)'
               PROVE  Confirms(req[r].via, r)'
  BY DEF LargePaymentsConfirmed
<1>2. req'[r] = req[r] /\ r \in Requests
  BY <1>1, PostedStep, CommitFacts DEF TypeOK
<1> DEFINE ch == req[r].via
<1>3. ch \in Requests /\ Confirms(ch, r)
  <2>1. IsPayment(r) /\ Amount(r) > Threshold
    BY <1>1, <1>2 DEF IsPayment, Amount
  <2>2. ch # None
    <3>1. CASE r \in posted
      BY <2>1, <3>1 DEF LargePaymentsConfirmed, Confirms
    <3>2. CASE r \notin posted
      <4>1. pc[r] = "commit"
        BY <1>1, <3>2, PostedStep DEF Commit
      <4> QED
        BY <1>2, <2>1, <4>1 DEF IndInv, ProgressSound, Progress, InTx
    <3> QED
      BY <3>1, <3>2
  <2> QED
    BY <1>2, <2>2 DEF IndInv, RequestsSound, RequestSound
<1>4. pc[ch] = "done"
  BY <1>3 DEF IndInv, ProgressSound, Progress, Confirms
<1>5. req'[ch] = req[ch] /\ answer'[ch] = answer[ch]
  BY <1>3, <1>4, PersistStep DEF Persists
<1> QED
  BY <1>2, <1>3, <1>5 DEF Confirms, SameRequest

LEMMA AnswerCases ==
  ASSUME IndInv, Next, NEW r \in Requests
  PROVE  \/ answer'[r] = answer[r]
         \/ Ends(r) \/ IssueChallenge(r)
         \/ answer'[r] = Answer("lost", None)
<1> TypeOK
  BY DEF IndInv
<1>1. ASSUME NEW s \in Requests, StepOf(s), s # r \/ ~(Ends(r) \/ IssueChallenge(r))
      PROVE  answer'[r] = answer[r]
  <2>1. CASE Ends(s) \/ IssueChallenge(s)
    BY <1>1, <2>1 DEF TypeOK, Ends, IssueChallenge, Finish
  <2>2. CASE ~(Ends(s) \/ IssueChallenge(s))
    BY <1>1, <2>2 DEF StepOf, Receive, ReceiveCredit, ReceiveConfirm, DeleteChallenge, PassKyc,
       PassFraudCheck, Begin, Acquire, Notify, Commit, Restarts, Restart, ExpireChallenge, Goto
  <2> QED
    BY <2>1, <2>2
<1> QED
  BY <1>1, StepCases DEF Crash, Elsewhere

LEMMA AnswersStep ==
  ASSUME IndInv, Next
  PROVE  AnswersAreTrue'
<1> AnswersAreTrue /\ TypeOK /\ ProgressSound
  BY DEF IndInv
<1>1. SUFFICES ASSUME NEW r \in Requests
               PROVE  /\ answer'[r].code \in {"200", "201"} =>
                           answer'[r].txn \in posted' /\ SameRequest(answer[r].txn, r)'
                      /\ answer'[r].code \in {"400", "403", "step-up", "409", "500"} =>
                           r \notin posted'
  BY DEF AnswersAreTrue
<1>2. ASSUME NEW t \in posted, SameRequest(t, r), req'[r] = req[r], answer'[r].txn = t
      PROVE  answer'[r].txn \in posted' /\ SameRequest(answer[r].txn, r)'
  BY <1>2, PostedStep DEF SameRequest
<1>3. r \in posted' => r \in posted \/ pc[r] = "commit"
  BY PostedStep DEF Commit
<1>4. CASE pc[r] = "done"
  <2>1. req'[r] = req[r] /\ answer'[r] = answer[r]
    BY <1>4, PersistStep DEF Persists
  <2> QED
    BY <1>2, <1>3, <1>4, <2>1 DEF AnswersAreTrue
<1>5. CASE pc[r] # "done" /\ Ends(r)
  <2>1. req' = req /\ posted' = posted
    BY <1>5 DEF Ends, db
  <2>2. CASE pc[r] = "respond" /\ Finish(r, "201", r)
    <3>1. answer'[r] = Answer("201", r)
      BY <2>2 DEF Finish, TypeOK
    <3>2. r \in posted /\ SameRequest(r, r)
      BY <2>2 DEF ProgressSound, Progress, SameRequest
    <3> QED
      BY <1>2, <2>1, <3>1, <3>2
  <2>3. CASE /\ Replay(r)
             /\ rows[Slot(r)].status = "COMPLETED"
             /\ req[rows[Slot(r)].by].call = req[r].call
             /\ Finish(r, "200", rows[Slot(r)].by)
    <3> DEFINE t == rows[Slot(r)].by
    <3>1. answer'[r] = Answer("200", t)
      BY <2>3 DEF Finish, TypeOK
    <3>2. Slot(r) \in Users \X Keys
      BY <2>3 DEF Replay, IndInv, RequestsSound, RequestSound, Slot, Request
    <3>3. t \in posted /\ Slot(t) = Slot(r)
      BY <2>3, <3>2 DEF IndInv, KeyRowsMatchPostings
    <3>4. SameRequest(t, r)
      BY <2>3, <3>3 DEF SameRequest, Slot
    <3> QED
      BY <1>2, <2>1, <3>1, <3>3, <3>4
  <2>4. CASE /\ pc[r] # "respond"
             /\ \E code \in {"400", "403", "409", "500"} : Finish(r, code, None)
    <3>1. PICK code \in {"400", "403", "409", "500"} : answer'[r] = Answer(code, None)
      BY <2>4 DEF Finish, TypeOK
    <3>2. r \notin posted
      BY <1>5, <2>4 DEF ProgressSound, Progress
    <3> QED
      BY <2>1, <3>1, <3>2
  <2> QED
    BY <1>5, <2>2, <2>3, <2>4 DEF Ends
<1>6. CASE IssueChallenge(r)
  <2>1. answer'[r] = Answer("step-up", None)
    BY <1>6 DEF IssueChallenge, Finish, TypeOK
  <2>2. r \notin posted /\ posted' = posted
    BY <1>6 DEF IssueChallenge, ProgressSound, Progress, db
  <2> QED
    BY <2>1, <2>2
<1>7. CASE pc[r] # "done" /\ answer'[r] \in {answer[r], Answer("lost", None)}
  <2>1. answer'[r].code \in {"none", "lost"}
    BY <1>7 DEF ProgressSound, Progress
  <2> QED
    BY <2>1
<1> QED
  BY <1>4, <1>5, <1>6, <1>7, AnswerCases

-----------------------------------------------------------------------------
(* The handlers.                                                           *)

\* What a request that keeps its fields keeps with them.
LEMMA RequestFrame ==
  ASSUME IndInv, Next, NEW s \in Requests, req'[s] = req[s]
  PROVE  /\ (req[s] \in Request => (IsPayment(s) <=> req[s].key \in Keys))'
         /\ s \in challenges => (IsPayment(s) /\ req[s].via = None /\ answer[s].code = "step-up")'
         /\ (req[s].via # None => req[s].via \in Requests /\ Confirms(req[s].via, s))'
<1> TypeOK /\ RequestSound(s) /\ ProgressSound
  BY DEF IndInv, RequestsSound
<1>1. IsPayment(s)' = IsPayment(s) /\ Request' = Request
  BY DEF IsPayment, Request
<1>2. ASSUME NEW ch \in Requests, answer[ch].code = "step-up"
      PROVE  req'[ch] = req[ch] /\ answer'[ch] = answer[ch]
  BY <1>2, PersistStep DEF ProgressSound, Progress, Persists
<1>3. (req[s].via # None => req[s].via \in Requests /\ Confirms(req[s].via, s))'
  BY <1>2 DEF RequestSound, Confirms, SameRequest
<1> QED
  BY <1>1, <1>2, <1>3 DEF RequestSound

\* A request that stays where it is, or is done, stays sound.
LEMMA RequestKept ==
  ASSUME IndInv, Next, NEW s \in Requests, req'[s] = req[s], pc'[s] \in {pc[s], "done"},
         challenges' \subseteq challenges \cup {x \in Requests : x # s}
  PROVE  RequestSound(s)'
<1> RequestSound(s)
  BY DEF IndInv, RequestsSound
<1>1. s \in posted' => s \in posted \/ pc[s] = "commit"
  BY PostedStep DEF Commit
<1>2. IsPayment(s)' = IsPayment(s) /\ From(s)' = From(s) /\ To(s)' = To(s)
  BY DEF IsPayment, From, To, Dest
<1> QED
  BY <1>1, <1>2, RequestFrame DEF RequestSound, InTx

LEMMA RequestsStep ==
  ASSUME IndInv, Next
  PROVE  RequestsSound'
<1> TypeOK /\ RequestsSound /\ ProgressSound
  BY DEF IndInv
<1>1. ASSUME NEW r \in Requests, StepOf(r), NEW s \in Requests, s # r
      PROVE  RequestSound(s)'
  <2>1. req'[s] = req[s] /\ pc'[s] = pc[s]
    BY <1>1 DEF StepOf, Receive, ReceiveCredit, ReceiveConfirm, DeleteChallenge, PassKyc,
       PassFraudCheck, IssueChallenge, Begin, Acquire, Notify, Commit, Ends, Restarts,
       Restart, ExpireChallenge, Goto, Finish, TypeOK
  <2>2. challenges' \subseteq challenges \cup {r}
    BY <1>1 DEF StepOf, Receive, ReceiveCredit, ReceiveConfirm, DeleteChallenge, PassKyc,
       PassFraudCheck, IssueChallenge, Begin, Acquire, Notify, Commit, Ends, Restarts,
       ExpireChallenge
  <2> QED
    BY <1>1, <2>1, <2>2, RequestKept
<1>2. ASSUME NEW r \in Requests, StepOf(r)
      PROVE  RequestSound(r)'
  <2> RequestSound(r)
    BY DEF RequestsSound
  <2>1. ASSUME NEW u \in Users, NEW c \in Calls, NEW k \in Keys \cup {NoKey},
               c.kind = "CREDIT" <=> k = NoKey, pc[r] = "new",
               req' = [req EXCEPT ![r] = [user |-> u, key |-> k, call |-> c, via |-> None]],
               pc'[r] = IF c.kind = "CREDIT" THEN "begin" ELSE "kyc",
               challenges' = challenges
        PROVE  RequestSound(r)'
    <3>1. req'[r] = [user |-> u, key |-> k, call |-> c, via |-> None]
      BY <2>1 DEF TypeOK
    <3>2. req'[r] \in Request
      BY <2>1, <3>1 DEF Request
    <3>3. r \notin challenges
      BY <2>1 DEF RequestSound, ProgressSound, Progress
    <3> QED
      BY <2>1, <3>1, <3>2, <3>3, PaymentsAssumption DEF RequestSound, IsPayment, InTx
  <2>2. ASSUME NEW ch \in Requests, ReceiveConfirm(r, ch)
        PROVE  RequestSound(r)'
    <3>1. /\ req[ch] \in Request /\ IsPayment(ch) /\ answer[ch].code = "step-up"
          /\ IsPayment(ch) <=> req[ch].key \in Keys
      BY <2>2 DEF ReceiveConfirm, RequestsSound, RequestSound
    <3>2. req'[r] = [req[ch] EXCEPT !.via = ch] /\ pc'[r] = "del"
      BY <2>2 DEF ReceiveConfirm, Goto, TypeOK
    <3>3. /\ req'[r].user = req[ch].user /\ req'[r].key = req[ch].key
          /\ req'[r].call = req[ch].call /\ req'[r].via = ch
          /\ req'[r] \in Request
      BY <3>1, <3>2 DEF Request
    <3>4. req'[ch] = req[ch] /\ answer'[ch] = answer[ch]
      BY <3>1, PersistStep DEF ProgressSound, Progress, Persists
    <3>5. Confirms(req[r].via, r)'
      BY <3>1, <3>3, <3>4, PaymentsAssumption DEF Confirms, SameRequest
    <3>6. r \notin challenges /\ challenges' = challenges
      BY <2>2 DEF ReceiveConfirm, RequestSound, ProgressSound, Progress
    <3> QED
      BY <3>1, <3>2, <3>3, <3>5, <3>6 DEF RequestSound, IsPayment, InTx
  <2>3. ASSUME req' = req, pc'[r] \in Pcs \ {"new"},
               pc'[r] # "done" => req[r] \in Request,
               pc'[r] \in {"del", "kyc", "fraud", "key"} => IsPayment(r),
               pc'[r] = "fraud" => req[r].via = None,
               pc'[r] \in InTx \cup {"fraud", "begin"} /\ req[r].call.kind = "INTERNAL" =>
                 From(r) # To(r),
               r \in challenges' => r \in challenges
        PROVE  RequestSound(r)'
    <3>1. r \in posted' => r \in posted \/ pc[r] = "commit"
      BY PostedStep DEF Commit
    <3>2. IsPayment(r)' = IsPayment(r) /\ From(r)' = From(r) /\ To(r)' = To(r)
      BY <2>3 DEF IsPayment, From, To, Dest
    <3> QED
      BY <2>3, <3>1, <3>2, RequestFrame DEF RequestSound, InTx, Pcs
  <2>4. CASE Begin(r) \/ PassKyc(r) \/ DeleteChallenge(r) \/ PassFraudCheck(r)
    BY <2>3, <2>4 DEF Begin, PassKyc, DeleteChallenge, PassFraudCheck, Goto,
       RequestSound, InTx, TypeOK, Pcs, IsPayment
  <2>5. CASE Acquire(r)
    <3>1. NextPc(r) \in {"debit", "credit", "notify", "commit"} /\ pc[r] \in InTx
      BY <2>5 DEF Acquire, Wants, NextPc, InTx
    <3> QED
      BY <2>3, <2>5, <3>1 DEF Acquire, Goto, RequestSound, InTx, TypeOK, Pcs
  <2>6. CASE Notify(r) \/ Commit(r) \/ Restarts(r)
    BY <2>3, <2>6 DEF Notify, Commit, Restarts, Restart, Goto, RequestSound, InTx, TypeOK, Pcs
  <2>7. CASE Ends(r)
    BY <2>3, <2>7 DEF Ends, Finish, InTx, TypeOK, Pcs
  <2>8. CASE IssueChallenge(r)
    <3>1. /\ req' = req /\ pc'[r] = "done"
          /\ answer'[r].code = "step-up"
      BY <2>8 DEF IssueChallenge, Finish, TypeOK
    <3>2. req[r] \in Request /\ IsPayment(r) /\ req[r].via = None
      BY <2>8 DEF IssueChallenge, RequestSound
    <3> QED
      BY <3>1, <3>2, RequestFrame DEF RequestSound, IsPayment, InTx, Request
  <2>9. CASE ExpireChallenge(r)
    BY <2>9, RequestKept DEF ExpireChallenge, tx
  <2>10. ASSUME NEW u \in Users, NEW k \in Keys, NEW c \in Calls, Receive(r, u, k, c)
         PROVE  RequestSound(r)'
    BY <2>1, <2>10, PaymentsAssumption DEF Receive, Goto, TypeOK
  <2>11. ASSUME NEW u \in Users, NEW c \in Calls, ReceiveCredit(r, u, c)
         PROVE  RequestSound(r)'
    BY <2>1, <2>11 DEF ReceiveCredit, Goto, TypeOK
  <2> QED
    BY <1>2, <2>2, <2>4, <2>5, <2>6, <2>7, <2>8, <2>9, <2>10, <2>11 DEF StepOf
<1>3. CASE Crash \/ Elsewhere
  BY <1>3, RequestKept DEF Crash, Elsewhere, tx, TypeOK, RequestsSound
<1> QED
  BY <1>1, <1>2, <1>3, StepCases DEF RequestsSound

\* A transaction is allowed only if it moves money between two accounts, and an
\* admin credit only if it funds a customer.
LEMMA ChecksFacts ==
  ASSUME IndInv, NEW r \in Requests, pc[r] = "begin", Checks(r)
  PROVE  /\ From(r) # To(r)
         /\ ~IsPayment(r) => To(r) \notin System
<1>1. req[r] \in Request /\ (req[r].call.kind = "INTERNAL" => From(r) # To(r))
  BY DEF IndInv, RequestsSound, RequestSound, InTx
<1>2. req[r].call \in Calls /\ req[r].call.kind \in Kinds
  BY <1>1, RequestFacts DEF IndInv
<1>3. CASE req[r].call.kind \in {"INTERNAL", "BENEFICIARY"}
  BY <1>1, <1>3 DEF Checks, From, To, IsPayment
<1>4. CASE req[r].call.kind = "MERCHANT"
  BY <1>2, <1>4, CallFacts DEF Checks, From, To, IsPayment
<1>5. CASE req[r].call.kind = "CREDIT"
  BY <1>2, <1>5, CallFacts DEF Checks, From, To, Dest
<1> QED
  BY <1>2, <1>3, <1>4, <1>5 DEF Kinds

\* A completed key stays completed.
LEMMA CompletedStep ==
  ASSUME IndInv, Next, NEW slot \in Users \X Keys, rows[slot].status = "COMPLETED"
  PROVE  rows'[slot].status = "COMPLETED"
<1>1. ASSUME NEW r \in Requests, Commit(r)
      PROVE  rows'[slot].status = "COMPLETED"
  <2>1. rows'[slot] = IF IsPayment(r) /\ slot = Slot(r)
                      THEN [status |-> "COMPLETED", by |-> r] ELSE rows[slot]
    BY <1>1, CommitFacts
  <2> QED
    BY <2>1
<1> QED
  BY <1>1, DatabaseStep DEF db

\* What a request that keeps its fields keeps of its progress.
LEMMA ProgressFrame ==
  ASSUME IndInv, Next, NEW s \in Requests, req'[s] = req[s]
  PROVE  /\ IsPayment(s)' = IsPayment(s) /\ Amount(s)' = Amount(s) /\ Slot(s)' = Slot(s)
         /\ From(s)' = From(s) /\ To(s)' = To(s)
         /\ /\ pc[s] = "begin" /\ IsPayment(s) /\ Amount(s) > Threshold
            /\ req[s].via = None
            => rows'[Slot(s)].status = "COMPLETED"
<1>1. /\ IsPayment(s)' = IsPayment(s) /\ Amount(s)' = Amount(s) /\ Slot(s)' = Slot(s)
      /\ From(s)' = From(s) /\ To(s)' = To(s)
  BY DEF IsPayment, Amount, Slot, From, To, Dest
<1>2. ASSUME pc[s] = "begin", IsPayment(s), Amount(s) > Threshold, req[s].via = None
      PROVE  rows'[Slot(s)].status = "COMPLETED"
  <2>1. Slot(s) \in Users \X Keys
    BY <1>2 DEF IndInv, RequestsSound, RequestSound, Slot, Request, InTx
  <2>2. rows[Slot(s)].status = "COMPLETED"
    BY <1>2 DEF IndInv, ProgressSound, Progress
  <2> QED
    BY <2>1, <2>2, CompletedStep
<1> QED
  BY <1>1, <1>2

LEMMA ProgressKept ==
  ASSUME IndInv, Next, NEW s \in Requests, req'[s] = req[s], pc'[s] = pc[s],
         allowed'[s] = allowed[s], answer'[s] = answer[s], posted' \subseteq posted \cup {x \in Requests : x # s}
  PROVE  Progress(s)'
<1> Progress(s)
  BY DEF IndInv, ProgressSound
<1>1. s \in posted => s \in posted'
  BY PostedStep
<1> QED
  BY <1>1, ProgressFrame DEF Progress, InTx

LEMMA ProgressStep ==
  ASSUME IndInv, Next
  PROVE  ProgressSound'
<1> TypeOK /\ RequestsSound /\ ProgressSound
  BY DEF IndInv
<1>1. ASSUME NEW r \in Requests, StepOf(r), NEW s \in Requests, s # r
      PROVE  Progress(s)'
  <2>1. req'[s] = req[s] /\ pc'[s] = pc[s] /\ allowed'[s] = allowed[s] /\ answer'[s] = answer[s]
    BY <1>1 DEF StepOf, Receive, ReceiveCredit, ReceiveConfirm, DeleteChallenge, PassKyc,
       PassFraudCheck, IssueChallenge, Begin, Acquire, Notify, Commit, Ends, Restarts,
       Restart, ExpireChallenge, Goto, Finish, TypeOK, tx
  <2>2. posted' \subseteq posted \cup {r}
    BY <1>1 DEF StepOf, Receive, ReceiveCredit, ReceiveConfirm, DeleteChallenge, PassKyc,
       PassFraudCheck, IssueChallenge, Begin, Acquire, Notify, Commit, Ends, Restarts,
       ExpireChallenge, db
  <2> QED
    BY <1>1, <2>1, <2>2, ProgressKept
<1>2. ASSUME NEW r \in Requests, StepOf(r)
      PROVE  Progress(r)'
  <2> Progress(r) /\ RequestSound(r)
    BY DEF ProgressSound, RequestsSound
  <2>1. ASSUME NEW u \in Users, NEW k \in Keys, NEW c \in Calls, Receive(r, u, k, c)
        PROVE  Progress(r)'
    BY <2>1 DEF Receive, Goto, Progress, InTx, TypeOK, db
  <2>2. ASSUME NEW u \in Users, NEW c \in Calls, ReceiveCredit(r, u, c)
        PROVE  Progress(r)'
    BY <2>2 DEF ReceiveCredit, Goto, Progress, InTx, TypeOK, db, IsPayment
  <2>3. ASSUME NEW ch \in Requests, ReceiveConfirm(r, ch)
        PROVE  Progress(r)'
    BY <2>3 DEF ReceiveConfirm, Goto, Progress, InTx, TypeOK, db
  <2>4. CASE DeleteChallenge(r) \/ PassFraudCheck(r) \/ PassKyc(r)
    BY <2>4, ProgressFrame DEF DeleteChallenge, PassFraudCheck, NeedsStepUp, PassKyc, Goto,
       Progress, RequestSound, InTx, TypeOK, db
  <2>5. CASE IssueChallenge(r) \/ Ends(r)
    BY <2>5 DEF IssueChallenge, Ends, Finish, Progress, InTx, TypeOK, db, Replay
  <2>6. CASE ExpireChallenge(r)
    BY <2>6, ProgressKept DEF ExpireChallenge, tx, db
  <2>7. CASE Begin(r)
    BY <2>7, ProgressFrame, ChecksFacts DEF Begin, FindsNoRow, Progress, InTx, TypeOK, db
  <2>8. CASE Acquire(r)
    <3>1. /\ pc[r] \in {"key", "debit", "credit"}
          /\ pc'[r] \in {"debit", "credit", "notify", "commit"}
          /\ pc'[r] \in {"credit", "notify", "commit"} => allowed[r]
      BY <2>8, WantsFacts DEF Acquire, Goto, NextPc, TypeOK, Progress
    <3> QED
      BY <2>8, <3>1, ProgressFrame DEF Acquire, Goto, Progress, InTx, TypeOK, db, tx
  <2>9. CASE Notify(r) \/ Commit(r) \/ Restarts(r)
    BY <2>9, ProgressFrame DEF Notify, Commit, Restarts, Restart, Goto, Progress, InTx, TypeOK,
       db, tx
  <2> QED
    BY <1>2, <2>1, <2>2, <2>3, <2>4, <2>5, <2>6, <2>7, <2>8, <2>9 DEF StepOf
<1>3. CASE Crash
  <2>1. ASSUME NEW s \in Requests
        PROVE  Progress(s)'
    BY <1>3, <2>1 DEF Crash, InFlight, Progress, ProgressSound, InTx, TypeOK, db
  <2> QED
    BY <2>1 DEF ProgressSound
<1>4. CASE Elsewhere
  BY <1>4, ProgressKept DEF Elsewhere, tx, db, ProgressSound
<1> QED
  BY <1>1, <1>2, <1>3, <1>4, StepCases DEF ProgressSound

-----------------------------------------------------------------------------
(* The open transactions.                                                  *)

SafeTx(r) ==
  pc[r] \in InTx =>
    /\ Holds(r) \cap stale[r] = {}
    /\ IsPayment(r) /\ Slot(r) \notin stale[r] => rows[Slot(r)] = NoRow
    /\ IsPayment(r) /\ allowed[r] /\ From(r) \notin stale[r]
         => balance[From(r)] >= Amount(r)

LEMMA HoldsFrame ==
  ASSUME NEW s \in Requests, req'[s] = req[s]
  PROVE  /\ IsPayment(s)' = IsPayment(s) /\ Amount(s)' = Amount(s)
         /\ Slot(s)' = Slot(s) /\ From(s)' = From(s) /\ To(s)' = To(s)
         /\ pc'[s] = pc[s] => Holds(s)' = Holds(s)
<1>1. /\ IsPayment(s)' = IsPayment(s) /\ Amount(s)' = Amount(s)
      /\ Slot(s)' = Slot(s) /\ From(s)' = From(s) /\ To(s)' = To(s)
  BY DEF IsPayment, Amount, Slot, From, To, Dest
<1> QED
  BY <1>1 DEF Holds

\* A handler only gains the lock it asked for, and only if nobody has it.
LEMMA LocksStep ==
  ASSUME IndInv, NEW r \in Requests, StepOf(r)
  PROVE  /\ Holds(r)' \subseteq Holds(r) \cup (IF Acquire(r) THEN Wants(r) ELSE {})
         /\ Acquire(r) => \A s \in Requests \ {r} : Wants(r) \cap Holds(s) = {}
<1> TypeOK
  BY DEF IndInv
<1>1. CASE Acquire(r)
  <2>1. Holds(r)' \subseteq Holds(r) \cup Wants(r)
    <3>1. /\ IsPayment(r)' = IsPayment(r) /\ Slot(r)' = Slot(r)
          /\ From(r)' = From(r) /\ To(r)' = To(r)
      BY <1>1, HoldsFrame DEF Acquire
    <3>2. pc'[r] = NextPc(r)
      BY <1>1 DEF Acquire, Goto, TypeOK
    <3>3. CASE pc[r] = "key"
      BY <3>1, <3>2, <3>3 DEF Holds, Wants, NextPc
    <3>4. CASE pc[r] = "debit"
      BY <1>1, <3>1, <3>2, <3>4, WantsFacts DEF Acquire, Holds, Wants, NextPc
    <3>5. CASE pc[r] = "credit"
      BY <3>1, <3>2, <3>5 DEF Holds, Wants, NextPc
    <3> QED
      BY <1>1, <3>3, <3>4, <3>5, WantsFacts DEF Acquire
  <2>2. \A s \in Requests \ {r} : Wants(r) \cap Holds(s) = {}
    BY <1>1 DEF Acquire, MayWrite, Blocked, Waits
  <2> QED
    BY <1>1, <2>1, <2>2
<1>2. CASE Begin(r)
  <2>1. pc'[r] \in {"key", "debit"} /\ (pc'[r] = "debit" => ~IsPayment(r)')
    BY <1>2, HoldsFrame DEF Begin, TypeOK
  <2> QED
    BY <1>1, <2>1 DEF Holds
<1>3. CASE Notify(r) \/ ExpireChallenge(r)
  BY <1>1, <1>3, HoldsFrame DEF Notify, Goto, ExpireChallenge, tx, TypeOK, Holds
<1>4. CASE ~(Acquire(r) \/ Begin(r) \/ Notify(r) \/ ExpireChallenge(r))
  <2>1. pc'[r] \notin InTx
    BY <1>4 DEF StepOf, Receive, ReceiveCredit, ReceiveConfirm, DeleteChallenge, PassKyc,
       PassFraudCheck, IssueChallenge, Commit, Ends, Restarts, Restart, Goto, Finish,
       TypeOK, InTx
  <2> QED
    BY <1>1, <2>1 DEF Holds, InTx
<1> QED
  BY <1>1, <1>2, <1>3, <1>4

\* An open transaction whose row locks and snapshot another one does not disturb.
LEMMA SafeTxKept ==
  ASSUME IndInv, Next, NEW s \in Requests, req'[s] = req[s], pc'[s] = pc[s],
         allowed'[s] = allowed[s], stale'[s] = stale[s], UNCHANGED db
  PROVE  SafeTx(s)'
<1> SafeTx(s)
  BY DEF IndInv, OpenTransactionsSound, SafeTx
<1> QED
  BY HoldsFrame DEF SafeTx, db, InTx

\* A commit makes stale, for every open transaction, what it changed of its rows.
LEMMA SafeTxCommit ==
  ASSUME IndInv, Next, NEW r \in Requests, Commit(r), NEW s \in Requests, s # r
  PROVE  SafeTx(s)'
<1> TypeOK /\ SafeTx(s)
  BY DEF IndInv, OpenTransactionsSound, SafeTx
<1>1. SUFFICES ASSUME pc[s] \in InTx
               PROVE  SafeTx(s)'
  BY DEF Commit, SafeTx, TypeOK, InTx
<1>2. /\ req'[s] = req[s] /\ pc'[s] = pc[s] /\ allowed'[s] = allowed[s]
      /\ stale'[s] = stale[s] \cup (Footprint(s) \cap Holds(r))
  BY <1>1 DEF Commit, TypeOK
<1>3. Holds(s) \cap Holds(r) = {}
  BY DEF IndInv, OpenTransactionsSound
<1>4. Holds(s)' \cap stale'[s] = {}
  BY <1>1, <1>2, <1>3, HoldsFrame DEF SafeTx
<1>5. req[s] \in Request
  BY <1>1 DEF IndInv, RequestsSound, RequestSound, InTx
<1>6. ASSUME IsPayment(s), Slot(s) \notin stale'[s]
      PROVE  rows'[Slot(s)] = NoRow
  <2>1. Slot(s) \notin Holds(r) /\ rows[Slot(s)] = NoRow
    BY <1>1, <1>2, <1>6 DEF SafeTx, Footprint
  <2>2. Slot(s) \in Users \X Keys
    BY <1>5, <1>6 DEF IndInv, RequestsSound, RequestSound, Slot, Request
  <2>3. ~(IsPayment(r) /\ Slot(s) = Slot(r))
    BY <2>1, CommitFacts
  <2>4. \A slot \in Users \X Keys :
           rows'[slot] = IF IsPayment(r) /\ slot = Slot(r)
                         THEN [status |-> "COMPLETED", by |-> r] ELSE rows[slot]
    BY CommitFacts
  <2> QED
    BY <2>1, <2>2, <2>3, <2>4
<1>7. ASSUME IsPayment(s), allowed[s], From(s) \notin stale'[s]
      PROVE  balance'[From(s)] >= Amount(s)
  <2>1. From(s) \notin Holds(r) /\ balance[From(s)] >= Amount(s)
    BY <1>1, <1>2, <1>7 DEF SafeTx, Footprint
  <2>2. From(s) \in Accounts
    BY <1>5, RequestFacts
  <2>3. /\ {From(r), To(r)} \subseteq Holds(r)
        /\ \A a \in Accounts : balance'[a] = IF a = From(r) THEN balance[a] - Amount(r)
                                ELSE IF a = To(r) THEN balance[a] + Amount(r)
                                ELSE balance[a]
    BY CommitFacts
  <2> QED
    BY <2>1, <2>2, <2>3
<1> QED
  BY <1>1, <1>2, <1>4, <1>6, <1>7, HoldsFrame DEF SafeTx

LEMMA SafeTxOwnStep ==
  ASSUME IndInv, Next, NEW r \in Requests, StepOf(r)
  PROVE  SafeTx(r)'
<1> TypeOK /\ SafeTx(r)
  BY DEF IndInv, OpenTransactionsSound, SafeTx
<1>1. CASE Begin(r)
  <2>1. stale'[r] = {} /\ balance' = balance /\ rows' = rows /\ req' = req
        /\ allowed'[r] = Checks(r) /\ pc[r] = "begin"
    BY <1>1 DEF Begin, TypeOK, db
  <2>2. IsPayment(r) => rows[Slot(r)] = NoRow
    <3>1. IsPayment(r) => Slot(r) \in Users \X Keys /\ rows[Slot(r)].status = "ABSENT"
      BY <1>1 DEF Begin, FindsNoRow, IndInv, RequestsSound, RequestSound, Slot, Request, InTx
    <3> QED
      BY <3>1 DEF IndInv, KeyRowsMatchPostings
  <2>3. IsPayment(r) /\ Checks(r) => balance[From(r)] >= Amount(r)
    <3>1. IsPayment(r) => req[r].call.kind \in {"INTERNAL", "BENEFICIARY", "MERCHANT"}
      BY <2>1, RequestFacts DEF IndInv, RequestsSound, RequestSound, InTx, IsPayment, Kinds
    <3> QED
      BY <3>1 DEF Checks, Funded, From, Amount
  <2> QED
    BY <2>1, <2>2, <2>3, HoldsFrame DEF SafeTx
<1>2. CASE Acquire(r)
  <2>1. /\ UNCHANGED <<balance, rows, req, stale, allowed>>
        /\ Wants(r) \cap stale[r] = {} /\ pc[r] \in InTx
    BY <1>2, WantsFacts DEF Acquire, MayWrite, Goto, db, tx, InTx
  <2>2. Holds(r)' \cap stale[r] = {}
    BY <2>1, LocksStep DEF SafeTx
  <2> QED
    BY <2>1, <2>2, HoldsFrame DEF SafeTx
<1>3. CASE Notify(r)
  <2>1. /\ UNCHANGED <<balance, rows, req, stale, allowed>> /\ pc[r] \in InTx
        /\ Holds(r)' \subseteq Holds(r)
    BY <1>3, LocksStep DEF Notify, Acquire, Wants, Goto, db, tx, InTx
  <2> QED
    BY <2>1, HoldsFrame DEF SafeTx
<1>4. CASE ExpireChallenge(r)
  BY <1>4, SafeTxKept DEF ExpireChallenge, tx
<1>5. CASE ~(Acquire(r) \/ Begin(r) \/ Notify(r) \/ ExpireChallenge(r))
  <2>1. pc'[r] \notin InTx
    BY <1>5 DEF StepOf, Receive, ReceiveCredit, ReceiveConfirm, DeleteChallenge, PassKyc,
       PassFraudCheck, IssueChallenge, Commit, Ends, Restarts, Restart, Goto, Finish,
       TypeOK, InTx
  <2> QED
    BY <2>1 DEF SafeTx
<1> QED
  BY <1>1, <1>2, <1>3, <1>4, <1>5

LEMMA OpenTransactionsStep ==
  ASSUME IndInv, Next
  PROVE  OpenTransactionsSound'
<1> TypeOK /\ OpenTransactionsSound
  BY DEF IndInv
<1>1. ASSUME NEW r \in Requests, StepOf(r)
      PROVE  OpenTransactionsSound'
  <2>1. ASSUME NEW s \in Requests, s # r
        PROVE  req'[s] = req[s] /\ pc'[s] = pc[s] /\ allowed'[s] = allowed[s]
    BY <1>1, <2>1 DEF StepOf, Receive, ReceiveCredit, ReceiveConfirm, DeleteChallenge,
       PassKyc, PassFraudCheck, IssueChallenge, Begin, Acquire, Notify, Commit, Ends,
       Restarts, Restart, ExpireChallenge, Goto, Finish, TypeOK, tx
  <2>2. ASSUME NEW s \in Requests, s # r
        PROVE  Holds(r)' \cap Holds(s)' = {}
    <3>1. Holds(s)' = Holds(s)
      BY <2>1, <2>2, HoldsFrame
    <3>2. Holds(r) \cap Holds(s) = {}
      BY <2>2 DEF OpenTransactionsSound
    <3> QED
      BY <1>1, <2>2, <3>1, <3>2, LocksStep
  <2>3. ASSUME NEW s \in Requests, NEW t \in Requests, s # t
        PROVE  Holds(s)' \cap Holds(t)' = {}
    <3>1. CASE s # r /\ t # r
      <4>1. Holds(s)' = Holds(s) /\ Holds(t)' = Holds(t)
        BY <2>1, <3>1, HoldsFrame
      <4> QED
        BY <2>3, <4>1 DEF OpenTransactionsSound
    <3> QED
      BY <2>2, <2>3, <3>1
  <2>4. ASSUME NEW s \in Requests
        PROVE  SafeTx(s)'
    <3>1. CASE s = r
      BY <1>1, <3>1, SafeTxOwnStep
    <3>2. CASE Commit(r) /\ s # r
      BY <3>2, SafeTxCommit
    <3>3. CASE ~Commit(r) /\ s # r
      <4>1. stale'[s] = stale[s] /\ UNCHANGED db
        BY <1>1, <3>3 DEF StepOf, Receive, ReceiveCredit, ReceiveConfirm, DeleteChallenge,
           PassKyc, PassFraudCheck, IssueChallenge, Begin, Acquire, Notify, Ends, Restarts,
           Restart, ExpireChallenge, Goto, Finish, TypeOK, tx
      <4> QED
        BY <2>1, <3>3, <4>1, SafeTxKept
    <3> QED
      BY <3>1, <3>2, <3>3
  <2> QED
    BY <2>3, <2>4 DEF OpenTransactionsSound, SafeTx
<1>2. CASE Crash
  <2>1. \A s \in Requests : pc'[s] \notin InTx
    BY <1>2 DEF Crash, InFlight, TypeOK, InTx
  <2>2. \A s \in Requests : Holds(s)' = {}
    BY <2>1 DEF Holds, InTx
  <2> QED
    BY <2>1, <2>2 DEF OpenTransactionsSound
<1>3. CASE Elsewhere
  <2>1. \A s \in Requests : Holds(s)' = Holds(s) /\ SafeTx(s)'
    BY <1>3, HoldsFrame, SafeTxKept DEF Elsewhere, tx
  <2> QED
    BY <2>1 DEF OpenTransactionsSound, SafeTx
<1> QED
  BY <1>1, <1>2, <1>3, StepCases

-----------------------------------------------------------------------------
(* Notifications.                                                          *)

\* Somebody has been told of s.
Told(s) == \E u \in Users : <<s, u>> \in notices

\* The notifications of s, and whether it has posted, change in its own steps only.
LEMMA NoticesFrame ==
  ASSUME IndInv, NEW r \in Requests, StepOf(r), NEW s \in Requests, s # r
  PROVE  /\ pc'[s] = pc[s] /\ req'[s] = req[s]
         /\ \A u \in Users : <<s, u>> \in notices' <=> <<s, u>> \in notices
         /\ s \in posted' <=> s \in posted
  BY DEF StepOf, Receive, ReceiveCredit, ReceiveConfirm, DeleteChallenge, PassKyc,
     PassFraudCheck, IssueChallenge, Begin, Acquire, Notify, Commit, Ends, Restarts, Restart,
     ExpireChallenge, Goto, Finish, db, tx, IndInv, TypeOK

\* Only Notify and Commit tell anybody, and only Acquire goes to "notify".
LEMMA NoticesOwn ==
  ASSUME IndInv, NEW r \in Requests, StepOf(r), ~Notify(r), ~Commit(r)
  PROVE  /\ UNCHANGED <<notices, posted>>
         /\ pc'[r] = "notify" => pc[r] # "new" /\ req[r].call.kind # "MERCHANT"
         /\ pc'[r] = "new" => pc[r] = "new"
<1> TypeOK /\ NoticesSound
  BY DEF IndInv
<1>1. UNCHANGED <<notices, posted>>
  BY DEF StepOf, Receive, ReceiveCredit, ReceiveConfirm, DeleteChallenge, PassKyc,
     PassFraudCheck, IssueChallenge, Begin, Acquire, Ends, Restarts, ExpireChallenge, db
<1>2. CASE Acquire(r)
  <2>1. Wants(r) # {} /\ pc' = [pc EXCEPT ![r] = NextPc(r)]
    BY <1>2 DEF Acquire, Goto
  <2>2. pc[r] \in {"key", "debit", "credit"}
    BY <2>1, WantsFacts
  <2>3. NextPc(r) # "new" /\ (NextPc(r) = "notify" => req[r].call.kind # "MERCHANT")
    BY <2>2 DEF NextPc
  <2> QED
    BY <1>1, <2>1, <2>2, <2>3 DEF TypeOK
<1>3. CASE ~Acquire(r)
  BY <1>1, <1>3 DEF StepOf, Receive, ReceiveCredit, ReceiveConfirm, DeleteChallenge, PassKyc,
     PassFraudCheck, IssueChallenge, Begin, Ends, Restarts, Restart, ExpireChallenge,
     Goto, Finish, tx, TypeOK, NoticesSound
<1> QED
  BY <1>1, <1>2, <1>3

LEMMA NoticesStep ==
  ASSUME IndInv, Next
  PROVE  NoticesSound' /\ MerchantNoticeAtomic'
<1> DEFINE Sound(s) ==
      /\ \A u \in Users : <<s, u>> \in notices => pc[s] # "new"
      /\ pc[s] = "notify" => req[s].call.kind # "MERCHANT"
      /\ req[s] # NoRequest /\ pc[s] # "new" /\ req[s].call.kind = "MERCHANT" =>
           (Told(s) <=> s \in posted)
<1> TypeOK /\ \A s \in Requests : Sound(s)
  BY DEF IndInv, NoticesSound, MerchantNoticeAtomic, Told
<1> SUFFICES ASSUME NEW s \in Requests PROVE Sound(s)'
  BY DEF NoticesSound, MerchantNoticeAtomic, Told
<1> USE DEF Told
<1>1. ASSUME NEW r \in Requests, StepOf(r), s # r
      PROVE  Sound(s)'
  BY <1>1, NoticesFrame
<1>2. CASE Notify(s)
  BY <1>2 DEF Notify, Goto, db, TypeOK
<1>3. CASE Commit(s)
  <2>1. req[s].user \in Users
    BY <1>3, CommitFacts DEF Request
  <2>2. req[s].call.kind = "MERCHANT" => <<s, req[s].user>> \in notices'
    BY <1>3 DEF Commit, Recipients
  <2> QED
    BY <1>3, <2>1, <2>2 DEF Commit, TypeOK
<1>4. CASE StepOf(s) /\ ~Notify(s) /\ ~Commit(s)
  <2>1. /\ UNCHANGED <<notices, posted>>
        /\ pc'[s] = "notify" => pc[s] # "new" /\ req[s].call.kind # "MERCHANT"
        /\ pc'[s] = "new" => pc[s] = "new"
    BY <1>4, NoticesOwn
  <2>2. pc[s] # "new" => req'[s] = req[s]
    BY PersistStep DEF Persists
  <2>3. pc[s] = "new" => s \notin posted /\ ~Told(s)
    BY DEF IndInv, ProgressSound, Progress
  <2> QED
    BY <2>1, <2>2, <2>3
<1>5. CASE Crash \/ Elsewhere
  <2>1. UNCHANGED <<notices, posted, req>>
    BY <1>5 DEF Crash, Elsewhere, db
  <2>2. pc'[s] = pc[s] \/ (pc'[s] = "done" /\ pc[s] # "new")
    BY <1>5 DEF Crash, Elsewhere, InFlight
  <2> QED
    BY <2>1, <2>2
<1> QED
  BY <1>1, <1>2, <1>3, <1>4, <1>5, StepCases

-----------------------------------------------------------------------------
(* The theorems.                                                           *)

LEMMA IndInvStep == IndInv /\ [Next]_vars => IndInv'
<1>1. ASSUME IndInv, Next
      PROVE  IndInv'
  BY <1>1, TypeStep, RequestsStep, ProgressStep, OpenTransactionsStep, KeyRowsStep,
     AnswersStep, LargePaymentsStep, NoOverdraftStep, NoticesStep, LedgerBackedStep
  DEF IndInv
<1>2. ASSUME IndInv, UNCHANGED vars
      PROVE  IndInv'
  <2>1. UNCHANGED <<db, challenges, verified, active, notices, req, pc, tx, answer>>
    BY <1>2 DEF vars, env
  <2> USE <1>2, <2>1 DEF IndInv, db, tx
  <2>2. TypeOK'
    BY DEF TypeOK, Request, Row, Pcs
  <2>3. RequestsSound' /\ ProgressSound'
    BY DEF RequestsSound, RequestSound, ProgressSound, Progress, Request, Confirms,
       SameRequest, Slot, From, To, Dest, Amount, IsPayment
  <2>4. OpenTransactionsSound'
    BY DEF OpenTransactionsSound, Holds, Slot, From, To, Amount, IsPayment
  <2>5. KeyRowsMatchPostings' /\ NoOverdraft'
    BY DEF KeyRowsMatchPostings, NoOverdraft, Slot, IsPayment
  <2>6. AnswersAreTrue' /\ LargePaymentsConfirmed'
    BY DEF AnswersAreTrue, LargePaymentsConfirmed, Confirms, SameRequest, Amount, IsPayment
  <2>7. NoticesSound' /\ MerchantNoticeAtomic'
    BY DEF NoticesSound, MerchantNoticeAtomic
  <2>8. FinitePostings' /\ LedgerBacked'
    BY DEF FinitePostings, LedgerBacked, Total, Units, Credits, Debits, Amount, To, From, Dest
  <2> QED
    BY <2>2, <2>3, <2>4, <2>5, <2>6, <2>7, <2>8
<1> QED
  BY <1>1, <1>2

\* The inductive invariant holds in every reachable state.
THEOREM Invariance == Safety => []IndInv
  BY InitIndInv, IndInvStep, PTL DEF Safety

\* Every variable keeps its type: in particular no request ever makes more than
\* MaxAttempts attempts, and only known codes are answered.
THEOREM TypesHold == Safety => []TypeOK
  BY Invariance, PTL DEF IndInv

\* No customer account is ever overdrawn, however transactions interleave.
THEOREM NoOverdraftHolds == Safety => []NoOverdraft
  BY Invariance, PTL DEF IndInv

\* Every balance is what the accounts opened with and the postings on them, at every
\* moment: no update is lost and none shows without its transaction.
THEOREM LedgerBackedHolds == Safety => []LedgerBacked
  BY Invariance, PTL DEF IndInv

\* A committed key row and its posting stand for each other, whatever crashes.
THEOREM KeyRowsHold == Safety => []KeyRowsMatchPostings
  BY Invariance, PTL DEF IndInv

\* An idempotency key moves money at most once: two postings of one slot would both
\* be the one its row names.
THEOREM AtMostOnceHolds == Safety => []AtMostOncePerKey
<1>1. IndInv => AtMostOncePerKey
  BY DEF IndInv, KeyRowsMatchPostings, AtMostOncePerKey
<1> QED
  BY <1>1, Invariance, PTL

\* Responses tell the truth about what was posted.
THEOREM AnswersHold == Safety => []AnswersAreTrue
  BY Invariance, PTL DEF IndInv

\* A large payment was confirmed by the very user, for the very key and body.
THEOREM ConfirmationHolds == Safety => []LargePaymentsConfirmed
  BY Invariance, PTL DEF IndInv

\* Row locks exclude each other, and what a transaction read is still true of the
\* rows that are not marked stale.
THEOREM OpenTransactionsHold == Safety => []OpenTransactionsSound
  BY Invariance, PTL DEF IndInv

\* A merchant payment has its notification if and only if it is posted, whatever
\* aborts, retries and crashes it has been through.
THEOREM MerchantNoticeHolds == Safety => []MerchantNoticeAtomic
  BY Invariance, PTL DEF IndInv

-----------------------------------------------------------------------------
(* Payments implements Ledger.                                             *)

\* Ledger's own assumptions hold of the parameters it is given.
THEOREM LedgerParametersHold == L!LedgerParameters
  BY PaymentsAssumption, CallFacts DEF L!LedgerParameters, L!Movement

LEMMA LedgerInitMaps == Init => L!LedgerInit
  BY DEF Init, L!LedgerInit, Paid

\* What a completed slot has paid for never changes.
LEMMA MovedStep ==
  ASSUME IndInv, Next, NEW slot \in Users \X Keys, rows[slot].status = "COMPLETED",
         rows'[slot] = rows[slot]
  PROVE  Paid'[slot] = Paid[slot]
<1>1. rows[slot].by \in posted
  BY DEF IndInv, KeyRowsMatchPostings
<1>2. req'[rows[slot].by] = req[rows[slot].by]
  BY <1>1, PostedStep
<1> QED
  BY <1>2 DEF Paid, Moved, From, To, Dest, Amount

LEMMA LedgerStepMaps ==
  ASSUME IndInv, Next
  PROVE  [L!LedgerNext]_(L!ledgerVars)
<1>1. ASSUME NEW slot \in Users \X Keys, rows'[slot] = rows[slot]
      PROVE  Paid'[slot] = Paid[slot]
  <2>1. CASE rows[slot].status = "COMPLETED"
    BY <1>1, <2>1, MovedStep
  <2>2. CASE rows[slot].status # "COMPLETED"
    BY <1>1, <2>2 DEF Paid
  <2> QED
    BY <2>1, <2>2
<1>2. CASE UNCHANGED db
  <2>1. Paid' = Paid
    BY <1>1, <1>2 DEF db, Paid
  <2> QED
    BY <1>2, <2>1 DEF db, L!ledgerVars
<1>3. ASSUME NEW r \in Requests, Commit(r)
      PROVE  L!LedgerNext
  <2>1. Moved(r) \in L!Movement
    <3>1. req[r].call \in Calls
      BY <1>3, CommitFacts DEF Request
    <3> QED
      BY <1>3, <3>1, CommitFacts DEF Moved, L!Movement, Amount
  <2>2. L!Move(Moved(r))
    BY <1>3 DEF Commit, MoveMoney, L!Move, Moved
  <2>3. CASE IsPayment(r)
    <3>1. Slot(r) \in Users \X Keys /\ rows[Slot(r)] = NoRow
      BY <1>3, <2>3, CommitFacts
    <3>2. Paid[Slot(r)] = None
      BY <3>1 DEF Paid
    <3>3. \A slot \in Users \X Keys :
            Paid'[slot] = IF slot = Slot(r) THEN Moved(r) ELSE Paid[slot]
      <4>1. TAKE slot \in Users \X Keys
      <4>2. rows'[slot] = IF slot = Slot(r) THEN [status |-> "COMPLETED", by |-> r]
                          ELSE rows[slot]
        BY <1>3, <2>3, CommitFacts
      <4>3. CASE slot = Slot(r)
        <5>1. Moved(r)' = Moved(r)
          BY <1>3, CommitFacts DEF Moved, From, To, Dest, Amount
        <5> QED
          BY <4>2, <4>3, <5>1 DEF Paid
      <4>4. CASE slot # Slot(r)
        BY <1>1, <4>2, <4>4
      <4> QED
        BY <4>3, <4>4
    <3>4. Paid' = [Paid EXCEPT ![Slot(r)] = Moved(r)]
      BY <3>3 DEF Paid
    <3>5. L!Pay(Slot(r), Moved(r))
      BY <1>3, <2>2, <2>3, <3>2, <3>4, CommitFacts DEF L!Pay, Moved
    <3> QED
      BY <2>1, <3>1, <3>5 DEF L!LedgerNext
  <2>4. CASE ~IsPayment(r)
    <3>1. Paid' = Paid
      BY <1>1, <1>3, <2>4 DEF Commit, Paid
    <3>2. L!Fund(Moved(r))
      BY <1>3, <2>2, <2>4, <3>1, CommitFacts DEF L!Fund, Moved
    <3> QED
      BY <2>1, <3>2 DEF L!LedgerNext
  <2> QED
    BY <2>3, <2>4
<1> QED
  BY <1>2, <1>3, DatabaseStep

\* The service implements the ledger: for all its retries, aborts and crashes, what
\* a client can see of the accounts and keys is a sequence of atomic payments.
THEOREM Refinement == Safety => ImplementsLedger
<1>1. IndInv /\ [Next]_vars => [L!LedgerNext]_(L!ledgerVars)
  <2>1. ASSUME UNCHANGED vars
        PROVE  UNCHANGED L!ledgerVars
    BY <2>1 DEF vars, db, L!ledgerVars, Paid, Moved, From, To, Dest, Amount
  <2> QED
    BY <2>1, LedgerStepMaps
<1> QED
  BY <1>1, LedgerInitMaps, Invariance, PTL DEF Safety, ImplementsLedger, L!LedgerSpec

-----------------------------------------------------------------------------
(* Payments implements PaymentApi.                                         *)

\* What PaymentApi assumes of its parameters holds of those it is given.
THEOREM ApiParametersHold == Api!ApiParameters
  BY PaymentsAssumption DEF Api!ApiParameters, LargeBodies

LEMMA ApiInitMaps == Init => Api!ApiInit
<1> SUFFICES ASSUME Init PROVE Api!ApiInit
  OBVIOUS
<1>1. \A r \in Requests : ~AsksToPay(r)
  BY DEF Init, AsksToPay
<1>2. Asked = [r \in Requests |-> Api!NotAsked] /\ Replied = [r \in Requests |-> Api!NoReply]
  BY <1>1 DEF Asked, Replied, Api!NotAsked, Api!NoReply
<1> QED
  BY <1>2 DEF Init, Api!ApiInit

\* What the interface shows of a request.
LEMMA AsksFacts ==
  ASSUME IndInv, NEW r \in Requests
  PROVE  /\ AsksToPay(r) => /\ req[r] \in Request /\ Slot(r) \in Users \X Keys
                            /\ req[r].call \in PaymentBodies
                            /\ pc[r] # "new"
                            /\ Asked[r] # Api!NotAsked
                            /\ Asked[r].slot = Slot(r) /\ Asked[r].body = req[r].call
                            /\ Asked[r].kind = IF req[r].via = None THEN "submit" ELSE "confirm"
                            /\ Replied[r] = Decided(r)
         /\ ~AsksToPay(r) => Asked[r] = Api!NotAsked /\ Replied[r] = Api!NoReply
         /\ r \in posted \cup challenges \/ pc[r] \notin {"new", "done"} =>
              (AsksToPay(r) <=> IsPayment(r))
<1> TypeOK /\ RequestSound(r)
  BY DEF IndInv, RequestsSound
<1>1. NoRequest \notin Request
  BY PaymentsAssumption DEF Request
<1>2. AsksToPay(r) => req[r] \in Request /\ IsPayment(r) /\ req[r].key \in Keys /\ pc[r] # "new"
  BY DEF AsksToPay, TypeOK, RequestSound
<1>3. AsksToPay(r) => Slot(r) \in Users \X Keys /\ req[r].call \in PaymentBodies
  BY <1>2 DEF Slot, Request, PaymentBodies, IsPayment
<1>4. AsksToPay(r) => /\ Asked[r].slot = Slot(r) /\ Asked[r].body = req[r].call
                      /\ Asked[r].kind = IF req[r].via = None THEN "submit" ELSE "confirm"
                      /\ Replied[r] = Decided(r)
  BY DEF Asked, Replied
<1>5. AsksToPay(r) => Asked[r] # Api!NotAsked
  BY <1>4 DEF Api!NotAsked
<1>6. ~AsksToPay(r) => Asked[r] = Api!NotAsked /\ Replied[r] = Api!NoReply
  BY DEF Asked, Replied, Api!NotAsked, Api!NoReply
<1>7. r \in posted \cup challenges \/ pc[r] \notin {"new", "done"} =>
        (AsksToPay(r) <=> IsPayment(r))
  BY <1>1 DEF AsksToPay, RequestSound
<1> QED
  BY <1>2, <1>3, <1>4, <1>5, <1>6, <1>7

\* A request whose handler is under way has not been answered.
LEMMA UnservedFacts ==
  ASSUME IndInv, NEW r \in Requests, AsksToPay(r), pc[r] \notin {"respond", "done"}
  PROVE  Api!Unserved(r) /\ r \notin posted
<1>1. r \notin posted /\ answer[r].code = "none"
  BY DEF IndInv, ProgressSound, Progress
<1>2. Replied[r] = Api!NoReply
  BY <1>1, AsksFacts DEF Decided, Api!NoReply
<1> QED
  BY <1>1, <1>2, AsksFacts DEF Api!Unserved

\* A request that keeps its fields, its answer and its posting shows the same.
LEMMA ShowsSame ==
  ASSUME NEW r \in Requests, req'[r] = req[r], answer'[r] = answer[r],
         r \in posted' <=> r \in posted
  PROVE  Asked'[r] = Asked[r] /\ Replied'[r] = Replied[r]
<1>1. AsksToPay(r)' = AsksToPay(r) /\ Slot(r)' = Slot(r)
  BY DEF AsksToPay, IsPayment, Slot
<1>2. Decided(r)' = Decided(r)
  BY DEF Decided
<1> QED
  BY <1>1, <1>2 DEF Asked, Replied

LEMMA AllSame ==
  ASSUME UNCHANGED <<db, req>>, \A r \in Requests : Asked'[r] = Asked[r] /\ Replied'[r] = Replied[r]
  PROVE  UNCHANGED Api!apiVars
<1>1. Asked' = Asked /\ Replied' = Replied
  BY DEF Asked, Replied
<1>2. {r \in posted : IsPayment(r)}' = {r \in posted : IsPayment(r)}
  BY DEF db, IsPayment
<1>3. [slot \in Users \X Keys |-> rows[slot].by]' = [slot \in Users \X Keys |-> rows[slot].by]
  BY DEF db
<1> QED
  BY <1>1, <1>2, <1>3 DEF Api!apiVars

LEMMA OthersShowSame ==
  ASSUME IndInv, NEW r \in Requests, StepOf(r), NEW s \in Requests, s # r
  PROVE  Asked'[s] = Asked[s] /\ Replied'[s] = Replied[s]
<1>1. req'[s] = req[s] /\ answer'[s] = answer[s] /\ (s \in posted' <=> s \in posted)
  BY DEF StepOf, Receive, ReceiveCredit, ReceiveConfirm, DeleteChallenge, PassKyc,
     PassFraudCheck, IssueChallenge, Begin, Acquire, Notify, Commit, Ends, Restarts, Restart,
     ExpireChallenge, Goto, Finish, db, tx, IndInv, TypeOK
<1> QED
  BY <1>1, ShowsSame

\* A step of r that leaves the database answers r, if anything.
LEMMA OwnAnswer ==
  ASSUME IndInv, NEW r \in Requests, StepOf(r), UNCHANGED <<db, req>>, NEW x, Replied'[r] = x
  PROVE  /\ Api!Answer(r, x)
         /\ UNCHANGED <<Asked, {s \in posted : IsPayment(s)},
                        [slot \in Users \X Keys |-> rows[slot].by]>>
<1>1. Asked' = Asked
  BY DEF Asked, AsksToPay, IsPayment, Slot
<1>2. \A s \in Requests : Replied'[s] = IF s = r THEN x ELSE Replied[s]
  BY OthersShowSame
<1>3. Replied' = [Replied EXCEPT ![r] = x]
  BY <1>2 DEF Replied
<1> QED
  BY <1>1, <1>3 DEF Api!Answer, db, IsPayment

\* The client's side: a request arrives.
LEMMA ArrivalAsks ==
  ASSUME IndInv, NEW r \in Requests,
         \/ \E u \in Users, k \in Keys, c \in Calls : Receive(r, u, k, c)
         \/ \E ch \in Requests : ReceiveConfirm(r, ch)
  PROVE  Api!Ask(r)
<1> TypeOK
  BY DEF IndInv
<1>1. /\ pc[r] = "new" /\ req[r] = NoRequest /\ StepOf(r)
      /\ UNCHANGED <<db, answer>>
      /\ \A s \in Requests \ {r} : req'[s] = req[s]
  BY DEF Receive, ReceiveConfirm, StepOf, Goto, IndInv, RequestsSound, RequestSound, TypeOK
<1>2. /\ Asked[r] = Api!NotAsked /\ Replied[r] = Api!NoReply
      /\ r \notin posted /\ answer[r].code = "none"
  BY <1>1, AsksFacts DEF AsksToPay, IndInv, ProgressSound, Progress
<1>3. ASSUME AsksToPay(r)'
      PROVE  /\ UNCHANGED <<Replied, {s \in posted : IsPayment(s)},
                            [slot \in Users \X Keys |-> rows[slot].by]>>
             /\ \A x : Asked'[r] = x => Asked' = [Asked EXCEPT ![r] = x]
  <2>1. Replied'[r] = Replied[r]
    BY <1>1, <1>2, <1>3 DEF Replied, Decided, Api!NoReply, db
  <2>2. \A s \in Requests : Replied'[s] = Replied[s]
    BY <1>1, <2>1, OthersShowSame
  <2>3. \A s \in Requests \ {r} : Asked'[s] = Asked[s]
    BY <1>1, OthersShowSame
  <2>4. Replied' = Replied /\ \A x : Asked'[r] = x => Asked' = [Asked EXCEPT ![r] = x]
    BY <2>2, <2>3 DEF Replied, Asked
  <2>5. \A s \in posted : s \in Requests \ {r}
    BY <1>2 DEF TypeOK
  <2>6. {s \in posted : IsPayment(s)}' = {s \in posted : IsPayment(s)}
    BY <1>1, <2>5 DEF db, IsPayment
  <2> QED
    BY <1>1, <2>4, <2>6 DEF db
<1>4. ASSUME NEW u \in Users, NEW k \in Keys, NEW c \in Calls, Receive(r, u, k, c)
      PROVE  Api!Ask(r)
  <2>1. req'[r] = [user |-> u, key |-> k, call |-> c, via |-> None] /\ c \in PaymentBodies
    BY <1>4 DEF Receive, TypeOK, PaymentBodies
  <2>2. AsksToPay(r)'
    BY <2>1, PaymentsAssumption DEF AsksToPay, IsPayment, PaymentBodies
  <2>3. Asked'[r] = Api!Submission(<<u, k>>, c)
    BY <2>1, <2>2 DEF Asked, Api!Submission, Slot
  <2>4. <<u, k>> \in Users \X Keys
    OBVIOUS
  <2> QED
    BY <1>2, <1>3, <2>1, <2>2, <2>3, <2>4 DEF Api!Ask
<1>5. ASSUME NEW ch \in Requests, ReceiveConfirm(r, ch)
      PROVE  Api!Ask(r)
  <2>1. /\ ch \in challenges /\ IsPayment(ch) /\ req[ch] \in Request
        /\ answer[ch].code = "step-up" /\ ch \notin posted
    BY <1>5 DEF ReceiveConfirm, IndInv, RequestsSound, RequestSound, AnswersAreTrue
  <2>2. /\ AsksToPay(ch) /\ Asked[ch].slot = Slot(ch) /\ Asked[ch].body = req[ch].call
        /\ Replied[ch].code = "step-up"
    <3>1. AsksToPay(ch)
      BY <2>1, AsksFacts
    <3>2. Decided(ch).code = "step-up"
      BY <2>1 DEF Decided
    <3> QED
      BY <3>1, <3>2, AsksFacts
  <2>3. /\ req'[r].user = req[ch].user /\ req'[r].key = req[ch].key
        /\ req'[r].call = req[ch].call /\ req'[r].via = ch
    <3>1. req'[r] = [req[ch] EXCEPT !.via = ch]
      BY <1>5 DEF ReceiveConfirm, TypeOK
    <3> QED
      BY <2>1, <3>1 DEF Request
  <2>4. AsksToPay(r)'
    BY <2>1, <2>3, PaymentsAssumption DEF AsksToPay, IsPayment
  <2>5. Asked'[r] = Api!Confirmation(ch)
    BY <2>2, <2>3, <2>4, PaymentsAssumption DEF Asked, Api!Confirmation, Slot
  <2> QED
    BY <1>2, <1>3, <2>2, <2>4, <2>5 DEF Api!Ask
<1> QED
  BY <1>4, <1>5

\* A challenge is raised for a large amount under a key that has not paid.
LEMMA ChallengeServes ==
  ASSUME IndInv, NEW r \in Requests, IssueChallenge(r)
  PROVE  Api!Serve(r)
<1> TypeOK
  BY DEF IndInv
<1>1. /\ pc[r] = "fraud" /\ NeedsStepUp(r) /\ StepOf(r) /\ UNCHANGED <<db, req>>
      /\ answer'[r] = Answer("step-up", None)
  BY DEF IssueChallenge, StepOf, Finish, TypeOK
<1>2. AsksToPay(r) /\ req[r].via = None
  BY <1>1, AsksFacts DEF IndInv, RequestsSound, RequestSound
<1>3. Api!Unserved(r) /\ r \notin posted
  BY <1>1, <1>2, UnservedFacts
<1>4. /\ Asked[r].kind = "submit" /\ Asked[r].slot = Slot(r) /\ Slot(r) \in Users \X Keys
      /\ Asked[r].body \in LargeBodies
  BY <1>1, <1>2, AsksFacts DEF NeedsStepUp, Amount, LargeBodies
<1>5. rows[Slot(r)].by = None
  BY <1>1, <1>4 DEF NeedsStepUp, IndInv, KeyRowsMatchPostings
<1>6. Replied'[r] = Api!Reply("step-up", None)
  BY <1>1, <1>2, <1>3 DEF Replied, Decided, AsksToPay, IsPayment, db, Api!Reply
<1>7. /\ Api!Answer(r, Api!Reply("step-up", None))
      /\ UNCHANGED <<Asked, {s \in posted : IsPayment(s)},
                     [slot \in Users \X Keys |-> rows[slot].by]>>
  BY <1>1, <1>6, OwnAnswer
<1> QED
  BY <1>3, <1>4, <1>5, <1>7 DEF Api!Serve

\* The stored response is of the same body.
LEMMA ReplayServes ==
  ASSUME IndInv, NEW r \in Requests, Replay(r),
         UNCHANGED <<db, req>>, StepOf(r),
         rows[Slot(r)].status = "COMPLETED",
         req[rows[Slot(r)].by].call = req[r].call,
         answer'[r] = Answer("200", rows[Slot(r)].by)
  PROVE  Api!Serve(r) \/ Api!ServeConfirm(r)
<1> DEFINE t == rows[Slot(r)].by
<1>1. pc[r] = "begin" /\ IsPayment(r)
  BY DEF Replay
<1>2. AsksToPay(r) /\ Api!Unserved(r) /\ r \notin posted
  BY <1>1, AsksFacts, UnservedFacts
<1>3. /\ Asked[r].slot = Slot(r) /\ Slot(r) \in Users \X Keys /\ Asked[r].body = req[r].call
      /\ Asked[r].kind \in {"submit", "confirm"}
  BY <1>2, AsksFacts
<1>4. t \in posted /\ t \in Requests /\ IsPayment(t)
  BY <1>3 DEF IndInv, TypeOK, KeyRowsMatchPostings
<1>5. Asked[t].body = req[t].call /\ t # None
  BY <1>4, AsksFacts, PaymentsAssumption
<1>6. Replied'[r] = Api!Reply("paid", t)
  BY <1>2 DEF Replied, Decided, AsksToPay, IsPayment, db, Api!Reply
<1>7. /\ Api!Answer(r, Api!Reply("paid", t))
      /\ UNCHANGED <<Asked, {s \in posted : IsPayment(s)},
                     [slot \in Users \X Keys |-> rows[slot].by]>>
  BY <1>6, OwnAnswer
<1>8. [slot \in Users \X Keys |-> rows[slot].by][Asked[r].slot] = t
  BY <1>3
<1>9. Api!Pay(r)
  BY <1>3, <1>5, <1>7, <1>8 DEF Api!Pay, Api!Stored, Api!SameBody
<1> QED
  BY <1>2, <1>3, <1>5, <1>7, <1>8, <1>9 DEF Api!Serve, Api!ServeConfirm

\* A commit pays under a free key; a large payment was confirmed.
LEMMA CommitServes ==
  ASSUME IndInv, NEW r \in Requests, Commit(r), IsPayment(r)
  PROVE  Api!Serve(r) \/ Api!ServeConfirm(r)
<1> TypeOK
  BY DEF IndInv
<1>1. /\ pc[r] = "commit" /\ req' = req /\ posted' = posted \cup {r} /\ StepOf(r)
      /\ answer' = answer /\ answer[r].code = "none"
  BY DEF Commit, StepOf, IndInv, ProgressSound, Progress
<1>2. AsksToPay(r) /\ Api!Unserved(r) /\ r \notin posted
  BY <1>1, AsksFacts, UnservedFacts
<1>3. /\ Asked[r].slot = Slot(r) /\ Slot(r) \in Users \X Keys /\ Asked[r].body = req[r].call
      /\ Asked[r].kind = IF req[r].via = None THEN "submit" ELSE "confirm"
      /\ req[r].call.amount \in Nat
  BY <1>2, AsksFacts, RequestFacts DEF Amount
<1>4. Asked' = Asked
  BY <1>1 DEF Asked, AsksToPay, IsPayment, Slot
<1>5. Replied'[r] = Api!Reply("paid", r)
  <2>1. Decided(r)' = Api!Reply("paid", r)
    BY <1>1 DEF Decided, Api!Reply
  <2>2. AsksToPay(r)'
    BY <1>1, <1>2 DEF AsksToPay, IsPayment
  <2> QED
    BY <2>1, <2>2 DEF Replied
<1>6. Api!Answer(r, Api!Reply("paid", r))
  <2>1. \A s \in Requests : Replied'[s] = IF s = r THEN Api!Reply("paid", r) ELSE Replied[s]
    BY <1>1, <1>5, OthersShowSame
  <2>2. Replied' = [Replied EXCEPT ![r] = Api!Reply("paid", r)]
    BY <2>1 DEF Replied
  <2> QED
    BY <2>2 DEF Api!Answer
<1>7. {s \in posted : IsPayment(s)}' = {s \in posted : IsPayment(s)} \cup {r}
  BY <1>1 DEF IsPayment
<1>8. [slot \in Users \X Keys |-> rows[slot].by]'
        = [[slot \in Users \X Keys |-> rows[slot].by] EXCEPT ![Slot(r)] = r]
  <2>1. ASSUME NEW slot \in Users \X Keys
        PROVE  rows'[slot].by = IF slot = Slot(r) THEN r ELSE rows[slot].by
    <3>1. rows'[slot] = IF slot = Slot(r) THEN [status |-> "COMPLETED", by |-> r]
                        ELSE rows[slot]
      BY CommitFacts
    <3> QED
      BY <3>1
  <2> QED
    BY <1>3, <2>1
<1>9. [slot \in Users \X Keys |-> rows[slot].by][Asked[r].slot] = None
  <2>1. rows[Slot(r)] = NoRow
    BY CommitFacts
  <2> QED
    BY <1>3, <2>1 DEF NoRow
<1>10. Api!Pay(r)
  BY <1>3, <1>6, <1>7, <1>8, <1>9 DEF Api!Pay
<1>11. req[r].via = None => Asked[r].body \notin LargeBodies
  BY <1>1, <1>3 DEF IndInv, ProgressSound, Progress, InTx, LargeBodies, Amount
<1> QED
  BY <1>2, <1>3, <1>4, <1>10, <1>11 DEF Api!Serve, Api!ServeConfirm

\* A response shows as the stored one, as a refusal, or not at all: that of a posted
\* request repeats what its commit had decided.
LEMMA EndsServes ==
  ASSUME IndInv, NEW r \in Requests, Ends(r)
  PROVE  UNCHANGED Api!apiVars \/ Api!Refuse(r) \/ Api!Serve(r) \/ Api!ServeConfirm(r)
<1> TypeOK
  BY DEF IndInv
<1>1. /\ StepOf(r) /\ UNCHANGED <<db, req>> /\ pc[r] # "done" /\ answer[r].code = "none"
      /\ pc[r] # "respond" => r \notin posted
      /\ pc[r] = "respond" => r \in posted
  BY DEF Ends, StepOf, IndInv, ProgressSound, Progress
<1>2. AsksToPay(r)' = AsksToPay(r)
  BY <1>1 DEF AsksToPay, IsPayment
<1>3. ASSUME Replied'[r] = Replied[r]
      PROVE  UNCHANGED Api!apiVars
  <2>1. Asked'[r] = Asked[r]
    BY <1>1 DEF Asked, AsksToPay, IsPayment, Slot
  <2> QED
    BY <1>1, <1>3, <2>1, OthersShowSame, AllSame
<1>4. CASE ~AsksToPay(r)
  <2>1. Replied'[r] = Replied[r]
    BY <1>2, <1>4 DEF Replied
  <2> QED
    BY <1>3, <2>1
<1>5. CASE AsksToPay(r) /\ pc[r] = "respond"
  <2>1. answer'[r] = Answer("201", r)
    BY <1>5 DEF Ends, Finish, TypeOK, Replay
  <2>2. Decided(r)' = Decided(r)
    BY <1>1, <1>5, <2>1 DEF Decided, db
  <2>3. Replied'[r] = Replied[r]
    BY <1>2, <2>2 DEF Replied
  <2> QED
    BY <1>3, <2>3
<1>6. CASE /\ Replay(r) /\ rows[Slot(r)].status = "COMPLETED"
           /\ req[rows[Slot(r)].by].call = req[r].call
           /\ Finish(r, "200", rows[Slot(r)].by)
  <2>1. answer'[r] = Answer("200", rows[Slot(r)].by)
    BY <1>6 DEF Finish, TypeOK
  <2> QED
    BY <1>1, <1>6, <2>1, ReplayServes
<1>7. ASSUME AsksToPay(r), pc[r] # "respond",
             NEW code \in {"400", "403", "409", "500"}, Finish(r, code, None)
      PROVE  Api!Refuse(r)
  <2>1. answer'[r] = Answer(code, None)
    BY <1>7 DEF Finish, TypeOK
  <2>2. Decided(r)' = Api!Reply("refused", None)
    BY <1>1, <1>7, <2>1 DEF Decided, db, Api!Reply
  <2>3. Replied'[r] = Api!Reply("refused", None)
    BY <1>2, <1>7, <2>2 DEF Replied
  <2>4. Api!Unserved(r)
    BY <1>1, <1>7, UnservedFacts
  <2> QED
    BY <1>1, <2>3, <2>4, OwnAnswer DEF Api!Refuse
<1> QED
  BY <1>4, <1>5, <1>6, <1>7 DEF Ends

\* What a handler does before it is answered, and a challenge's expiry, do not show.
LEMMA InvisibleSteps ==
  ASSUME IndInv, NEW r \in Requests,
         \/ DeleteChallenge(r) \/ PassKyc(r) \/ PassFraudCheck(r) \/ Begin(r) \/ Acquire(r)
         \/ Notify(r) \/ Restarts(r) \/ ExpireChallenge(r)
  PROVE  UNCHANGED Api!apiVars
<1>1. UNCHANGED <<db, req, answer>>
  BY DEF DeleteChallenge, PassKyc, PassFraudCheck, Begin, Acquire, Notify, Restarts, Restart,
     ExpireChallenge, Goto
<1>2. \A s \in Requests : Asked'[s] = Asked[s] /\ Replied'[s] = Replied[s]
  BY <1>1, ShowsSame DEF db
<1> QED
  BY <1>1, <1>2, AllSame

\* Neither does an admin credit, when it arrives or is committed.
LEMMA CreditInvisible ==
  ASSUME IndInv, NEW r \in Requests,
         \/ \E u \in Users, c \in Calls : ReceiveCredit(r, u, c)
         \/ Commit(r) /\ ~IsPayment(r)
  PROVE  UNCHANGED Api!apiVars
<1> TypeOK
  BY DEF IndInv
<1>1. StepOf(r)
  BY DEF StepOf
<1>2. ~AsksToPay(r) /\ ~AsksToPay(r)' /\ ~IsPayment(r)'
  <2>1. CASE \E u \in Users, c \in Calls : ReceiveCredit(r, u, c)
    <3>1. req[r] = NoRequest
      BY <2>1 DEF ReceiveCredit, IndInv, RequestsSound, RequestSound
    <3>2. req'[r].call.kind = "CREDIT"
      BY <2>1 DEF ReceiveCredit, TypeOK
    <3> QED
      BY <3>1, <3>2 DEF AsksToPay, IsPayment
  <2>2. CASE Commit(r) /\ ~IsPayment(r)
    BY <2>2 DEF Commit, AsksToPay, IsPayment
  <2> QED
    BY <2>1, <2>2
<1>3. Asked' = Asked /\ Replied' = Replied
  <2>1. Asked'[r] = Asked[r] /\ Replied'[r] = Replied[r]
    BY <1>2 DEF Asked, Replied
  <2>2. \A s \in Requests : Asked'[s] = Asked[s] /\ Replied'[s] = Replied[s]
    BY <1>1, <2>1, OthersShowSame
  <2> QED
    BY <2>2 DEF Asked, Replied
<1>4. rows' = rows
  BY DEF ReceiveCredit, Commit, db
<1>5. {s \in posted : IsPayment(s)}' = {s \in posted : IsPayment(s)}
  <2>1. \A s \in Requests \ {r} : IsPayment(s)' = IsPayment(s) /\ (s \in posted' <=> s \in posted)
    BY DEF ReceiveCredit, Commit, IsPayment, TypeOK, db
  <2>2. ~(r \in posted /\ IsPayment(r))
    BY DEF ReceiveCredit, IndInv, ProgressSound, Progress
  <2>3. posted \subseteq Requests /\ posted' \subseteq Requests
    BY DEF ReceiveCredit, Commit, TypeOK, db
  <2> QED
    BY <1>2, <2>1, <2>2, <2>3
<1> QED
  BY <1>3, <1>4, <1>5 DEF Api!apiVars

\* What a crash loses was not answered yet; what it had posted stays posted.
LEMMA CrashInvisible ==
  ASSUME IndInv, Crash
  PROVE  UNCHANGED Api!apiVars
<1>1. UNCHANGED <<db, req>>
  BY DEF Crash
<1>2. ASSUME NEW s \in Requests
      PROVE  Asked'[s] = Asked[s] /\ Replied'[s] = Replied[s]
  <2>1. CASE InFlight(s)
    <3>1. answer[s].code = "none" /\ answer'[s] = Answer("lost", None)
      BY <2>1 DEF Crash, InFlight, IndInv, ProgressSound, Progress
    <3>2. Decided(s)' = Decided(s)
      BY <1>1, <3>1 DEF Decided, db
    <3> QED
      BY <1>1, <3>2 DEF Asked, Replied, AsksToPay, IsPayment, Slot
  <2>2. CASE ~InFlight(s)
    <3>1. answer'[s] = answer[s]
      BY <2>2 DEF Crash
    <3> QED
      BY <1>1, <3>1, ShowsSame DEF db
  <2> QED
    BY <2>1, <2>2
<1> QED
  BY <1>1, <1>2, AllSame

LEMMA ApiStepMaps == IndInv /\ Next => [Api!ApiNext]_(Api!apiVars)
<1> SUFFICES ASSUME IndInv, Next, ~UNCHANGED Api!apiVars
             PROVE  \E r \in Requests :
                      Api!Ask(r) \/ Api!Refuse(r) \/ Api!Serve(r) \/ Api!ServeConfirm(r)
  BY DEF Api!ApiNext
<1>1. CASE Crash
  BY <1>1, CrashInvisible
<1>2. CASE Elsewhere
  <2>1. \A s \in Requests : Asked'[s] = Asked[s] /\ Replied'[s] = Replied[s]
    BY <1>2, ShowsSame DEF Elsewhere, db
  <2> QED
    BY <1>2, <2>1, AllSame DEF Elsewhere
<1>3. ASSUME NEW r \in Requests, StepOf(r)
      PROVE  Api!Ask(r) \/ Api!Refuse(r) \/ Api!Serve(r) \/ Api!ServeConfirm(r)
  <2>1. CASE \/ \E u \in Users, k \in Keys, c \in Calls : Receive(r, u, k, c)
             \/ \E ch \in Requests : ReceiveConfirm(r, ch)
    BY <2>1, ArrivalAsks
  <2>2. CASE IssueChallenge(r)
    BY <2>2, ChallengeServes
  <2>3. CASE Commit(r) /\ IsPayment(r)
    BY <2>3, CommitServes
  <2>4. CASE Ends(r)
    BY <2>4, EndsServes
  <2>5. ~(Commit(r) /\ ~IsPayment(r)) /\ ~(\E u \in Users, c \in Calls : ReceiveCredit(r, u, c))
    BY CreditInvisible
  <2>6. ~(\/ DeleteChallenge(r) \/ PassKyc(r) \/ PassFraudCheck(r) \/ Begin(r) \/ Acquire(r)
          \/ Notify(r) \/ Restarts(r) \/ ExpireChallenge(r))
    BY InvisibleSteps
  <2> QED
    BY <1>3, <2>1, <2>2, <2>3, <2>4, <2>5, <2>6 DEF StepOf
<1> QED
  BY <1>1, <1>2, <1>3, StepCases

\* Every behaviour of the service, seen from its clients, is one of PaymentApi: races,
\* retries, deadlocks, crashes and expiring challenges never decide on a request what
\* the interface does not allow at that moment, nor change what was decided.
THEOREM ApiRefinement == Safety => ImplementsApi
<1>1. IndInv /\ [Next]_vars => [Api!ApiNext]_(Api!apiVars)
  <2>1. ASSUME UNCHANGED vars
        PROVE  UNCHANGED Api!apiVars
    <3>1. UNCHANGED <<db, req>> /\ \A s \in Requests : Asked'[s] = Asked[s] /\ Replied'[s] = Replied[s]
      BY <2>1, ShowsSame DEF vars, db
    <3> QED
      BY <3>1, AllSame
  <2> QED
    BY <2>1, ApiStepMaps
<1> QED
  BY <1>1, ApiInitMaps, Invariance, PTL DEF Safety, ImplementsApi, Api!ApiSpec
=============================================================================
