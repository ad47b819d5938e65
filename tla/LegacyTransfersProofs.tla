------------------------- MODULE LegacyTransfersProofs -------------------------
(***************************************************************************)
(* Proofs about LegacyTransfers, for any accounts, calls, keys and number  *)
(* of requests.                                                            *)
(***************************************************************************)
EXTENDS LegacyTransfers, TLAPS

USE DEF NoRequest

\* What the assumptions say of a call, and of None.
LEMMA CallFacts ==
  ASSUME NEW c \in Calls
  PROVE  /\ c.from \in Accounts /\ c.to \in Accounts \cup {Outside}
         /\ c.amount \in Nat /\ c.amount > 0 /\ c.foreign \in BOOLEAN
  BY LegacyTransfersAssumption DEF CallType

LEMMA NoneFacts == None \notin Requests /\ None \notin Keys
  BY LegacyTransfersAssumption

LEMMA RequestFacts ==
  ASSUME IndInv, NEW r \in Requests, pc[r] # "new"
  PROVE  /\ req[r] \in [call : Calls, key : Keys]
         /\ Call(r) \in Calls /\ req[r].key \in Keys
         /\ From(r) \in Accounts /\ To(r) \in Accounts \cup {Outside}
         /\ IsTransfer(r) => To(r) \in Accounts
         /\ Amount(r) \in Nat /\ Amount(r) > 0
<1>1. req[r] \in [call : Calls, key : Keys]
  BY DEF IndInv, HandlerSound
<1>2. Call(r) \in Calls /\ req[r].key \in Keys
  BY <1>1 DEF Call
<1> QED
  BY <1>1, <1>2, CallFacts DEF From, To, Amount, IsTransfer

\* A score reaches the rejecting level only with all four factors but the hour.
LEMMA HighIsExtreme ==
  ASSUME NEW c \in Calls, "HIGH" \in PossibleLevels(c)
  PROVE  Extreme(c)
<1>1. PICK night \in BOOLEAN, noise \in 0..9 :
        RiskLevel(Score(c, IsInternal(c), night, noise)) = "HIGH"
  BY DEF PossibleLevels
<1>2. /\ c.amount \in Nat /\ c.foreign \in BOOLEAN
      /\ AmountScore(c.amount) \in 0..40
      /\ c.amount <= 50000 => AmountScore(c.amount) <= 25
  BY CallFacts DEF AmountScore
<1>3. Score(c, IsInternal(c), night, noise) >= 80
  <2>1. Score(c, IsInternal(c), night, noise) \in Int
    BY <1>2 DEF Score
  <2> QED
    BY <1>1, <2>1 DEF RiskLevel
<1> QED
  BY <1>2, <1>3 DEF Score, Extreme

LEMMA InitIndInv == Init => IndInv
<1> SUFFICES ASSUME Init
             PROVE  IndInv
  OBVIOUS
<1>1. TypeOK
  BY LegacyTransfersAssumption DEF Init, TypeOK, Levels, Pcs, Codes, Answer
<1>2. NoOverdraft
  BY LegacyTransfersAssumption DEF Init, NoOverdraft
<1>3. AtMostOncePerKey /\ RowsSound
  BY LegacyTransfersAssumption DEF Init, AtMostOncePerKey, RowsSound, Answer
<1>4. \A r \in Requests : HandlerSound(r)
  BY LegacyTransfersAssumption DEF Init, HandlerSound, Answer
<1>5. LocksSound
  BY DEF Init, LocksSound, Holds
<1> QED
  BY <1>1, <1>2, <1>3, <1>4, <1>5 DEF IndInv

-----------------------------------------------------------------------------
(* The steps.                                                              *)

Receives(r) == \E c \in Calls, k \in Keys, m \in BOOLEAN : Receive(r, c, k, m)
StepOf(r) == Handle(r) \/ Fail(r) \/ Receives(r)

LEMMA Steps == Next <=> (\E r \in Requests : StepOf(r)) \/ Crash
  BY DEF Next, StepOf, Receives

\* A step of r changes nothing of another request.
LEMMA OthersKept ==
  ASSUME TypeOK, NEW r \in Requests, StepOf(r), NEW s \in Requests, s # r
  PROVE  /\ req'[s] = req[s] /\ pc'[s] = pc[s] /\ answer'[s] = answer[s]
         /\ level'[s] = level[s] /\ status'[s] = status[s]
  BY DEF StepOf, Receives, Receive, Handle, FindKey, FindAccounts, Evaluate, Reject, LockSource,
     LockDestination, InsertTransaction, Commit, Reply, DeadlockAbort, Fail, db, Goto, Finish, TypeOK

Replied(r) ==
  \/ answer' = [answer EXCEPT ![r] = Answer("201", r)]
  \/ answer' = [answer EXCEPT ![r] = Answer("lost", None)]

LEMMA ReplyFacts ==
  ASSUME NEW r, Reply(r)
  PROVE  Replied(r)
  BY DEF Reply, Replied, Finish

\* Only the last step of a transaction changes the database.
LEMMA DatabaseStep ==
  ASSUME IndInv, Next
  PROVE  \/ UNCHANGED db
         \/ \E r \in Requests : Commit(r)
         \/ \E r \in Requests : /\ Reject(r) /\ KeyFree(r) /\ ~Blocked(r)
                                /\ UNCHANGED <<balance, spent, entries, req>>
                                /\ status' = [status EXCEPT ![r] = "REJECTED"]
                                /\ Replied(r)
<1>1. ASSUME NEW r \in Requests, Handle(r), ~Reject(r), ~Commit(r)
      PROVE  UNCHANGED db
  BY <1>1 DEF Handle, FindKey, FindAccounts, Evaluate, LockSource, LockDestination,
     InsertTransaction, DeadlockAbort, Fail
<1>2. ASSUME NEW r \in Requests, Reject(r)
      PROVE  \/ UNCHANGED db
             \/ /\ KeyFree(r) /\ ~Blocked(r) /\ UNCHANGED <<balance, spent, entries, req>>
                /\ status' = [status EXCEPT ![r] = "REJECTED"]
                /\ Replied(r)
  BY <1>2, ReplyFacts DEF Reject, db
<1>3. ASSUME NEW r \in Requests, Receives(r) \/ Fail(r)
      PROVE  UNCHANGED db
  BY <1>3 DEF Receives, Receive, Fail
<1>4. Crash => UNCHANGED db
  BY DEF Crash
<1> QED
  BY <1>1, <1>2, <1>3, <1>4, Steps DEF StepOf

\* A handler that goes on, or answers.
LEMMA MoveType ==
  ASSUME TypeOK, NEW r \in Requests,
         \/ \E l \in Pcs : Goto(r, l)
         \/ \E c \in Codes, t \in Requests \cup {None} : Finish(r, c, t)
  PROVE  /\ pc' \in [Requests -> Pcs]
         /\ answer' \in [Requests -> [code : Codes, txn : Requests \cup {None}]]
<1>1. CASE \E l \in Pcs : Goto(r, l)
  BY <1>1 DEF Goto, TypeOK
<1>2. CASE \E c \in Codes, t \in Requests \cup {None} : Finish(r, c, t)
  <2>1. PICK c \in Codes, t \in Requests \cup {None} : Finish(r, c, t)
    BY <1>2
  <2>2. Answer(c, t) \in [code : Codes, txn : Requests \cup {None}]
    BY DEF Answer
  <2> QED
    BY <2>1, <2>2 DEF Finish, TypeOK, Pcs
<1> QED
  BY <1>1, <1>2

LEMMA TypeStep ==
  ASSUME IndInv, Next
  PROVE  TypeOK'
<1> TypeOK
  BY DEF IndInv
<1> USE DEF TypeOK, Goto, Finish, db, Pcs, Codes, Levels, Answer
<1>1. ASSUME NEW r \in Requests, Receives(r)
      PROVE  TypeOK'
  <2>1. PICK c \in Calls, k \in Keys : req' = [req EXCEPT ![r] = [call |-> c, key |-> k]]
    BY <1>1 DEF Receives, Receive
  <2>2. Finish(r, "step-up", None) \/ Goto(r, "lookup")
    BY <1>1 DEF Receives, Receive
  <2>3. UNCHANGED <<db, level>>
    BY <1>1 DEF Receives, Receive
  <2>4. /\ pc' \in [Requests -> Pcs]
        /\ answer' \in [Requests -> [code : Codes, txn : Requests \cup {None}]]
    BY <2>2
  <2> QED
    BY <2>1, <2>3, <2>4
<1>2. ASSUME NEW r \in Requests, Handle(r)
      PROVE  TypeOK'
  <2>1. CASE FindKey(r)
    <3>1. Goto(r, "accounts") \/ \E s \in RowsOf(req[r].key) : Finish(r, "201", s)
      <4> HIDE DEF Goto, Finish, TypeOK
      <4> QED
        BY <2>1 DEF FindKey
    <3>2. RowsOf(req[r].key) \subseteq Requests
      BY DEF RowsOf
    <3>3. /\ pc' \in [Requests -> Pcs]
          /\ answer' \in [Requests -> [code : Codes, txn : Requests \cup {None}]]
      <4> HIDE DEF Goto, Finish, TypeOK
      <4> QED
        BY <3>1, <3>2, MoveType
    <3> QED
      BY <2>1, <3>3 DEF FindKey
  <2>2. CASE \/ FindAccounts(r) \/ LockSource(r) \/ LockDestination(r) \/ InsertTransaction(r)
             \/ DeadlockAbort(r)
    <3>1. /\ \/ \E l \in Pcs : Goto(r, l)
             \/ \E c \in Codes : Finish(r, c, None)
          /\ UNCHANGED <<db, req, level>>
      <4> HIDE DEF Goto, Finish, TypeOK, db
      <4>1. CASE FindAccounts(r)
        BY <4>1 DEF FindAccounts
      <4>2. CASE LockSource(r)
        BY <4>2 DEF LockSource
      <4>3. CASE LockDestination(r) \/ InsertTransaction(r) \/ DeadlockAbort(r)
        BY <4>3 DEF LockDestination, InsertTransaction, DeadlockAbort
      <4> QED
        BY <2>2, <4>1, <4>2, <4>3
    <3>2. /\ pc' \in [Requests -> Pcs]
          /\ answer' \in [Requests -> [code : Codes, txn : Requests \cup {None}]]
      <4> HIDE DEF Goto, Finish, TypeOK, db
      <4> QED
        BY <3>1, MoveType
    <3>3. UNCHANGED <<db, req, level>>
      BY <3>1
    <3> QED
      BY <3>2, <3>3
  <2>3. CASE Evaluate(r)
    <3>1. PICK l \in PossibleLevels(Call(r)) :
            /\ level' = [level EXCEPT ![r] = l]
            /\ Goto(r, IF l = "HIGH" THEN "reject" ELSE "source")
      BY <2>3 DEF Evaluate
    <3>2. l \in Levels
      BY DEF PossibleLevels, RiskLevel
    <3> QED
      BY <2>3, <3>1, <3>2 DEF Evaluate
  <2>4. CASE Reject(r)
    BY <2>4 DEF Reject, Reply
  <2>5. CASE Commit(r)
    <3>1. /\ From(r) \in Accounts /\ Amount(r) \in Nat
          /\ IsTransfer(r) => To(r) \in Accounts
      BY <2>5, RequestFacts DEF Commit, Reply
    <3>2. EntriesOf(r) \subseteq [of : Requests, account : Accounts, type : {"DEBIT", "CREDIT"}]
      BY <3>1 DEF EntriesOf, Entry
    <3>3. balance' \in [Accounts -> Int] /\ spent' \in Nat
      BY <2>5, <3>1 DEF Commit, Reply
    <3> QED
      BY <2>5, <3>2, <3>3 DEF Commit, Reply, FinalStatus
  <2> QED
    BY <1>2, <2>1, <2>2, <2>3, <2>4, <2>5 DEF Handle
<1>3. ASSUME NEW r \in Requests, Fail(r)
      PROVE  TypeOK'
  BY <1>3 DEF Fail
<1>4. CASE Crash
  BY <1>4 DEF Crash
<1> QED
  BY <1>1, <1>2, <1>3, <1>4, Steps DEF StepOf

\* A request that is done stays as it is.
LEMMA DoneKept ==
  ASSUME IndInv, Next, NEW s \in Requests, pc[s] = "done"
  PROVE  /\ req'[s] = req[s] /\ level'[s] = level[s] /\ status'[s] = status[s]
         /\ answer'[s] = answer[s]
<1> TypeOK
  BY DEF IndInv
<1>1. ~StepOf(s)
  <2>1. ~DeadlockAbort(s)
    <3>1. Wants(s) = {}
      BY DEF Wants
    <3> QED
      BY <3>1 DEF DeadlockAbort, InWaitCycle, Waits
  <2> QED
    BY <2>1 DEF StepOf, Receives, Receive, Handle, FindKey, FindAccounts, Evaluate, Reject,
       LockSource, LockDestination, InsertTransaction, Commit, Reply, Fail, InFlight
<1> QED
  BY <1>1, OthersKept, Steps DEF Crash, InFlight, db, TypeOK

\* A row once written is kept, with the request it is named by.
LEMMA RowKept ==
  ASSUME IndInv, Next, NEW s \in Requests, status[s] # None
  PROVE  status'[s] = status[s] /\ req'[s] = req[s] /\ level'[s] = level[s]
<1>1. pc[s] = "done"
  BY DEF IndInv, HandlerSound
<1> QED
  BY <1>1, DoneKept

-----------------------------------------------------------------------------
(* The parts of the invariant.                                             *)

LEMMA HandlersStep ==
  ASSUME IndInv, Next, NEW s \in Requests
  PROVE  HandlerSound(s)'
<1> TypeOK /\ HandlerSound(s)
  BY DEF IndInv
<1> USE LegacyTransfersAssumption DEF Goto, Finish, Answer, db
<1>1. CASE /\ pc[s] # "new" /\ pc'[s] = "done" /\ UNCHANGED <<status, req, level>>
  BY <1>1 DEF HandlerSound, Call, TypeOK
<1>2. CASE \/ /\ UNCHANGED <<req, level>>
              /\ pc'[s] = pc[s] /\ answer'[s] = answer[s] /\ status'[s] = status[s]
           \/ /\ req'[s] = req[s] /\ level'[s] = level[s]
              /\ pc'[s] = pc[s] /\ answer'[s] = answer[s] /\ status'[s] = status[s]
  BY <1>2 DEF HandlerSound, Call, From, To, IsTransfer
<1>3. CASE Receives(s)
  <2>1. PICK c \in Calls, k \in Keys : /\ req'[s] = [call |-> c, key |-> k]
                                       /\ pc'[s] \in {"lookup", "done"}
                                       /\ pc'[s] # "done" => UNCHANGED answer
                                       /\ pc[s] = "new"
                                       /\ UNCHANGED <<status, level>>
    BY <1>3 DEF Receives, Receive, TypeOK
  <2>2. status'[s] = None /\ level'[s] # "HIGH"
    BY <2>1 DEF HandlerSound
  <2> QED
    BY <2>1, <2>2 DEF HandlerSound
<1>4. CASE FindKey(s) /\ pc'[s] # "done"
  <2>1. pc'[s] = "accounts" /\ pc[s] = "lookup" /\ UNCHANGED <<req, level, status, answer>>
    BY <1>4 DEF FindKey, TypeOK
  <2> QED
    BY <2>1 DEF HandlerSound
<1>5. CASE FindAccounts(s) /\ pc'[s] # "done"
  <2>1. /\ pc'[s] = "risk" /\ pc[s] = "accounts" /\ UNCHANGED <<req, level, status, answer>>
        /\ From(s) # To(s)
    BY <1>5 DEF FindAccounts, TypeOK
  <2> QED
    BY <2>1 DEF HandlerSound, From, To, Call
<1>6. CASE Evaluate(s)
  <2>1. PICK l \in PossibleLevels(Call(s)) :
          /\ level'[s] = l /\ pc'[s] = (IF l = "HIGH" THEN "reject" ELSE "source")
          /\ pc[s] = "risk" /\ UNCHANGED <<req, status, answer>>
    BY <1>6 DEF Evaluate, TypeOK
  <2>2. l = "HIGH" => Extreme(Call(s))
    BY <2>1, RequestFacts, HighIsExtreme
  <2> QED
    BY <2>1, <2>2 DEF HandlerSound, From, To, Call
<1>7. CASE Reject(s) /\ status' # status
  <2>1. /\ pc'[s] = "done" /\ pc[s] = "reject" /\ UNCHANGED <<req, level>>
    BY <1>7 DEF Reject, Reply, TypeOK
  <2> QED
    BY <2>1 DEF HandlerSound, Call
<1>8. CASE (LockSource(s) \/ LockDestination(s) \/ InsertTransaction(s)) /\ pc'[s] # "done"
  <2>1. /\ pc[s] \in {"source", "dest", "insert"} /\ pc'[s] \in {"dest", "insert", "commit"}
        /\ pc'[s] = "dest" => IsTransfer(s)
        /\ UNCHANGED <<req, level, status, answer>>
    BY <1>8 DEF LockSource, LockDestination, InsertTransaction, TypeOK
  <2> QED
    BY <2>1 DEF HandlerSound, From, To, Call, IsTransfer
<1>9. CASE Commit(s)
  <2>1. /\ pc[s] = "commit" /\ pc'[s] = "done" /\ UNCHANGED <<req, level>>
        /\ status'[s] \in {"PENDING", "COMPLETED"}
    BY <1>9 DEF Commit, Reply, FinalStatus, TypeOK
  <2> QED
    BY <2>1 DEF HandlerSound, Call
<1>10. CASE (DeadlockAbort(s) \/ Fail(s)) /\ pc[s] # "new"
  BY <1>1, <1>10 DEF DeadlockAbort, Fail, TypeOK
<1>11. pc[s] = "new" => ~DeadlockAbort(s) /\ ~Fail(s)
  BY DEF DeadlockAbort, Fail, InFlight, InWaitCycle, Waits, Wants
<1>12. ASSUME StepOf(s)
       PROVE  HandlerSound(s)'
  <2>1. CASE FindKey(s) /\ pc'[s] = "done"
    BY <1>1, <2>1 DEF FindKey
  <2>2. CASE FindAccounts(s) /\ pc'[s] = "done"
    BY <1>1, <2>2 DEF FindAccounts
  <2>3. CASE Reject(s) /\ status' = status
    BY <1>1, <2>3 DEF Reject, Reply, TypeOK
  <2>4. CASE (LockSource(s) \/ LockDestination(s) \/ InsertTransaction(s)) /\ pc'[s] = "done"
    BY <1>1, <2>4 DEF LockSource, LockDestination, InsertTransaction
  <2> QED
    BY <1>3, <1>4, <1>5, <1>6, <1>7, <1>8, <1>9, <1>10, <1>11, <1>12, <2>1, <2>2, <2>3, <2>4
       DEF StepOf, Handle
<1>13. ASSUME NEW r \in Requests, StepOf(r), r # s
       PROVE  HandlerSound(s)'
  BY <1>2, <1>13, OthersKept
<1>14. CASE Crash
  BY <1>1, <1>2, <1>14 DEF Crash, InFlight, TypeOK
<1> QED
  BY <1>12, <1>13, <1>14, Steps

\* What a request has locked changes only by its own steps.
LEMMA HoldsStep ==
  ASSUME IndInv, Next, NEW s \in Requests
  PROVE  \/ Holds(s)' = Holds(s)
         \/ Holds(s)' = {}
         \/ Holds(s)' \subseteq Holds(s) \cup Wants(s) /\ ~Blocked(s) /\ StepOf(s)
<1> TypeOK /\ HandlerSound(s)
  BY DEF IndInv
<1> USE DEF Goto, Finish, Holds, Wants, From, To, Call, IsTransfer
<1>1. CASE pc'[s] = pc[s] /\ req'[s] = req[s]
  BY <1>1
<1>2. CASE pc'[s] \notin {"dest", "insert", "commit"}
  BY <1>2
<1>3. ASSUME StepOf(s), pc'[s] \in {"dest", "insert", "commit"}
      PROVE  Holds(s)' \subseteq Holds(s) \cup Wants(s) /\ ~Blocked(s)
  <2>1. LockSource(s) \/ LockDestination(s) \/ InsertTransaction(s)
    <3>1. ~DeadlockAbort(s)
      BY <1>3 DEF DeadlockAbort, TypeOK
    <3> QED
      BY <1>3, <3>1 DEF StepOf, Receives, Receive, Handle, FindKey, FindAccounts, Evaluate, Reject,
         Commit, Reply, Fail, TypeOK
  <2>2. CASE LockSource(s)
    BY <1>3, <2>2 DEF LockSource, TypeOK
  <2>3. CASE LockDestination(s)
    BY <1>3, <2>3 DEF LockDestination, TypeOK
  <2>4. CASE InsertTransaction(s)
    BY <1>3, <2>4 DEF InsertTransaction, TypeOK
  <2> QED
    BY <2>1, <2>2, <2>3, <2>4
<1>4. ASSUME NEW r \in Requests, StepOf(r), r # s
      PROVE  pc'[s] = pc[s] /\ req'[s] = req[s]
  BY <1>4, OthersKept
<1>5. CASE Crash
  BY <1>1, <1>2, <1>5 DEF Crash, InFlight, TypeOK
<1> QED
  BY <1>1, <1>2, <1>3, <1>4, <1>5, Steps

\* What Commit finds, and what it leaves.
LEMMA CommitFacts ==
  ASSUME IndInv, NEW r \in Requests, Commit(r)
  PROVE  /\ From(r) \in Accounts /\ From(r) # To(r) /\ Amount(r) \in Nat /\ Amount(r) > 0
         /\ IsTransfer(r) => To(r) \in Accounts
         /\ balance[From(r)] >= Amount(r) /\ KeyFree(r) /\ status[r] = None
         /\ \A a \in Accounts : /\ balance'[a] \in Int
                                /\ a # From(r) => balance'[a] >= balance[a]
                                /\ a = From(r) => balance'[a] = balance[a] - Amount(r)
         /\ status'[r] \in {"PENDING", "COMPLETED"}
         /\ status' = [status EXCEPT ![r] = status'[r]]
         /\ Replied(r) /\ entries' = entries \cup EntriesOf(r) /\ req' = req
<1> TypeOK /\ HandlerSound(r) /\ LocksSound /\ pc[r] = "commit"
  BY DEF IndInv, Commit, Reply
<1>1. /\ From(r) \in Accounts /\ From(r) # To(r) /\ Amount(r) \in Nat /\ Amount(r) > 0
      /\ IsTransfer(r) => To(r) \in Accounts
      /\ balance[From(r)] >= Amount(r) /\ KeyFree(r) /\ status[r] = None
  BY RequestFacts DEF HandlerSound, LocksSound
<1>2. \A a \in Accounts : /\ balance'[a] \in Int
                          /\ a # From(r) => balance'[a] >= balance[a]
                          /\ a = From(r) => balance'[a] = balance[a] - Amount(r)
  BY <1>1 DEF Commit, Reply, TypeOK
<1>3. /\ status'[r] \in {"PENDING", "COMPLETED"}
      /\ status' = [status EXCEPT ![r] = status'[r]]
  BY DEF Commit, FinalStatus, TypeOK
<1>4. Replied(r) /\ entries' = entries \cup EntriesOf(r) /\ req' = req
  BY ReplyFacts DEF Commit
<1> QED
  BY <1>1, <1>2, <1>3, <1>4

LEMMA NoOverdraftStep ==
  ASSUME IndInv, Next
  PROVE  NoOverdraft'
<1> TypeOK /\ NoOverdraft
  BY DEF IndInv
<1>1. ASSUME NEW r \in Requests, Commit(r), NEW a \in Accounts
      PROVE  balance'[a] >= 0
  <2>1. balance[a] \in Int /\ balance[a] >= 0
    BY DEF TypeOK, NoOverdraft
  <2> QED
    BY <1>1, <2>1, CommitFacts
<1> QED
  BY <1>1, DatabaseStep DEF NoOverdraft, db

\* The keys of a request that commits or is rejected, and of one that is about to.
LEMMA KeyStaysFree ==
  ASSUME IndInv, Next, NEW s \in Requests, pc[s] = "commit", pc'[s] = "commit"
  PROVE  KeyFree(s)'
<1> TypeOK /\ LocksSound
  BY DEF IndInv
<1>1. req'[s] = req[s]
  <2>1. ~StepOf(s)
    <3>1. ~DeadlockAbort(s)
      BY DEF DeadlockAbort, Finish, TypeOK
    <3> QED
      BY <3>1 DEF StepOf, Receives, Receive, Handle, FindKey, FindAccounts, Evaluate, Reject,
         LockSource, LockDestination, InsertTransaction, Commit, Reply, Fail, Finish, TypeOK
  <2> QED
    BY <2>1, OthersKept, Steps DEF Crash
<1>2. SUFFICES ASSUME NEW t \in Requests, status'[t] # None, req'[t].key = req[s].key
               PROVE  FALSE
  BY <1>1 DEF KeyFree, RowsOf
<1>3. status[t] = None
  BY <1>2, RowKept DEF LocksSound, KeyFree, RowsOf
<1>4. CASE Commit(t)
  <2>1. req[s].key \in Holds(s) /\ req[t].key \in Holds(t) /\ req'[t] = req[t]
    BY <1>4 DEF Holds, Commit, Reply
  <2>2. s # t
    BY <1>4 DEF Commit, Reply, Finish, TypeOK
  <2> QED
    BY <1>2, <2>1, <2>2 DEF LocksSound
<1>5. CASE Reject(t) /\ ~Blocked(t)
  <2>1. req[s].key \in Holds(s) /\ req[t].key \in Wants(t) /\ req'[t] = req[t] /\ s # t
    BY <1>5 DEF Holds, Wants, Reject, Reply
  <2> QED
    BY <1>2, <1>5, <2>1 DEF Blocked, Waits
<1> QED
  BY <1>2, <1>3, <1>4, <1>5, DatabaseStep, CommitFacts DEF db, TypeOK

LEMMA LocksStep ==
  ASSUME IndInv, Next
  PROVE  LocksSound'
<1> TypeOK /\ LocksSound
  BY DEF IndInv
<1>1. ASSUME NEW r \in Requests, NEW s \in Requests, r # s
      PROVE  Holds(r)' \cap Holds(s)' = {}
  <2>1. Holds(r) \cap Holds(s) = {}
    BY <1>1 DEF LocksSound
  <2>2. ASSUME ~Blocked(r)
        PROVE  Wants(r) \cap Holds(s) = {}
    BY <1>1, <2>2 DEF Blocked, Waits
  <2>3. ASSUME ~Blocked(s)
        PROVE  Wants(s) \cap Holds(r) = {}
    BY <1>1, <2>3 DEF Blocked, Waits
  <2>4. ASSUME StepOf(r)
        PROVE  Holds(s)' = Holds(s)
    BY <1>1, <2>4, OthersKept DEF Holds, From, To, Call, IsTransfer
  <2>5. ASSUME StepOf(s)
        PROVE  Holds(r)' = Holds(r)
    BY <1>1, <2>5, OthersKept DEF Holds, From, To, Call, IsTransfer
  <2>6. \/ Holds(r)' \subseteq Holds(r)
        \/ Holds(r)' \subseteq Holds(r) \cup Wants(r) /\ ~Blocked(r) /\ StepOf(r)
    BY HoldsStep
  <2>7. \/ Holds(s)' \subseteq Holds(s)
        \/ Holds(s)' \subseteq Holds(s) \cup Wants(s) /\ ~Blocked(s) /\ StepOf(s)
    BY HoldsStep
  <2> QED
    BY <2>1, <2>2, <2>3, <2>4, <2>5, <2>6, <2>7
<1>2. ASSUME NEW s \in Requests, pc'[s] \in {"dest", "insert", "commit"}
      PROVE  balance'[From(s)'] >= Amount(s)'
  <2>1. req'[s] = req[s] /\ pc[s] # "new"
    <3>1. ASSUME StepOf(s)
          PROVE  req'[s] = req[s] /\ pc[s] # "new"
      <4>1. ~DeadlockAbort(s)
        BY <1>2 DEF DeadlockAbort, Finish, TypeOK
      <4> QED
        BY <1>2, <3>1, <4>1 DEF StepOf, Receives, Receive, Handle, FindKey, FindAccounts,
           Evaluate, Reject, LockSource, LockDestination, InsertTransaction, Commit, Reply, Fail,
           Finish, Goto, TypeOK
    <3>2. CASE Crash
      BY <1>2, <3>2 DEF Crash, TypeOK
    <3> QED
      BY <1>2, <3>1, <3>2, OthersKept, Steps
  <2>2. /\ From(s)' = From(s) /\ Amount(s)' = Amount(s)
        /\ From(s) \in Accounts /\ Amount(s) \in Nat /\ balance[From(s)] \in Int
    BY <2>1, RequestFacts DEF From, Amount, Call, TypeOK
  <2>3. CASE pc[s] \in {"dest", "insert", "commit"}
    <3>1. balance[From(s)] >= Amount(s) /\ From(s) \in Holds(s)
      BY <2>3 DEF LocksSound, Holds
    <3>2. ASSUME NEW r \in Requests, Commit(r)
          PROVE  balance'[From(s)] >= balance[From(s)]
      <4>1. r # s
        BY <1>2, <3>2 DEF Commit, Reply, Finish, TypeOK
      <4>2. From(r) \in Holds(r)
        BY <3>2 DEF Commit, Reply, Holds
      <4>3. From(r) # From(s)
        BY <3>1, <4>1, <4>2 DEF LocksSound
      <4> QED
        BY <2>2, <3>2, <4>3, CommitFacts
    <3>3. balance'[From(s)] = balance[From(s)] \/ \E r \in Requests : Commit(r)
      BY DatabaseStep DEF db
    <3> QED
      BY <2>2, <3>1, <3>2, <3>3, CommitFacts
  <2>4. CASE pc[s] \notin {"dest", "insert", "commit"}
    <3>1. StepOf(s)
      BY <1>2, <2>4, OthersKept, Steps DEF Crash, TypeOK
    <3>2. LockSource(s)
      <4>1. ~DeadlockAbort(s)
        BY <1>2 DEF DeadlockAbort, Finish, TypeOK
      <4> QED
        BY <1>2, <2>4, <3>1, <4>1 DEF StepOf, Receives, Receive, Handle, FindKey, FindAccounts,
           Evaluate, Reject, LockDestination, InsertTransaction, Commit, Reply, Fail,
           Finish, Goto, TypeOK
    <3>3. ~(balance[From(s)] < Amount(s)) /\ balance' = balance
      BY <1>2, <3>2 DEF LockSource, Finish, db, TypeOK
    <3> QED
      BY <2>2, <3>3
  <2> QED
    BY <2>3, <2>4
<1>3. ASSUME NEW s \in Requests, pc'[s] = "commit"
      PROVE  KeyFree(s)'
  <2>1. CASE pc[s] = "commit"
    BY <1>3, <2>1, KeyStaysFree
  <2>2. CASE pc[s] # "commit"
    <3>1. StepOf(s)
      BY <1>3, <2>2, OthersKept, Steps DEF Crash, TypeOK
    <3>2. InsertTransaction(s)
      <4>1. ~DeadlockAbort(s)
        BY <1>3 DEF DeadlockAbort, Finish, TypeOK
      <4> QED
        BY <1>3, <2>2, <3>1, <4>1 DEF StepOf, Receives, Receive, Handle, FindKey, FindAccounts,
           Evaluate, Reject, LockSource, LockDestination, Commit, Reply, Fail,
           Finish, Goto, TypeOK
    <3> QED
      BY <1>3, <3>2 DEF InsertTransaction, KeyFree, RowsOf, Finish, db, TypeOK
  <2> QED
    BY <2>1, <2>2
<1> QED
  BY <1>1, <1>2, <1>3 DEF LocksSound

\* The row a step writes, if it writes one, is the first of its key.
LEMMA NewRow ==
  ASSUME IndInv, Next, NEW r \in Requests, status[r] = None, status'[r] # None
  PROVE  /\ KeyFree(r) /\ req' = req
         /\ status' = [status EXCEPT ![r] = status'[r]]
         /\ Replied(r)
         /\ \/ Commit(r)
            \/ status'[r] = "REJECTED" /\ UNCHANGED <<balance, spent, entries>>
<1> TypeOK
  BY DEF IndInv
<1>1. ASSUME NEW x \in Requests, Commit(x)
      PROVE  x = r
  BY <1>1, CommitFacts DEF TypeOK
<1>2. CASE Commit(r)
  BY <1>2, CommitFacts
<1>3. ASSUME NEW x \in Requests, status' = [status EXCEPT ![x] = "REJECTED"]
      PROVE  x = r /\ status'[r] = "REJECTED"
  BY <1>3 DEF TypeOK
<1> QED
  BY <1>1, <1>2, <1>3, DatabaseStep DEF db

LEMMA AtMostOnceStep ==
  ASSUME IndInv, Next
  PROVE  AtMostOncePerKey'
<1> SUFFICES ASSUME NEW r \in Requests, NEW s \in Requests,
                    status'[r] # None, status'[s] # None, req'[r].key = req'[s].key, r # s
             PROVE  FALSE
  BY DEF AtMostOncePerKey
<1> TypeOK /\ AtMostOncePerKey
  BY DEF IndInv
<1>1. CASE status[r] # None /\ status[s] # None
  BY <1>1, RowKept DEF AtMostOncePerKey
<1>2. ASSUME NEW x \in Requests, NEW y \in Requests, x # y, status[x] = None,
             status'[x] # None, status'[y] # None, req'[x].key = req'[y].key
      PROVE  FALSE
  BY <1>2, NewRow DEF KeyFree, RowsOf, TypeOK
<1> QED
  BY <1>1, <1>2

LEMMA RowsSoundStep ==
  ASSUME IndInv, Next
  PROVE  RowsSound'
<1> TypeOK /\ TypeOK' /\ RowsSound
  BY TypeStep DEF IndInv
<1> None \notin {"PENDING", "COMPLETED", "REJECTED"}
  BY LegacyTransfersAssumption
<1>1. ASSUME NEW e \in entries'
      PROVE  status'[e.of] \in {"PENDING", "COMPLETED"}
  <2>1. CASE e \in entries
    <3>1. e.of \in Requests /\ status[e.of] \in {"PENDING", "COMPLETED"}
      BY <2>1 DEF TypeOK, RowsSound
    <3> QED
      BY <3>1, RowKept
  <2>2. ASSUME NEW r \in Requests, Commit(r), e \notin entries
        PROVE  status'[e.of] \in {"PENDING", "COMPLETED"}
    <3>1. e.of = r
      BY <1>1, <2>2, CommitFacts DEF EntriesOf, Entry
    <3> QED
      BY <2>2, <3>1, CommitFacts
  <2> QED
    BY <1>1, <2>1, <2>2, DatabaseStep DEF db
<1>2. ASSUME NEW r \in Requests, status'[r] \in {"PENDING", "COMPLETED"}
      PROVE  /\ Entry(r, From(r), "DEBIT")' \in entries'
             /\ IsTransfer(r)' => Entry(r, To(r), "CREDIT")' \in entries'
  <2>1. CASE status[r] # None
    <3>1. /\ Entry(r, From(r), "DEBIT") \in entries
          /\ IsTransfer(r) => Entry(r, To(r), "CREDIT") \in entries
      BY <1>2, <2>1, RowKept DEF RowsSound
    <3>2. entries \subseteq entries'
      BY DatabaseStep, CommitFacts DEF db
    <3> QED
      BY <2>1, <3>1, <3>2, RowKept DEF Entry, From, To, Call, IsTransfer
  <2>2. CASE status[r] = None
    <3>1. Commit(r)
      BY <1>2, <2>2, NewRow
    <3> QED
      BY <3>1, CommitFacts DEF EntriesOf, Entry, From, To, Call, IsTransfer
  <2> QED
    BY <2>1, <2>2
<1>3. ASSUME NEW r \in Requests, answer'[r].code = "201"
      PROVE  /\ answer'[r].txn \in Requests
             /\ status'[answer'[r].txn] # None /\ req'[answer'[r].txn].key = req'[r].key
  <2>1. CASE answer[r].code = "201"
    <3>1. pc[r] = "done"
      BY <2>1 DEF IndInv, HandlerSound
    <3>2. PICK t \in Requests : t = answer[r].txn /\ status[t] # None /\ req[t].key = req[r].key
      BY <2>1 DEF RowsSound
    <3>3. req'[r] = req[r] /\ answer'[r] = answer[r]
      BY <3>1, DoneKept
    <3>4. status'[t] # None /\ req'[t] = req[t]
      BY <3>2, RowKept
    <3> QED
      BY <3>2, <3>3, <3>4
  <2>2. CASE answer[r].code # "201"
    <3>1. StepOf(r)
      <4>1. answer'[r] # answer[r]
        BY <1>3, <2>2
      <4>2. ~Crash
        BY <1>3, <4>1 DEF Crash, Answer, TypeOK
      <4>3. PICK s \in Requests : StepOf(s)
        BY <4>2, Steps
      <4> QED
        BY <4>1, <4>3, OthersKept
    <3>2. CASE FindKey(r)
      <4>1. req' = req /\ \E t \in RowsOf(req[r].key) : answer'[r] = Answer("201", t)
        BY <1>3, <2>2, <3>2 DEF FindKey, Goto, Finish, TypeOK
      <4>2. PICK t \in RowsOf(req[r].key) : answer'[r] = Answer("201", t)
        BY <4>1
      <4>3. t \in Requests /\ status[t] # None /\ req[t].key = req[r].key
        BY DEF RowsOf
      <4> QED
        BY <4>1, <4>2, <4>3, RowKept DEF Answer
    <3>3. CASE status[r] = None /\ status'[r] # None
      <4>1. answer' = [answer EXCEPT ![r] = Answer("201", r)]
        BY <1>3, <3>3, NewRow DEF Replied, Answer, TypeOK
      <4>2. answer'[r].txn = r
        BY <4>1 DEF Answer, TypeOK
      <4> QED
        BY <3>3, <4>2
    <3>4. CASE Commit(r) \/ (Reject(r) /\ KeyFree(r))
      <4>1. status[r] = None
        BY <3>4 DEF IndInv, HandlerSound, Commit, Reply, Reject
      <4>2. status'[r] # None
        BY <3>4, CommitFacts DEF Reject, Reply, TypeOK
      <4> QED
        BY <3>3, <4>1, <4>2
    <3>5. ASSUME ~FindKey(r), ~Commit(r), ~(Reject(r) /\ KeyFree(r))
          PROVE  answer'[r].code # "201"
      BY <2>2, <3>1, <3>5 DEF StepOf, Receives, Receive, Handle, FindAccounts, Evaluate, Reject, Reply,
         LockSource, LockDestination, InsertTransaction, DeadlockAbort, Fail, Goto, Finish,
         Answer, TypeOK
    <3> QED
      BY <1>3, <3>2, <3>4, <3>5
  <2> QED
    BY <2>1, <2>2
<1> QED
  BY <1>1, <1>2, <1>3 DEF RowsSound

LEMMA IndInvStep == IndInv /\ [Next]_vars => IndInv'
<1>1. ASSUME IndInv, Next
      PROVE  IndInv'
  BY <1>1, TypeStep, NoOverdraftStep, AtMostOnceStep, RowsSoundStep, HandlersStep, LocksStep
     DEF IndInv
<1>2. ASSUME IndInv, UNCHANGED vars
      PROVE  IndInv'
  <2> USE <1>2 DEF IndInv, vars, db
  <2>1. TypeOK' /\ NoOverdraft' /\ AtMostOncePerKey'
    BY DEF TypeOK, NoOverdraft, AtMostOncePerKey
  <2>2. RowsSound'
    BY DEF RowsSound, Entry, From, To, Call, IsTransfer
  <2>3. \A r \in Requests : HandlerSound(r)'
    BY DEF HandlerSound, From, To, Call, IsTransfer
  <2>4. LocksSound'
    <3>1. \A r \in Requests : /\ Holds(r)' = Holds(r) /\ KeyFree(r)' = KeyFree(r)
                              /\ From(r)' = From(r) /\ Amount(r)' = Amount(r)
      BY DEF Holds, From, To, Amount, Call, IsTransfer, KeyFree, RowsOf
    <3> QED
      BY <3>1 DEF LocksSound
  <2> QED
    BY <2>1, <2>2, <2>3, <2>4
<1> QED
  BY <1>1, <1>2

-----------------------------------------------------------------------------
(* The theorems.                                                           *)

\* The inductive invariant holds in every reachable state.
THEOREM LegacyInvariance == Spec => []IndInv
  BY InitIndInv, IndInvStep, PTL DEF Spec

\* Every variable keeps its type: a ledger entry is always of an account of the bank.
THEOREM LegacyTypesHold == Spec => []TypeOK
  BY LegacyInvariance, PTL DEF IndInv

\* executeInternalTransfer and the payments: under READ COMMITTED the row lock alone
\* keeps every balance from going below zero.
THEOREM LegacyNoOverdraft == Spec => []NoOverdraft
  BY LegacyInvariance, PTL DEF IndInv

\* The unique key admits one row, though it is looked up before the transaction.
THEOREM LegacyAtMostOnce == Spec => []AtMostOncePerKey
  BY LegacyInvariance, PTL DEF IndInv

\* Rows, entries and answers agree.
THEOREM LegacyRowsAreSound == Spec => []RowsSound
  BY LegacyInvariance, PTL DEF IndInv

\* risk.service.ts evaluateRisk: whatever the amounts, only a very large one, to a
\* third party and in another currency, is rejected.
THEOREM LegacyOnlyExtremeRejected == Spec => []OnlyExtremeRejected
<1>1. IndInv => OnlyExtremeRejected
  BY DEF IndInv, HandlerSound, OnlyExtremeRejected, Extreme, Amount, Call
<1> QED
  BY <1>1, LegacyInvariance, PTL

\* With any number of requests, two transactions wait for each other only as opposite
\* transfers that each hold their source.
THEOREM LegacyDeadlocks == Spec => []OnlyOppositeTransfersDeadlock
<1>1. IndInv => OnlyOppositeTransfersDeadlock
  <2> SUFFICES ASSUME IndInv, NEW r \in Requests, NEW s \in Requests,
                      Waits(r, s), Waits(s, r)
               PROVE  /\ From(r) = To(s) /\ From(s) = To(r)
                      /\ IsTransfer(r) /\ IsTransfer(s)
    BY DEF OnlyOppositeTransfersDeadlock
  <2> TypeOK
    BY DEF IndInv
  <2>1. ASSUME NEW x \in Requests, NEW y \in Requests, Waits(x, y), Waits(y, x)
        PROVE  pc[x] = "dest" \/ (pc[x] = "insert" /\ req[x].key \in Holds(y))
    BY <2>1 DEF Waits, Wants, Holds
  <2>2. ASSUME NEW x \in Requests, NEW y \in Requests, Waits(x, y), Waits(y, x)
        PROVE  pc[x] # "insert"
    <3>1. SUFFICES ASSUME pc[x] = "insert"
                   PROVE  FALSE
      OBVIOUS
    <3>2. Holds(y) \subseteq Accounts
      <4>1. pc[y] \in {"dest", "insert"}
        BY <2>1, <2>2
      <4> QED
        BY <4>1, RequestFacts DEF Holds
    <3>3. req[x].key \in Keys
      BY <3>1, RequestFacts
    <3> QED
      BY <2>1, <2>2, <3>1, <3>2, <3>3, LegacyTransfersAssumption
  <2>3. pc[r] = "dest" /\ pc[s] = "dest"
    BY <2>1, <2>2
  <2> QED
    BY <2>3 DEF Waits, Wants, Holds, IndInv, HandlerSound
<1> QED
  BY <1>1, LegacyInvariance, PTL

-----------------------------------------------------------------------------
(* LegacyTransfers implements Ledger.                                      *)

LEMMA LedgerInitMaps == Init => L!LedgerInit
  BY DEF Init, L!LedgerInit, Paid, RowsOf

\* The movement the row of a request stands for, before a step and after it.
LEMMA PaidFacts ==
  ASSUME IndInv, NEW k \in Keys
  PROVE  /\ \A r \in RowsOf(k) : status[r] # "REJECTED" => Paid[k] = Moved(r)
         /\ (\A r \in RowsOf(k) : status[r] = "REJECTED") => Paid[k] = None
  BY DEF IndInv, AtMostOncePerKey, Paid, RowsOf

LEMMA PaidFactsNext ==
  ASSUME IndInv', NEW k \in Keys
  PROVE  /\ \A r \in RowsOf(k)' : status'[r] # "REJECTED" => Paid'[k] = Moved(r)'
         /\ (\A r \in RowsOf(k)' : status'[r] = "REJECTED") => Paid'[k] = None
  BY DEF IndInv, AtMostOncePerKey, Paid, RowsOf

\* A key keeps what it has paid for, unless its own request commits.
LEMMA PaidKept ==
  ASSUME IndInv, Next, NEW k \in Keys, \A r \in Requests : Commit(r) => req[r].key # k
  PROVE  Paid'[k] = Paid[k]
<1> IndInv' /\ TypeOK
  BY IndInvStep DEF IndInv
<1>1. ASSUME NEW r \in RowsOf(k)'
      PROVE  \/ r \in RowsOf(k) /\ status'[r] = status[r]
             \/ status'[r] = "REJECTED"
  <2>1. r \in Requests /\ status'[r] # None /\ req'[r].key = k
    BY DEF RowsOf
  <2>2. CASE status[r] # None
    BY <2>1, <2>2, RowKept DEF RowsOf
  <2>3. CASE status[r] = None
    BY <2>1, <2>3, NewRow
  <2> QED
    BY <2>2, <2>3
<1>2. ASSUME NEW r \in RowsOf(k), status[r] # "REJECTED"
      PROVE  Paid'[k] = Paid[k]
  <2>1. r \in Requests /\ status[r] # None /\ req[r].key = k
    BY DEF RowsOf
  <2>2. status'[r] = status[r] /\ r \in RowsOf(k)' /\ Moved(r)' = Moved(r)
    BY <2>1, RowKept DEF RowsOf, Moved, From, To, Amount, Call
  <2>3. Paid'[k] = Moved(r)'
    BY <1>2, <2>2, PaidFactsNext
  <2> QED
    BY <1>2, <2>2, <2>3, PaidFacts
<1>3. CASE \A r \in RowsOf(k) : status[r] = "REJECTED"
  <2>1. \A r \in RowsOf(k)' : status'[r] = "REJECTED"
    BY <1>1, <1>3
  <2> QED
    BY <1>3, <2>1, PaidFacts, PaidFactsNext
<1> QED
  BY <1>2, <1>3

\* Two updates of a function, seen point by point.
LEMMA MoveAt ==
  ASSUME NEW S, NEW f \in [S -> Int], NEW g \in [S -> Int], NEW x \in S, NEW y \in S, x # y,
         NEW n \in Int,
         \A a \in S : g[a] = f[a] + (IF a = y THEN n ELSE 0) - (IF a = x THEN n ELSE 0)
  PROVE  g = [f EXCEPT ![x] = @ - n, ![y] = @ + n]
<1> DEFINE h == [f EXCEPT ![x] = @ - n, ![y] = @ + n]
<1>1. h \in [S -> Int]
  OBVIOUS
<1>2. \A a \in S : g[a] = h[a]
  OBVIOUS
<1> QED
  BY <1>1, <1>2

LEMMA LedgerStepMaps ==
  ASSUME IndInv, Next
  PROVE  [L!LedgerNext]_(L!ledgerVars)
<1> IndInv' /\ TypeOK
  BY IndInvStep DEF IndInv
<1>1. ASSUME NEW r \in Requests, Commit(r)
      PROVE  L!LedgerNext
  <2> DEFINE All == Accounts \cup {Outside}
             held == [a \in All |-> IF a = Outside THEN spent ELSE balance[a]]
  <2> PICK k : k = req[r].key
    OBVIOUS
  <2>1. /\ From(r) \in Accounts /\ To(r) \in All /\ From(r) # To(r) /\ From(r) # Outside
        /\ Amount(r) \in Nat /\ balance[From(r)] >= Amount(r) /\ k \in Keys
        /\ Call(r) \in Calls
    BY <1>1, CommitFacts, RequestFacts, LegacyTransfersAssumption DEF Commit, Reply
  <2>2. PICK m \in L!Movement : m = Moved(r)
    BY <2>1 DEF Moved, L!Movement, Amount
  <2>3. L!Move(m)
    <3>1. \A a \in All :
            held'[a] = held[a] + (IF a = To(r) THEN Amount(r) ELSE 0)
                               - (IF a = From(r) THEN Amount(r) ELSE 0)
      BY <1>1, <2>1, LegacyTransfersAssumption DEF Commit, Reply, TypeOK, IsTransfer
    <3>2. held \in [All -> Int] /\ held' \in [All -> Int]
      BY DEF TypeOK, IndInv
    <3> HIDE DEF held, All
    <3>3. held' = [held EXCEPT ![From(r)] = @ - Amount(r), ![To(r)] = @ + Amount(r)]
      BY <2>1, <3>1, <3>2, MoveAt
    <3> USE DEF held, All
    <3> QED
      BY <2>2, <3>3 DEF L!Move, Moved
  <2>4. Paid[k] = None
    BY <1>1, <2>1, CommitFacts, PaidFacts DEF KeyFree
  <2>5. Paid'[k] = Moved(r)
    <3>1. r \in RowsOf(k)' /\ status'[r] # "REJECTED" /\ Moved(r)' = Moved(r)
      BY <1>1, CommitFacts, LegacyTransfersAssumption DEF RowsOf, Moved, From, To, Amount, Call
    <3> QED
      BY <2>1, <3>1, PaidFactsNext
  <2>6. ASSUME NEW j \in Keys, j # k
        PROVE  Paid'[j] = Paid[j]
    <3>1. ASSUME NEW x \in Requests, Commit(x)
          PROVE  x = r
      BY <1>1, <3>1 DEF Commit, Reply, Finish, TypeOK
    <3> QED
      BY <2>6, <3>1, PaidKept
  <2>7. Paid' = [Paid EXCEPT ![k] = Moved(r)]
    BY <2>5, <2>6 DEF Paid
  <2>8. held[m.from] >= m.amount /\ m.from # m.to
    BY <2>1, <2>2 DEF Moved
  <2>9. L!Pay(k, m)
    BY <2>2, <2>3, <2>4, <2>7, <2>8 DEF L!Pay
  <2> QED
    BY <2>1, <2>2, <2>9 DEF L!LedgerNext
<1>2. CASE \A r \in Requests : ~Commit(r)
  <2>1. UNCHANGED <<balance, spent>>
    BY <1>2, DatabaseStep DEF db
  <2>2. Paid' = Paid
    BY <1>2, PaidKept DEF Paid
  <2> QED
    BY <2>1, <2>2 DEF L!ledgerVars
<1> QED
  BY <1>1, <1>2

\* The earlier backend, with locks at READ COMMITTED and no retries, implements the
\* same ledger as the payment service: atomic movements, each key once.
THEOREM LegacyRefinement == Spec => ImplementsLedger
<1>1. IndInv /\ [Next]_vars => [L!LedgerNext]_(L!ledgerVars)
  <2>1. ASSUME UNCHANGED vars
        PROVE  UNCHANGED L!ledgerVars
    BY <2>1 DEF vars, db, L!ledgerVars, Paid, RowsOf, Moved, From, To, Amount, Call
  <2> QED
    BY <2>1, LedgerStepMaps
<1> QED
  BY <1>1, LedgerInitMaps, LegacyInvariance, PTL DEF Spec, ImplementsLedger, L!LedgerSpec
=============================================================================
