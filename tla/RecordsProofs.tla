----------------------------- MODULE RecordsProofs -----------------------------
(***************************************************************************)
(* Proofs about Records, for any customers, IBANs, ledger entries, periods *)
(* of statements, number of requests and number of polls.                  *)
(***************************************************************************)
EXTENDS Records, TLAPS

USE DEF NoOp

\* What a handler's request is known to ask for.
LEMMA AskedFacts ==
  ASSUME NEW o \in Asked
  PROVE  /\ o.kind \in {"kyc", "create", "remove", "statement"}
         /\ o.customer \in Customers
         /\ o.kind = "kyc" => o.says \in {"VERIFIED", "REJECTED"}
         /\ o.kind = "create" => o.iban \in Ibans
         /\ o.kind = "remove" => o.row \in Rows
         /\ o.kind = "statement" => o.from \in From /\ o.to \in To
  BY DEF Asked

LEMMA RecordsInit == Init => IndInv
<1> SUFFICES ASSUME Init PROVE IndInv
  OBVIOUS
<1> USE DEF Init
<1>1. TypeOK
  BY RecordsAssumption DEF TypeOK
<1>2. ASSUME NEW r \in Requests
      PROVE  HandlerSound(r) /\ RowsSound(r) /\ NoticeSound(r) /\ StatementSound(r)
  <2>1. rows[r] = None
    BY RecordsAssumption DEF Rows
  <2> QED
    BY <2>1 DEF HandlerSound, RowsSound, NoticeSound, StatementSound
<1>3. OneRowPerIban
  <2> SUFFICES ASSUME NEW a \in Rows, NEW b \in Rows, rows[a] # None, rows[b] # None,
                      CustomerOf(a) = CustomerOf(b), IbanOf(a) = IbanOf(b)
               PROVE  a = b
    BY DEF OneRowPerIban
  <2>1. a \in OldRows /\ b \in OldRows
    OBVIOUS
  <2>2. a.customer = b.customer /\ a.iban = b.iban
    BY <2>1 DEF CustomerOf, IbanOf
  <2> QED
    BY <2>1, <2>2, RecordsAssumption
<1>4. LatestSound /\ TabSound
  BY DEF LatestSound, Decided, TabSound
<1> QED
  BY <1>1, <1>2, <1>3, <1>4 DEF IndInv

-----------------------------------------------------------------------------
(* The steps.                                                              *)

StepOf(r) == Handle(r) \/ Fail(r) \/ \E o \in Asked : Receive(r, o)
\* A step of the tab.
TabStep ==
  \/ \E u \in Customers : SignIn(u)
  \/ \E p \in Polls : SendPoll(p) \/ ServePoll(p) \/ AnswerPoll(p) \/ LosePoll(p)
  \/ SignOut \/ Navigate \/ Reload \/ \E n \in Requests : Dismiss(n)
Outside == TabStep \/ MarkRead \/ \E e \in Entries : Post(e)

LEMMA Steps == Next <=> (\E r \in Requests : StepOf(r)) \/ Outside
  BY DEF Next, StepOf, Outside, TabStep

\* The queries of a stage and what they return, as equations.
LEMMA StageFacts ==
  /\ Stage("opening") = {"credits-before", "debits-before"}
  /\ Stage("period") = {"credits", "debits"}
  /\ Stage("entries") = {"entries"}
  BY DEF Stage

LEMMA ResultFacts ==
  ASSUME NEW r
  PROVE  /\ Result(r, "credits-before") = {e \in Own(r) : Before(r, e) /\ SideOf[e] = "CREDIT"}
         /\ Result(r, "debits-before") = {e \in Own(r) : Before(r, e) /\ SideOf[e] = "DEBIT"}
         /\ Result(r, "credits") = {e \in Own(r) : Within(r, e) /\ SideOf[e] = "CREDIT"}
         /\ Result(r, "debits") = {e \in Own(r) : Within(r, e) /\ SideOf[e] = "DEBIT"}
         /\ Result(r, "entries") = {e \in Own(r) : Within(r, e)}
  BY DEF Result

LEMMA ResultType ==
  ASSUME TypeOK, NEW r, NEW q \in Queries
  PROVE  Result(r, q) \in SUBSET Entries /\ Result(r, q) # None
<1>1. Result(r, q) \subseteq posted
  BY ResultFacts DEF Queries, Own
<1> QED
  BY <1>1, RecordsAssumption DEF TypeOK

\* A notification that is read says what it said.
LEMMA ReadNotice ==
  ASSUME NEW m \in Notice
  PROVE  /\ [m EXCEPT !.unread = FALSE] \in Notice
         /\ [m EXCEPT !.unread = FALSE].says = m.says
  BY DEF Notice

\* One notification, or all of them, is read.
LEMMA MarkReadFacts ==
  ASSUME MarkRead
  PROVE  \E ns : /\ notices' = [n \in Requests |->
                      IF n \in ns THEN [notices[n] EXCEPT !.unread = FALSE] ELSE notices[n]]
                 /\ ns \subseteq Unread(user)
<1>1. PICK ns \in {{n} : n \in Unread(user)} \cup {Unread(user)} :
        notices' = [n \in Requests |->
           IF n \in ns THEN [notices[n] EXCEPT !.unread = FALSE] ELSE notices[n]]
  BY DEF MarkRead
<1>2. ns \subseteq Unread(user)
  BY <1>1
<1> QED
  BY <1>1, <1>2

LEMMA RecordsType ==
  ASSUME IndInv, Next
  PROVE  TypeOK'
<1> TypeOK
  BY DEF IndInv
<1> USE DEF TypeOK, Goto, Finish, server, requests, tab, memory
<1>1. ASSUME NEW r \in Requests, StepOf(r)
      PROVE  TypeOK'
  <2> HandlerSound(r) /\ RowsSound(r)
    BY DEF IndInv
  <2> pc[r] # "new" => /\ op[r] \in Asked /\ Customer(r) \in Customers
                       /\ op[r].kind = "kyc" => op[r].says \in {"VERIFIED", "REJECTED"}
    BY AskedFacts DEF HandlerSound, Customer
  <2>1. ASSUME NEW o \in Asked, Receive(r, o)
        PROVE  TypeOK'
    BY <2>1 DEF Receive
  <2>2. CASE FindCustomer(r) \/ FindIban(r) \/ FindRow(r) \/ FindAccount(r) \/ Fail(r)
    <3>1. /\ \/ \E l \in {"write", "reactivate", "opening"} : Goto(r, l)
             \/ \E a \in {"refused", "failed"} : Finish(r, a)
          /\ UNCHANGED found \/ \E x : found' = [found EXCEPT ![r] = x]
          /\ UNCHANGED <<server, op, read, tab>>
      <4> HIDE DEF Goto, Finish, server, tab, TypeOK
      <4> QED
        BY <2>2 DEF FindCustomer, FindIban, FindRow, FindAccount, Fail
    <3>2. DOMAIN found' = Requests
      BY <3>1
    <3>3. /\ pc' \in [Requests -> {"new", "find", "write", "reactivate", "audit", "notify",
                                "opening", "period", "entries", "done"}]
          /\ answer' \in [Requests -> {"none", "ok", "refused", "failed"}]
      <4>1. CASE \E l \in {"write", "reactivate", "opening"} : Goto(r, l)
        BY <4>1
      <4>2. CASE \E a \in {"refused", "failed"} : Finish(r, a)
        BY <4>2
      <4> QED
        BY <3>1, <4>1, <4>2
    <3>4. UNCHANGED <<server, op, read, tab>>
      BY <3>1
    <3> QED
      BY <3>2, <3>3, <3>4
  <2>3. CASE WriteKyc(r)
    BY <2>3 DEF WriteKyc
  <2>4. CASE Notify(r)
    <3>1. Verdict(r) \in {"VERIFIED", "REJECTED"}
      BY <2>4 DEF Notify, HandlerSound, Verdict
    <3>2. [says |-> Verdict(r), unread |-> TRUE] \in Notice
      BY <3>1 DEF Notice
    <3>3. notices' \in [Requests -> {None} \cup Notice]
          /\ last' \in [Customers -> Requests \cup {None}]
      <4>1. CASE UNCHANGED <<notices, last>>
        BY <4>1
      <4>2. CASE /\ notices' = [notices EXCEPT ![r] = [says |-> Verdict(r), unread |-> TRUE]]
                 /\ last' = [last EXCEPT ![Customer(r)] = r]
        BY <4>2, <3>2
      <4> QED
        BY <2>4, <4>1, <4>2 DEF Notify
    <3>4. UNCHANGED <<kyc, rows, posted, events, applied, crossed, op, found, read, tab>>
          /\ Finish(r, "ok")
      BY <2>4 DEF Notify
    <3> QED
      BY <3>3, <3>4
  <2>5. CASE CreateRow(r)
    <3>1. rows' \in [Rows -> {"ACTIVE", "ARCHIVED", None}] /\ applied' \subseteq Requests
      <4>1. \/ UNCHANGED <<rows, applied>>
            \/ rows' = [rows EXCEPT ![r] = "ACTIVE"] /\ applied' = applied \cup {r}
        BY <2>5 DEF CreateRow
      <4> QED
        BY <4>1
    <3>2. /\ pc' \in [Requests -> {"new", "find", "write", "reactivate", "audit", "notify",
                                "opening", "period", "entries", "done"}]
          /\ answer' \in [Requests -> {"none", "ok", "refused", "failed"}]
      <4>1. Goto(r, "audit") \/ Finish(r, "failed")
        BY <2>5 DEF CreateRow
      <4> QED
        BY <4>1
    <3> QED
      BY <2>5, <3>1, <3>2 DEF CreateRow
  <2>6. CASE UpdateRow(r)
    BY <2>6 DEF UpdateRow
  <2>7. CASE Audit(r)
    <3>1. /\ Goto(r, "notify") \/ Finish(r, "ok")
          /\ events' = events \cup {r}
          /\ UNCHANGED <<kyc, rows, posted, notices, last, applied, crossed, op, found, read, tab>>
      BY <2>7 DEF Audit
    <3>2. /\ pc' \in [Requests -> {"new", "find", "write", "reactivate", "audit", "notify",
                                "opening", "period", "entries", "done"}]
          /\ answer' \in [Requests -> {"none", "ok", "refused", "failed"}]
      <4>1. CASE Goto(r, "notify")
        BY <4>1
      <4>2. CASE Finish(r, "ok")
        BY <4>2
      <4> QED
        BY <3>1, <4>1, <4>2
    <3>3. events' \subseteq Requests
      BY <3>1
    <3>4. UNCHANGED <<kyc, rows, posted, notices, last, applied, crossed, op, found, read, tab>>
      BY <3>1
    <3> QED
      BY <3>2, <3>3, <3>4
  <2>8. CASE Query(r)
    <3>1. PICK q \in Stage(pc[r]) :
            /\ read' = [read EXCEPT ![r][q] = Result(r, q)]
            /\ IF \E p \in Stage(pc[r]) \ {q} : read[r][p] = None THEN UNCHANGED <<pc, answer>>
               ELSE CASE pc[r] = "opening" -> Goto(r, "period")
                      [] pc[r] = "period"  -> Goto(r, "entries")
                      [] pc[r] = "entries" -> Finish(r, "ok")
      BY <2>8 DEF Query
    <3>2. q \in Queries
      BY <2>8, StageFacts DEF Query, Queries
    <3>3. read' \in [Requests -> [Queries -> {None} \cup SUBSET Entries]]
      BY <3>1, <3>2, ResultType
    <3>4. /\ pc' \in [Requests -> {"new", "find", "write", "reactivate", "audit", "notify",
                                "opening", "period", "entries", "done"}]
          /\ answer' \in [Requests -> {"none", "ok", "refused", "failed"}]
      <4>1. \/ UNCHANGED <<pc, answer>>
            \/ Goto(r, "period") \/ Goto(r, "entries") \/ Finish(r, "ok")
        <5>1. pc[r] \in {"opening", "period", "entries"}
          BY <2>8 DEF Query
        <5> HIDE DEF Goto, Finish, TypeOK, server, tab
        <5> QED
          BY <3>1, <5>1
      <4>2. CASE UNCHANGED <<pc, answer>>
        BY <4>2
      <4>3. CASE Goto(r, "period") \/ Goto(r, "entries")
        BY <4>3
      <4>4. CASE Finish(r, "ok")
        BY <4>4
      <4> QED
        BY <4>1, <4>2, <4>3, <4>4
    <3> QED
      BY <2>8, <3>3, <3>4 DEF Query
  <2> QED
    BY <1>1, <2>1, <2>2, <2>3, <2>4, <2>5, <2>6, <2>7, <2>8 DEF StepOf, Handle
<1>2. CASE TabStep
  <2>1. ASSUME NEW u \in Customers, SignIn(u)
        PROVE  TypeOK'
    BY <2>1 DEF SignIn, PollsDropped
  <2>2. ASSUME NEW p \in Polls, SendPoll(p) \/ ServePoll(p) \/ LosePoll(p)
        PROVE  TypeOK'
    BY <2>2 DEF SendPoll, ServePoll, LosePoll
  <2>3. ASSUME NEW p \in Polls, AnswerPoll(p)
        PROVE  TypeOK'
    <3>1. poll[p] # None /\ ~poll[p].sent
      BY <2>3 DEF AnswerPoll
    <3>2. poll[p].all \cup poll[p].unread \subseteq Requests
      BY <3>1 DEF IndInv, TabSound, Theirs
    <3> QED
      BY <2>3, <3>2 DEF AnswerPoll
  <2>4. CASE SignOut
    <3>1. [n \in Requests |-> 0] \in [Requests -> Nat]
      OBVIOUS
    <3> QED
      BY <2>4, <3>1 DEF SignOut, PollsDropped
  <2>5. CASE Reload
    BY <2>5 DEF Reload
  <2>6. CASE Navigate \/ \E n \in Requests : Dismiss(n)
    BY <2>6 DEF Navigate, Dismiss
  <2> QED
    BY <1>2, <2>1, <2>2, <2>3, <2>4, <2>5, <2>6 DEF TabStep
<1>3. CASE MarkRead
  <2>1. PICK ns : notices' = [n \in Requests |->
                    IF n \in ns THEN [notices[n] EXCEPT !.unread = FALSE] ELSE notices[n]]
                  /\ ns \subseteq Unread(user)
    BY <1>3, MarkReadFacts
  <2>2. ASSUME NEW n \in Unread(user)
        PROVE  [notices[n] EXCEPT !.unread = FALSE] \in Notice
    <3>1. notices[n] \in Notice
      BY DEF Unread
    <3> QED
      BY <3>1, ReadNotice
  <2>3. notices' \in [Requests -> {None} \cup Notice]
    BY <2>1, <2>2
  <2> QED
    BY <1>3, <2>3 DEF MarkRead
<1>4. ASSUME NEW e \in Entries, Post(e)
      PROVE  TypeOK'
  BY <1>4 DEF Post
<1> QED
  BY <1>1, <1>2, <1>3, <1>4, Steps DEF Outside

-----------------------------------------------------------------------------
(* What a step keeps.                                                      *)

\* A step of r changes nothing of another request, but the row of it.
LEMMA OthersKept ==
  ASSUME TypeOK, NEW r \in Requests, StepOf(r), NEW s \in Requests, s # r
  PROVE  /\ op'[s] = op[s] /\ pc'[s] = pc[s] /\ answer'[s] = answer[s] /\ found'[s] = found[s]
         /\ read'[s] = read[s] /\ notices'[s] = notices[s]
         /\ s \in applied' <=> s \in applied
         /\ s \in events' <=> s \in events
<1> USE DEF TypeOK, Goto, Finish, server, requests, tab, memory
<1>1. CASE Query(r)
  <2>1. PICK q \in Stage(pc[r]) : read' = [read EXCEPT ![r][q] = Result(r, q)]
    BY <1>1 DEF Query
  <2>2. read'[s] = read[s]
    BY <2>1
  <2>3. pc'[s] = pc[s] /\ answer'[s] = answer[s]
    <3>1. \/ UNCHANGED <<pc, answer>>
          \/ Goto(r, "period") \/ Goto(r, "entries") \/ Finish(r, "ok")
      <4> HIDE DEF Goto, Finish
      <4> QED
        BY <1>1 DEF Query
    <3> QED
      BY <3>1
  <2> QED
    BY <1>1, <2>2, <2>3 DEF Query
<1>2. CASE ~Query(r)
  BY <1>2 DEF StepOf, Handle, Receive, FindCustomer, WriteKyc, Notify, FindIban, CreateRow,
     FindRow, UpdateRow, Audit, FindAccount, Fail
<1> QED
  BY <1>1, <1>2

\* Beside the handlers, requests stay what they are.
LEMMA OutsideKeeps ==
  ASSUME Outside
  PROVE  UNCHANGED <<kyc, rows, last, events, applied, crossed, requests>>
  BY DEF Outside, TabStep, SignIn, SendPoll, ServePoll, AnswerPoll, LosePoll, SignOut, Navigate,
     Reload, Dismiss, MarkRead, Post, server, requests

LEMMA OutsideKeepsRequest ==
  ASSUME Outside
  PROVE  UNCHANGED <<op, found, read, pc, answer>>
  BY OutsideKeeps DEF requests

\* A notification is written in its request's own Notify, and keeps its wording.
LEMMA NoticeStep ==
  ASSUME IndInv, Next, NEW n \in Requests
  PROVE  \/ notices'[n] = notices[n]
         \/ /\ notices[n] # None /\ notices'[n] # None
            /\ notices'[n].says = notices[n].says
         \/ /\ Notify(n)
            /\ notices'[n] # None /\ notices'[n].says = op[n].says
            /\ last' = [last EXCEPT ![Customer(n)] = n]
<1> TypeOK /\ HandlerSound(n)
  BY DEF IndInv
<1>1. ASSUME NEW r \in Requests, StepOf(r), r # n
      PROVE  notices'[n] = notices[n]
  BY <1>1, OthersKept
<1>2. CASE StepOf(n) /\ ~Notify(n)
  BY <1>2 DEF StepOf, Handle, Receive, FindCustomer, WriteKyc, FindIban, CreateRow,
     FindRow, UpdateRow, Audit, FindAccount, Query, Fail, server
<1>3. CASE Notify(n)
  <2>1. op[n].says \in {"VERIFIED", "REJECTED"}
    BY <1>3, AskedFacts DEF Notify, HandlerSound
  <2>2. [says |-> op[n].says, unread |-> TRUE] # None
    <3>1. [says |-> op[n].says, unread |-> TRUE] \in Notice
      BY <2>1 DEF Notice
    <3> QED
      BY <3>1, RecordsAssumption
  <2>3. CASE UNCHANGED <<notices, last>>
    BY <2>3
  <2>4. CASE /\ notices' = [notices EXCEPT ![n] = [says |-> op[n].says, unread |-> TRUE]]
             /\ last' = [last EXCEPT ![Customer(n)] = n]
    BY <1>3, <2>2, <2>4 DEF TypeOK
  <2> QED
    BY <1>3, <2>3, <2>4 DEF Notify, Verdict
<1>4. CASE MarkRead
  <2>1. PICK ns : /\ notices' = [m \in Requests |->
                       IF m \in ns THEN [notices[m] EXCEPT !.unread = FALSE] ELSE notices[m]]
                  /\ ns \subseteq Unread(user)
    BY <1>4, MarkReadFacts
  <2>2. ASSUME n \in Unread(user)
        PROVE  /\ [notices[n] EXCEPT !.unread = FALSE] # None
               /\ [notices[n] EXCEPT !.unread = FALSE].says = notices[n].says
               /\ notices[n] # None
    <3>1. notices[n] \in Notice /\ notices[n] # None
      BY <2>2 DEF Unread, TypeOK
    <3>2. None \notin Notice
      BY RecordsAssumption
    <3> QED
      BY <3>1, <3>2, ReadNotice
  <2> QED
    BY <2>1, <2>2
<1>5. CASE Outside /\ ~MarkRead
  BY <1>5 DEF Outside, TabStep, SignIn, SendPoll, ServePoll, AnswerPoll, LosePoll, SignOut,
     Navigate, Reload, Dismiss, Post, server
<1> QED
  BY <1>1, <1>2, <1>3, <1>4, <1>5, Steps

\* What is asked, written, logged and posted stays.
LEMMA Persists ==
  ASSUME IndInv, Next, NEW s \in Requests
  PROVE  /\ pc[s] # "new" => op'[s] = op[s] /\ pc'[s] # "new"
         /\ pc[s] = "done" => pc'[s] = "done" /\ answer'[s] = answer[s]
         /\ applied \subseteq applied' /\ events \subseteq events' /\ posted \subseteq posted'
         /\ crossed \subseteq crossed'
<1> TypeOK
  BY DEF IndInv
<1> USE DEF TypeOK, Goto, Finish, server, requests, tab, memory
<1>1. ASSUME NEW r \in Requests, StepOf(r)
      PROVE  /\ applied \subseteq applied' /\ events \subseteq events' /\ posted \subseteq posted'
             /\ crossed \subseteq crossed'
  BY <1>1 DEF StepOf, Handle, Receive, FindCustomer, WriteKyc, Notify, FindIban, CreateRow,
     FindRow, UpdateRow, Audit, FindAccount, Query, Fail
<1>2. ASSUME StepOf(s)
      PROVE  pc[s] # "new" => op'[s] = op[s] /\ pc'[s] # "new"
  <2>1. CASE Query(s)
    <3>1. \/ UNCHANGED <<pc, answer>>
          \/ Goto(s, "period") \/ Goto(s, "entries") \/ Finish(s, "ok")
      <4> HIDE DEF Goto, Finish
      <4> QED
        BY <2>1 DEF Query
    <3> QED
      BY <2>1, <3>1 DEF Query
  <2>2. CASE ~Query(s)
    BY <1>2, <2>2 DEF StepOf, Handle, Receive, FindCustomer, WriteKyc, Notify, FindIban,
       CreateRow, FindRow, UpdateRow, Audit, FindAccount, Fail
  <2> QED
    BY <2>1, <2>2
<1>3. ASSUME StepOf(s)
      PROVE  pc[s] # "done"
  BY <1>3 DEF StepOf, Handle, Receive, FindCustomer, WriteKyc, Notify, FindIban,
     CreateRow, FindRow, UpdateRow, Audit, FindAccount, Query, Fail, InFlight
<1>4. ASSUME NEW r \in Requests, StepOf(r), r # s
      PROVE  op'[s] = op[s] /\ pc'[s] = pc[s] /\ answer'[s] = answer[s]
  BY <1>4, OthersKept
<1>5. CASE Outside
  <2>1. posted \subseteq posted'
    BY <1>5 DEF Outside, TabStep, SignIn, SendPoll, ServePoll, AnswerPoll, LosePoll, SignOut,
       Navigate, Reload, Dismiss, MarkRead, Post
  <2>2. UNCHANGED <<events, applied, crossed, op, pc, answer>>
    BY <1>5, OutsideKeeps
  <2> QED
    BY <2>1, <2>2
<1> QED
  BY <1>1, <1>2, <1>3, <1>4, <1>5, Steps

\* A row stays, and a new one is that of a creation which found no other for its
\* customer and IBAN.
LEMMA RowsStep ==
  ASSUME IndInv, Next, NEW b \in Rows
  PROVE  /\ rows[b] # None => rows'[b] # None
         /\ rows'[b] # None /\ rows[b] = None =>
              b \in Requests /\ CreateRow(b) /\ Same(Customer(b), op[b].iban) = {}
<1> TypeOK
  BY DEF IndInv
<1>1. ASSUME NEW r \in Requests, UpdateRow(r)
      PROVE  rows[b] # None <=> rows'[b] # None
  <2>1. found[r] \in Rows /\ rows[found[r]] # None
    BY <1>1 DEF UpdateRow, IndInv, RowsSound
  <2>2. PICK v \in {"ACTIVE", "ARCHIVED"} : rows' = [rows EXCEPT ![found[r]] = v]
    BY <1>1 DEF UpdateRow
  <2> QED
    BY <2>1, <2>2, RecordsAssumption DEF TypeOK
<1>2. ASSUME NEW r \in Requests, CreateRow(r)
      PROVE  /\ rows[b] # None => rows'[b] # None
             /\ rows'[b] # None /\ rows[b] = None =>
                  b \in Requests /\ CreateRow(b) /\ Same(Customer(b), op[b].iban) = {}
  <2>1. CASE Same(Customer(r), op[r].iban) = {} /\ rows' = [rows EXCEPT ![r] = "ACTIVE"]
    BY <1>2, <2>1, RecordsAssumption DEF TypeOK
  <2>2. CASE rows' = rows
    BY <2>2
  <2> QED
    BY <1>2, <2>1, <2>2 DEF CreateRow
<1>3. ASSUME NEW r \in Requests, StepOf(r), ~UpdateRow(r), ~CreateRow(r)
      PROVE  rows' = rows
  BY <1>3 DEF StepOf, Handle, Receive, FindCustomer, WriteKyc, Notify, FindIban, FindRow,
     Audit, FindAccount, Query, Fail, server
<1>4. CASE Outside
  BY <1>4, OutsideKeeps
<1> QED
  BY <1>1, <1>2, <1>3, <1>4, Steps

-----------------------------------------------------------------------------
(* Handlers, rows and notifications.                                       *)

LEMMA HandlerStep ==
  ASSUME IndInv, Next, NEW s \in Requests
  PROVE  HandlerSound(s)'
<1> TypeOK /\ HandlerSound(s)
  BY DEF IndInv
<1> applied \subseteq applied' /\ events \subseteq events'
  BY Persists
<1>1. ASSUME op'[s] = op[s], pc'[s] = pc[s], answer'[s] = answer[s], s \in applied' <=> s \in applied
      PROVE  HandlerSound(s)'
  BY <1>1 DEF HandlerSound
<1>2. CASE StepOf(s)
  <2> USE DEF TypeOK, Goto, Finish, server, requests, tab, memory
  <2>1. ASSUME NEW o \in Asked, Receive(s, o)
        PROVE  HandlerSound(s)'
    BY <2>1, AskedFacts DEF Receive, HandlerSound
  <2>2. CASE FindCustomer(s) \/ FindIban(s) \/ FindRow(s) \/ FindAccount(s)
    BY <2>2 DEF FindCustomer, FindIban, FindRow, FindAccount, HandlerSound
  <2>3. CASE WriteKyc(s) \/ CreateRow(s) \/ UpdateRow(s)
    BY <2>3 DEF WriteKyc, CreateRow, UpdateRow, HandlerSound
  <2>4. CASE Audit(s) \/ Notify(s) \/ Fail(s)
    BY <2>4 DEF Audit, Notify, Fail, InFlight, HandlerSound
  <2>5. CASE Query(s)
    <3>1. /\ pc[s] \in {"opening", "period", "entries"}
          /\ \/ UNCHANGED <<pc, answer>>
             \/ Goto(s, "period") \/ Goto(s, "entries") \/ Finish(s, "ok")
      <4> HIDE DEF Goto, Finish
      <4> QED
        BY <2>5 DEF Query
    <3>2. op' = op /\ applied' = applied
      BY <2>5 DEF Query
    <3> QED
      BY <3>1, <3>2 DEF HandlerSound
  <2> QED
    BY <1>2, <2>1, <2>2, <2>3, <2>4, <2>5 DEF StepOf, Handle
<1>3. ASSUME NEW r \in Requests, StepOf(r), r # s
      PROVE  HandlerSound(s)'
  BY <1>1, <1>3, OthersKept
<1>4. CASE Outside
  BY <1>1, <1>4, OutsideKeeps, OutsideKeepsRequest
<1> QED
  BY <1>2, <1>3, <1>4, Steps

LEMMA RowsSoundStep ==
  ASSUME IndInv, Next, NEW s \in Requests
  PROVE  RowsSound(s)'
<1> TypeOK /\ HandlerSound(s) /\ RowsSound(s)
  BY DEF IndInv
<1> s \in Rows
  BY DEF Rows
<1>1. rows'[s] # None => s \in applied' /\ op'[s].kind = "create"
  <2>1. CASE rows[s] # None
    BY <2>1, Persists DEF RowsSound, HandlerSound
  <2>2. CASE rows[s] = None /\ rows'[s] # None
    <3>1. CreateRow(s) /\ Same(Customer(s), op[s].iban) = {}
      BY <2>2, RowsStep
    <3> QED
      BY <3>1 DEF CreateRow
  <2> QED
    BY <2>1, <2>2
<1> DEFINE ById == pc[s] = "reactivate" \/ (pc[s] = "write" /\ op[s].kind = "remove")
<1> HIDE DEF ById
<1>2. ASSUME ById, pc'[s] = pc[s], op'[s] = op[s], found'[s] = found[s]
      PROVE  found'[s] \in Rows /\ rows'[found'[s]] # None
  BY <1>2, RowsStep DEF RowsSound, ById
<1>3. ById' => found'[s] \in Rows /\ rows'[found'[s]] # None
  <2>1. CASE StepOf(s)
    <3> USE DEF TypeOK, Goto, Finish, ById
    <3>1. CASE FindIban(s)
      <4>1. \A b \in Same(Customer(s), op[s].iban) : b \in Rows /\ rows[b] # None
        BY DEF Same
      <4> QED
        BY <3>1, <4>1 DEF FindIban, server
    <3>2. CASE FindRow(s)
      <4>1. op[s].row \in Rows
        BY <3>2, AskedFacts DEF FindRow, HandlerSound
      <4> QED
        BY <3>2, <4>1, RecordsAssumption DEF FindRow, server
    <3>3. CASE Query(s)
      <4>1. \/ UNCHANGED <<pc, answer>>
            \/ Goto(s, "period") \/ Goto(s, "entries") \/ Finish(s, "ok")
        <5> HIDE DEF Goto, Finish
        <5> QED
          BY <3>3 DEF Query
      <4> QED
        BY <3>3, <4>1 DEF Query
    <3>4. ASSUME NEW o \in Asked, Receive(s, o)
          PROVE  ~ById'
      BY <3>4 DEF Receive
    <3>5. CASE FindCustomer(s) \/ WriteKyc(s) \/ CreateRow(s) \/ UpdateRow(s) \/ Audit(s)
                 \/ Notify(s) \/ FindAccount(s) \/ Fail(s)
      BY <3>5 DEF FindCustomer, WriteKyc, CreateRow, UpdateRow, Audit, Notify, FindAccount, Fail
    <3> QED
      BY <2>1, <3>1, <3>2, <3>3, <3>4, <3>5 DEF StepOf, Handle
  <2>2. ASSUME NEW r \in Requests, StepOf(r), r # s
        PROVE  ById' => found'[s] \in Rows /\ rows'[found'[s]] # None
    BY <1>2, <2>2, OthersKept DEF ById
  <2>3. CASE Outside
    BY <1>2, <2>3, OutsideKeepsRequest DEF ById
  <2> QED
    BY <2>1, <2>2, <2>3, Steps
<1> QED
  BY <1>1, <1>3 DEF RowsSound, ById

LEMMA NoticeSoundStep ==
  ASSUME IndInv, Next, NEW s \in Requests
  PROVE  NoticeSound(s)'
<1> TypeOK /\ HandlerSound(s) /\ NoticeSound(s)
  BY DEF IndInv
<1>1. CASE Notify(s) /\ notices'[s] # None /\ notices'[s].says = op[s].says
  BY <1>1 DEF Notify, Finish, NoticeSound, HandlerSound, TypeOK
<1>2. CASE notices'[s] # None => notices[s] # None /\ notices'[s].says = notices[s].says
  BY <1>2, Persists DEF NoticeSound
<1> QED
  BY <1>1, <1>2, NoticeStep

LEMMA EventsStep ==
  ASSUME IndInv, Next
  PROVE  events' \subseteq applied'
<1>1. ASSUME NEW r \in Requests, StepOf(r)
      PROVE  events' \subseteq events \cup {r} /\ (r \in events' => r \in applied')
  <2>1. HandlerSound(r) /\ events \subseteq applied
    BY DEF IndInv
  <2>2. CASE Audit(r)
    BY <2>1, <2>2 DEF Audit, HandlerSound
  <2>3. CASE ~Audit(r)
    <3>1. events' = events
      BY <1>1, <2>3 DEF StepOf, Handle, Receive, FindCustomer, WriteKyc, Notify, FindIban,
         CreateRow, FindRow, UpdateRow, FindAccount, Query, Fail, server
    <3> QED
      BY <2>1, <3>1, Persists
  <2> QED
    BY <2>2, <2>3
<1> QED
  BY <1>1, Persists, OutsideKeeps, Steps DEF IndInv

\* Two rows of one customer and IBAN would both have been there, or the newer one
\* would have met the unique index.
LEMMA OneRowStep ==
  ASSUME IndInv, Next
  PROVE  OneRowPerIban'
<1> TypeOK /\ OneRowPerIban
  BY DEF IndInv
<1>1. ASSUME NEW b \in Rows, rows'[b] # None
      PROVE  CustomerOf(b)' = CustomerOf(b) /\ IbanOf(b)' = IbanOf(b)
  <2>1. CASE b \in OldRows
    BY <2>1 DEF CustomerOf, IbanOf
  <2>2. CASE b \notin OldRows
    <3>1. b \in Requests /\ RowsSound(b) /\ HandlerSound(b)
      BY <2>2 DEF Rows, IndInv
    <3>2. pc[b] # "new"
      <4>1. CASE rows[b] # None
        BY <3>1, <4>1 DEF RowsSound, HandlerSound
      <4>2. CASE rows[b] = None
        BY <1>1, <4>2, RowsStep DEF CreateRow
      <4> QED
        BY <4>1, <4>2
    <3> QED
      BY <2>2, <3>1, <3>2, Persists DEF CustomerOf, IbanOf, Customer
  <2> QED
    BY <2>1, <2>2
<1>2. ASSUME NEW a \in Rows, NEW b \in Rows, rows[a] # None, rows[b] = None, rows'[b] # None,
             CustomerOf(a) = CustomerOf(b), IbanOf(a) = IbanOf(b)
      PROVE  FALSE
  <2>1. b \in Requests /\ Same(Customer(b), op[b].iban) = {}
    BY <1>2, RowsStep
  <2>2. CustomerOf(b) = Customer(b) /\ IbanOf(b) = op[b].iban
    BY <2>1, RecordsAssumption DEF CustomerOf, IbanOf
  <2>3. a \in Same(Customer(b), op[b].iban)
    BY <1>2, <2>2 DEF Same
  <2> QED
    BY <2>1, <2>3
<1>3. ASSUME NEW a \in Rows, NEW b \in Rows, rows[a] = None, rows'[a] # None,
             rows[b] = None, rows'[b] # None
      PROVE  a = b
  <2>1. a \in Requests /\ CreateRow(a) /\ b \in Requests /\ CreateRow(b)
        /\ Same(Customer(b), op[b].iban) = {}
    BY <1>3, RowsStep
  <2>2. rows' = [rows EXCEPT ![b] = "ACTIVE"]
    BY <2>1 DEF CreateRow
  <2> QED
    BY <1>3, <2>2 DEF TypeOK
<1> SUFFICES ASSUME NEW a \in Rows, NEW b \in Rows, rows'[a] # None, rows'[b] # None,
                    CustomerOf(a)' = CustomerOf(b)', IbanOf(a)' = IbanOf(b)'
             PROVE  a = b
  BY DEF OneRowPerIban
<1>4. CustomerOf(a) = CustomerOf(b) /\ IbanOf(a) = IbanOf(b)
  BY <1>1
<1> QED
  BY <1>2, <1>3, <1>4 DEF OneRowPerIban

-----------------------------------------------------------------------------
(* Statements.                                                             *)

\* The entries committed only grow, and so does what a query would return.
LEMMA ResultGrows ==
  ASSUME IndInv, Next, NEW s \in Requests, pc[s] # "new", NEW q \in Queries
  PROVE  Result(s, q) \subseteq Result(s, q)'
<1>1. posted \subseteq posted' /\ op'[s] = op[s]
  BY Persists
<1>2. Own(s) \subseteq Own(s)'
  BY <1>1 DEF Own, Customer
<1>3. \A e : /\ Before(s, e)' = Before(s, e)
             /\ Within(s, e)' = Within(s, e)
  BY <1>1 DEF Before, Within
<1>4. q \in {"credits-before", "debits-before", "credits", "debits", "entries"}
  BY DEF Queries
<1>5. CASE q = "credits-before"
  BY <1>2, <1>3, <1>5 DEF Result
<1>6. CASE q = "debits-before"
  BY <1>2, <1>3, <1>6 DEF Result
<1>7. CASE q = "credits"
  BY <1>2, <1>3, <1>7 DEF Result
<1>8. CASE q = "debits"
  BY <1>2, <1>3, <1>8 DEF Result
<1>9. CASE q = "entries"
  BY <1>2, <1>3, <1>9 DEF Result
<1> QED
  BY <1>4, <1>5, <1>6, <1>7, <1>8, <1>9

\* What a query does: it returns what it would, and the last one of a stage ends it.
LEMMA QueryFacts ==
  ASSUME IndInv, NEW s \in Requests, Query(s)
  PROVE  \E q \in Stage(pc[s]) :
           /\ q \in Queries /\ read[s][q] = None
           /\ read'[s][q] = Result(s, q) /\ read'[s][q] # None
           /\ \A p \in Queries \ {q} : read'[s][p] = read[s][p]
           /\ \/ UNCHANGED <<pc, answer>>
              \/ /\ \A p \in Stage(pc[s]) \ {q} : read[s][p] # None
                 /\ \/ pc[s] = "opening" /\ pc'[s] = "period" /\ answer'[s] = answer[s]
                    \/ pc[s] = "period" /\ pc'[s] = "entries" /\ answer'[s] = answer[s]
                    \/ pc[s] = "entries" /\ pc'[s] = "done" /\ answer'[s] = "ok"
<1> TypeOK
  BY DEF IndInv
<1>1. pc[s] \in {"opening", "period", "entries"}
  BY DEF Query
<1>2. PICK q \in Stage(pc[s]) :
        /\ read[s][q] = None
        /\ read' = [read EXCEPT ![s][q] = Result(s, q)]
        /\ IF \E p \in Stage(pc[s]) \ {q} : read[s][p] = None THEN UNCHANGED <<pc, answer>>
           ELSE CASE pc[s] = "opening" -> Goto(s, "period")
                  [] pc[s] = "period"  -> Goto(s, "entries")
                  [] pc[s] = "entries" -> Finish(s, "ok")
  BY DEF Query
<1>3. q \in Queries
  BY <1>1, StageFacts DEF Queries
<1>4. /\ read'[s][q] = Result(s, q)
      /\ \A p \in Queries \ {q} : read'[s][p] = read[s][p]
  BY <1>2, <1>3 DEF TypeOK
<1>5. ~UNCHANGED <<pc, answer>> =>
         /\ \A p \in Stage(pc[s]) \ {q} : read[s][p] # None
         /\ \/ pc[s] = "opening" /\ Goto(s, "period")
            \/ pc[s] = "period" /\ Goto(s, "entries")
            \/ pc[s] = "entries" /\ Finish(s, "ok")
  BY <1>1, <1>2
<1>6. ~UNCHANGED <<pc, answer>> =>
         /\ \A p \in Stage(pc[s]) \ {q} : read[s][p] # None
         /\ \/ pc[s] = "opening" /\ pc'[s] = "period" /\ answer'[s] = answer[s]
            \/ pc[s] = "period" /\ pc'[s] = "entries" /\ answer'[s] = answer[s]
            \/ pc[s] = "entries" /\ pc'[s] = "done" /\ answer'[s] = "ok"
  BY <1>5 DEF Goto, Finish, TypeOK
<1> QED
  BY <1>2, <1>3, <1>4, <1>6, ResultType

LEMMA StatementStep ==
  ASSUME IndInv, Next, NEW s \in Requests
  PROVE  StatementSound(s)'
<1> TypeOK /\ HandlerSound(s) /\ StatementSound(s)
  BY DEF IndInv
<1> DEFINE ok == op[s].kind = "statement" /\ answer[s] = "ok"
           Complete ==
             /\ pc[s] \in {"period", "entries"} \/ ok =>
                  read[s]["credits-before"] # None /\ read[s]["debits-before"] # None
             /\ pc[s] = "entries" \/ ok =>
                  read[s]["credits"] # None /\ read[s]["debits"] # None
             /\ ok => /\ read[s]["entries"] # None
                      /\ read[s]["credits"] \cup read[s]["debits"] \subseteq read[s]["entries"]
<1> HIDE DEF Complete
<1> Complete
  BY DEF StatementSound, Complete
<1>1. ASSUME pc'[s] = "new" => pc[s] = "new", read'[s] = read[s]
      PROVE  /\ pc'[s] = "new" => \A q \in Queries : read'[s][q] = None
             /\ \A q \in Queries : read'[s][q] # None => read'[s][q] \subseteq Result(s, q)'
  <2>1. CASE pc[s] = "new"
    BY <1>1, <2>1 DEF StatementSound
  <2>2. CASE pc[s] # "new"
    BY <1>1, <2>2, ResultGrows DEF StatementSound
  <2> QED
    BY <2>1, <2>2
<1>2. ASSUME op'[s] = op[s], pc'[s] = pc[s], answer'[s] = answer[s], read'[s] = read[s]
      PROVE  StatementSound(s)'
  <2>1. Complete'
    BY <1>2 DEF Complete
  <2> QED
    BY <1>1, <1>2, <2>1 DEF StatementSound, Complete
<1>3. CASE StepOf(s) /\ ~Query(s)
  <2>1. read' = read
    BY <1>3 DEF StepOf, Handle, Receive, FindCustomer, WriteKyc, Notify, FindIban, CreateRow,
       FindRow, UpdateRow, Audit, FindAccount, Fail, requests
  <2>2. /\ pc'[s] \notin {"new", "period", "entries"}
        /\ ~ok'
    <3> USE DEF TypeOK, Goto, Finish
    <3>1. ASSUME NEW o \in Asked, Receive(s, o)
          PROVE  pc'[s] = "find" /\ answer'[s] = "none"
      BY <3>1 DEF Receive, HandlerSound
    <3>2. CASE FindCustomer(s) \/ FindIban(s) \/ FindRow(s) \/ FindAccount(s)
      BY <3>2 DEF FindCustomer, FindIban, FindRow, FindAccount, HandlerSound
    <3>3. CASE WriteKyc(s) \/ CreateRow(s) \/ UpdateRow(s)
      BY <3>3 DEF WriteKyc, CreateRow, UpdateRow, HandlerSound
    <3>4. CASE Audit(s) \/ Notify(s)
      BY <3>4 DEF Audit, Notify, HandlerSound
    <3>5. CASE Fail(s)
      BY <3>5 DEF Fail, InFlight
    <3> QED
      BY <1>3, <3>1, <3>2, <3>3, <3>4, <3>5 DEF StepOf, Handle
  <2>3. Complete'
    BY <2>2 DEF Complete
  <2> QED
    BY <1>1, <2>1, <2>2, <2>3 DEF StatementSound, Complete
<1>4. CASE Query(s)
  <2>1. PICK q \in Stage(pc[s]) :
           /\ q \in Queries /\ read[s][q] = None
           /\ read'[s][q] = Result(s, q) /\ read'[s][q] # None
           /\ \A p \in Queries \ {q} : read'[s][p] = read[s][p]
           /\ \/ UNCHANGED <<pc, answer>>
              \/ /\ \A p \in Stage(pc[s]) \ {q} : read[s][p] # None
                 /\ \/ pc[s] = "opening" /\ pc'[s] = "period" /\ answer'[s] = answer[s]
                    \/ pc[s] = "period" /\ pc'[s] = "entries" /\ answer'[s] = answer[s]
                    \/ pc[s] = "entries" /\ pc'[s] = "done" /\ answer'[s] = "ok"
    BY <1>4, QueryFacts
  <2>2. pc[s] \in {"opening", "period", "entries"} /\ op[s].kind = "statement" /\ op' = op
        /\ posted' = posted /\ answer[s] = "none"
    BY <1>4 DEF Query, HandlerSound, server
  <2>3. \A p \in Queries : read'[s][p] # None => read'[s][p] \subseteq Result(s, p)'
    <3>1. \A p \in Queries : Result(s, p) \subseteq Result(s, p)'
      BY <2>2, ResultGrows
    <3> QED
      BY <2>1, <3>1 DEF StatementSound
  <2>4. pc'[s] # "new"
    BY <2>1, <2>2
  <2>5. \A p \in Queries : read[s][p] # None => read'[s][p] = read[s][p]
    BY <2>1
  <2>6. CASE UNCHANGED <<pc, answer>>
    <3>1. Complete'
      BY <2>2, <2>5, <2>6 DEF Complete, Queries
    <3> QED
      BY <2>3, <2>4, <3>1 DEF StatementSound, Complete
  <2>7. CASE pc[s] = "opening" /\ pc'[s] = "period" /\ answer'[s] = answer[s]
             /\ \A p \in Stage(pc[s]) \ {q} : read[s][p] # None
    <3>1. \A p \in {"credits-before", "debits-before"} : read'[s][p] # None
      BY <2>1, <2>5, <2>7, StageFacts DEF Queries
    <3>2. Complete'
      BY <2>2, <2>7, <3>1 DEF Complete
    <3> QED
      BY <2>3, <2>4, <3>2 DEF StatementSound, Complete
  <2>8. CASE pc[s] = "period" /\ pc'[s] = "entries" /\ answer'[s] = answer[s]
             /\ \A p \in Stage(pc[s]) \ {q} : read[s][p] # None
    <3>1. \A p \in {"credits", "debits"} : read'[s][p] # None
      BY <2>1, <2>5, <2>8, StageFacts DEF Queries
    <3>2. \A p \in {"credits-before", "debits-before"} : read'[s][p] # None
      BY <2>5, <2>8 DEF Complete, Queries
    <3>3. Complete'
      BY <2>2, <2>8, <3>1, <3>2 DEF Complete
    <3> QED
      BY <2>3, <2>4, <3>3 DEF StatementSound, Complete
  <2>9. CASE pc[s] = "entries" /\ pc'[s] = "done" /\ answer'[s] = "ok"
    <3>1. q = "entries"
      BY <2>1, <2>9, StageFacts
    <3>2. \A p \in {"credits-before", "debits-before", "credits", "debits"} :
             read[s][p] # None /\ read'[s][p] = read[s][p]
      BY <2>5, <2>9 DEF Complete, Queries
    <3>3. read[s]["credits"] \subseteq Result(s, "credits")
          /\ read[s]["debits"] \subseteq Result(s, "debits")
      BY <3>2 DEF StatementSound, Queries
    <3>4. Result(s, "credits") \cup Result(s, "debits") \subseteq Result(s, "entries")
      BY ResultFacts
    <3>5. read'[s]["credits"] \cup read'[s]["debits"] \subseteq read'[s]["entries"]
      BY <2>1, <3>1, <3>2, <3>3, <3>4
    <3>6. Complete'
      BY <2>1, <2>9, <3>1, <3>2, <3>5 DEF Complete
    <3> QED
      BY <2>3, <2>4, <3>6 DEF StatementSound, Complete
  <2> QED
    BY <2>1, <2>6, <2>7, <2>8, <2>9
<1>5. ASSUME NEW r \in Requests, StepOf(r), r # s
      PROVE  StatementSound(s)'
  BY <1>2, <1>5, OthersKept
<1>6. CASE Outside
  BY <1>2, <1>6, OutsideKeepsRequest
<1> QED
  BY <1>3, <1>4, <1>5, <1>6, Steps

\* An entry before the period is not in it, and a statement counts what it lists.
LEMMA StatementsAddUp == IndInv => StatementAddsUp
<1> SUFFICES ASSUME IndInv, NEW r \in Requests,
                    op[r].kind = "statement", answer[r] = "ok"
             PROVE  /\ (read[r]["credits-before"] \cup read[r]["debits-before"])
                         \cap read[r]["entries"] = {}
                    /\ read[r]["credits"] \cup read[r]["debits"] \subseteq read[r]["entries"]
  BY DEF StatementAddsUp
<1> TypeOK /\ HandlerSound(r) /\ StatementSound(r)
  BY DEF IndInv
<1>1. pc[r] = "done" /\ op[r] \in Asked
  BY DEF HandlerSound
<1>2. op[r].from \in Nat
  BY <1>1, AskedFacts, RecordsAssumption
<1>3. ASSUME NEW e \in Entries, Before(r, e), Within(r, e)
      PROVE  FALSE
  BY <1>2, <1>3, RecordsAssumption DEF Before, Within
<1>4. /\ read[r]["credits-before"] \subseteq Result(r, "credits-before")
      /\ read[r]["debits-before"] \subseteq Result(r, "debits-before")
      /\ read[r]["entries"] \subseteq Result(r, "entries")
  BY DEF StatementSound, Queries
<1>5. Own(r) \subseteq Entries
  BY DEF Own, TypeOK
<1>6. (read[r]["credits-before"] \cup read[r]["debits-before"]) \cap read[r]["entries"] = {}
  BY <1>3, <1>4, <1>5, ResultFacts
<1> QED
  BY <1>6 DEF StatementSound

-----------------------------------------------------------------------------
(* The latest notification.                                                *)

\* Only WriteKyc decides, and only Notify tells.
LEMMA DecisionStep ==
  ASSUME IndInv, Next, NEW c \in Customers,
         \A r \in Requests : ~(WriteKyc(r) /\ Customer(r) = c)
  PROVE  /\ kyc'[c] = kyc[c]
         /\ Decided(c)' = Decided(c)
         /\ Telling(c)' \subseteq Telling(c)
         /\ last'[c] = last[c] \/ \E n \in Telling(c) : Notify(n) /\ last'[c] = n
<1> TypeOK /\ \A q \in Requests : HandlerSound(q)
  BY DEF IndInv
<1>1. ASSUME NEW q \in Requests
      PROVE  /\ q \in Decided(c)' <=> q \in Decided(c)
             /\ q \in Telling(c)' => q \in Telling(c)
  <2>1. CASE op'[q] = op[q] /\ pc'[q] = pc[q] /\ (q \in applied' <=> q \in applied)
    BY <2>1 DEF Decided, Telling, Customer
  <2>2. CASE StepOf(q)
    <3> USE DEF TypeOK, Goto, Finish, server
    <3>1. CASE WriteKyc(q)
      <4>1. Customer(q) # c /\ Customer(q)' = Customer(q)
        BY <3>1 DEF WriteKyc, Customer
      <4> QED
        BY <4>1 DEF Decided, Telling
    <3>2. CASE CreateRow(q) \/ UpdateRow(q)
      <4>1. op[q].kind # "kyc" /\ op' = op
        BY <3>2 DEF CreateRow, UpdateRow, HandlerSound
      <4> QED
        BY <4>1 DEF Decided, Telling
    <3>3. ASSUME NEW o \in Asked, Receive(q, o)
          PROVE  /\ q \notin applied /\ applied' = applied
                 /\ pc'[q] = "find"
      BY <3>3 DEF Receive, HandlerSound
    <3>4. CASE Query(q)
      BY <3>4, Persists, QueryFacts DEF Query, HandlerSound, Decided, Telling, Customer
    <3>5. CASE FindCustomer(q) \/ FindIban(q) \/ FindRow(q) \/ FindAccount(q)
      <4>1. applied' = applied /\ op' = op /\ pc'[q] \notin {"audit", "notify"}
        BY <3>5 DEF FindCustomer, FindIban, FindRow, FindAccount
      <4> QED
        BY <4>1 DEF Decided, Telling, Customer
    <3>6. CASE Audit(q) \/ Notify(q) \/ Fail(q)
      <4>1. applied' = applied /\ op' = op
            /\ (pc'[q] \in {"audit", "notify"} => pc[q] \in {"audit", "notify"})
        BY <3>6 DEF Audit, Notify, Fail
      <4> QED
        BY <4>1 DEF Decided, Telling, Customer
    <3> QED
      BY <2>2, <3>1, <3>2, <3>3, <3>4, <3>5, <3>6 DEF StepOf, Handle, Decided, Telling
  <2>3. ASSUME NEW r \in Requests, StepOf(r), r # q
        PROVE  op'[q] = op[q] /\ pc'[q] = pc[q] /\ (q \in applied' <=> q \in applied)
    BY <2>3, OthersKept
  <2>4. CASE Outside
    BY <2>1, <2>4, OutsideKeeps, OutsideKeepsRequest
  <2> QED
    BY <2>1, <2>2, <2>3, <2>4, Steps
<1>2. Decided(c)' = Decided(c) /\ Telling(c)' \subseteq Telling(c)
  <2>1. Decided(c)' \subseteq Requests /\ Decided(c) \subseteq Requests
    BY RecordsType DEF Decided, TypeOK
  <2>2. Telling(c)' \subseteq Requests
    BY DEF Telling
  <2> QED
    BY <1>1, <2>1, <2>2
<1>3. kyc'[c] = kyc[c]
  <2>1. ASSUME NEW r \in Requests, StepOf(r)
        PROVE  kyc'[c] = kyc[c]
    <3>1. CASE WriteKyc(r)
      BY <3>1 DEF WriteKyc, TypeOK
    <3>2. CASE ~WriteKyc(r)
      BY <2>1, <3>2 DEF StepOf, Handle, Receive, FindCustomer, Notify, FindIban, CreateRow,
         FindRow, UpdateRow, Audit, FindAccount, Query, Fail, server
    <3> QED
      BY <3>1, <3>2
  <2> QED
    BY <2>1, OutsideKeeps, Steps
<1>4. last'[c] = last[c] \/ \E n \in Telling(c) : Notify(n) /\ last'[c] = n
  <2>1. ASSUME NEW r \in Requests, StepOf(r), ~Notify(r)
        PROVE  last' = last
    BY <2>1 DEF StepOf, Handle, Receive, FindCustomer, WriteKyc, FindIban, CreateRow,
       FindRow, UpdateRow, Audit, FindAccount, Query, Fail, server
  <2>2. ASSUME NEW r \in Requests, Notify(r)
        PROVE  last'[c] = last[c] \/ (r \in Telling(c) /\ last'[c] = r)
    <3>1. pc[r] = "notify" /\ op[r].kind = "kyc"
          /\ (last' = last \/ last' = [last EXCEPT ![Customer(r)] = r])
      BY <2>2 DEF Notify, HandlerSound
    <3> QED
      BY <3>1 DEF Telling, TypeOK
  <2> QED
    BY <2>1, <2>2, OutsideKeeps, Steps
<1> QED
  BY <1>2, <1>3, <1>4

LEMMA LatestStep ==
  ASSUME IndInv, Next
  PROVE  LatestSound'
<1> TypeOK /\ \A q \in Requests : HandlerSound(q) /\ NoticeSound(q)
  BY DEF IndInv
<1> SUFFICES ASSUME NEW c \in Customers, c \notin crossed', Decided(c)' # {}
             PROVE  \E w \in Decided(c)' : LatestOn(c, w)'
  BY DEF LatestSound
<1>1. c \notin crossed
  <2>1. PICK d : d \in Decided(c)'
    OBVIOUS
  <2>2. d \in Requests
    BY <2>1, RecordsType DEF Decided, TypeOK
  <2> QED
    BY <2>2, Persists
<1>2. ASSUME NEW r \in Requests, WriteKyc(r), Customer(r) = c
      PROVE  r \in Decided(c)' /\ LatestOn(c, r)'
  <2>1. Telling(c) = {} /\ op' = op /\ pc' = [pc EXCEPT ![r] = "audit"] /\ r \in applied'
        /\ kyc' = [kyc EXCEPT ![c] = op[r].says] /\ op[r].kind = "kyc" /\ pc[r] = "write"
        /\ notices' = notices
    BY <1>2 DEF WriteKyc, Goto
  <2>2. r \in Decided(c)'
    BY <1>2, <2>1 DEF Decided, Customer
  <2>3. Telling(c)' \subseteq {r}
    BY <2>1 DEF Telling, Customer, TypeOK
  <2>4. notices'[r] = None
    BY <2>1 DEF NoticeSound
  <2> QED
    BY <2>1, <2>2, <2>3, <2>4 DEF LatestOn, TypeOK
<1>3. ASSUME \A r \in Requests : ~(WriteKyc(r) /\ Customer(r) = c)
      PROVE  \E w \in Decided(c)' : LatestOn(c, w)'
  <2>1. /\ kyc'[c] = kyc[c]
        /\ Decided(c)' = Decided(c)
        /\ Telling(c)' \subseteq Telling(c)
        /\ last'[c] = last[c] \/ \E n \in Telling(c) : Notify(n) /\ last'[c] = n
    BY <1>3, DecisionStep
  <2>2. PICK w \in Decided(c) : LatestOn(c, w)
    BY <1>1, <2>1 DEF IndInv, LatestSound
  <2>3. w \in Requests /\ op'[w] = op[w] /\ Customer(w) = c
    BY <2>2, Persists DEF Decided, TypeOK, HandlerSound
  <2>4. notices'[w] # None => last'[c] = w
    <3>1. CASE Notify(w) /\ last' = [last EXCEPT ![Customer(w)] = w]
      BY <2>3, <3>1 DEF TypeOK
    <3>2. CASE notices'[w] # None => notices[w] # None
      BY <2>1, <2>2, <3>2 DEF LatestOn
    <3> QED
      BY <2>3, <3>1, <3>2, NoticeStep
  <2> QED
    BY <2>1, <2>2, <2>3, <2>4 DEF LatestOn
<1> QED
  BY <1>2, <1>3

\* When all decided on a customer have been told, the latest of them has been.
LEMMA LatestAgrees == IndInv => LatestNoticeAgrees
<1> SUFFICES ASSUME IndInv, NEW c \in Customers \ crossed, Decided(c) # {},
                    \A r \in Decided(c) : notices[r] # None
             PROVE  notices[last[c]].says = kyc[c]
  BY DEF LatestNoticeAgrees, Decided
<1>1. PICK w \in Decided(c) : LatestOn(c, w)
  BY DEF IndInv, LatestSound
<1>2. w \in Requests /\ NoticeSound(w)
  BY DEF IndInv, Decided, TypeOK
<1> QED
  BY <1>1, <1>2 DEF LatestOn, NoticeSound

-----------------------------------------------------------------------------
(* The tab.                                                                *)

\* A notification that is there stays its customer's.
LEMMA TheirsStep ==
  ASSUME IndInv, Next, NEW n, NEW u, Theirs(n, u)
  PROVE  Theirs(n, u)'
<1>1. n \in Requests /\ notices[n] # None /\ pc[n] = "done"
  BY DEF Theirs, IndInv, NoticeSound
<1>2. notices'[n] # None /\ op'[n] = op[n]
  BY <1>1, NoticeStep, Persists
<1> QED
  BY <1>1, <1>2 DEF Theirs, Customer

PollSound(p) ==
  poll[p] # None =>
    /\ poll[p].user = user /\ poll[p].sent \in BOOLEAN
    /\ ~poll[p].sent => \A n \in poll[p].all \cup poll[p].unread : Theirs(n, user)

QueueSound ==
  /\ inside => user # None
  /\ stored \subseteq seen /\ toasts \subseteq seen
  /\ \A n \in toasts \ old : user # None => Theirs(n, user)
  /\ \A n \in Requests : queued[n] > 0 => queued[n] = 1 /\ n \in stored

LEMMA TabParts == TabSound <=> QueueSound /\ \A p \in Polls : PollSound(p)
  BY DEF TabSound, PollSound, QueueSound

LEMMA PollKept ==
  ASSUME IndInv, Next, NEW p \in Polls, user' = user, poll'[p] = poll[p]
  PROVE  PollSound(p)'
  BY TheirsStep, TabParts DEF IndInv, PollSound

LEMMA PollStep ==
  ASSUME IndInv, Next, NEW p \in Polls, SendPoll(p) \/ ServePoll(p) \/ LosePoll(p)
  PROVE  PollSound(p)'
<1> TypeOK /\ PollSound(p)
  BY TabParts DEF IndInv
<1>1. CASE SendPoll(p)
  <2>1. poll'[p] = [user |-> user, sent |-> TRUE] /\ user' = user
    BY <1>1 DEF SendPoll, TypeOK
  <2> QED
    BY <2>1 DEF PollSound
<1>2. CASE ServePoll(p)
  <2>1. poll[p] # None /\ poll[p].user = user /\ user' = user
    BY <1>2 DEF ServePoll, PollSound
  <2>2. poll'[p] = [user |-> user, sent |-> FALSE,
                    all |-> NoticesOf(user), unread |-> Unread(user)]
    BY <1>2, <2>1 DEF ServePoll, TypeOK
  <2>3. \A n \in NoticesOf(user) \cup Unread(user) : Theirs(n, user)
    BY DEF NoticesOf, Unread, Theirs
  <2>4. \A n \in NoticesOf(user) \cup Unread(user) : Theirs(n, user)'
    BY <2>1, <2>3, TheirsStep
  <2> QED
    BY <2>1, <2>2, <2>4 DEF PollSound
<1>3. CASE LosePoll(p)
  BY <1>3 DEF LosePoll, TypeOK, PollSound
<1> QED
  BY <1>1, <1>2, <1>3

\* The queue, where nothing joins it.
LEMMA QueueKept ==
  ASSUME IndInv, Next, UNCHANGED <<user, stored, queued>>, inside' => user # None,
         toasts' \ old' \subseteq toasts \ old, toasts' \subseteq seen', stored \subseteq seen'
  PROVE  QueueSound'
<1> QueueSound
  BY TabParts DEF IndInv
<1>1. \A n \in toasts' \ old' : user' # None => Theirs(n, user)'
  BY TheirsStep DEF QueueSound
<1> QED
  BY <1>1 DEF QueueSound

LEMMA AnswerPollStep ==
  ASSUME IndInv, Next, NEW p \in Polls, AnswerPoll(p)
  PROVE  TabSound'
<1> TypeOK /\ QueueSound /\ PollSound(p)
  BY TabParts DEF IndInv
<1> DEFINE first == ~loaded /\ seen = {}
           new == IF first THEN {} ELSE poll[p].unread \ seen
           add == IF first THEN poll[p].all ELSE new
<1>1. /\ poll[p] # None /\ ~poll[p].sent /\ UNCHANGED <<user, inside, old>>
      /\ seen' = seen \cup add
      /\ stored' = IF first \/ add # {} THEN seen \cup add ELSE stored
      /\ toasts' = toasts \cup new
      /\ queued' = [n \in Requests |-> IF n \in new THEN queued[n] + 1 ELSE queued[n]]
      /\ poll' = [poll EXCEPT ![p] = None]
  BY DEF AnswerPoll
<1>2. stored \subseteq stored' /\ stored' \subseteq seen' /\ new \subseteq stored' /\ new \subseteq add
  BY <1>1 DEF QueueSound
<1>3. \A n \in new : Theirs(n, user) /\ n \notin stored
  BY <1>1 DEF QueueSound, PollSound
<1> HIDE DEF first, new, add
<1>4. \A n \in toasts' \ old' : user' # None => Theirs(n, user)'
  BY <1>1, <1>3, TheirsStep DEF QueueSound
<1>5. ASSUME NEW n \in Requests, queued'[n] > 0
      PROVE  queued'[n] = 1 /\ n \in stored'
  <2>1. CASE n \in new
    <3>1. queued[n] \in Nat /\ ~(queued[n] > 0)
      BY <1>3, <2>1 DEF TypeOK, QueueSound
    <3> QED
      BY <1>1, <1>2, <2>1, <3>1
  <2>2. CASE n \notin new
    BY <1>1, <1>2, <1>5, <2>2 DEF QueueSound
  <2> QED
    BY <2>1, <2>2
<1>6. toasts' \subseteq seen'
  BY <1>1, <1>2 DEF QueueSound
<1>7. QueueSound'
  BY <1>1, <1>2, <1>4, <1>5, <1>6 DEF QueueSound
<1>8. \A q \in Polls : PollSound(q)'
  <2>1. PollSound(p)'
    BY <1>1 DEF PollSound, TypeOK
  <2>2. ASSUME NEW q \in Polls, q # p PROVE PollSound(q)'
    BY <1>1, <2>2, PollKept
  <2> QED
    BY <2>1, <2>2
<1> QED
  BY <1>7, <1>8, TabParts DEF QueueSound, PollSound, TabSound

LEMMA TabSoundStep ==
  ASSUME IndInv, Next
  PROVE  TabSound'
<1> TypeOK /\ QueueSound /\ \A p \in Polls : PollSound(p)
  BY TabParts DEF IndInv
<1> SUFFICES QueueSound' /\ \A p \in Polls : PollSound(p)'
  BY DEF QueueSound, PollSound, TabSound
<1>1. CASE UNCHANGED tab
  <2>1. UNCHANGED <<user, inside, seen, stored, poll, toasts, old, queued>>
    BY <1>1 DEF tab, memory
  <2>2. QueueSound'
    BY <2>1, QueueKept DEF QueueSound
  <2> QED
    BY <2>1, <2>2, PollKept
<1>2. ASSUME NEW u \in Customers, SignIn(u)
      PROVE  QueueSound' /\ \A p \in Polls : PollSound(p)'
  <2>1. /\ user' = u /\ old' = toasts /\ UNCHANGED <<seen, stored, toasts, queued>>
        /\ \A p \in Polls : poll'[p] = None
    BY <1>2 DEF SignIn, PollsDropped, memory
  <2>2. u # None
    BY RecordsAssumption
  <2> QED
    BY <2>1, <2>2 DEF QueueSound, PollSound
<1>3. CASE SignOut
  <2>1. /\ user' = None /\ ~inside' /\ stored' = {} /\ UNCHANGED <<seen, toasts, old>>
        /\ \A p \in Polls : poll'[p] = None
        /\ \A n \in Requests : queued'[n] = 0
    BY <1>3 DEF SignOut, PollsDropped
  <2> QED
    BY <2>1 DEF QueueSound, PollSound
<1>4. CASE Reload
  <2>1. /\ seen' = stored /\ toasts' = {} /\ UNCHANGED <<user, inside, stored, queued>>
        /\ \A p \in Polls : poll'[p] = None
    BY <1>4 DEF Reload
  <2>2. QueueSound'
    BY <2>1, QueueKept DEF QueueSound
  <2> QED
    BY <2>1, <2>2 DEF PollSound
<1>5. CASE Navigate \/ \E n \in Requests : Dismiss(n)
  <2>1. /\ UNCHANGED <<user, seen, stored, poll, old, queued>> /\ toasts' \subseteq toasts
        /\ user # None
    BY <1>5 DEF Navigate, Dismiss, memory, QueueSound
  <2>2. QueueSound'
    BY <2>1, QueueKept DEF QueueSound
  <2> QED
    BY <2>1, <2>2, PollKept
<1>6. ASSUME NEW p \in Polls, SendPoll(p) \/ ServePoll(p) \/ LosePoll(p)
      PROVE  QueueSound' /\ \A q \in Polls : PollSound(q)'
  <2>1. /\ UNCHANGED <<user, inside, seen, stored, toasts, old, queued>>
        /\ \A q \in Polls \ {p} : poll'[q] = poll[q]
    BY <1>6 DEF SendPoll, ServePoll, LosePoll, TypeOK, memory
  <2>2. QueueSound'
    BY <2>1, QueueKept DEF QueueSound
  <2> QED
    BY <1>6, <2>1, <2>2, PollKept, PollStep
<1>7. ASSUME NEW p \in Polls, AnswerPoll(p)
      PROVE  QueueSound' /\ \A q \in Polls : PollSound(q)'
  BY <1>7, AnswerPollStep DEF TabSound, QueueSound, PollSound
<1>8. CASE ~TabStep
  <2>1. ASSUME NEW r \in Requests, StepOf(r)
        PROVE  UNCHANGED tab
    BY <2>1 DEF StepOf, Handle, Receive, FindCustomer, WriteKyc, Notify, FindIban, CreateRow,
       FindRow, UpdateRow, Audit, FindAccount, Query, Fail
  <2>2. CASE MarkRead
    BY <2>2, <1>1 DEF MarkRead
  <2>3. ASSUME NEW e \in Entries, Post(e)
        PROVE  UNCHANGED tab
    BY <2>3 DEF Post
  <2> QED
    BY <1>1, <1>8, <2>1, <2>2, <2>3, Steps DEF Outside
<1> QED
  BY <1>2, <1>3, <1>4, <1>5, <1>6, <1>7, <1>8 DEF TabStep

-----------------------------------------------------------------------------
(* The theorems.                                                           *)

LEMMA RecordsStep == IndInv /\ [Next]_vars => IndInv'
<1>1. ASSUME IndInv, Next
      PROVE  IndInv'
  BY <1>1, RecordsType, EventsStep, HandlerStep, RowsSoundStep, NoticeSoundStep, StatementStep,
     OneRowStep, LatestStep, TabSoundStep DEF IndInv
<1>2. ASSUME IndInv, UNCHANGED vars
      PROVE  IndInv'
  <2> USE <1>2 DEF IndInv, vars, server, requests, tab, memory
  <2>1. TypeOK'
    BY DEF TypeOK
  <2>2. \A r \in Requests : HandlerSound(r)' /\ RowsSound(r)' /\ NoticeSound(r)'
    BY DEF HandlerSound, RowsSound, NoticeSound
  <2>3. \A r \in Requests : StatementSound(r)'
    <3>1. ASSUME NEW r, NEW q PROVE Result(r, q)' = Result(r, q)
      BY DEF Result, Own, Customer, Before, Within
    <3> QED
      BY <3>1 DEF StatementSound
  <2>4. OneRowPerIban'
    BY DEF OneRowPerIban, CustomerOf, IbanOf, Customer
  <2>5. LatestSound' /\ TabSound'
    BY DEF LatestSound, LatestOn, Decided, Telling, Customer, TabSound, Theirs
  <2> QED
    BY <2>1, <2>2, <2>3, <2>4, <2>5
<1> QED
  BY <1>1, <1>2

\* The inductive invariant holds in every reachable state.
THEOREM RecordsInvariance == Spec => []IndInv
  BY RecordsInit, RecordsStep, PTL DEF Spec

\* One row per customer and IBAN however creations, archivings and reactivations
\* interleave, no event without its write, no notification before its event.
THEOREM TrailHolds == Spec => []TrailSound
<1>1. IndInv => TrailSound
  BY DEF IndInv, TrailSound, HandlerSound, NoticeSound, OneRowPerIban
<1> QED
  BY <1>1, RecordsInvariance, PTL

\* Unless decisions on a customer crossed, the latest notification tells the status.
THEOREM LatestNoticeHolds == Spec => []LatestNoticeAgrees
  BY LatestAgrees, RecordsInvariance, PTL

\* While a customer is signed in, no toast of another comes onto the screen but one that
\* waited before, and none is toasted twice from one sign-out to the next.
THEOREM ToastsHold == Spec => []ToastsSound
<1>1. ASSUME IndInv
      PROVE  ToastsSound
  <2>1. \A n \in OnScreen \ old : Customer(n) = user
    BY <1>1 DEF IndInv, TabSound, Theirs, OnScreen
  <2>2. \A n \in Requests : queued[n] <= 1
    <3>1. ASSUME NEW n \in Requests
          PROVE  queued[n] \in Nat /\ (queued[n] > 0 => queued[n] = 1)
      BY <1>1 DEF IndInv, TypeOK, TabSound
    <3> QED
      BY <3>1
  <2> QED
    BY <2>1, <2>2 DEF ToastsSound
<1> QED
  BY <1>1, RecordsInvariance, PTL

\* A statement counts every entry once and lists what it counts, whatever is posted
\* while its queries run.
THEOREM StatementsHold == Spec => []StatementAddsUp
  BY StatementsAddUp, RecordsInvariance, PTL
=============================================================================
