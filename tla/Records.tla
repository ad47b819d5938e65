-------------------------------- MODULE Records --------------------------------
(***************************************************************************)
(* The records a customer looks at: KYC decisions (backend/src/admin),     *)
(* beneficiaries, statements and notifications, and the browser tab that   *)
(* polls for notifications and shows them as toasts                        *)
(* (frontend/src/components/NotificationToaster.tsx).  No handler here has *)
(* a transaction: each query is a step.                                    *)
(*                                                                         *)
(*   kyc        new -> find -> write -> audit -> notify -> done            *)
(*   create     new -> find -> write | reactivate -> audit -> done         *)
(*   remove     new -> find -> write -> audit -> done                      *)
(*   statement  new -> find -> opening -> period -> entries -> done        *)
(*                                                                         *)
(* A beneficiary row and a notification are named by their request.        *)
(***************************************************************************)
EXTENDS Naturals, FiniteSets

CONSTANTS
  Customers, Ibans,
  OldRows,         \* the beneficiary rows of the start, [customer, iban]
  Entries,         \* the ledger entries the account of a customer may get
  AccountOf, SideOf, DateOf,   \* entry -> whose account, CREDIT or DEBIT, a day
  From, To,        \* the days a statement may be asked from and to
  Requests, Polls, None

\* A Notification row on KYC.
Notice == [says : {"VERIFIED", "REJECTED"}, unread : BOOLEAN]

ASSUME RecordsAssumption ==
  /\ OldRows \subseteq [customer : Customers, iban : Ibans]
  /\ AccountOf \in [Entries -> Customers]
  /\ SideOf \in [Entries -> {"CREDIT", "DEBIT"}]
  /\ DateOf \in [Entries -> Nat]
  /\ From \subseteq Nat /\ To \subseteq Nat
  /\ \A r \in Requests : r \notin OldRows
  /\ None \notin Customers \cup Requests \cup OldRows
  /\ None \notin {"ACTIVE", "ARCHIVED"} /\ None \notin Notice
  /\ \A E \in SUBSET Entries : E # None

VARIABLES
  kyc,         \* customer -> kycStatus
  rows,        \* row -> ACTIVE, ARCHIVED, or None
  posted,      \* the entries committed so far
  notices,     \* the Notification rows: request -> [says, unread], or None
  last,        \* customer -> the latest notification on KYC
  events, applied, \* requests whose AuditEvent, whose own write is there
  crossed,     \* customers a decision on whom was written before another was told
  op, found,   \* what a request asks for, and what its handler has read
  read,        \* request -> query -> the entries it returned
  pc, answer

server == <<kyc, rows, posted, notices, last, events, applied, crossed>>
requests == <<op, found, read, pc, answer>>

VARIABLES
  user,        \* who is signed in in the tab
  inside,      \* the path is none of /, /register and /mfa
  seen, stored,    \* seenIds in memory and in sessionStorage
  loaded,      \* initialLoadDone
  poll,        \* fetches under way: [user, answer], or None
  toasts,      \* toasts: the notifications that wait for their end
  old,         \* ghost: those that did when the customer signed in
  queued       \* ghost: notification -> times toasted since the last sign-out

memory == <<seen, stored, loaded>>
tab == <<user, inside, memory, poll, toasts, old, queued>>
vars == <<server, requests, tab>>

Rows == OldRows \cup Requests
Queries == {"credits-before", "debits-before", "credits", "debits", "entries"}
NoOp == [kind |-> "none"]

Asked ==
  [kind : {"kyc"}, customer : Customers, says : {"VERIFIED", "REJECTED"}] \cup
  [kind : {"create"}, customer : Customers, iban : Ibans] \cup
  [kind : {"remove"}, customer : Customers, row : Rows] \cup
  [kind : {"statement"}, customer : Customers, from : From, to : To]

Goto(r, l) == pc' = [pc EXCEPT ![r] = l] /\ UNCHANGED answer
Finish(r, code) ==
  /\ pc' = [pc EXCEPT ![r] = "done"]
  /\ answer' = [answer EXCEPT ![r] = code]

Receive(r, o) ==
  /\ pc[r] = "new"
  /\ op' = [op EXCEPT ![r] = o]
  /\ Goto(r, "find")
  /\ UNCHANGED <<server, found, read, tab>>

Customer(r) == op[r].customer

-----------------------------------------------------------------------------
(* KYC decisions: updateKycStatus.                                         *)

FindCustomer(r) ==
  /\ pc[r] = "find" /\ op[r].kind = "kyc"
  /\ found' = [found EXCEPT ![r] = kyc[Customer(r)]]
  /\ Goto(r, "write")
  /\ UNCHANGED <<server, op, read, tab>>

\* The decisions on c that are written and not yet told.
Telling(c) ==
  {q \in Requests : op[q].kind = "kyc" /\ Customer(q) = c /\ pc[q] \in {"audit", "notify"}}

WriteKyc(r) ==
  /\ pc[r] = "write" /\ op[r].kind = "kyc"
  /\ kyc' = [kyc EXCEPT ![Customer(r)] = op[r].says]
  /\ applied' = applied \cup {r}
  /\ crossed' = IF Telling(Customer(r)) = {} THEN crossed ELSE crossed \cup {Customer(r)}
  /\ Goto(r, "audit")
  /\ UNCHANGED <<rows, posted, notices, last, events, op, found, read, tab>>

\* Faulty: the customer is told the status that was read.
AsFound(r) == found[r]

\* The status the audit event and the notification are worded for.
Verdict(r) == op[r].says

\* NotificationsService.create, which swallows its errors.
Notify(r) ==
  /\ pc[r] = "notify"
  /\ \/ /\ notices' = [notices EXCEPT ![r] = [says |-> Verdict(r), unread |-> TRUE]]
        /\ last' = [last EXCEPT ![Customer(r)] = r]
     \/ UNCHANGED <<notices, last>>
  /\ Finish(r, "ok")
  /\ UNCHANGED <<kyc, rows, posted, events, applied, crossed, op, found, read, tab>>

-----------------------------------------------------------------------------
(* Beneficiaries.                                                          *)

CustomerOf(b) == IF b \in OldRows THEN b.customer ELSE Customer(b)
IbanOf(b) == IF b \in OldRows THEN b.iban ELSE op[b].iban
Same(c, i) == {b \in Rows : rows[b] # None /\ CustomerOf(b) = c /\ IbanOf(b) = i}

\* A row with the IBAN, whatever its status.
FindIban(r) ==
  /\ pc[r] = "find" /\ op[r].kind = "create"
  /\ LET same == Same(Customer(r), op[r].iban) IN
       IF same = {} THEN Goto(r, "write") /\ UNCHANGED found
       ELSE \E b \in same :
              IF rows[b] = "ACTIVE" THEN Finish(r, "refused") /\ UNCHANGED found
              ELSE found' = [found EXCEPT ![r] = b] /\ Goto(r, "reactivate")
  /\ UNCHANGED <<server, op, read, tab>>

\* Faulty: two rows may have one customer and IBAN.
CreateRowTwice(r) ==
  /\ pc[r] = "write" /\ op[r].kind = "create"
  /\ rows' = [rows EXCEPT ![r] = "ACTIVE"]
  /\ applied' = applied \cup {r}
  /\ Goto(r, "audit")
  /\ UNCHANGED <<kyc, posted, notices, last, events, crossed, op, found, read, tab>>

\* beneficiary.create fails at the unique index on the customer and the IBAN.
CreateRow(r) ==
  /\ pc[r] = "write" /\ op[r].kind = "create"
  /\ IF Same(Customer(r), op[r].iban) = {}
     THEN /\ rows' = [rows EXCEPT ![r] = "ACTIVE"]
          /\ applied' = applied \cup {r}
          /\ Goto(r, "audit")
     ELSE Finish(r, "failed") /\ UNCHANGED <<rows, applied>>
  /\ UNCHANGED <<kyc, posted, notices, last, events, crossed, op, found, read, tab>>

\* Updates by id, whatever the row has become since it was read.
UpdateRow(r) ==
  /\ \/ pc[r] = "reactivate"
     \/ pc[r] = "write" /\ op[r].kind = "remove"
  /\ rows' = [rows EXCEPT
       ![found[r]] = IF op[r].kind = "remove" THEN "ARCHIVED" ELSE "ACTIVE"]
  /\ applied' = applied \cup {r}
  /\ Goto(r, "audit")
  /\ UNCHANGED <<kyc, posted, notices, last, events, crossed, op, found, read, tab>>

\* The customer's own row, unless archived.
FindRow(r) ==
  /\ pc[r] = "find" /\ op[r].kind = "remove"
  /\ LET b == op[r].row IN
       IF rows[b] = "ACTIVE" /\ CustomerOf(b) = Customer(r)
       THEN found' = [found EXCEPT ![r] = b] /\ Goto(r, "write")
       ELSE Finish(r, "refused") /\ UNCHANGED found
  /\ UNCHANGED <<server, op, read, tab>>

Audit(r) ==
  /\ pc[r] = "audit"
  /\ events' = events \cup {r}
  /\ IF op[r].kind = "kyc" THEN Goto(r, "notify") ELSE Finish(r, "ok")
  /\ UNCHANGED <<kyc, rows, posted, notices, last, applied, crossed, op, found, read, tab>>

-----------------------------------------------------------------------------
(* Statements: getStatement.                                               *)

\* The account may be unknown, or another's; else a period that is one.
FindAccount(r) ==
  /\ pc[r] = "find" /\ op[r].kind = "statement"
  /\ \/ Finish(r, "refused")
     \/ op[r].from <= op[r].to /\ Goto(r, "opening")
  /\ UNCHANGED <<server, op, found, read, tab>>

\* Faulty: the first day counts as before.
BeforeOrOn(r, e) == DateOf[e] <= op[r].from

Before(r, e) == DateOf[e] < op[r].from

\* `to` is moved to the end of its day.
Within(r, e) == op[r].from <= DateOf[e] /\ DateOf[e] <= op[r].to

Own(r) == {e \in posted : AccountOf[e] = Customer(r)}

\* What a query returns of the entries committed when it runs.
Result(r, q) ==
  CASE q = "credits-before" -> {e \in Own(r) : Before(r, e) /\ SideOf[e] = "CREDIT"}
    [] q = "debits-before"  -> {e \in Own(r) : Before(r, e) /\ SideOf[e] = "DEBIT"}
    [] q = "credits"        -> {e \in Own(r) : Within(r, e) /\ SideOf[e] = "CREDIT"}
    [] q = "debits"         -> {e \in Own(r) : Within(r, e) /\ SideOf[e] = "DEBIT"}
    [] q = "entries"        -> {e \in Own(r) : Within(r, e)}

Stage(l) ==
  CASE l = "opening" -> {"credits-before", "debits-before"}
    [] l = "period"  -> {"credits", "debits"}
    [] l = "entries" -> {"entries"}

\* The queries of a stage run in any order; the last one ends it.
Query(r) ==
  /\ pc[r] \in {"opening", "period", "entries"}
  /\ \E q \in Stage(pc[r]) :
       /\ read[r][q] = None
       /\ read' = [read EXCEPT ![r][q] = Result(r, q)]
       /\ IF \E p \in Stage(pc[r]) \ {q} : read[r][p] = None THEN UNCHANGED <<pc, answer>>
          ELSE CASE pc[r] = "opening" -> Goto(r, "period")
                 [] pc[r] = "period"  -> Goto(r, "entries")
                 [] pc[r] = "entries" -> Finish(r, "ok")
  /\ UNCHANGED <<server, op, found, tab>>

\* A payment commits; its entry is dated when its transaction began.
Post(e) ==
  /\ e \notin posted
  /\ posted' = posted \cup {e}
  /\ UNCHANGED <<kyc, rows, notices, last, events, applied, crossed, requests, tab>>

-----------------------------------------------------------------------------
(* Failures.                                                               *)

InFlight(r) == pc[r] \notin {"new", "done"}

\* A query fails, or the server stops: what was written stays.
Fail(r) ==
  /\ InFlight(r)
  /\ Finish(r, "failed")
  /\ UNCHANGED <<server, op, found, read, tab>>

-----------------------------------------------------------------------------
(* The tab.                                                                *)

Unread(u) == {n \in Requests : notices[n] # None /\ Customer(n) = u /\ notices[n].unread}
NoticesOf(u) == {n \in Requests : notices[n] # None /\ Customer(n) = u}

\* Faulty: the polls of the last user go on.
PollsKept == poll

\* The effect is cleaned up when the token changes: isMounted is false for what it
\* has under way.
PollsDropped == [p \in Polls |-> None]

\* saveAccessToken, and on to the dashboard.  Whoever was signed in before need not have
\* signed out.
SignIn(u) ==
  /\ ~inside
  /\ user' = u /\ inside' = TRUE
  /\ poll' = PollsDropped
  /\ old' = toasts
  /\ UNCHANGED <<server, requests, memory, toasts, queued>>

\* logout clears sessionStorage, and on to the login page; the component stays, above the
\* routes, with its memory and its toasts.
SignOut ==
  /\ inside
  /\ user' = None /\ inside' = FALSE
  /\ stored' = {}
  /\ poll' = PollsDropped
  /\ queued' = [n \in Requests |-> 0]
  /\ UNCHANGED <<server, requests, seen, loaded, toasts, old>>

\* Back and forward, with the token: ProtectedRoute lets nobody in without.
Navigate ==
  /\ user # None
  /\ inside' = ~inside
  /\ UNCHANGED <<server, requests, user, memory, poll, toasts, old, queued>>

\* The page is loaded again: the token and the ids come back from sessionStorage.
Reload ==
  /\ seen' = stored
  /\ loaded' = FALSE
  /\ poll' = [p \in Polls |-> None]
  /\ toasts' = {} /\ old' = {}
  /\ UNCHANGED <<server, requests, user, inside, stored, queued>>

\* A toast that is on the screen is closed, or its five seconds are over: where none is on
\* the screen no timer runs.
Dismiss(n) ==
  /\ inside /\ n \in toasts
  /\ toasts' = toasts \ {n}
  /\ UNCHANGED <<server, requests, user, inside, memory, poll, old, queued>>

\* Every five seconds, whether or not the last fetch has ended.
SendPoll(p) ==
  /\ user # None /\ poll[p] = None
  /\ poll' = [poll EXCEPT ![p] = [user |-> user, sent |-> TRUE]]
  /\ UNCHANGED <<server, requests, user, inside, memory, toasts, old, queued>>

\* findAllForUser runs some time before its answer arrives.
ServePoll(p) ==
  /\ poll[p] # None /\ poll[p].sent
  /\ poll' = [poll EXCEPT ![p] = [user |-> @.user, sent |-> FALSE,
                all |-> NoticesOf(@.user), unread |-> Unread(@.user)]]
  /\ UNCHANGED <<server, requests, user, inside, memory, toasts, old, queued>>

\* The first answer with nothing seen is taken as seen; of any other the unread ones
\* not seen yet join the toasts.
AnswerPoll(p) ==
  /\ poll[p] # None /\ ~poll[p].sent
  /\ LET first == ~loaded /\ seen = {}
         new == IF first THEN {} ELSE poll[p].unread \ seen
         add == IF first THEN poll[p].all ELSE new
     IN  /\ seen' = seen \cup add
         /\ stored' = IF first \/ add # {} THEN seen \cup add ELSE stored
         /\ toasts' = toasts \cup new
         /\ queued' = [n \in Requests |-> IF n \in new THEN queued[n] + 1 ELSE queued[n]]
  /\ loaded' = TRUE
  /\ poll' = [poll EXCEPT ![p] = None]
  /\ UNCHANGED <<server, requests, user, inside, old>>

\* The fetch fails; its error is ignored.
LosePoll(p) ==
  /\ poll[p] # None
  /\ poll' = [poll EXCEPT ![p] = None]
  /\ UNCHANGED <<server, requests, user, inside, memory, toasts, old, queued>>

\* markAsRead of one, markAllAsRead.
MarkRead ==
  /\ user # None
  /\ \E ns \in {{n} : n \in Unread(user)} \cup {Unread(user)} :
       /\ ns # {}
       /\ notices' = [n \in Requests |->
            IF n \in ns THEN [notices[n] EXCEPT !.unread = FALSE] ELSE notices[n]]
  /\ UNCHANGED <<kyc, rows, posted, last, events, applied, crossed, requests, tab>>

-----------------------------------------------------------------------------

Init ==
  /\ kyc = [c \in Customers |-> "PENDING"]
  /\ rows \in [Rows -> {"ACTIVE", "ARCHIVED", None}]
  /\ \A b \in Rows : rows[b] # None <=> b \in OldRows
  /\ posted = {}
  /\ notices = [r \in Requests |-> None]
  /\ last = [c \in Customers |-> None]
  /\ events = {} /\ applied = {} /\ crossed = {}
  /\ op = [r \in Requests |-> NoOp]
  /\ found = [r \in Requests |-> None]
  /\ read = [r \in Requests |-> [q \in Queries |-> None]]
  /\ pc = [r \in Requests |-> "new"]
  /\ answer = [r \in Requests |-> "none"]
  /\ user = None /\ inside = FALSE /\ seen = {} /\ stored = {} /\ loaded = FALSE
  /\ poll = [p \in Polls |-> None]
  /\ toasts = {} /\ old = {}
  /\ queued = [n \in Requests |-> 0]

Handle(r) ==
  \/ FindCustomer(r) \/ WriteKyc(r) \/ Notify(r)
  \/ FindIban(r) \/ CreateRow(r) \/ FindRow(r) \/ UpdateRow(r) \/ Audit(r)
  \/ FindAccount(r) \/ Query(r)

Next ==
  \/ \E r \in Requests :
       Handle(r) \/ Fail(r) \/ Dismiss(r) \/ \E o \in Asked : Receive(r, o)
  \/ \E e \in Entries : Post(e)
  \/ \E u \in Customers : SignIn(u)
  \/ \E p \in Polls : SendPoll(p) \/ ServePoll(p) \/ AnswerPoll(p) \/ LosePoll(p)
  \/ SignOut \/ Navigate \/ Reload \/ MarkRead

Spec == Init /\ [][Next]_vars

-----------------------------------------------------------------------------
(* Properties.                                                             *)

\* A customer has one row per IBAN, however creations interleave; no event without
\* its write and no success without its event; a KYC notification only after both.
TrailSound ==
  /\ events \subseteq applied
  /\ \A r \in Requests :
       /\ notices[r] # None => r \in events
       /\ answer[r] = "ok" /\ op[r].kind # "statement" => r \in events
  /\ \A a, b \in Rows :
       rows[a] # None /\ rows[b] # None /\ CustomerOf(a) = CustomerOf(b)
         /\ IbanOf(a) = IbanOf(b) => a = b

\* When every decision on a customer has been told, the latest notification says what
\* the status is, unless one decision was written while another was being told: then
\* the notifications may come in the other order than the updates.
LatestNoticeAgrees ==
  \A c \in Customers \ crossed :
    LET decided == {r \in applied : op[r].kind = "kyc" /\ Customer(r) = c}
    IN  decided # {} /\ (\A r \in decided : notices[r] # None)
          => notices[last[c]].says = kyc[c]

\* The toasts that are rendered.
OnScreen == IF inside THEN toasts ELSE {}

\* What comes onto the screen while a customer is signed in is for that customer, whatever
\* polls of another were under way at the sign-in and however the page is left, entered
\* and loaded again: a toast of another can only be one that waited when the customer
\* signed in.  (Those that waited are rendered again, to whoever that is: signing out does
\* not take them away.)  And a notification is toasted once from one sign-out to the next.
ToastsSound ==
  /\ \A n \in OnScreen \ old : Customer(n) = user
  /\ \A n \in Requests : queued[n] <= 1

\* A statement counts an entry once, before the period or in it, and what it counts
\* in the period it lists: payments committed while its queries run can only add
\* entries to the list that its totals miss.
StatementAddsUp ==
  \A r \in Requests :
    op[r].kind = "statement" /\ answer[r] = "ok" =>
      LET q == read[r]
          opening == q["credits-before"] \cup q["debits-before"]
          period == q["credits"] \cup q["debits"]
      IN  opening \cap q["entries"] = {} /\ period \subseteq q["entries"]

-----------------------------------------------------------------------------
(* The inductive invariant.                                                *)

TypeOK ==
  /\ kyc \in [Customers -> {"PENDING", "VERIFIED", "REJECTED"}]
  /\ rows \in [Rows -> {"ACTIVE", "ARCHIVED", None}]
  /\ posted \subseteq Entries
  /\ notices \in [Requests -> {None} \cup Notice]
  /\ last \in [Customers -> Requests \cup {None}]
  /\ events \subseteq Requests /\ applied \subseteq Requests /\ crossed \subseteq Customers
  /\ op \in [Requests -> Asked \cup {NoOp}]
  /\ DOMAIN found = Requests
  /\ read \in [Requests -> [Queries -> {None} \cup SUBSET Entries]]
  /\ pc \in [Requests -> {"new", "find", "write", "reactivate", "audit", "notify",
                         "opening", "period", "entries", "done"}]
  /\ answer \in [Requests -> {"none", "ok", "refused", "failed"}]
  /\ user \in Customers \cup {None} /\ inside \in BOOLEAN
  /\ seen \subseteq Requests /\ stored \subseteq Requests /\ loaded \in BOOLEAN
  /\ DOMAIN poll = Polls
  /\ toasts \subseteq Requests /\ old \subseteq Requests
  /\ queued \in [Requests -> Nat]

\* Where a handler is agrees with what it was asked and what it has written.
HandlerSound(r) ==
  /\ pc[r] # "new" => op[r] \in Asked
  /\ pc[r] = "write" => op[r].kind \in {"kyc", "create", "remove"}
  /\ pc[r] = "reactivate" => op[r].kind = "create"
  /\ pc[r] = "audit" => r \in applied /\ op[r].kind \in {"kyc", "create", "remove"}
  /\ pc[r] = "notify" => r \in events /\ op[r].kind = "kyc"
  /\ pc[r] \in {"opening", "period", "entries"} => op[r].kind = "statement"
  /\ r \in applied => pc[r] \in {"audit", "notify", "done"}
  /\ pc[r] # "done" => answer[r] = "none"
  /\ answer[r] = "ok" /\ op[r].kind # "statement" => r \in events

\* A row that is written by id was there when it was read, and no row goes away.
RowsSound(r) ==
  /\ rows[r] # None => r \in applied /\ op[r].kind = "create"
  /\ pc[r] = "reactivate" \/ (pc[r] = "write" /\ op[r].kind = "remove") =>
       found[r] \in Rows /\ rows[found[r]] # None

\* A notification ends a decision and is worded for it.
NoticeSound(r) ==
  notices[r] # None => /\ r \in events /\ pc[r] = "done"
                       /\ op[r].kind = "kyc" /\ notices[r].says = op[r].says

\* What the queries returned is still there, and a stage begins when the one before
\* it has been answered.
StatementSound(r) ==
  LET ok == op[r].kind = "statement" /\ answer[r] = "ok"
  IN  /\ pc[r] = "new" => \A q \in Queries : read[r][q] = None
      /\ \A q \in Queries : read[r][q] # None => read[r][q] \subseteq Result(r, q)
      /\ pc[r] \in {"period", "entries"} \/ ok =>
           read[r]["credits-before"] # None /\ read[r]["debits-before"] # None
      /\ pc[r] = "entries" \/ ok => read[r]["credits"] # None /\ read[r]["debits"] # None
      /\ ok => /\ read[r]["entries"] # None
               /\ read[r]["credits"] \cup read[r]["debits"] \subseteq read[r]["entries"]

Decided(c) == {r \in applied : op[r].kind = "kyc" /\ Customer(r) = c}

\* The decision w on c is the latest: nobody else is still to be told of one.
LatestOn(c, w) ==
  /\ kyc[c] = op[w].says
  /\ Telling(c) \subseteq {w}
  /\ notices[w] # None => last[c] = w

LatestSound ==
  \A c \in Customers \ crossed : Decided(c) # {} => \E w \in Decided(c) : LatestOn(c, w)

\* What is on its way to the tab is for the customer who is signed in, and so is what is
\* toasted but for what waited before; what has been toasted is remembered over a reload.
Theirs(n, u) == n \in Requests /\ notices[n] # None /\ Customer(n) = u

TabSound ==
  /\ inside => user # None
  /\ stored \subseteq seen /\ toasts \subseteq seen
  /\ \A p \in Polls : poll[p] # None =>
       /\ poll[p].user = user /\ poll[p].sent \in BOOLEAN
       /\ ~poll[p].sent => \A n \in poll[p].all \cup poll[p].unread : Theirs(n, user)
  /\ \A n \in toasts \ old : user # None => Theirs(n, user)
  /\ \A n \in Requests : queued[n] > 0 => queued[n] = 1 /\ n \in stored

OneRowPerIban ==
  \A a, b \in Rows :
    rows[a] # None /\ rows[b] # None /\ CustomerOf(a) = CustomerOf(b)
      /\ IbanOf(a) = IbanOf(b) => a = b

IndInv ==
  /\ TypeOK /\ events \subseteq applied
  /\ \A r \in Requests :
       HandlerSound(r) /\ RowsSound(r) /\ NoticeSound(r) /\ StatementSound(r)
  /\ OneRowPerIban
  /\ LatestSound
  /\ TabSound
=============================================================================
