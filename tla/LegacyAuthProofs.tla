---------------------------- MODULE LegacyAuthProofs ----------------------------
(***************************************************************************)
(* Proofs about LegacyAuth, for any users, e-mails and devices and any     *)
(* number of requests.                                                     *)
(***************************************************************************)
EXTENDS LegacyAuth, FiniteSetTheorems, TLAPS

LEMMA IdFacts ==
  /\ None \notin Ids
  /\ \A r \in Requests : r \notin Existing
  /\ \A x \in Row : x # None
  /\ \A x \in Session : x # None
  BY LegacyAuthAssumption DEF Ids

LEMMA LegacyInit == Init => IndInv
<1> SUFFICES ASSUME Init PROVE IndInv
  OBVIOUS
<1> USE DEF NoCall, Answer, Init
<1>1. PICK begun \in SUBSET Existing : \E on \in SUBSET begun :
        /\ users = [u \in Ids |->
             IF u \in Existing THEN FirstRow(u, u \in on, u \in begun) ELSE None]
        /\ proved = on
  BY DEF Init
<1>2. PICK on \in SUBSET begun :
        /\ users = [u \in Ids |->
             IF u \in Existing THEN FirstRow(u, u \in on, u \in begun) ELSE None]
        /\ proved = on
  BY <1>1
<1>3. ASSUME NEW u \in Existing
      PROVE  /\ u \in Ids /\ users[u] \in Row /\ users[u] # None
             /\ users[u].mfa => Secret(u) \in proved
             /\ users[u].email = u
  <2>1. u \in Ids /\ u \in Emails
    BY LegacyAuthAssumption DEF Ids
  <2>2. users[u] = FirstRow(u, u \in on, u \in begun)
    BY <1>2, <2>1
  <2>3. FirstRow(u, u \in on, u \in begun) \in Row
    <3>1. ASSUME NEW a \in BOOLEAN, NEW b \in BOOLEAN
          PROVE  FirstRow(u, a, b) \in Row
      BY <2>1 DEF FirstRow, Row
    <3>2. (u \in on) \in BOOLEAN /\ (u \in begun) \in BOOLEAN
      OBVIOUS
    <3> QED
      BY <3>1, <3>2
  <2>4. users[u].mfa => Secret(u) \in proved
    <3>1. /\ FirstRow(u, u \in on, u \in begun).mfa = (u \in on)
          /\ FirstRow(u, u \in on, u \in begun).secret = IF u \in begun THEN u ELSE None
      BY DEF FirstRow
    <3>3. /\ users[u].mfa = (u \in on)
          /\ users[u].secret = IF u \in begun THEN u ELSE None
      BY <2>2, <3>1
    <3> QED
      BY <3>3, <1>2 DEF Secret
  <2>5. users[u].email = u
    BY <2>2 DEF FirstRow
  <2> QED
    BY <2>1, <2>2, <2>3, <2>4, <2>5, IdFacts
<1>4. \A u \in Ids \ Existing : users[u] = None /\ sessions[u] = None
  BY <1>2 DEF Init
<1>5. ASSUME NEW s \in Existing
      PROVE  sessions[s] \in Session /\ sessions[s] # None /\ sessions[s].user = s
  <2>1. s \in Ids
    BY DEF Ids
  <2>2. sessions[s] = [user |-> s, device |-> Unknown, active |-> TRUE, expired |-> FALSE,
                       trusted |-> TRUE]
    BY <2>1 DEF Init
  <2>3. sessions[s] \in Session
    BY <2>1, <2>2, LegacyAuthAssumption DEF Session
  <2>4. sessions[s].user = s
    BY <2>2
  <2>5. sessions[s] # None
    BY <2>3, IdFacts
  <2> QED
    BY <2>3, <2>4, <2>5
<1>6. TypeOK
  <2>1. users \in [Ids -> {None} \cup Row] /\ sessions \in [Ids -> {None} \cup Session]
    <3>1. users = [u \in Ids |-> users[u]] /\ sessions = [u \in Ids |-> sessions[u]]
      BY <1>2 DEF Init
    <3>2. \A u \in Ids : users[u] \in {None} \cup Row /\ sessions[u] \in {None} \cup Session
      BY <1>3, <1>4, <1>5
    <3> QED
      BY <3>1, <3>2
  <2>2. created \in Seq(Ids)
    <3>1. Cardinality(Existing) \in Nat
      BY LegacyAuthAssumption, FS_CardinalityType
    <3>2. created \in [1..Cardinality(Existing) -> Existing]
      OBVIOUS
    <3>3. created \in Seq(Existing)
      BY <3>1, <3>2
    <3> QED
      BY <3>3 DEF Ids
  <2>3. call \in [Requests -> Call]
    BY DEF Init, Call, Public
  <2>4. /\ seen \in [Requests -> {None} \cup Ids]
        /\ answer \in [Requests -> [code : {"none", "lost", "refused", "ok", "requiresMfa"},
                             user : {None} \cup Ids, session : {None} \cup Ids]]
    BY DEF Init
  <2>5. accounts \subseteq Ids /\ proved \subseteq Ids /\ raced \subseteq Ids
    BY <1>2 DEF Init, Ids
  <2> QED
    BY <2>1, <2>2, <2>3, <2>4, <2>5 DEF TypeOK, Init
<1>7. ASSUME NEW r \in Requests
      PROVE  PlaceSound(r) /\ NamesSound(r) /\ MadeSound(r) /\ LinkSound(r)
  <2>1. users[r] = None /\ sessions[r] = None
    BY <1>4, IdFacts DEF Ids
  <2> QED
    BY <2>1 DEF Init, PlaceSound, NamesSound, MadeSound, LinkSound, Op, Who
<1>8. OneRowPerEmail
  BY <1>3, <1>4 DEF Init, OneRowPerEmail, Ids
<1>9. ASSUME NEW u \in Ids \ raced
      PROVE  FactorSound(u)
  BY <1>3, <1>4 DEF Init, FactorSound, Open
<1>10. SessionsSound
  <2>1. \A i \in DOMAIN created : created[i] \in Existing
    BY DEF Init
  <2> QED
    BY <2>1, <1>3, <1>4, <1>5 DEF SessionsSound, IsOf, IsUser
<1> QED
  BY <1>6, <1>7, <1>8, <1>9, <1>10 DEF IndInv

-----------------------------------------------------------------------------
(* The steps.                                                              *)

StepOf(r) == Receive(r) \/ Handle(r) \/ Fail(r)
Outside == Crash \/ \E s \in Ids : Elapse(s)

LEMMA Steps == Next <=> (\E r \in Requests : StepOf(r)) \/ Outside
  BY DEF Next, StepOf, Outside

\* The steps by what they change.
Finds(r) ==
  \/ FindForRegister(r) \/ FindGoogle(r) \/ FindEmail(r) \/ FindForLogin(r)
  \/ FindForMfa(r) \/ FindTrusted(r) \/ CheckCode(r) \/ Guard(r) \/ ReadForSetup(r)
  \/ StepUp(r) \/ ReadForRefresh(r) \/ Refresh(r) \/ FindSession(r)

LEMMA StepCases ==
  ASSUME NEW r, StepOf(r)
  PROVE  \/ Receive(r) \/ Finds(r) \/ ReadAndVerify(r) \/ LinkGoogle(r) \/ CreateUser(r)
         \/ CreateAccount(r) \/ OpenSession(r) \/ WriteFactor(r) \/ Revoke(r) \/ Fail(r)
  BY DEF StepOf, Handle, Finds

LEMMA FindsKeep ==
  ASSUME NEW r, Finds(r)
  PROVE  UNCHANGED <<users, accounts, sessions, created, proved, raced>>
  BY DEF Finds, FindForRegister, FindGoogle, FindEmail, FindForLogin, FindForMfa, FindTrusted,
         CheckCode, Guard, ReadForSetup, StepUp, ReadForRefresh, Refresh, FindSession, rows,
         ghosts

LEMMA RowFacts ==
  ASSUME TypeOK, NEW u \in Ids, users[u] # None
  PROVE  /\ users[u] \in Row
         /\ users[u].email \in Emails /\ users[u].password \in BOOLEAN
         /\ users[u].google \in BOOLEAN /\ users[u].mfa \in BOOLEAN
         /\ Secret(u) \in {None} \cup Ids
<1>1. users[u] \in Row
  BY DEF TypeOK
<1> QED
  BY <1>1 DEF Row, Secret

LEMMA SessionFacts ==
  ASSUME TypeOK, NEW s \in Ids, sessions[s] # None
  PROVE  /\ sessions[s] \in Session
         /\ sessions[s].user \in Ids /\ sessions[s].device \in Devices
         /\ sessions[s].active \in BOOLEAN /\ sessions[s].expired \in BOOLEAN
         /\ sessions[s].trusted \in BOOLEAN
<1>1. sessions[s] \in Session
  BY DEF TypeOK
<1> QED
  BY <1>1 DEF Session

LEMMA CallFields ==
  ASSUME TypeOK, NEW r \in Requests
  PROVE  /\ call[r] \in Call
         /\ Op(r) \in Public \cup Guarded /\ call[r].email \in {None} \cup Emails
         /\ call[r].device \in {None} \cup Devices /\ call[r].code \in {None} \cup Ids
         /\ call[r].user \in {None} \cup Ids /\ call[r].session \in {None} \cup Ids
         /\ call[r].target \in {None} \cup Ids
         /\ Who(r) \in {None} \cup Ids
         /\ answer[r].user \in {None} \cup Ids /\ answer[r].session \in {None} \cup Ids
<1>1. call[r] \in Call
  BY DEF TypeOK
<1> QED
  BY <1>1 DEF TypeOK, Call, Op, Who

-----------------------------------------------------------------------------
(* What a client may send.                                                 *)

LEMMA PendingFacts ==
  ASSUME IndInv, NEW u \in Pending
  PROVE  IsUser(u)
  BY DEF Pending, IndInv, NamesSound

LEMMA TokenFacts ==
  ASSUME IndInv, NEW t \in Tokens
  PROVE  /\ IsUser(t.user) /\ t.session \in {None} \cup Ids
         /\ t.session # None => IsOf(t.session, t.user)
<1>1. CASE \E u \in Existing : t = [user |-> u, session |-> u]
  BY <1>1 DEF IndInv, SessionsSound, IsUser, IsOf, Ids
<1>2. CASE \E q \in Requests : /\ answer[q].user # None
                             /\ t = [user |-> answer[q].user, session |-> answer[q].session]
  <2>1. PICK q \in Requests : /\ answer[q].user # None
                            /\ t = [user |-> answer[q].user, session |-> answer[q].session]
    BY <1>2
  <2> QED
    BY <2>1, CallFields DEF IndInv, NamesSound
<1>3. CASE \E u \in Pending : t = [user |-> u, session |-> None]
  BY <1>3, PendingFacts
<1> QED
  BY <1>1, <1>2, <1>3 DEF Tokens

LEMMA TypedFacts ==
  ASSUME IndInv, NEW c \in Typed
  PROVE  c \in {None} \cup Ids
  BY RowFacts DEF Typed, IndInv, Secret

\* What every call that is sent satisfies.
Right(c) ==
  /\ c \in Call
  /\ c.op \notin Public => c.op \in Guarded
  /\ c.op \in {"register", "google"} => c.email \in Emails
  /\ c.op = "revoke" => c.target \in Ids
  /\ c.op \in Guarded \cup {"mfaLogin"} => IsUser(c.user)
  /\ c.session # None => IsOf(c.session, c.user)

LEMMA SentFacts ==
  ASSUME IndInv, NEW c \in PublicCalls \cup GuardedCalls
  PROVE  Right(c)
<1>1. ASSUME NEW o \in {"register", "google"}, NEW e \in Emails, c = ByEmail(o, e)
      PROVE  Right(c)
  BY <1>1 DEF Right, NoCall, ByEmail, Call, Public, Guarded
<1>2. ASSUME NEW e \in Emails, NEW g \in BOOLEAN, NEW d \in Devices \cup {None},
             NEW k \in Typed, c = Login(e, g, d, k)
      PROVE  Right(c)
  BY <1>2, TypedFacts DEF Right, NoCall, Login, Call, Public, Guarded
<1>3. ASSUME NEW u \in Pending, NEW d \in Devices \cup {None}, NEW k \in Typed,
             c = Coded(Signed("mfaLogin", u, None, None), d, k)
      PROVE  Right(c)
  <2>1. IsUser(u) /\ u \in Ids /\ k \in {None} \cup Ids
    BY TypedFacts, PendingFacts DEF IsUser
  <2> QED
    BY <1>3, <2>1 DEF Right, NoCall, Signed, Coded, Call, Public, Guarded
<1>4. ASSUME NEW t \in Tokens
      PROVE  /\ IsUser(t.user) /\ t.session \in {None} \cup Ids /\ t.user \in Ids
             /\ t.session # None => IsOf(t.session, t.user)
  BY TokenFacts DEF IsUser
<1>5. ASSUME NEW o \in {"setup", "refresh", "revokeAll"}, NEW t \in Tokens,
             c = Signed(o, t.user, t.session, None)
      PROVE  Right(c)
  BY <1>4, <1>5 DEF Right, NoCall, Signed, Call, Public, Guarded
<1>6. ASSUME NEW o \in {"enable", "disable", "stepUp"}, NEW t \in Tokens, NEW k \in Typed,
             c = Coded(Signed(o, t.user, t.session, None), None, k)
      PROVE  Right(c)
  BY <1>4, <1>6, TypedFacts DEF Right, NoCall, Signed, Coded, Call, Public, Guarded
<1>7. ASSUME NEW t \in Tokens, NEW s \in Ids, c = Signed("revoke", t.user, t.session, s)
      PROVE  Right(c)
  BY <1>4, <1>7 DEF Right, NoCall, Signed, Call, Public, Guarded
<1>8. CASE c \in PublicCalls
  <2>1. CASE c \in {ByEmail(o, e) : o \in {"register", "google"}, e \in Emails}
    BY <2>1, <1>1
  <2>2. CASE c \in {Login(e, g, d, k) :
                    e \in Emails, g \in BOOLEAN, d \in Devices \cup {None}, k \in Typed}
    <3>1. PICK e \in Emails, g \in BOOLEAN, d \in Devices \cup {None}, k \in Typed :
            c = Login(e, g, d, k)
      BY <2>2, SMTT(30)
    <3> QED
      BY <3>1, <1>2
  <2>3. CASE c \in {Coded(Signed("mfaLogin", u, None, None), d, k) :
                    u \in Pending, d \in Devices \cup {None}, k \in Typed}
    BY <2>3, <1>3
  <2> QED
    BY <1>8, <2>1, <2>2, <2>3 DEF PublicCalls
<1>9. CASE c \in GuardedCalls
  BY <1>9, <1>5, <1>6, <1>7 DEF GuardedCalls
<1> QED
  BY <1>8, <1>9

-----------------------------------------------------------------------------
(* Types.                                                                  *)

Places == {"new", "find", "email", "link", "create", "account", "trusted", "secret",
           "session", "guard", "read", "write", "done"}
Codes == {"none", "lost", "refused", "ok", "requiresMfa"}

RequestsOK ==
  /\ call \in [Requests -> Call]
  /\ seen \in [Requests -> {None} \cup Ids]
  /\ pc \in [Requests -> Places]
  /\ answer \in [Requests -> [code : Codes, user : {None} \cup Ids, session : {None} \cup Ids]]

RowsOK ==
  /\ users \in [Ids -> {None} \cup Row] /\ accounts \subseteq Ids
  /\ sessions \in [Ids -> {None} \cup Session] /\ created \in Seq(Ids)
  /\ proved \subseteq Ids /\ raced \subseteq Ids

LEMMA TypeSplit == (TypeOK <=> RowsOK /\ RequestsOK) /\ (TypeOK' <=> RowsOK' /\ RequestsOK')
  BY DEF TypeOK, RowsOK, RequestsOK, Places, Codes

LEMMA NoCallType == NoCall \in Call
  BY DEF NoCall, Call, Public

LEMMA GotoType ==
  ASSUME RequestsOK, NEW r \in Requests, NEW l \in Places, Goto(r, l)
  PROVE  RequestsOK'
  BY DEF RequestsOK, Goto

LEMMA GoAsType ==
  ASSUME RequestsOK, NEW r \in Requests, NEW l \in Places, NEW u \in {None} \cup Ids,
         GoAs(r, l, u)
  PROVE  RequestsOK'
  BY DEF RequestsOK, GoAs

LEMMA FinishType ==
  ASSUME RequestsOK, NEW r \in Requests, NEW code \in Codes, NEW u \in {None} \cup Ids,
         NEW s \in {None} \cup Ids, Finish(r, code, u, s)
  PROVE  RequestsOK'
  BY NoCallType DEF RequestsOK, Finish, Answer, Places

LEMMA RefuseType ==
  ASSUME RequestsOK, NEW r \in Requests, Refuse(r) \/ Reply(r)
  PROVE  RequestsOK'
  BY FinishType DEF Refuse, Reply, Codes

LEMMA RowsOfFacts ==
  ASSUME TypeOK, NEW e, NEW u \in RowsOf(e)
  PROVE  IsUser(u) /\ users[u].email = e
  BY DEF RowsOf, IsUser

\* The steps that write no row.
LEMMA FindsType ==
  ASSUME IndInv, NEW r \in Requests, Finds(r)
  PROVE  RequestsOK'
<1> TypeOK /\ RequestsOK /\ PlaceSound(r) /\ NamesSound(r)
  BY TypeSplit DEF IndInv
<1> USE DEF Places, Codes
<1>1. CASE FindForRegister(r) \/ ReadForSetup(r) \/ ReadForRefresh(r) \/ FindSession(r)
  BY <1>1, GotoType, RefuseType
     DEF FindForRegister, ReadForSetup, ReadForRefresh, FindSession
<1>2. CASE FindGoogle(r)
  BY <1>2, RowsOfFacts, GotoType, GoAsType DEF FindGoogle, IsUser
<1>3. CASE FindEmail(r)
  BY <1>3, RowsOfFacts, GotoType, GoAsType DEF FindEmail, IsUser
<1>4. ASSUME NEW u, IsUser(u), LoginWith(r, u)
      PROVE  RequestsOK'
  <2>1. (IF users[u].mfa THEN "trusted" ELSE "session") \in Places
    OBVIOUS
  <2> QED
    BY <1>4, <2>1, GoAsType DEF LoginWith, IsUser
<1>5. CASE FindForLogin(r)
  BY <1>5, <1>4, RowsOfFacts, RefuseType DEF FindForLogin
<1>6. CASE FindForMfa(r)
  BY <1>6, <1>4, RefuseType DEF FindForMfa, NamesSound
<1>7. CASE FindTrusted(r)
  BY <1>7, CallFields, GotoType, FinishType DEF FindTrusted
<1>8. CASE CheckCode(r)
  BY <1>8, GotoType, RefuseType DEF CheckCode
<1>9. CASE Guard(r)
  <2>1. (IF Op(r) = "revokeAll" THEN "write" ELSE "read") \in Places
    OBVIOUS
  <2> QED
    BY <1>9, <2>1, CallFields, GoAsType, RefuseType DEF Guard
<1>10. CASE StepUp(r)
  <2>1. Latest(Who(r)) \subseteq {None} \cup Ids
    <3>1. \A i \in DOMAIN created : created[i] \in Ids
      BY DEF TypeOK
    <3> QED
      BY <3>1 DEF Latest
  <2> QED
    BY <1>10, <2>1, FinishType, CallFields DEF StepUp
<1>11. CASE Refresh(r)
  BY <1>11, FinishType, RefuseType, CallFields DEF Refresh
<1> QED
  BY <1>1, <1>2, <1>3, <1>5, <1>6, <1>7, <1>8, <1>9, <1>10, <1>11 DEF Finds

\* What the steps write to a user's row.
LEMMA UsersWritten ==
  ASSUME IndInv, NEW r \in Requests, StepOf(r)
  PROVE  \/ users' = users
         \/ /\ pc[r] = "link" /\ IsUser(Who(r))
            /\ users' = [users EXCEPT ![Who(r)].google = TRUE]
         \/ /\ pc[r] = "create" /\ users[r] = None
            /\ users' = [users EXCEPT ![r] = NewRow(r)]
         \/ /\ pc[r] = "write" /\ Op(r) \in {"setup", "enable", "disable"} /\ IsUser(Who(r))
            /\ users' = [users EXCEPT ![Who(r)] = Updated(r, users[Who(r)])]
            /\ WriteFactor(r)
<1> NamesSound(r) /\ MadeSound(r)
  BY DEF IndInv
<1>1. CASE LinkGoogle(r)
  BY <1>1 DEF LinkGoogle, NamesSound
<1>2. CASE CreateUser(r)
  BY <1>2 DEF CreateUser, MadeSound
<1>3. CASE WriteFactor(r)
  BY <1>3 DEF WriteFactor, NamesSound
<1> QED
  BY <1>1, <1>2, <1>3, StepCases, FindsKeep
     DEF Receive, ReadAndVerify, CreateAccount, OpenSession, Revoke, Fail, rows

\* A row is created where there was none of the e-mail.
LEMMA CreatesAlone ==
  ASSUME IndInv, NEW r \in Requests, StepOf(r), pc[r] = "create", users' # users
  PROVE  RowsOf(call[r].email) = {}
<1>1. CreateUser(r)
  BY StepCases, FindsKeep
     DEF Receive, ReadAndVerify, CreateAccount, OpenSession, Revoke, Fail, rows, LinkGoogle,
         WriteFactor
<1> QED
  BY <1>1 DEF CreateUser

LEMMA UsersType ==
  ASSUME IndInv, NEW r \in Requests, StepOf(r)
  PROVE  users' \in [Ids -> {None} \cup Row]
<1> TypeOK
  BY DEF IndInv
<1> r \in Ids
  BY DEF Ids
<1>1. users \in [Ids -> {None} \cup Row]
  BY DEF TypeOK
<1>2. ASSUME NEW u, IsUser(u), users' = [users EXCEPT ![u].google = TRUE]
      PROVE  users' \in [Ids -> {None} \cup Row]
  <2>1. [users[u] EXCEPT !.google = TRUE] \in Row
    BY <1>2, RowFacts DEF IsUser, Row
  <2> QED
    BY <1>1, <1>2, <2>1 DEF IsUser
<1>3. ASSUME pc[r] = "create", users' = [users EXCEPT ![r] = NewRow(r)]
      PROVE  users' \in [Ids -> {None} \cup Row]
  <2>1. call[r].email \in Emails
    BY <1>3 DEF IndInv, PlaceSound
  <2>2. NewRow(r) \in Row
    BY <2>1 DEF NewRow, Row
  <2> QED
    BY <1>1, <1>3, <2>2
<1>4. ASSUME IsUser(Who(r)), Op(r) \in {"setup", "enable", "disable"},
             users' = [users EXCEPT ![Who(r)] = Updated(r, users[Who(r)])]
      PROVE  users' \in [Ids -> {None} \cup Row]
  <2>1. Updated(r, users[Who(r)]) \in Row
    BY <1>4, RowFacts DEF IsUser, Row, Updated
  <2> QED
    BY <1>1, <1>4, <2>1 DEF IsUser
<1> QED
  BY <1>1, <1>2, <1>3, <1>4, UsersWritten

\* What the steps write to sessions.
LEMMA OpenFacts ==
  ASSUME IndInv, NEW r \in Requests, OpenSession(r)
  PROVE  /\ pc[r] = "session" /\ sessions[r] = None
         /\ \E s \in Session : /\ s.user = Who(r) /\ s.active
                               /\ sessions' = [sessions EXCEPT ![r] = s]
         /\ created' = Append(created, r) /\ Finish(r, "ok", Who(r), r)
         /\ UNCHANGED <<users, accounts, proved, raced>>
<1> NamesSound(r) /\ MadeSound(r) /\ TypeOK
  BY DEF IndInv
<1> DEFINE s == [user |-> Who(r), device |-> DeviceOf(r), active |-> TRUE,
                 expired |-> FALSE, trusted |-> TRUE]
<1>1. pc[r] = "session" /\ sessions' = [sessions EXCEPT ![r] = s]
  BY DEF OpenSession
<1>2. Who(r) \in Ids
  BY <1>1 DEF NamesSound, IsUser
<1>3. s \in Session
  <2>1. DeviceOf(r) \in Devices
    BY CallFields, LegacyAuthAssumption DEF DeviceOf
  <2> HIDE DEF DeviceOf
  <2> QED
    BY <1>2, <2>1 DEF Session
<1>4. s.user = Who(r) /\ s.active
  OBVIOUS
<1> QED
  BY <1>1, <1>3, <1>4 DEF OpenSession, MadeSound, ghosts

LEMMA SessionsWritten ==
  ASSUME IndInv, NEW r \in Requests, StepOf(r)
  PROVE  UNCHANGED <<sessions, created>> \/ OpenSession(r) \/ Revoke(r)
  BY StepCases, FindsKeep
     DEF Receive, ReadAndVerify, LinkGoogle, CreateUser, CreateAccount, WriteFactor, Fail, rows

LEMMA RevokeFacts ==
  ASSUME IndInv, NEW r \in Requests, Revoke(r)
  PROVE  /\ pc[r] = "write" /\ Op(r) \in {"revoke", "revokeAll"}
         /\ \A s \in Closed(r) : IsOf(s, Who(r)) /\ (Op(r) = "revokeAll" => s # call[r].session)
         /\ \A s \in Ids : sessions'[s] = IF s \in Closed(r)
                                          THEN [sessions[s] EXCEPT !.active = FALSE]
                                          ELSE sessions[s]
         /\ DOMAIN sessions' = Ids
         /\ UNCHANGED <<users, accounts, created, proved, raced>> /\ Reply(r)
  BY DEF Revoke, IndInv, NamesSound, Closed, IsOf, ghosts

LEMMA SessionsType ==
  ASSUME IndInv, NEW r \in Requests, StepOf(r)
  PROVE  sessions' \in [Ids -> {None} \cup Session] /\ created' \in Seq(Ids)
<1> TypeOK
  BY DEF IndInv
<1> r \in Ids
  BY DEF Ids
<1>1. sessions \in [Ids -> {None} \cup Session] /\ created \in Seq(Ids)
  BY DEF TypeOK
<1>2. CASE Revoke(r)
  <2>1. ASSUME NEW s \in Ids
        PROVE  sessions'[s] \in {None} \cup Session
    <3>1. CASE s \in Closed(r)
      <4>1. sessions[s] # None
        BY <1>2, <3>1, RevokeFacts DEF IsOf
      <4>2. [sessions[s] EXCEPT !.active = FALSE] \in Session
        BY <4>1, SessionFacts DEF Session
      <4> QED
        BY <1>2, <3>1, <4>2, RevokeFacts
    <3>2. CASE s \notin Closed(r)
      BY <1>1, <1>2, <3>2, RevokeFacts
    <3> QED
      BY <3>1, <3>2
  <2>2. sessions' = [s \in Ids |-> sessions'[s]]
    BY <1>2 DEF Revoke
  <2> QED
    BY <1>1, <1>2, <2>1, <2>2, RevokeFacts
<1>3. ASSUME NEW s \in Session, sessions' = [sessions EXCEPT ![r] = s],
             created' = Append(created, r)
      PROVE  sessions' \in [Ids -> {None} \cup Session] /\ created' \in Seq(Ids)
  BY <1>1, <1>3
<1> QED
  BY <1>1, <1>2, <1>3, SessionsWritten, OpenFacts

LEMMA LegacyType ==
  ASSUME IndInv, Next
  PROVE  TypeOK'
<1> TypeOK /\ RequestsOK /\ RowsOK
  BY TypeSplit DEF IndInv
<1>1. ASSUME NEW r \in Requests, StepOf(r)
      PROVE  TypeOK'
  <2> USE <1>1
  <2> PlaceSound(r) /\ NamesSound(r)
    BY DEF IndInv
  <2>1. RequestsOK'
    <3> USE DEF Places, Codes
    <3>1. CASE Receive(r)
      <4>1. PICK c \in PublicCalls \cup GuardedCalls :
              /\ call' = [call EXCEPT ![r] = c]
              /\ pc' = [pc EXCEPT ![r] = IF c.op \in Public THEN "find" ELSE "guard"]
        BY <3>1 DEF Receive
      <4>2. c \in Call
        BY SentFacts DEF Right
      <4> QED
        BY <3>1, <4>1, <4>2 DEF Receive, RequestsOK
    <3>2. CASE ReadAndVerify(r)
      BY <3>2, GotoType, RefuseType DEF ReadAndVerify
    <3>3. CASE LinkGoogle(r)
      BY <3>3, GotoType DEF LinkGoogle
    <3>4. CASE CreateUser(r)
      BY <3>4, GoAsType, RefuseType DEF CreateUser, Ids
    <3>5. CASE CreateAccount(r)
      BY <3>5, GotoType, RefuseType DEF CreateAccount
    <3>6. CASE OpenSession(r)
      BY <3>6, FinishType, CallFields DEF OpenSession, Ids
    <3>7. CASE WriteFactor(r) \/ Revoke(r) \/ Fail(r)
      BY <3>7, RefuseType DEF WriteFactor, Revoke, Fail
    <3> QED
      BY <3>1, <3>2, <3>3, <3>4, <3>5, <3>6, <3>7, StepCases, FindsType
  <2>2. accounts' \subseteq Ids /\ proved' \subseteq Ids /\ raced' \subseteq Ids
    <3>1. CASE ReadAndVerify(r)
      <4>1. pc[r] = "read" /\ (proved' = proved \/ (/\ proved' = proved \cup {Secret(Who(r))}
                                                 /\ Secret(Who(r)) # None))
        BY <3>1 DEF ReadAndVerify
      <4>2. Secret(Who(r)) \in {None} \cup Ids
        BY <4>1, RowFacts DEF NamesSound, IsUser
      <4> QED
        BY <3>1, <4>1, <4>2 DEF ReadAndVerify, TypeOK, rows
    <3>2. CASE WriteFactor(r)
      BY <3>2, CallFields DEF WriteFactor, TypeOK, NamesSound, IsUser
    <3>3. CASE CreateAccount(r)
      BY <3>3 DEF CreateAccount, TypeOK, Ids, ghosts
    <3> QED
      BY <3>1, <3>2, <3>3, StepCases, FindsKeep
         DEF Receive, LinkGoogle, CreateUser, OpenSession, Revoke, Fail, rows, ghosts, TypeOK
  <2> QED
    BY <2>1, <2>2, UsersType, SessionsType, TypeSplit DEF RowsOK
<1>2. CASE Crash
  <2>1. RequestsOK'
    BY <1>2, NoCallType DEF Crash, RequestsOK, Answer, Places, Codes
  <2> QED
    BY <1>2, <2>1, TypeSplit DEF RowsOK, Crash, rows, ghosts
<1>3. ASSUME NEW s \in Ids, Elapse(s)
      PROVE  TypeOK'
  <2>1. [sessions[s] EXCEPT !.expired = TRUE, !.trusted = ~sessions[s].expired] \in Session
    BY <1>3, SessionFacts DEF Elapse, Session
  <2>2. sessions' = [sessions EXCEPT ![s] =
                       [sessions[s] EXCEPT !.expired = TRUE, !.trusted = ~sessions[s].expired]]
    BY <1>3 DEF Elapse, TypeOK
  <2>3. sessions' \in [Ids -> {None} \cup Session]
    BY <2>1, <2>2 DEF TypeOK
  <2>4. RequestsOK'
    BY <1>3 DEF Elapse, RequestsOK
  <2> QED
    BY <1>3, <2>3, <2>4, TypeSplit DEF RowsOK, Elapse, ghosts
<1> QED
  BY <1>1, <1>2, <1>3, Steps DEF Outside

-----------------------------------------------------------------------------
(* What the steps keep, and where they lead.                               *)

\* Users and sessions stay, and a session stays with its user.
LEMMA Persists ==
  ASSUME IndInv, Next
  PROVE  /\ \A u : IsUser(u) => IsUser(u)'
         /\ \A s, u : IsOf(s, u) => IsOf(s, u)'
<1> TypeOK
  BY DEF IndInv
<1>1. ASSUME NEW r \in Requests, StepOf(r)
      PROVE  /\ \A u \in Ids : users[u] # None => users'[u] # None
             /\ \A s \in Ids : sessions[s] # None =>
                  sessions'[s] # None /\ sessions'[s].user = sessions[s].user
  <2> USE <1>1
  <2> r \in Ids /\ DOMAIN users = Ids /\ DOMAIN sessions = Ids
    BY DEF Ids, TypeOK
  <2>1. ASSUME NEW u \in Ids, users[u] # None
        PROVE  users'[u] # None
    <3>1. ASSUME NEW v, users' = [users EXCEPT ![v].google = TRUE]
          PROVE  users'[u] # None
      <4>1. [users[u] EXCEPT !.google = TRUE] \in Row
        BY <2>1, RowFacts DEF Row
      <4> QED
        BY <2>1, <3>1, <4>1, IdFacts
    <3>2. ASSUME Op(r) \in {"setup", "enable", "disable"},
                 users' = [users EXCEPT ![Who(r)] = Updated(r, users[Who(r)])]
          PROVE  users'[u] # None
      <4>1. u = Who(r) => Updated(r, users[Who(r)]) \in Row
        BY <2>1, <3>2, RowFacts DEF Row, Updated
      <4> QED
        BY <2>1, <3>2, <4>1, IdFacts
    <3>3. ASSUME users[r] = None, users' = [users EXCEPT ![r] = NewRow(r)]
          PROVE  users'[u] # None
      BY <2>1, <3>3
    <3> QED
      BY <2>1, <3>1, <3>2, <3>3, UsersWritten
  <2>2. ASSUME NEW s \in Ids, sessions[s] # None
        PROVE  sessions'[s] # None /\ sessions'[s].user = sessions[s].user
    <3>1. CASE Revoke(r)
      <4>1. [sessions[s] EXCEPT !.active = FALSE] \in Session
            /\ [sessions[s] EXCEPT !.active = FALSE].user = sessions[s].user
        BY <2>2, SessionFacts DEF Session
      <4> QED
        BY <2>2, <3>1, <4>1, RevokeFacts, IdFacts
    <3>2. ASSUME NEW t, sessions[r] = None, sessions' = [sessions EXCEPT ![r] = t]
          PROVE  sessions'[s] = sessions[s]
      BY <2>2, <3>2
    <3> QED
      BY <2>2, <3>1, <3>2, SessionsWritten, OpenFacts
  <2> QED
    BY <2>1, <2>2
<1>2. ASSUME NEW t \in Ids, Elapse(t), NEW s \in Ids, sessions[s] # None
      PROVE  sessions'[s] # None /\ sessions'[s].user = sessions[s].user
  <2> DEFINE new == [sessions[t] EXCEPT !.expired = TRUE, !.trusted = ~sessions[t].expired]
  <2>1. new \in Session /\ new.user = sessions[t].user
    BY <1>2, SessionFacts DEF Elapse, Session
  <2>2. sessions' = [sessions EXCEPT ![t] = new] /\ DOMAIN sessions = Ids
    BY <1>2 DEF Elapse, TypeOK
  <2> HIDE DEF new
  <2> QED
    BY <1>2, <2>1, <2>2, IdFacts
<1>3. CASE Crash \/ \E s \in Ids : Elapse(s)
  BY <1>2, <1>3 DEF Crash, Elapse, rows, IsUser, IsOf
<1> QED
  BY <1>1, <1>3, Steps DEF Outside, IsUser, IsOf

Same(q) ==
  pc'[q] = pc[q] /\ call'[q] = call[q] /\ seen'[q] = seen[q] /\ answer'[q] = answer[q]

LEMMA OthersSame ==
  ASSUME IndInv, NEW r \in Requests, StepOf(r), NEW q \in Requests \ {r}
  PROVE  Same(q)
<1> TypeOK
  BY DEF IndInv
<1>1. ASSUME NEW l, Goto(r, l) PROVE Same(q)
  BY <1>1 DEF Same, Goto, TypeOK
<1>2. ASSUME NEW l, NEW u, GoAs(r, l, u) PROVE Same(q)
  BY <1>2 DEF Same, GoAs, TypeOK
<1>3. ASSUME NEW c, NEW u, NEW s, Finish(r, c, u, s) PROVE Same(q)
  BY <1>3 DEF Same, Finish, TypeOK
<1>4. Refuse(r) \/ Reply(r) => Same(q)
  BY <1>3 DEF Refuse, Reply
<1>6. CASE Finds(r)
  <2>1. CASE FindForRegister(r) \/ FindForLogin(r) \/ FindForMfa(r) \/ FindTrusted(r)
    BY <1>1, <1>2, <1>3, <1>4, <2>1
       DEF FindForRegister, FindForLogin, FindForMfa, LoginWith, FindTrusted
  <2>2. CASE FindGoogle(r) \/ FindEmail(r) \/ CheckCode(r) \/ Guard(r) \/ ReadForSetup(r)
    BY <1>1, <1>2, <1>4, <2>2
       DEF FindGoogle, FindEmail, CheckCode, Guard, ReadForSetup
  <2>3. CASE StepUp(r) \/ ReadForRefresh(r) \/ Refresh(r) \/ FindSession(r)
    BY <1>1, <1>3, <1>4, <2>3 DEF StepUp, ReadForRefresh, Refresh, FindSession
  <2> QED
    BY <1>6, <2>1, <2>2, <2>3 DEF Finds
<1>7. CASE Receive(r)
  BY <1>7 DEF Receive, Same, TypeOK
<1>8. CASE ReadAndVerify(r) \/ LinkGoogle(r) \/ CreateUser(r) \/ CreateAccount(r)
  BY <1>1, <1>2, <1>4, <1>8 DEF ReadAndVerify, LinkGoogle, CreateUser, CreateAccount
<1>9. CASE OpenSession(r) \/ WriteFactor(r) \/ Revoke(r) \/ Fail(r)
  BY <1>3, <1>4, <1>9 DEF OpenSession, WriteFactor, Revoke, Fail
<1> QED
  BY <1>6, <1>7, <1>8, <1>9, StepCases

LEMMA OthersKept ==
  ASSUME IndInv, NEW r \in Requests, StepOf(r), NEW q \in Requests \ {r}
  PROVE  /\ Same(q) /\ Op(q)' = Op(q) /\ Who(q)' = Who(q)
         /\ users[q] = None => users'[q] = None
         /\ sessions[q] = None => sessions'[q] = None
         /\ q \in accounts => q \in accounts'
<1> TypeOK
  BY DEF IndInv
<1> q \in Ids /\ DOMAIN users = Ids /\ DOMAIN sessions = Ids
  BY DEF Ids, TypeOK
<1>1. users[q] = None => users'[q] = None
  BY UsersWritten DEF IsUser
<1>2. sessions[q] = None => sessions'[q] = None
  <2>1. CASE OpenSession(r)
    BY <2>1, OpenFacts
  <2>2. CASE Revoke(r)
    BY <2>2, RevokeFacts DEF IsOf
  <2> QED
    BY <2>1, <2>2, SessionsWritten
<1>3. q \in accounts => q \in accounts'
  BY StepCases, FindsKeep DEF Receive, ReadAndVerify, LinkGoogle, CreateUser, CreateAccount,
     OpenSession, WriteFactor, Revoke, Fail, rows
<1> QED
  BY <1>1, <1>2, <1>3, OthersSame DEF Same, Op, Who

-----------------------------------------------------------------------------
(* Where a step leads its request.                                         *)

Keeps(r) == call'[r] = call[r] /\ answer'[r] = answer[r]

Started(r) ==
  /\ pc[r] = "new" /\ Right(call'[r])
  /\ pc'[r] = IF call'[r].op \in Public THEN "find" ELSE "guard"
  /\ seen'[r] = seen[r] /\ answer'[r] = answer[r]
  /\ UNCHANGED <<users, accounts, sessions>>

Ended(r) ==
  /\ pc[r] \notin {"new", "done"} /\ pc'[r] = "done" /\ call'[r] = NoCall /\ seen'[r] = None
  /\ \/ answer'[r].user = None /\ answer'[r].session = None
     \/ /\ IsUser(answer'[r].user) /\ pc[r] # "account"
        /\ answer'[r].session # None => IsOf(answer[r].session, answer[r].user)'
  /\ answer'[r].code = "requiresMfa" => answer'[r].user # None
  /\ pc[r] = "account" /\ answer'[r].code = "ok" => r \in accounts'
  /\ users[r] = None => users'[r] = None

\* From reading rows of users on.
MovedOn(r) ==
  /\ Keeps(r) /\ UNCHANGED sessions
  /\ \/ /\ pc[r] = "find" /\ Op(r) = "register" /\ pc'[r] = "create" /\ UNCHANGED users
     \/ /\ pc[r] = "find" /\ Op(r) = "google" /\ pc'[r] = "email" /\ UNCHANGED users
     \/ /\ pc[r] = "find" /\ Op(r) = "google" /\ pc'[r] = "session" /\ IsUser(Who(r)')
        /\ users[Who(r)'].email = call[r].email /\ users[Who(r)'].google
        /\ UNCHANGED users
     \/ pc[r] = "email" /\ pc'[r] = "create" /\ UNCHANGED users
     \/ /\ pc[r] = "email" /\ pc'[r] = "link" /\ IsUser(Who(r)')
        /\ users[Who(r)'].email = call[r].email /\ UNCHANGED users
     \/ pc[r] = "link" /\ pc'[r] = "session" /\ Who(r)' = Who(r)
        /\ users' = [users EXCEPT ![Who(r)].google = TRUE]
     \/ /\ pc[r] = "create" /\ pc'[r] = "account" /\ Who(r)' = r /\ users'[r] # None
        /\ users'[r] = NewRow(r)
     \/ /\ pc[r] = "account" /\ Op(r) # "register" /\ pc'[r] = "session"
        /\ Who(r)' = Who(r) /\ r \in accounts' /\ UNCHANGED users

\* A login, and what is behind the guard.
MovedIn(r) ==
  /\ Keeps(r) /\ UNCHANGED <<users, sessions>>
  /\ \/ /\ pc[r] = "find" /\ Op(r) \in {"login", "mfaLogin"} /\ IsUser(Who(r)')
        /\ pc'[r] \in {"trusted", "session"}
     \/ pc[r] = "trusted" /\ pc'[r] \in {"session", "secret"} /\ seen'[r] = seen[r]
     \/ pc[r] = "secret" /\ pc'[r] = "session" /\ seen'[r] = seen[r]
     \/ /\ pc[r] = "guard" /\ Who(r)' = call[r].user
        /\ pc'[r] = IF Op(r) = "revokeAll" THEN "write" ELSE "read"
     \/ /\ pc[r] = "read" /\ pc'[r] = "write" /\ seen'[r] = seen[r]
        /\ Op(r) = "revoke" => IsOf(call[r].target, Who(r))
        /\ Op(r) = "setup" => ~users[Who(r)].mfa
        /\ Op(r) = "enable" => Secret(Who(r)) \in proved'

LEMMA GotoFacts ==
  ASSUME TypeOK, NEW r \in Requests, NEW l, Goto(r, l)
  PROVE  pc'[r] = l /\ Keeps(r) /\ seen'[r] = seen[r] /\ Who(r)' = Who(r)
  BY DEF TypeOK, Goto, Keeps, Who

LEMMA GoAsFacts ==
  ASSUME TypeOK, NEW r \in Requests, NEW l, NEW u, GoAs(r, l, u)
  PROVE  pc'[r] = l /\ Keeps(r) /\ Who(r)' = u
  BY DEF TypeOK, GoAs, Keeps, Who

LEMMA FinishFacts ==
  ASSUME TypeOK, NEW r \in Requests, NEW c, NEW u, NEW s, Finish(r, c, u, s)
  PROVE  /\ pc'[r] = "done" /\ call'[r] = NoCall /\ seen'[r] = None
         /\ answer'[r].code = c /\ answer'[r].user = u /\ answer'[r].session = s
  BY DEF TypeOK, Finish, Answer

LEMMA RefuseEnds ==
  ASSUME TypeOK, NEW r \in Requests, pc[r] \notin {"new", "done"}, Refuse(r), users' = users
  PROVE  Ended(r)
  BY FinishFacts DEF Refuse, Ended

LEMMA ReplyEnds ==
  ASSUME TypeOK, NEW r \in Requests, pc[r] \notin {"new", "done"}, Reply(r),
         pc[r] = "account" => r \in accounts', users[r] = None => users'[r] = None
  PROVE  Ended(r)
  BY FinishFacts DEF Reply, Ended

\* The steps before a session is opened.
LEMMA MovesOn ==
  ASSUME IndInv, NEW r \in Requests,
         FindForRegister(r) \/ FindGoogle(r) \/ FindEmail(r) \/ LinkGoogle(r)
           \/ CreateUser(r) \/ CreateAccount(r)
  PROVE  MovedOn(r) \/ Ended(r)
<1> TypeOK /\ PlaceSound(r) /\ NamesSound(r) /\ MadeSound(r)
  BY DEF IndInv
<1> USE DEF rows
<1>1. CASE FindForRegister(r)
  BY <1>1, GotoFacts, RefuseEnds DEF FindForRegister, MovedOn
<1>2. CASE FindGoogle(r)
  <2>1. pc[r] = "find" /\ Op(r) = "google" /\ UNCHANGED <<users, sessions>>
    BY <1>2 DEF FindGoogle
  <2>2. CASE Goto(r, "email")
    BY <2>1, <2>2, GotoFacts DEF MovedOn
  <2>3. ASSUME NEW u \in RowsOf(call[r].email), users[u].google, GoAs(r, "session", u)
        PROVE  MovedOn(r)
    BY <2>1, <2>3, RowsOfFacts, GoAsFacts DEF MovedOn
  <2> QED
    BY <1>2, <2>2, <2>3 DEF FindGoogle
<1>3. CASE FindEmail(r)
  <2>1. pc[r] = "email" /\ UNCHANGED <<users, sessions>>
    BY <1>3 DEF FindEmail
  <2>2. CASE Goto(r, "create")
    BY <2>1, <2>2, GotoFacts DEF MovedOn
  <2>3. ASSUME NEW u \in RowsOf(call[r].email), GoAs(r, "link", u)
        PROVE  MovedOn(r)
    BY <2>1, <2>3, RowsOfFacts, GoAsFacts DEF MovedOn
  <2> QED
    BY <1>3, <2>2, <2>3 DEF FindEmail
<1>4. CASE LinkGoogle(r)
  BY <1>4, GotoFacts DEF LinkGoogle, MovedOn
<1>5. CASE CreateUser(r)
  <2>1. CASE Refuse(r) /\ UNCHANGED users
    BY <1>5, <2>1, RefuseEnds DEF CreateUser
  <2>2. CASE users' = [users EXCEPT ![r] = NewRow(r)] /\ GoAs(r, "account", r)
    <3>1. pc[r] = "create" /\ UNCHANGED sessions
      BY <1>5 DEF CreateUser
    <3>2. call[r].email \in Emails
      BY <3>1 DEF PlaceSound
    <3>3. NewRow(r) \in Row
      BY <3>2 DEF NewRow, Row
    <3>4. users'[r] = NewRow(r) /\ users'[r] # None
      BY <2>2, <3>3, IdFacts DEF TypeOK, Ids
    <3>5. pc'[r] = "account" /\ Keeps(r) /\ Who(r)' = r
      BY <2>2, GoAsFacts
    <3>6. /\ pc[r] = "create" /\ pc'[r] = "account" /\ Who(r)' = r
          /\ users'[r] = NewRow(r) /\ users'[r] # None
      BY <3>1, <3>4, <3>5
    <3>7. Keeps(r) /\ UNCHANGED sessions
      BY <3>1, <3>5
    <3> QED
      BY <3>6, <3>7 DEF MovedOn
  <2> QED
    BY <1>5, <2>1, <2>2 DEF CreateUser
<1>6. CASE CreateAccount(r)
  BY <1>6, GotoFacts, ReplyEnds DEF CreateAccount, MovedOn
<1> QED
  BY <1>1, <1>2, <1>3, <1>4, <1>5, <1>6

\* The steps of a login, and those behind the guard.
LEMMA MovesIn ==
  ASSUME IndInv, NEW r \in Requests,
         FindForLogin(r) \/ FindForMfa(r) \/ FindTrusted(r) \/ CheckCode(r) \/ Guard(r)
           \/ ReadForSetup(r) \/ ReadAndVerify(r) \/ StepUp(r) \/ ReadForRefresh(r)
           \/ Refresh(r) \/ FindSession(r)
  PROVE  MovedIn(r) \/ Ended(r)
<1> TypeOK /\ PlaceSound(r) /\ NamesSound(r) /\ MadeSound(r)
  BY DEF IndInv
<1> USE DEF rows
<1>1. ASSUME NEW u, IsUser(u), LoginWith(r, u), UNCHANGED <<users, sessions>>, pc[r] = "find",
             Op(r) \in {"login", "mfaLogin"}
      PROVE  MovedIn(r)
  <2>1. /\ pc'[r] = IF users[u].mfa THEN "trusted" ELSE "session"
        /\ Keeps(r) /\ Who(r)' = u
    BY <1>1, GoAsFacts DEF LoginWith
  <2> QED
    BY <1>1, <2>1 DEF MovedIn
<1>2. CASE FindForLogin(r)
  BY <1>1, <1>2, RowsOfFacts, RefuseEnds DEF FindForLogin
<1>3. CASE FindForMfa(r)
  BY <1>1, <1>3, RefuseEnds DEF FindForMfa, NamesSound
<1>4. CASE FindTrusted(r)
  <2>1. pc[r] = "trusted" /\ UNCHANGED <<users, sessions>> /\ IsUser(Who(r))
    BY <1>4 DEF FindTrusted, NamesSound
  <2>2. CASE Goto(r, "session")
    BY <2>1, <2>2, GotoFacts DEF MovedIn
  <2>3. CASE Finish(r, "requiresMfa", Who(r), None)
    <3>1. answer'[r].user = Who(r) /\ answer'[r].session = None
      BY <2>3, FinishFacts
    <3>2. IsUser(answer'[r].user) /\ answer'[r].user # None
      BY <2>1, <3>1, IdFacts DEF IsUser
    <3> QED
      BY <2>1, <2>3, <3>1, <3>2, FinishFacts DEF Ended
  <2>4. CASE Goto(r, "secret")
    BY <2>1, <2>4, GotoFacts DEF MovedIn
  <2> QED
    BY <1>4, <2>2, <2>3, <2>4 DEF FindTrusted
<1>5. CASE CheckCode(r)
  BY <1>5, GotoFacts, RefuseEnds DEF CheckCode, MovedIn
<1>6. CASE Guard(r)
  BY <1>6, GoAsFacts, RefuseEnds DEF Guard, MovedIn, NamesSound
<1>7. CASE ReadForSetup(r) \/ ReadForRefresh(r)
  BY <1>7, GotoFacts, RefuseEnds DEF ReadForSetup, ReadForRefresh, MovedIn
<1>8. CASE ReadAndVerify(r)
  BY <1>8, GotoFacts, RefuseEnds DEF ReadAndVerify, MovedIn
<1>9. CASE FindSession(r)
  BY <1>9, GotoFacts, RefuseEnds DEF FindSession, MovedIn, IsOf, PlaceSound
<1>10. ASSUME NEW s, Finish(r, "ok", Who(r), s), pc[r] = "write", UNCHANGED <<users, sessions>>,
              s # None => IsOf(s, Who(r))
       PROVE  Ended(r)
  <2>1. IsUser(Who(r))
    BY <1>10 DEF NamesSound
  <2>2. answer'[r].user = Who(r) /\ answer'[r].session = s
    BY <1>10, FinishFacts
  <2>3. answer'[r].session # None => IsOf(answer[r].session, answer[r].user)'
    BY <1>10, <2>2 DEF IsOf
  <2>4. IsUser(answer'[r].user)
    BY <2>1, <2>2
  <2> QED
    BY <1>10, <2>3, <2>4, FinishFacts DEF Ended
<1>11. CASE StepUp(r)
  <2>1. PICK s \in Latest(Who(r)) : Finish(r, "ok", Who(r), s)
    BY <1>11 DEF StepUp
  <2>2. \A i \in DOMAIN created : created[i] \in Ids /\ sessions[created[i]] # None
    BY DEF IndInv, SessionsSound, TypeOK
  <2>3. s # None => IsOf(s, Who(r))
    BY <2>2 DEF Latest, IsOf
  <2> QED
    BY <1>10, <1>11, <2>1, <2>3 DEF StepUp
<1>12. CASE Refresh(r)
  <2>1. CASE Refuse(r)
    BY <1>12, <2>1, RefuseEnds DEF Refresh
  <2>2. CASE Finish(r, "ok", Who(r), call[r].session)
    <3>1. call[r].session # None => IsOf(call[r].session, Who(r))
      BY <1>12 DEF Refresh, NamesSound
    <3> QED
      BY <1>10, <1>12, <2>2, <3>1 DEF Refresh
  <2> QED
    BY <1>12, <2>1, <2>2 DEF Refresh
<1> QED
  BY <1>2, <1>3, <1>4, <1>5, <1>6, <1>7, <1>8, <1>9, <1>11, <1>12

LEMMA Moves ==
  ASSUME IndInv, NEW r \in Requests, StepOf(r)
  PROVE  Started(r) \/ MovedOn(r) \/ MovedIn(r) \/ Ended(r)
<1> TypeOK /\ PlaceSound(r) /\ NamesSound(r) /\ MadeSound(r)
  BY DEF IndInv
<1> r \in Ids
  BY DEF Ids
<1>1. CASE Receive(r)
  <2>1. PICK c \in PublicCalls \cup GuardedCalls :
          /\ call' = [call EXCEPT ![r] = c]
          /\ pc' = [pc EXCEPT ![r] = IF c.op \in Public THEN "find" ELSE "guard"]
    BY <1>1 DEF Receive
  <2>2. call'[r] = c /\ pc'[r] = IF c.op \in Public THEN "find" ELSE "guard"
    BY <2>1 DEF TypeOK
  <2>3. Right(call'[r])
    BY <2>2, SentFacts
  <2> QED
    BY <1>1, <2>2, <2>3 DEF Receive, Started, rows
<1>2. CASE OpenSession(r)
  <2>1. pc[r] = "session" /\ IsUser(Who(r)) /\ users' = users
    BY <1>2 DEF OpenSession, NamesSound
  <2>2. answer'[r].user = Who(r) /\ answer'[r].session = r
    BY <1>2, FinishFacts DEF OpenSession
  <2>3. IsOf(answer[r].session, answer[r].user)'
    <3>1. PICK s \in Session : s.user = Who(r) /\ sessions' = [sessions EXCEPT ![r] = s]
      BY <1>2, OpenFacts
    <3>2. sessions'[r] = s
      BY <3>1 DEF TypeOK
    <3> QED
      BY <2>2, <3>1, <3>2, IdFacts DEF IsOf
  <2>4. IsUser(answer'[r].user)
    BY <2>1, <2>2
  <2> QED
    BY <1>2, <2>1, <2>3, <2>4, FinishFacts DEF OpenSession, Ended
<1>3. CASE WriteFactor(r) \/ Revoke(r) \/ Fail(r)
  <2>1. pc[r] \notin {"new", "done", "account"} \/ Fail(r)
    BY <1>3 DEF WriteFactor, Revoke
  <2>2. pc[r] \notin {"new", "done"}
    BY <1>3, <2>1 DEF Fail, InFlight
  <2>3. Fail(r) => Refuse(r) /\ users' = users
    BY DEF Fail, rows
  <2>4. users[r] = None => users'[r] = None
    BY <1>3, <2>3, UsersWritten DEF WriteFactor, Revoke, IsUser, TypeOK
  <2> QED
    BY <1>3, <2>1, <2>2, <2>3, <2>4, ReplyEnds, RefuseEnds DEF WriteFactor, Revoke
<1> QED
  BY <1>1, <1>2, <1>3, StepCases, MovesOn, MovesIn DEF Finds

-----------------------------------------------------------------------------
(* The parts of the invariant.                                             *)

LEMMA PlaceStep ==
  ASSUME IndInv, NEW r \in Requests, StepOf(r)
  PROVE  PlaceSound(r)'
<1> PlaceSound(r) /\ TypeOK
  BY DEF IndInv
<1>1. CASE Started(r)
  BY <1>1, CallFields DEF Started, PlaceSound, Right, Op, Public
<1>2. CASE MovedOn(r)
  BY <1>2 DEF MovedOn, Keeps, PlaceSound, Op
<1>3. CASE MovedIn(r)
  BY <1>3 DEF MovedIn, Keeps, PlaceSound, Op
<1>4. CASE Ended(r)
  BY <1>4 DEF Ended, PlaceSound, Op, NoCall
<1> QED
  BY <1>1, <1>2, <1>3, <1>4, Moves

LEMMA NamesStep ==
  ASSUME IndInv, NEW r \in Requests, StepOf(r), Next
  PROVE  NamesSound(r)'
<1> PlaceSound(r) /\ NamesSound(r) /\ MadeSound(r) /\ TypeOK
  BY DEF IndInv
<1>1. ASSUME IsUser(Who(r)') PROVE IsUser(Who(r))'
  BY <1>1, Persists
<1>2. CASE Started(r)
  BY <1>2, CallFields, Persists DEF Started, NamesSound, Right, Op, Public, Guarded
<1>3. CASE MovedOn(r)
  <2>1. pc'[r] \in {"link", "account", "session"} => IsUser(Who(r))'
    <3>1. pc[r] = "link" \/ pc[r] = "account" => IsUser(Who(r))'
      BY <1>3, Persists DEF MovedOn, NamesSound
    <3>2. pc'[r] = "account" => IsUser(Who(r))'
      BY <1>3 DEF MovedOn, IsUser, Ids
    <3> QED
      BY <1>1, <1>3, <3>1, <3>2 DEF MovedOn
  <2>2. pc'[r] \notin {"trusted", "secret", "guard", "read", "write"} /\ Keeps(r)
    BY <1>3 DEF MovedOn
  <2> QED
    BY <2>1, <2>2, Persists DEF Keeps, NamesSound, Op
<1>4. CASE MovedIn(r)
  <2>1. IsUser(Who(r))'
    <3>1. Who(r)' = Who(r) /\ IsUser(Who(r)) => IsUser(Who(r))'
      BY Persists
    <3>2. pc[r] = "trusted" \/ pc[r] = "secret" \/ pc[r] = "read" => IsUser(Who(r))'
      BY <1>4, <3>1 DEF MovedIn, NamesSound, Who
    <3>3. pc[r] = "guard" => IsUser(Who(r))'
      BY <1>4, Persists DEF MovedIn, NamesSound
    <3> QED
      BY <1>1, <1>4, <3>2, <3>3 DEF MovedIn
  <2>2. pc'[r] \in {"read", "write"} =>
          pc[r] \in {"guard", "read"} /\ Who(r)' = call[r].user
    BY <1>4 DEF MovedIn, NamesSound, Who
  <2>3. pc'[r] = "write" /\ Op(r) = "revoke" => IsOf(call[r].target, Who(r))'
    <3>1. pc'[r] = "write" /\ Op(r) = "revoke" =>
            /\ IsOf(call[r].target, Who(r))
            /\ Who(r)' = Who(r) /\ call'[r] = call[r]
      BY <1>4 DEF MovedIn, Keeps, Who
    <3> QED
      BY <3>1, Persists
  <2>4. pc'[r] # "guard" /\ Keeps(r) /\ Op(r)' = Op(r)
    BY <1>4 DEF MovedIn, Keeps, Op
  <2>5. pc'[r] \in {"guard", "read", "write"} \/ Op(r) = "mfaLogin" => IsUser(call[r].user)'
    BY <2>2, <2>4, Persists DEF Keeps, NamesSound
  <2>6. /\ call[r].session # None => IsOf(call[r].session, call[r].user)'
        /\ answer[r].user # None => IsUser(answer[r].user)'
        /\ answer[r].session # None => IsOf(answer[r].session, answer[r].user)'
    BY <2>4, Persists DEF Keeps, NamesSound
  <2> QED
    BY <2>1, <2>2, <2>3, <2>4, <2>5, <2>6 DEF Keeps, NamesSound
<1>5. CASE Ended(r)
  BY <1>5, Persists DEF Ended, NamesSound, Op, NoCall
<1> QED
  BY <1>2, <1>3, <1>4, <1>5, Moves

LEMMA AccountsGrow ==
  ASSUME NEW r \in Requests, StepOf(r)
  PROVE  accounts \subseteq accounts'
  BY StepCases, FindsKeep DEF Receive, ReadAndVerify, LinkGoogle, CreateUser, CreateAccount,
     OpenSession, WriteFactor, Revoke, Fail, rows

LEMMA MadeStep ==
  ASSUME IndInv, NEW r \in Requests, StepOf(r)
  PROVE  MadeSound(r)'
<1> MadeSound(r) /\ TypeOK
  BY DEF IndInv
<1>1. CASE Started(r)
  BY <1>1 DEF Started, MadeSound
<1>2. CASE MovedOn(r)
  <2>1. pc[r] # "create" /\ users[r] = None => users'[r] = None
    <3>1. DOMAIN users = Ids /\ r \in Ids
      BY DEF TypeOK, Ids
    <3> QED
      BY <1>2, <3>1, UsersWritten DEF MovedOn, IsUser
  <2>2. pc'[r] = "account" => Who(r)' = r
    BY <1>2 DEF MovedOn
  <2>3. pc'[r] \in {"session", "account"} \/ (users[r] = None /\ pc[r] # "create")
    BY <1>2 DEF MovedOn, MadeSound
  <2>4. pc[r] = "account" => pc'[r] = "session" /\ r \in accounts'
    BY <1>2 DEF MovedOn
  <2>5. /\ pc[r] \notin {"session", "done"} /\ pc'[r] \notin {"new", "done"} /\ Keeps(r)
        /\ sessions' = sessions
        /\ (pc[r] = "create") <=> (pc'[r] = "account")
    BY <1>2 DEF MovedOn
  <2> QED
    BY <2>1, <2>2, <2>3, <2>4, <2>5 DEF Keeps, MadeSound
<1>3. CASE MovedIn(r)
  BY <1>3, AccountsGrow DEF MovedIn, Keeps, MadeSound
<1>4. CASE Ended(r)
  BY <1>4, AccountsGrow DEF Ended, MadeSound
<1> QED
  BY <1>1, <1>2, <1>3, <1>4, Moves

\* The same of the requests that take no step.
LEMMA OtherParts ==
  ASSUME IndInv, NEW r \in Requests, StepOf(r), Next, NEW q \in Requests \ {r}
  PROVE  PlaceSound(q)' /\ NamesSound(q)' /\ MadeSound(q)'
<1> PlaceSound(q) /\ NamesSound(q) /\ MadeSound(q)
  BY DEF IndInv
<1> USE OthersKept DEF Same
<1>1. PlaceSound(q)'
  BY DEF PlaceSound
<1>2. NamesSound(q)'
  BY Persists DEF NamesSound
<1>3. MadeSound(q)'
  BY DEF MadeSound
<1> QED
  BY <1>1, <1>2, <1>3

\* A row keeps its e-mail, and its link to Google.
LEMMA RowsKept ==
  ASSUME IndInv, NEW r \in Requests, StepOf(r), NEW u, IsUser(u)
  PROVE  /\ users'[u].email = users[u].email
         /\ users[u].google => users'[u].google
<1> TypeOK
  BY DEF IndInv
<1> u \in Ids /\ users[u] \in Row /\ DOMAIN users = Ids
  BY RowFacts DEF IsUser, TypeOK
<1>1. ASSUME NEW v, users' = [users EXCEPT ![v].google = TRUE]
      PROVE  users'[u].email = users[u].email /\ (users[u].google => users'[u].google)
  BY <1>1 DEF Row
<1>2. ASSUME NEW v, users[v] = None, users' = [users EXCEPT ![v] = NewRow(v)]
      PROVE  users'[u] = users[u]
  BY <1>2 DEF IsUser
<1>3. ASSUME Op(r) \in {"setup", "enable", "disable"},
             users' = [users EXCEPT ![Who(r)] = Updated(r, users[Who(r)])]
      PROVE  users'[u].email = users[u].email /\ (users[u].google => users'[u].google)
  <2>1. u = Who(r) => users'[u] = Updated(r, users[u])
    BY <1>3
  <2>2. u # Who(r) => users'[u] = users[u]
    BY <1>3
  <2> QED
    BY <1>3, <2>1, <2>2 DEF Updated, Row
<1> QED
  BY <1>1, <1>2, <1>3, UsersWritten

LEMMA LinkStep ==
  ASSUME IndInv, NEW r \in Requests, StepOf(r), NEW q \in Requests
  PROVE  LinkSound(q)'
<1> TypeOK /\ PlaceSound(q) /\ NamesSound(q) /\ LinkSound(q)
  BY DEF IndInv
<1> SUFFICES ASSUME (pc[q] \in {"link", "account", "session"} /\ Op(q) = "google")'
             PROVE  /\ users'[Who(q)'].email = call'[q].email
                    /\ pc'[q] # "link" => users'[Who(q)'].google
  BY DEF LinkSound
<1>1. CASE q # r
  <2>1. Same(q) /\ Op(q)' = Op(q) /\ Who(q)' = Who(q)
    BY <1>1, OthersKept
  <2>2. pc[q] \in {"link", "account", "session"} /\ Op(q) = "google"
    BY <2>1 DEF Same
  <2>3. IsUser(Who(q))
    BY <2>2 DEF NamesSound
  <2> QED
    BY <2>1, <2>2, <2>3, RowsKept DEF Same, LinkSound
<1>2. CASE q = r
  <2>1. ~Started(r) /\ ~Ended(r)
    BY <1>2 DEF Started, Ended, NoCall, Op
  <2>2. ~MovedIn(r)
    BY <1>2 DEF MovedIn, Keeps, Op, PlaceSound, Guarded
  <2>3. MovedOn(r) /\ Op(r) = "google" /\ call'[r] = call[r]
    BY <1>2, <2>1, <2>2, Moves DEF MovedOn, Keeps, Op
  <2>4. CASE pc[r] = "find" \/ pc[r] = "email"
    BY <1>2, <2>3, <2>4 DEF MovedOn
  <2>5. CASE pc[r] = "link"
    <3>1. IsUser(Who(r)) /\ users[Who(r)].email = call[r].email
      BY <1>2, <2>3, <2>5 DEF NamesSound, LinkSound
    <3>2. Who(r)' = Who(r) /\ users' = [users EXCEPT ![Who(r)].google = TRUE]
      BY <2>3, <2>5 DEF MovedOn
    <3>3. users'[Who(r)].email = users[Who(r)].email
      BY <3>1, RowsKept
    <3>4. users'[Who(r)].google
      BY <3>1, <3>2, RowFacts DEF IsUser, Row, TypeOK
    <3> QED
      BY <1>2, <2>3, <3>1, <3>2, <3>3, <3>4
  <2>6. CASE pc[r] = "create"
    <3>1. Who(r)' = r /\ users'[r] = NewRow(r)
      BY <2>3, <2>6 DEF MovedOn
    <3>2. NewRow(r).email = call[r].email
      BY DEF NewRow
    <3>3. NewRow(r).google = (Op(r) = "google")
      BY DEF NewRow
    <3> QED
      BY <1>2, <2>3, <3>1, <3>2, <3>3
  <2>7. CASE pc[r] = "account"
    <3>1. Who(r)' = Who(r) /\ users' = users
      BY <2>3, <2>7 DEF MovedOn
    <3> QED
      BY <1>2, <2>3, <2>7, <3>1 DEF LinkSound
  <2> QED
    BY <2>3, <2>4, <2>5, <2>6, <2>7 DEF MovedOn
<1> QED
  BY <1>1, <1>2

LEMMA OneRowStep ==
  ASSUME IndInv, NEW r \in Requests, StepOf(r), \A q \in Requests : LinkSound(q)'
  PROVE  OneRowPerEmail'
<1> TypeOK /\ OneRowPerEmail
  BY DEF IndInv
<1> r \in Ids /\ DOMAIN users = Ids
  BY DEF Ids, TypeOK
<1>1. ASSUME NEW u \in Ids, NEW v \in Ids, users'[u] # None, users'[v] # None,
             users'[u].email = users'[v].email
      PROVE  u = v
  <2>1. CASE users[u] # None /\ users[v] # None
    BY <1>1, <2>1, RowsKept DEF IsUser, OneRowPerEmail
  <2>2. ASSUME NEW w \in Ids, users[w] = None, users'[w] # None
        PROVE  /\ w = r /\ users'[w].email = call[r].email
               /\ \A x \in Ids \ {w} : users'[x] = users[x] /\
                    (users[x] # None => users[x].email # call[r].email)
    <3>1. pc[r] = "create" /\ users' = [users EXCEPT ![r] = NewRow(r)]
      BY <2>2, UsersWritten DEF IsUser
    <3>2. w = r /\ users'[r] = NewRow(r)
      BY <2>2, <3>1
    <3>3. users' # users
      BY <2>2
    <3>4. RowsOf(call[r].email) = {}
      BY <3>1, <3>3, CreatesAlone
    <3> QED
      BY <3>1, <3>2, <3>4 DEF NewRow, RowsOf
  <2> QED
    BY <1>1, <2>1, <2>2
<1>2. ASSUME NEW q \in Requests, (pc[q] = "session" /\ Op(q) = "google")'
      PROVE  (users[Who(q)].google /\ users[Who(q)].email = call[q].email)'
  BY <1>2 DEF LinkSound
<1> QED
  BY <1>1, <1>2 DEF OneRowPerEmail

\* What a step makes of the second factor of a user: it is left, or created without
\* one, or written by WriteFactor.
LEMMA FactorWritten ==
  ASSUME IndInv, NEW r \in Requests, StepOf(r), NEW u \in Ids, users'[u] # None
  PROVE  \/ users[u] # None /\ users'[u].mfa = users[u].mfa /\ Secret(u)' = Secret(u)
         \/ users[u] = None /\ ~users'[u].mfa
         \/ /\ WriteFactor(r) /\ u = Who(r) /\ users[u] # None
            /\ users'[u] = Updated(r, users[u])
<1> TypeOK
  BY DEF IndInv
<1> r \in Ids /\ DOMAIN users = Ids
  BY DEF Ids, TypeOK
<1>1. ASSUME IsUser(Who(r)), users' = [users EXCEPT ![Who(r)].google = TRUE]
      PROVE  users[u] # None /\ users'[u].mfa = users[u].mfa /\ Secret(u)' = Secret(u)
  <2>1. users[u] # None
    BY <1>1 DEF IsUser
  <2>2. users[u] \in Row
    BY <2>1, RowFacts
  <2> QED
    BY <1>1, <2>1, <2>2 DEF Row, Secret
<1>2. ASSUME users[r] = None, users' = [users EXCEPT ![r] = NewRow(r)]
      PROVE  \/ users[u] # None /\ users'[u].mfa = users[u].mfa /\ Secret(u)' = Secret(u)
             \/ users[u] = None /\ ~users'[u].mfa
  BY <1>2 DEF NewRow, Secret
<1>3. ASSUME WriteFactor(r), IsUser(Who(r)),
             users' = [users EXCEPT ![Who(r)] = Updated(r, users[Who(r)])]
      PROVE  \/ users[u] # None /\ users'[u].mfa = users[u].mfa /\ Secret(u)' = Secret(u)
             \/ /\ WriteFactor(r) /\ u = Who(r) /\ users[u] # None
                /\ users'[u] = Updated(r, users[u])
  BY <1>3 DEF IsUser, Secret
<1> QED
  BY <1>1, <1>2, <1>3, UsersWritten DEF Secret

LEMMA FactorStep ==
  ASSUME IndInv, NEW r \in Requests, StepOf(r), NEW u \in Ids \ raced'
  PROVE  FactorSound(u)'
<1> TypeOK /\ PlaceSound(r) /\ NamesSound(r)
  BY DEF IndInv
<1>1. raced \subseteq raced' /\ proved \subseteq proved'
  BY StepCases, FindsKeep DEF Receive, ReadAndVerify, LinkGoogle, CreateUser, CreateAccount,
     OpenSession, WriteFactor, Revoke, Fail, ghosts
<1>2. FactorSound(u)
  BY <1>1 DEF IndInv
<1>3. CASE users'[u] # None /\ users[u] # None /\ users'[u].mfa = users[u].mfa
           /\ Secret(u)' = Secret(u)
  <2>1. ASSUME NEW q \in Open(u)'
        PROVE  /\ Op(q)' = "setup" => ~users'[u].mfa
               /\ Op(q)' = "enable" => Secret(u)' \in proved'
    <3>1. CASE q # r
      <4>1. q \in Open(u)
        BY <2>1, <3>1, OthersKept DEF Open, Same
      <4> QED
        BY <1>1, <1>2, <1>3, <3>1, <4>1, OthersKept DEF FactorSound, Open
    <3>2. CASE q = r
      <4>1. pc'[r] = "write" /\ Op(r)' \in {"setup", "enable", "disable"} /\ Who(r)' = u
        BY <2>1, <3>2 DEF Open
      <4>2. ~Started(r) /\ ~Ended(r) /\ ~MovedOn(r)
        BY <4>1 DEF Started, Ended, MovedOn
      <4>3. MovedIn(r)
        BY <4>2, Moves
      <4>4. /\ Op(r)' = Op(r) /\ pc[r] = "read" /\ Who(r) = u
            /\ Op(r) = "setup" => ~users[u].mfa
            /\ Op(r) = "enable" => Secret(u) \in proved'
        BY <4>1, <4>3 DEF MovedIn, Keeps, Op, Who
      <4> QED
        BY <1>3, <3>2, <4>4
    <3> QED
      BY <3>1, <3>2
  <2>2. users'[u].mfa => Secret(u)' \in proved'
    BY <1>1, <1>2, <1>3 DEF FactorSound
  <2> QED
    BY <2>1, <2>2 DEF FactorSound
<1>4. CASE users'[u] # None /\ users[u] = None /\ ~users'[u].mfa
  <2>1. Open(u)' = {}
    <3>1. ASSUME NEW q \in Open(u)' PROVE FALSE
      <4>1. CASE q # r
        BY <1>4, <3>1, <4>1, OthersKept DEF Open, Same, IndInv, NamesSound, IsUser
      <4>2. CASE q = r
        <5>1. ~Started(r) /\ ~Ended(r) /\ ~MovedOn(r)
          BY <3>1, <4>2 DEF Open, Started, Ended, MovedOn
        <5>2. MovedIn(r)
          BY <5>1, Moves
        <5> QED
          BY <1>4, <5>2 DEF MovedIn
      <4> QED
        BY <4>1, <4>2
    <3> QED
      BY <3>1
  <2> QED
    BY <1>4, <2>1 DEF FactorSound
<1>5. CASE /\ WriteFactor(r) /\ u = Who(r) /\ users[u] # None
           /\ users'[u] = Updated(r, users[u])
  <2>1. Open(u) = {r}
    BY <1>5 DEF WriteFactor
  <2>2. Open(u)' = {}
    <3>1. pc'[r] = "done"
      BY <1>5, FinishFacts DEF WriteFactor, Reply
    <3>2. ASSUME NEW q \in Open(u)' PROVE q \in Open(u) /\ q # r
      BY <3>1, <3>2, OthersKept DEF Open, Same
    <3> QED
      BY <2>1, <3>2
  <2>3. Op(r) \in {"setup", "enable", "disable"}
    BY <1>5 DEF WriteFactor
  <2>4. users'[u].mfa => Secret(u)' \in proved'
    <3>1. users[u] \in Row
      BY <1>5, RowFacts
    <3>2. CASE Op(r) = "setup"
      BY <1>2, <1>5, <2>1, <3>1, <3>2 DEF FactorSound, Updated, Row
    <3>3. CASE Op(r) = "enable"
      BY <1>1, <1>2, <1>5, <2>1, <3>1, <3>3 DEF FactorSound, Updated, Row, Secret
    <3>4. CASE Op(r) = "disable"
      BY <1>5, <3>1, <3>4 DEF Updated, Row
    <3> QED
      BY <2>3, <3>2, <3>3, <3>4
  <2> QED
    BY <2>2, <2>4 DEF FactorSound
<1>6. CASE users'[u] = None
  <2>1. Open(u)' = {}
    <3>1. ASSUME NEW q \in Open(u)' PROVE FALSE
      <4>1. IsUser(Who(q))'
        BY <3>1, NamesStep, OtherParts, Steps DEF Open, NamesSound
      <4> QED
        BY <1>6, <3>1, <4>1 DEF Open, IsUser
    <3> QED
      BY <3>1
  <2> QED
    BY <1>6, <2>1 DEF FactorSound
<1> QED
  BY <1>3, <1>4, <1>5, <1>6, FactorWritten

LEMMA SessionsSoundStep ==
  ASSUME IndInv, Next
  PROVE  SessionsSound'
<1> TypeOK /\ SessionsSound
  BY DEF IndInv
<1>1. \A s \in Existing : users'[s] # None /\ IsOf(s, s)'
  BY Persists DEF SessionsSound, IsUser, IsOf
<1>2. ASSUME NEW s \in Ids, sessions'[s] # None
      PROVE  IsUser(sessions[s].user)'
  <2>1. CASE sessions[s] # None
    <3>1. IsUser(sessions[s].user) /\ IsOf(s, sessions[s].user)
      BY <2>1 DEF SessionsSound, IsOf
    <3>2. sessions'[s].user = sessions[s].user
      BY <3>1, Persists DEF IsOf
    <3> QED
      BY <3>1, <3>2, Persists DEF IsUser
  <2>2. CASE sessions[s] = None
    <3>1. PICK r \in Requests : StepOf(r)
      BY <1>2, <2>2, Steps DEF Outside, Crash, Elapse, TypeOK, rows
    <3>2. ~Revoke(r)
      BY <1>2, <2>2, RevokeFacts DEF IsOf
    <3>3. CASE OpenSession(r)
      <4>1. PICK t \in Session : t.user = Who(r) /\ sessions' = [sessions EXCEPT ![r] = t]
        BY <3>3, OpenFacts
      <4>2. sessions'[s] = t
        BY <1>2, <2>2, <4>1 DEF TypeOK
      <4>3. IsUser(Who(r)) /\ users' = users
        BY <3>3, OpenFacts DEF IndInv, NamesSound
      <4> QED
        BY <4>1, <4>2, <4>3 DEF IsUser
    <3> QED
      BY <1>2, <2>2, <3>1, <3>2, <3>3, SessionsWritten
  <2> QED
    BY <2>1, <2>2
<1>3. ASSUME NEW i \in DOMAIN created'
      PROVE  sessions'[created'[i]] # None
  <2>1. \A j \in DOMAIN created : created[j] \in Ids /\ sessions'[created[j]] # None
    BY Persists DEF SessionsSound, IsOf, TypeOK
  <2>2. CASE UNCHANGED created
    BY <2>1, <2>2
  <2>3. ASSUME NEW r \in Requests, OpenSession(r)
        PROVE  sessions'[created'[i]] # None
    <3>1. created' = Append(created, r) /\ sessions'[r] # None
      BY <2>3, OpenFacts, IdFacts DEF TypeOK, Ids
    <3>2. CASE i \in DOMAIN created
      BY <2>1, <3>1, <3>2 DEF TypeOK
    <3>3. CASE i \notin DOMAIN created
      BY <3>1, <3>3 DEF TypeOK
    <3> QED
      BY <3>2, <3>3
  <2>4. (\E r \in Requests : OpenSession(r)) \/ UNCHANGED created
    BY Steps, SessionsWritten, RevokeFacts DEF Outside, Crash, Elapse, rows
  <2> QED
    BY <2>2, <2>3, <2>4
<1> QED
  BY <1>1, <1>2, <1>3 DEF SessionsSound

\* What a crash leaves of a request: nothing but its answer.
Lost(r) ==
  /\ call'[r] = NoCall /\ seen'[r] = None
  /\ \/ pc[r] \in {"new", "done"} /\ pc'[r] = pc[r] /\ answer'[r] = answer[r]
     \/ pc[r] # "done" /\ pc'[r] = "done" /\ answer'[r] = Answer("lost", None, None)

LEMMA OutsideFacts ==
  ASSUME IndInv, Outside, NEW r \in Requests
  PROVE  /\ UNCHANGED <<users, accounts, proved, raced>>
         /\ Same(r) \/ Lost(r)
         /\ sessions[r] = None => sessions'[r] = None
<1> TypeOK
  BY DEF IndInv
<1>1. CASE Crash
  BY <1>1 DEF Crash, InFlight, Lost, rows, ghosts
<1>2. ASSUME NEW s \in Ids, Elapse(s)
      PROVE  /\ UNCHANGED <<users, accounts, proved, raced>>
             /\ Same(r)
             /\ sessions[r] = None => sessions'[r] = None
  BY <1>2 DEF Elapse, Same, ghosts, TypeOK, Ids
<1> QED
  BY <1>1, <1>2 DEF Outside

LEMMA OutsideStep ==
  ASSUME IndInv, Outside
  PROVE  /\ \A r \in Requests : PlaceSound(r)' /\ NamesSound(r)' /\ MadeSound(r)'
                                  /\ LinkSound(r)'
         /\ OneRowPerEmail'
         /\ \A u \in Ids \ raced' : FactorSound(u)'
<1> TypeOK /\ OneRowPerEmail /\ Next
  BY Steps DEF IndInv
<1>1. ASSUME NEW r \in Requests
      PROVE  PlaceSound(r)' /\ NamesSound(r)' /\ MadeSound(r)' /\ LinkSound(r)'
  <2> PlaceSound(r) /\ NamesSound(r) /\ MadeSound(r) /\ LinkSound(r)
    BY DEF IndInv
  <2>1. CASE Same(r)
    <3> USE <2>1 DEF Same
    <3>1. PlaceSound(r)'
      BY DEF PlaceSound, Op
    <3>2. NamesSound(r)'
      BY Persists DEF NamesSound, Op, Who
    <3>3. MadeSound(r)'
      BY OutsideFacts DEF MadeSound, Who
    <3>4. LinkSound(r)'
      BY OutsideFacts DEF LinkSound, Op, Who
    <3> QED
      BY <3>1, <3>2, <3>3, <3>4
  <2>2. CASE Lost(r)
    <3> USE <2>2 DEF Lost, NoCall, Answer
    <3>1. PlaceSound(r)'
      BY DEF PlaceSound, Op
    <3>2. NamesSound(r)'
      BY Persists DEF NamesSound, Op, Who
    <3>3. MadeSound(r)'
      BY OutsideFacts DEF MadeSound, Who
    <3>4. LinkSound(r)'
      BY OutsideFacts DEF LinkSound, Op, Who
    <3> QED
      BY <3>1, <3>2, <3>3, <3>4
  <2> QED
    BY <2>1, <2>2, OutsideFacts
<1>2. OneRowPerEmail'
  <2>1. users' = users
    BY DEF Outside, Crash, Elapse, rows
  <2> QED
    BY <1>1, <2>1 DEF OneRowPerEmail, LinkSound
<1>3. ASSUME NEW u \in Ids \ raced'
      PROVE  FactorSound(u)'
  <2>1. UNCHANGED <<users, proved, raced>>
    BY DEF Outside, Crash, Elapse, rows, ghosts
  <2>2. ASSUME NEW q \in Open(u)'
        PROVE  q \in Open(u) /\ Op(q)' = Op(q)
    BY <2>2, OutsideFacts DEF Open, Same, Lost, Op, Who
  <2> QED
    BY <2>1, <2>2 DEF IndInv, FactorSound, Secret
<1> QED
  BY <1>1, <1>2, <1>3

LEMMA LegacyStep == IndInv /\ [Next]_vars => IndInv'
<1>1. ASSUME IndInv, NEW r \in Requests, StepOf(r)
      PROVE  IndInv'
  <2>1. Next
    BY <1>1, Steps
  <2>2. \A q \in Requests : PlaceSound(q)' /\ NamesSound(q)' /\ MadeSound(q)'
    BY <1>1, <2>1, PlaceStep, NamesStep, MadeStep, OtherParts
  <2>3. \A u \in Ids \ raced' : FactorSound(u)'
    BY <1>1, FactorStep
  <2>4. (\A q \in Requests : LinkSound(q)') /\ OneRowPerEmail'
    BY <1>1, LinkStep, OneRowStep
  <2> QED
    BY <1>1, <2>1, <2>2, <2>3, <2>4, LegacyType, SessionsSoundStep DEF IndInv
<1>2. ASSUME IndInv, Outside
      PROVE  IndInv'
  <2>1. Next
    BY <1>2, Steps
  <2> QED
    BY <1>2, <2>1, OutsideStep, LegacyType, SessionsSoundStep DEF IndInv
<1>3. ASSUME IndInv, UNCHANGED vars
      PROVE  IndInv'
  <2> USE <1>3 DEF vars
  <2>1. TypeOK' /\ OneRowPerEmail'
    BY DEF IndInv, TypeOK, OneRowPerEmail, Op, Who
  <2>2. \A r \in Requests : PlaceSound(r)' /\ NamesSound(r)' /\ MadeSound(r)' /\ LinkSound(r)'
    BY DEF IndInv, PlaceSound, NamesSound, MadeSound, LinkSound, IsUser, IsOf, Op, Who
  <2>3. \A u \in Ids \ raced' : FactorSound(u)'
    BY DEF IndInv, FactorSound, Open, Op, Who, Secret
  <2>4. SessionsSound'
    BY DEF IndInv, SessionsSound, IsUser, IsOf
  <2> QED
    BY <2>1, <2>2, <2>3, <2>4 DEF IndInv
<1> QED
  BY <1>1, <1>2, <1>3, Steps

-----------------------------------------------------------------------------
(* The properties.                                                         *)

\* The inductive invariant holds in every reachable state.
THEOREM LegacyInvariance == Spec => []IndInv
  BY LegacyInit, LegacyStep, PTL DEF Spec

\* No registration or Google login is answered with success whose row was left without
\* its account (auth.service.ts, register and findOrCreateGoogleUser).
THEOREM CreatedHasAccountHolds == Spec => []CreatedHasAccount
<1>1. IndInv => CreatedHasAccount
  <2> SUFFICES ASSUME IndInv, NEW r \in Requests, users[r] # None, r \notin accounts
               PROVE  answer[r].code # "ok"
    BY DEF CreatedHasAccount
  <2>1. MadeSound(r)
    BY DEF IndInv
  <2> QED
    BY <2>1 DEF MadeSound
<1> QED
  BY <1>1, LegacyInvariance, PTL

\* An e-mail is one row's however registrations and Google logins race, and a Google
\* login goes on with that row, linked (auth.service.ts, register and
\* findOrCreateGoogleUser).
THEOREM OneRowPerEmailHolds == Spec => []OneRowPerEmail
<1>1. IndInv => OneRowPerEmail
  BY DEF IndInv
<1> QED
  BY <1>1, LegacyInvariance, PTL

\* An enabled second factor has a secret whose code was shown, unless two changes of it
\* overlapped (auth.service.ts, setupMfa, enableMfa and disableMfa).
THEOREM EnabledIsVerifiedHolds == Spec => []EnabledIsVerified
<1>1. IndInv => EnabledIsVerified
  BY DEF IndInv, EnabledIsVerified, FactorSound
<1> QED
  BY <1>1, LegacyInvariance, PTL

\* Every token that is signed is for a session of its own user (auth.service.ts,
\* createLoginResponse, verifyStepUp and refreshToken).
THEOREM TokensHold == Spec => []TokensKeepToTheirUser
<1>1. IndInv => TokensKeepToTheirUser
  BY TokenFacts DEF TokensKeepToTheirUser, IsOf
<1> QED
  BY <1>1, LegacyInvariance, PTL

LEMMA ClosedStep ==
  ASSUME IndInv, [Next]_vars, NEW s \in Ids, sessions[s] # None, sessions[s].active,
         ~sessions'[s].active
  PROVE  \E r \in Requests :
           /\ pc[r] = "write" /\ pc'[r] = "done" /\ Who(r) = sessions[s].user
           /\ Op(r) = "revokeAll" => s # call[r].session
<1> TypeOK
  BY DEF IndInv
<1> sessions[s] \in Session /\ DOMAIN sessions = Ids
  BY SessionFacts DEF TypeOK
<1>1. sessions' # sessions
  OBVIOUS
<1>2. ASSUME NEW t \in Ids, Elapse(t)
      PROVE  sessions'[s].active = sessions[s].active
  BY <1>2 DEF Elapse, Session
<1>3. PICK r \in Requests : StepOf(r)
  BY <1>1, <1>2, Steps DEF vars, Outside, Crash, rows
<1>4. ~OpenSession(r)
  BY OpenFacts
<1>5. Revoke(r)
  BY <1>1, <1>3, <1>4, SessionsWritten
<1>6. s \in Closed(r)
  BY <1>5, RevokeFacts
<1>7. pc'[r] = "done"
  BY <1>5, RevokeFacts, FinishFacts DEF Reply
<1> QED
  BY <1>5, <1>6, <1>7, RevokeFacts DEF IsOf

\* A session is closed by its own user only, and closing all leaves the caller's open
\* (auth.service.ts, revokeSession and revokeAllSessions).
THEOREM ClosedByOwnerHolds == Spec => ClosedByOwner
<1>1. IndInv /\ [Next]_vars =>
        [\A s \in Ids :
           sessions[s] # None /\ sessions[s].active /\ ~sessions'[s].active =>
             \E r \in Requests :
               /\ pc[r] = "write" /\ pc'[r] = "done" /\ Who(r) = sessions[s].user
               /\ Op(r) = "revokeAll" => s # call[r].session]_vars
  BY ClosedStep
<1> QED
  BY <1>1, LegacyInvariance, PTL DEF Spec, ClosedByOwner
=============================================================================
