------------------------------ MODULE LegacyAuth ------------------------------
(***************************************************************************)
(* Users, second factor and sessions of the earlier backend,               *)
(* _legacy_demo/backend/src/auth.  No handler uses a transaction: each     *)
(* query is a step, and what was read is used however old it is.           *)
(*                                                                         *)
(*   register  new -> find -> create -> account -> done                    *)
(*   google    new -> find -> email -> link | create -> account -> session *)
(*   login     new -> find -> trusted -> secret -> session -> done         *)
(*   others    new -> guard -> read -> write -> done                       *)
(*                                                                         *)
(* A row, a session and a secret are named by the request that makes them, *)
(* those of the start by their user.  A Google identity has one e-mail and *)
(* an e-mail one Google identity; a one-time code is known by its secret.  *)
(* A request's answer carries what the tokens it signs hold.  Where it is  *)
(* says what has been checked: a Google login is never asked for a code,   *)
(* and a temporary token, which names no session, passes the guard.        *)
(***************************************************************************)
EXTENDS Naturals, Sequences, FiniteSets

CONSTANTS
  Existing,        \* the users of the start, named by their e-mails
  Emails, Devices, Requests,
  Unknown,         \* the device stored for a login that names none
  GoogleOAuth,     \* ... and for a Google login; a client may send either text
  None

Ids == Existing \cup Requests

\* Rows of users and of sessions.
Row == [email : Emails, password : BOOLEAN, google : BOOLEAN, mfa : BOOLEAN,
        secret : {None} \cup Ids]
Session == [user : Ids, device : Devices, active : BOOLEAN, expired : BOOLEAN,
            trusted : BOOLEAN]

ASSUME LegacyAuthAssumption ==
  /\ Existing \subseteq Emails
  /\ Requests \cap Existing = {}
  /\ IsFiniteSet(Existing)
  /\ {Unknown, GoogleOAuth} \subseteq Devices
  /\ None \notin Emails \cup Devices \cup Requests
  /\ None \notin Row /\ None \notin Session

Public  == {"register", "login", "mfaLogin", "google"}
Guarded == {"setup", "enable", "disable", "stepUp", "refresh", "revoke", "revokeAll"}

VARIABLES
  users,      \* id -> the User row, or None
  accounts,   \* the ids whose default account exists
  sessions,   \* id -> the Session row, or None
  created,    \* the sessions in the order of createdAt
  call,       \* request -> what it asks for
  seen,       \* request -> the user it goes on with, or None
  pc,
  answer,     \* request -> [code, user, session]
  proved,     \* the secrets enable has verified a code of
  raced       \* the users two of whose second-factor changes overlapped

vars == <<users, accounts, sessions, created, call, seen, pc, answer, proved, raced>>
rows == <<users, accounts, sessions, created>>
ghosts == <<proved, raced>>

NoCall == [op |-> "register", email |-> None, right |-> FALSE, device |-> None, code |-> None,
           user |-> None, session |-> None, target |-> None]
Answer(code, u, s) == [code |-> code, user |-> u, session |-> s]

Op(r) == call[r].op
Who(r) == seen[r]
RowsOf(e) == {u \in Ids : users[u] # None /\ users[u].email = e}
Secret(u) == users[u].secret

\* Every step ends in one of these: go on, go on with a user, or answer, and forget
\* what was asked and read.
Goto(r, l) == pc' = [pc EXCEPT ![r] = l] /\ UNCHANGED <<answer, call, seen>>
GoAs(r, l, u) ==
  /\ pc' = [pc EXCEPT ![r] = l]
  /\ seen' = [seen EXCEPT ![r] = u]
  /\ UNCHANGED <<answer, call>>
Finish(r, code, u, s) ==
  /\ pc' = [pc EXCEPT ![r] = "done"]
  /\ answer' = [answer EXCEPT ![r] = Answer(code, u, s)]
  /\ call' = [call EXCEPT ![r] = NoCall]
  /\ seen' = [seen EXCEPT ![r] = None]
Reply(r) == Finish(r, "ok", None, None)
Refuse(r) == Finish(r, "refused", None, None)

-----------------------------------------------------------------------------
(* What a client may send.                                                 *)

\* The users a temporary token was signed for.
Pending == {answer[r].user : r \in {q \in Requests : answer[q].code = "requiresMfa"}}

\* The tokens signed so far that the guard takes: the ones of the start, those in
\* answers, and the temporary ones, which have the same secret and no session.
Tokens ==
  {[user |-> u, session |-> u] : u \in Existing} \cup
  {[user |-> answer[r].user, session |-> answer[r].session] :
     r \in {q \in Requests : answer[q].code = "ok" /\ answer[q].user # None}} \cup
  {[user |-> u, session |-> None] : u \in Pending}

\* Codes of the secrets there are; any of them is wrong for another.
Typed == {None} \cup {users[u].secret : u \in {v \in Ids : users[v] # None}}

\* Calls by an e-mail, by a signed token, and with a device and a code.
ByEmail(o, e) == [NoCall EXCEPT !.op = o, !.email = e]
Login(e, right, d, code) ==
  [NoCall EXCEPT !.op = "login", !.email = e, !.right = right, !.device = d, !.code = code]
Signed(o, u, s, target) ==
  [NoCall EXCEPT !.op = o, !.user = u, !.session = s, !.target = target]
Coded(c, d, code) == [c EXCEPT !.device = d, !.code = code]

PublicCalls ==
  {ByEmail(o, e) : o \in {"register", "google"}, e \in Emails} \cup
  {Login(e, g, d, c) :
     e \in Emails, g \in BOOLEAN, d \in Devices \cup {None}, c \in Typed} \cup
  {Coded(Signed("mfaLogin", u, None, None), d, c) :
     u \in Pending, d \in Devices \cup {None}, c \in Typed}

GuardedCalls ==
  {Signed(o, t.user, t.session, None) : o \in {"setup", "refresh", "revokeAll"}, t \in Tokens} \cup
  {Coded(Signed(o, t.user, t.session, None), None, c) :
     o \in {"enable", "disable", "stepUp"}, t \in Tokens, c \in Typed} \cup
  {Signed("revoke", t.user, t.session, s) : t \in Tokens, s \in Ids}

Receive(r) ==
  /\ pc[r] = "new"
  /\ \E c \in PublicCalls \cup GuardedCalls :
       /\ call' = [call EXCEPT ![r] = c]
       /\ pc' = [pc EXCEPT ![r] = IF c.op \in Public THEN "find" ELSE "guard"]
  /\ UNCHANGED <<rows, seen, answer, ghosts>>

-----------------------------------------------------------------------------
(* Rows of users.                                                          *)

FindForRegister(r) ==
  /\ pc[r] = "find" /\ Op(r) = "register"
  /\ IF RowsOf(call[r].email) = {} THEN Goto(r, "create") ELSE Refuse(r)
  /\ UNCHANGED <<rows, ghosts>>

\* findOrCreateGoogleUser: by the Google identity, ...
FindGoogle(r) ==
  /\ pc[r] = "find" /\ Op(r) = "google"
  /\ LET linked == {u \in RowsOf(call[r].email) : users[u].google} IN
       IF linked = {} THEN Goto(r, "email") ELSE \E u \in linked : GoAs(r, "session", u)
  /\ UNCHANGED <<rows, ghosts>>

\* ... else by the e-mail, ...
FindEmail(r) ==
  /\ pc[r] = "email"
  /\ IF RowsOf(call[r].email) = {} THEN Goto(r, "create")
     ELSE \E u \in RowsOf(call[r].email) : GoAs(r, "link", u)
  /\ UNCHANGED <<rows, ghosts>>

\* ... which is linked.
LinkGoogle(r) ==
  /\ pc[r] = "link"
  /\ users' = [users EXCEPT ![Who(r)].google = TRUE]
  /\ Goto(r, "session")
  /\ UNCHANGED <<accounts, sessions, created, ghosts>>

NewRow(r) ==
  [email |-> call[r].email, password |-> Op(r) = "register", google |-> Op(r) = "google",
   mfa |-> FALSE, secret |-> None]

\* Faulty: the e-mail column is not unique.
CreateUserTwice(r) ==
  /\ pc[r] = "create"
  /\ users' = [users EXCEPT ![r] = NewRow(r)]
  /\ GoAs(r, "account", r)
  /\ UNCHANGED <<accounts, sessions, created, ghosts>>

\* user.create; a row that came in between fails it at the unique column.
CreateUser(r) ==
  /\ pc[r] = "create"
  /\ IF RowsOf(call[r].email) = {}
     THEN /\ users' = [users EXCEPT ![r] = NewRow(r)]
          /\ GoAs(r, "account", r)
     ELSE Refuse(r) /\ UNCHANGED users
  /\ UNCHANGED <<accounts, sessions, created, ghosts>>

\* Faulty: the account is left for later.
SkipAccount(r) ==
  /\ pc[r] = "account"
  /\ IF Op(r) = "register" THEN Reply(r) ELSE Goto(r, "session")
  /\ UNCHANGED <<rows, ghosts>>

\* account.create, a statement of its own.
CreateAccount(r) ==
  /\ pc[r] = "account"
  /\ accounts' = accounts \cup {r}
  /\ IF Op(r) = "register" THEN Reply(r) ELSE Goto(r, "session")
  /\ UNCHANGED <<users, sessions, created, ghosts>>

-----------------------------------------------------------------------------
(* Login.                                                                  *)

\* Where login() goes with the row it was given.
LoginWith(r, u) == GoAs(r, IF users[u].mfa THEN "trusted" ELSE "session", u)

\* validateUser: a row with a password, and the right one.
FindForLogin(r) ==
  /\ pc[r] = "find" /\ Op(r) = "login"
  /\ LET known == {u \in RowsOf(call[r].email) : users[u].password /\ call[r].right} IN
       IF known = {} THEN Refuse(r) ELSE \E u \in known : LoginWith(r, u)
  /\ UNCHANGED <<rows, ghosts>>

\* The second step: a temporary token, perhaps expired by now, stands for the password.
FindForMfa(r) ==
  /\ pc[r] = "find" /\ Op(r) = "mfaLogin"
  /\ Refuse(r) \/ LoginWith(r, call[r].user)
  /\ UNCHANGED <<rows, ghosts>>

\* Active sessions of the device named, their trust not over, though they may be
\* expired.  A login without a device matches none, not even one stored without.
Trusted(r) ==
  {s \in Ids : /\ sessions[s] # None /\ sessions[s].active /\ sessions[s].trusted
               /\ sessions[s].user = Who(r)
               /\ call[r].device # None /\ sessions[s].device = call[r].device}

\* A trusted device skips the code; without a code one is asked for.
FindTrusted(r) ==
  /\ pc[r] = "trusted"
  /\ IF Trusted(r) # {} THEN Goto(r, "session")
     ELSE IF call[r].code = None THEN Finish(r, "requiresMfa", Who(r), None)
     ELSE Goto(r, "secret")
  /\ UNCHANGED <<rows, ghosts>>

\* Reads the secret now, which may be gone, and verifies the code against it.
CheckCode(r) ==
  /\ pc[r] = "secret"
  /\ IF Secret(Who(r)) = None \/ call[r].code # Secret(Who(r)) THEN Refuse(r)
     ELSE Goto(r, "session")
  /\ UNCHANGED <<rows, ghosts>>

\* The deviceInfo a session is stored with.
DeviceOf(r) ==
  CASE Op(r) = "google"                          -> GoogleOAuth
    [] Op(r) # "google" /\ call[r].device = None -> Unknown
    [] OTHER                                     -> call[r].device

\* createLoginResponse.
OpenSession(r) ==
  /\ pc[r] = "session"
  /\ sessions' = [sessions EXCEPT ![r] =
       [user |-> Who(r), device |-> DeviceOf(r),
        active |-> TRUE, expired |-> FALSE, trusted |-> TRUE]]
  /\ created' = Append(created, r)
  /\ Finish(r, "ok", Who(r), r)
  /\ UNCHANGED <<users, accounts, ghosts>>

-----------------------------------------------------------------------------
(* Behind the guard.                                                       *)

Live(s) == sessions[s] # None /\ sessions[s].active /\ ~sessions[s].expired

\* JwtStrategy.validate: a token without a session is not asked for one; the token
\* itself may have expired.
Guard(r) ==
  /\ pc[r] = "guard"
  /\ \/ Refuse(r)
     \/ /\ call[r].session # None => Live(call[r].session)
        /\ GoAs(r, IF Op(r) = "revokeAll" THEN "write" ELSE "read", call[r].user)
  /\ UNCHANGED <<rows, ghosts>>

\* Faulty: a second setup replaces the secret of an enabled second factor.
ReadForSetupAlways(r) ==
  /\ pc[r] = "read" /\ Op(r) = "setup"
  /\ Goto(r, "write")
  /\ UNCHANGED <<rows, ghosts>>

ReadForSetup(r) ==
  /\ pc[r] = "read" /\ Op(r) = "setup"
  /\ IF users[Who(r)].mfa THEN Refuse(r) ELSE Goto(r, "write")
  /\ UNCHANGED <<rows, ghosts>>

\* Whether the read lets enable, disable or step-up verify a code at all.
MayVerify(r) ==
  CASE Op(r) = "enable"  -> Secret(Who(r)) # None
    [] Op(r) = "disable" -> users[Who(r)].mfa
    [] Op(r) = "stepUp"  -> users[Who(r)].mfa /\ Secret(Who(r)) # None

\* The read and the verification of the code against the secret read, which is an
\* error when there is none.
ReadAndVerify(r) ==
  /\ pc[r] = "read" /\ Op(r) \in {"enable", "disable", "stepUp"}
  /\ IF ~MayVerify(r) THEN Refuse(r) /\ UNCHANGED proved
     ELSE IF Secret(Who(r)) = None THEN Refuse(r) /\ UNCHANGED proved
     ELSE IF call[r].code # Secret(Who(r)) THEN Refuse(r) /\ UNCHANGED proved
     ELSE proved' = proved \cup {Secret(Who(r))} /\ Goto(r, "write")
  /\ UNCHANGED <<rows, raced>>

\* Second-factor changes of one user that have read and not yet written.
Open(u) ==
  {r \in Requests :
     pc[r] = "write" /\ Op(r) \in {"setup", "enable", "disable"} /\ Who(r) = u}

\* What the three updates write.
Updated(r, row) ==
  CASE Op(r) = "setup"   -> [row EXCEPT !.secret = r]
    [] Op(r) = "enable"  -> [row EXCEPT !.mfa = TRUE]
    [] Op(r) = "disable" -> [row EXCEPT !.mfa = FALSE, !.secret = None]

WriteFactor(r) ==
  /\ pc[r] = "write" /\ Op(r) \in {"setup", "enable", "disable"}
  /\ users' = [users EXCEPT ![Who(r)] = Updated(r, @)]
  /\ raced' = IF Open(Who(r)) = {r} THEN raced ELSE raced \cup {Who(r)}
  /\ Reply(r)
  /\ UNCHANGED <<accounts, sessions, created, proved>>

\* Faulty: the latest session of anybody.
LatestOfAnyone(u) ==
  LET own == {i \in DOMAIN created : sessions[created[i]].active}
  IN  IF own = {} THEN {None} ELSE {created[i] : i \in {j \in own : \A k \in own : k <= j}}

\* findFirst by createdAt, descending: the one session, or None.
Latest(u) ==
  LET own == {i \in DOMAIN created :
                sessions[created[i]].user = u /\ sessions[created[i]].active}
  IN  IF own = {} THEN {None} ELSE {created[i] : i \in {j \in own : \A k \in own : k <= j}}

\* A step-up token is bound to the user's latest session, whichever asked.
StepUp(r) ==
  /\ pc[r] = "write" /\ Op(r) = "stepUp"
  /\ \E s \in Latest(Who(r)) : Finish(r, "ok", Who(r), s)
  /\ UNCHANGED <<rows, ghosts>>

\* refreshToken reads the user, then the session: no session, no token.
ReadForRefresh(r) ==
  /\ pc[r] = "read" /\ Op(r) = "refresh"
  /\ Goto(r, "write")
  /\ UNCHANGED <<rows, ghosts>>

Refresh(r) ==
  /\ pc[r] = "write" /\ Op(r) = "refresh"
  /\ LET s == call[r].session IN
       IF s # None /\ sessions[s] # None /\ sessions[s].active
       THEN Finish(r, "ok", Who(r), s) ELSE Refuse(r)
  /\ UNCHANGED <<rows, ghosts>>

\* Faulty: any session that exists may be closed.
FindAnySession(r) ==
  /\ pc[r] = "read" /\ Op(r) = "revoke"
  /\ IF sessions[call[r].target] # None THEN Goto(r, "write") ELSE Refuse(r)
  /\ UNCHANGED <<rows, ghosts>>

FindSession(r) ==
  /\ pc[r] = "read" /\ Op(r) = "revoke"
  /\ LET s == sessions[call[r].target] IN
       IF s # None /\ s.user = Who(r) THEN Goto(r, "write") ELSE Refuse(r)
  /\ UNCHANGED <<rows, ghosts>>

\* The sessions an update closes: the one named, or all but the caller's own.
Closed(r) ==
  IF Op(r) = "revoke" THEN {call[r].target}
  ELSE {s \in Ids : sessions[s] # None /\ sessions[s].user = Who(r) /\ s # call[r].session}

Revoke(r) ==
  /\ pc[r] = "write" /\ Op(r) \in {"revoke", "revokeAll"}
  /\ sessions' = [s \in Ids |->
       IF s \in Closed(r) THEN [sessions[s] EXCEPT !.active = FALSE] ELSE sessions[s]]
  /\ Reply(r)
  /\ UNCHANGED <<users, accounts, created, ghosts>>

-----------------------------------------------------------------------------
(* Failures and time.                                                      *)

InFlight(r) == pc[r] \notin {"new", "done"}

\* A query fails; what was written stays.
Fail(r) ==
  /\ InFlight(r)
  /\ Refuse(r)
  /\ UNCHANGED <<rows, ghosts>>

\* The server process stops.
Crash ==
  /\ \E r \in Requests : InFlight(r)
  /\ pc' = [r \in Requests |-> IF InFlight(r) THEN "done" ELSE pc[r]]
  /\ answer' = [r \in Requests |->
                  IF InFlight(r) THEN Answer("lost", None, None) ELSE answer[r]]
  /\ call' = [r \in Requests |-> NoCall]
  /\ seen' = [r \in Requests |-> None]
  /\ UNCHANGED <<rows, ghosts>>

\* A session expires after seven days, its device is trusted for thirty.
Elapse(s) ==
  /\ sessions[s] # None /\ sessions[s].trusted
  /\ sessions' = [sessions EXCEPT ![s].expired = TRUE, ![s].trusted = ~sessions[s].expired]
  /\ UNCHANGED <<users, accounts, created, call, seen, pc, answer, ghosts>>

-----------------------------------------------------------------------------

\* The users of the start have registered and logged in, and have not begun, have
\* begun, or have completed the enrolment of a second factor.
FirstRow(u, on, begun) ==
  [email |-> u, password |-> TRUE, google |-> FALSE, mfa |-> on,
   secret |-> IF begun THEN u ELSE None]

Init ==
  /\ \E begun \in SUBSET Existing : \E on \in SUBSET begun :
       /\ users = [u \in Ids |->
            IF u \in Existing THEN FirstRow(u, u \in on, u \in begun) ELSE None]
       /\ proved = on
  /\ accounts = Existing
  /\ sessions = [s \in Ids |->
       IF s \in Existing
       THEN [user |-> s, device |-> Unknown, active |-> TRUE, expired |-> FALSE, trusted |-> TRUE]
       ELSE None]
  /\ created \in [1..Cardinality(Existing) -> Existing]
  /\ \A s \in Existing : \E i \in DOMAIN created : created[i] = s
  /\ call = [r \in Requests |-> NoCall]
  /\ seen = [r \in Requests |-> None]
  /\ pc = [r \in Requests |-> "new"]
  /\ answer = [r \in Requests |-> Answer("none", None, None)]
  /\ raced = {}

Handle(r) ==
  \/ FindForRegister(r) \/ FindGoogle(r) \/ FindEmail(r) \/ LinkGoogle(r)
  \/ CreateUser(r) \/ CreateAccount(r)
  \/ FindForLogin(r) \/ FindForMfa(r) \/ FindTrusted(r) \/ CheckCode(r) \/ OpenSession(r)
  \/ Guard(r) \/ ReadForSetup(r) \/ ReadAndVerify(r) \/ WriteFactor(r) \/ StepUp(r)
  \/ ReadForRefresh(r) \/ Refresh(r) \/ FindSession(r) \/ Revoke(r)

Next ==
  \/ \E r \in Requests : Receive(r) \/ Handle(r) \/ Fail(r)
  \/ \E s \in Ids : Elapse(s)
  \/ Crash

Spec == Init /\ [][Next]_vars
-----------------------------------------------------------------------------
(* Properties.                                                             *)

\* A row without the default account, which is created by a statement of its own, is
\* one whose creation has not been answered, or was answered with an error.
CreatedHasAccount ==
  \A r \in Requests :
    users[r] # None /\ r \notin accounts => answer[r].code # "ok"

\* An e-mail is one row's, however registrations and Google logins of it overlap between
\* their reads and their writes, and a Google login opens its session for the row of its
\* own e-mail, which by then is linked to it.
OneRowPerEmail ==
  /\ \A u, v \in Ids :
       users[u] # None /\ users[v] # None /\ users[u].email = users[v].email => u = v
  /\ \A r \in Requests :
       pc[r] = "session" /\ Op(r) = "google" =>
         users[Who(r)].google /\ users[Who(r)].email = call[r].email

\* 'Not enabled yet until verified': an enabled second factor has a secret, and one
\* whose code its user has shown, unless two changes of it overlapped.  Then enable
\* may come after a setup or a disable that followed its read.
EnabledIsVerified ==
  \A u \in Ids \ raced :
    users[u] # None /\ users[u].mfa => Secret(u) \in proved

\* Every token, step-up and refreshed ones too, is for a session of its own user.
TokensKeepToTheirUser ==
  \A t \in Tokens : t.session # None => sessions[t.session].user = t.user

\* A session is only ever closed by a request of its user, which presented a token of
\* another session when it closes all: that one stays.
ClosedByOwner ==
  [][\A s \in Ids :
       sessions[s] # None /\ sessions[s].active /\ ~sessions'[s].active =>
         \E r \in Requests :
           /\ pc[r] = "write" /\ pc'[r] = "done" /\ Who(r) = sessions[s].user
           /\ Op(r) = "revokeAll" => s # call[r].session]_vars
-----------------------------------------------------------------------------
(* The inductive invariant.                                                *)

Call == [op : Public \cup Guarded, email : {None} \cup Emails, right : BOOLEAN,
         device : {None} \cup Devices, code : {None} \cup Ids, user : {None} \cup Ids,
         session : {None} \cup Ids, target : {None} \cup Ids]

TypeOK ==
  /\ users \in [Ids -> {None} \cup Row]
  /\ accounts \subseteq Ids
  /\ sessions \in [Ids -> {None} \cup Session]
  /\ created \in Seq(Ids)
  /\ call \in [Requests -> Call]
  /\ seen \in [Requests -> {None} \cup Ids]
  /\ pc \in [Requests -> {"new", "find", "email", "link", "create", "account", "trusted",
                         "secret", "session", "guard", "read", "write", "done"}]
  /\ answer \in [Requests -> [code : {"none", "lost", "refused", "ok", "requiresMfa"},
                             user : {None} \cup Ids, session : {None} \cup Ids]]
  /\ proved \subseteq Ids /\ raced \subseteq Ids

\* Where a request is agrees with what it asks for.
PlaceSound(r) ==
  /\ pc[r] = "find" => Op(r) \in Public
  /\ pc[r] \in {"find", "email", "create"} /\ Op(r) \in {"register", "google"} =>
       call[r].email \in Emails
  /\ pc[r] \in {"email", "link"} => Op(r) = "google"
  /\ pc[r] \in {"create", "account"} => Op(r) \in {"register", "google"}
  /\ pc[r] \in {"trusted", "secret"} => Op(r) \in {"login", "mfaLogin"}
  /\ pc[r] = "session" => Op(r) \in {"google", "login", "mfaLogin"}
  /\ pc[r] \in {"guard", "read", "write"} => Op(r) \in Guarded
  /\ Op(r) = "revoke" => call[r].target \in Ids

IsUser(u) == u \in Ids /\ users[u] # None
IsOf(s, u) == s \in Ids /\ sessions[s] # None /\ sessions[s].user = u

\* Users and sessions that a request goes on with, asks with, or was answered exist,
\* and the sessions are of the users: neither goes away, nor changes hands.
NamesSound(r) ==
  /\ pc[r] \in {"link", "account", "trusted", "secret", "session", "read", "write"} =>
       IsUser(Who(r))
  /\ pc[r] \in {"guard", "read", "write"} \/ Op(r) = "mfaLogin" => IsUser(call[r].user)
  /\ pc[r] \in {"read", "write"} => Who(r) = call[r].user
  /\ call[r].session # None => IsOf(call[r].session, call[r].user)
  /\ pc[r] = "write" /\ Op(r) = "revoke" => IsOf(call[r].target, Who(r))
  /\ answer[r].user # None => IsUser(answer[r].user)
  /\ answer[r].code = "requiresMfa" => answer[r].user # None
  /\ answer[r].session # None => IsOf(answer[r].session, answer[r].user)

\* What a request makes it makes once, and a row stays behind without an account only
\* with an error.
MadeSound(r) ==
  /\ pc[r] # "done" => sessions[r] = None /\ answer[r].code = "none"
  /\ users[r] # None => pc[r] \in {"account", "session", "done"}
  /\ users[r] # None /\ r \notin accounts =>
       pc[r] = "account" \/ (pc[r] = "done" /\ answer[r].code # "ok")
  /\ pc[r] = "account" => Who(r) = r

\* A Google login goes on with the row of its e-mail, once linked for good.
LinkSound(r) ==
  pc[r] \in {"link", "account", "session"} /\ Op(r) = "google" =>
    /\ users[Who(r)].email = call[r].email
    /\ pc[r] # "link" => users[Who(r)].google

\* A change of the second factor that is about to be written still fits the row, unless
\* another overlapped it.
FactorSound(u) ==
  /\ users[u] # None /\ users[u].mfa => Secret(u) \in proved
  /\ \A r \in Open(u) : /\ Op(r) = "setup" => ~users[u].mfa
                        /\ Op(r) = "enable" => Secret(u) \in proved

SessionsSound ==
  /\ \A s \in Existing : users[s] # None /\ IsOf(s, s)
  /\ \A s \in Ids : sessions[s] # None => IsUser(sessions[s].user)
  /\ \A i \in DOMAIN created : sessions[created[i]] # None

IndInv ==
  /\ TypeOK
  /\ \A r \in Requests : PlaceSound(r) /\ NamesSound(r) /\ MadeSound(r) /\ LinkSound(r)
  /\ OneRowPerEmail
  /\ \A u \in Ids \ raced : FactorSound(u)
  /\ SessionsSound
=============================================================================
