------------------------------- MODULE Sessions -------------------------------
(***************************************************************************)
(* Registration, login, MFA and sessions: backend/src/auth.  Every await   *)
(* of a handler is a step of its own and other requests run in between.    *)
(*                                                                         *)
(*   register  new -> find -> write -> audit -> notify -> done             *)
(*   login     new -> find -> write -> sign -> done                        *)
(*   verify    new -> guard -> find -> del -> lookup -> write -> sign -> done *)
(*   revoke    new -> guard -> find -> write -> audit -> done              *)
(*   read      new -> guard -> find -> done      (me, sessions)            *)
(*   admin     new -> guard -> roles -> find -> done                       *)
(*                                                                         *)
(* A user is known by the e-mail address.  A token, an OTP drawn and a     *)
(* session row are named by the request that made them.                    *)
(***************************************************************************)
EXTENDS Naturals

CONSTANTS
  Users,
  Registered,     \* the users the seed creates
  Admins,         \* those of them with the role ADMIN
  Otps,
  Requests,
  None

ASSUME SessionsAssumption ==
  /\ Registered \subseteq Users /\ Admins \subseteq Registered
  /\ None \notin Requests \cup Otps \cup Users

VARIABLES
  users,       \* users with a row, and with it a profile and an account
  active,      \* users whose isActive is true
  otp,         \* user -> the login whose OTP is alive in Redis, or None
  sessions,    \* the verifications that have created a Session row
  revokedAt,   \* session -> None, or the revocation whose time it is
  expired,     \* sessions whose expiresAt is in the past
  events,      \* requests whose AuditEvent row is written
  notices,     \* requests whose Notification row is written
  applied,     \* requests whose own row (user, session update) is written
  op,          \* request -> what it asks for
  found,       \* request -> what its handler has read and still uses
  pc, answer

tables == <<users, active, sessions, revokedAt, expired>>
trail == <<events, notices, applied>>
vars == <<tables, otp, trail, op, found, pc, answer>>

Kinds == {"register", "login", "verify", "read", "revoke", "admin"}
Pcs == {"new", "guard", "roles", "find", "del", "lookup", "write", "sign",
        "audit", "notify", "done"}
Codes == {"none", "200", "400", "401", "403", "404", "409", "500", "lost"}

\* "right" is whether the password given is the user's; "token" the login or the
\* verification whose token is presented; "target" the session to revoke.
Operation ==
  [kind : Kinds, user : Users, right : BOOLEAN, otp : Otps \cup {None},
   token : Requests \cup {None}, target : Requests \cup {None}]
NoOperation == [kind |-> "none"]

Goto(r, l) == pc' = [pc EXCEPT ![r] = l] /\ UNCHANGED answer
Finish(r, code) ==
  /\ pc' = [pc EXCEPT ![r] = "done"]
  /\ answer' = [answer EXCEPT ![r] = code]

-----------------------------------------------------------------------------

\* A token is presented by whoever was given it: its request has been answered.
TokenOf(t, kind) == answer[t] = "200" /\ op[t].kind = kind

Presentable(o) ==
  IF o.kind \in {"register", "login"} THEN o.token = None
  ELSE /\ o.token # None
       /\ TokenOf(o.token, "login") \/ TokenOf(o.token, "verify")
       /\ o.user = op[o.token].user

Receive(r, o) ==
  /\ pc[r] = "new"
  /\ Presentable(o)
  /\ op' = [op EXCEPT ![r] = o]
  /\ Goto(r, IF o.token = None THEN "find" ELSE "guard")
  /\ UNCHANGED <<tables, otp, trail, found>>

\* JwtStrategy.validate: a token of a session is good while the session is; one
\* given before MFA is not checked against the database.
Live(t) ==
  op[t].kind = "verify" => t \in sessions \ expired /\ revokedAt[t] = None

\* MfaVerifiedGuard, and verifyMfa's own check of its token.
Admit(r) ==
  LET full == op[op[r].token].kind = "verify"
  IN  IF op[r].kind = "verify"
      THEN IF full THEN Finish(r, "400") ELSE Goto(r, "find")
      ELSE IF ~full THEN Finish(r, "403")
           ELSE Goto(r, IF op[r].kind = "admin" THEN "roles" ELSE "find")

\* JwtAuthGuard with JwtStrategy: the token's own time may be over as well.
Authenticate(r) ==
  /\ pc[r] = "guard"
  /\ \/ Finish(r, "401")
     \/ Live(op[r].token) /\ Admit(r)
  /\ UNCHANGED <<tables, otp, trail, op, found>>

\* RolesGuard: the user and the roles are read at each request.
CheckRoles(r) ==
  /\ pc[r] = "roles"
  /\ IF op[r].user \in active \cap Admins THEN Goto(r, "find") ELSE Finish(r, "403")
  /\ UNCHANGED <<tables, otp, trail, op, found>>

\* me and sessions, or what an administrator asks for.
Read(r) ==
  /\ pc[r] = "find" /\ op[r].kind \in {"read", "admin"}
  /\ Finish(r, IF op[r].user \in users THEN "200" ELSE "401")
  /\ UNCHANGED <<tables, otp, trail, op, found>>

-----------------------------------------------------------------------------
(* Registration.                                                           *)

FindEmail(r) ==
  /\ pc[r] = "find" /\ op[r].kind = "register"
  /\ IF op[r].user \in users THEN Finish(r, "409") ELSE Goto(r, "write")
  /\ UNCHANGED <<tables, otp, trail, op, found>>

\* Faulty: two rows may have one e-mail address.
CreateUserTwice(r) ==
  /\ pc[r] = "write" /\ op[r].kind = "register"
  /\ users' = users \cup {op[r].user}
  /\ active' = active \cup {op[r].user}
  /\ applied' = applied \cup {r}
  /\ Goto(r, "audit")
  /\ UNCHANGED <<sessions, revokedAt, expired, otp, events, notices, op, found>>

\* user.create with its profile and account, in one nested write; the unique index
\* fails the second of two registrations that both found the address free.
CreateUser(r) ==
  /\ pc[r] = "write" /\ op[r].kind = "register"
  /\ IF op[r].user \in users
     THEN Finish(r, "500") /\ UNCHANGED <<users, active, applied>>
     ELSE /\ users' = users \cup {op[r].user}
          /\ active' = active \cup {op[r].user}
          /\ applied' = applied \cup {r}
          /\ Goto(r, "audit")
  /\ UNCHANGED <<sessions, revokedAt, expired, otp, events, notices, op, found>>

\* auditEvent.create: USER_REGISTERED, SESSION_REVOKED.
Audit(r) ==
  /\ pc[r] = "audit"
  /\ events' = events \cup {r}
  /\ IF op[r].kind = "register" THEN Goto(r, "notify") ELSE Finish(r, "200")
  /\ UNCHANGED <<tables, otp, notices, applied, op, found>>

\* The welcome; NotificationsService.create swallows its errors.
Notify(r) ==
  /\ pc[r] = "notify"
  /\ notices' \in {notices, notices \cup {r}}
  /\ Finish(r, "200")
  /\ UNCHANGED <<tables, otp, events, applied, op, found>>

-----------------------------------------------------------------------------
(* Login and MFA.                                                          *)

FindUser(r) ==
  /\ pc[r] = "find" /\ op[r].kind = "login"
  /\ IF op[r].user \in users \cap active /\ op[r].right THEN Goto(r, "write")
     ELSE Finish(r, "401")
  /\ UNCHANGED <<tables, otp, trail, op, found>>

\* SETEX mfa:otp:<user>: the OTP of an earlier login is replaced.
StoreOtp(r) ==
  /\ pc[r] = "write" /\ op[r].kind = "login"
  /\ \E code \in Otps : op' = [op EXCEPT ![r].otp = code]
  /\ otp' = [otp EXCEPT ![op[r].user] = r]
  /\ Goto(r, "sign")
  /\ UNCHANGED <<tables, trail, found>>

\* Faulty: any challenge alive for the user will do.
MatchesAny(r) == otp[op[r].user] # None

Matches(r) ==
  otp[op[r].user] # None /\ op[otp[op[r].user]].otp = op[r].otp

\* GET and the comparison ...
GetOtp(r) ==
  /\ pc[r] = "find" /\ op[r].kind = "verify"
  /\ IF Matches(r)
     THEN Goto(r, "del") /\ found' = [found EXCEPT ![r] = otp[op[r].user]]
     ELSE Finish(r, "401") /\ UNCHANGED found
  /\ UNCHANGED <<tables, otp, trail, op>>

\* Faulty: the OTP is left to expire.
KeepOtp(r) ==
  /\ pc[r] = "del"
  /\ Goto(r, "lookup")
  /\ UNCHANGED <<tables, otp, trail, op, found>>

\* ... DEL, of whatever OTP is there by now ...
DeleteOtp(r) ==
  /\ pc[r] = "del"
  /\ otp' = [otp EXCEPT ![op[r].user] = None]
  /\ Goto(r, "lookup")
  /\ UNCHANGED <<tables, trail, op, found>>

\* ... the user, once more ...
LookupUser(r) ==
  /\ pc[r] = "lookup"
  /\ IF op[r].user \in users \cap active THEN Goto(r, "write") ELSE Finish(r, "401")
  /\ UNCHANGED <<tables, otp, trail, op, found>>

\* ... and the row whose id the token will carry.
CreateSession(r) ==
  /\ pc[r] = "write" /\ op[r].kind = "verify"
  /\ sessions' = sessions \cup {r}
  /\ Goto(r, "sign")
  /\ UNCHANGED <<users, active, revokedAt, expired, otp, trail, op, found>>

Sign(r) ==
  /\ pc[r] = "sign"
  /\ Finish(r, "200")
  /\ UNCHANGED <<tables, otp, trail, op, found>>

-----------------------------------------------------------------------------
(* Revocation.                                                             *)

\* findFirst: the session, if it is the caller's own.
FindSession(r) ==
  /\ pc[r] = "find" /\ op[r].kind = "revoke"
  /\ IF op[r].target \in sessions /\ op[op[r].target].user = op[r].user
     THEN Goto(r, "write") /\ found' = [found EXCEPT ![r] = revokedAt[op[r].target]]
     ELSE Finish(r, "404") /\ UNCHANGED found
  /\ UNCHANGED <<tables, otp, trail, op>>

\* Faulty: what was read is written back as it was.
WriteBack(r) == found[r]

\* session.revokedAt ?? new Date(), of the row as it was read
Time(r) == IF found[r] = None THEN r ELSE found[r]

UpdateSession(r) ==
  /\ pc[r] = "write" /\ op[r].kind = "revoke"
  /\ revokedAt' = [revokedAt EXCEPT ![op[r].target] = Time(r)]
  /\ applied' = applied \cup {r}
  /\ Goto(r, "audit")
  /\ UNCHANGED <<users, active, sessions, expired, otp, events, notices, op, found>>

-----------------------------------------------------------------------------
(* What may happen at any time.                                            *)

InFlight(r) == pc[r] \notin {"new", "done"}

\* A statement fails: what the handler has written stays.
Fail(r) ==
  /\ InFlight(r)
  /\ Finish(r, "500")
  /\ UNCHANGED <<tables, otp, trail, op, found>>

\* The server process stops: the handlers in flight go no further.
Crash ==
  /\ \E r \in Requests : InFlight(r)
  /\ pc' = [r \in Requests |-> IF InFlight(r) THEN "done" ELSE pc[r]]
  /\ answer' = [r \in Requests |-> IF InFlight(r) THEN "lost" ELSE answer[r]]
  /\ UNCHANGED <<tables, otp, trail, op, found>>

\* The 300 seconds of an OTP, the seven days of a session.
ExpireOtp ==
  /\ \E u \in Users : otp[u] # None /\ otp' = [otp EXCEPT ![u] = None]
  /\ UNCHANGED <<tables, trail, op, found, pc, answer>>

ExpireSession ==
  /\ \E s \in sessions \ expired : expired' = expired \cup {s}
  /\ UNCHANGED <<users, active, sessions, revokedAt, otp, trail, op, found, pc, answer>>

\* isActive is cleared in the database; no handler does it.
Deactivate(u) ==
  /\ u \in active
  /\ active' = active \ {u}
  /\ UNCHANGED <<users, sessions, revokedAt, expired, otp, trail, op, found, pc, answer>>

-----------------------------------------------------------------------------

\* The fields a request of each kind has.
Asked ==
  {o \in Operation :
     /\ (o.otp = None) <=> (o.kind # "verify")
     /\ (o.token = None) <=> (o.kind \in {"register", "login"})
     /\ (o.target = None) <=> (o.kind # "revoke")
     /\ o.kind # "login" => o.right}

Init ==
  /\ users = Registered /\ active = Registered
  /\ otp = [u \in Users |-> None]
  /\ sessions = {} /\ expired = {}
  /\ revokedAt = [s \in Requests |-> None]
  /\ events = {} /\ notices = {} /\ applied = {}
  /\ op = [r \in Requests |-> NoOperation]
  /\ found = [r \in Requests |-> None]
  /\ pc = [r \in Requests |-> "new"]
  /\ answer = [r \in Requests |-> "none"]

Handle(r) ==
  \/ Authenticate(r) \/ CheckRoles(r) \/ Read(r)
  \/ FindEmail(r) \/ CreateUser(r) \/ Audit(r) \/ Notify(r)
  \/ FindUser(r) \/ StoreOtp(r) \/ Sign(r)
  \/ GetOtp(r) \/ DeleteOtp(r) \/ LookupUser(r) \/ CreateSession(r)
  \/ FindSession(r) \/ UpdateSession(r)

Next ==
  \/ \E r \in Requests : Handle(r) \/ Fail(r) \/ \E o \in Asked : Receive(r, o)
  \/ Crash \/ ExpireOtp \/ ExpireSession
  \/ \E u \in Users : Deactivate(u)

Spec == Init /\ [][Next]_vars

-----------------------------------------------------------------------------
(* Properties.                                                             *)

\* Type correctness of the tables, the Redis keys and the handlers; in particular what
\* a verification has found in Redis is the login that drew the OTP, or nothing.
TypeOK ==
  /\ users \subseteq Users /\ active \subseteq users
  /\ otp \in [Users -> Requests \cup {None}]
  /\ sessions \subseteq Requests /\ expired \subseteq sessions
  /\ revokedAt \in [Requests -> Requests \cup {None}]
  /\ events \subseteq Requests /\ notices \subseteq Requests /\ applied \subseteq Requests
  /\ op \in [Requests -> Operation \cup {NoOperation}]
  /\ found \in [Requests -> Requests \cup {None}]
  /\ pc \in [Requests -> Pcs]
  /\ answer \in [Requests -> Codes]

\* l is a login of u with the right password, whose OTP has been drawn.
Draws(l, u) == /\ op[l].kind = "login" /\ op[l].user = u
               /\ op[l].right /\ op[l].otp \in Otps

\* Every session goes back to a login of the same user with the right password, and
\* to the OTP that this login drew, whatever else has happened to the Redis key
\* between the login and the verification.
SessionIsProved ==
  \A s \in sessions : \E l \in Requests : /\ Draws(l, op[s].user)
                                          /\ op[l].otp = op[s].otp

\* An OTP that a verification has used up is never found alive again: of two
\* verifications with one OTP, both have read it before either deleted it.
UsedOtpIsGone ==
  \A s \in Requests :
    op[s].kind = "verify" /\ (pc[s] \in {"lookup", "write", "sign"} \/ s \in sessions)
      => otp[op[s].user] # found[s]

\* Registrations, revocations and their trail: one row per address, however many
\* registrations ran at once; no event for what was not written; success only
\* with its event.
TrailSound ==
  /\ notices \subseteq events /\ events \subseteq applied
  /\ \A r \in Requests :
       answer[r] = "200" /\ op[r].kind \in {"register", "revoke"} => r \in events
  /\ \A r, q \in applied :
       op[r].kind = "register" /\ op[q].kind = "register" /\ op[r].user = op[q].user
         => r = q

Revokes(q, s) == op[q].kind = "revoke" /\ op[q].target = s /\ answer[q] = "200"
Admitted(r) == pc[r] = "guard" /\ pc'[r] \in {"roles", "find"}

\* Once a revocation has been answered, no request is let in on that session: not
\* even when other revocations of it, that read the row earlier, write it again.
RevokedIsRefused ==
  [][\A r, q \in Requests : Admitted(r) => ~Revokes(q, op[r].token)]_vars

-----------------------------------------------------------------------------
(* The inductive invariant.                                                *)

\* The OTP login l drew for u has been put into Redis.
Stored(l, u) == l \in Requests /\ Draws(l, u) /\ pc[l] \in {"sign", "done"}

Waiting(r) == pc[r] \in {"new", "guard", "roles", "find"}

\* A verification past its comparison, and one that has opened its session, goes back
\* to the login it has found.
Proved(r) ==
  op[r].kind = "verify" /\ (pc[r] \in {"del", "lookup", "write", "sign"} \/ r \in sessions)
    => /\ Stored(found[r], op[r].user)
       /\ op[found[r]].otp = op[r].otp

\* An operation with the fields of its kind.
OperationSound(r) ==
  /\ op[r] \in Operation
  /\ op[r].kind = "verify" => op[r].otp \in Otps
  /\ op[r].kind \notin {"register", "login"} => op[r].token \in Requests
  /\ op[r].kind = "revoke" => op[r].target \in Requests

\* Where a handler may be, and what it has done by then.
HandlerSound(r) ==
  /\ pc[r] # "new" => OperationSound(r)
  /\ pc[r] # "done" => answer[r] = "none"
  /\ pc[r] = "roles" => op[r].kind = "admin"
  /\ pc[r] \in {"del", "lookup"} => op[r].kind = "verify"
  /\ pc[r] = "write" => op[r].kind \in {"register", "login", "verify", "revoke"}
  /\ pc[r] = "sign" => op[r].kind \in {"login", "verify"}
  /\ pc[r] \in {"audit", "notify"} => r \in applied /\ op[r].kind \in {"register", "revoke"}
  /\ pc[r] = "notify" => r \in events
  /\ pc[r] \in {"write", "sign"} /\ op[r].kind = "login" => op[r].right
  /\ Waiting(r) \/ pc[r] \in {"del", "lookup", "write"} => r \notin applied \cup sessions
  /\ r \in sessions => op[r].kind = "verify" /\ pc[r] \in {"sign", "done"}
  /\ r \in applied /\ op[r].kind = "register" => op[r].user \in users

\* A revocation that has found its session, and one that has closed it.
RevokeSound(r) ==
  op[r].kind = "revoke" =>
    /\ pc[r] = "write" \/ r \in applied => op[r].target \in sessions
    /\ r \in applied => revokedAt[op[r].target] # None

OtpSound == \A u \in Users : otp[u] # None => Stored(otp[u], u)

IndInv ==
  /\ TypeOK
  /\ \A r \in Requests : HandlerSound(r) /\ Proved(r) /\ RevokeSound(r)
  /\ OtpSound
  /\ UsedOtpIsGone
  /\ TrailSound
=============================================================================
