---------------------------- MODULE SessionsProofs ----------------------------
(***************************************************************************)
(* Proofs about Sessions, for any users, OTPs and number of requests.      *)
(***************************************************************************)
EXTENDS Sessions, TLAPS

USE DEF NoOperation

LEMMA SessionsInit == Init => IndInv
  BY SessionsAssumption DEF Init, IndInv, TypeOK, HandlerSound, OperationSound, Proved,
     RevokeSound, OtpSound, UsedOtpIsGone, TrailSound, Waiting, Pcs, Codes

\* The steps of the handler of r.
StepOf(r) == (\E o \in Asked : Receive(r, o)) \/ Handle(r) \/ Fail(r)
\* What happens beside the handlers' steps.
Outside == Crash \/ ExpireOtp \/ ExpireSession \/ \E u \in Users : Deactivate(u)

LEMMA Steps == Next <=> (\E r \in Requests : StepOf(r)) \/ Outside
  BY DEF Next, StepOf, Outside

\* The fields of r's operation, once it has arrived.
LEMMA OperationFacts ==
  ASSUME IndInv, NEW r \in Requests, pc[r] # "new"
  PROVE  /\ op[r] \in Operation /\ op[r].kind \in Kinds /\ op[r].user \in Users
         /\ op[r].kind = "verify" => op[r].otp \in Otps
         /\ op[r].kind \notin {"register", "login"} => op[r].token \in Requests
         /\ op[r].kind = "revoke" => op[r].target \in Requests
         /\ \A o \in Otps : /\ [op[r] EXCEPT !.otp = o] \in Operation
                            /\ [op[r] EXCEPT !.otp = o].kind = op[r].kind
                            /\ [op[r] EXCEPT !.otp = o].user = op[r].user
                            /\ [op[r] EXCEPT !.otp = o].right = op[r].right
                            /\ [op[r] EXCEPT !.otp = o].token = op[r].token
                            /\ [op[r] EXCEPT !.otp = o].target = op[r].target
                            /\ [op[r] EXCEPT !.otp = o].otp = o
<1>1. OperationSound(r)
  BY DEF IndInv, HandlerSound
<1> QED
  BY <1>1 DEF OperationSound, Operation

\* The fields an operation is asked with.
LEMMA AskedFacts ==
  ASSUME NEW o \in Asked
  PROVE  /\ o \in Operation
         /\ o.kind = "verify" => o.otp \in Otps
         /\ o.kind \notin {"register", "login"} => o.token \in Requests
         /\ o.kind = "revoke" => o.target \in Requests
         /\ o.kind \in {"register", "login"} <=> o.token = None
  BY SessionsAssumption DEF Asked, Operation

LEMMA SessionsType ==
  ASSUME IndInv, Next
  PROVE  TypeOK'
<1> TypeOK
  BY DEF IndInv
<1> USE DEF TypeOK, Goto, Finish, tables, trail, Pcs, Codes
<1>1. ASSUME NEW r \in Requests, NEW o \in Asked, Receive(r, o)
      PROVE  TypeOK'
  BY <1>1, AskedFacts DEF Receive
<1>2. ASSUME NEW r \in Requests, Handle(r)
      PROVE  TypeOK'
  <2> pc[r] # "new" => op[r] \in Operation /\ op[r].user \in Users
    BY OperationFacts
  <2>1. CASE Authenticate(r)
    BY <2>1 DEF Authenticate, Admit
  <2>2. CASE CheckRoles(r) \/ Read(r) \/ FindEmail(r) \/ FindUser(r) \/ Sign(r) \/ LookupUser(r)
    BY <2>2 DEF CheckRoles, Read, FindEmail, FindUser, Sign, LookupUser
  <2>3. CASE CreateUser(r) \/ Audit(r) \/ Notify(r) \/ CreateSession(r)
    BY <2>3 DEF CreateUser, Audit, Notify, CreateSession
  <2>4. CASE StoreOtp(r)
    BY <2>4, OperationFacts DEF StoreOtp
  <2>5. CASE GetOtp(r) \/ DeleteOtp(r)
    BY <2>5 DEF GetOtp, Matches, DeleteOtp
  <2>6. CASE FindSession(r)
    BY <2>6, OperationFacts DEF FindSession
  <2>7. CASE UpdateSession(r)
    BY <2>7, OperationFacts DEF UpdateSession, Time
  <2> QED
    BY <1>2, <2>1, <2>2, <2>3, <2>4, <2>5, <2>6, <2>7 DEF Handle
<1>3. ASSUME NEW r \in Requests, Fail(r)
      PROVE  TypeOK'
  BY <1>3 DEF Fail
<1>4. CASE Outside
  BY <1>4 DEF Outside, Crash, ExpireOtp, ExpireSession, Deactivate
<1> QED
  BY <1>1, <1>2, <1>3, <1>4, Steps DEF StepOf

\* Rows are never taken back, and a revocation time stays one.
LEMMA RowsStep ==
  ASSUME IndInv, Next
  PROVE  /\ users \subseteq users' /\ sessions \subseteq sessions'
         /\ applied \subseteq applied' /\ events \subseteq events'
         /\ \A x \in Requests : revokedAt[x] # None => revokedAt'[x] # None
<1> TypeOK
  BY DEF IndInv
<1>1. ASSUME NEW r \in Requests, UpdateSession(r)
      PROVE  /\ users' = users /\ sessions' = sessions /\ applied \subseteq applied'
             /\ events' = events
             /\ \A x \in Requests : revokedAt[x] # None => revokedAt'[x] # None
  <2>1. Time(r) \in Requests
    BY DEF Time, TypeOK
  <2> QED
    BY <1>1, <2>1, SessionsAssumption DEF UpdateSession, TypeOK
<1>2. ASSUME NEW r \in Requests, StepOf(r), ~UpdateSession(r)
      PROVE  /\ users \subseteq users' /\ sessions \subseteq sessions'
             /\ applied \subseteq applied' /\ events \subseteq events'
             /\ revokedAt' = revokedAt
  BY <1>2 DEF StepOf, Handle, Receive, Authenticate, CheckRoles, Read, FindEmail, CreateUser,
     Audit, Notify, FindUser, StoreOtp, Sign, GetOtp, DeleteOtp, LookupUser, CreateSession,
     FindSession, Fail, tables, trail
<1>3. CASE Outside
  BY <1>3 DEF Outside, Crash, ExpireOtp, ExpireSession, Deactivate, tables, trail
<1> QED
  BY <1>1, <1>2, <1>3, Steps

\* A step of r changes nothing of another request.
LEMMA OthersKept ==
  ASSUME TypeOK, NEW r \in Requests, StepOf(r), NEW s \in Requests, s # r
  PROVE  /\ op'[s] = op[s] /\ pc'[s] = pc[s] /\ answer'[s] = answer[s] /\ found'[s] = found[s]
         /\ s \in sessions' <=> s \in sessions
         /\ s \in applied' <=> s \in applied
         /\ s \in events' <=> s \in events
         /\ s \in notices' <=> s \in notices
  BY DEF StepOf, Handle, Receive, Authenticate, Admit, CheckRoles, Read, FindEmail, CreateUser,
     Audit, Notify, FindUser, StoreOtp, Sign, GetOtp, DeleteOtp, LookupUser, CreateSession,
     FindSession, UpdateSession, Fail, tables, trail, Goto, Finish, TypeOK

\* Nor do the steps outside, but that a crash ends it.
LEMMA OutsideKeeps ==
  ASSUME TypeOK, Outside, NEW s \in Requests
  PROVE  /\ op'[s] = op[s] /\ found'[s] = found[s]
         /\ UNCHANGED <<users, sessions, revokedAt, applied, events, notices>>
         /\ \/ pc'[s] = pc[s] /\ answer'[s] = answer[s]
            \/ pc'[s] = "done" /\ pc[s] # "new" /\ answer'[s] = "lost"
  BY DEF Outside, Crash, ExpireOtp, ExpireSession, Deactivate, InFlight, tables, trail, TypeOK

\* What a login has put into Redis it stays the author of.
LEMMA StoredStep ==
  ASSUME IndInv, Next, NEW l, NEW u, Stored(l, u)
  PROVE  Stored(l, u)' /\ op'[l] = op[l]
<1> TypeOK /\ l \in Requests /\ pc[l] \in {"sign", "done"}
  BY DEF IndInv, Stored
<1>1. ASSUME StepOf(l)
      PROVE  op'[l] = op[l] /\ pc'[l] \in {"sign", "done"}
  <2>1. op'[l] = op[l]
    BY <1>1 DEF StepOf, Handle, Receive, Authenticate, CheckRoles, Read, FindEmail, CreateUser,
     Audit, Notify, FindUser, StoreOtp, Sign, GetOtp, DeleteOtp, LookupUser, CreateSession,
     FindSession, UpdateSession, Fail
  <2>2. pc'[l] = "done"
    BY <1>1 DEF StepOf, Handle, Receive, Authenticate, CheckRoles, Read, FindEmail, CreateUser,
     Audit, Notify, FindUser, StoreOtp, Sign, GetOtp, DeleteOtp, LookupUser, CreateSession,
     FindSession, UpdateSession, Fail, InFlight, Finish, TypeOK
  <2> QED
    BY <2>1, <2>2
<1>2. op'[l] = op[l] /\ pc'[l] \in {"sign", "done"}
  <2>1. CASE \E r \in Requests : StepOf(r)
    BY <2>1, <1>1, OthersKept
  <2>2. CASE Outside
    BY <2>2, OutsideKeeps
  <2> QED
    BY <2>1, <2>2, Steps
<1> QED
  BY <1>2 DEF Stored, Draws

\* What the three invariants of a request say of it, when it has not moved ...
LEMMA KeptSound ==
  ASSUME IndInv, Next, NEW s \in Requests,
         op'[s] = op[s], pc'[s] = pc[s], answer'[s] = answer[s], found'[s] = found[s],
         s \in sessions' <=> s \in sessions, s \in applied' <=> s \in applied
  PROVE  HandlerSound(s)' /\ Proved(s)' /\ RevokeSound(s)'
<1> TypeOK /\ HandlerSound(s) /\ Proved(s) /\ RevokeSound(s)
  BY DEF IndInv
<1> users \subseteq users' /\ events \subseteq events' /\ sessions \subseteq sessions'
  BY RowsStep
<1>1. HandlerSound(s)'
  BY DEF HandlerSound, OperationSound, Waiting
<1>2. Proved(s)'
  BY StoredStep DEF Proved
<1>3. RevokeSound(s)'
  BY RowsStep DEF RevokeSound, HandlerSound, OperationSound, Waiting
<1> QED
  BY <1>1, <1>2, <1>3

\* ... and when it has ended without writing a row.
LEMMA EndedSound ==
  ASSUME IndInv, Next, NEW s \in Requests,
         pc[s] # "new", pc'[s] = "done", op'[s] = op[s], found'[s] = found[s],
         s \in sessions' <=> s \in sessions, s \in applied' <=> s \in applied
  PROVE  HandlerSound(s)' /\ Proved(s)' /\ RevokeSound(s)'
<1> TypeOK /\ HandlerSound(s) /\ Proved(s) /\ RevokeSound(s)
  BY DEF IndInv
<1> users \subseteq users' /\ events \subseteq events' /\ sessions \subseteq sessions'
  BY RowsStep
<1>1. HandlerSound(s)'
  BY DEF HandlerSound, OperationSound, Waiting
<1>2. Proved(s)'
  BY StoredStep DEF Proved
<1>3. RevokeSound(s)'
  BY RowsStep DEF RevokeSound, HandlerSound, OperationSound, Waiting
<1> QED
  BY <1>1, <1>2, <1>3

\* A step of r keeps what the invariants say of r.
LEMMA OwnSound ==
  ASSUME IndInv, Next, TypeOK', NEW r \in Requests, StepOf(r)
  PROVE  HandlerSound(r)' /\ Proved(r)' /\ RevokeSound(r)'
<1> TypeOK /\ HandlerSound(r) /\ Proved(r) /\ RevokeSound(r)
  BY DEF IndInv
<1> DEFINE Rows == UNCHANGED <<sessions, applied>>
           Ends == pc[r] # "new" /\ pc'[r] = "done" /\ UNCHANGED <<op, found>> /\ Rows
<1> USE DEF Goto, Finish, tables, trail
<1>1. ASSUME NEW o \in Asked, Receive(r, o)
      PROVE  HandlerSound(r)' /\ Proved(r)' /\ RevokeSound(r)'
  <2>1. op'[r] = o /\ pc'[r] \in {"find", "guard"} /\ answer'[r] = answer[r] /\ Rows
        /\ pc[r] = "new"
    BY <1>1 DEF Receive, TypeOK
  <2>2. r \notin applied' \cup sessions'
    BY <2>1 DEF HandlerSound, Waiting
  <2> QED
    BY <2>1, <2>2, AskedFacts DEF HandlerSound, OperationSound, Proved, RevokeSound, Waiting
<1>2. CASE Ends
  BY <1>2, EndedSound
<1>3. CASE Fail(r) \/ Sign(r) \/ Read(r)
  BY <1>3, <1>2 DEF Fail, Sign, Read, InFlight, TypeOK
<1>4. CASE Authenticate(r) /\ ~Ends
  <2>1. op' = op /\ found' = found /\ Rows /\ pc[r] = "guard"
    BY <1>4 DEF Authenticate
  <2>2. pc'[r] # "done"
    BY <1>4, <2>1
  <2>3. \/ Goto(r, "find")
        \/ Goto(r, "roles") /\ op[r].kind = "admin"
    <3>1. Admit(r)
      <4>1. ~Finish(r, "401")
        BY <2>2 DEF TypeOK
      <4> QED
        BY <1>4, <4>1 DEF Authenticate
    <3>2. ~Finish(r, "400") /\ ~Finish(r, "403")
      BY <2>2 DEF TypeOK
    <3> HIDE DEF Goto, Finish
    <3> QED
      BY <3>1, <3>2 DEF Admit
  <2>4. answer' = answer /\ (pc'[r] = "find" \/ (pc'[r] = "roles" /\ op[r].kind = "admin"))
    BY <2>3 DEF TypeOK
  <2> QED
    BY <2>1, <2>4 DEF HandlerSound, OperationSound, Proved, RevokeSound, Waiting
<1>5. CASE (CheckRoles(r) \/ FindEmail(r) \/ FindUser(r)) /\ ~Ends
  <2>1. /\ op' = op /\ answer'[r] = answer[r] /\ Rows /\ pc[r] \in {"roles", "find"}
        /\ \/ pc'[r] = "find"
           \/ pc'[r] = "write" /\ op[r].kind = "register"
           \/ pc'[r] = "write" /\ op[r].kind = "login" /\ op[r].right
    BY <1>5 DEF CheckRoles, FindEmail, FindUser, TypeOK
  <2> QED
    BY <2>1 DEF HandlerSound, OperationSound, Proved, RevokeSound, Waiting
<1>6. CASE CreateUser(r) /\ ~Ends
  <2>1. /\ op' = op /\ answer'[r] = answer[r] /\ pc'[r] = "audit" /\ pc[r] = "write"
        /\ sessions' = sessions /\ r \in applied' /\ op[r].kind = "register"
        /\ op[r].user \in users'
    BY <1>6 DEF CreateUser, TypeOK
  <2> QED
    BY <2>1 DEF HandlerSound, OperationSound, Proved, RevokeSound, Waiting
<1>7. CASE (Audit(r) \/ Notify(r)) /\ ~Ends
  <2>1. /\ op' = op /\ answer'[r] = answer[r] /\ pc'[r] = "notify" /\ pc[r] = "audit"
        /\ UNCHANGED <<users, sessions, applied, revokedAt>> /\ r \in events'
    BY <1>7 DEF Audit, Notify, TypeOK
  <2> QED
    BY <2>1 DEF HandlerSound, OperationSound, Proved, RevokeSound, Waiting
<1>8. CASE StoreOtp(r)
  <2>1. PICK code \in Otps : op' = [op EXCEPT ![r].otp = code]
    BY <1>8 DEF StoreOtp
  <2>2. /\ op[r].kind = "login" /\ pc[r] = "write" /\ pc'[r] = "sign" /\ answer'[r] = answer[r]
        /\ Rows /\ users' = users
    BY <1>8 DEF StoreOtp, TypeOK
  <2>3. /\ op'[r] = [op[r] EXCEPT !.otp = code]
    BY <2>1 DEF TypeOK
  <2>4. /\ op'[r] \in Operation /\ op'[r].kind = "login" /\ op'[r].right = op[r].right
    BY <2>2, <2>3, OperationFacts
  <2> QED
    BY <2>2, <2>4 DEF HandlerSound, OperationSound, Proved, RevokeSound, Waiting
<1>9. CASE GetOtp(r) /\ ~Ends
  <2>1. /\ op' = op /\ answer'[r] = answer[r] /\ pc'[r] = "del" /\ pc[r] = "find" /\ Rows
        /\ op[r].kind = "verify" /\ Matches(r) /\ found'[r] = otp[op[r].user]
    BY <1>9 DEF GetOtp, TypeOK
  <2>2. PICK l \in Requests : l = found'[r] /\ Stored(l, op[r].user) /\ op[l].otp = op[r].otp
    BY <2>1, OperationFacts DEF IndInv, OtpSound, Matches, Stored
  <2>3. Stored(found[r], op[r].user)' /\ op'[found'[r]].otp = op'[r].otp
    <3>1. PICK u : u = op[r].user
      OBVIOUS
    <3>2. Stored(l, u)' /\ op'[l] = op[l]
      BY <2>2, <3>1, StoredStep
    <3> QED
      BY <2>1, <2>2, <3>1, <3>2 DEF Stored, Draws
  <2> QED
    BY <2>1, <2>3 DEF HandlerSound, OperationSound, Proved, RevokeSound, Waiting
<1>10. CASE (DeleteOtp(r) \/ LookupUser(r) \/ CreateSession(r)) /\ ~Ends
  <2>1. /\ op' = op /\ answer'[r] = answer[r] /\ pc[r] \in {"del", "lookup", "write"}
        /\ pc'[r] \in {"lookup", "write", "sign"} /\ found' = found
        /\ applied' = applied /\ op[r].kind = "verify" /\ users' = users
        /\ pc'[r] # "sign" => sessions' = sessions
    BY <1>10 DEF DeleteOtp, LookupUser, CreateSession, HandlerSound, TypeOK
  <2>2. Proved(r)'
    <3>1. Stored(found[r], op[r].user) /\ op[found[r]].otp = op[r].otp
      BY <2>1 DEF Proved
    <3> QED
      BY <2>1, <3>1, StoredStep DEF Proved
  <2>3. r \notin applied
    BY <2>1 DEF HandlerSound
  <2>4. pc'[r] # "sign" => r \notin sessions
    BY <2>1 DEF HandlerSound
  <2> QED
    BY <2>1, <2>2, <2>3, <2>4 DEF HandlerSound, OperationSound, RevokeSound, Waiting
<1>11. CASE FindSession(r) /\ ~Ends
  <2>1. /\ op' = op /\ answer'[r] = answer[r] /\ pc'[r] = "write" /\ pc[r] = "find" /\ Rows
        /\ op[r].kind = "revoke" /\ op[r].target \in sessions
    BY <1>11 DEF FindSession, TypeOK
  <2> QED
    BY <2>1 DEF HandlerSound, OperationSound, Proved, RevokeSound, Waiting
<1>12. CASE UpdateSession(r)
  <2>1. /\ op' = op /\ answer'[r] = answer[r] /\ pc'[r] = "audit" /\ pc[r] = "write"
        /\ sessions' = sessions /\ r \in applied' /\ op[r].kind = "revoke"
        /\ op[r].target \in Requests /\ revokedAt'[op[r].target] = Time(r)
    BY <1>12, OperationFacts DEF UpdateSession, TypeOK
  <2>2. Time(r) # None
    BY SessionsAssumption DEF Time
  <2> QED
    BY <2>1, <2>2 DEF HandlerSound, OperationSound, Proved, RevokeSound, Waiting
<1> QED
  BY <1>1, <1>2, <1>3, <1>4, <1>5, <1>6, <1>7, <1>8, <1>9, <1>10, <1>11, <1>12
     DEF StepOf, Handle

LEMMA RequestsSound ==
  ASSUME IndInv, Next, NEW s \in Requests
  PROVE  HandlerSound(s)' /\ Proved(s)' /\ RevokeSound(s)'
<1> TypeOK /\ TypeOK'
  BY SessionsType DEF IndInv
<1>1. CASE StepOf(s)
  BY <1>1, OwnSound
<1>2. ASSUME NEW r \in Requests, StepOf(r), r # s
      PROVE  HandlerSound(s)' /\ Proved(s)' /\ RevokeSound(s)'
  BY <1>2, OthersKept, KeptSound
<1>3. CASE Outside
  BY <1>3, OutsideKeeps, KeptSound, EndedSound
<1> QED
  BY <1>1, <1>2, <1>3, Steps

\* What is alive in Redis afterwards was alive before, or has just been stored.
LEMMA OtpStep ==
  ASSUME IndInv, Next, NEW u \in Users
  PROVE  \/ otp'[u] \in {otp[u], None}
         \/ \E r \in Requests : StoreOtp(r) /\ op[r].user = u /\ otp'[u] = r
<1> TypeOK
  BY DEF IndInv
<1>1. ASSUME NEW r \in Requests, StoreOtp(r)
      PROVE  otp'[u] = otp[u] \/ (op[r].user = u /\ otp'[u] = r)
  BY <1>1 DEF StoreOtp, TypeOK
<1>2. ASSUME NEW r \in Requests, DeleteOtp(r)
      PROVE  otp'[u] \in {otp[u], None}
  BY <1>2 DEF DeleteOtp, TypeOK
<1>3. ASSUME NEW r \in Requests, StepOf(r), ~StoreOtp(r), ~DeleteOtp(r)
      PROVE  otp' = otp
  BY <1>3 DEF StepOf, Handle, Receive, Authenticate, CheckRoles, Read, FindEmail, CreateUser,
     Audit, Notify, FindUser, Sign, GetOtp, LookupUser, CreateSession, FindSession,
     UpdateSession, Fail
<1>4. CASE Outside
  BY <1>4 DEF Outside, Crash, ExpireOtp, ExpireSession, Deactivate, TypeOK
<1> QED
  BY <1>1, <1>2, <1>3, <1>4, Steps

LEMMA OtpIsSound ==
  ASSUME IndInv, Next
  PROVE  OtpSound'
<1> TypeOK
  BY DEF IndInv
<1> SUFFICES ASSUME NEW u \in Users, otp'[u] # None
             PROVE  Stored(otp[u], u)'
  BY DEF OtpSound
<1>1. CASE otp'[u] = otp[u]
  <2>1. PICK l \in Requests : l = otp[u] /\ Stored(l, u)
    BY <1>1 DEF IndInv, OtpSound, Stored
  <2> QED
    BY <1>1, <2>1, StoredStep
<1>2. ASSUME NEW r \in Requests, StoreOtp(r), op[r].user = u, otp'[u] = r
      PROVE  Stored(otp[u], u)'
  <2>1. PICK code \in Otps : op' = [op EXCEPT ![r].otp = code]
    BY <1>2 DEF StoreOtp
  <2>2. pc[r] = "write" /\ op[r].kind = "login" /\ pc'[r] = "sign" /\ op[r].right
    BY <1>2 DEF StoreOtp, Goto, TypeOK, IndInv, HandlerSound
  <2>3. op'[r] = [op[r] EXCEPT !.otp = code]
    BY <2>1 DEF TypeOK
  <2>4. /\ op'[r].kind = "login" /\ op'[r].user = u /\ op'[r].right /\ op'[r].otp = code
    BY <1>2, <2>2, <2>3, OperationFacts
  <2> QED
    BY <1>2, <2>2, <2>4 DEF Stored, Draws
<1> QED
  BY <1>1, <1>2, OtpStep

LEMMA UsedOtpStaysGone ==
  ASSUME IndInv, Next
  PROVE  UsedOtpIsGone'
<1> DEFINE Used(s) == op[s].kind = "verify" /\ (pc[s] \in {"lookup", "write", "sign"} \/ s \in sessions)
<1> TypeOK
  BY DEF IndInv
<1> SUFFICES ASSUME NEW s \in Requests, Used(s)'
             PROVE  otp'[op'[s].user] # found'[s]
  BY DEF UsedOtpIsGone
<1>1. /\ HandlerSound(s)' /\ Proved(s)' /\ op'[s].user \in Users
      /\ Stored(found[s], op[s].user)' /\ found'[s] \in Requests /\ found'[s] # None
  BY RequestsSound, SessionsAssumption
     DEF Proved, Stored, HandlerSound, OperationSound, Operation, Waiting
<1>2. CASE Used(s) /\ op'[s] = op[s] /\ found'[s] = found[s]
  <2>1. otp[op[s].user] # found[s] /\ Stored(found[s], op[s].user)
    BY <1>2 DEF IndInv, UsedOtpIsGone, Proved
  <2>2. ASSUME NEW r \in Requests, StoreOtp(r), otp'[op[s].user] = r
        PROVE  otp'[op[s].user] # found[s]
    BY <2>1, <2>2 DEF StoreOtp, Stored
  <2> QED
    BY <1>1, <1>2, <2>1, <2>2, OtpStep
<1>3. CASE DeleteOtp(s)
  <2>1. otp'[op[s].user] = None /\ op' = op
    BY <1>1, <1>3 DEF DeleteOtp, TypeOK
  <2> QED
    BY <1>1, <2>1
<1>4. ASSUME StepOf(s), ~DeleteOtp(s)
      PROVE  Used(s) /\ op'[s] = op[s] /\ found'[s] = found[s]
  <2> HandlerSound(s)
    BY DEF IndInv
  <2> USE DEF Goto, Finish, tables, trail, TypeOK
  <2>1. CASE \E o \in Asked : Receive(s, o)
    BY <2>1 DEF Receive, HandlerSound, Waiting
  <2>2. CASE Authenticate(s) \/ CheckRoles(s) \/ Read(s) \/ FindEmail(s) \/ FindUser(s)
    BY <2>2 DEF Authenticate, Admit, CheckRoles, Read, FindEmail, FindUser, HandlerSound, Waiting
  <2>3. CASE CreateUser(s) \/ Audit(s) \/ Notify(s) \/ FindSession(s) \/ UpdateSession(s)
    BY <2>3 DEF CreateUser, Audit, Notify, FindSession, UpdateSession, HandlerSound
  <2>4. CASE GetOtp(s) \/ LookupUser(s) \/ CreateSession(s) \/ Sign(s) \/ Fail(s)
    BY <2>4 DEF GetOtp, LookupUser, CreateSession, Sign, Fail, InFlight, HandlerSound, Waiting
  <2>5. CASE StoreOtp(s)
    <3>1. PICK code \in Otps : op' = [op EXCEPT ![s].otp = code]
      BY <2>5 DEF StoreOtp
    <3>2. op'[s] = [op[s] EXCEPT !.otp = code] /\ op[s].kind = "login" /\ pc[s] = "write"
      BY <2>5, <3>1 DEF StoreOtp
    <3> QED
      BY <3>2, OperationFacts
  <2> QED
    BY <1>4, <2>1, <2>2, <2>3, <2>4, <2>5 DEF StepOf, Handle
<1>5. ASSUME NEW r \in Requests, StepOf(r), r # s
      PROVE  Used(s) /\ op'[s] = op[s] /\ found'[s] = found[s]
  BY <1>5, OthersKept
<1>6. ASSUME Outside
      PROVE  Used(s) /\ op'[s] = op[s] /\ found'[s] = found[s]
  BY <1>6, OutsideKeeps
<1> QED
  BY <1>2, <1>3, <1>4, <1>5, <1>6, Steps

LEMMA TrailStaysSound ==
  ASSUME IndInv, Next
  PROVE  TrailSound'
<1> TypeOK /\ TrailSound
  BY DEF IndInv
<1> DEFINE Creates(x) == x \in applied /\ op[x].kind = "register"
<1> USE DEF Goto, Finish, tables, trail
<1>1. notices' \subseteq events' /\ events' \subseteq applied'
  <2>1. ASSUME NEW r \in Requests, Audit(r) \/ Notify(r)
        PROVE  notices' \subseteq events' /\ events' \subseteq applied'
    BY <2>1 DEF Audit, Notify, IndInv, HandlerSound, TrailSound
  <2>2. ASSUME NEW r \in Requests, StepOf(r), ~(Audit(r) \/ Notify(r))
        PROVE  UNCHANGED <<notices, events>>
    BY <2>2 DEF StepOf, Handle, Receive, Authenticate, CheckRoles, Read, FindEmail, CreateUser,
       FindUser, StoreOtp, Sign, GetOtp, DeleteOtp, LookupUser, CreateSession,
       FindSession, UpdateSession, Fail
  <2>3. CASE Outside
    BY <2>3, RowsStep DEF Outside, Crash, ExpireOtp, ExpireSession, Deactivate, TrailSound
  <2> QED
    BY <2>1, <2>2, <2>3, RowsStep, Steps DEF TrailSound
<1>2. ASSUME NEW s \in Requests, answer'[s] = "200", op'[s].kind \in {"register", "revoke"}
      PROVE  s \in events'
  <2>1. CASE answer'[s] = answer[s] /\ op'[s] = op[s]
    BY <1>2, <2>1, RowsStep DEF TrailSound
  <2>2. ASSUME StepOf(s)
        PROVE  s \in events'
    <3> HandlerSound(s)
      BY DEF IndInv
    <3>1. CASE Audit(s) \/ Notify(s)
      BY <1>2, <2>2, <3>1 DEF Audit, Notify, HandlerSound
    <3>2. CASE StoreOtp(s) \/ \E o \in Asked : Receive(s, o)
      BY <1>2, <2>2, <3>2 DEF StoreOtp, Receive, HandlerSound
    <3>3. CASE Sign(s) \/ Read(s)
      BY <1>2, <2>2, <3>3 DEF Sign, Read, HandlerSound
    <3>4. CASE Fail(s)
      BY <1>2, <2>2, <3>4 DEF Fail, TypeOK
    <3>5. CASE Authenticate(s) \/ CheckRoles(s) \/ FindEmail(s) \/ CreateUser(s) \/ FindUser(s)
      BY <1>2, <2>1, <3>5 DEF Authenticate, Admit, CheckRoles, FindEmail, CreateUser, FindUser,
         TypeOK
    <3>6. CASE \/ GetOtp(s) \/ DeleteOtp(s) \/ LookupUser(s) \/ CreateSession(s)
               \/ FindSession(s) \/ UpdateSession(s)
      BY <1>2, <2>1, <3>6 DEF GetOtp, DeleteOtp, LookupUser, CreateSession, FindSession,
         UpdateSession, TypeOK
    <3> QED
      BY <2>2, <3>1, <3>2, <3>3, <3>4, <3>5, <3>6 DEF StepOf, Handle
  <2>3. ASSUME NEW r \in Requests, StepOf(r), r # s
        PROVE  answer'[s] = answer[s] /\ op'[s] = op[s]
    BY <2>3, OthersKept
  <2>4. CASE Outside
    BY <1>2, <2>1, <2>4, OutsideKeeps
  <2> QED
    BY <2>1, <2>2, <2>3, <2>4, Steps
<1>3. ASSUME NEW x \in applied', NEW y \in applied', op'[x].kind = "register",
             op'[y].kind = "register", op'[x].user = op'[y].user
      PROVE  x = y
  <2> x \in Requests /\ y \in Requests
    BY SessionsType DEF TypeOK
  <2>1. ASSUME NEW s \in Requests, Creates(s)', ~(StepOf(s) /\ CreateUser(s))
        PROVE  Creates(s) /\ op'[s] = op[s]
    <3> HandlerSound(s)
      BY DEF IndInv
    <3>1. ASSUME NEW r \in Requests, StepOf(r), r # s
          PROVE  Creates(s) /\ op'[s] = op[s]
      BY <2>1, <3>1, OthersKept
    <3>2. CASE Outside
      BY <2>1, <3>2, OutsideKeeps
    <3>3. ASSUME StepOf(s), ~UpdateSession(s)
          PROVE  Creates(s) /\ op'[s] = op[s]
      <4>1. applied' = applied
        BY <2>1, <3>3 DEF StepOf, Handle, Receive, Authenticate, CheckRoles, Read, FindEmail,
           Audit, Notify, FindUser, StoreOtp, Sign, GetOtp, DeleteOtp, LookupUser,
           CreateSession, FindSession, Fail
      <4>2. pc[s] # "new" /\ pc[s] # "write"
        BY <2>1, <4>1 DEF HandlerSound, Waiting
      <4>3. op' = op
        BY <2>1, <3>3, <4>2 DEF StepOf, Handle, Receive, Authenticate, CheckRoles, Read, FindEmail,
           Audit, Notify, FindUser, StoreOtp, Sign, GetOtp, DeleteOtp, LookupUser,
           CreateSession, FindSession, Fail
      <4> QED
        BY <2>1, <4>1, <4>3
    <3>4. ~UpdateSession(s)
      BY <2>1 DEF UpdateSession
    <3> QED
      BY <3>1, <3>2, <3>3, <3>4, Steps
  <2>2. ASSUME NEW s \in Requests, CreateUser(s), Creates(s)',
               NEW q \in Requests, Creates(q), q # s
        PROVE  op[q].user # op[s].user
    <3>1. s \notin applied
      BY <2>2 DEF CreateUser, IndInv, HandlerSound
    <3>2. op[s].user \notin users
      BY <2>2, <3>1 DEF CreateUser
    <3> QED
      BY <2>2, <3>2 DEF IndInv, HandlerSound
  <2>3. ASSUME NEW s \in Requests, CreateUser(s)
        PROVE  op' = op
    BY <2>3 DEF CreateUser
  <2>4. ASSUME NEW s \in Requests, CreateUser(s), NEW q \in Requests, CreateUser(q),
               StepOf(s), StepOf(q)
        PROVE  s = q \/ (~Creates(s)' /\ ~Creates(q)') \/ (Creates(s) \/ Creates(q))
    <3>1. ASSUME q # s PROVE s \in applied' <=> s \in applied
      BY <2>4, <3>1, OthersKept
    <3>2. ASSUME q # s PROVE q \in applied' <=> q \in applied
      BY <2>4, <3>2, OthersKept
    <3> QED
      BY <2>3, <2>4, <3>1, <3>2
  <2>5. ASSUME NEW s \in Requests, CreateUser(s)
        PROVE  ~Creates(s)
    BY <2>5 DEF CreateUser, IndInv, HandlerSound
  <2> QED
    BY <1>3, <2>1, <2>2, <2>3, <2>4, <2>5 DEF TrailSound
<1> QED
  BY <1>1, <1>2, <1>3 DEF TrailSound

LEMMA SessionsStep == IndInv /\ Next => IndInv'
  BY SessionsType, RequestsSound, OtpIsSound, UsedOtpStaysGone, TrailStaysSound DEF IndInv

LEMMA SessionsStutter == IndInv /\ UNCHANGED vars => IndInv'
  BY DEF IndInv, vars, tables, trail, TypeOK, HandlerSound, OperationSound, Proved, Stored, Draws,
     RevokeSound, OtpSound, UsedOtpIsGone, TrailSound, Waiting

\* IndInv is an invariant of the program.
THEOREM SessionsInvariant == Spec => []IndInv
<1>1. IndInv /\ [Next]_vars => IndInv'
  BY SessionsStep, SessionsStutter
<1> QED
  BY SessionsInit, <1>1, PTL DEF Spec

\* Every variable keeps its type: a handler holds on to a login or a revocation, never
\* to a bare OTP.
THEOREM SessionsTypeCorrect == Spec => []TypeOK
<1>1. IndInv => TypeOK
  BY DEF IndInv
<1> QED
  BY SessionsInvariant, <1>1, PTL

\* auth.service.ts login and verifyMfa: every session goes back to a password and to
\* the OTP of a login of the same user.
THEOREM EverySessionIsProved == Spec => []SessionIsProved
<1>1. IndInv => SessionIsProved
  BY DEF IndInv, SessionIsProved, Proved, Stored, TypeOK, HandlerSound
<1> QED
  BY SessionsInvariant, <1>1, PTL

\* auth.service.ts verifyMfa: an OTP that has been used is never alive again.
THEOREM AUsedOtpIsGone == Spec => []UsedOtpIsGone
<1>1. IndInv => UsedOtpIsGone
  BY DEF IndInv
<1> QED
  BY SessionsInvariant, <1>1, PTL

\* auth.service.ts register and revokeSession: rows, events and answers agree, and an
\* address is registered once.
THEOREM AuthTrailIsSound == Spec => []TrailSound
<1>1. IndInv => TrailSound
  BY DEF IndInv
<1> QED
  BY SessionsInvariant, <1>1, PTL

\* jwt.strategy.ts validate: a session whose revocation has been answered lets no
\* request in.
THEOREM ARevokedSessionIsRefused == Spec => RevokedIsRefused
<1> DEFINE Refused == \A r, q \in Requests : Admitted(r) => ~Revokes(q, op[r].token)
<1>1. IndInv /\ [Next]_vars => [Refused]_vars
  <2> SUFFICES ASSUME IndInv, Next, NEW r \in Requests, NEW q \in Requests,
                      Admitted(r), Revokes(q, op[r].token)
               PROVE  FALSE
    BY DEF vars
  <2> TypeOK /\ pc[r] = "guard" /\ pc'[r] \in {"roles", "find"}
    BY DEF IndInv, Admitted
  <2>1. StepOf(r)
    <3>1. ASSUME NEW x \in Requests, StepOf(x), x # r
          PROVE  FALSE
      BY <3>1, OthersKept
    <3>2. ~Outside
      BY OutsideKeeps
    <3> QED
      BY <3>1, <3>2, Steps
  <2>2. ~Fail(r)
    BY DEF Fail, Finish, TypeOK
  <2>3. Authenticate(r)
    BY <2>1, <2>2 DEF StepOf, Handle, Receive, CheckRoles, Read, FindEmail, CreateUser,
       Audit, Notify, FindUser, StoreOtp, Sign, GetOtp, DeleteOtp, LookupUser,
       CreateSession, FindSession, UpdateSession
  <2>4. Live(op[r].token)
    BY <2>3 DEF Authenticate, Finish, TypeOK
  <2>5. q \in applied /\ op[q].kind = "revoke" /\ op[q].target = op[r].token
    BY DEF Revokes, IndInv, TrailSound
  <2>6. op[r].token \in sessions /\ revokedAt[op[r].token] # None
    BY <2>5 DEF IndInv, RevokeSound
  <2>7. op[op[r].token].kind = "verify"
    BY <2>6 DEF IndInv, HandlerSound, TypeOK
  <2> QED
    BY <2>4, <2>6, <2>7 DEF Live
<1> QED
  BY SessionsInvariant, <1>1, PTL DEF Spec, RevokedIsRefused
=============================================================================
