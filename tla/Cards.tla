------------------------------- MODULE Cards --------------------------------
(***************************************************************************)
(* The card service of backend/src/cards: block, unblock, issue, close and *)
(* the two steps of revealing a card's details.  No operation runs in a    *)
(* database transaction: each await is a step of its own, in the order     *)
(*                                                                         *)
(*   new -> profile -> read -> write -> audit -> notify -> done            *)
(*                                  \-> del -> audit -> done  (verify)      *)
(*                                                                         *)
(* and other requests run in between.  Every write to a card is one UPDATE *)
(* by id, whatever the status has become since the card was read.          *)
(***************************************************************************)
EXTENDS Naturals

CONSTANTS
  Users, Cards, Otps,
  Owner,            \* the user whose profile a card belongs to, once issued
  Issued,           \* the cards the seed creates
  Requests,
  None

ASSUME CardsAssumption ==
  /\ Owner \in [Cards -> Users]
  /\ Issued \subseteq Cards
  /\ None \notin Otps \cup Cards

VARIABLES
  status,      \* card -> its status, NONE before it is issued
  blockedAt,   \* cards whose blockedAt is not null
  closedAt,    \* cards whose closedAt is not null
  verified,    \* users whose kycStatus is VERIFIED
  otps,        \* (key, otp): the reveal challenges alive in Redis
  events,      \* requests whose AuditEvent row is written
  notices,     \* requests whose Notification row is written
  applied,     \* requests whose own write (card row, or Redis) is done
  op,          \* request -> what it asks for
  pc,          \* request -> where its handler is
  answer       \* request -> the HTTP response

cards == <<status, blockedAt, closedAt>>
vars == <<cards, verified, otps, events, notices, applied, op, pc, answer>>

Statuses == {"NONE", "ACTIVE", "BLOCKED", "CLOSED"}
Kinds == {"block", "unblock", "issue", "close", "initiate", "verify"}
Pcs == {"new", "profile", "read", "write", "del", "audit", "notify", "done"}
Codes == {"none", "200", "400", "403", "404", "500", "lost"}

Operation ==
  [kind : Kinds, user : Users, card : Cards \cup {None}, otp : Otps \cup {None}]
NoOperation == [kind |-> "none"]

Goto(r, l) == pc' = [pc EXCEPT ![r] = l] /\ UNCHANGED answer
Finish(r, code) ==
  /\ pc' = [pc EXCEPT ![r] = "done"]
  /\ answer' = [answer EXCEPT ![r] = code]

\* card:reveal:<user>:<card>
RevealKey(u, c) == <<u, c>>

Challenge(r, otp) == <<RevealKey(op[r].user, op[r].card), otp>>

-----------------------------------------------------------------------------

\* A request to the cards controller; verify carries an OTP.
Receive(r, o) ==
  /\ pc[r] = "new"
  /\ op' = [op EXCEPT ![r] = o]
  /\ Goto(r, "profile")
  /\ UNCHANGED <<cards, verified, otps, events, notices, applied>>

\* The profile is read first, and with it kycStatus where it is asked for.
NeedsKyc(r) == op[r].kind \in {"unblock", "issue"}

ReadProfile(r) ==
  /\ pc[r] = "profile"
  /\ IF NeedsKyc(r) /\ op[r].user \notin verified THEN Finish(r, "403")
     ELSE Goto(r, "read")
  /\ UNCHANGED <<cards, verified, otps, events, notices, applied, op>>

\* Then the card.  Blocking and unblocking find closed cards too.  Issuing reads the
\* account instead, which is not modelled and may be none of the customer's.
Finds(r) ==
  LET c == op[r].card
  IN  CASE op[r].kind = "issue" -> TRUE
        [] op[r].kind \in {"block", "unblock"} ->
             Owner[c] = op[r].user /\ status[c] # "NONE"
        [] OTHER -> Owner[c] = op[r].user /\ status[c] \in {"ACTIVE", "BLOCKED"}

ReadCard(r) ==
  /\ pc[r] = "read"
  /\ \/ Finds(r) /\ Goto(r, "write")
     \/ (~Finds(r) \/ op[r].kind = "issue") /\ Finish(r, "404")
  /\ UNCHANGED <<cards, verified, otps, events, notices, applied, op>>

Block(r) ==
  /\ op[r].kind = "block"
  /\ status' = [status EXCEPT ![op[r].card] = "BLOCKED"]
  /\ blockedAt' = blockedAt \cup {op[r].card}
  /\ UNCHANGED <<closedAt, op>>

\* Faulty: blockedAt is left as it is.
UnblockKeepsDate(r) ==
  /\ op[r].kind = "unblock"
  /\ status' = [status EXCEPT ![op[r].card] = "ACTIVE"]
  /\ UNCHANGED <<blockedAt, closedAt, op>>

Unblock(r) ==
  /\ op[r].kind = "unblock"
  /\ status' = [status EXCEPT ![op[r].card] = "ACTIVE"]
  /\ blockedAt' = blockedAt \ {op[r].card}
  /\ UNCHANGED <<closedAt, op>>

Close(r) ==
  /\ op[r].kind = "close"
  /\ status' = [status EXCEPT ![op[r].card] = "CLOSED"]
  /\ closedAt' = closedAt \cup {op[r].card}
  /\ UNCHANGED <<blockedAt, op>>

Issue(r) ==
  /\ op[r].kind = "issue"
  /\ \E c \in Cards :
       /\ status[c] = "NONE" /\ Owner[c] = op[r].user
       /\ status' = [status EXCEPT ![c] = "ACTIVE"]
       /\ op' = [op EXCEPT ![r].card = c]
  /\ UNCHANGED <<blockedAt, closedAt>>

WriteCard(r) ==
  /\ pc[r] = "write"
  /\ Block(r) \/ Unblock(r) \/ Close(r) \/ Issue(r)
  /\ applied' = applied \cup {r}
  /\ Goto(r, "audit")
  /\ UNCHANGED <<verified, otps, events, notices>>

OtherChallenges(r) == {x \in otps : x[1] # RevealKey(op[r].user, op[r].card)}

\* initiateReveal: SET card:reveal:... otp EX 300, replacing what was there.  There
\* is no audit event and no notification.
InitiateReveal(r) ==
  /\ pc[r] = "write" /\ op[r].kind = "initiate"
  /\ \E otp \in Otps :
       /\ op' = [op EXCEPT ![r].otp = otp]
       /\ otps' = OtherChallenges(r) \cup {Challenge(r, otp)}
  /\ applied' = applied \cup {r}
  /\ Finish(r, "200")
  /\ UNCHANGED <<cards, verified, events, notices>>

\* Faulty: any challenge alive for the card will do.
MatchesAny(r) == otps # OtherChallenges(r)

Matches(r) == Challenge(r, op[r].otp) \in otps

\* verifyReveal: GET and the comparison ...
VerifyReveal(r) ==
  /\ pc[r] = "write" /\ op[r].kind = "verify"
  /\ IF Matches(r) THEN Goto(r, "del")
     ELSE Finish(r, "400")
  /\ UNCHANGED <<cards, verified, otps, events, notices, applied, op>>

\* ... then DEL, of whatever challenge is there by now.
DeleteOtp(r) ==
  /\ pc[r] = "del"
  /\ otps' = OtherChallenges(r)
  /\ applied' = applied \cup {r}
  /\ Goto(r, "audit")
  /\ UNCHANGED <<cards, verified, events, notices, op>>

\* Faulty: blocking a card leaves no audit event.
AuditForgetsBlock(r) ==
  /\ pc[r] = "audit"
  /\ events' = IF op[r].kind = "block" THEN events ELSE events \cup {r}
  /\ IF op[r].kind = "verify" THEN Finish(r, "200") ELSE Goto(r, "notify")
  /\ UNCHANGED <<cards, verified, otps, notices, applied, op>>

\* auditEvent.create; a reveal then returns the details.
Audit(r) ==
  /\ pc[r] = "audit"
  /\ events' = events \cup {r}
  /\ IF op[r].kind = "verify" THEN Finish(r, "200") ELSE Goto(r, "notify")
  /\ UNCHANGED <<cards, verified, otps, notices, applied, op>>

\* NotificationsService.create, which swallows its errors.
Notify(r) ==
  /\ pc[r] = "notify"
  /\ notices' \in {notices, notices \cup {r}}
  /\ Finish(r, "200")
  /\ UNCHANGED <<cards, verified, otps, events, applied, op>>

InFlight(r) == pc[r] \notin {"new", "done"}

\* A statement fails: what the handler has written stays.
Fail(r) ==
  /\ InFlight(r)
  /\ Finish(r, "500")
  /\ UNCHANGED <<cards, verified, otps, events, notices, applied, op>>

\* The server process stops: the handlers in flight go no further.
Crash ==
  /\ \E r \in Requests : InFlight(r)
  /\ pc' = [r \in Requests |-> IF InFlight(r) THEN "done" ELSE pc[r]]
  /\ answer' = [r \in Requests |-> IF InFlight(r) THEN "lost" ELSE answer[r]]
  /\ UNCHANGED <<cards, verified, otps, events, notices, applied, op>>

\* The 300 seconds of a challenge are over.
ExpireOtp ==
  /\ \E x \in otps : otps' = otps \ {x}
  /\ UNCHANGED <<cards, verified, events, notices, applied, op, pc, answer>>

SetKyc(u) ==
  /\ verified' \in {verified \cup {u}, verified \ {u}}
  /\ UNCHANGED <<cards, otps, events, notices, applied, op, pc, answer>>

-----------------------------------------------------------------------------

Asked == {o \in Operation : /\ (o.card = None) <=> (o.kind = "issue")
                            /\ (o.otp = None) <=> (o.kind # "verify")}

Init ==
  /\ status = [c \in Cards |-> IF c \in Issued THEN "ACTIVE" ELSE "NONE"]
  /\ blockedAt = {} /\ closedAt = {}
  /\ verified = Users
  /\ otps = {}
  /\ events = {} /\ notices = {} /\ applied = {}
  /\ op = [r \in Requests |-> NoOperation]
  /\ pc = [r \in Requests |-> "new"]
  /\ answer = [r \in Requests |-> "none"]

Handle(r) ==
  \/ ReadProfile(r) \/ ReadCard(r) \/ WriteCard(r)
  \/ InitiateReveal(r) \/ VerifyReveal(r) \/ DeleteOtp(r)
  \/ Audit(r) \/ Notify(r)

Next ==
  \/ \E r \in Requests : Handle(r) \/ Fail(r) \/ \E o \in Asked : Receive(r, o)
  \/ Crash \/ ExpireOtp
  \/ \E u \in Users : SetKyc(u)

Spec == Init /\ [][Next]_vars

-----------------------------------------------------------------------------
(* Properties.                                                             *)

\* The types of the variables; what an operation says is set when it arrives.
TypeOK ==
  /\ status \in [Cards -> Statuses]
  /\ blockedAt \subseteq Cards /\ closedAt \subseteq Cards
  /\ verified \subseteq Users
  /\ \A x \in otps : x[2] \in Otps
  /\ events \subseteq Requests /\ notices \subseteq Requests /\ applied \subseteq Requests
  /\ op \in [Requests -> Operation \cup {NoOperation}]
  /\ pc \in [Requests -> Pcs]
  /\ answer \in [Requests -> Codes]

\* The audit trail never claims what did not happen, a notification never precedes
\* its audit event, and no operation but a challenge reports success without one:
\* with no transaction around them, only the order of the writes ensures it.
AuditTrailSound ==
  /\ notices \subseteq events /\ events \subseteq applied
  /\ \A r \in Requests :
       answer[r] = "200" /\ op[r].kind # "initiate" => r \in events

\* An active card has no blockedAt and a blocked one has it, however the requests to
\* block, unblock and close it interleave.
StatusMatchesDates ==
  \A c \in Cards : /\ status[c] \in {"NONE", "ACTIVE"} => c \notin blockedAt
                   /\ status[c] = "BLOCKED" => c \in blockedAt
                   /\ status[c] = "CLOSED" => c \in closedAt

Challenged(r) ==
  /\ Owner[op[r].card] = op[r].user
  /\ \E i \in applied : /\ op[i].kind = "initiate"
                        /\ op[i].card = op[r].card
                        /\ op[i].otp = op[r].otp

\* A card's details are returned only to its owner, for an OTP that was drawn for
\* this very card.
RevealIsChallenged ==
  \A r \in Requests : answer[r] = "200" /\ op[r].kind = "verify" => Challenged(r)

\* A closed card stays closed.
ClosedIsPermanent == \A c \in closedAt : status[c] = "CLOSED"

-----------------------------------------------------------------------------
(* The inductive invariant.                                                *)

\* What is known of a handler at each of its steps.
HandlerSound(r) ==
  /\ pc[r] \notin {"new", "done"} \/ r \in applied \/ answer[r] = "200" =>
       /\ op[r] \in Operation
       /\ op[r].kind # "issue" => op[r].card \in Cards
       /\ op[r].kind = "verify" => op[r].otp \in Otps
  /\ pc[r] \in {"write", "del", "audit"} /\ op[r].kind # "issue" =>
       Owner[op[r].card] = op[r].user
  /\ pc[r] \in {"new", "profile", "read", "write", "del"} => r \notin applied
  /\ pc[r] # "done" <=> answer[r] = "none"
  /\ pc[r] = "del" => op[r].kind = "verify"
  /\ pc[r] = "audit" => r \in applied /\ op[r].kind # "initiate"
  /\ pc[r] = "notify" => r \in events /\ op[r].kind \notin {"verify", "initiate"}
  /\ pc[r] = "del" \/ (pc[r] = "audit" /\ op[r].kind = "verify") => Challenged(r)

\* Every challenge alive in Redis was put there by a request that drew its OTP.
ChallengesSound ==
  \A x \in otps : \E i \in applied :
     op[i].kind = "initiate" /\ op[i].otp \in Otps /\ x = Challenge(i, op[i].otp)

IndInv ==
  /\ TypeOK
  /\ \A r \in Requests : HandlerSound(r)
  /\ ChallengesSound
  /\ AuditTrailSound
  /\ StatusMatchesDates
  /\ RevealIsChallenged
=============================================================================
