----------------------------- MODULE CardsProofs ------------------------------
(***************************************************************************)
(* Proofs about Cards, for any users, cards, OTPs and number of requests.  *)
(***************************************************************************)
EXTENDS Cards, TLAPS

USE DEF NoOperation

LEMMA CardsInit == Init => IndInv
  BY CardsAssumption DEF Init, IndInv, TypeOK, HandlerSound, ChallengesSound, AuditTrailSound,
     StatusMatchesDates, RevealIsChallenged, Statuses, Pcs, Codes

\* The steps of the handler of r, but for the ones that come from outside.
StepOf(r) == (\E o \in Asked : Receive(r, o)) \/ Handle(r) \/ Fail(r)

\* The fields of r's operation, once it has arrived.
LEMMA OperationFacts ==
  ASSUME IndInv, NEW r \in Requests, pc[r] \notin {"new", "done"}
  PROVE  /\ op[r] \in Operation
         /\ op[r].kind \in Kinds /\ op[r].user \in Users
         /\ op[r].kind # "issue" => op[r].card \in Cards
         /\ op[r].kind = "verify" => op[r].otp \in Otps
         /\ \A c \in Cards : [op[r] EXCEPT !.card = c] \in Operation
         /\ \A c \in Cards : [op[r] EXCEPT !.card = c].kind = op[r].kind
         /\ \A o \in Otps : /\ [op[r] EXCEPT !.otp = o] \in Operation
                            /\ [op[r] EXCEPT !.otp = o].kind = op[r].kind
                            /\ [op[r] EXCEPT !.otp = o].user = op[r].user
                            /\ [op[r] EXCEPT !.otp = o].card = op[r].card
                            /\ [op[r] EXCEPT !.otp = o].otp = o
<1>1. /\ op[r] \in Operation
      /\ op[r].kind # "issue" => op[r].card \in Cards
      /\ op[r].kind = "verify" => op[r].otp \in Otps
  BY DEF IndInv, HandlerSound
<1> QED
  BY <1>1 DEF Operation

LEMMA CardsType ==
  ASSUME IndInv, Next
  PROVE  TypeOK'
<1> TypeOK
  BY DEF IndInv
<1> USE DEF TypeOK, Goto, Finish, cards, Pcs, Codes
<1>1. ASSUME NEW r \in Requests, NEW o \in Asked, Receive(r, o)
      PROVE  TypeOK'
  BY <1>1 DEF Receive, Asked
<1>2. ASSUME NEW r \in Requests, Handle(r)
      PROVE  TypeOK'
  <2>1. CASE ReadProfile(r) \/ ReadCard(r)
    BY <2>1 DEF ReadProfile, ReadCard
  <2>2. CASE WriteCard(r)
    <3>1. pc[r] = "write"
      BY <2>2 DEF WriteCard
    <3>2. CASE Block(r) \/ Unblock(r) \/ Close(r)
      BY <2>2, <3>1, <3>2, OperationFacts DEF WriteCard, Block, Unblock, Close, Statuses
    <3>3. CASE Issue(r)
      BY <2>2, <3>1, <3>3, OperationFacts DEF WriteCard, Issue, Statuses
    <3> QED
      BY <2>2, <3>2, <3>3 DEF WriteCard
  <2>3. CASE InitiateReveal(r)
    <3>1. pc[r] = "write"
      BY <2>3 DEF InitiateReveal
    <3> QED
      BY <2>3, <3>1, OperationFacts DEF InitiateReveal, OtherChallenges, Challenge
  <2>4. CASE VerifyReveal(r) \/ DeleteOtp(r) \/ Audit(r) \/ Notify(r)
    BY <2>4 DEF VerifyReveal, DeleteOtp, OtherChallenges, Audit, Notify
  <2> QED
    BY <1>2, <2>1, <2>2, <2>3, <2>4 DEF Handle
<1>3. ASSUME NEW r \in Requests, Fail(r)
      PROVE  TypeOK'
  BY <1>3 DEF Fail
<1>4. CASE Crash \/ ExpireOtp \/ \E u \in Users : SetKyc(u)
  BY <1>4 DEF Crash, ExpireOtp, SetKyc
<1> QED
  BY <1>1, <1>2, <1>3, <1>4 DEF Next

\* What a request that has made its write asked for never changes.
LEMMA AppliedStep ==
  ASSUME IndInv, Next
  PROVE  /\ \A i \in applied : i \in applied' /\ op'[i] = op[i]
         /\ events \subseteq events'
<1> TypeOK
  BY DEF IndInv
<1>1. ASSUME NEW r \in Requests, StepOf(r)
      PROVE  /\ applied \subseteq applied' /\ events \subseteq events'
             /\ \A i \in Requests : i # r \/ pc[r] \notin {"new", "write"} => op'[i] = op[i]
  BY <1>1 DEF StepOf, Handle, Receive, ReadProfile, ReadCard, WriteCard, Block, Unblock, Close,
     Issue, InitiateReveal, VerifyReveal, DeleteOtp, Audit, Notify, Fail, TypeOK
<1>2. \A r \in applied : r \in Requests /\ pc[r] \notin {"new", "write"}
  BY DEF TypeOK, IndInv, HandlerSound
<1>3. CASE Crash \/ ExpireOtp \/ \E u \in Users : SetKyc(u)
  BY <1>3 DEF Crash, ExpireOtp, SetKyc
<1> QED
  BY <1>1, <1>2, <1>3 DEF Next, StepOf

\* A challenge a request has met is never unmet.
LEMMA ChallengedStep ==
  ASSUME IndInv, Next, NEW s \in Requests, Challenged(s), op'[s] = op[s]
  PROVE  Challenged(s)'
  BY AppliedStep DEF Challenged

LEMMA HandlerKept ==
  ASSUME IndInv, Next, NEW s \in Requests, op'[s] = op[s], pc'[s] = pc[s],
         answer'[s] = answer[s], s \in applied' => s \in applied
  PROVE  HandlerSound(s)'
<1> HandlerSound(s)
  BY DEF IndInv
<1> QED
  BY AppliedStep, ChallengedStep DEF HandlerSound, Operation

\* An OTP the challenge of which is in Redis was drawn for this very card.
LEMMA ChallengeMeansDrawn ==
  ASSUME IndInv, NEW r \in Requests, pc[r] = "write", op[r].kind = "verify",
         Challenge(r, op[r].otp) \in otps
  PROVE  Challenged(r)
<1>1. PICK i \in applied : /\ op[i].kind = "initiate"
                           /\ Challenge(r, op[r].otp) = Challenge(i, op[i].otp)
  BY DEF IndInv, ChallengesSound
<1>2. op[i].card = op[r].card /\ op[i].otp = op[r].otp
  BY <1>1 DEF Challenge, RevealKey
<1>3. Owner[op[r].card] = op[r].user
  BY DEF IndInv, HandlerSound
<1> QED
  BY <1>1, <1>2, <1>3 DEF Challenged

LEMMA HandlerStep ==
  ASSUME IndInv, Next, NEW s \in Requests
  PROVE  HandlerSound(s)'
<1> TypeOK /\ HandlerSound(s)
  BY DEF IndInv
<1>1. ASSUME NEW r \in Requests, StepOf(r), s # r
      PROVE  HandlerSound(s)'
  <2>1. /\ op'[s] = op[s] /\ pc'[s] = pc[s] /\ answer'[s] = answer[s]
        /\ s \in applied' => s \in applied
    BY <1>1 DEF StepOf, Handle, Receive, ReadProfile, ReadCard, WriteCard, Block, Unblock,
       Close, Issue, InitiateReveal, VerifyReveal, DeleteOtp, Audit, Notify, Fail, Goto,
       Finish, TypeOK
  <2> QED
    BY <2>1, HandlerKept
<1>2. ASSUME StepOf(s)
      PROVE  HandlerSound(s)'
  <2> USE DEF TypeOK, Goto, Finish
  <2>1. ASSUME NEW o \in Asked, Receive(s, o)
        PROVE  HandlerSound(s)'
    <3>1. /\ o \in Operation /\ o.kind \in Kinds
          /\ o.kind # "issue" => o.card \in Cards
          /\ o.kind = "verify" => o.otp \in Otps
      BY DEF Asked, Operation
    <3> QED
      BY <2>1, <3>1 DEF Receive, HandlerSound, Operation
  <2>2. CASE ReadProfile(s) \/ ReadCard(s)
    BY <2>2 DEF ReadProfile, ReadCard, Finds, HandlerSound, Operation
  <2>3. CASE WriteCard(s)
    <3>1. pc[s] = "write" /\ pc'[s] = "audit" /\ s \in applied' /\ answer' = answer
      BY <2>3 DEF WriteCard
    <3>2. CASE Block(s) \/ Unblock(s) \/ Close(s)
      BY <3>1, <3>2, OperationFacts DEF Block, Unblock, Close, HandlerSound, Operation
    <3>3. CASE Issue(s)
      <4>1. PICK c \in Cards : op' = [op EXCEPT ![s].card = c]
        BY <3>3 DEF Issue
      <4>2. op'[s] \in Operation /\ op'[s].kind = "issue"
        BY <3>1, <3>3, <4>1, OperationFacts DEF Issue
      <4> QED
        BY <3>1, <4>2 DEF HandlerSound, Operation
    <3> QED
      BY <2>3, <3>2, <3>3 DEF WriteCard
  <2>4. CASE InitiateReveal(s)
    <3>1. pc[s] = "write" /\ op[s].kind = "initiate" /\ pc'[s] = "done" /\ answer'[s] = "200"
      BY <2>4 DEF InitiateReveal
    <3>2. PICK otp \in Otps : op' = [op EXCEPT ![s].otp = otp]
      BY <2>4 DEF InitiateReveal
    <3>3. op'[s] \in Operation /\ op'[s].kind = "initiate" /\ op'[s].card \in Cards
      BY <3>1, <3>2, OperationFacts
    <3> QED
      BY <3>1, <3>3 DEF HandlerSound, Operation
  <2>5. CASE VerifyReveal(s)
    BY <2>5, ChallengeMeansDrawn, ChallengedStep DEF VerifyReveal, Matches, HandlerSound, Operation
  <2>6. CASE DeleteOtp(s) \/ Audit(s) \/ Notify(s) \/ Fail(s)
    BY <2>6, ChallengedStep DEF DeleteOtp, Audit, Notify, Fail, InFlight, HandlerSound, Operation
  <2> QED
    BY <1>2, <2>1, <2>2, <2>3, <2>4, <2>5, <2>6 DEF StepOf, Handle
<1>3. CASE Crash
  BY <1>3 DEF Crash, InFlight, HandlerSound, TypeOK, Operation
<1>4. CASE ExpireOtp \/ \E u \in Users : SetKyc(u)
  BY <1>4, HandlerKept DEF ExpireOtp, SetKyc
<1> QED
  BY <1>1, <1>2, <1>3, <1>4 DEF Next, StepOf

LEMMA ChallengesStep ==
  ASSUME IndInv, Next
  PROVE  ChallengesSound'
<1> TypeOK /\ ChallengesSound
  BY DEF IndInv
<1>1. ASSUME NEW x \in otps
      PROVE  (\E i \in applied : /\ op[i].kind = "initiate" /\ op[i].otp \in Otps
                                 /\ x = Challenge(i, op[i].otp))'
  <2>1. PICK i \in applied : /\ op[i].kind = "initiate" /\ op[i].otp \in Otps
                             /\ x = Challenge(i, op[i].otp)
    BY DEF ChallengesSound
  <2>2. i \in applied' /\ op'[i] = op[i]
    BY <2>1, AppliedStep
  <2> QED
    BY <2>1, <2>2 DEF Challenge
<1>2. CASE otps' \subseteq otps
  BY <1>1, <1>2 DEF ChallengesSound
<1>3. ASSUME NEW r \in Requests, InitiateReveal(r)
      PROVE  ChallengesSound'
  <2>1. PICK otp \in Otps : /\ op' = [op EXCEPT ![r].otp = otp]
                            /\ otps' = OtherChallenges(r) \cup {Challenge(r, otp)}
    BY <1>3 DEF InitiateReveal
  <2>2. pc[r] = "write" /\ op[r].kind = "initiate" /\ r \in applied'
    BY <1>3 DEF InitiateReveal
  <2>3. /\ op'[r].kind = "initiate" /\ op'[r].otp = otp
        /\ op'[r].user = op[r].user /\ op'[r].card = op[r].card
    BY <2>1, <2>2, OperationFacts DEF TypeOK
  <2>4. Challenge(r, otp) = Challenge(r, op[r].otp)'
    BY <2>3 DEF Challenge
  <2>5. ASSUME NEW x \in otps'
        PROVE  (\E i \in applied : /\ op[i].kind = "initiate" /\ op[i].otp \in Otps
                                   /\ x = Challenge(i, op[i].otp))'
    <3>1. x \in otps \/ x = Challenge(r, otp)
      BY <2>1, <2>5 DEF OtherChallenges
    <3> QED
      BY <1>1, <2>2, <2>3, <2>4, <3>1
  <2> QED
    BY <2>5 DEF ChallengesSound
<1>4. otps' \subseteq otps \/ \E r \in Requests : InitiateReveal(r)
  BY DEF Next, Handle, Receive, ReadProfile, ReadCard, WriteCard, VerifyReveal, DeleteOtp,
     OtherChallenges, Audit, Notify, Fail, Crash, ExpireOtp, SetKyc
<1> QED
  BY <1>2, <1>3, <1>4

\* A card row is written in one statement, so its status and its dates agree.
LEMMA DatesStep ==
  ASSUME IndInv, Next
  PROVE  StatusMatchesDates'
<1> TypeOK /\ StatusMatchesDates
  BY DEF IndInv
<1>1. ASSUME NEW r \in Requests, WriteCard(r)
      PROVE  StatusMatchesDates'
  BY <1>1 DEF WriteCard, Block, Unblock, Close, Issue, StatusMatchesDates, TypeOK
<1>2. CASE UNCHANGED cards
  BY <1>2 DEF cards, StatusMatchesDates
<1>3. UNCHANGED cards \/ \E r \in Requests : WriteCard(r)
  BY DEF cards, Next, Handle, Receive, ReadProfile, ReadCard, InitiateReveal, VerifyReveal, DeleteOtp,
     Audit, Notify, Fail, Crash, ExpireOtp, SetKyc
<1> QED
  BY <1>1, <1>2, <1>3

\* The order of the writes of one handler, which no other handler disturbs.
LEMMA TrailStep ==
  ASSUME IndInv, Next
  PROVE  AuditTrailSound'
<1> TypeOK /\ AuditTrailSound
  BY DEF IndInv
<1> USE DEF Goto, Finish, TypeOK
<1>1. notices' \subseteq events' /\ events' \subseteq applied'
  <2>1. events' \subseteq events \cup {r \in Requests : pc[r] = "audit"}
    BY DEF Next, Handle, Receive, ReadProfile, ReadCard, WriteCard, InitiateReveal,
       VerifyReveal, DeleteOtp, Audit, Notify, Fail, Crash, ExpireOtp, SetKyc
  <2>2. notices' \subseteq notices \cup {r \in Requests : pc[r] = "notify"}
    BY DEF Next, Handle, Receive, ReadProfile, ReadCard, WriteCard, InitiateReveal,
       VerifyReveal, DeleteOtp, Audit, Notify, Fail, Crash, ExpireOtp, SetKyc
  <2>3. ASSUME NEW r \in Requests
        PROVE  /\ pc[r] = "audit" => r \in applied
               /\ pc[r] = "notify" => r \in events
    BY DEF IndInv, HandlerSound
  <2> QED
    BY <2>1, <2>2, <2>3, AppliedStep DEF AuditTrailSound
<1>2. ASSUME NEW s \in Requests, answer'[s] = "200", op'[s].kind # "initiate"
      PROVE  s \in events'
  <2> HandlerSound(s)
    BY DEF IndInv
  <2>1. CASE answer[s] = "200"
    <3>1. pc[s] = "done"
      BY <2>1 DEF HandlerSound
    <3>2. op'[s] = op[s]
      BY <3>1 DEF Next, Handle, Receive, ReadProfile, ReadCard, WriteCard, Block, Unblock,
         Close, Issue, InitiateReveal, VerifyReveal, DeleteOtp, Audit, Notify, Fail, Crash,
         ExpireOtp, SetKyc
    <3> QED
      BY <1>2, <2>1, <3>2, AppliedStep DEF AuditTrailSound
  <2>2. CASE answer[s] # "200"
    <3>1. InitiateReveal(s) \/ (Audit(s) /\ op[s].kind = "verify") \/ Notify(s)
      BY <1>2, <2>2 DEF Next, Handle, Receive, ReadProfile, ReadCard, WriteCard,
         InitiateReveal, VerifyReveal, DeleteOtp, Audit, Notify, Fail, Crash, ExpireOtp, SetKyc
    <3>2. CASE InitiateReveal(s)
      <4>1. PICK otp \in Otps : op' = [op EXCEPT ![s].otp = otp]
        BY <3>2 DEF InitiateReveal
      <4>2. op'[s].kind = op[s].kind /\ op[s].kind = "initiate"
        BY <3>2, <4>1, OperationFacts DEF InitiateReveal
      <4> QED
        BY <1>2, <4>2
    <3>3. CASE Audit(s)
      BY <3>3 DEF Audit
    <3>4. CASE Notify(s)
      BY <3>4 DEF Notify, HandlerSound
    <3> QED
      BY <3>1, <3>2, <3>3, <3>4
  <2> QED
    BY <2>1, <2>2
<1> QED
  BY <1>1, <1>2 DEF AuditTrailSound

LEMMA RevealStep ==
  ASSUME IndInv, Next
  PROVE  RevealIsChallenged'
<1> TypeOK
  BY DEF IndInv
<1> USE DEF Goto, Finish, TypeOK
<1>1. SUFFICES ASSUME NEW s \in Requests, answer'[s] = "200", op'[s].kind = "verify"
               PROVE  Challenged(s)'
  BY DEF RevealIsChallenged
<1> HandlerSound(s)
  BY DEF IndInv
<1>2. CASE answer[s] = "200"
  <2>1. pc[s] = "done"
    BY <1>2 DEF HandlerSound
  <2>2. op'[s] = op[s]
    BY <2>1 DEF Next, Handle, Receive, ReadProfile, ReadCard, WriteCard, Block, Unblock,
       Close, Issue, InitiateReveal, VerifyReveal, DeleteOtp, Audit, Notify, Fail, Crash,
       ExpireOtp, SetKyc
  <2> QED
    BY <1>1, <1>2, <2>2, ChallengedStep DEF IndInv, RevealIsChallenged
<1>3. CASE answer[s] # "200"
  <2>1. InitiateReveal(s) \/ Audit(s) \/ Notify(s)
    BY <1>1, <1>3 DEF Next, Handle, Receive, ReadProfile, ReadCard, WriteCard,
       InitiateReveal, VerifyReveal, DeleteOtp, Audit, Notify, Fail, Crash, ExpireOtp, SetKyc
  <2>2. CASE InitiateReveal(s)
    <3>1. PICK otp \in Otps : op' = [op EXCEPT ![s].otp = otp]
      BY <2>2 DEF InitiateReveal
    <3>2. op'[s].kind = "initiate"
      BY <2>2, <3>1, OperationFacts DEF InitiateReveal
    <3> QED
      BY <1>1, <3>2
  <2>3. CASE Audit(s)
    BY <1>1, <2>3, ChallengedStep DEF Audit, HandlerSound
  <2>4. CASE Notify(s)
    BY <1>1, <2>4 DEF Notify, HandlerSound
  <2> QED
    BY <2>1, <2>2, <2>3, <2>4
<1> QED
  BY <1>2, <1>3

LEMMA CardsIndStep == IndInv /\ [Next]_vars => IndInv'
<1>1. ASSUME IndInv, Next
      PROVE  IndInv'
  BY <1>1, CardsType, HandlerStep, ChallengesStep, TrailStep, DatesStep, RevealStep DEF IndInv
<1>2. ASSUME IndInv, UNCHANGED vars
      PROVE  IndInv'
  <2> USE <1>2 DEF vars, cards, IndInv
  <2>1. TypeOK' /\ AuditTrailSound' /\ StatusMatchesDates'
    BY DEF TypeOK, AuditTrailSound, StatusMatchesDates
  <2>2. ChallengesSound' /\ RevealIsChallenged'
    BY DEF ChallengesSound, Challenge, RevealIsChallenged, Challenged
  <2>3. ASSUME NEW r \in Requests
        PROVE  HandlerSound(r)'
    BY DEF HandlerSound, Challenged
  <2> QED
    BY <2>1, <2>2, <2>3
<1> QED
  BY <1>1, <1>2

\* The inductive invariant holds in every reachable state of the card service.
THEOREM CardsInvariance == Spec => []IndInv
  BY CardsInit, CardsIndStep, PTL DEF Spec

\* Types are kept: every challenge alive holds an OTP.
THEOREM CardsTypesHold == Spec => []TypeOK
  BY CardsInvariance, PTL DEF IndInv

\* The audit trail is complete for what succeeded and never ahead of the facts.
THEOREM AuditTrailHolds == Spec => []AuditTrailSound
  BY CardsInvariance, PTL DEF IndInv

\* A card's status agrees with its dates.
THEOREM DatesHold == Spec => []StatusMatchesDates
  BY CardsInvariance, PTL DEF IndInv

\* Details are only revealed for an OTP drawn for that card of that user.
THEOREM RevealHolds == Spec => []RevealIsChallenged
  BY CardsInvariance, PTL DEF IndInv
=============================================================================
