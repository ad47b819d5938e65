---------------------------- MODULE CardsPageProofs ----------------------------
(***************************************************************************)
(* Proofs about CardsPage, for any cards, any time a number is shown for   *)
(* and any number of calls.                                                *)
(***************************************************************************)
EXTENDS CardsPage, TLAPS

LEMMA CardsPageInit == ASSUME CardsPageAssumption PROVE Init => IndInv
<1> SUFFICES ASSUME Init PROVE IndInv
  OBVIOUS
<1> USE DEF Init
<1>1. 1 \in Calls
  BY DEF CardsPageAssumption, Calls
<1>2. NoList \in Lists
  BY DEF NoList, Lists
<1>3. TypeOK
  <2>1. /\ sent \in [Calls -> Sent]
        /\ \A n \in Calls : sent[n].kind \in {"none", "load"}
    BY DEF NoCall, Sent, Actions
  <2>2. got \in [Calls -> [code : {"none", "ok", "refused"}, list : Lists]]
    BY <1>2 DEF NoAnswer
  <2>3. status \in [Cards -> Statuses]
    BY DEF Statuses
  <2> QED
    BY <1>1, <1>2, <2>1, <2>2, <2>3 DEF TypeOK, CardsPageAssumption
<1>4. DialogueSound /\ DetailsAreOfTheDialogue
  BY <1>1 DEF DialogueSound, DetailsAreOfTheDialogue, NoCall
<1>5. CallsSound
  <2>1. \A n \in Calls : got[n] = NoAnswer /\ (n # 1 => sent[n] = NoCall)
    OBVIOUS
  <2>2. sent[1] # NoCall /\ sent[1].kind = "load"
    BY <1>1 DEF NoCall
  <2>3. \A n, m \in Calls : n < m => m # 1
    BY DEF CardsPageAssumption, Calls
  <2> QED
    BY <2>1, <2>2, <2>3 DEF CallsSound, Unserved, NoCall, Actions
<1>6. ListSound
  <2>1. Loads = {1} /\ got[1].code = "none"
    BY <1>1 DEF Loads, NoCall, NoAnswer
  <2> QED
    BY <2>1 DEF ListSound
<1>7. WaitsHaveCalls
  <2>1. 1 \in Loads
    BY <1>1 DEF Loads, NoCall
  <2> QED
    BY <2>1 DEF WaitsHaveCalls
<1> QED
  BY <1>3, <1>4, <1>5, <1>6, <1>7 DEF IndInv

-----------------------------------------------------------------------------
(* The steps.                                                              *)

\* The steps of the page that send a call, those that end one, and the rest.
Sends(n) == (\E c \in Cards : Press(n, c)) \/ SubmitIssue(n) \/ SubmitReveal(n)
Ends(n) == AnswerAction(n) \/ AnswerLoad(n) \/ AnswerInitiate(n) \/ AnswerReveal(n) \/ Fail(n)
Passes == Cancel \/ Tick \/ Expire

LEMMA Steps ==
  Next <=> \/ \E n \in Calls : Sends(n) \/ Open(n) \/ (n \in waits /\ Ends(n)) \/ Serve(n)
           \/ Passes
  BY DEF Next, Sends, Ends, Passes, Settle

\* A call that is sent was not known before; the others stay.
LEMMA SendFacts ==
  ASSUME TypeOK, NEW n \in Calls, NEW kind, NEW c, NEW by, Send(n, kind, c, by)
  PROVE  /\ sent[n] = NoCall /\ DOMAIN sent' = Calls
         /\ sent'[n].kind = kind /\ sent'[n].card = c
         /\ \A m \in Calls \ {n} : sent'[m] = sent[m]
  BY DEF TypeOK, Send, IsNext

LEMMA SendType ==
  ASSUME TypeOK, NEW n \in Calls, NEW kind \in {"initiate", "verify", "load"} \cup Actions,
         NEW c \in {None} \cup Cards, NEW by \in {None} \cup Calls, Send(n, kind, c, by),
         kind \notin {"load", "issue"} => c \in Cards
  PROVE  /\ sent' \in [Calls -> Sent]
         /\ \A m \in Calls :
              sent'[m].kind \notin {"none", "load", "issue"} => sent'[m].card \in Cards
<1>1. [kind |-> kind, card |-> c, by |-> by] \in Sent
  BY DEF Sent
<1>2. sent' \in [Calls -> Sent]
  BY <1>1 DEF TypeOK, Send
<1>3. \A m \in Calls :
        sent'[m].kind \notin {"none", "load", "issue"} => sent'[m].card \in Cards
  BY SendFacts DEF TypeOK
<1> QED
  BY <1>2, <1>3

LEMMA KindFacts ==
  ASSUME TypeOK, NEW n \in Calls
  PROVE  /\ sent[n].kind \in {"none", "initiate", "verify", "load"} \cup Actions
         /\ sent[n].card \in {None} \cup Cards /\ sent[n].by \in {None} \cup Calls
         /\ got[n].code \in {"none", "ok", "refused"} /\ got[n].list \in Lists
  BY DEF TypeOK, Sent

\* What the three ways to send a call send.
LEMMA SendsFacts ==
  ASSUME TypeOK, NEW n \in Calls, Sends(n)
  PROVE  /\ waits' = waits \cup {n}
         /\ UNCHANGED <<screen, loading, dialogues, server, mishaps>>
         /\ busy' \in Cards \cup {"issue", "verify"}
         /\ \E kind \in {"initiate", "verify"} \cup Actions, c \in {None} \cup Cards :
              /\ Send(n, kind, c, None)
              /\ kind # "issue" => c \in Cards
              /\ kind = "verify" => c = modal
<1>1. ASSUME NEW c \in Cards, Press(n, c)
      PROVE  \E kind \in {"initiate"} \cup Actions : Send(n, kind, c, None)
  <2>1. PICK kind \in Offered(c) : Send(n, kind, c, None)
    BY <1>1 DEF Press
  <2>2. kind \in {"initiate"} \cup Actions
    BY DEF Offered, Actions
  <2> QED
    BY <2>1, <2>2
<1>2. CASE \E c \in Cards : Press(n, c)
  BY <1>1, <1>2 DEF Press, Actions
<1>3. CASE SubmitIssue(n)
  BY <1>3 DEF SubmitIssue, Actions
<1>4. CASE SubmitReveal(n)
  BY <1>4 DEF SubmitReveal, TypeOK
<1> QED
  BY <1>2, <1>3, <1>4 DEF Sends

LEMMA VisibleType == TypeOK => Visible \in Lists
  BY DEF TypeOK, Visible, Lists, Statuses

\* What the server does: it answers a call that was sent, and a status is written for
\* an action only.
LEMMA ServeFacts ==
  ASSUME TypeOK, NEW n \in Calls, Serve(n)
  PROVE  /\ Unserved(n) /\ UNCHANGED <<screen, loading, busy, dialogues, calls, mishaps>>
         /\ \A c \in Cards : status'[c] = status[c] \/ Acts(n, c)
         /\ \E code \in {"ok", "refused"}, list \in Lists :
              /\ Answered(n, code, list)
              /\ sent[n].kind = "load" /\ code = "ok" => list = Visible
         /\ status' \in [Cards -> Statuses] /\ challenged' \subseteq Cards
<1> NoList \in Lists /\ Visible \in Lists
  BY VisibleType DEF NoList, Lists
<1>1. CASE ServeAction(n)
  <2>1. Written(sent[n].kind) \in Statuses
    BY <1>1 DEF ServeAction, Written, Statuses
  <2>2. status' \in [Cards -> Statuses]
    BY <1>1, <2>1 DEF ServeAction, TypeOK
  <2> QED
    BY <1>1, <2>2 DEF ServeAction, Serve, Actions, Acts, TypeOK
<1>2. CASE ServeIssue(n)
  <2>1. status' \in [Cards -> Statuses]
    BY <1>2 DEF ServeIssue, TypeOK, Statuses
  <2> QED
    BY <1>2, <2>1 DEF ServeIssue, Serve, Actions, Acts, TypeOK
<1>3. CASE ServeInitiate(n)
  BY <1>3 DEF ServeInitiate, Serve, TypeOK
<1>4. CASE ServeVerify(n)
  BY <1>4 DEF ServeVerify, Serve, TypeOK
<1>5. CASE ServeLoad(n) \/ Refuse(n)
  BY <1>5 DEF ServeLoad, Refuse, Serve, TypeOK
<1> QED
  BY <1>1, <1>2, <1>3, <1>4, <1>5 DEF Serve

LEMMA CardsPageType ==
  ASSUME CardsPageAssumption, TypeOK, Next
  PROVE  TypeOK'
<1> USE DEF screen, dialogues, calls, server
<1>1. ASSUME NEW n \in Calls, Sends(n)
      PROVE  TypeOK'
  <2>1. PICK kind \in {"initiate", "verify"} \cup Actions, c \in {None} \cup Cards :
          Send(n, kind, c, None) /\ (kind # "issue" => c \in Cards)
    BY <1>1, SendsFacts
  <2>2. /\ sent' \in [Calls -> Sent]
        /\ \A m \in Calls :
             sent'[m].kind \notin {"none", "load", "issue"} => sent'[m].card \in Cards
    BY <2>1, SendType
  <2>3. /\ waits' \subseteq Calls /\ busy' \in {None} \cup Cards \cup {"issue", "verify"}
        /\ UNCHANGED <<screen, loading, dialogues, server, mishaps>>
    BY <1>1, SendsFacts DEF TypeOK
  <2> QED
    BY <2>2, <2>3 DEF TypeOK
<1>2. ASSUME NEW n \in Calls, Open(n)
      PROVE  TypeOK'
  <2>1. /\ sent' \in [Calls -> Sent]
        /\ \A m \in Calls :
             sent'[m].kind \notin {"none", "load", "issue"} => sent'[m].card \in Cards
    BY <1>2, SendType DEF Open
  <2>2. NoList \in Lists
    BY DEF NoList, Lists
  <2>3. 0 \in 0..Seconds
    BY DEF CardsPageAssumption
  <2>4. mishaps' \subseteq {"dialogue", "failed"}
    BY <1>2 DEF Open
  <2> QED
    BY <1>2, <2>1, <2>2, <2>3, <2>4 DEF Open, TypeOK
<1>3. ASSUME NEW n \in Calls, Serve(n)
      PROVE  TypeOK'
  <2>1. got' \in [Calls -> [code : {"none", "ok", "refused"}, list : Lists]]
    BY <1>3, ServeFacts DEF TypeOK, Answered
  <2> QED
    BY <1>3, <2>1, ServeFacts DEF TypeOK
<1>4. ASSUME NEW n \in Calls, n \in waits, Ends(n)
      PROVE  TypeOK'
  <2>1. CASE AnswerAction(n)
    <3>1. PICK m \in Calls :
            /\ Send(m, "load", None, n) /\ waits' = (waits \ {n}) \cup {m} /\ loading' = TRUE
            /\ UNCHANGED <<screen, busy, dialogues, server, mishaps>>
      BY <2>1 DEF AnswerAction, Reload
    <3>2. /\ sent' \in [Calls -> Sent]
          /\ \A k \in Calls :
               sent'[k].kind \notin {"none", "load", "issue"} => sent'[k].card \in Cards
      BY <3>1, SendType
    <3>3. waits' \subseteq Calls
      BY <3>1 DEF TypeOK
    <3> QED
      BY <3>1, <3>2, <3>3 DEF TypeOK
  <2>2. CASE AnswerLoad(n)
    BY <2>2, KindFacts DEF AnswerLoad, TypeOK
  <2>3. CASE AnswerInitiate(n)
    BY <2>3 DEF AnswerInitiate, Replaces, TypeOK
  <2>4. CASE AnswerReveal(n)
    BY <2>4 DEF AnswerReveal, TypeOK, CardsPageAssumption
  <2>5. CASE Fail(n)
    <3>1. loading' \in BOOLEAN /\ mishaps' \subseteq {"dialogue", "failed"}
      BY <2>5 DEF Fail, TypeOK
    <3>2. /\ busy' \in {None, busy} /\ waits' \subseteq waits
          /\ UNCHANGED <<screen, dialogues, sent, server>>
      BY <2>5 DEF Fail
    <3> QED
      BY <3>1, <3>2 DEF TypeOK
  <2> QED
    BY <1>4, <2>1, <2>2, <2>3, <2>4, <2>5 DEF Ends
<1>5. CASE Tick
  BY <1>5 DEF Tick, TypeOK, CardsPageAssumption
<1>6. CASE Cancel \/ Expire
  <2>1. /\ modal' = None /\ details' = None /\ left' = 0
        /\ mishaps' \in {mishaps, mishaps \cup {"dialogue"}}
        /\ UNCHANGED <<screen, loading, busy, calls, server>>
    BY <1>6 DEF Cancel, Expire, HideDetails, Replaces
  <2>2. left' \in 0..Seconds /\ mishaps' \subseteq {"dialogue", "failed"}
    BY <2>1 DEF CardsPageAssumption, TypeOK
  <2> QED
    BY <2>1, <2>2 DEF TypeOK
<1> QED
  BY <1>1, <1>2, <1>3, <1>4, <1>5, <1>6, Steps DEF Passes

-----------------------------------------------------------------------------
(* The dialogue.                                                           *)

LEMMA DialogueStep ==
  ASSUME IndInv, Next
  PROVE  DialogueSound' /\ DetailsAreOfTheDialogue'
<1> TypeOK /\ DialogueSound /\ DetailsAreOfTheDialogue
  BY DEF IndInv
<1> USE DEF screen, dialogues, calls, server
<1>1. ASSUME NEW n \in Calls, Sends(n)
      PROVE  DialogueSound' /\ DetailsAreOfTheDialogue'
  <2>1. PICK kind \in {"initiate", "verify"} \cup Actions, c \in {None} \cup Cards :
          Send(n, kind, c, None) /\ (kind = "verify" => c = modal)
    BY <1>1, SendsFacts
  <2>2. sent'[n].kind = "verify" => sent'[n].card = modal
    BY <2>1, SendFacts
  <2> QED
    BY <1>1, <2>1, <2>2, SendsFacts, SendFacts DEF DialogueSound, DetailsAreOfTheDialogue, TypeOK
<1>2. ASSUME NEW n \in Calls, Open(n)
      PROVE  DialogueSound' /\ DetailsAreOfTheDialogue'
  BY <1>2, SendFacts DEF Open, DialogueSound, DetailsAreOfTheDialogue
<1>3. ASSUME NEW n \in Calls, Serve(n)
      PROVE  DialogueSound' /\ DetailsAreOfTheDialogue'
  BY <1>3, ServeFacts DEF DialogueSound, DetailsAreOfTheDialogue
<1>4. ASSUME NEW n \in Calls, n \in waits, Ends(n)
      PROVE  DialogueSound' /\ DetailsAreOfTheDialogue'
  <2>1. CASE AnswerAction(n)
    <3>1. PICK m \in Calls :
            /\ Send(m, "load", None, n) /\ waits' = (waits \ {n}) \cup {m}
            /\ UNCHANGED <<dialogues, mishaps>>
      BY <2>1 DEF AnswerAction, Reload
    <3> QED
      BY <3>1, SendFacts DEF DialogueSound, DetailsAreOfTheDialogue, TypeOK
  <2>2. CASE AnswerLoad(n) \/ Fail(n)
    BY <2>2 DEF AnswerLoad, Fail, DialogueSound, DetailsAreOfTheDialogue
  <2>3. CASE AnswerInitiate(n)
    BY <2>3 DEF AnswerInitiate, Replaces, Verifying, DialogueSound, DetailsAreOfTheDialogue
  <2>4. CASE AnswerReveal(n)
    BY <1>4, <2>4 DEF AnswerReveal, DialogueSound, DetailsAreOfTheDialogue
  <2> QED
    BY <1>4, <2>1, <2>2, <2>3, <2>4 DEF Ends
<1>5. CASE Passes
  BY <1>5 DEF Passes, Cancel, Tick, Expire, HideDetails, Replaces, Verifying, DialogueSound,
     DetailsAreOfTheDialogue
<1> QED
  BY <1>1, <1>2, <1>3, <1>4, <1>5, Steps

-----------------------------------------------------------------------------
(* The calls.                                                              *)

LEMMA CallsStep ==
  ASSUME IndInv, Next
  PROVE  CallsSound'
<1> TypeOK /\ CallsSound
  BY DEF IndInv
<1> USE DEF screen, dialogues, calls, server
\* A call is sent and awaited: nothing else is, and no call is answered.
<1>1. ASSUME NEW n \in Calls, NEW kind, NEW c, NEW by, Send(n, kind, c, by), got' = got,
             n \in waits' \/ kind \notin Actions,
             "failed" \notin mishaps' =>
               \A m \in Calls \ {n} : Unserved(m) /\ sent[m].kind \in Actions => m \in waits'
      PROVE  CallsSound'
  <2>1. \A k, m \in Calls : k < m /\ sent'[k] = NoCall => sent'[m] = NoCall
    <3> SUFFICES ASSUME NEW k \in Calls, NEW m \in Calls, k < m, sent'[k] = NoCall
                 PROVE  sent'[m] = NoCall
      OBVIOUS
    <3>1. k # n => sent[k] = NoCall
      BY <1>1, SendFacts
    <3>2. \A j \in Calls : j < n => sent[j] # NoCall
      BY <1>1 DEF Send, IsNext
    <3>3. sent[k] = NoCall
      BY <1>1, <3>1, SendFacts
    <3>4. m # n
      BY <3>2, <3>3
    <3> QED
      BY <1>1, <3>3, <3>4, SendFacts DEF CallsSound
  <2>2. \A m \in Calls : sent'[m] = NoCall => got'[m] = NoAnswer
    <3> SUFFICES ASSUME NEW m \in Calls, sent'[m] = NoCall
                 PROVE  got'[m] = NoAnswer
      OBVIOUS
    <3>1. sent[m] = NoCall
      BY <1>1, SendFacts
    <3> QED
      BY <1>1, <3>1 DEF CallsSound
  <2>3. "failed" \notin mishaps' =>
          \A m \in Calls : Unserved(m)' /\ sent'[m].kind \in Actions => m \in waits'
    BY <1>1, SendFacts DEF Unserved
  <2> QED
    BY <2>1, <2>2, <2>3 DEF CallsSound
<1>2. ASSUME NEW n \in Calls, Sends(n)
      PROVE  CallsSound'
  <2>1. PICK kind \in {"initiate", "verify"} \cup Actions, c \in {None} \cup Cards :
          Send(n, kind, c, None)
    BY <1>2, SendsFacts
  <2>2. waits' = waits \cup {n} /\ got' = got /\ mishaps' = mishaps
    BY <1>2, SendsFacts
  <2> QED
    BY <1>1, <2>1, <2>2 DEF CallsSound
<1>3. ASSUME NEW n \in Calls, Open(n)
      PROVE  CallsSound'
  BY <1>1, <1>3 DEF Open, Actions
<1>4. ASSUME NEW n \in Calls, Serve(n)
      PROVE  CallsSound'
  <2>1. PICK code \in {"ok", "refused"}, list \in Lists : Answered(n, code, list)
    BY <1>4, ServeFacts
  <2>2. \A m \in Calls \ {n} : got'[m] = got[m]
    BY <2>1 DEF Answered, TypeOK
  <2>3. Unserved(n) /\ UNCHANGED <<waits, sent, mishaps>>
    BY <1>4, ServeFacts
  <2> QED
    BY <2>2, <2>3 DEF CallsSound, Unserved
<1>5. ASSUME NEW n \in Calls, n \in waits, Ends(n)
      PROVE  CallsSound'
  <2>1. CASE AnswerAction(n)
    <3>1. PICK m \in Calls :
            /\ Send(m, "load", None, n) /\ waits' = (waits \ {n}) \cup {m}
            /\ UNCHANGED <<got, mishaps>>
      BY <2>1 DEF AnswerAction, Reload
    <3>2. got[n] # NoAnswer
      BY <2>1 DEF AnswerAction, NoAnswer
    <3>3. "failed" \notin mishaps' =>
            \A k \in Calls \ {m} : Unserved(k) /\ sent[k].kind \in Actions => k \in waits'
      BY <3>1, <3>2 DEF CallsSound, Unserved
    <3> QED
      BY <1>1, <3>1, <3>3 DEF Actions
  <2>2. CASE AnswerLoad(n) \/ AnswerInitiate(n) \/ AnswerReveal(n)
    <3>1. /\ sent[n].kind \notin Actions /\ waits' = waits \ {n} /\ UNCHANGED <<sent, got>>
          /\ "failed" \in mishaps => "failed" \in mishaps'
      BY <2>2 DEF AnswerLoad, AnswerInitiate, AnswerReveal, Replaces, Actions
    <3> QED
      BY <3>1 DEF CallsSound, Unserved
  <2>3. CASE Fail(n)
    BY <2>3 DEF Fail, CallsSound, Unserved
  <2> QED
    BY <1>5, <2>1, <2>2, <2>3 DEF Ends
<1>6. CASE Passes
  <2>1. UNCHANGED <<sent, got, waits>> /\ ("failed" \in mishaps => "failed" \in mishaps')
    BY <1>6 DEF Passes, Cancel, Tick, Expire, HideDetails, Replaces
  <2> QED
    BY <2>1 DEF CallsSound, Unserved
<1> QED
  BY <1>2, <1>3, <1>4, <1>5, <1>6, Steps

-----------------------------------------------------------------------------
(* The list.                                                               *)

\* A call that is sent now is the newest.
LEMMA NewestFacts ==
  ASSUME TypeOK, CallsSound, NEW n \in Calls, NEW kind, NEW c, NEW by, Send(n, kind, c, by)
  PROVE  /\ \A m \in Calls : sent[m] # NoCall => m < n
         /\ got[n] = NoAnswer
<1>1. \A m \in Calls : m < n \/ m = n \/ n < m
  BY DEF Calls
<1>2. sent[n] = NoCall
  BY SendFacts
<1> QED
  BY <1>1, <1>2 DEF CallsSound

\* What is overtaken stays so, and what is no call on a card before is none after.
LEMMA KeptFacts ==
  ASSUME TypeOK, CallsSound, sent' = sent \/ \E n \in Calls : \E kind, c, by : Send(n, kind, c, by)
  PROVE  /\ \A m \in Calls : sent[m] # NoCall => sent'[m] = sent[m]
         /\ \A m \in {0} \cup Calls, c \in Cards : Overtaken(m, c) => Overtaken(m, c)'
         /\ \A m \in Calls, c \in Cards : sent[m] # NoCall /\ Acts(m, c) => Acts(m, c)'
<1>1. \A m \in Calls : sent[m] # NoCall => sent'[m] = sent[m]
  BY SendFacts
<1>2. \A m \in Calls, c \in Cards : sent[m] # NoCall /\ Acts(m, c) => Acts(m, c)'
  BY <1>1 DEF Acts
<1>3. ASSUME NEW m \in {0} \cup Calls, NEW c \in Cards, Overtaken(m, c)
      PROVE  Overtaken(m, c)'
  <2>1. PICK k \in Calls :
          k > m /\ sent[k].kind = "load" /\ sent[k].by # None /\ Acts(sent[k].by, c)
    BY <1>3 DEF Overtaken
  <2>2. sent[k] # NoCall /\ sent[k].by \in Calls
    BY <2>1, KindFacts DEF NoCall
  <2>3. sent'[k] = sent[k]
    BY <1>1, <2>2
  <2>4. sent[sent[k].by] # NoCall
    BY <2>1 DEF Acts, NoCall, Actions
  <2>5. Acts(sent[k].by, c)'
    BY <1>2, <2>1, <2>2, <2>3, <2>4
  <2> QED
    BY <2>1, <2>3, <2>5 DEF Overtaken
<1> QED
  BY <1>1, <1>2, <1>3

-----------------------------------------------------------------------------
(* The list.                                                               *)

\* About one card: what there is of lists is right or overtaken, or an action will tell.
Told(c) ==
  \/ Acting(c)
  \/ /\ \A n \in Loads : (got[n].code = "ok" => got[n].list[c] = Visible[c]) \/ Overtaken(n, c)
     /\ shown # 0 => listed[c] = Visible[c] \/ Overtaken(shown, c)

\* Lists and card are as they were, or a list has come that is right, and who acts on the
\* card still does.
LEMMA ToldKept ==
  ASSUME TypeOK, CallsSound, NEW c \in Cards, Told(c), UNCHANGED <<listed, shown>>,
         sent' = sent \/ \E n \in Calls : \E kind, d, by : Send(n, kind, d, by),
         Visible'[c] = Visible[c],
         \A n \in waits : Acts(n, c) => n \in waits',
         \A n \in Loads' :
           \/ n \in Loads /\ got'[n] = got[n]
           \/ got'[n].code = "ok" => got'[n].list[c] = Visible[c]
  PROVE  Told(c)'
<1> shown \in {0} \cup Calls /\ waits \subseteq Calls
  BY DEF TypeOK
<1>1. CASE Acting(c)
  <2>1. PICK n \in waits : Acts(n, c)
    BY <1>1 DEF Acting
  <2>2. Acts(n, c)'
    BY <2>1, KeptFacts DEF Acts, NoCall, Actions
  <2> QED
    BY <2>1, <2>2 DEF Told, Acting
<1>2. CASE ~Acting(c)
  <2>1. \A n \in Loads' :
          (got'[n].code = "ok" => got'[n].list[c] = Visible'[c]) \/ Overtaken(n, c)'
    BY <1>2, KeptFacts DEF Told, Loads
  <2>2. shown' # 0 => listed'[c] = Visible'[c] \/ Overtaken(shown, c)'
    BY <1>2, KeptFacts DEF Told
  <2> QED
    BY <2>1, <2>2 DEF Told
<1> QED
  BY <1>1, <1>2

LEMMA ToldStep ==
  ASSUME CardsPageAssumption, IndInv, Next, "failed" \notin mishaps', NEW c \in Cards
  PROVE  Told(c)'
<1> TypeOK /\ CallsSound /\ ListSound
  BY DEF IndInv
<1> USE DEF screen, dialogues, calls, server
<1>t. "failed" \notin mishaps => Told(c)
  BY DEF ListSound, Told
<1>1. ASSUME status' = status PROVE Visible' = Visible
  BY <1>1 DEF Visible
<1>2. ASSUME NEW n \in Calls, Sends(n)
      PROVE  Told(c)'
  <2>1. PICK kind \in {"initiate", "verify"} \cup Actions, d \in {None} \cup Cards :
          Send(n, kind, d, None)
    BY <1>2, SendsFacts
  <2>2. waits' = waits \cup {n} /\ UNCHANGED <<got, listed, shown, status, mishaps>>
    BY <1>2, SendsFacts
  <2>3. Loads' \subseteq Loads
    BY <2>1, <2>2, SendFacts DEF Loads, TypeOK, Actions
  <2> QED
    BY <1>t, <1>1, <2>1, <2>2, <2>3, ToldKept
<1>3. ASSUME NEW n \in Calls, Open(n)
      PROVE  Told(c)'
  <2>1. got'[n] = NoAnswer /\ waits' = {n} /\ shown' = 0
    BY <1>3, SendFacts DEF Open, CallsSound
  <2> QED
    BY <2>1 DEF Told, Loads, NoAnswer
<1>4. ASSUME NEW n \in Calls, Serve(n)
      PROVE  Told(c)'
  <2>1. PICK code \in {"ok", "refused"}, list \in Lists :
          /\ Answered(n, code, list)
          /\ sent[n].kind = "load" /\ code = "ok" => list = Visible
    BY <1>4, ServeFacts
  <2>2. /\ Unserved(n) /\ UNCHANGED <<waits, sent, mishaps, listed, shown>>
        /\ status'[c] = status[c] \/ Acts(n, c)
    BY <1>4, ServeFacts
  <2>3. CASE Acts(n, c)
    <3>1. n \in waits
      BY <2>2, <2>3 DEF CallsSound, Acts
    <3> QED
      BY <2>2, <2>3, <3>1 DEF Told, Acting, Acts
  <2>4. CASE ~Acts(n, c)
    <3>1. Visible'[c] = Visible[c]
      BY <2>2, <2>4 DEF Visible
    <3>2. /\ got'[n].code = code /\ got'[n].list = list
          /\ \A m \in Calls \ {n} : got'[m] = got[m]
      BY <2>1 DEF Answered, TypeOK
    <3>3. Loads' = Loads /\ Loads \subseteq Calls
      BY <2>2 DEF Loads, TypeOK
    <3>4. \A m \in Loads' :
            \/ m \in Loads /\ got'[m] = got[m]
            \/ got'[m].code = "ok" => got'[m].list[c] = Visible[c]
      BY <2>1, <3>2, <3>3 DEF Loads
    <3> QED
      BY <1>t, <2>2, <3>1, <3>4, ToldKept
  <2> QED
    BY <2>3, <2>4
<1>5. ASSUME NEW n \in Calls, n \in waits, Ends(n)
      PROVE  Told(c)'
  <2>1. CASE AnswerAction(n)
    <3>1. PICK m \in Calls :
            /\ Send(m, "load", None, n) /\ waits' = (waits \ {n}) \cup {m}
            /\ UNCHANGED <<got, listed, shown, status, mishaps>>
      BY <2>1 DEF AnswerAction, Reload
    <3>2. got[m] = NoAnswer /\ \A k \in Calls : sent[k] # NoCall => k < m
      BY <3>1, NewestFacts
    <3>3. /\ sent'[m].kind = "load" /\ sent'[m].by = n
          /\ \A k \in Calls \ {m} : sent'[k] = sent[k]
      BY <3>1 DEF Send, TypeOK
    <3>4. Loads' \subseteq Loads \cup {m} /\ waits \subseteq Calls
      BY <3>1, <3>3 DEF Loads, TypeOK
    <3>5. CASE Acts(n, c)
      <4>1. Acts(n, c)' /\ n # None
        <5>1. sent[n] # NoCall
          BY <3>5 DEF Acts, NoCall, Actions
        <5>2. sent'[n] = sent[n] /\ n # None
          BY <3>1, <5>1, KeptFacts DEF CardsPageAssumption
        <5> QED
          BY <3>5, <5>2 DEF Acts
      <4>2. \A k \in Calls : k < m => Overtaken(k, c)'
        BY <3>3, <4>1 DEF Overtaken
      <4>3. Overtaken(0, c)'
        BY <3>3, <4>1 DEF Overtaken, Calls
      <4>4. \A k \in Loads : k < m
        BY <3>2, <3>4 DEF Loads, NoCall
      <4>5. shown # 0 => shown < m /\ shown \in Calls
        BY <3>2 DEF ListSound, NoCall, TypeOK
      <4> QED
        BY <3>1, <3>2, <3>4, <4>2, <4>4, <4>5 DEF Told, NoAnswer, Loads
    <3>6. CASE ~Acts(n, c)
      <4>1. \A k \in waits : Acts(k, c) => k \in waits'
        BY <3>1, <3>6
      <4>2. \A k \in Loads' :
              \/ k \in Loads /\ got'[k] = got[k]
              \/ got'[k].code = "ok" => got'[k].list[c] = Visible[c]
        BY <3>1, <3>2, <3>4 DEF NoAnswer
      <4> QED
        BY <1>t, <1>1, <3>1, <4>1, <4>2, ToldKept
    <3> QED
      BY <3>5, <3>6
  <2>2. CASE AnswerLoad(n)
    <3>1. /\ sent[n].kind = "load" /\ got[n].code = "ok" /\ listed' = got[n].list
          /\ shown' = n /\ waits' = waits \ {n} /\ UNCHANGED <<sent, got, status, mishaps>>
      BY <2>2 DEF AnswerLoad
    <3>2. /\ Acting(c) => Acting(c)'
          /\ \A m \in Calls : Overtaken(m, c)' <=> Overtaken(m, c)
      BY <3>1 DEF Acting, Acts, Actions, Overtaken
    <3>3. Visible' = Visible /\ Loads' \subseteq Loads /\ n \in Loads /\ Loads \subseteq Calls
      BY <1>1, <1>5, <3>1 DEF Loads, TypeOK
    <3> QED
      BY <1>t, <3>1, <3>2, <3>3 DEF Told
  <2>3. CASE AnswerInitiate(n) \/ AnswerReveal(n)
    <3>1. /\ sent[n].kind \in {"initiate", "verify"} /\ waits' = waits \ {n}
          /\ UNCHANGED <<sent, got, status, listed, shown>> /\ mishaps \subseteq mishaps'
      BY <2>3 DEF AnswerInitiate, AnswerReveal, Replaces
    <3>2. \A k \in waits : Acts(k, c) => k \in waits'
      BY <3>1 DEF Acts, Actions
    <3>3. Loads' = Loads
      BY <3>1 DEF Loads
    <3> QED
      BY <1>t, <1>1, <3>1, <3>2, <3>3, ToldKept
  <2>4. ~Fail(n)
    BY DEF Fail
  <2> QED
    BY <1>5, <2>1, <2>2, <2>3, <2>4 DEF Ends
<1>6. CASE Passes
  <2>1. UNCHANGED <<sent, got, waits, listed, shown, status>> /\ mishaps \subseteq mishaps'
    BY <1>6 DEF Passes, Cancel, Tick, Expire, HideDetails, Replaces
  <2>2. Loads' = Loads
    BY <2>1 DEF Loads
  <2> QED
    BY <1>t, <1>1, <2>1, <2>2, ToldKept
<1> QED
  BY <1>2, <1>3, <1>4, <1>5, <1>6, Steps

\* The list shown was asked for, and until there is one, one is on its way.
LEMMA ShownStep ==
  ASSUME IndInv, Next
  PROVE  /\ shown' # 0 => sent'[shown'].kind = "load"
         /\ "failed" \notin mishaps' /\ shown' = 0 => Loads' # {}
<1> DEFINE Right == /\ shown' # 0 => sent'[shown'].kind = "load"
                    /\ "failed" \notin mishaps' /\ shown' = 0 => Loads' # {}
<1> TypeOK /\ CallsSound /\ ListSound
  BY DEF IndInv
<1> USE DEF screen, dialogues, calls, server
<1>1. ASSUME NEW n \in Calls, NEW kind, NEW c, NEW by, Send(n, kind, c, by)
      PROVE  /\ shown # 0 => sent'[shown].kind = "load"
             /\ \A k \in Loads : sent'[k].kind = "load"
  <2>1. /\ shown # 0 => shown \in Calls /\ sent[shown] # NoCall
        /\ \A k \in Loads : k \in Calls /\ sent[k] # NoCall
    BY DEF ListSound, TypeOK, NoCall, Loads
  <2> QED
    BY <1>1, <2>1, SendFacts DEF ListSound, Loads
<1>2. ASSUME NEW n \in Calls, Sends(n)
      PROVE  Right
  <2>1. PICK kind \in {"initiate", "verify"} \cup Actions, c \in {None} \cup Cards :
          Send(n, kind, c, None)
    BY <1>2, SendsFacts
  <2>2. waits' = waits \cup {n} /\ UNCHANGED <<shown, mishaps>>
    BY <1>2, SendsFacts
  <2>3. Loads \subseteq Loads'
    BY <1>1, <2>1, <2>2 DEF Loads
  <2> QED
    BY <1>1, <2>1, <2>2, <2>3 DEF ListSound
<1>3. ASSUME NEW n \in Calls, Open(n)
      PROVE  Right
  BY <1>3, SendFacts DEF Open, Loads
<1>4. ASSUME NEW n \in Calls, Serve(n)
      PROVE  Right
  <2>1. UNCHANGED <<waits, sent, mishaps, shown>>
    BY <1>4, ServeFacts
  <2> QED
    BY <2>1 DEF ListSound, Loads
<1>5. ASSUME NEW n \in Calls, n \in waits, Ends(n)
      PROVE  Right
  <2>1. CASE AnswerAction(n)
    <3>1. PICK m \in Calls :
            Send(m, "load", None, n) /\ waits' = (waits \ {n}) \cup {m} /\ shown' = shown
      BY <2>1 DEF AnswerAction, Reload
    <3>2. m \in Loads'
      BY <3>1, SendFacts DEF Loads
    <3> QED
      BY <1>1, <3>1, <3>2
  <2>2. CASE AnswerLoad(n)
    <3>1. 0 \notin Calls
      BY DEF Calls
    <3> QED
      BY <2>2, <3>1 DEF AnswerLoad
  <2>3. CASE AnswerInitiate(n) \/ AnswerReveal(n)
    <3>1. /\ sent[n].kind # "load" /\ waits' = waits \ {n} /\ UNCHANGED <<sent, shown>>
          /\ mishaps \subseteq mishaps'
      BY <2>3 DEF AnswerInitiate, AnswerReveal, Replaces
    <3>2. Loads' = Loads
      BY <3>1 DEF Loads
    <3> QED
      BY <3>1, <3>2 DEF ListSound
  <2>4. CASE Fail(n)
    BY <2>4 DEF Fail, ListSound
  <2> QED
    BY <1>5, <2>1, <2>2, <2>3, <2>4 DEF Ends
<1>6. CASE Passes
  <2>1. UNCHANGED <<sent, waits, shown>> /\ mishaps \subseteq mishaps'
    BY <1>6 DEF Passes, Cancel, Tick, Expire, HideDetails, Replaces
  <2> QED
    BY <2>1 DEF ListSound, Loads
<1> QED
  BY <1>2, <1>3, <1>4, <1>5, <1>6, Steps

LEMMA ListStep == ASSUME CardsPageAssumption, IndInv, Next PROVE ListSound'
  BY ToldStep, ShownStep DEF ListSound, Told

-----------------------------------------------------------------------------
(* The spinners.                                                           *)

LEMMA WaitsStep ==
  ASSUME CardsPageAssumption, IndInv, Next
  PROVE  WaitsHaveCalls'
<1> TypeOK /\ WaitsHaveCalls
  BY DEF IndInv
<1> USE DEF screen, dialogues, calls, server
\* Calls that were awaited and are left alone still do what they did.
<1>1. ASSUME NEW n \in Calls, NEW kind, NEW c, NEW by, Send(n, kind, c, by)
      PROVE  \A m \in waits \ {n} :
               /\ Frees(m) => Frees(m)'
               /\ sent[m].kind = "load" => sent'[m].kind = "load"
  BY <1>1, SendFacts DEF Frees, TypeOK
<1>2. ASSUME NEW n \in Calls, Sends(n)
      PROVE  WaitsHaveCalls'
  <2>1. PICK kind \in {"initiate", "verify"} \cup Actions, c \in {None} \cup Cards :
          Send(n, kind, c, None)
    BY <1>2, SendsFacts
  <2>2. waits' = waits \cup {n} /\ loading' = loading
    BY <1>2, SendsFacts
  <2>3. Frees(n)'
    BY <2>1, SendFacts DEF Frees, Actions
  <2>4. n \notin Loads
    BY <2>1, SendFacts DEF Loads, NoCall
  <2>5. \A m \in Loads : m \in Loads'
    BY <1>1, <2>1, <2>2, <2>4 DEF Loads
  <2> QED
    BY <2>2, <2>3, <2>5 DEF WaitsHaveCalls
<1>3. ASSUME NEW n \in Calls, Open(n)
      PROVE  WaitsHaveCalls'
  <2>1. n \in Loads' /\ busy' = None
    BY <1>3, SendFacts DEF Open, Loads
  <2> QED
    BY <2>1 DEF WaitsHaveCalls
<1>4. ASSUME NEW n \in Calls, Serve(n)
      PROVE  WaitsHaveCalls'
  BY <1>4, ServeFacts DEF WaitsHaveCalls, Loads, Frees
<1>5. ASSUME NEW n \in Calls, n \in waits, Ends(n)
      PROVE  WaitsHaveCalls'
  <2>1. CASE AnswerAction(n)
    <3>1. PICK m \in Calls : Send(m, "load", None, n) /\ waits' = (waits \ {n}) \cup {m}
      BY <2>1 DEF AnswerAction, Reload
    <3>2. n # None
      BY DEF CardsPageAssumption
    <3>3. sent'[m].kind = "load" /\ sent'[m].by = n
      BY <3>1 DEF Send, TypeOK
    <3>4. m \in Loads' /\ Frees(m)'
      BY <3>1, <3>2, <3>3 DEF Loads, Frees
    <3> QED
      BY <3>1, <3>4 DEF WaitsHaveCalls
  <2>2. CASE sent[n].kind = "load" /\ (AnswerLoad(n) \/ Fail(n))
    <3>1. /\ ~loading' /\ waits' = waits \ {n} /\ sent' = sent
          /\ busy' = IF sent[n].by = None THEN busy ELSE None
      BY <2>2 DEF AnswerLoad, Fail
    <3> QED
      BY <2>2, <3>1 DEF WaitsHaveCalls, Frees
  <2>3. CASE /\ sent[n].kind # "load"
             /\ AnswerInitiate(n) \/ AnswerReveal(n) \/ Fail(n)
    <3>1. loading' = loading /\ busy' = None /\ waits' = waits \ {n} /\ sent' = sent
      BY <2>3 DEF AnswerInitiate, AnswerReveal, Fail, TypeOK
    <3>2. Loads' = Loads
      BY <2>3, <3>1 DEF Loads
    <3> QED
      BY <3>1, <3>2 DEF WaitsHaveCalls
  <2> QED
    BY <1>5, <2>1, <2>2, <2>3 DEF Ends, AnswerLoad, AnswerInitiate, AnswerReveal
<1>6. CASE Passes
  BY <1>6 DEF Passes, Cancel, Tick, Expire, HideDetails, WaitsHaveCalls, Loads, Frees
<1> QED
  BY <1>2, <1>3, <1>4, <1>5, <1>6, Steps

LEMMA CardsPageStep == ASSUME CardsPageAssumption PROVE IndInv /\ [Next]_vars => IndInv'
<1>1. ASSUME IndInv, Next
      PROVE  IndInv'
  <2>1. TypeOK'
    BY <1>1, CardsPageType DEF IndInv
  <2>2. ListSound'
    BY <1>1, ListStep
  <2> QED
    BY <1>1, <2>1, <2>2, DialogueStep, CallsStep, WaitsStep DEF IndInv
<1>2. ASSUME IndInv, UNCHANGED vars
      PROVE  IndInv'
  <2> USE <1>2 DEF IndInv, vars, screen, dialogues, calls, server
  <2>1. TypeOK' /\ DialogueSound' /\ DetailsAreOfTheDialogue'
    BY DEF TypeOK, DialogueSound, DetailsAreOfTheDialogue
  <2>2. CallsSound' /\ ListSound' /\ WaitsHaveCalls'
    BY DEF CallsSound, Unserved, ListSound, Loads, Acting, Acts, Overtaken, Visible,
       WaitsHaveCalls, Frees
  <2> QED
    BY <2>1, <2>2
<1> QED
  BY <1>1, <1>2

-----------------------------------------------------------------------------
(* The properties.                                                         *)

\* The inductive invariant holds in every reachable state.
THEOREM CardsPageInvariance == ASSUME CardsPageAssumption PROVE Spec => []IndInv
<1>1. Init => IndInv
  BY CardsPageInit
<1>2. IndInv /\ [Next]_vars => IndInv'
  BY CardsPageStep
<1> QED
  BY <1>1, <1>2, PTL DEF Spec
=============================================================================
