----------------------------- MODULE PagesProofs -----------------------------
(***************************************************************************)
(* Proofs about PaymentPages, for any contents of the form, any of them    *)
(* above the threshold, and any number of calls, orders and keys; then of  *)
(* PaymentPages and CardsPage together, of which one is open.              *)
(***************************************************************************)
EXTENDS MCPages, TLAPS

USE DEF NoCall, NoReply, Reply, Api!NoReply, Api!Reply, Api!NotAsked, Pages

LEMMA PagesInit == Init => IndInv
  BY PagesAssumption DEF Init, IndInv, TypeOK, Form, SentSound, OneKeyPerOrder, RowsSound, AnswersSound,
     WaitsHaveCalls, Blank, Calls, Keys, Sent, TransferCall

\* What a call that was sent holds, and that None is neither a call nor a key.
LEMMA CallFacts ==
  ASSUME TypeOK
  PROVE  /\ None \notin Calls /\ None \notin Bodies /\ None \notin Pages
         /\ \A c \in Calls : Sent(c) =>
              /\ call[c] \in Call
              /\ call[c].kind \in {"submit", "confirm"} /\ call[c].page \in Pages
              /\ call[c].body \in Bodies /\ call[c].key \in Keys /\ call[c].order \in Nat
  BY PagesAssumption DEF TypeOK, Sent, Call, Calls

-----------------------------------------------------------------------------
(* The steps, by what they do: a page step sends nothing, an answer comes  *)
(* in, a call is sent, the server answers.                                 *)

\* The form is given to another order, or changes nothing that the invariant is about.
Renewed ==
  /\ orders' = orders + 1
  /\ form'.order = orders + 1
  /\ form'.status = "step_up" => form.status = "step_up" /\ form'.challenge = form.challenge
  /\ form'.paid = None \/ (form'.paid = form.paid /\ form'.asked = form.asked)
Kept ==
  /\ orders' = orders /\ page' = page
  /\ form'.order = form.order /\ form'.key = form.key
  /\ form'.status = "step_up" => form.status = "step_up" /\ form'.challenge = form.challenge
  /\ form'.paid = None \/ (form'.paid = form.paid /\ form'.asked = form.asked)
PageStep == (Renewed \/ Kept) /\ awaited' \subseteq awaited /\ UNCHANGED <<call, server>>

\* An answer r to c is taken.
Taken(c, r) ==
  /\ c \in awaited
  /\ r = reply[c] \/ r = Reply("failed", None)
     \/ (reply[c].code = "paid" /\ r = Reply("paid", None))
  /\ Continue(c, r)

Sends(c) == Submit(c) \/ Confirm(c)

LEMMA PageSteps ==
  ASSUME TypeOK,
         \/ \E p \in {"transfer", "merchant"} : Open(p)
         \/ \E b \in Bodies : Edit(b)
         \/ Reset \/ NewKey \/ SubmitNothing \/ CancelStepUp
  PROVE  PageStep /\ TypeOK'
<1> USE DEF PageStep, Renewed, Kept, server
<1>0. form \in Form /\ form.confirming \in BOOLEAN /\ orders + 1 \in Nat /\ keys + 1 \in Nat
  BY DEF TypeOK, Form
<1>1. LET blank == Blank(orders + 1, keys + 1)
      IN  /\ blank \in Form
          /\ blank.order = orders + 1 /\ blank.paid = None /\ blank.status = "idle"
  BY <1>0 DEF Blank, Form
<1>2. LET blank == [Blank(orders + 1, keys + 1) EXCEPT !.confirming = form.confirming]
      IN  /\ blank \in Form
          /\ blank.order = orders + 1 /\ blank.paid = None /\ blank.status = "idle"
  BY <1>0 DEF Blank, Form
<1>3. ASSUME form' \in Form, page' \in Pages \cup {None}, awaited' \subseteq awaited,
             UNCHANGED <<call, server>>, orders' \in Nat, keys' \in Nat
      PROVE  TypeOK'
  BY <1>3 DEF TypeOK
<1>4. ASSUME NEW p \in {"transfer", "merchant"}, Open(p)
      PROVE  PageStep /\ TypeOK'
  BY <1>0, <1>1, <1>3, <1>4 DEF Open, FreshForm
<1>5. ASSUME NEW b \in Bodies, Edit(b)
      PROVE  PageStep /\ TypeOK'
  <2>1. form' \in Form /\ form'.order = orders + 1 /\ form'.status = form.status
        /\ form'.challenge = form.challenge /\ form'.paid = form.paid /\ form'.asked = form.asked
    <3>1. form' = [form EXCEPT !.body = b, !.order = orders + 1]
      BY <1>5 DEF Edit
    <3> QED
      BY <1>0, <3>1 DEF Form
  <2>2. /\ orders' = orders + 1 /\ page' \in Pages \cup {None} /\ keys' \in Nat
        /\ awaited' = awaited /\ UNCHANGED <<call, server>>
    BY <1>5 DEF Edit, TypeOK
  <2> QED
    BY <1>0, <1>3, <2>1, <2>2
<1>6. CASE Reset
  BY <1>0, <1>2, <1>3, <1>6 DEF Reset, FreshForm, TypeOK
<1>7. CASE NewKey
  <2>1. form' \in Form /\ form'.order = orders + 1 /\ form'.status = form.status
        /\ form'.challenge = form.challenge /\ form'.paid = form.paid /\ form'.asked = form.asked
    <3>1. form' = [form EXCEPT !.key = keys + 1, !.order = orders + 1]
      BY <1>7 DEF NewKey
    <3> QED
      BY <1>0, <3>1 DEF Form
  <2>2. /\ orders' = orders + 1 /\ page' \in Pages \cup {None} /\ keys' = keys + 1
        /\ awaited' = awaited /\ UNCHANGED <<call, server>>
    BY <1>7 DEF NewKey, FreshForm, TypeOK
  <2> QED
    BY <1>0, <1>3, <2>1, <2>2
<1>8. CASE SubmitNothing
  <2>1. form' \in Form /\ form'.order = form.order /\ form'.key = form.key
        /\ form'.status = "error" /\ form'.asked = form.asked
        /\ (form'.paid = None \/ form'.paid = form.paid)
    <3>1. PICK p \in {None, form.paid} : form' = [form EXCEPT !.status = "error", !.paid = p]
      BY <1>8 DEF SubmitNothing
    <3>2. form \in Form /\ p \in Calls \cup {None}
      BY DEF TypeOK, Form
    <3> QED
      BY <3>1, <3>2 DEF Form
  <2> QED
    BY <1>3, <1>8, <2>1 DEF SubmitNothing, TypeOK
<1>9. CASE CancelStepUp
  <2>1. form' \in Form /\ form'.order = form.order /\ form'.key = form.key
        /\ form'.status = "idle" /\ form'.asked = form.asked /\ form'.paid = form.paid
    BY <1>9 DEF CancelStepUp, Form, TypeOK
  <2> QED
    BY <1>3, <1>9, <2>1 DEF CancelStepUp, TypeOK
<1> QED
  BY <1>4, <1>5, <1>6, <1>7, <1>8, <1>9

LEMMA Steps ==
  ASSUME IndInv, Next
  PROVE  \/ PageStep /\ TypeOK'
         \/ \E c \in Calls : Sends(c) \/ Serve(c)
         \/ \E c \in Calls : \E r : Taken(c, r)
<1> TypeOK
  BY DEF IndInv
<1>1. ASSUME NEW c \in Calls, Settle(c)
      PROVE  \E r : Taken(c, r)
  BY <1>1 DEF Settle, Deliver, Lose, Truncate, Taken
<1> QED
  BY <1>1, PageSteps DEF Next, Sends

\* The three ways an answer changes the form.
LEMMA TakenFacts ==
  ASSUME IndInv, NEW c \in Calls, NEW r, Taken(c, r)
  PROVE  /\ Sent(c) /\ UNCHANGED <<page, call, server, orders, keys>>
         /\ awaited' = awaited \ {c}
         /\ form'.order = form.order /\ form'.key = form.key
         /\ form'.status = "step_up" => \/ form'.challenge = c /\ reply[c].code = "step-up"
                                        \/ form.status = "step_up" /\ form'.challenge = form.challenge
         /\ \/ form'.paid = form.paid /\ form'.asked = form.asked
            \/ form'.paid = None
            \/ form'.asked = c /\ reply[c].code = "paid" /\ form'.paid = reply[c].by
         /\ TypeOK'
<1> TypeOK /\ SentSound
  BY DEF IndInv
<1>1. Sent(c) /\ UNCHANGED <<page, call, server, orders, keys>> /\ awaited' = awaited \ {c}
  BY DEF Taken, Continue, SentSound
<1>2. r.by \in Calls \cup {None} /\ r.code \in {"none", "refused", "step-up", "paid", "failed"}
      /\ (r.code = "paid" => reply[c].code = "paid" /\ r.by \in {reply[c].by, None})
      /\ (r.code = "step-up" => reply[c].code = "step-up")
  BY DEF Taken, TypeOK
<1>3. \/ form' = [form EXCEPT !.status = "success", !.paid = r.by, !.asked = c] /\ r.code = "paid"
      \/ form' = [form EXCEPT !.status = "step_up", !.challenge = c] /\ reply[c].code = "step-up"
      \/ form' = [form EXCEPT !.status = "error"]
      \/ form' = [form EXCEPT !.status = "success", !.paid = r.by, !.asked = c,
                              !.confirming = FALSE] /\ r.code = "paid"
      \/ form' = [form EXCEPT !.confirming = FALSE]
  BY <1>2 DEF Taken, Continue, AfterSubmit, AfterConfirm
<1>4. /\ form'.order = form.order /\ form'.key = form.key
      /\ form'.status = "step_up" => \/ form'.challenge = c /\ reply[c].code = "step-up"
                                     \/ form.status = "step_up" /\ form'.challenge = form.challenge
      /\ \/ form'.paid = form.paid /\ form'.asked = form.asked
         \/ form'.paid = None
         \/ form'.asked = c /\ reply[c].code = "paid" /\ form'.paid = reply[c].by
  <2>1. form \in Form
    BY DEF TypeOK
  <2> QED
    BY <1>2, <1>3, <2>1 DEF Form
<1>5. form' \in Form
  <2>1. form \in Form /\ r.by \in Calls \cup {None} /\ c \in Calls
    BY <1>2 DEF TypeOK
  <2>2. /\ [form EXCEPT !.status = "success", !.paid = r.by, !.asked = c] \in Form
        /\ [form EXCEPT !.status = "success", !.paid = r.by, !.asked = c,
                        !.confirming = FALSE] \in Form
    BY <2>1 DEF Form
  <2>3. /\ [form EXCEPT !.status = "step_up", !.challenge = c] \in Form
        /\ [form EXCEPT !.status = "error"] \in Form
        /\ [form EXCEPT !.confirming = FALSE] \in Form
    BY <2>1 DEF Form
  <2> QED
    BY <1>3, <2>2, <2>3
<1>6. TypeOK'
  BY <1>1, <1>5 DEF TypeOK, server
<1> QED
  BY <1>1, <1>4, <1>6

\* What is sent: the form under its key or a fresh one, or what a challenge stands for.
LEMMA SendsFacts ==
  ASSUME IndInv, NEW c \in Calls, Sends(c)
  PROVE  /\ ~Sent(c) /\ UNCHANGED <<page, server, orders>>
         /\ \A d \in Calls \ {c} : call'[d] = call[d]
         /\ call'[c] \in Call
         /\ \/ /\ page = call'[c].page /\ call'[c].order = form.order
               /\ page = "transfer" => call'[c].key = form.key
            \/ \E d \in Calls : /\ Sent(d) /\ call'[c].page = call[d].page
                                /\ call'[c].order = call[d].order /\ call'[c].key = call[d].key
         /\ awaited' = awaited \cup {c}
         /\ form'.order = form.order /\ form'.key = form.key
         /\ form'.status = "step_up" => form.status = "step_up" /\ form'.challenge = form.challenge
         /\ form'.paid = None \/ (form'.paid = form.paid /\ form'.asked = form.asked)
         /\ TypeOK'
<1> TypeOK /\ SentSound
  BY DEF IndInv
<1>1. CASE Submit(c)
  <2>1. /\ ~Sent(c) /\ page \in Pages /\ form.body \in Bodies /\ SubmitKey \in Keys
        /\ call' = [call EXCEPT ![c] =
             [kind |-> "submit", page |-> page, body |-> form.body, key |-> SubmitKey,
              order |-> form.order, challenge |-> None]]
        /\ form' = [form EXCEPT !.status = "loading", !.paid = None, !.asked = None]
        /\ awaited' = awaited \cup {c} /\ UNCHANGED <<page, server, orders>>
        /\ keys' \in {keys, SubmitKey}
    BY <1>1 DEF Submit, IsNext, FormShown, TypeOK, Form
  <2>2. [kind |-> "submit", page |-> page, body |-> form.body, key |-> SubmitKey,
         order |-> form.order, challenge |-> None] \in Call
    BY <2>1 DEF Call, TypeOK, Form
  <2>3. /\ form' \in Form /\ form'.order = form.order /\ form'.key = form.key
        /\ form'.status = "loading" /\ form'.paid = None
    BY <2>1 DEF TypeOK, Form
  <2>4. TypeOK'
    BY <2>1, <2>2, <2>3 DEF TypeOK, server, Keys
  <2>5. /\ \A x \in Calls \ {c} : call'[x] = call[x]
        /\ call'[c] \in Call /\ page = call'[c].page /\ call'[c].order = form.order
        /\ page = "transfer" => call'[c].key = form.key
    BY <2>1, <2>2 DEF TypeOK, SubmitKey
  <2> QED
    BY <2>1, <2>3, <2>4, <2>5
<1>2. CASE Confirm(c)
  <2> DEFINE d == form.challenge
             again == [call[d] EXCEPT !.kind = "confirm", !.challenge = d]
  <2>1. d \in Calls /\ Sent(d) /\ call[d] \in Call
    BY <1>2, CallFacts DEF Confirm, SentSound
  <2>2. /\ again \in Call /\ again.page = call[d].page
        /\ again.order = call[d].order /\ again.key = call[d].key
    BY <2>1 DEF Call
  <2>3. /\ ~Sent(c) /\ call' = [call EXCEPT ![c] = again]
        /\ form' = [form EXCEPT !.confirming = TRUE]
        /\ awaited' = awaited \cup {c} /\ UNCHANGED <<page, server, orders, keys>>
    BY <1>2 DEF Confirm, IsNext
  <2> HIDE DEF again, d
  <2>4. /\ form' \in Form /\ form'.order = form.order /\ form'.key = form.key
        /\ form'.status = form.status /\ form'.challenge = form.challenge
        /\ form'.paid = form.paid /\ form'.asked = form.asked
    BY <2>3 DEF TypeOK, Form
  <2>5. TypeOK'
    BY <2>2, <2>3, <2>4 DEF TypeOK, server
  <2> QED
    BY <2>1, <2>2, <2>3, <2>4, <2>5 DEF TypeOK
<1> QED
  BY <1>1, <1>2 DEF Sends

\* What the server sees of a call that was sent.
LEMMA AskedFacts ==
  ASSUME TypeOK, NEW c \in Calls
  PROVE  /\ Sent(c) => /\ Asked[c] # NoCall
                       /\ Asked[c].kind = call[c].kind /\ Asked[c].slot = call[c].key
                       /\ Asked[c].body = call[c].body
         /\ ~Sent(c) => Asked[c] = NoCall
  BY CallFacts DEF Asked

\* What the server answers: a refusal, a challenge, a payment or the stored response.
LEMMA ServeFacts ==
  ASSUME IndInv, NEW c \in Calls, Serve(c)
  PROVE  /\ Sent(c) /\ UNCHANGED <<page, form, awaited, call, orders, keys>>
         /\ reply[c] = NoReply
         /\ \A d \in Calls \ {c} : reply'[d] = reply[d]
         /\ \/ UNCHANGED <<posted, row>> /\ reply'[c].code # "paid"
            \/ /\ UNCHANGED <<posted, row>>
               /\ row[call[c].key] # None
               /\ call[row[call[c].key]].body = call[c].body
               /\ reply'[c].by = row[call[c].key]
            \/ /\ row[call[c].key] = None /\ row' = [row EXCEPT ![call[c].key] = c]
               /\ posted' = posted \cup {c} /\ reply'[c].by = c
         /\ TypeOK'
<1> TypeOK
  BY DEF IndInv
<1>1. /\ Sent(c) /\ reply[c] = NoReply /\ UNCHANGED <<page, form, awaited, call, orders, keys>>
  BY AskedFacts DEF Serve, Api!Refuse, Api!Serve, Api!ServeConfirm, Api!Unserved
<1>2. /\ call[c].key \in Keys /\ Asked[c].slot = call[c].key /\ Asked[c].body = call[c].body
  BY <1>1, AskedFacts, CallFacts
<1>3. \/ Api!Answer(c, Reply("refused", None)) /\ UNCHANGED <<posted, row>>
      \/ Api!Answer(c, Reply("step-up", None)) /\ UNCHANGED <<posted, row>>
      \/ Api!Pay(c)
  BY DEF Serve, Api!Refuse, Api!Serve, Api!ServeConfirm
<1>4. row[call[c].key] # None => /\ row[call[c].key] \in Calls
                                 /\ Asked[row[call[c].key]].body = call[row[call[c].key]].body
  BY <1>2, AskedFacts DEF IndInv, RowsSound, SentSound, TypeOK
<1>5. \/ Api!Answer(c, Reply("refused", None)) /\ UNCHANGED <<posted, row>>
      \/ Api!Answer(c, Reply("step-up", None)) /\ UNCHANGED <<posted, row>>
      \/ /\ Api!Answer(c, Reply("paid", row[call[c].key])) /\ UNCHANGED <<posted, row>>
         /\ row[call[c].key] # None /\ call[row[call[c].key]].body = call[c].body
      \/ /\ Api!Answer(c, Reply("paid", c)) /\ row[call[c].key] = None
         /\ row' = [row EXCEPT ![call[c].key] = c] /\ posted' = posted \cup {c}
  BY <1>2, <1>3, <1>4 DEF Api!Pay, Api!Stored, Api!SameBody
<1>6. row[call[c].key] \in Calls \cup {None}
  BY <1>2 DEF TypeOK
<1>7. /\ \A d \in Calls \ {c} : reply'[d] = reply[d]
      /\ \/ UNCHANGED <<posted, row>> /\ reply'[c].code # "paid"
         \/ /\ UNCHANGED <<posted, row>>
            /\ row[call[c].key] # None
            /\ call[row[call[c].key]].body = call[c].body
            /\ reply'[c].by = row[call[c].key]
         \/ /\ row[call[c].key] = None /\ row' = [row EXCEPT ![call[c].key] = c]
            /\ posted' = posted \cup {c} /\ reply'[c].by = c
  BY <1>5 DEF Api!Answer, TypeOK
<1>8. TypeOK'
  BY <1>1, <1>2, <1>5, <1>6 DEF Api!Answer, TypeOK
<1> QED
  BY <1>1, <1>7, <1>8

-----------------------------------------------------------------------------
(* The invariant.                                                          *)

\* A step of the page, an answer taken and one given leave what was sent; sending adds
\* one call.
LEMMA SentKept ==
  ASSUME IndInv, Next, NEW c \in Calls, Sent(c)
  PROVE  Sent(c)' /\ call'[c] = call[c]
<1>1. CASE PageStep
  BY <1>1 DEF PageStep, Sent
<1>2. ASSUME NEW d \in Calls, NEW r, Taken(d, r)
      PROVE  call' = call
  BY <1>2 DEF Taken, Continue
<1>3. ASSUME NEW d \in Calls, Serve(d)
      PROVE  call' = call
  BY <1>3, ServeFacts
<1>4. ASSUME NEW d \in Calls, Sends(d)
      PROVE  call'[c] = call[c]
  BY <1>4, SendsFacts
<1> QED
  BY <1>1, <1>2, <1>3, <1>4, Steps DEF Sent

LEMMA TypeStep ==
  ASSUME IndInv, Next
  PROVE  TypeOK'
  BY Steps, TakenFacts, SendsFacts, ServeFacts

LEMMA SentStep ==
  ASSUME IndInv, Next
  PROVE  SentSound'
<1> TypeOK /\ SentSound
  BY DEF IndInv
<1> \A c \in Calls : Sent(c) => Sent(c)' /\ call'[c] = call[c]
  BY SentKept
<1>1. CASE PageStep
  <2>1. orders' >= orders /\ form'.order <= orders'
    BY <1>1 DEF PageStep, Renewed, Kept, SentSound, TypeOK
  <2>2. \A c \in Calls : call'[c] = call[c] /\ (Sent(c)' <=> Sent(c))
    BY <1>1 DEF PageStep, Sent
  <2>3. \A c \in Calls : Sent(c)' => call'[c].order <= orders'
    BY <1>1, <2>1, <2>2, CallFacts DEF SentSound, PageStep, Renewed, Kept, TypeOK
  <2> QED
    BY <1>1, <2>1, <2>2, <2>3 DEF SentSound, PageStep, Renewed, Kept, server
<1>2. ASSUME NEW c \in Calls, NEW r, Taken(c, r)
      PROVE  SentSound'
  BY <1>2, TakenFacts DEF SentSound, server, Sent
<1>3. ASSUME NEW c \in Calls, Serve(c)
      PROVE  SentSound'
  BY <1>3, ServeFacts DEF SentSound, Sent
<1>4. ASSUME NEW c \in Calls, Sends(c)
      PROVE  SentSound'
  <2>1. call'[c].order <= orders'
    <3>1. \A d \in Calls : Sent(d) => call[d].order <= orders
      BY DEF SentSound
    <3> QED
      BY <1>4, <3>1, SendsFacts DEF SentSound
  <2>2. Sent(c)'
    BY <1>4, SendsFacts DEF Sent, Call
  <2>3. \A d \in Calls \ {c} : call'[d] = call[d] /\ (Sent(d)' <=> Sent(d))
    BY <1>4, SendsFacts DEF Sent
  <2> QED
    BY <1>4, <2>1, <2>2, <2>3, SendsFacts DEF SentSound, server
<1> QED
  BY <1>1, <1>2, <1>3, <1>4, Steps

LEMMA OneKeyStep ==
  ASSUME IndInv, Next
  PROVE  OneKeyPerOrder'
<1> TypeOK /\ SentSound /\ OneKeyPerOrder
  BY DEF IndInv
<1>1. ASSUME UNCHANGED <<page, call>>, form'.order = form.order, form'.key = form.key
      PROVE  OneKeyPerOrder'
  BY <1>1 DEF OneKeyPerOrder, TransferCall, Sent
<1>2. CASE PageStep /\ Renewed
  <2>1. \A c \in Calls : TransferCall(c) => call[c].order < form'.order
    BY <1>2, CallFacts DEF Renewed, TransferCall, SentSound, TypeOK
  <2>2. \A c \in Calls : call'[c] = call[c] /\ (TransferCall(c)' <=> TransferCall(c))
    BY <1>2 DEF PageStep, TransferCall, Sent
  <2>3. \A c \in Calls : TransferCall(c) => call[c].order # form'.order
    BY <1>2, <2>1, CallFacts DEF TransferCall, Renewed, TypeOK
  <2> QED
    BY <2>2, <2>3 DEF OneKeyPerOrder
<1>3. CASE PageStep /\ Kept
  BY <1>1, <1>3 DEF PageStep, Kept
<1>4. ASSUME NEW c \in Calls, NEW r, Taken(c, r)
      PROVE  OneKeyPerOrder'
  BY <1>1, <1>4, TakenFacts
<1>5. ASSUME NEW c \in Calls, Serve(c)
      PROVE  OneKeyPerOrder'
  BY <1>1, <1>5, ServeFacts
<1>6. ASSUME NEW c \in Calls, Sends(c)
      PROVE  OneKeyPerOrder'
  <2>1. page' = page /\ form'.order = form.order /\ form'.key = form.key
    BY <1>6, SendsFacts
  <2>2. \A d \in Calls \ {c} : call'[d] = call[d] /\ (TransferCall(d)' <=> TransferCall(d))
    BY <1>6, SendsFacts DEF TransferCall, Sent
  <2>3. ~TransferCall(c)
    BY <1>6, SendsFacts DEF TransferCall
  \* What is sent agrees with the form, or with a call already sent.
  <2>4. ASSUME TransferCall(c)', NEW d \in Calls, TransferCall(d), call[d].order = call'[c].order
        PROVE  call[d].key = call'[c].key
    <3>1. CASE page = call'[c].page /\ call'[c].order = form.order
               /\ (page = "transfer" => call'[c].key = form.key)
      BY <2>4, <3>1 DEF TransferCall, OneKeyPerOrder
    <3>2. ASSUME NEW e \in Calls, Sent(e), call'[c].page = call[e].page,
                 call'[c].order = call[e].order, call'[c].key = call[e].key
          PROVE  call[d].key = call'[c].key
      BY <2>4, <3>2 DEF TransferCall, OneKeyPerOrder
    <3> QED
      BY <1>6, <3>1, <3>2, SendsFacts
  <2>5. ASSUME TransferCall(c)', page = "transfer", call'[c].order = form.order
        PROVE  call'[c].key = form.key
    <3>1. ASSUME NEW e \in Calls, Sent(e), call'[c].page = call[e].page,
                 call'[c].order = call[e].order, call'[c].key = call[e].key
          PROVE  call'[c].key = form.key
      BY <2>5, <3>1 DEF TransferCall, OneKeyPerOrder
    <3> QED
      BY <1>6, <2>5, <3>1, SendsFacts
  <2>6. ASSUME NEW a \in Calls, NEW b \in Calls, TransferCall(a)', TransferCall(b)',
               call'[a].order = call'[b].order
        PROVE  call'[a].key = call'[b].key
    <3>1. CASE a = c /\ b # c
      BY <2>2, <2>4, <2>6, <3>1
    <3>2. CASE b = c /\ a # c
      BY <2>2, <2>4, <2>6, <3>2
    <3>3. CASE a # c /\ b # c
      BY <2>2, <2>6, <3>3 DEF OneKeyPerOrder
    <3> QED
      BY <3>1, <3>2, <3>3
  <2>7. ASSUME NEW a \in Calls, TransferCall(a)', page = "transfer", call'[a].order = form.order
        PROVE  call'[a].key = form.key
    BY <2>2, <2>5, <2>7 DEF OneKeyPerOrder
  <2> QED
    BY <2>1, <2>6, <2>7 DEF OneKeyPerOrder
<1> QED
  BY <1>2, <1>3, <1>4, <1>5, <1>6, Steps DEF PageStep

\* What has been posted stays, with what it was posted for.
LEMMA PostedKept ==
  ASSUME IndInv, Next
  PROVE  /\ posted \subseteq posted'
         /\ \A c \in posted : c \in Calls /\ Sent(c) /\ call'[c] = call[c]
<1>1. \A c \in posted : c \in Calls /\ Sent(c)
  BY DEF IndInv, TypeOK, SentSound
<1>2. posted \subseteq posted'
  BY Steps, TakenFacts, SendsFacts, ServeFacts DEF PageStep, server
<1> QED
  BY <1>1, <1>2, SentKept

LEMMA RowsStep ==
  ASSUME IndInv, Next
  PROVE  RowsSound'
<1> TypeOK /\ RowsSound
  BY DEF IndInv
<1> \A c \in posted : call'[c] = call[c] /\ c \in Calls /\ call[c].key \in Keys
  BY PostedKept, CallFacts
<1>1. CASE UNCHANGED <<posted, row>>
  BY <1>1 DEF RowsSound
<1>2. ASSUME NEW c \in Calls, Serve(c), row[call[c].key] = None,
             row' = [row EXCEPT ![call[c].key] = c], posted' = posted \cup {c}
      PROVE  RowsSound'
  <2>1. call' = call /\ call[c].key \in Keys
    BY <1>2, ServeFacts, CallFacts
  <2>2. \A d \in posted : call[d].key # call[c].key
    BY <1>2, CallFacts DEF RowsSound, TypeOK
  <2> QED
    BY <1>2, <2>1, <2>2 DEF RowsSound, TypeOK
<1>3. ASSUME NEW c \in Calls, Serve(c)
      PROVE  RowsSound'
  BY <1>1, <1>2, <1>3, ServeFacts
<1> QED
  BY <1>1, <1>3, Steps, TakenFacts, SendsFacts DEF PageStep, server

LEMMA AnswersStep ==
  ASSUME IndInv, Next
  PROVE  AnswersSound'
<1> TypeOK /\ SentSound /\ RowsSound /\ AnswersSound
  BY DEF IndInv
<1>1. ASSUME NEW p, NEW c \in Calls, Sent(c), PaymentFor(p, c)
      PROVE  PaymentFor(p, c)'
  BY <1>1, PostedKept, SentKept DEF PaymentFor
<1>2. \A c \in Calls : reply[c].code = "paid" => Sent(c)
  BY DEF SentSound
<1> DEFINE Shown == form.paid # None =>
                      form.asked \in Calls /\ Sent(form.asked) /\ PaymentFor(form.paid, form.asked)
           Replied(c) == reply[c].code = "paid" => PaymentFor(reply[c].by, c)
<1>3. ASSUME form'.paid = None \/ (form'.paid = form.paid /\ form'.asked = form.asked)
      PROVE  Shown'
  BY <1>1, <1>3, SentKept DEF AnswersSound
<1>4. ASSUME NEW c \in Calls, reply'[c] = reply[c]
      PROVE  Replied(c)'
  BY <1>1, <1>2, <1>4 DEF AnswersSound
<1>5. CASE PageStep
  BY <1>3, <1>4, <1>5 DEF PageStep, Renewed, Kept, server, AnswersSound
<1>6. ASSUME NEW c \in Calls, NEW r, Taken(c, r)
      PROVE  AnswersSound'
  <2>1. reply' = reply
    BY <1>6, TakenFacts DEF server
  <2>2. Shown'
    <3>1. CASE form'.asked = c /\ reply[c].code = "paid" /\ form'.paid = reply[c].by
      BY <1>1, <1>2, <3>1, SentKept DEF AnswersSound
    <3> QED
      BY <1>3, <1>6, <3>1, TakenFacts
  <2> QED
    BY <1>4, <2>1, <2>2 DEF AnswersSound
<1>7. ASSUME NEW c \in Calls, Sends(c)
      PROVE  AnswersSound'
  BY <1>3, <1>4, <1>7, SendsFacts DEF server, AnswersSound
<1>8. ASSUME NEW c \in Calls, Serve(c)
      PROVE  AnswersSound'
  <2>1. Shown'
    BY <1>3, <1>8, ServeFacts
  <2>2. call' = call /\ call[c].key \in Keys
    BY <1>8, ServeFacts, CallFacts
  <2>3. Replied(c)'
    <3>1. CASE UNCHANGED <<posted, row>> /\ row[call[c].key] # None /\ call[row[call[c].key]].body = call[c].body
               /\ reply'[c].by = row[call[c].key]
      BY <2>2, <3>1 DEF RowsSound, PaymentFor
    <3>2. CASE posted' = posted \cup {c} /\ reply'[c].by = c
      BY <3>2 DEF PaymentFor
    <3> QED
      BY <1>8, <3>1, <3>2, ServeFacts
  <2>4. \A d \in Calls : Replied(d)'
    BY <1>4, <1>8, <2>3, ServeFacts
  <2> QED
    BY <2>1, <2>4 DEF AnswersSound
<1> QED
  BY <1>5, <1>6, <1>7, <1>8, Steps

LEMMA WaitsStep ==
  ASSUME IndInv, Next
  PROVE  WaitsHaveCalls'
<1> TypeOK /\ SentSound /\ WaitsHaveCalls
  BY DEF IndInv
<1>1. \A c \in awaited : Sent(c) /\ c \in Calls /\ call'[c] = call[c]
  BY SentKept DEF SentSound, TypeOK
<1>2. ASSUME awaited \subseteq awaited'
      PROVE  \A kind : Awaits(kind) => Awaits(kind)'
  BY <1>1, <1>2 DEF Awaits
<1>3. ASSUME NEW p \in {"transfer", "merchant"}, Open(p)
      PROVE  WaitsHaveCalls'
  BY <1>3 DEF Open, Blank, WaitsHaveCalls
<1>4. ASSUME \/ \E b \in Bodies : Edit(b)
             \/ Reset \/ NewKey \/ SubmitNothing \/ CancelStepUp
      PROVE  WaitsHaveCalls'
  <2>1. awaited' = awaited /\ form'.confirming = form.confirming
        /\ (form'.status = "loading" => form.status = "loading")
    BY <1>4 DEF Edit, Reset, NewKey, SubmitNothing, CancelStepUp, Blank, TypeOK, Form
  <2> QED
    BY <1>2, <2>1 DEF WaitsHaveCalls
<1>5. ASSUME NEW c \in Calls, Submit(c)
      PROVE  WaitsHaveCalls'
  <2>1. awaited' = awaited \cup {c} /\ form'.confirming = form.confirming
        /\ call'[c].kind = "submit"
    BY <1>5 DEF Submit, TypeOK, Form
  <2> QED
    BY <1>2, <2>1 DEF WaitsHaveCalls, Awaits
<1>6. ASSUME NEW c \in Calls, Confirm(c)
      PROVE  WaitsHaveCalls'
  <2>1. awaited' = awaited \cup {c} /\ form'.status = form.status
    BY <1>6 DEF Confirm, TypeOK, Form
  <2>2. call'[c].kind = "confirm"
    <3>1. form.challenge \in Calls /\ call[form.challenge] \in Call
      BY <1>6, CallFacts DEF Confirm, SentSound
    <3> QED
      BY <1>6, <3>1 DEF Confirm, TypeOK, Call
  <2> QED
    BY <1>2, <2>1, <2>2 DEF WaitsHaveCalls, Awaits
<1>7. ASSUME NEW c \in Calls, NEW r, Taken(c, r)
      PROVE  WaitsHaveCalls'
  <2>1. call[c].kind \in {"submit", "confirm"} /\ awaited' = awaited \ {c}
    BY <1>1, <1>7, TakenFacts, CallFacts DEF Taken
  <2>2. CASE call[c].kind = "submit"
    <3>1. form'.status # "loading" /\ form'.confirming = form.confirming
      BY <1>7, <2>2 DEF Taken, Continue, AfterSubmit, TypeOK, Form
    <3>2. Awaits("confirm") => Awaits("confirm")'
      BY <1>1, <2>1, <2>2 DEF Awaits
    <3> QED
      BY <3>1, <3>2 DEF WaitsHaveCalls
  <2>3. CASE call[c].kind = "confirm"
    <3>1. ~form'.confirming /\ (form'.status = "loading" => form.status = "loading")
      BY <1>7, <2>3 DEF Taken, Continue, AfterConfirm, TypeOK, Form
    <3>2. Awaits("submit") => Awaits("submit")'
      BY <1>1, <2>1, <2>3 DEF Awaits
    <3> QED
      BY <3>1, <3>2 DEF WaitsHaveCalls
  <2> QED
    BY <2>1, <2>2, <2>3
<1>8. ASSUME NEW c \in Calls, Serve(c)
      PROVE  WaitsHaveCalls'
  BY <1>8, ServeFacts DEF Serve, WaitsHaveCalls, Awaits
<1>9. ASSUME NEW c \in Calls, Settle(c)
      PROVE  \E r : Taken(c, r)
  BY <1>9 DEF Settle, Deliver, Lose, Truncate, Taken
<1> QED
  BY <1>3, <1>4, <1>5, <1>6, <1>7, <1>8, <1>9 DEF Next

-----------------------------------------------------------------------------
(* The theorems.                                                           *)

LEMMA PagesStep == IndInv /\ [Next]_vars => IndInv'
<1>1. ASSUME IndInv, Next
      PROVE  IndInv'
  BY <1>1, TypeStep, SentStep, OneKeyStep, RowsStep, AnswersStep, WaitsStep DEF IndInv
<1>2. ASSUME IndInv, UNCHANGED vars
      PROVE  IndInv'
  BY <1>2 DEF IndInv, vars, server, TypeOK, SentSound, Sent, OneKeyPerOrder, TransferCall,
     RowsSound, AnswersSound, PaymentFor, WaitsHaveCalls, Awaits
<1> QED
  BY <1>1, <1>2

\* The inductive invariant holds in every reachable state.
THEOREM PagesInvariance == Safety => []IndInv
  BY PagesInit, PagesStep, PTL DEF Safety

\* The safety half of EveryWaitEnds: a payment form that waits has a call under way whose
\* end will end the wait (TransferPage.tsx and MerchantPayPage.tsx, isLoading and
\* isConfirming).
THEOREM WaitsHold == Safety => []WaitsHaveCalls
  BY PagesInvariance, PTL DEF IndInv

\* An order of the transfer page is paid at most once, through lost and late answers,
\* resubmissions and confirmations: its calls share a key, whose row names one of them.
THEOREM TransferOnceHolds == Safety => []TransferPaidOnce
<1>1. IndInv => TransferPaidOnce
  <2> SUFFICES ASSUME IndInv, NEW c \in posted, NEW d \in posted,
                      call[c].page = "transfer", call[d].page = "transfer",
                      call[c].order = call[d].order
               PROVE  c = d
    BY DEF TransferPaidOnce, PaidOnce
  <2>1. TransferCall(c) /\ TransferCall(d) /\ c \in Calls /\ d \in Calls
    BY DEF IndInv, TypeOK, SentSound, TransferCall
  <2>2. call[c].key = call[d].key
    BY <2>1 DEF IndInv, OneKeyPerOrder
  <2> QED
    BY <2>2 DEF IndInv, RowsSound
<1> QED
  BY <1>1, PagesInvariance, PTL

\* A result on the screen is that of a payment made for what the answered call asked.
THEOREM ResultHolds == Safety => []ResultIsTrue
<1>1. IndInv => ResultIsTrue
  BY DEF IndInv, AnswersSound, PaymentFor, ResultIsTrue
<1> QED
  BY <1>1, PagesInvariance, PTL

-----------------------------------------------------------------------------
(* The pages use the server as PaymentApi allows.                          *)

\* A step of the page, or an answer taken, is none of the interface's.
LEMMA AskedKept ==
  ASSUME UNCHANGED <<call, server>>
  PROVE  UNCHANGED Api!apiVars
  BY DEF server, Api!apiVars, Asked, Sent

\* What is sent is a submission, or confirms a challenge the server has answered.
LEMMA SendAsks ==
  ASSUME IndInv, NEW c \in Calls, Sends(c)
  PROVE  Api!Ask(c)
<1> TypeOK /\ SentSound
  BY DEF IndInv
<1>1. ~Sent(c) /\ UNCHANGED server /\ call'[c] \in Call /\ Asked[c] = NoCall
  BY SendsFacts, AskedFacts
<1>2. Asked' = [Asked EXCEPT ![c] = [kind |-> call'[c].kind, slot |-> call'[c].key,
                                     body |-> call'[c].body, challenge |-> call'[c].challenge]]
  <2>1. \A d \in Calls \ {c} : call'[d] = call[d]
    BY SendsFacts
  <2>2. Sent(c)'
    BY <1>1 DEF Sent, Call
  <2>3. \A d \in Calls : Asked'[d] = IF d = c
          THEN [kind |-> call'[c].kind, slot |-> call'[c].key,
                body |-> call'[c].body, challenge |-> call'[c].challenge]
          ELSE Asked[d]
    BY <2>1, <2>2 DEF Asked, Sent
  <2> QED
    BY <2>3 DEF Asked
<1>3. CASE Submit(c)
  <2>1. /\ call'[c].kind = "submit" /\ call'[c].challenge = None
        /\ call'[c].key \in Keys /\ call'[c].body \in Bodies
    BY <1>1, <1>3 DEF Submit, TypeOK, Call
  <2>2. Asked' = [Asked EXCEPT ![c] = Api!Submission(call'[c].key, call'[c].body)]
    BY <1>2, <2>1 DEF Api!Submission
  <2> QED
    BY <1>1, <2>1, <2>2 DEF Api!Ask, server
<1>4. CASE Confirm(c)
  <2> DEFINE ch == form.challenge
  <2>1. ch \in Calls /\ Sent(ch) /\ reply[ch].code = "step-up" /\ call[ch] \in Call
    BY <1>4, CallFacts DEF Confirm, SentSound
  <2>2. call'[c] = [call[ch] EXCEPT !.kind = "confirm", !.challenge = ch]
    BY <1>4 DEF Confirm, TypeOK
  <2>3. Asked[ch] = [kind |-> call[ch].kind, slot |-> call[ch].key, body |-> call[ch].body,
                     challenge |-> call[ch].challenge]
    BY <2>1 DEF Asked
  <2> HIDE DEF ch
  <2>4. Api!Confirmation(ch) = [kind |-> call'[c].kind, slot |-> call'[c].key,
                                body |-> call'[c].body, challenge |-> call'[c].challenge]
    <3>1. /\ call'[c].kind = "confirm" /\ call'[c].challenge = ch
          /\ call'[c].key = call[ch].key /\ call'[c].body = call[ch].body
      BY <2>1, <2>2 DEF Call
    <3>2. Api!Confirmation(ch) = [kind |-> "confirm", slot |-> call[ch].key,
                                  body |-> call[ch].body, challenge |-> ch]
      BY <2>3 DEF Api!Confirmation
    <3> QED
      BY <3>1, <3>2
  <2>5. Asked' = [Asked EXCEPT ![c] = Api!Confirmation(ch)]
    BY <1>2, <2>4
  <2> QED
    BY <1>1, <2>1, <2>5 DEF Api!Ask, server
<1> QED
  BY <1>3, <1>4 DEF Sends

\* The pages, with whatever the customer does, keep to the interface that Payments
\* implements (PaymentsProofs): the server they are checked with is no better than it.
THEOREM KeepsToApiHolds == Safety => KeepsToApi
<1>1. Init => Api!ApiInit
  BY DEF Init, Api!ApiInit, Asked, Sent
<1>2. IndInv /\ [Next]_vars => [Api!ApiNext]_(Api!apiVars)
  <2>1. ASSUME UNCHANGED vars
        PROVE  UNCHANGED Api!apiVars
    BY <2>1, AskedKept DEF vars
  <2>2. ASSUME NEW c \in Calls, NEW r, Taken(c, r)
        PROVE  UNCHANGED Api!apiVars
    BY <2>2, AskedKept DEF Taken, Continue
  <2>3. ASSUME IndInv, NEW c \in Calls, Sends(c)
        PROVE  [Api!ApiNext]_(Api!apiVars)
    BY <2>3, SendAsks DEF Api!ApiNext
  <2>4. ASSUME NEW c \in Calls, Serve(c)
        PROVE  [Api!ApiNext]_(Api!apiVars)
    BY <2>4 DEF Serve, Api!ApiNext
  <2>5. ASSUME PageStep
        PROVE  UNCHANGED Api!apiVars
    BY <2>5, AskedKept DEF PageStep
  <2> QED
    BY <2>1, <2>2, <2>3, <2>4, <2>5, Steps
<1> QED
  BY <1>1, <1>2, PagesInvariance, PTL DEF Safety, KeepsToApi, Api!ApiSpec

-----------------------------------------------------------------------------
(* Both pages.                                                             *)

\* Both inductive invariants hold whichever page is open: each page's steps leave the
\* other's state as it is.
THEOREM BothPages == PagesSpec => [](IndInv /\ C!IndInv)
<1>1. Start => IndInv /\ C!IndInv
  <2>1. Init => IndInv
    BY PagesInit
  <2>2. C!Init => C!IndInv
    BY C!CardsPageInit, MCPagesAssumption
  <2> QED
    BY <2>1, <2>2 DEF Start
<1>2. IndInv /\ C!IndInv /\ [(Next /\ PaymentsOnly) \/ (C!Next /\ CardsOnly)]_all
        => IndInv' /\ C!IndInv'
  <2>1. IndInv /\ [Next]_vars => IndInv'
    BY PagesStep
  <2>2. C!IndInv /\ [C!Next]_(C!vars) => C!IndInv'
    BY C!CardsPageStep, MCPagesAssumption
  <2>3. UNCHANGED cardsPage => UNCHANGED C!vars
    BY DEF cardsPage, C!vars, C!screen, C!dialogues, C!calls, C!server
  <2>4. UNCHANGED all => UNCHANGED vars /\ UNCHANGED cardsPage
    BY DEF all, vars, server
  <2> QED
    BY <2>1, <2>2, <2>3, <2>4 DEF PaymentsOnly, CardsOnly
<1> QED
  BY <1>1, <1>2, PTL DEF PagesSpec

\* The details on the screen are of the card of the dialogue, unless it was closed or
\* replaced under a verification (CardsPage.tsx, handleVerifyReveal and
\* handleInitiateReveal).
THEOREM DialogueHolds == PagesSpec => []DetailsAreOfTheDialogue
<1>1. C!IndInv => DetailsAreOfTheDialogue
  BY DEF C!IndInv, DetailsAreOfTheDialogue
<1> QED
  BY <1>1, BothPages, PTL

\* At rest the list is the database's about every card no newer list was asked for, unless
\* a call failed (CardsPage.tsx, loadCards at the end of each action).
THEOREM ListHolds == PagesSpec => []ListAgrees
<1>1. C!IndInv => ListAgrees
  BY DEF C!IndInv, C!ListSound, C!Acting, C!Acts, C!Loads, C!ListAgrees, ListAgrees
<1> QED
  BY <1>1, BothPages, PTL

\* No spinner of either page turns for nothing (CardsPage.tsx, loading and
\* actionLoading, besides the payment forms).
THEOREM SpinnersHold == PagesSpec => [](WaitsHaveCalls /\ C!WaitsHaveCalls)
<1>1. IndInv /\ C!IndInv => WaitsHaveCalls /\ C!WaitsHaveCalls
  BY DEF IndInv, C!IndInv
<1> QED
  BY <1>1, BothPages, PTL
=============================================================================
