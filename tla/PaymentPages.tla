----------------------------- MODULE PaymentPages -----------------------------
(***************************************************************************)
(* The pages that pay, frontend/src/pages/TransferPage.tsx and             *)
(* MerchantPayPage.tsx, with api/client.ts and a network that loses        *)
(* requests and answers, or delivers a request after the page gave up on   *)
(* it.  The server is module PaymentApi.                                   *)
(*                                                                         *)
(* An order is what the customer wants paid once: it is a new one whenever *)
(* the form is opened, emptied or edited, or its key is drawn anew, and it *)
(* stays the same when the customer just presses the button again.         *)
(***************************************************************************)
EXTENDS Naturals

CONSTANTS
  Bodies,       \* what can be filled in: accounts, payee, amount
  Large,        \* those above the step-up threshold
  MaxCalls, MaxOrders, MaxKeys,   \* bounds on what the customer does in a run
  None

Pages == {"transfer", "merchant"}

ASSUME PagesAssumption ==
  /\ Large \subseteq Bodies
  /\ MaxCalls \in Nat /\ MaxOrders \in Nat /\ MaxKeys \in Nat
  /\ None \notin Bodies \cup Pages \cup Nat

VARIABLES
  page,        \* the page that is open
  form,        \* its component's state
  awaited,     \* the calls whose answer the mounted component awaits
  call,        \* call -> what was sent
  reply,       \* call -> what the server answered, NoReply until then
  posted,      \* the calls that have posted a payment
  row,         \* key -> the call that paid under it, or None
  orders,      \* number of orders so far
  keys         \* number of keys drawn so far

server == <<reply, posted, row>>
vars == <<page, form, awaited, call, server, orders, keys>>

Calls == 1..MaxCalls
Keys == 1..MaxKeys

NoCall == [kind |-> "none"]
Sent(c) == call[c] # NoCall
IsNext(c) == ~Sent(c) /\ \A d \in Calls : d < c => Sent(d)

\* What the server sees of the calls: one customer's, so that a slot is a key.
Asked == [c \in Calls |->
  IF Sent(c) THEN [kind |-> call[c].kind, slot |-> call[c].key, body |-> call[c].body,
                   challenge |-> call[c].challenge]
  ELSE NoCall]

Api == INSTANCE PaymentApi WITH Slots <- Keys, asked <- Asked

NoReply == Api!NoReply
Reply(code, by) == Api!Reply(code, by)

\* What resetForm leaves: an empty form that waits for nothing.
Blank(order, key) ==
  [status |-> "idle", body |-> None, key |-> key, order |-> order,
   challenge |-> None, confirming |-> FALSE, paid |-> None, asked |-> None]

-----------------------------------------------------------------------------
(* The page.                                                               *)

\* The form is given to the next order, with a key drawn for it.
FreshForm ==
  /\ orders < MaxOrders /\ keys < MaxKeys
  /\ orders' = orders + 1
  /\ keys' = keys + 1

\* The component is mounted; leaving the page unmounts it, and what it awaited is
\* ignored when it comes.
Open(p) ==
  /\ page' = p
  /\ FreshForm
  /\ form' = Blank(orders + 1, keys + 1)
  /\ awaited' = {}
  /\ UNCHANGED <<call, server>>

\* The form can be edited, while a call is under way too; TransferPage hides it in
\* the step-up dialogue and after a success, MerchantPayPage after a success only.
FormShown ==
  /\ page # None
  /\ form.status # "success"
  /\ page = "transfer" => form.status # "step_up"

Edit(b) ==
  /\ FormShown
  /\ form.body # b
  /\ orders < MaxOrders
  /\ orders' = orders + 1
  /\ form' = [form EXCEPT !.body = b, !.order = orders + 1]
  /\ UNCHANGED <<page, awaited, call, server, keys>>

\* setTransferMode and "try a smaller amount" call resetForm, whatever is under way;
\* so does "make another" beside the result.  isConfirming is left alone.
Reset ==
  /\ page = "transfer" \/ (page = "merchant" /\ form.status = "success" /\ form.paid # None)
  /\ FreshForm
  /\ form' = [Blank(orders + 1, keys + 1) EXCEPT !.confirming = form.confirming]
  /\ UNCHANGED <<page, awaited, call, server>>

\* The button beside the key.
NewKey ==
  /\ page = "transfer" /\ FormShown
  /\ FreshForm
  /\ form' = [form EXCEPT !.key = keys + 1, !.order = orders + 1]
  /\ UNCHANGED <<page, awaited, call, server>>

\* Faulty: every submission draws a key.
KeyPerSubmit == keys + 1

\* The transfer page submits under the key of its form, the merchant page under a
\* key drawn for the call.
SubmitKey == IF page = "transfer" THEN form.key ELSE keys + 1

Submit(c) ==
  /\ FormShown
  /\ form.status # "loading" /\ form.body # None
  /\ IsNext(c)
  /\ SubmitKey \in Keys
  /\ call' = [call EXCEPT ![c] =
       [kind |-> "submit", page |-> page, body |-> form.body, key |-> SubmitKey,
        order |-> form.order, challenge |-> None]]
  /\ keys' = IF SubmitKey > keys THEN SubmitKey ELSE keys
  /\ awaited' = awaited \cup {c}
  /\ form' = [form EXCEPT !.status = "loading", !.paid = None, !.asked = None]
  /\ UNCHANGED <<page, server, orders>>

\* Nothing that can be paid is filled in: an error, and nothing is sent.  Only the
\* transfer page has taken the last result away by then.
SubmitNothing ==
  /\ FormShown
  /\ form.status # "loading" /\ form.body = None
  /\ form' = [form EXCEPT !.status = "error",
                          !.paid = IF page = "transfer" THEN None ELSE @]
  /\ UNCHANGED <<page, awaited, call, server, orders, keys>>

\* handleConfirmStepUp: the challenge stands for the call that raised it.
Confirm(c) ==
  /\ form.status = "step_up" /\ ~form.confirming
  /\ IsNext(c)
  /\ call' = [call EXCEPT ![c] =
       [call[form.challenge] EXCEPT !.kind = "confirm", !.challenge = form.challenge]]
  /\ awaited' = awaited \cup {c}
  /\ form' = [form EXCEPT !.confirming = TRUE]
  /\ UNCHANGED <<page, server, orders, keys>>

\* The dialogue is closed; the form keeps its content and its key.
CancelStepUp ==
  /\ form.status = "step_up" /\ ~form.confirming
  /\ form' = [form EXCEPT !.status = "idle"]
  /\ UNCHANGED <<page, awaited, call, server, orders, keys>>

\* What the continuation of a call makes of an answer: of whichever call it is, it
\* writes to the form as that is by now.
AfterSubmit(c, r) ==
  CASE r.code = "paid"    -> [form EXCEPT !.status = "success", !.paid = r.by,
                                          !.asked = c]
    [] r.code = "step-up" -> [form EXCEPT !.status = "step_up", !.challenge = c]
    [] OTHER              -> [form EXCEPT !.status = "error"]

\* Faulty: the dialogue stays busy after a failure.
AfterConfirmBusy(c, r) ==
  IF r.code = "paid"
  THEN [form EXCEPT !.status = "success", !.paid = r.by, !.asked = c,
                    !.confirming = FALSE]
  ELSE form

AfterConfirm(c, r) ==
  IF r.code = "paid"
  THEN [form EXCEPT !.status = "success", !.paid = r.by, !.asked = c,
                    !.confirming = FALSE]
  ELSE [form EXCEPT !.confirming = FALSE]

Continue(c, r) ==
  /\ form' = IF call[c].kind = "submit" THEN AfterSubmit(c, r) ELSE AfterConfirm(c, r)
  /\ awaited' = awaited \ {c}
  /\ UNCHANGED <<page, call, server, orders, keys>>

Deliver(c) ==
  /\ c \in awaited /\ reply[c] # NoReply
  /\ Continue(c, reply[c])

\* fetch fails: the request or its answer is lost, or still on its way.
Lose(c) ==
  /\ c \in awaited
  /\ Continue(c, Reply("failed", None))

\* The body of a good answer cannot be read: apiFetch returns null for it, and the
\* page is told of a success without a result.
Truncate(c) ==
  /\ c \in awaited /\ reply[c].code = "paid"
  /\ Continue(c, Reply("paid", None))

-----------------------------------------------------------------------------
(* The server.                                                             *)

Serve(c) ==
  /\ UNCHANGED <<page, form, awaited, call, orders, keys>>
  /\ Api!Refuse(c) \/ Api!Serve(c) \/ Api!ServeConfirm(c)

-----------------------------------------------------------------------------

Init ==
  /\ page = None
  /\ form = Blank(0, 0)
  /\ awaited = {}
  /\ call = [c \in Calls |-> NoCall]
  /\ reply = [c \in Calls |-> NoReply]
  /\ posted = {}
  /\ row = [k \in Keys |-> None]
  /\ orders = 0 /\ keys = 0

Settle(c) == Deliver(c) \/ Lose(c) \/ Truncate(c)

Next ==
  \/ \E p \in {"transfer", "merchant"} : Open(p)
  \/ \E b \in Bodies : Edit(b)
  \/ Reset \/ NewKey \/ SubmitNothing \/ CancelStepUp
  \/ \E c \in Calls : Submit(c) \/ Confirm(c) \/ Settle(c) \/ Serve(c)

\* A call to fetch ends, with an answer or an error.
Fairness == \A c \in Calls : WF_vars(Settle(c))

Safety == Init /\ [][Next]_vars
Spec == Safety /\ Fairness

-----------------------------------------------------------------------------
(* Properties.                                                             *)

\* Of the calls C, no two are for one order.
PaidOnce(C) == \A c, d \in C : call[c].order = call[d].order => c = d

\* An order of the transfer page is paid at most once: whatever is lost, comes late,
\* is asked again or confirmed twice, the form keeps its key until it is another
\* order's.
TransferPaidOnce == PaidOnce({c \in posted : call[c].page = "transfer"})

\* The idempotency keys prevent duplicate charges by retries, on every page that
\* pays.
EveryOrderPaidOnce == PaidOnce(posted)

\* A result shown is that of a payment that was made, with the very content of the
\* submission that was answered: neither an edit of the form under way nor an
\* answer to an earlier submission shows a payment as another.
ResultIsTrue ==
  form.paid # None => /\ form.paid \in posted
                      /\ call[form.paid].body = call[form.asked].body
                      /\ call[form.paid].key = call[form.asked].key

\* The pages keep to the interface of the payment service: a confirmation is sent only
\* for a challenge that was answered, and asks for what that was issued for.
KeepsToApi == Api!ApiSpec

\* The form is never left waiting: for an answer, nor for a confirmation, whatever is
\* edited, reset or asked again meanwhile.
EveryWaitEnds == /\ (form.status = "loading") ~> (form.status # "loading")
                 /\ form.confirming ~> ~form.confirming

-----------------------------------------------------------------------------
(* The inductive invariant.                                                *)

Call ==
  [kind : {"submit", "confirm"}, page : Pages, body : Bodies, key : Keys, order : Nat,
   challenge : Calls \cup {None}]

Form ==
  [status : {"idle", "loading", "error", "step_up", "success"},
   body : Bodies \cup {None}, key : Nat, order : Nat, challenge : Calls \cup {None},
   confirming : BOOLEAN, paid : Calls \cup {None}, asked : Calls \cup {None}]

TypeOK ==
  /\ page \in Pages \cup {None}
  /\ form \in Form
  /\ awaited \subseteq Calls
  /\ call \in [Calls -> Call \cup {NoCall}]
  /\ reply \in [Calls -> [code : {"none", "refused", "step-up", "paid"},
                          by : Calls \cup {None}]]
  /\ posted \subseteq Calls
  /\ row \in [Keys -> Calls \cup {None}]
  /\ orders \in Nat /\ keys \in Nat

\* Only a call that was sent is awaited, answered, paid or confirmed, and none is for
\* an order to come.
SentSound ==
  /\ \A c \in Calls : ~Sent(c) => c \notin awaited \cup posted /\ reply[c] = NoReply
  /\ \A c \in Calls : Sent(c) => call[c].order <= orders
  /\ form.order <= orders
  /\ form.status = "step_up" =>
       /\ form.challenge \in Calls /\ Sent(form.challenge)
       /\ reply[form.challenge].code = "step-up"

\* The transfer page submits an order under one key, and under that of the form while
\* the order is the form's.
TransferCall(c) == Sent(c) /\ call[c].page = "transfer"

OneKeyPerOrder ==
  /\ \A c, d \in Calls :
       TransferCall(c) /\ TransferCall(d) /\ call[c].order = call[d].order
         => call[c].key = call[d].key
  /\ \A c \in Calls :
       TransferCall(c) /\ page = "transfer" /\ call[c].order = form.order
         => call[c].key = form.key

\* The row of a key and the payment under it stand for each other.
RowsSound ==
  /\ \A c \in posted : row[call[c].key] = c
  /\ \A k \in Keys : row[k] # None => row[k] \in posted /\ call[row[k]].key = k

\* Call p is a payment of what c asked for.
PaymentFor(p, c) ==
  p \in posted /\ call[p].body = call[c].body /\ call[p].key = call[c].key

AnswersSound ==
  /\ \A c \in Calls : reply[c].code = "paid" => PaymentFor(reply[c].by, c)
  /\ form.paid # None =>
       form.asked \in Calls /\ Sent(form.asked) /\ PaymentFor(form.paid, form.asked)

\* What EveryWaitEnds rests on: a form that waits has a call whose end will end it, and
\* no edit, reset, late answer or second confirmation takes it away.
Awaits(kind) == \E c \in awaited : call[c].kind = kind

WaitsHaveCalls ==
  /\ form.status = "loading" => Awaits("submit")
  /\ form.confirming => Awaits("confirm")

IndInv ==
  /\ TypeOK /\ SentSound /\ OneKeyPerOrder /\ RowsSound /\ AnswersSound
  /\ WaitsHaveCalls
=============================================================================
