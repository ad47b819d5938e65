------------------------------- MODULE CardsPage -------------------------------
(***************************************************************************)
(* The page that shows a customer's cards, frontend/src/pages/             *)
(* CardsPage.tsx, over a network that loses and delays.  Its handlers run  *)
(* at the same time, and each writes to the page when its answer comes,    *)
(* whatever the page shows by then: one slot says what is busy, one which  *)
(* card a reveal is asked for, one what is revealed.                       *)
(*                                                                         *)
(* Of the server only the outcome of a call is left: module Cards has its  *)
(* steps.  A one-time password is right or wrong.                          *)
(***************************************************************************)
EXTENDS Naturals

CONSTANTS
  Cards,
  Seconds,      \* revealExpiresInSeconds
  MaxCalls,     \* bound on the calls of a run
  None

VARIABLES
  listed,      \* cards: card -> the status shown, or None
  shown,       \* ghost: the call whose list that is, 0 before the first
  loading,     \* loading: the list is hidden
  busy,        \* actionLoading: None, a card, "issue" or "verify"
  modal,       \* revealModalCardId
  details,     \* revealedDetails: the card whose number is on the screen, or None
  left,        \* revealTimeLeft
  waits,       \* the calls the mounted component awaits
  sent,        \* call -> [kind, card, by], or NoCall
  got,         \* call -> what the server answered, NoAnswer until then
  status,      \* card -> its status in the database, NONE before it is issued
  challenged,  \* the cards whose reveal challenge is alive
  mishaps      \* what has happened that the page does not guard against

dialogues == <<modal, details, left>>
calls == <<waits, sent>>
server == <<got, status, challenged>>
screen == <<listed, shown>>
vars == <<screen, loading, busy, dialogues, calls, server, mishaps>>

Calls == 1..MaxCalls
NoCall == [kind |-> "none", card |-> None, by |-> None]
NoList == [c \in Cards |-> None]
NoAnswer == [code |-> "none", list |-> NoList]
Actions == {"block", "unblock", "close", "issue"}

\* What the constants must be; MCPages has it checked of its instance.
CardsPageAssumption ==
  MaxCalls \in Nat \ {0} /\ Seconds \in Nat /\ None \notin Calls

IsNext(n) == sent[n] = NoCall /\ \A m \in Calls : m < n => sent[m] # NoCall
Unserved(n) == sent[n] # NoCall /\ got[n] = NoAnswer

Send(n, kind, c, by) ==
  /\ IsNext(n)
  /\ sent' = [sent EXCEPT ![n] = [kind |-> kind, card |-> c, by |-> by]]

-----------------------------------------------------------------------------
(* What the customer does.  A dialogue covers the page, but nothing below  *)
(* it is disabled: the keyboard still reaches it.                          *)

\* The buttons beside a card as it is listed.
Offered(c) ==
  CASE listed[c] = "ACTIVE"  -> {"initiate", "block", "close"}
    [] listed[c] = "BLOCKED" -> {"unblock", "close"}
    [] OTHER -> {}

\* Only the card that is busy is disabled, and only while nothing else is busy.
Press(n, c) ==
  /\ ~loading /\ busy # c
  /\ \E kind \in Offered(c) : Send(n, kind, c, None)
  /\ busy' = c
  /\ waits' = waits \cup {n}
  /\ UNCHANGED <<screen, loading, dialogues, server, mishaps>>

\* The form for a new card is there while the list is loading, too.
SubmitIssue(n) ==
  /\ busy # "issue"
  /\ Send(n, "issue", None, None)
  /\ busy' = "issue"
  /\ waits' = waits \cup {n}
  /\ UNCHANGED <<screen, loading, dialogues, server, mishaps>>

\* handleVerifyReveal asks for the card of the dialogue.
SubmitReveal(n) ==
  /\ modal # None /\ details = None
  /\ busy # "verify"
  /\ Send(n, "verify", modal, None)
  /\ busy' = "verify"
  /\ waits' = waits \cup {n}
  /\ UNCHANGED <<screen, loading, dialogues, server, mishaps>>

Verifying(ns) == \E n \in ns : sent[n].kind = "verify"

\* The dialogue is changed while an answer for it is on its way.
Replaces(card, ns) ==
  mishaps' = IF card # modal /\ Verifying(ns) THEN mishaps \cup {"dialogue"} ELSE mishaps

\* handleHideDetails: Cancel, Hide Details, and the end of the time.
HideDetails ==
  /\ modal' = None /\ details' = None /\ left' = 0
  /\ Replaces(None, waits)
  /\ UNCHANGED <<screen, loading, busy, calls, server>>

Cancel == (modal # None \/ details # None) /\ HideDetails

-----------------------------------------------------------------------------
(* The timer.                                                              *)

Tick ==
  /\ left > 0
  /\ left' = left - 1
  /\ UNCHANGED <<screen, loading, busy, modal, details, calls, server, mishaps>>

\* Faulty: the time ends for a dialogue only.
ExpireDialogue == left = 0 /\ details # None /\ modal # None /\ HideDetails

Expire == left = 0 /\ details # None /\ HideDetails

-----------------------------------------------------------------------------
(* What the handlers make of an answer.                                    *)

\* Block, unblock, close and issue await a new list before they are done.
Reload(n) ==
  \E m \in Calls :
    /\ Send(m, "load", None, n)
    /\ waits' = (waits \ {n}) \cup {m}
    /\ loading' = TRUE
    /\ UNCHANGED <<screen, busy, dialogues, mishaps>>

\* Faulty: a list that is already on its way is taken for the new one.
AnswerActionShares(n) ==
  /\ sent[n].kind \in Actions /\ got[n].code = "ok"
  /\ IF \E m \in waits : sent[m].kind = "load"
     THEN /\ busy' = None
          /\ waits' = waits \ {n}
          /\ UNCHANGED <<screen, loading, dialogues, sent, mishaps>>
     ELSE Reload(n)
  /\ UNCHANGED server

AnswerAction(n) ==
  /\ sent[n].kind \in Actions /\ got[n].code = "ok"
  /\ Reload(n)
  /\ UNCHANGED server

\* The list, and the end of the handler that waited for it, if one did.
AnswerLoad(n) ==
  /\ sent[n].kind = "load" /\ got[n].code = "ok"
  /\ listed' = got[n].list /\ shown' = n
  /\ loading' = FALSE
  /\ busy' = IF sent[n].by = None THEN busy ELSE None
  /\ waits' = waits \ {n}
  /\ UNCHANGED <<dialogues, sent, server, mishaps>>

\* Faulty: what was revealed of another card stays.
AnswerInitiateKeeps(n) ==
  /\ sent[n].kind = "initiate" /\ got[n].code = "ok"
  /\ modal' = sent[n].card
  /\ Replaces(sent[n].card, waits)
  /\ busy' = None
  /\ waits' = waits \ {n}
  /\ UNCHANGED <<screen, loading, details, left, sent, server>>

\* The dialogue for the card opens; a timer that is running goes on.
AnswerInitiate(n) ==
  /\ sent[n].kind = "initiate" /\ got[n].code = "ok"
  /\ modal' = sent[n].card /\ details' = None
  /\ Replaces(sent[n].card, waits)
  /\ busy' = None
  /\ waits' = waits \ {n}
  /\ UNCHANGED <<screen, loading, left, sent, server>>

\* The details, whichever dialogue is open.
AnswerReveal(n) ==
  /\ sent[n].kind = "verify" /\ got[n].code = "ok"
  /\ details' = sent[n].card /\ left' = Seconds
  /\ busy' = None
  /\ waits' = waits \ {n}
  /\ UNCHANGED <<screen, loading, modal, sent, server, mishaps>>

\* An error is shown; loadCards has an end of its own.
Fail(n) ==
  /\ waits' = waits \ {n}
  /\ loading' = (loading /\ sent[n].kind # "load")
  /\ busy' = IF sent[n].kind = "load" /\ sent[n].by = None THEN busy ELSE None
  /\ mishaps' = mishaps \cup {"failed"}
  /\ UNCHANGED <<screen, dialogues, sent, server>>

\* fetch may fail at any time, whatever has become of the call or will yet.
Settle(n) ==
  /\ n \in waits
  /\ \/ AnswerAction(n) \/ AnswerLoad(n) \/ AnswerInitiate(n) \/ AnswerReveal(n)
     \/ Fail(n)

\* The page is left and opened again: a new component, that loads the list.
Open(n) ==
  /\ Send(n, "load", None, None)
  /\ listed' = NoList /\ shown' = 0 /\ loading' = TRUE
  /\ busy' = None
  /\ modal' = None /\ details' = None /\ left' = 0
  /\ waits' = {n}
  /\ mishaps' = IF \E m \in Calls : Unserved(m) /\ sent[m].kind \in Actions
                THEN {"failed"} ELSE {}
  /\ UNCHANGED server

-----------------------------------------------------------------------------
(* The server.                                                             *)

Answered(n, code, list) == got' = [got EXCEPT ![n] = [code |-> code, list |-> list]]

Written(kind) ==
  CASE kind = "block" -> "BLOCKED" [] kind = "unblock" -> "ACTIVE" [] kind = "close" -> "CLOSED"

\* Blocking and unblocking find closed cards too.  The card may have been written
\* when a later statement fails.
ServeAction(n) ==
  /\ Unserved(n) /\ sent[n].kind \in {"block", "unblock", "close"}
  /\ sent[n].kind = "close" => status[sent[n].card] # "CLOSED"
  /\ status' = [status EXCEPT ![sent[n].card] = Written(sent[n].kind)]
  /\ \E code \in {"ok", "refused"} : Answered(n, code, NoList)
  /\ UNCHANGED challenged

ServeIssue(n) ==
  /\ Unserved(n) /\ sent[n].kind = "issue"
  /\ \E c \in Cards : status[c] = "NONE" /\ status' = [status EXCEPT ![c] = "ACTIVE"]
  /\ \E code \in {"ok", "refused"} : Answered(n, code, NoList)
  /\ UNCHANGED challenged

ServeInitiate(n) ==
  /\ Unserved(n) /\ sent[n].kind = "initiate"
  /\ status[sent[n].card] # "CLOSED"
  /\ challenged' = challenged \cup {sent[n].card}
  /\ Answered(n, "ok", NoList)
  /\ UNCHANGED status

\* The OTP is right; two verifications at once may both find the challenge.
ServeVerify(n) ==
  /\ Unserved(n) /\ sent[n].kind = "verify"
  /\ status[sent[n].card] # "CLOSED" /\ sent[n].card \in challenged
  /\ challenged' \in {challenged, challenged \ {sent[n].card}}
  /\ Answered(n, "ok", NoList)
  /\ UNCHANGED status

\* getCards leaves out the closed ones.
Visible == [c \in Cards |-> IF status[c] \in {"ACTIVE", "BLOCKED"} THEN status[c] ELSE None]

ServeLoad(n) ==
  /\ Unserved(n) /\ sent[n].kind = "load"
  /\ Answered(n, "ok", Visible)
  /\ UNCHANGED <<status, challenged>>

\* A wrong OTP, a card that is not found, KYC, an error.
Refuse(n) ==
  /\ Unserved(n)
  /\ Answered(n, "refused", NoList)
  /\ UNCHANGED <<status, challenged>>

Serve(n) ==
  /\ \/ ServeAction(n) \/ ServeIssue(n) \/ ServeInitiate(n) \/ ServeVerify(n)
     \/ ServeLoad(n) \/ Refuse(n)
  /\ UNCHANGED <<screen, loading, busy, dialogues, calls, mishaps>>

-----------------------------------------------------------------------------

\* The page has just been opened.
Init ==
  /\ listed = NoList /\ shown = 0 /\ loading = TRUE
  /\ busy = None /\ modal = None /\ details = None /\ left = 0
  /\ sent = [n \in Calls |->
       IF n = 1 THEN [NoCall EXCEPT !.kind = "load"] ELSE NoCall]
  /\ waits = {1}
  /\ got = [n \in Calls |-> NoAnswer]
  /\ status \in [Cards -> {"NONE", "ACTIVE", "BLOCKED"}]
  /\ challenged = {} /\ mishaps = {}

Next ==
  \/ \E n \in Calls :
       \/ \E c \in Cards : Press(n, c)
       \/ SubmitIssue(n) \/ SubmitReveal(n) \/ Open(n)
       \/ Settle(n) \/ Serve(n)
  \/ Cancel \/ Tick \/ Expire

\* A call to fetch ends; time passes; an effect that is due runs.
Fairness ==
  /\ \A n \in Calls : WF_vars(Settle(n))
  /\ WF_vars(Tick) /\ WF_vars(Expire)

Spec == Init /\ [][Next]_vars /\ Fairness

-----------------------------------------------------------------------------
(* Properties.                                                             *)

\* A card number does not stay on the screen: whichever dialogue was closed or opened
\* before its answer came, and whatever is left of the timer of an earlier one.
DetailsAreHidden == (details # None) ~> (details = None)

\* What is revealed is the card the dialogue was opened for, unless the dialogue was
\* closed or replaced while an answer was on its way: the handlers that write to it
\* do not ask whether it is still theirs.
DetailsAreOfTheDialogue == details # None /\ "dialogue" \notin mishaps => details = modal

\* Lists overtake each other: the one that comes last is shown, and it may be the older.
\* What it then is wrong about are cards with an action of their own that asked for a
\* newer list: about every other card a list at rest is the database's, whatever actions
\* and lists were under way together, unless a call failed.
Acts(n, c) == sent[n].kind \in Actions /\ (sent[n].card = c \/ sent[n].kind = "issue")
Overtaken(n, c) ==
  \E m \in Calls :
    m > n /\ sent[m].kind = "load" /\ sent[m].by # None /\ Acts(sent[m].by, c)

ListAgrees ==
  waits = {} /\ "failed" \notin mishaps =>
    \A c \in Cards : listed[c] = Visible[c] \/ Overtaken(shown, c)

-----------------------------------------------------------------------------
(* The inductive invariant.                                                *)

Statuses == {"NONE", "ACTIVE", "BLOCKED", "CLOSED"}
Lists == [Cards -> {None} \cup Statuses]
Sent == [kind : {"none", "initiate", "verify", "load"} \cup Actions,
         card : {None} \cup Cards, by : {None} \cup Calls]

TypeOK ==
  /\ listed \in Lists /\ shown \in {0} \cup Calls /\ loading \in BOOLEAN
  /\ busy \in {None} \cup Cards \cup {"issue", "verify"}
  /\ modal \in {None} \cup Cards /\ details \in {None} \cup Cards /\ left \in 0..Seconds
  /\ waits \subseteq Calls /\ sent \in [Calls -> Sent]
  /\ \A n \in Calls : sent[n].kind \notin {"none", "load", "issue"} => sent[n].card \in Cards
  /\ got \in [Calls -> [code : {"none", "ok", "refused"}, list : Lists]]
  /\ status \in [Cards -> Statuses] /\ challenged \subseteq Cards
  /\ mishaps \subseteq {"dialogue", "failed"}

\* A verification under way is for the dialogue that is open.
DialogueSound ==
  "dialogue" \notin mishaps =>
    \A n \in waits : sent[n].kind = "verify" => sent[n].card = modal

\* Calls are numbered as they are sent, none is answered before, and the server has no
\* action left to do that nobody waits for.
CallsSound ==
  /\ \A n, m \in Calls : n < m /\ sent[n] = NoCall => sent[m] = NoCall
  /\ \A n \in Calls : sent[n] = NoCall => got[n] = NoAnswer
  /\ "failed" \notin mishaps =>
       \A n \in Calls : Unserved(n) /\ sent[n].kind \in Actions => n \in waits

Loads == {n \in waits : sent[n].kind = "load"}
Acting(c) == \E n \in waits : Acts(n, c)

\* An action under way on a card will ask for a newer list than any there is.  Else a list
\* on its way, and the one shown, are right about the card or overtaken.
ListSound ==
  /\ shown # 0 => sent[shown].kind = "load"
  /\ "failed" \notin mishaps =>
       /\ shown = 0 => Loads # {}
       /\ \A c \in Cards :
            \/ Acting(c)
            \/ /\ \A n \in Loads :
                    \/ got[n].code = "ok" => got[n].list[c] = Visible[c]
                    \/ Overtaken(n, c)
               /\ shown # 0 => listed[c] = Visible[c] \/ Overtaken(shown, c)

\* No spinner turns for nothing: a hidden list is on its way, and a busy button has a
\* call under way whose end, or that of the list it asks for, will free it.
Frees(n) == sent[n].kind # "load" \/ sent[n].by # None

WaitsHaveCalls ==
  /\ loading => Loads # {}
  /\ busy # None => \E n \in waits : Frees(n)

IndInv ==
  /\ TypeOK /\ DialogueSound /\ CallsSound /\ ListSound /\ DetailsAreOfTheDialogue
  /\ WaitsHaveCalls
=============================================================================
