------------------------------- MODULE MCPages --------------------------------
(***************************************************************************)
(* The pages of the front end on a small instance: the payment pages with  *)
(* a small payment and a large one, and the page of the cards.  They share *)
(* nothing but the token, and one is open at a time: a run goes through    *)
(* either, the other stays as it starts.                                   *)
(***************************************************************************)
EXTENDS PaymentPages, TLC

CONSTANTS Cards, Seconds, CardCalls

VARIABLES
  listed, shown, loading, busy, modal, details, left, waits, sent, got, status, challenged, mishaps

\* CardsPage, with the lemmas about it.
C == INSTANCE CardsPageProofs WITH MaxCalls <- CardCalls

ASSUME MCPagesAssumption == C!CardsPageAssumption

cardsPage == <<listed, shown, loading, busy, modal, details, left, waits, sent, got,
               status, challenged, mishaps>>
all == <<page, form, awaited, call, reply, posted, row, orders, keys,
         cardsPage>>

\* One of the cards is active at the start: cards are interchangeable, so this leaves
\* out little but the customer without an active card.
AnyCard == CHOOSE c \in Cards : TRUE
Start == Init /\ C!Init /\ status[AnyCard] = "ACTIVE"

\* A payment page is open; for the cards, one start is as good as another.
PaymentsOnly ==
  C!Init /\ (\A c \in Cards : status[c] = "ACTIVE") /\ UNCHANGED cardsPage

\* The last call of the cards page is kept for the list of a second action that goes
\* well, in runs without a dialogue: the list and the dialogue share only the busy slot.
ListCall ==
  C!IsNext(CardCalls) /\ sent'[CardCalls] # C!NoCall =>
    /\ sent'[CardCalls].by # None /\ "failed" \notin mishaps
    /\ \A n \in C!Calls : sent[n].kind # "initiate"

CardsOnly == Init /\ UNCHANGED vars /\ ListCall

\* Without fairness, and with the payment pages only.
PaymentsSpec == Start /\ [][Next /\ PaymentsOnly]_all

\* What Fairness and C!Fairness say, of the steps of the page that is open.
PagesFairness ==
  /\ \A c \in Calls : WF_all(Settle(c) /\ PaymentsOnly)
  /\ \A n \in C!Calls : WF_all(C!Settle(n) /\ CardsOnly)
  /\ WF_all(C!Tick /\ CardsOnly)
  /\ WF_all(C!Expire /\ CardsOnly)

PagesSpec ==
  /\ Start
  /\ [][(Next /\ PaymentsOnly) \/ (C!Next /\ CardsOnly)]_all
  /\ PagesFairness

\* The number of a card does not stay on the screen (CardsPage.tsx, the timer effect).
DetailsAreHidden == C!DetailsAreHidden

\* The details on the screen are those of the card of the dialogue, but for a dialogue
\* closed or replaced under a verification (handleVerifyReveal, handleInitiateReveal).
DetailsAreOfTheDialogue == C!DetailsAreOfTheDialogue

\* At rest the list agrees with the database about every card but those a newer list was
\* asked for, unless a call failed (loadCards at the end of each action).
ListAgrees == C!ListAgrees
=============================================================================
