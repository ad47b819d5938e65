----------------------------- MODULE PaymentApi -----------------------------
(***************************************************************************)
(* The payment endpoints as a client sees them: a call asks for a payment  *)
(* under a key, or confirms one, and is answered at some time, or never.   *)
(* A key pays at most once, a repeated body gets the stored response, a    *)
(* large amount must be confirmed, anything may be refused.  There are no  *)
(* accounts, transactions or crashes.                                      *)
(*                                                                         *)
(* It is where the two halves of the system meet: module PaymentPages uses *)
(* it as its server, and module Payments implements it.                    *)
(***************************************************************************)

CONSTANTS
  Calls,       \* HTTP calls
  Slots,       \* a user and a key
  Bodies,      \* what can be asked for
  Large,       \* the bodies above the step-up threshold
  None

\* What the parameters must satisfy.
ApiParameters == Large \subseteq Bodies /\ None \notin Calls

VARIABLES
  asked,       \* call -> what it asks for, NotAsked until it is made
  reply,       \* call -> what was decided on it, NoReply until then
  posted,      \* the calls that have posted a payment
  row          \* slot -> the call that paid under it, or None

apiVars == <<asked, reply, posted, row>>

NotAsked == [kind |-> "none"]
Submission(s, b) == [kind |-> "submit", slot |-> s, body |-> b, challenge |-> None]
Confirmation(ch) ==
  [kind |-> "confirm", slot |-> asked[ch].slot, body |-> asked[ch].body, challenge |-> ch]

NoReply == [code |-> "none", by |-> None]
Reply(code, by) == [code |-> code, by |-> by]

Answer(c, r) == reply' = [reply EXCEPT ![c] = r]
Unserved(c) == asked[c] # NotAsked /\ reply[c] = NoReply

-----------------------------------------------------------------------------

\* A client submits a payment, or confirms one whose challenge it was answered.
Ask(c) ==
  /\ asked[c] = NotAsked
  /\ \/ \E s \in Slots, b \in Bodies : asked' = [asked EXCEPT ![c] = Submission(s, b)]
     \/ \E ch \in Calls :
           /\ reply[ch].code = "step-up"
           /\ asked' = [asked EXCEPT ![c] = Confirmation(ch)]
  /\ UNCHANGED <<reply, posted, row>>

\* Anything may be refused: by the guards, KYC, the funds, a conflict, an error.
Refuse(c) ==
  /\ Unserved(c)
  /\ Answer(c, Reply("refused", None))
  /\ UNCHANGED <<asked, posted, row>>

\* The key has paid: the stored response, if the body is the one it paid for.
SameBody(c) == asked[row[asked[c].slot]].body = asked[c].body

\* Faulty: the body is not compared.
StoredForAny(c) == Reply("paid", row[asked[c].slot])

Stored(c) ==
  IF SameBody(c) THEN Reply("paid", row[asked[c].slot]) ELSE Reply("refused", None)

Pay(c) ==
  IF row[asked[c].slot] # None
  THEN Answer(c, Stored(c)) /\ UNCHANGED <<posted, row>>
  ELSE /\ row' = [row EXCEPT ![asked[c].slot] = c]
       /\ posted' = posted \cup {c}
       /\ Answer(c, Reply("paid", c))

\* A large amount under a key that has not paid raises a challenge.
Serve(c) ==
  /\ Unserved(c) /\ asked[c].kind = "submit"
  /\ IF asked[c].body \in Large /\ row[asked[c].slot] = None
     THEN Answer(c, Reply("step-up", None)) /\ UNCHANGED <<posted, row>>
     ELSE Pay(c)
  /\ UNCHANGED asked

\* confirm-step-up pays for what its challenge was issued for.  Two confirmations of
\* one challenge may both get through: it is read before it is deleted.
ServeConfirm(c) ==
  /\ Unserved(c) /\ asked[c].kind = "confirm"
  /\ Pay(c)
  /\ UNCHANGED asked

-----------------------------------------------------------------------------

ApiInit ==
  /\ asked = [c \in Calls |-> NotAsked]
  /\ reply = [c \in Calls |-> NoReply]
  /\ posted = {}
  /\ row = [s \in Slots |-> None]

\* Every step shows; the steps nobody sees are the stuttering of ApiSpec.
ApiNext ==
  /\ apiVars' # apiVars
  /\ \E c \in Calls : Ask(c) \/ Refuse(c) \/ Serve(c) \/ ServeConfirm(c)

ApiSpec == ApiInit /\ [][ApiNext]_apiVars
=============================================================================
