# A verification project for the online banking application

TLA+ models, TLC runs and TLAPS proofs about the banking application of this repository: a NestJS backend
(`backend/`) over PostgreSQL (through Prisma) and Redis, and a React front end (`frontend/`). `_legacy_demo/` is an
earlier prototype of both. The models are translated from the TypeScript; the documents (`ARCHITECTURE_IMPLEMENTATION.md`,
`DEMO_SCRIPT.md`) are used as the promises the code is compared with.

## 1. Inventory

| Component | State | Operations | What is hard | What makes it correct | Status |
|---|---|---|---|---|---|
| **Payments** `backend/src/payments` | account balances, `IdempotencyKey` rows, transactions with their two ledger entries, step-up challenges (Redis) | own transfer, transfer to a beneficiary, merchant payment, confirm step-up | serializable transactions with a retry loop, one key used by concurrent requests, deadlocks between opposite transfers, a challenge read and deleted in two calls, crash between commit and response, a notification through another connection | a key pays at most once; its row and its posting are one; nobody is overdrawn; the answer is true; large amounts are confirmed | modelled |
| **Admin** `backend/src/admin` | KYC status, balances | verify/reject a customer, credit an account, audit queries | the credit is a serializable transaction without key or retry; a KYC decision is three statements without one | the credit is one movement; the last notice says what the status is | modelled: the credit in `Payments`, decisions in `Records` |
| **Cards** `backend/src/cards` | card status, `blockedAt`, `closedAt`, reveal OTPs (Redis) | block, unblock, issue, close, initiate and verify a reveal | no transaction at all: lookup, update, audit event and notification are separate awaits | the audit trail is true; dates agree with the status; details only for an OTP of that card; closed is final | modelled |
| **Notifications** `backend/src/notifications` | notification rows | create (swallows errors), list, mark read | called inside other services' transactions | true, and complete where promised | modelled: `create` where it is called, list and mark read in `Records` |
| **Beneficiaries** `backend/src/beneficiaries` | saved payees | create or reactivate, archive, list | lookup then write | one row per IBAN, audit | modelled in `Records`; their changes race with payments in `Payments` |
| **Auth** `backend/src/auth` | users, sessions, MFA OTPs (Redis) | login, verify MFA, register, revoke session, guards | OTP read and deleted in two calls, revocation while requests run | a session needs password and OTP; a revoked one stays so; one row per address | modelled: `Sessions` |
| **Statements** `backend/src/statements` | - | one report from five queries | not one snapshot | no entry counted twice; totals are of listed entries | modelled in `Records` |
| **Accounts, transactions, merchants** | - | single read queries | nothing | - | not modelled |
| **Payment pages** `frontend/src/pages` | form, idempotency key, step-up dialogue | submit, retry, confirm, edit, reset | lost and late responses, edits while a call is under way | an order is paid once; the result shown is the one asked for; no spinner for ever | modelled: `PaymentPages` |
| **Cards page** `frontend/src/pages` | list, busy marker, reveal dialogue, countdown | card actions, issue, reveal, hide | several handlers write to one dialogue and one list | a card number is hidden in time; list and dialogue are the right ones | modelled: `CardsPage` |
| **Session and notification client** `frontend/src` | token, seen notifications in memory and `sessionStorage` | sign in and out, poll, toast | overlapping polls, reloads, change of user | a toast once; after a sign-in, no new toast of another customer (one left open is shown to the next: section 4) | partly: the toaster, in `Records` |
| **Other pages** `frontend/src/pages` | what they display | single calls | nothing | - | not modelled |
| **Application shell, Prisma and Redis modules, scripts** | - | wiring, validation, rate limits | nothing | - | not modelled |
| **Earlier backend** `_legacy_demo/backend` | balances, transactions, users, second factors, sessions | transfer and payment with explicit row locks, risk score; login, trusted devices, MFA set-up, step-up, refresh | lock order, key looked up outside the transaction; no transaction at all in auth | the same ledger; one row per e-mail; an enabled second factor is verified; tokens and revocations keep to their user | partly: `LegacyTransfers`, `LegacyAuth`; its cards, statements, audit and listings are left out |
| **Earlier front end** `_legacy_demo/frontend` | tokens, pages | forms, refresh on 401 | - | - | not modelled |

Components interact through the database and Redis only: a payment reads the KYC status that Admin writes, the payees
Beneficiaries writes and the accounts other payments write; Payments, Admin and Cards call `NotificationsService.create`
directly. There are no background jobs; concurrency is that of HTTP requests, each a sequence of awaits in one Node
process, and of their transactions in PostgreSQL.

`PROJECT.json` lists the hazards: what in this code can go wrong and a test would hardly reach, each at its line, with
the property that watches it or the reason why none does yet.

## 2. Plan

1. `Ledger`: the abstract specification of what paying promises. **Done.**
2. `Payments` with `MCPayments` and `PaymentsProofs`: the four payment endpoints and the admin credit, the invariants,
   the refinement to `Ledger`, and the proofs. **Done.**
3. `Cards` with `MCCards` and `CardsProofs`. **Done.**
4. `Sessions` with `MCSessions` and `SessionsProofs`: registration, login, MFA, revocation, guards. **Done.**
5. `PaymentPages` and `CardsPage` with `MCPages`: the pages that act, over a network that loses and delays. **Done.**
6. `LegacyTransfers` with `LegacyTransfersProofs`: the earlier backend's transfers, shown to implement the same `Ledger`. **Done.**
7. `LegacyAuth` and `Records`: second factors of the earlier backend; KYC decisions, beneficiaries, statements, toasts. **Done.**
8. `RecordsProofs`, `CardsPageProofs`, `PagesProofs`, `LegacyAuthProofs`, and `MerchantNoticeAtomic` and `LedgerBacked`
   in `PaymentsProofs`: with these every safety property of a passing run is a theorem. **Done.**
9. `PaymentApi`, the interface between the front end's payment pages and the payment service: the pages keep to it, the
   service implements it; both are proved. **Done.**
10. What is left is liveness under fairness, with TLC (section 5), and the parts of section 6.

## 3. The modules

### Ledger

Two variables: the balance of each account and, for each idempotency slot (a user and a key), the movement it has paid
for, if any. `Pay` fills a free slot with one whole movement that its source can afford, `Fund` moves the bank's own
money to a customer. Nothing else happens. There are no handlers, aborts or crashes.

### PaymentApi

What the payment endpoints promise their clients, and where the two halves of the system meet. A call *asks* for a payment
under a key, or confirms one whose challenge it was answered; at some time it is decided: refused (anything may be),
answered with a challenge (a large amount under a key that has not paid), paid, or answered with what its key has already
paid for, if the body is the same. Its variables are what a client could know (`asked`, `reply`) and what must be true of
the bank (`posted`, `row`). `PaymentPages` uses its actions as its server. `Payments` implements it:
`ImplementsApi` reads `asked` off `req`, `reply` off `posted` and `answer`, and `row` off the key rows. A payment is decided
when its transaction commits, not when it is answered, so that a crash in between loses the answer and nothing else. A
second confirmation of one challenge is allowed by the interface because the code allows it: GET and DEL are two calls.

### Payments

One HTTP call is one element of `Requests`; a client's retry is another request with the same key. `pc` is where its handler
awaits, and an action is what happens up to the next await:

| `pc` | Action | Code |
|---|---|---|
| `new` | `Receive`, `ReceiveCredit`, `ReceiveConfirm`, `Refuse` | the controllers; `confirmStepUp` up to the OTP comparison |
| `del` | `DeleteChallenge` | Redis `DEL`, whose result the code ignores |
| `kyc` | `PassKyc`, `FailKyc` | profile lookup and the checks on the body |
| `fraud` | `PassFraudCheck`, `IssueChallenge` | `runMockFraudCheck` |
| `begin` | `Replay`, `Begin` | first query of the transaction: snapshot, lookup of the key |
| `key`, `debit`, `credit` | `Acquire`, `Reject`, `ConflictAbort`, `DeadlockAbort`, `UniqueViolation` | INSERT of the key row, the two account UPDATEs, business checks |
| `notify` | `Notify` | `NotificationsService.create`, through its own connection (own and beneficiary transfers, admin credits) |
| `commit` | `Commit` | everything the transaction wrote becomes visible |
| `respond` | `Respond` | the 201 |
| in a transaction | `SerializationAbort`, `Timeout` | P2034 (retried up to `MaxAttempts` times, never for a credit), P2028 |
| any | `Crash` | the server stops; PostgreSQL rolls back, Redis keeps its keys |

*The database.* `balance`, `rows` and `posted` are the committed state. An open transaction is described by three things:
`allowed` (whether its snapshot passes the business checks, the insufficient-funds test included), what it has locked
(`Holds`, read off its `pc`) and `stale`: the rows of its footprint to which another transaction has committed a change
since its snapshot. It may write a row that nobody else has locked and that is not stale (`MayWrite`): this is
PostgreSQL's "could not serialize access due to concurrent update" rule for the snapshot the isolation level gives it. Because the
effects of an uncommitted transaction are not in the shared variables, a rollback is simply a return to `begin` or to
`done`. Predicate-lock failures of serializable isolation are `SerializationAbort`: any open transaction may be refused
at any statement or at its commit. Lock cycles are found and one of their members aborted (`DeadlockAbort`).
The models rely on snapshot isolation and row locks, never on a predicate lock being detected.

*What is abstracted.* Amounts are positive integers in one unit; the currency, descriptions, IBAN formats, DTO validation
and response layouts are left out. All client errors of a business check are "400"; a 404 of the admin credit too. A
request hash is the request body itself: two bodies have the same hash iff they are the same. `confirmStepUp` takes a
challenge by the request that raised it; a wrong OTP or an unknown challenge is `Refuse`. The status of accounts is ACTIVE
throughout (no code in `backend/src` changes it); that of merchants is the constant `ActiveMerchants`. `creditAccount`
lets the database choose a system account: the choice is part of the call. `SetKyc` and `SetPayee` change the verified
users and active payees at any time, which covers the admin and beneficiaries services.

*UniqueViolation.* When the INSERT of the key meets a row that was committed after the snapshot, PostgreSQL reports either
a serialization failure, which is retried, or a unique violation. In the second case the own transfer queries the row again
inside the aborted transaction, so that its replay branch (`payments.service.ts:378-393`) can not be reached: it
answers 500, or 409 if no row is visible. The other two payments let the error pass.

### Cards

The same style: `profile`, `read`, `write`, `audit`, `notify`, and `del` for the Redis delete of a reveal. There is no
database transaction in this service, so each await is an atomic step, any statement may fail (`Fail`) and leave what was
written before, and the process may stop. An update is by id alone, as in the code, whatever the card has become since it
was read. `Cards` is the set of cards that can ever exist: issuing takes one of its owner's that is not used yet, which
bounds the number of cards in a run. An audit event, a notification and the write itself are recorded by the request that made them.

### Sessions

`register`, `login`, `verify`, `revoke`, `read` (`me`, `sessions`) and `admin` (any route behind `RolesGuard`) are the
kinds of a request; `Authenticate` is `JwtStrategy.validate` with `MfaVerifiedGuard`, `CheckRoles` is `RolesGuard`. As in
`Cards` there is no database transaction. What a handler has read and still uses is `found`: the login whose OTP it
compared, or `revokedAt` as it was. A token, an OTP and a session row are named by the request they come from, so that
"whose OTP was this" can be asked: `otp[u]` is the login whose OTP is alive in Redis, and two logins may draw the same
digits. A client presents only tokens it was answered. `ExpireOtp`, `ExpireSession`, `Deactivate`, `Fail` and
`Crash` may happen at any time; a `500` keeps what was written before it. Password hashing, JWT signatures and the fields
of a profile are left out: a password is right or wrong.

### Records

Four kinds of requests: a KYC decision, creating and archiving a beneficiary, a statement; and one browser tab. A unique
index is the test of `CreateRow`; the update of a KYC decision, its audit event and its notification are three steps. A
statement's five queries run in the three stages of the code (opening sums, period sums, entries), those of one stage in
any order, while `Post` commits entries; a sum is represented by the set of entries it adds up. The tab polls every five
seconds whether or not the last fetch has ended (`poll`: several under way), remembers ids in memory (`seen`) and in
`sessionStorage` (`stored`), may be reloaded, and another customer may sign in. `NotificationToaster` is mounted above the
routes: its `toasts` survive a sign-out and the next sign-in, and outside the protected pages (`inside` is FALSE: `/`,
`/register`, `/mfa`, reached by signing out or with the browser's buttons, `Navigate`) it renders none, which cancels
their timers. So a toast is closed (`Dismiss`) only while it is `OnScreen`. `old` and `queued` are ghosts: the toasts that
waited when the customer signed in, and how often each was queued since the last sign-out. Whether a statement's account exists is
not modelled: `FindAccount` may refuse. `crossed` records the customers for whom a decision was written between another's
write and its notice.

### PaymentPages

`form` is the state of the mounted component, `call` and `reply` what was sent and answered, `awaited` the calls whose
continuation still belongs to a mounted component. A continuation (`AfterSubmit`, `AfterConfirm`) writes to the form as it
is by then, whichever call it belongs to. `Lose` is a failing `fetch`: the request may not have arrived, may be served, or
may arrive later. The server is `PaymentApi`, of one customer, so that a slot is a key. An *order* is what the customer wants paid once;
it is a ghost: a new one whenever the form is opened, emptied, edited or given a new key, the same one when the button is
pressed again.

### CardsPage

`busy` (`actionLoading`), `modal`, `details` and `left` are the component's single slots, written by whichever handler is
answered next. Block, unblock, close and issue send a `load` when they succeed and end with it; `by` in the record of that
call says whose it is. Several actions may be under way, and their lists with them; `shown` (a ghost) is the call whose
list is on the screen, so that an older list over a newer one (`Overtaken`) can be told. The server serves a call at some time after it was sent, or refuses it; a failed action may still
have written the card. `mishaps` records what the page has no guard against, so that the properties can say what holds
otherwise: a call that failed, a dialogue closed or replaced under a verification. A dialogue
covers the page but disables nothing (the keyboard reaches the buttons below), so actions under it are possible.

### LegacyTransfers

The handlers of `createTransfer` and `createMerchantPayment`: key lookup, accounts and risk score outside the transaction,
then `SELECT ... FOR UPDATE` of source and destination, the insert with its unique key, entries and balances. The isolation
level is the default READ COMMITTED, so a check made under a lock is good for as long as the lock is held; `Holds` reads the
locks off `pc`, as in `Payments`. `FindAccounts` may refuse any call, for the status of an account or an IBAN that are not
modelled. A commit is followed by its answer or by its loss (`Reply`): a process that stops in between is that loss and then
`Crash` for the others. The hour and the random part of the score are nondeterministic. `L == INSTANCE Ledger`
takes the keys as slots (they are unique over all users here), the merchants' side as one system account and the rows
that were not rejected as paid.

### LegacyAuth

Registration, Google login, login with trusted devices and one-time codes, set-up, enabling and disabling of the second
factor, step-up, refresh and revocation, query by query. `seen[r]` is the user whose row the handler goes on with. Rows, sessions and secrets are named by the request that made them; a code is known by the secret it
belongs to (`Coded`). The latest session of a user, which a step-up marks, is the one no other of his follows in `created`
(`Latest`). `proved` and `raced` are ghosts: secrets whose code somebody has shown, users two of whose second-factor
changes overlapped.

What the code lets pass, the model does too: a Google login opens a session of a user with a second factor without
a code (`googleLogin`); the temporary token that a right password earns is signed with the secret of the access tokens and,
naming no session, is taken by `JwtStrategy.validate` (`Tokens` has it, `Guard` passes it); a session without a device is stored as
`Unknown` and a Google session as `GoogleOAuth`, texts that a client may send as its device (`DeviceOf`, `Trusted`). So no property
here says that a second factor is always asked for: what holds of it is `EnabledIsVerified`.

## 4. The runs

| Run | Instance | Shows |
|---|---|---|
| `pay_one_key` | three requests, two users, one key, three bodies (own, beneficiary and merchant; two above the threshold), two attempts | `TypeOK`, `AtMostOncePerKey`, `KeyRowsMatchPostings`, `AnswersAreTrue`, `LargePaymentsConfirmed`, `MerchantNoticeAtomic`, `LedgerBacked`, `ImplementsApi` (refinement) |
| `pay_crossing` | two requests, two keys, opposite transfers, a transfer to its own source and a credit, no account able to pay two debits, two attempts | `NoOverdraft`, `OpenTransactionsSound`, `EveryRequestEnds` (liveness), `ImplementsLedger` (refinement) |
| `pay_notices` | two requests | violated: `NoticesAreTrue` |
| `pay_settlement` | the bank's own two accounts | violated: `PaymentsSpareSystemAccounts` |
| `cards` | three requests, two users, two cards (one issued), two OTPs | `AuditTrailSound`, `StatusMatchesDates`, `RevealIsChallenged` |
| `cards_closed` | two requests | violated: `ClosedIsPermanent` |
| `sessions` | four requests, an administrator who is registered and a customer who is not, two OTPs | `SessionIsProved`, `UsedOtpIsGone`, `TrailSound`, `RevokedIsRefused` (action property) |
| `pages` | four calls; a small and a large payment with three orders and three keys, or two cards and a countdown of two, and a fifth call for a second list | `TransferPaidOnce`, `ResultIsTrue`, `EveryWaitEnds` (liveness); `DetailsAreHidden` (liveness), `DetailsAreOfTheDialogue`, `ListAgrees` |
| `pages_merchant` | two calls, three keys | violated: `EveryOrderPaidOnce` |
| `legacy_transfers` | three requests, two keys, two accounts of two users, six calls | `NoOverdraft`, `RowsSound`, `OnlyExtremeRejected`, `OnlyOppositeTransfersDeadlock`, `ImplementsLedger` (refinement) |
| `legacy_auth` | three requests, one user of the start and one new e-mail, the devices `Unknown` and `GoogleOAuth` | `CreatedHasAccount`, `OneRowPerEmail`, `EnabledIsVerified`, `TokensKeepToTheirUser`, `ClosedByOwner` (action property) |
| `records` | two requests, two polls, two customers, four entries around the only day of a statement | `TrailSound`, `LatestNoticeAgrees`, `ToastsSound`, `StatementAddsUp` |

*Bounds.* The hazards are about two requests that collide, with a third that replays or confirms: under one key, three
requests cover a challenge with two confirmations of it and every race of two payments with a retry; across keys, two
cover the opposite transfers, two debits of one account and a transfer with a credit (that run checks liveness, which is
dearer and takes no symmetry). Two attempts (`SERIALIZABLE_RETRIES` is larger in the code, and the
theorems hold for any number) give one retry and one refusal. In `pay_one_key` the step-up threshold is 1 and amounts are
1 and 2: one on the threshold, one just above it; the other runs put it out of reach. There is no state constraint and no unbounded counter: a request is used
once. Requests, and the OTPs of the cards, are interchangeable, so the passing safety runs use them as symmetry sets; the liveness run does not.

The other instances are chosen the same way. `sessions`: a verification needs a login before it, so four requests are two
logins with two verifications racing for one OTP, or a login, its verification and two revocations. `pages`: four
calls are a submission, its retry, a confirmation and its retry, or on the cards page the first list, two reveals started
at once and a verification; with three orders a form can be edited twice. The cards page has a fifth call: the first list, two
actions under way together, and the list each asks for, answered in any order. It is kept for that (`ListCall` in `MCPages`): for the list of a second
action that went well, in a run without a dialogue and without a failure so far. The two pages share nothing but the token and only
one is open at a time, so `MCPages` lets a run go through either while the other rests; one of the cards is active at the
start. `legacy_transfers`: amounts on both sides of every step of the score, a pair of opposite transfers and a payment that
competes for the money. `legacy_auth`: with a user of the start who has begun or completed the enrolment, two overlapping
changes and a login, or a set-up, its enabling and a login, or a registration and two Google logins of one e-mail; the
two devices are the texts that coincide with stored ones, and any other device is treated as they are. `records`: the hazards are pairs. Its constraint `OnePart`
keeps to one of three parts (decisions with their toasts, beneficiaries, statements): no action of one reads what another
writes, and no property relates them. It is the only state constraint, and the run checks safety only.

*Deadlock* is not checked by TLC: a finite set of requests comes to an end. What "everyone waits" would mean here is
`EveryRequestEnds`.

*Fairness.* `WF_vars(Handle(r))` for each request: Node's event loop resumes a handler whose await has been answered, and
PostgreSQL executes a statement whose row lock is free, aborts one that cannot be serialized, and breaks lock cycles by
its deadlock detector. Nothing is assumed of what may go wrong (`Disturb`, `Crash`, expiry) nor of clients. In particular
progress does not rest on a timeout: only on the retries being counted and on lock cycles being broken. In `pages`,
`WF(Settle(c))` for each call: `fetch` ends, with an answer or an error, and its continuation runs; on the cards page also
`WF(Tick)` and `WF(Expire)`: a `setTimeout` of a mounted component fires and React runs an effect that is due. Neither the
server nor the customer is assumed to do anything. The other new modules state safety only and no fairness.

*Mutants.* Every property of a passing run is paired with a plausible bug in the code (an operator with "Faulty" in its
comment) under which TLC finds it violated: the retry limit off by one, the key not looked up, the FAILED status of a key
surviving the rollback, a replay without the comparison of bodies, the threshold off by one, weaker isolation, a missing audit event, and so on.

### What the violated runs say

* `NoticesAreTrue`: own and beneficiary transfers and admin credits write "has been posted" through another connection
  before their transaction commits; a timeout, an abort or a crash then leaves the message and no payment. Merchant
  payments write it inside the transaction and are right (`MerchantNoticeAtomic`).
* `PaymentsSpareSystemAccounts`: an own transfer does not ask whether its source is a system account, although the
  architecture document says that sources are non-system and the other two payments check it.
* `ClosedIsPermanent`: blocking and unblocking find closed cards, so a closed card can become ACTIVE again.
* `EveryOrderPaidOnce`: the merchant page draws a key for every submission, so a retry after a lost answer pays again; the
  architecture document says that the keys prevent "duplicate charges caused by retries or double-submits". The transfer
  page keeps its key and has the property (`TransferPaidOnce`).

### What the qualified properties leave open

Some properties hold only with an exception that is part of their statement, because the code has no guard there and
promises none: a reveal answered under another card's dialogue shows the card that was asked for
(`DetailsAreOfTheDialogue`); of two actions' lists the older may be shown last, and then be wrong about a card whose own
action asked for the newer one, but about no other (`ListAgrees`); two KYC decisions
may be told in the other order than they were written (`LatestNoticeAgrees`); enabling a second factor after a set-up or a
disable that overlapped it leaves one enabled that nobody has verified (`EnabledIsVerified`); a statement's list may have
entries its totals miss (`StatementAddsUp`); and a toast that was open when a customer signed out is rendered again to
whoever signs in next in the tab, because `logout` does not reset `NotificationToaster` and its timers stop where it renders
nothing, although `Architecture.md` says that a client has access to the client's own resources exclusively (`ToastsSound`
says that no other toast of another customer is shown, and none twice). Others say less than one might wish, because the code does less: two verifications may use
one OTP between GET and DEL, and the DEL may take a newer OTP (`RevealIsChallenged`, `UsedOtpIsGone`); the earlier
backend answers a known key with its row whatever the body (`RowsSound`), and binds a step-up token to another session
of the same user (`TokensKeepToTheirUser`).

## 5. The proofs

| Module | About | Inductive invariant | Theorems on what a run checks |
|---|---|---|---|
| `PaymentsProofs` | `Payments` | `Invariance` | `TypesHold`, `AtMostOnceHolds`, `NoOverdraftHolds`, `KeyRowsHold`, `AnswersHold`, `ConfirmationHolds`, `OpenTransactionsHold`, `MerchantNoticeHolds`, `LedgerBackedHolds`, `Refinement`, `ApiRefinement` |
| `CardsProofs` | `Cards` | `CardsInvariance` | `AuditTrailHolds`, `DatesHold`, `RevealHolds` |
| `SessionsProofs` | `Sessions` | `SessionsInvariant` | `SessionsTypeCorrect`, `EverySessionIsProved`, `AUsedOtpIsGone`, `AuthTrailIsSound`, `ARevokedSessionIsRefused` |
| `RecordsProofs` | `Records` | `RecordsInvariance` | `TrailHolds`, `LatestNoticeHolds`, `ToastsHold`, `StatementsHold` |
| `CardsPageProofs` | `CardsPage` | `CardsPageInvariance` | - (its lemmas are used by the next) |
| `PagesProofs` | `PaymentPages`, and both pages in `MCPages` | `PagesInvariance`, `BothPages` | `TransferOnceHolds`, `ResultHolds`, `DialogueHolds`, `ListHolds` |
| `LegacyTransfersProofs` | `LegacyTransfers` | `LegacyInvariance` | `LegacyNoOverdraft`, `LegacyRowsAreSound`, `LegacyOnlyExtremeRejected`, `LegacyDeadlocks`, `LegacyRefinement` |
| `LegacyAuthProofs` | `LegacyAuth` | `LegacyInvariance` | `CreatedHasAccountHolds`, `OneRowPerEmailHolds`, `EnabledIsVerifiedHolds`, `TokensHold`, `ClosedByOwnerHolds` |

All are checked by tlapm to the last step. Their only assumptions are the named ones of their modules: owners and
settlement accounts are functions into the right sets, customers open with balances that are not negative, the "no value"
constants are not values, request bodies are well formed, the users of the start have e-mails and are finitely many, the two texts stored for want of a device may be sent as one. TLC
evaluates them in the runs. `CardsPage` states its own as an operator, `CardsPageAssumption` (some call may be made, the
countdown is a number, `None` is not a call): `CardsPageProofs` has it as a hypothesis, and `MCPages`, which instantiates the page, as an ASSUME.
Users, accounts, cards, keys, bodies, calls, polls and requests are arbitrary sets, infinite ones included. Each module proved about defines
its inductive invariant `IndInv` as a conjunction of named parts; TLC checked it on the instance of the run before it was proved.
Each proof has a lemma per action (or per kind of step) and a theorem per property, read off the invariant.

**Payments** (`Invariance`). None of the properties is inductive alone. `AtMostOncePerKey` follows from
`KeyRowsMatchPostings` (two postings of one slot are both the one its row names). That is kept by a commit only because
the slot has no row at that moment, which the transaction saw in its snapshot; so `OpenTransactionsSound` says that what
a transaction concluded from its snapshot (no row for its key, funds on its source) still holds of every row not marked
stale, that rows it has locked are not stale, and that two transactions never lock one row. The last part is what makes
this survive another commit: a commit changes just the rows it holds, and marks them stale for the others.
`NoOverdraft` rests on the same conjunct at the source account. `LargePaymentsConfirmed` needs `RequestsSound` (a
confirmation asks for exactly what its challenge was issued for) and `ProgressSound`: a large request past the fraud check
either has a confirmation or has seen a COMPLETED row, and such a row never goes away, so it will be a replay.
`AnswersAreTrue` needs that an unanswered request's `pc` and `posted` agree. `MerchantNoticeAtomic` is inductive together with
`NoticesSound`: a merchant payment's notification is among the effects its own commit publishes, and no other action
writes one for it. The proof has one lemma per action.

**Refinement.** `paid` of `Ledger` is read off the key rows (`Paid`). `Commit` of a payment is `Pay`, `Commit` of a credit is
`Fund`, and every other action leaves `balance` and `Paid` alone. For the guards of `Pay` the proof uses the invariant
(free slot, funds, distinct accounts); for the stutters, that a row's request never changes what it asks for once posted.
`LedgerParametersHold` shows that what `Ledger` assumes of its parameters is true of those it is given.

**Ledger entries** (`LedgerBackedHolds`). A balance is compared with a sum over a set of postings. The model counts that money
unit by unit: `Total(R)` is the cardinality of the pairs of a request of `R` and one of its units, so a new posting adds a
disjoint set of `Amount` elements and the facts about cardinalities of the library suffice, where a fold would need
an induction over the set. `LedgerBacked` is inductive with `FinitePostings` (only finitely many requests
have posted, so that cardinalities mean something, although `Requests` may be infinite) and with `From(r) # To(r)` at a commit.

**The interface** (`ApiRefinement`, `KeepsToApiHolds`). The two halves of an assume/guarantee argument. On the service's side, every step either
does not show (a crash too: what it loses had not been decided) or is one of the four actions of `PaymentApi`
for its request. `Receive` and `ReceiveConfirm` are `Ask`, for which `RequestsSound` knows the challenge's answer;
`IssueChallenge` and `Commit` are `Serve` or `ServeConfirm`: a commit finds no row for its key (`OpenTransactionsSound`), and
if it is large and not a confirmation it cannot get there (`ProgressSound`); a replay is `Pay` with the stored answer; the end of a
handler with an error is `Refuse`. `Respond` does not show: its request was decided at the commit. On the pages'
side, a step asks only for what the interface lets a client ask: a confirmation names a challenge that was answered and repeats its key
and body (`SentSound`). So what `PagesInvariance` says of the pages rests on a server that is implemented.

**Cards** (`CardsInvariance`). `HandlerSound` records what a handler knows at each await (ownership of the card, whether
its write and its audit event are done) and `ChallengesSound` that every OTP in Redis was drawn by a request for its card.
`StatusMatchesDates` is kept by every single update: each writes the status and the date that goes with it in one statement.

**Sessions** (`SessionsInvariant`). `SessionIsProved` and `UsedOtpIsGone` need to know what a verification carries between
its awaits: `Proved` says that from the comparison on, `found[r]` is a login of the same user with the right password whose
OTP was stored and equals the one typed; `OtpSound` says the same of every OTP alive in Redis, whatever was replaced or
deleted there. A used OTP cannot return because a login stores only its own, once. `TrailSound` needs `HandlerSound`: an
unwritten registration is not yet in `applied`, and an applied one has its user in `users`, so the unique index stops the
second. `RevokedIsRefused` is an action property: an answered revocation has its session in `revokedAt` (`RevokeSound`), a
later write may change the time but never clears it, and the guard reads it.

**Records** (`RecordsInvariance`). `TrailSound` asks for one row per customer and IBAN; a row, once there, is never taken away
(`RowsSound`), so an id that was read can be written whatever happened since, and only `CreateRow` makes one, under the
unique index (`OneRowPerIban`). `LatestNoticeAgrees` needs the state between a decision's write and its notification:
`LatestSound` says that, unless decisions on the customer crossed, one decision wrote the status and nobody else is still to
notify of one; the notice, when it comes, is then the last. `ToastsSound` needs `TabSound`: a poll on its way is for whoever is signed in,
its answer holds only notices of that customer, so what joins the toasts is that customer's, and what was queued since the
sign-out is in `sessionStorage`, which a reload reads back. `StatementAddsUp` needs `StatementSound`: what a query returned remains posted, and a later stage begins when the
one before it has been answered, so the entries, read last, contain what the totals counted.

**PaymentPages** (`PagesInvariance`). `TransferPaidOnce` follows from two facts of different parts: calls of the transfer page for
one order have one key, the form's while it is the form's order (`OneKeyPerOrder`), and a key's row names the only
payment under it (`RowsSound`). The first is where the page could go wrong: it is kept by a retry because that sends the key
of the form, and by an edit or a reset because these begin a new order. `SentSound` keeps orders to come apart from those a
late answer belongs to. `ResultIsTrue` is read off `AnswersSound`, which follows an answer from the server to the form.
`WaitsHaveCalls` (theorem `WaitsHold`) is the safety half of `EveryWaitEnds`: a form that is loading or confirming has a call of that kind
under way, which no edit, reset or late answer of another call takes from it. `SpinnersHold` says the same of both pages
at once (for the cards page: `loading` and `actionLoading`).

**CardsPage** (`CardsPageInvariance`; `BothPages` for the two pages together). `DetailsAreOfTheDialogue` needs `DialogueSound`: while no dialogue was closed or replaced under
one, a verification on its way is for the dialogue that is open. `ListAgrees` is not inductive because the list is stale between an
action and the load that follows it. `ListSound` says when, card by card: an action under way on the card will ask for a list
newer than any there is; with none, every list on its way and the one shown are right about the card, or have been
overtaken by the list of an action of its own. A card changes only in the serving of an action, which is awaited (`CallsSound`),
unless a call failed. `MCPages` instantiates the module of these proofs, so that its
two lemmas (initial states, steps) are about the cards page of a run; a step of one page leaves the other as it is, so the
two invariants hold together, and the properties of the run are read off them.

**LegacyTransfers** (`LegacyInvariance`). `LocksSound` carries the proof: locks exclude each other, and what was checked
under a lock (funds of the source, the key being free) is still true while it is held. `NoOverdraft` and
`AtMostOncePerKey` follow at the commit. `LegacyRefinement` maps `Commit` to `Pay` and every other action to a stutter; a
rejected row is invisible. `OnlyOppositeTransfersDeadlock` needs only the order of the locks: the key is locked last.
`AtMostOncePerKey` and `TypeOK` of this module are proved and not run by themselves: the refinement run covers the first.

**LegacyAuth** (`LegacyInvariance` of `LegacyAuthProofs`). `TokensKeepToTheirUser` needs to follow a user id from the token a request presents to
the one it is answered: `NamesSound` says that the user and the session a request goes on with, asks with, or was answered exist
and belong together, at every await where they are used. It is kept because a row is never deleted and a session never
changes its user (`SessionsSound`); that the step-up looks for the latest session of its own user is what the last answer
depends on. `EnabledIsVerified` needs `FactorSound`: a set-up about to be written still finds the factor disabled, and an
enabling about to be written still finds the secret its code was verified with, unless another change overlapped it
(`raced`). `CreatedHasAccount` needs `MadeSound`: a row without account is at its `account` step or was answered an error.
`OneRowPerEmail` is kept by `CreateUser` alone, under the unique column, and needs `LinkSound` for its second half: from the link or
the creation on, the row a Google login goes on with has its e-mail, which never changes, and stays linked. `ClosedByOwner` is an action property: of all
steps only `Revoke` clears `active`, and the session it names was found for the request's own user.

**Model-checked only.** Liveness (`EveryRequestEnds`, `EveryWaitEnds`, `DetailsAreHidden`) and its fairness are out of the
prover's reach, as is anything about ENABLED; of `EveryWaitEnds` the part that is a safety property is proved
(`WaitsHold`). Every other property of a passing run is a theorem. `WaitsHaveCalls`, `KeepsToApi` and the type invariants of `Cards` and
`LegacyTransfers` are proved and not the subject of a run by themselves; TLC has checked them with the inductive invariants.

## 6. Not modelled

Reads without consequences (listings, audit queries, `getProfile`); input validation and formatting; rate limits; the TTL of
idempotency keys, which the code stores and never reads; password hashing, JWT signatures and the TOTP algorithm, of which
only the outcome is kept. In the front end: pages that are forms or tables over single calls, how long a toast stays on
the screen, a list whose body cannot be read. Of the earlier prototype: its cards, statements, audit and listings (single
queries, superseded), the flags `mfaVerified` and `stepUpVerifiedAt` inside its tokens, its refresh tokens, and its front
end, whose interceptor answers a 401 of the refresh call itself with another refresh.
The size of Prisma's connection pool is not in the repository: a transaction that waits for a connection is covered by
`Timeout`. Several server processes are covered as far as they share the database and Redis (handlers do not share memory), but
then `Crash` would stop only some of the handlers.
