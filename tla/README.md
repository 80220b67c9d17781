# TaroTria-api in TLA+

TaroTria-api sells tarot and palm readings: users spend credits (or watch ads),
a queue of workers asks an AI for the interpretation, and an object store keeps
photographs of hands and share images. This directory holds TLA+ models of the
API and its workers, TLC configurations that check them on small instances, and
TLAPS proofs about the credit wallet, the lifecycle of readings, palm images, payments,
rewards, sharing, sessions, the catalogue, the AI orchestrator and the draw. Paths below are
relative to the repository.

1. [Inventory](#1-inventory)
2. [Conventions](#2-conventions)
3. [Modules and how they correspond to the code](#3-modules-and-how-they-correspond-to-the-code)
4. [Runs, bounds, what they show](#4-runs-bounds-what-they-show)
5. [Fairness](#5-fairness)
6. [Theorems](#6-theorems)
7. [Disagreements between code and docs](#7-disagreements-between-code-and-docs)
8. [What is not modelled](#8-what-is-not-modelled)
9. [Plan](#9-plan)

## 1. Inventory

The API (NestJS) and the workers (BullMQ processors) are separate processes.
They share PostgreSQL (through Prisma, READ COMMITTED), Redis (queues and
cache) and an S3 bucket; there is no transaction across two of them. Wompi
(payments), the ads network and the AI provider are external.

| Component | State | Operations | Talks to | Hard behaviour | What makes it correct |
|---|---|---|---|---|---|
| Credit wallet, `src/wallet` | `wallets`, `wallet_transactions`, `credit_reservations` | bonus, reserve, confirm, release, credit a purchase, adjust | called inside transactions of readings, payments, workers | concurrent movements of one wallet; confirmation and release of one reservation racing; a read without a lock | no overdraft; ledger and balance agree; a reservation ends once |
| Readings, `src/readings` | `readings`, `reading_inputs`, `palm_images` | create, updateInputs, submit, retry, remove, presign, confirm | wallet, rewards, queues, storage | status read before an await and written after; commit and `queue.add` apart; removal against submission | status and credits agree; only a submission charges |
| Reading worker, `src/jobs/reading-processing` | jobs in Redis, `ai_executions` | process, onFailed | AI, wallet, readings | attempts, stalled jobs, expired locks (two runs of one job), crash between two writes | credits consumed only for what was delivered; everything ends |
| AI orchestrator, provider, guardrails, schemas, `src/ai` | `ai_executions` | execute | workers, admin, OpenAI | timeouts and retries, an answer that comes late or does not fit | no text at risk leaves; the caller is told what the row says; it ends |
| Tarot deck, draw and forms, `src/tarot`, `src/readings/reading-form.validator.ts` | `tarot_cards`, `tarot_spreads`, `reading_inputs`, `tarot_draws`, cached deck | validate, draw, read back | submission, worker, daily card, seed | deck cached while it is being seeded; answers and draw read apart | what is interpreted is what was drawn and answered |
| Prompts and services, `src/ai/prompts.service.ts`, `src/services` | `prompts`, `prompt_versions`, `services`, `service_forms`, cached list | create, version, publish, update, list, audit | cache, audit log | transactions overlapping at READ COMMITTED; stale cache | something published at all times; the last form is shown |
| Seed script, `prisma/seed.ts` | the same tables | run at each deployment, beside the API | | row by row, without a transaction; restarted | undoes nothing that was published |
| Palm images, `src/jobs/image-analysis`, `src/jobs/cleanup` | rows, bucket, jobs | upload, validate, expire | storage, AI | three stores, URL still open after a deletion, batch that fails half-way | an image marked as deleted has no file; files go when their time is over |
| Payments and orders, `src/payments`, `src/orders` | `orders`, `payments`, `webhook_events` | intent, webhook, return | Wompi, wallet, rewards | duplicated, reordered, lost deliveries; crash after the event is recorded; a buyer without a wallet | an approved order credited exactly once |
| Rewards, daily card, `src/rewards`, `src/daily-card` | sessions, progress, transactions, offers | create, callback, consume | ads network, orders, readings | repeated callbacks, expiry racing completion, two consumers | nothing for free, nothing twice |
| Sharing, `src/sharing`, `src/jobs/share-image` | `share_links`, bucket, jobs | create, revoke, render, public pages, attribution | storage | overlapping runs of one job, late failure, a visitor with what he read before a revocation | READY means there is an image |
| Sessions, `src/auth`, `src/users` | `users`, `refresh_tokens`, `verification_tokens` | register, login, refresh, logout, verify, recover, change, delete | wallet | rotation against revocation, links used by two requests, registration half done | what was closed stays closed |
| Packages, metrics, notifications, diagnostics, health, configuration | reads, logs, or none | | | | see section 8 |

`PROJECT.json` lists each component with its sources, and under "hazards" the
places where this code can go wrong in ways a unit test hardly reaches, each
with the properties that cover it.

## 2. Conventions

* An action is what happens between two awaits that touch a shared store. What
  a request read earlier is kept in its record in `req`, `run` or `task` and may
  be stale when the next action happens.
* A database transaction is one action when nothing can come between its
  statements that matters: when its first write locks the row that decides the
  rest, or when its writes do not depend on what it reads. Where that is not so
  it is split: `confirmConsumption` into two actions (Wallet), the publications
  into statements (Catalog).
* An action that throws changes nothing, and is a state in which the action is
  disabled, unless the caller's next step matters: then it is `Throw`,
  `RejectSubmit`, `SettleFails` or the like.
* `Lose...` is a process that stops between two steps; `LoseLock` a BullMQ lock
  that expires while its run goes on, so that two runs of one job overlap.
* Bounds that the code does not have are called so where they are declared
  (`MaxFaults`, `MaxIntents`, `MaxAnswers`, `MaxRetries`, `MaxDays`,
  `MaxVersion`, `MaxForm`, `MaxRevision`, `MaxChanges`, `MaxExpired`, and the sets
  of ids).
* History variables, which the code does not have, are marked `history` or
  described as external knowledge (`judged`, `acked`, `transaction`, `lost`).
* Definitions marked `Mutant` are wrong on purpose. They are used by no
  specification; each replaces one definition to show that a property notices.

## 3. Modules and how they correspond to the code

```
CreditAccount  <= implemented by =  Wallet  <= every step of =  Readings, Payments
AIExecution    <= implemented by =  Interpretation
PalmImages   Sharing   Rewards   Catalog   Sessions   Tarot    (one component each)

WalletProofs  ReadingsProofs  PaymentsProofs  PalmImagesProofs  SessionsProofs  TarotProofs
EngagementProofs (Rewards, Sharing)   PromptsProofs (Catalog, Interpretation)
```

Two of the proof modules extend two components each, which share no name: the specifications
of Sharing and Interpretation are `SharingSpec` and `ExecutionSpec`, those of the others `Spec`.
No theorem speaks of two components.

**CreditAccount** is what the wallet promises: credits are granted, held for a
reading, and a hold ends once, captured or refunded in full.

**Wallet** is `wallet.service.ts`. `balance`, `ledger`, `reservation`, `audit`
are its four tables, `rows` the rows of `readings` which a reservation refers to
(`onDelete: Cascade`). One action per method. `BeginConsumption` takes the
lock on the reservation and reads the balance, `CommitConsumption` writes the
entry with the balance read, and other movements commit in between.
The refinement to CreditAccount reads holds off the ledger, because the
reservation disappears with its reading and the ledger does not.

**Readings** puts `readings.service.ts`, the queue `reading-processing`, the two
processors and `onFailed` on top of the wallet's variables, through
`W == INSTANCE Wallet`. `submit` is `BeginSubmit` (read), `CommitSubmit` (the
transaction with the reservation or the unlock by ads) or `RejectSubmit`, and
`EnqueueSubmitted`; retry and removal are split likewise. `job` is what Redis
holds: absent, waiting, active, completed or failed, attempts made, stalls. A run
goes through `Load`, `MarkProcessing`, `Execute`, `SettleConsumption` and
`CommitConsumption` or `SettleRelease`, `SaveResult`, `Finish`; `Throw` sends the
job back or, after the last attempt, starts its `listener`. The tarot and the palm
processor do the same to this state; their prompts differ.
`execute()` is one step here, which keeps the promise of AIExecution: COMPLETED,
FAILED, or an exception after which there may or may not be a row.

**AIExecution** is what `execute()` promises its callers: one row of `ai_executions`
at most, never rewritten, and the caller is told COMPLETED or FAILED exactly as the
row says, unless it threw.

**Interpretation** is `execute()` with the provider behind it. A call checks the text
with the risk guardrail, asks the provider, and retries what fails for technical
reasons (an exception or the timeout of `complete`) up to `AI_MAX_TECHNICAL_RETRIES`;
an answer that does not parse, does not fit the schema of its task or holds prohibited
content is not asked for again but recorded as FAILED. A text is `safe` or `risky`, an
answer what schemas and guardrail tell apart in it: its shape, how many entries it has and
whether they are for different positions, and, apart from each other, whether its text
(`raw`) and what is parsed from it and shown (`shown`) match a prohibited pattern. `input` covers
what the two processors, the validation of images and the test of a prompt by an
administrator pass; they differ in what they let the guardrail look at.

**Tarot** follows one reading from the answers to its form to the interpretation that is
shown: `Accepts` is `validateReadingAnswers`, `Draw` the set of draws `DrawEngineService` can
make, `Cards` what the deck holds while the seed inserts it, `cache` the deck in Redis.
A submission reads the spread, then the deck (cached or not), then draws and commits; a
run reads draws and answers when it starts, and a retry reads them again. The card of the
day reads the same cached deck. Credits and jobs are left to Readings.

**Payments** has `orders`, `payments`, `webhook_events` and the wallet's tables.
`transaction` and `mispriced` are Wompi's side; `Receive` is one
delivery of one event, in any order and as often as it is not answered 200.
`Settle` is `approvePayment` or `markPaymentTerminal`, each one transaction
guarded by `status: PENDING`; `SettleFails` is its rollback, when the order was credited
already or the buyer has no wallet. Neither an order nor a payment asks for one, so a user
whose registration stopped half-way orders and pays too.

**Rewards** describes one user. `Callback` reads the session, `Complete` is the
transaction of `registerCompletedSession`, `MarkExpired` the update of a callback
which found it late. `UnlockReading` and `UnlockCard` are `tryConsumeUnlock`
(one conditional UPDATE); `DeliverCard` caches the card; `CreateOrder`
consumes the flash offer that `BeginOrder` set out to use.

**PalmImages** describes one reading: rows (`image`, `expiry`, `deletedAt`), the
bucket, the URLs still open, the validation jobs and the cleanup. The client
uploads while its URL is open, as often as he likes: over a file that the AI has
found legible (`judged` is about the last file of an image), and after the row is
gone. The cleanup takes a batch, deletes each object and then marks its row; an
object may fail.

**Sharing** describes the links of one reading, the image job of each and the
objects uploaded, under a new key each time; and the visitors of the public page, who
read the link, then its summary or its image, log the visit and may sign up, while
the link is revoked or rendered beside them.

**Catalog** describes one prompt and one service. At READ COMMITTED a statement
sees the rows committed when it starts and rechecks the rows it had to wait for,
but not rows inserted meanwhile. So `FindPublished`/`FindActive` take the snapshot,
`ArchivePublished`/`DeactivateForms` write the rows as their locks come free, and
`CommitPublish`/`CommitForm` run the second statement and commit. The list of
services is read, then cached, with an update and its invalidation in between. The row
of the audit log is a step after the commit, which may be lost. The seed
script (`SeedStep`, with `SeedAgain` for a restart or another deployment) runs beside the
requests, one row a step, and looks for what exists before it writes. `ShownForm` is the
form users fill in.

**Sessions** describes accounts (`users` with role and wallet), refresh tokens and
links. `Refresh` reads the token, `ReadOwner` the user, `RotateTokens` is the
transaction; `CloseAll` is the `updateMany` that a reset, a change of password, a
deletion and the return of a revoked token have in common. A token remembers the
password its session was opened with, its session, and whether the request that
made it had been *overtaken*: another request closed those sessions, or rotated the same
token, after the first had read and before it wrote. A password is the number of its changes.

Every definition that stands for code is tied to its lines in `PROJECT.json`
under "map".

## 4. Runs, bounds, what they show

| Run | Instance | What it shows |
|---|---|---|
| `wallet` | 2 users, 2 readings, 1 order, several amounts, 1 adjustment | `NonNegativeBalance`, `LedgerReconciles`, `ReservationsMatchLedger`, `ConsumptionShowsAPastBalance`; the wallet implements CreditAccount |
| `readings` | 1 reading, 2 requests, 2 workers, 2 attempts, 1 retry, 1 stall, one fault of each kind | `SubmittedIsReserved`, `TerminalIsSettled`, `ChargedOnlyWhenDelivered`, `OnlySubmissionCharges`; every step is a step of Wallet |
| `readings_live` | 1 reading, 1 request, 2 workers, 2 attempts, 1 retry, 1 stall, no ads, two crashes and one lost lock | `SubmittedReadingEnds`, `ReservationEnds` |
| `payments` | 1 order, 2 intents, 1 request, 2 deliveries, 1 loss | `PaidOnce`, `SettledAsInWompi`, `ApprovedIsCredited`; every step is a step of Wallet |
| `rewards` | 3 sessions, 2 tasks, 2 orders, 2 days | `RewardedWhenCompleted`, `AdsPayForUnlocks`, `OfferUsedOnce` |
| `palm_images` | 1 image, 2 requests, 1 worker, 1 fault | `DeletionIsEvidence`, `ExpiredFilesGo` |
| `sharing` | 1 link, 2 requests, 1 visitor, 2 workers, 1 stall, 2 faults | `ReadyHasObject`, `ReadyStays`, `ImageSettles` |
| `catalog` | 2 versions, 2 forms, 1 revision, 2 requests, the seed and its restarts | `LastFormIsShown`, `StaysPublished`, `StaleListGoes` |
| `sessions` | 1 account, 3 tokens, 1 link, 2 requests, 2 changes, 1 expiry | `SessionsAreCurrent`, `OneTokenASession`, `SpentLinksStaySpent`, `AccountsAreWhole` |
| `interpretation` | 1 execution of any task, 2 technical retries | `RiskyTextStaysHere`, `ExecutionEnds`; it implements AIExecution |
| `tarot` | deck of 2 cards, spread of 2 positions, 2 requests, 2 workers, 1 retry | `InterpretedAsDrawn`, `DrawnFairly`, `AnswersSettle`, `StaleDeckGoes` |
| `acknowledged_is_credited` | 1 order, 1 intent, 1 loss | violated: section 7 |

Each module states its types as `TypeOK` (`SharingTypeOK`, `ExecutionTypeOK`). The runs do not
list it: it was checked on the same instances, and is a theorem of Wallet, PalmImages, Catalog
and Interpretation. Of the others the `Typed` of the proofs is the part that they need.

Why the bounds are enough. The races in this code are between two actors: two
requests that read the same row, a run and the run that replaced it, a request and
a worker. Two of each let every pair of operations overlap at every point, and
symmetric actors (`Symmetry` in the MC modules) are counted once. One reading, order,
image or link is enough where the code never relates two of them; where it does
(credits of one user held for two readings, two orders and one offer, two intents of
one order, two children of one token, two forms of a service) the instance has two.
Executions of `execute()` share nothing, so one is enough in Interpretation, whose proofs
hold for any number of them. Two attempts, a
retry and a stall are the least that make "the last attempt", "an attempt after a
failure" and "a second run of one attempt" different. One fault shows what a
single crash between two steps does. BullMQ lets a job stall once (`MaxStalled`, its default,
which `queues.module.ts` keeps): two crashes then fail a job with attempts left, which
`readings_live` and `sharing` reach. `readings_live` has one request, because two of them race
only over a DRAFT or a retry, which is what `readings` checks.

What the bounds leave out: three users racing on one wallet (the theorems of section
6 cover those), batches of the cleanup with several images (with
one image no batch leaves another one out, so `ExpiredFilesGo` says nothing of a backlog larger
than `CLEANUP_BATCH_SIZE`; `MarkedIsDeleted` covers any batch), two links of
one reading (they have separate jobs), accounts beside each other in Sessions (its theorems
cover those), decks of 78 cards (a draw tells cards apart only by being equal or not), and
a third version of a prompt, with which a deadlock of PostgreSQL could involve three
transactions (for safety, the theorems of Catalog hold for any number of versions and forms).

Deadlock is checked for `sessions`. Elsewhere `CHECK_DEADLOCK FALSE` stands because
the system rightly stops: every reading deleted or ended, every order paid, no ids left.

The abstract specifications and the two implementations of Wallet are PROPERTYs of the runs
(`ImplementsCreditAccount`, `ImplementsAIExecution`, `ImplementsWallet`).

## 5. Fairness

Safety is checked without fairness. For the liveness properties:

* A request, a run or an `onFailed` that has begun takes its next step (WF of
  `RequestStep`, `RunStep`, `ListenerStep`, `MarkImageFailed`, `TaskStep`): Node
  runs the continuation of an await that settles. Users are not obliged to begin
  anything, nor does Wompi have to close a transaction.
* A waiting job is picked (WF of `Pick` for each worker): BullMQ workers poll as
  long as they run. BullMQ's stalled check, which returns the job of a stopped
  worker, is in `LoseWorker`.
* Wompi goes on posting an event until it is answered 200 (WF of `Receive`),
  which `payments.service.ts` relies on.
* The cleanup runs on its schedule, and time passes for the retention of an image
  (WF of `CleanerStep` and `RetentionEnds`); an entry of the cache expires (WF of
  `ExpireList` and `ExpireDeck`), because it is SET with EX.
* A call of `execute()` takes its next step, and the timer it armed fires (WF of `Step`):
  that is `setTimeout`. The provider owes no answer, and none is assumed.
  A visitor of a shared link need not come back either.

`SubmittedReadingEnds`, `ReservationEnds` hold with workers that crash and locks that
expire, and not with a request lost between its commit and `queue.add`, or with a lost
`onFailed`: nothing in the code repairs these, so the instance leaves them out. Nor does
anything repair a job that has stalled too often and fails with attempts left, which
`onFailed` ignores: both properties, and `ImageSettles`, exempt it by name (`StalledOut`), and
section 7 says what becomes of it. The status, unlike the credits, may also be written by a run
that goes on without its lock, after the end: `SubmittedReadingEnds` exempts a lost lock.
`ImageSettles` and `ApprovedIsCredited` exempt lost requests, listeners and handlers by name
(`lost`, `faults > 0`), and `ApprovedIsCredited` is about buyers who have a wallet.

## 6. Theorems

`WalletProofs` proves, for all sets of users, readings, orders, all costs,
credits and bonuses in Nat and all adjustments in Int (the ASSUMEs of Wallet, which
are what DTO validation and `schema.prisma` give):

| Theorem | Invariant used | Why the property alone is not inductive |
|---|---|---|
| `TypeCorrect` | `Typed` = `TypeOK` and `LockedIsActive` | a commit of a consumption needs the reservation to be a record that is ACTIVE: the row lock taken by `BeginConsumption` keeps it so |
| `NeverOverdrawn` | `Solvent` = `Typed` and `NonNegativeBalance` | a release adds the amount of the reservation, which must be known to be a natural |
| `LedgerAlwaysReconciles` | `Typed` and `LedgerReconciles` | appending an entry that moves credits extends the chain by one link (`AppendMove`), one that does not leaves it (`AppendMark`) |
| `ReservationsAlwaysMatchLedger` | `Typed` and `Matched` | relates the entries also of readings that were deleted, whose ledger stays |
| `ConsumptionsShowAPastBalance` | `Typed` and `History`: the last movement shows the balance, an open hold has its entry in the ledger, and a balance read by a consumption under way was shown since that entry | the balance is read without a lock and written any number of movements later; ledgers only grow, so that what was shown stays shown |
| `WalletImplementsCreditAccount` | `Readable` = `Typed`, `Matched`, `History`, `NonNegativeBalance`, `KeysUnique` and `HoldsAreRead` | the holds of the account are read off the ledger: one entry of a type and a reference in all the ledgers, so that an operation which looks at one reading changes one hold and no other |

Each proof has one step per action of `Next`, on lemmas about the two ways to write a
movement (`Post`, `Move`) and about closing a reservation. The last
step combines initial states, preservation and `PTL`. `WalletImplementsCreditAccount`
maps the initial state to that of the account and each action to one of the account's or
to a stutter: a consumption changes the account when it commits, the insertion and the
deletion of a reading never do.

`ReadingsProofs`, for all sets of users and readings, any price in Nat, any number of
requests, workers, attempts, retries, stalls and faults:

| Theorem | Invariant used | Why the property alone is not inductive |
|---|---|---|
| `SubmissionsAreReserved`, `FinishedReadingsAreSettled`, `OnlyDeliveriesAreCharged` | `IInv` = `Typed`, `RowsFit` (the three properties and the lock of a consumption), `RunsFit`, `JobsFit`, `RequestsFit` | a run writes COMPLETED or FAILED some steps after it settled the credits, `onFailed` marks after it released them, and a retry enqueues what was FAILED when it was read: each rests on what it learned while other runs, retries and removals went on |
| `OnlySubmissionsAreCharged` | `IInv` | an action property: a step that lowers a balance or the counter of ads is the commit of a submission; a release gives back what is a natural |
| `ReadingsUseTheWallet` | `IInv` | each step writes what one operation of Wallet writes or leaves its tables alone; a run that commits holds the lock it took |
| `ReadingsKeepTheLedger` | none of its own | `WalletProofs` is instantiated over the wallet of Readings (`WP`), whose Spec that of `W` is; four of its theorems then are theorems of Readings |

What makes the knowledge of runs, jobs and requests last is one relation between a state
and the next, `Onward`, which every step satisfies: a reading that has left DRAFT never is one
again, credits that were settled stay settled, what was delivered stays delivered unless
the reading is deleted. `FitRun`, `FitJob` and `FitRequest` are kept by any step
that satisfies it and leaves the run, the job or the request alone.

`PaymentsProofs`, for all sets of users, orders, requests and deliveries, any number of
intents and of losses, and any credits in Nat:

| Theorem | Invariant used | Why the property alone is not inductive |
|---|---|---|
| `OrdersArePaidOnce` | `IInv` = `Typed`, `Informed`, `SettledAsInWompi` and `Settled(o)` for each order | an approval is prevented from crediting twice by the key `purchase:<order>` of the ledger: `Settled` says that the purchase entry, the PAID order and the APPROVED payment are there together or not at all |
| `PaymentsFollowWompi` | the same; `Informed`: what a handler carries is what Wompi decided | a delivery is settled some steps after it was received |
| `PaymentsUseTheWallet` | `IInv`, for the parts of a task | a purchase that commits writes exactly what `Wallet.CreditPurchase` writes; every other step leaves the wallet alone |
| `PaymentsKeepTheLedger` | none of its own | two theorems of `WalletProofs`, instantiated in the same way |

`SessionsProofs`, for all sets of accounts, tokens, links and requests and any number of
changes of a password:

| Theorem | Invariant used | Why the property alone is not inductive |
|---|---|---|
| `SessionsStayCurrent`, `SessionsGoOnOnce` | `IInv` = `Typed`, `Rooted`, `Fine` of each request and both properties | a session is opened or continued by a request that read the account or the token some steps before: `Fine` says that one that was not overtaken still holds the present password of an active account, or a token that is not revoked; a logout closes a session because there is no other token of it, so the two properties need each other |
| `LinksAreSpentOnce` | `IInv` and `SInv`: a request that is to spend a link and was not overtaken found it unused | the link is looked up some steps before it is spent |
| `AccountsStayWhole` | `IInv` and `WInv`: a request that is about to make the wallet has assigned the role | the role is assigned a step before the wallet is made, and other requests write the same row in between |

The actions are grouped by what they write: a request only (`GoingOn`), a row of `users`
(`AccountGoesOn`), a new token (`Adding`), or every token of a user (`Closing`).

`PromptsProofs`, of Interpretation, for any number of executions and of technical retries:

| Theorem | Invariant used | Why the property alone is not inductive |
|---|---|---|
| `RiskyTextNeverLeaves` | `Executing` = `Typed` and `Sound(c)`: at each point of a call, what has been checked up to there | the text is checked once and sent at each attempt, some of them after others have failed or timed out |
| `KeepsItsPromise` | `Executing` | initial states map to initial states, and each step to a step of AIExecution or a stutter: the row is written once because the call is past that point |
| `ExecutionTyped` | `Executing` and `Retries`: a call that is about to ask has a retry left | an attempt that fails decides whether another one follows, and the next step counts it: a call asks 1 + MaxTechnicalRetries times at most |

`PromptsProofs`, of Catalog, for any number of versions, forms and revisions and any set of
requests:

| Theorem | Invariant used | Why the property alone is not inductive |
|---|---|---|
| `CatalogTyped` | `TypeOK` itself | the next number of a version or a form is one more than the largest there is, which must be in range for the transaction to go on; that there is a largest follows from the well-foundedness of < on the naturals |
| `LastFormAlwaysShown` | `IInv` = `TypeOK`, `FormsInOrder` and `Chosen(r)` for each request | a form is created under a number chosen some steps before, while others publish or the seed runs: `FormsInOrder` says that the forms there are, are the first ones and that the last is active, `Chosen` that all those before the chosen number are there. The unique key on the number carries the argument: a transaction that finds its number taken fails |
| `PromptStaysPublished` | the same; `Chosen`: a publication's target is a version | an action property: a transaction archives the others and publishes its own in one commit, and the seed writes only where there is nothing |

`TarotProofs`, for decks and spreads of any size, all sets of requests and workers and any
number of retries:

| Theorem | Invariant used | Why the property alone is not inductive |
|---|---|---|
| `InterpretationsAreOfTheDraw` | `IInv` = `Typed`, `Follows`, `StillThere` and `DrawnFairly`; `Follows`: runs and interpretations only exist after the submission, and hold its cards | a run reads the cards some steps before it interprets them, and only a DRAFT can be drawn for |
| `DrawsAreFair` | the same; `StillThere`: what a request or the cache has read of the deck and the spread is no more than there is | the draw is made with a deck and a spread that were read, or cached by another request, some steps before; the seed only inserts |

`EngagementProofs`, of Rewards, for all finite sets of sessions and of requests, any orders, any number of
ads that a reward requires and any number of days:

| Theorem | Invariant used | Why the property alone is not inductive |
|---|---|---|
| `CompletedSessionsAreRewarded` | `IInv` = `Typed`, `Known`, `Covered` and the properties; `Known`: what a callback or an order refers to is there | an expiry is written some steps after the session was read, over CREATED only |
| `OffersAreUsedOnce` | the same | an order takes an offer that was read some steps before, of which it must be known that it exists and that applied ones are consumed |
| `UnlocksArePaid` | `Covered`: the ads watched cover what was bought, the counter, and `Deliveries`, the requests that consumed an unlock and have not delivered its card | a card is bought in two steps, and between them the counter is spent and nothing is delivered |

`EngagementProofs`, of Sharing, for all sets of links, requests, visitors and workers:

| Theorem | Invariant used | Why the property alone is not inductive |
|---|---|---|
| `ReadyImagesExist` | `ImagesThere` = `LinksTyped`, `Rendered` and `ReadyHasObject`; `Rendered`: a run that is about to write READY has uploaded its object | the row is written a step after the upload, by a run that may not be the only one |
| `ReadyIsKept` | `ImagesThere` | `markImageFailed` and a late run write by a condition on the status, which must be known when they do |

`PalmImagesProofs`, for all sets of images, requests and workers, any number of
images in a batch, of attempts, stalls and faults:

| Theorem | Invariant used | Why the property alone is not inductive |
|---|---|---|
| `MarkedIsDeleted` | `Typed` and `Deletions`: what the cleanup has in hand or has marked has no open URL, and what it is about to mark has no file | the file is gone some steps before the mark, and a presigned URL could bring it back: none is open once the retention has ended, and none is opened for an id again |
| `PalmImagesTyped` | `Typed`, `Sets` and `Attempts`: one run at most owns the job of an image, the job of an owner is active, and a job that waits or runs has attempts left | a run that lost its lock goes on beside its successor, and both may fail: only the owner's failure is counted |

The assumptions are the ASSUMEs of the modules: bounds in Nat, credits and bonuses in Nat,
finite sets where a proof counts. Everything a theorem speaks of is also checked by the run of
its module, on a small instance.

Every safety property of a passing run is a theorem. Model-checked and not proved are the
liveness properties (`SubmittedReadingEnds`, `ReservationEnds`, `ApprovedIsCredited`,
`ExpiredFilesGo`, `ImageSettles`, `StaleListGoes`, `ExecutionEnds`, `AnswersSettle`,
`StaleDeckGoes`): they, and ENABLED, are out of the prover's reach and stay with TLC.

## 7. Disagreements between code and docs

One has a run that shows it: `AcknowledgedIsCredited`. The plan says an approved payment is
credited exactly once. The event is recorded before it is processed; if the process stops in
between, the redelivery is taken for a duplicate. The run is about buyers with a wallet, and the
handlers are fair: what is missing is a repair.

The others are listed under "findings" without a run. Most are stated as a property of their
module, and adding it as an INVARIANT (or PROPERTY) to the instance named shows it:

| Property | Instance | What happens |
|---|---|---|
| `FailedIsRefunded` | `MCReadings.cfg` | the consumption is committed, and then the status cannot be written in any attempt: FAILED with its credits consumed |
| `DebitedHasReading` | `MCReadings.cfg` | a removal that read DRAFT deletes a reading submitted meanwhile, with its reservation |
| `CompletedIsFinal` | `MCReadings.cfg`, two retries | the second of two concurrent retries overwrites COMPLETED; so does, without them, the PROCESSING of a run that goes on without its lock |
| `FailedJobIsSettled` | `MCReadingsLive.cfg` | two crashes fail the job with attempts left, `onFailed` ignores it, and the credits stay reserved for a reading that never ends |
| `FailedJobIsMarked` | `MCSharing.cfg` | the same for a share image, which stays PENDING (and for a palm image, PENDING_REVIEW) |
| `AcceptedPurchaseIsCredited` | `MCPayments.cfg` | a buyer without a wallet pays, and the approval rolls back; no handler is lost |
| `SubmittedIsLegible` | `MCPalmImages.cfg` | the photo is replaced after the AI has found it legible, while the URL is open; or what was counted is confirmed again or removed before the commit |
| `FilesExpire` | `MCPalmImages.cfg` | a photo that was never confirmed, or was refused, has no `expiresAt` |
| `NoOrphanedObject` | `MCPalmImages.cfg` | an upload arrives after the removal |
| `OnePromotionADay` | `MCRewards.cfg`, four sessions | the limit is checked when a session is created, not when it is completed |
| `OneActiveLink` | `MCSharing.cfg`, two links | two requests find no active link |
| `RevokedAttributesNothing` | `MCSharing.cfg` | a sign-up is attributed to a link that was revoked |
| `OnePublishedVersion` | `MCCatalog.cfg` | two publications overlap |
| `ValidatedAsShown` | `MCCatalog.cfg` | the seed makes form 1 active again, and answers are validated against any active form |
| `EveryCardIsInterpreted` | `MCInterpretation.cfg` | the schema of three cards accepts one; those of five and ten accept entries of one position |
| `NothingProhibitedIsShown` | `MCInterpretation.cfg` | the guardrail reads the text of the answer; JSON escapes hide in it what is shown |
| `AnsweredAsAsked` | `MCTarot.cfg` | answers saved after the submission are shown with the interpretation of the old ones |
| `HasQuestion` | `MCTarot.cfg` | a number passes as an answer, and the processor reads no question from it |

The rest follow from behaviours the models have and exempt, or have no state to be about: a
reading submitted whose job was never added, a second approved intent of one order, a
confirmation repeated after validation, a price that the seed overwrites, the audit row that a
crash after the commit loses, and one row of `ai_executions` for an execution whatever its
attempts.

In Sessions the code closes the sessions that exist; what a request that overlaps with
the closing inserts afterwards is exempted by `overtaken`, and so is the second of two
requests that spend one link.

## 8. What is not modelled

* Credit packages, lists, metrics and health probes only read.
* What a text says: the patterns of the guardrails, prompts and their rendering, the
  summary of a shared reading, the layout of its image, the price of tokens.
* Of the seed: roles, credit packages and the local user, which nothing changes afterwards.
* Notifications, logging, Sentry, formatting and the diagnostics queue are output. The
  rows of `analytics_events` are steps without a table, since no code reads
  them; the audit rows of administrative actions other than adjustments and publications
  follow their commit in the same way.
* Which card the digest picks for the day, and the profile of a user.
* Throttling, cookies, signatures and hashes are inputs that are right or refused.
* BullMQ, Redis, PostgreSQL, the bucket and Wompi are modelled from how the code uses
  them, and marked external in the map.

## 9. Plan

Order of the modules, most important behaviour first; all of these are done.

1. Wallet and CreditAccount, WalletProofs.
2. Readings over Wallet, ReadingsProofs. 3. Payments over Wallet, PaymentsProofs.
4. Rewards. 5. PalmImages, PalmImagesProofs. 6. Sharing, EngagementProofs.
7. Catalog with the seed. 8. Sessions, SessionsProofs.
9. Interpretation and AIExecution, PromptsProofs. 10. Tarot, TarotProofs.

Next for the models: palm images and submission composed with Readings, so that the expiry
of a file meets the processing; Interpretation in place of the one step `Execute` of
Readings; a larger instance of PalmImages with two images in one batch.

Next for the proofs:

* Readings, Payments, Rewards, Sharing, Sessions, Tarot: the whole of `TypeOK`. For Sharing that is a count: a
  link has no more uploads than its job had attempts and stalls.
* When the models above are composed, that each component's theorems carry over, the way
  `WP` carries those of Wallet.
