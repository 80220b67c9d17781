------------------------------ MODULE Readings ------------------------------
(***************************************************************************)
(* The life of a reading: the HTTP requests of ReadingsService (create,    *)
(* updateInputs, submit, retry, remove), the BullMQ queue                  *)
(* reading-processing, the workers that run a job                          *)
(* (TarotReadingProcessor / PalmReadingProcessor.processReading) and the   *)
(* consumer's onFailed listener, over the credit wallet of module Wallet.  *)
(*                                                                         *)
(* API and workers are separate processes that share only the database     *)
(* and Redis.  Each await that touches one of them is a step of its own,   *)
(* and what a request or a run has read before a step may be stale when    *)
(* the step happens.  A request, a run or a listener may be lost between   *)
(* any two of its steps; MaxFaults bounds how often.                       *)
(***************************************************************************)
EXTENDS Integers, FiniteSets

CONSTANTS
    User, Reading,
    Owner,          \* the user each reading belongs to
    AdUnlockable,   \* readings of the service that ads unlock (TAROT_THREE)
    Price,          \* service.creditCost
    InitialBonus,
    AdsRequired,    \* ads that unlock one such reading
    MaxAds,         \* bound: an ad counter grows no further
    MaxAnswers,     \* bound: times the form of a reading is saved
    Request,        \* HTTP requests served at the same time
    Worker,         \* jobs run at the same time
    MaxAttempts,    \* attempts of a job (queues.module.ts)
    MaxRetries,     \* bound: retry jobs of a reading
    MaxStalled,     \* times BullMQ gives a stalled job to another worker
    MaxFaults       \* bound: faults of each kind

FaultKind == {"request", "crash", "lock", "listener"}

ASSUME OwnerAssumption == Owner \in [Reading -> User]
ASSUME AdUnlockableAssumption == AdUnlockable \subseteq Reading
ASSUME PriceAssumption == Price \in Nat
ASSUME InitialBonusAssumption == InitialBonus \in Nat
ASSUME AdsAssumption == AdsRequired \in Nat \ {0} /\ MaxAds \in Nat
ASSUME LimitsAssumption ==
    /\ MaxAnswers \in Nat /\ MaxAttempts \in Nat \ {0}
    /\ MaxRetries \in Nat /\ MaxStalled \in Nat
ASSUME FaultsAssumption == MaxFaults \in [FaultKind -> Nat]

VARIABLES
    status,         \* readings.status, and "NONE" / "DELETED" where there is no row
    answers,        \* reading_inputs: how often it has been saved
    adProgress,     \* ad_reward_progress.currentCount of TAROT_READING_UNLOCK
    delivered,      \* readings with a COMPLETED row in ai_executions
    wallets, balance, ledger, reservation, audit, confirming, seen,
    job,            \* the jobs in Redis
    listener,       \* jobs whose onFailed is running, and how far it has come
    run,            \* what each worker is doing
    req,            \* what each request is doing
    faults          \* faults so far

walletVars == <<wallets, balance, ledger, reservation, audit, confirming, seen>>
dataVars == <<status, answers, adProgress, delivered>>
vars == <<dataVars, walletVars, job, listener, run, req, faults>>

Written == {"DRAFT", "PENDING", "PROCESSING", "COMPLETED", "FAILED"}

rows == [r \in Reading |-> CASE status[r] = "NONE" -> "absent"
                             [] status[r] = "DELETED" -> "deleted"
                             [] OTHER -> "present"]

W == INSTANCE Wallet WITH
    Order <- {}, Credits <- {}, Adjustment <- {}, MaxAdjustments <- 0,
    Cost <- {0, Price}

\* The job of the submission is number 0 (its id is derived from the reading);
\* the jobs of retries have random ids.
Job == Reading \X (0..MaxRetries)

Absent == [state |-> "absent", made |-> 0, stalls |-> 0]

JobState == {"absent", "waiting", "active", "completed", "failed"}

NoRun == [pc |-> "idle"]

RunPc == {"load", "start", "execute", "settle", "confirm", "save", "finish"}

\* owned: this run still holds the lock BullMQ gave it on the job.
Run == {NoRun} \cup
       [pc : RunPc, job : Job, result : {"COMPLETED", "FAILED"}, owned : BOOLEAN]

NoRequest == [kind |-> "idle"]

RequestKind == {"answer", "submit", "retry", "remove"}

Requests == {NoRequest} \cup
            [kind : RequestKind, reading : Reading, pc : {"checked", "committed"}]

Init ==
    /\ status = [r \in Reading |-> "NONE"]
    /\ answers = [r \in Reading |-> 0]
    /\ adProgress = [u \in User |-> 0]
    /\ delivered = {}
    /\ wallets = {}
    /\ balance = [u \in User |-> 0]
    /\ ledger = [u \in User |-> << >>]
    /\ reservation = [r \in Reading |-> W!NoReservation]
    /\ audit = << >>
    /\ confirming = {}
    /\ seen = [r \in Reading |-> 0]
    /\ job = [j \in Job |-> Absent]
    /\ listener = [j \in Job |-> "none"]
    /\ run = [w \in Worker |-> NoRun]
    /\ req = [q \in Request |-> NoRequest]
    /\ faults = [f \in FaultKind |-> 0]

-----------------------------------------------------------------------------
\* The environment: registration, ads (rewards.service.ts)

Register(u) ==
    /\ UNCHANGED <<dataVars, job, listener, run, req, faults>>
    /\ W!CreateWalletWithBonus(u)

WatchAd(u) ==
    /\ adProgress[u] < MaxAds
    /\ adProgress' = [adProgress EXCEPT ![u] = @ + 1]
    /\ UNCHANGED <<status, answers, delivered, walletVars, job, listener, run, req, faults>>

-----------------------------------------------------------------------------
\* Requests.  Each begins by reading the reading's status and acts on what it
\* has read in later steps.

Busy(q) == req[q] # NoRequest

End(q) == req' = [req EXCEPT ![q] = NoRequest]

Begin(q, kind, r) ==
    /\ ~Busy(q)
    /\ req' = [req EXCEPT ![q] = [kind |-> kind, reading |-> r, pc |-> "checked"]]
    /\ UNCHANGED <<dataVars, walletVars, job, listener, run, faults>>

At(q, kind, pc) == Busy(q) /\ req[q].kind = kind /\ req[q].pc = pc

Goto(q, pc) == req' = [req EXCEPT ![q].pc = pc]

CreateReading(r) ==
    /\ status' = [status EXCEPT ![r] = "DRAFT"]
    /\ W!InsertReading(r)
    /\ UNCHANGED <<answers, adProgress, delivered, job, listener, run, req, faults>>

\* findOwnedDraft
BeginAnswer(q, r) == status[r] = "DRAFT" /\ answers[r] < MaxAnswers /\ Begin(q, "answer", r)

\* readingInput.upsert, unless the reading is gone.
SaveAnswer(q) ==
    /\ At(q, "answer", "checked")
    /\ LET r == req[q].reading IN
         answers' = IF status[r] \in Written /\ answers[r] < MaxAnswers
                    THEN [answers EXCEPT ![r] = @ + 1] ELSE answers
    /\ End(q)
    /\ UNCHANGED <<status, adProgress, delivered, walletVars, job, listener, run, faults>>

\* findOwnedDraft, and the form is filled in (the palm images are valid).
BeginSubmit(q, r) == status[r] = "DRAFT" /\ answers[r] > 0 /\ Begin(q, "submit", r)

Unlocked(r) == r \in AdUnlockable /\ adProgress[Owner[r]] >= AdsRequired

CostOf(r) == IF Unlocked(r) THEN 0 ELSE Price

\* The transaction of submit: consume the ads' unlock, reserve, draw the cards,
\* status PENDING.
CommitSubmit(q) ==
    /\ At(q, "submit", "checked")
    /\ LET r == req[q].reading IN
         /\ status' = [status EXCEPT ![r] = "PENDING"]
         /\ adProgress' = IF Unlocked(r) THEN [adProgress EXCEPT ![Owner[r]] = 0]
                          ELSE adProgress
         /\ W!ReserveCreditsForReading(Owner[r], r, CostOf(r))
    /\ Goto(q, "committed")
    /\ UNCHANGED <<answers, delivered, job, listener, run, faults>>

\* No row, no credits, or already submitted: rolled back, the request answers.
RejectSubmit(q) ==
    /\ At(q, "submit", "checked")
    /\ LET r == req[q].reading IN
         \/ status[r] \notin Written
         \/ reservation[r] # W!NoReservation
         \/ Owner[r] \notin wallets
         \/ balance[Owner[r]] < CostOf(r)
    /\ End(q)
    /\ UNCHANGED <<dataVars, walletVars, job, listener, run, faults>>

\* queue.add: nothing happens when a job with that id is still kept.
EnqueueSubmitted(q) ==
    /\ At(q, "submit", "committed")
    /\ LET j == <<req[q].reading, 0>> IN
         job' = IF job[j] = Absent THEN [job EXCEPT ![j].state = "waiting"] ELSE job
    /\ End(q)
    /\ UNCHANGED <<dataVars, walletVars, listener, run, faults>>

RetryJobs(r) == {n \in 1..MaxRetries : job[<<r, n>>] # Absent}

Retrying(r) == {q \in Request : Busy(q) /\ req[q].kind = "retry" /\ req[q].reading = r}

\* Mutant: a reading in any state but COMPLETED can be retried.
BeginRetryUnlessCompleted(q, r) ==
    /\ status[r] \in Written \ {"COMPLETED"}
    /\ Cardinality(RetryJobs(r)) + Cardinality(Retrying(r)) < MaxRetries
    /\ Begin(q, "retry", r)

BeginRetry(q, r) ==
    /\ status[r] = "FAILED"
    /\ Cardinality(RetryJobs(r)) + Cardinality(Retrying(r)) < MaxRetries
    /\ Begin(q, "retry", r)

\* Mutant: a retry is charged like a submission.
CommitRetryAndCharge(q) ==
    /\ At(q, "retry", "checked")
    /\ LET r == req[q].reading IN
         /\ status' = [status EXCEPT ![r] = "PENDING"]
         /\ balance' = [balance EXCEPT ![Owner[r]] = @ - Price]
    /\ Goto(q, "committed")
    /\ UNCHANGED <<answers, adProgress, delivered, wallets, ledger, reservation, audit,
                   confirming, seen, job, listener, run, faults>>

\* performRetry updates whatever the status is by now; a deleted row throws.
CommitRetry(q) ==
    /\ At(q, "retry", "checked")
    /\ LET r == req[q].reading IN
         IF status[r] \in Written
         THEN status' = [status EXCEPT ![r] = "PENDING"] /\ Goto(q, "committed")
         ELSE UNCHANGED status /\ End(q)
    /\ UNCHANGED <<answers, adProgress, delivered, walletVars, job, listener, run, faults>>

EnqueueRetry(q) ==
    /\ At(q, "retry", "committed")
    /\ LET r == req[q].reading
           n == Cardinality(RetryJobs(r)) + 1
       IN job' = [job EXCEPT ![<<r, n>>].state = "waiting"]
    /\ End(q)
    /\ UNCHANGED <<dataVars, walletVars, listener, run, faults>>

BeginRemove(q, r) == status[r] = "DRAFT" /\ Begin(q, "remove", r)

\* Mutant: no onDelete Cascade on the reservation.
CommitRemoveWithoutCascade(q) ==
    /\ At(q, "remove", "checked")
    /\ status' = [status EXCEPT ![req[q].reading] = "DELETED"]
    /\ End(q)
    /\ UNCHANGED <<answers, adProgress, delivered, walletVars, job, listener, run, faults>>

\* reading.delete, whatever the status is by now; the foreign keys cascade.
CommitRemove(q) ==
    /\ At(q, "remove", "checked")
    /\ LET r == req[q].reading IN
         IF status[r] \in Written
         THEN /\ status' = [status EXCEPT ![r] = "DELETED"]
              /\ answers' = [answers EXCEPT ![r] = 0]
              /\ delivered' = delivered \ {r}
              /\ W!DeleteReading(r)
         ELSE UNCHANGED <<status, answers, delivered, walletVars>>
    /\ End(q)
    /\ UNCHANGED <<adProgress, job, listener, run, faults>>

-----------------------------------------------------------------------------
\* Runs of a job

RunAt(w, pc) == run[w] # NoRun /\ run[w].pc = pc

\* The reading a run is about.
Subject(w) == run[w].job[1]

Step(w, pc) == run' = [run EXCEPT ![w].pc = pc]

Pick(w, j) ==
    /\ run[w] = NoRun
    /\ job[j].state = "waiting"
    /\ job' = [job EXCEPT ![j].state = "active"]
    /\ run' = [run EXCEPT ![w] = [pc |-> "load", job |-> j, result |-> "FAILED", owned |-> TRUE]]
    /\ UNCHANGED <<dataVars, walletVars, listener, req, faults>>

\* findUnique: there is nothing to do for a reading that is gone or COMPLETED.
Load(w) ==
    /\ RunAt(w, "load")
    /\ Step(w, IF status[Subject(w)] \in Written \ {"COMPLETED"} THEN "start" ELSE "finish")
    /\ UNCHANGED <<dataVars, walletVars, job, listener, req, faults>>

MarkProcessing(w) ==
    /\ RunAt(w, "start")
    /\ status[Subject(w)] \in Written
    /\ status' = [status EXCEPT ![Subject(w)] = "PROCESSING"]
    /\ Step(w, "execute")
    /\ UNCHANGED <<answers, adProgress, delivered, walletVars, job, listener, req, faults>>

\* aiOrchestrator.execute leaves a row in ai_executions whatever the outcome.
Execute(w, result) ==
    /\ RunAt(w, "execute")
    /\ status[Subject(w)] \in Written
    /\ delivered' = IF result = "COMPLETED" THEN delivered \cup {Subject(w)} ELSE delivered
    /\ run' = [run EXCEPT ![w].pc = "settle", ![w].result = result]
    /\ UNCHANGED <<status, answers, adProgress, walletVars, job, listener, req, faults>>

\* confirmConsumption and releaseReservation wait for another transaction that
\* has locked the reservation, and do nothing when it is not ACTIVE any more.
NotActive(r) == reservation[r].status # "ACTIVE"

\* Mutant: consumption is confirmed whatever the AI answered.
SettleConsumptionAlways(w) ==
    /\ RunAt(w, "settle")
    /\ Step(w, IF NotActive(Subject(w)) THEN "save" ELSE "confirm")
    /\ UNCHANGED <<dataVars, job, listener, req, faults>>
    /\ IF NotActive(Subject(w)) THEN UNCHANGED walletVars
                                ELSE W!BeginConsumption(Subject(w))

SettleConsumption(w) ==
    /\ RunAt(w, "settle") /\ run[w].result = "COMPLETED"
    /\ Step(w, IF NotActive(Subject(w)) THEN "save" ELSE "confirm")
    /\ UNCHANGED <<dataVars, job, listener, req, faults>>
    /\ IF NotActive(Subject(w)) THEN UNCHANGED walletVars
                                ELSE W!BeginConsumption(Subject(w))

CommitConsumption(w) ==
    /\ RunAt(w, "confirm")
    /\ Step(w, "save")
    /\ UNCHANGED <<dataVars, job, listener, req, faults>>
    /\ W!CommitConsumption(Subject(w))

SettleRelease(w) ==
    /\ RunAt(w, "settle") /\ run[w].result = "FAILED"
    /\ Step(w, "save")
    /\ UNCHANGED <<dataVars, job, listener, req, faults>>
    /\ IF NotActive(Subject(w)) THEN UNCHANGED walletVars
                                ELSE W!ReleaseReservation(Subject(w))

SaveResult(w) ==
    /\ RunAt(w, "save")
    /\ status[Subject(w)] \in Written
    /\ status' = [status EXCEPT ![Subject(w)] = run[w].result]
    /\ Step(w, "finish")
    /\ UNCHANGED <<answers, adProgress, delivered, walletVars, job, listener, req, faults>>

\* BullMQ takes the result of a run only from the holder of the job's lock.
Finish(w) ==
    /\ RunAt(w, "finish")
    /\ job' = IF run[w].owned THEN [job EXCEPT ![run[w].job].state = "completed"] ELSE job
    /\ run' = [run EXCEPT ![w] = NoRun]
    /\ UNCHANGED <<dataVars, walletVars, listener, req, faults>>

\* Mutant: onFailed compares with <= and takes no failure for the last one.
FailAttemptUnheard(j) ==
    LET last == job[j].made + 1 >= MaxAttempts IN
    /\ job' = [job EXCEPT ![j].made = @ + 1, ![j].state = IF last THEN "failed" ELSE "waiting"]
    /\ UNCHANGED listener

\* The attempts made become one more: the job waits for the next one or has
\* failed, and then the 'failed' event reaches onFailed.
FailAttempt(j) ==
    LET last == job[j].made + 1 >= MaxAttempts IN
    /\ job' = [job EXCEPT ![j].made = @ + 1, ![j].state = IF last THEN "failed" ELSE "waiting"]
    /\ listener' = IF last THEN [listener EXCEPT ![j] = "release"] ELSE listener

RollBack(w) == IF RunAt(w, "confirm") THEN W!AbortConsumption(Subject(w))
               ELSE UNCHANGED walletVars

\* Any await of processReading may throw: an unpublished prompt, an image that
\* cannot be read, a row that is gone, the database.
Throw(w) ==
    /\ run[w] # NoRun /\ run[w].pc # "finish"
    /\ run' = [run EXCEPT ![w] = NoRun]
    /\ UNCHANGED <<dataVars, req, faults>>
    /\ IF run[w].owned THEN FailAttempt(run[w].job) ELSE UNCHANGED <<job, listener>>
    /\ RollBack(w)

-----------------------------------------------------------------------------
\* ReadingProcessingConsumer.onFailed, after the last attempt

\* Mutant: only the processor releases reservations.
ListenerKeepsReservation(j) ==
    /\ listener[j] = "release"
    /\ listener' = [listener EXCEPT ![j] = "mark"]
    /\ UNCHANGED <<dataVars, walletVars, job, run, req, faults>>

ListenerRelease(j) ==
    /\ listener[j] = "release"
    /\ listener' = [listener EXCEPT ![j] = "mark"]
    /\ UNCHANGED <<dataVars, job, run, req, faults>>
    /\ IF NotActive(j[1]) THEN UNCHANGED walletVars ELSE W!ReleaseReservation(j[1])

\* updateMany where status is not COMPLETED
ListenerMark(j) ==
    /\ listener[j] = "mark"
    /\ listener' = [listener EXCEPT ![j] = "none"]
    /\ status' = IF status[j[1]] \in Written \ {"COMPLETED"}
                 THEN [status EXCEPT ![j[1]] = "FAILED"] ELSE status
    /\ UNCHANGED <<answers, adProgress, delivered, walletVars, job, run, req, faults>>

-----------------------------------------------------------------------------
\* Faults

Fault(kind) ==
    /\ faults[kind] < MaxFaults[kind]
    /\ faults' = [faults EXCEPT ![kind] = @ + 1]

\* The API process stops, Redis refuses the job, the database the next query.
LoseRequest(q) ==
    /\ Busy(q)
    /\ Fault("request")
    /\ End(q)
    /\ UNCHANGED <<dataVars, walletVars, job, listener, run>>

\* BullMQ's stalled-job check: the job waits again, or fails for good when that
\* has happened too often; onFailed then ignores it as one with attempts left,
\* unless they were used up.
Stall(j) ==
    IF job[j].stalls < MaxStalled
    THEN /\ job' = [job EXCEPT ![j].stalls = @ + 1, ![j].state = "waiting"]
         /\ UNCHANGED listener
    ELSE /\ job' = [job EXCEPT ![j].made = @ + 1, ![j].state = "failed"]
         /\ listener' = IF job[j].made + 1 >= MaxAttempts
                        THEN [listener EXCEPT ![j] = "release"] ELSE listener

\* The worker's process stops in the middle of a run.
LoseWorker(w) ==
    /\ run[w] # NoRun
    /\ Fault("crash")
    /\ run' = [run EXCEPT ![w] = NoRun]
    /\ UNCHANGED <<dataVars, req>>
    /\ IF run[w].owned THEN Stall(run[w].job) ELSE UNCHANGED <<job, listener>>
    /\ RollBack(w)

\* A worker too slow to renew its lock: the job goes to another one, the run
\* goes on.
LoseLock(w) ==
    /\ run[w] # NoRun /\ run[w].owned
    /\ Fault("lock")
    /\ run' = [run EXCEPT ![w].owned = FALSE]
    /\ UNCHANGED <<dataVars, walletVars, req>>
    /\ Stall(run[w].job)

\* onFailed itself is cut short.
LoseListener(j) ==
    /\ listener[j] # "none"
    /\ Fault("listener")
    /\ listener' = [listener EXCEPT ![j] = "none"]
    /\ UNCHANGED <<dataVars, walletVars, job, run, req>>

-----------------------------------------------------------------------------
RequestStep(q) ==
    \/ SaveAnswer(q) \/ CommitSubmit(q) \/ RejectSubmit(q) \/ EnqueueSubmitted(q)
    \/ CommitRetry(q) \/ EnqueueRetry(q) \/ CommitRemove(q)

RunStep(w) ==
    \/ Load(w) \/ MarkProcessing(w) \/ Execute(w, "COMPLETED") \/ Execute(w, "FAILED")
    \/ SettleConsumption(w) \/ CommitConsumption(w) \/ SettleRelease(w)
    \/ SaveResult(w) \/ Finish(w) \/ Throw(w)

ListenerStep(j) == ListenerRelease(j) \/ ListenerMark(j)

Next ==
    \/ \E u \in User : Register(u) \/ WatchAd(u)
    \/ \E r \in Reading : CreateReading(r)
    \/ \E q \in Request, r \in Reading :
         BeginAnswer(q, r) \/ BeginSubmit(q, r) \/ BeginRetry(q, r) \/ BeginRemove(q, r)
    \/ \E q \in Request : RequestStep(q)
    \/ \E w \in Worker, j \in Job : Pick(w, j)
    \/ \E w \in Worker : RunStep(w)
    \/ \E j \in Job : ListenerStep(j)
    \/ \E q \in Request : LoseRequest(q)
    \/ \E w \in Worker : LoseWorker(w) \/ LoseLock(w)
    \/ \E j \in Job : LoseListener(j)

Spec == Init /\ [][Next]_vars

\* A request, a run and a listener that have begun go on; a free worker takes a
\* job that waits.  No user is obliged to do anything.
Fairness ==
    /\ \A q \in Request : WF_vars(RequestStep(q))
    /\ \A w \in Worker : WF_vars(RunStep(w)) /\ WF_vars(\E j \in Job : Pick(w, j))
    /\ \A j \in Job : WF_vars(ListenerStep(j))

FairSpec == Spec /\ Fairness

-----------------------------------------------------------------------------
\* Properties

TypeOK ==
    /\ status \in [Reading -> Written \cup {"NONE", "DELETED"}]
    /\ answers \in [Reading -> 0..MaxAnswers]
    /\ adProgress \in [User -> 0..MaxAds]
    /\ delivered \subseteq Reading
    /\ W!TypeOK
    /\ job \in [Job -> [state : JobState, made : 0..MaxAttempts, stalls : 0..MaxStalled]]
    /\ listener \in [Job -> {"none", "release", "mark"}]
    /\ run \in [Worker -> Run]
    /\ req \in [Request -> Requests]
    /\ faults \in [FaultKind -> Nat]

\* The lifecycle touches the wallet's tables only through WalletService's
\* operations, each within one step: every theorem of Wallet holds here.
ImplementsWallet == W!Spec

\* A reading has left DRAFT exactly when credits were reserved for it: submit
\* does both in one transaction, and neither a second submit, a retry nor a
\* removal that read the status earlier separates them.
SubmittedIsReserved ==
    \A r \in Reading :
        (status[r] \in Written \ {"DRAFT"}) <=> (reservation[r].status # "NONE")

\* A reading whose status is final has its credits settled already: the
\* processor and onFailed settle first and write the status after, so that no
\* fault between the two leaves credits held by a finished reading.
TerminalIsSettled ==
    \A r \in Reading :
        status[r] \in {"COMPLETED", "FAILED"} => reservation[r].status # "ACTIVE"

\* Credits are consumed, and a reading shown as COMPLETED, only when the AI
\* delivered an interpretation, whatever runs, retries and faults there were.
ChargedOnlyWhenDelivered ==
    \A r \in Reading :
        reservation[r].status = "CONSUMED" \/ status[r] = "COMPLETED" => r \in delivered

\* "Una lectura no vuelve a cobrar por reintentos tecnicos": credits and unlocks
\* leave a user only in the step that takes a reading of theirs from DRAFT to
\* PENDING, and that step takes the one or the other.
OnlySubmissionCharges ==
    [][\A u \in User :
          balance'[u] < balance[u] \/ adProgress'[u] < adProgress[u] =>
            \E r \in Reading :
                /\ Owner[r] = u /\ status[r] = "DRAFT" /\ status'[r] = "PENDING"
                /\ IF adProgress'[u] < adProgress[u]
                   THEN r \in AdUnlockable /\ balance'[u] = balance[u]
                   ELSE balance'[u] = balance[u] - Price]_vars

\* A job that failed as stalled too often, with attempts left: onFailed ignores
\* it and BullMQ never runs it again.
StalledOut(r) ==
    \E n \in 0..MaxRetries :
        job[<<r, n>>].state = "failed" /\ job[<<r, n>>].made < MaxAttempts

\* Without lost requests and listeners every reading that was submitted comes to
\* an end: attempts, backoff, workers that stop and a user who retries
\* notwithstanding.  The exceptions are a job that has stalled more often than
\* BullMQ allows, and a run that goes on without its lock: its "PROCESSING" may
\* come after the end, and a throw after that.
SubmittedReadingEnds ==
    \A r \in Reading :
        status[r] \in {"PENDING", "PROCESSING"}
          ~> \/ status[r] \in {"COMPLETED", "FAILED", "DELETED"}
             \/ StalledOut(r) \/ faults["lock"] > 0

\* "Fallo definitivo devuelve creditos": a reservation does not stay ACTIVE, runs
\* without their lock included, unless the job has stalled too often.
ReservationEnds ==
    \A r \in Reading :
        reservation[r].status = "ACTIVE"
          ~> reservation[r].status # "ACTIVE" \/ StalledOut(r)

\* "Fallo definitivo de infraestructura ... igual hay que liberar la reserva"
\* (reading-processing.consumer.ts:62): when a job of a reading has failed and no
\* job, run or listener of it is left, its credits are not held any more.
FailedJobIsSettled ==
    \A r \in Reading :
        LET jobs == {<<r, n>> : n \in 0..MaxRetries} IN
            /\ \E j \in jobs : job[j].state = "failed"
            /\ \A j \in jobs : job[j].state \notin {"waiting", "active"} /\ listener[j] = "none"
            /\ \A w \in Worker : run[w] # NoRun => Subject(w) # r
            => reservation[r].status # "ACTIVE"

\* "Los creditos ya se devolvieron cuando la lectura llego a FAILED"
\* (readings.service.ts:450): a FAILED reading has its credits back.
FailedIsRefunded ==
    \A r \in Reading : status[r] = "FAILED" => reservation[r].status = "RELEASED"

\* "Nunca dejar creditos debitados sin una lectura que los consuma"
\* (reading-processing.consumer.ts:64): credits taken for a reading and not
\* given back belong to a reading that exists.
DebitedHasReading ==
    \A r \in Reading :
        W!Recorded("RESERVATION", r) /\ ~W!Recorded("RELEASE", r) => status[r] \in Written

\* "El processor sigue siendo el guardian real de no duplicar trabajo"
\* (reading-processing.types.ts:25): a COMPLETED reading stays COMPLETED.
CompletedIsFinal ==
    [][\A r \in Reading :
          status[r] = "COMPLETED" => status'[r] \in {"COMPLETED", "DELETED"}]_vars
=============================================================================
