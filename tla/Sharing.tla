------------------------------- MODULE Sharing -------------------------------
(***************************************************************************)
(* The share links of one completed reading: SharingService                *)
(* with the public pages, the attribution of sign-ups, and the queue       *)
(* share-image with ShareImageProcessor, over share_links, the bucket and  *)
(* Redis.  Each await that touches one of them is a step.  The reading is  *)
(* COMPLETED; what of it is shown (cards, a title, never the question) is  *)
(* left out, and so are the rows of analytics_events, which no code reads. *)
(***************************************************************************)
EXTENDS Integers, FiniteSets

CONSTANTS
    Link,           \* bound: ids that may be drawn for share_links
    Request,        \* HTTP requests of the owner served at the same time
    Visitor,        \* HTTP requests with a token served at the same time
    Worker,         \* image jobs run at the same time
    MaxAttempts,    \* attempts of a job (queues.module.ts)
    MaxStalled,     \* times BullMQ gives a stalled job to another worker
    MaxFaults       \* bound: crashes of workers and locks lost

ASSUME QueueAssumption == MaxAttempts \in Nat \ {0} /\ MaxStalled \in Nat
ASSUME FaultsAssumption == MaxFaults \in Nat

VARIABLES
    link,           \* share_links: no row, "active" or "revoked" (revokedAt)
    imageStatus,    \* share_links.imageStatus
    imageKey,       \* share_links.imageKey: the number of an object, 0 for null
    uploads,        \* objects uploaded for each link, under a new key each time
    job,            \* image jobs in Redis, one id for each link
    failing,        \* links whose onFailed is running
    run,            \* what each worker is doing
    req,            \* what each request is doing
    visit,          \* what each request with a token is doing
    faults,         \* crashes and lost locks so far
    lost            \* links whose request or onFailed was cut short

linkVars == <<link, imageStatus, imageKey>>
sharingVars == <<linkVars, visit, uploads, job, failing, run, req, faults, lost>>

NoJob == [state |-> "absent", made |-> 0, stalls |-> 0]

JobState == {"absent", "waiting", "active", "completed", "failed"}

NoRun == [pc |-> "idle"]

\* No run follows the last attempt and the last stall.
MaxRuns == MaxAttempts + MaxStalled

\* key: the object this run has uploaded.
Run == {NoRun} \cup
       [pc : {"load", "upload", "mark", "finish"}, link : Link, key : 0..MaxRuns,
        owned : BOOLEAN]

NoRequest == [pc |-> "idle"]

Requests == {NoRequest} \cup
            [pc : {"create", "enqueue", "revoke", "log"}, of : SUBSET Link]

\* key: the object that imageKey named when the link was read.
Visits == {NoRequest} \cup
          [pc : {"summary", "image", "signup"}, link : Link, key : 0..MaxRuns]

Active == {l \in Link : link[l] = "active"}

SharingInit ==
    /\ link = [l \in Link |-> "absent"]
    /\ imageStatus = [l \in Link |-> "PENDING"]
    /\ imageKey = [l \in Link |-> 0]
    /\ uploads = [l \in Link |-> 0]
    /\ job = [l \in Link |-> NoJob]
    /\ failing = {}
    /\ run = [w \in Worker |-> NoRun]
    /\ req = [q \in Request |-> NoRequest]
    /\ visit = [v \in Visitor |-> NoRequest]
    /\ faults = 0
    /\ lost = {}

-----------------------------------------------------------------------------
\* Requests

At(q, pc) == req[q].pc = pc

Go(q, pc, of) == req' = [req EXCEPT ![q] = [pc |-> pc, of |-> of]]

End(q) == req' = [req EXCEPT ![q] = NoRequest]

\* With an active link there is nothing to create: it is returned.
BeginShare(q) ==
    /\ req[q] = NoRequest
    /\ Active = {}
    /\ Go(q, "create", {})
    /\ UNCHANGED <<linkVars, visit, uploads, job, failing, run, faults, lost>>

CreateLink(q) ==
    /\ At(q, "create")
    /\ \E l \in Link :
         /\ link[l] = "absent"
         /\ link' = [link EXCEPT ![l] = "active"]
         /\ Go(q, "enqueue", {l})
    /\ UNCHANGED <<imageStatus, imageKey, visit, uploads, job, failing, run, faults, lost>>

EnqueueImage(q) ==
    /\ At(q, "enqueue")
    /\ job' = [l \in Link |-> IF l \in req[q].of
                              THEN [NoJob EXCEPT !.state = "waiting"] ELSE job[l]]
    /\ Go(q, "log", req[q].of)
    /\ UNCHANGED <<linkVars, visit, uploads, failing, run, faults, lost>>

\* findFirst: any of the active links, when there are several.
BeginRevoke(q) ==
    /\ req[q] = NoRequest
    /\ \E l \in Active : Go(q, "revoke", {l})
    /\ UNCHANGED <<linkVars, visit, uploads, job, failing, run, faults, lost>>

CommitRevoke(q) ==
    /\ At(q, "revoke")
    /\ link' = [l \in Link |-> IF l \in req[q].of THEN "revoked" ELSE link[l]]
    /\ Go(q, "log", req[q].of)
    /\ UNCHANGED <<imageStatus, imageKey, visit, uploads, job, failing, run, faults, lost>>

\* logEvent: a row of analytics_events, which no code reads; it may throw.
LogEvent(q) ==
    /\ At(q, "log")
    /\ End(q)
    /\ UNCHANGED <<linkVars, visit, uploads, job, failing, run, faults, lost>>

-----------------------------------------------------------------------------
\* Requests with a token

VisitAt(v, pc) == visit[v].pc = pc

BeginVisit(v, pc, l, key) ==
    /\ visit[v] = NoRequest
    /\ visit' = [visit EXCEPT ![v] = [pc |-> pc, link |-> l, key |-> key]]
    /\ UNCHANGED <<linkVars, uploads, job, failing, run, req, faults, lost>>

\* findActiveShareLink: a token that was revoked is a 404, as one that never was.
BeginSummary(v) == \E l \in Active : BeginVisit(v, "summary", l, 0)

\* getShareImageBytes: the link first, then the object its row named.
BeginImage(v) ==
    \E l \in Active :
        /\ imageStatus[l] = "READY"
        /\ BeginVisit(v, "image", l, imageKey[l])

\* logSignupConversion looks the link up by its id alone.
BeginSignup(v) ==
    \E l \in Link : link[l] # "absent" /\ BeginVisit(v, "signup", l, 0)

EndVisit(v) ==
    /\ visit' = [visit EXCEPT ![v] = NoRequest]
    /\ UNCHANGED <<linkVars, uploads, job, failing, run, req, faults, lost>>

\* An event is recorded, and the summary answered.
LogVisit(v) == (VisitAt(v, "summary") \/ VisitAt(v, "signup")) /\ EndVisit(v)

\* The image is answered: the key has an object, or the storage throws.
DownloadImage(v) == VisitAt(v, "image") /\ EndVisit(v)

-----------------------------------------------------------------------------
\* ShareImageProcessor

RunAt(w, pc) == run[w].pc = pc

Step(w, pc) == run' = [run EXCEPT ![w].pc = pc]

Pick(w, l) ==
    /\ run[w] = NoRun /\ job[l].state = "waiting"
    /\ job' = [job EXCEPT ![l].state = "active"]
    /\ run' = [run EXCEPT ![w] = [pc |-> "load", link |-> l, key |-> 0, owned |-> TRUE]]
    /\ UNCHANGED <<linkVars, visit, uploads, failing, req, faults, lost>>

Load(w) ==
    /\ RunAt(w, "load")
    /\ Step(w, IF link[run[w].link] = "revoked" THEN "finish" ELSE "upload")
    /\ UNCHANGED <<linkVars, visit, uploads, job, failing, req, faults, lost>>

\* Mutant: the row is marked before the upload, with the key to be.
UploadImageAfterMark(w) ==
    /\ RunAt(w, "upload")
    /\ run' = [run EXCEPT ![w].pc = "mark", ![w].key = uploads[run[w].link] + 1]
    /\ UNCHANGED <<linkVars, visit, uploads, job, failing, req, faults, lost>>

\* The image is rendered and uploaded under a random key.
UploadImage(w) ==
    /\ RunAt(w, "upload")
    /\ LET l == run[w].link IN
         /\ uploads' = [uploads EXCEPT ![l] = @ + 1]
         /\ run' = [run EXCEPT ![w].pc = "mark", ![w].key = uploads[l] + 1]
    /\ UNCHANGED <<linkVars, visit, job, failing, req, faults, lost>>

MarkImageReady(w) ==
    /\ RunAt(w, "mark")
    /\ imageStatus' = [imageStatus EXCEPT ![run[w].link] = "READY"]
    /\ imageKey' = [imageKey EXCEPT ![run[w].link] = run[w].key]
    /\ Step(w, "finish")
    /\ UNCHANGED <<link, visit, uploads, job, failing, req, faults, lost>>

\* BullMQ takes the result of a run only from the holder of the job's lock.
Finish(w) ==
    /\ RunAt(w, "finish")
    /\ job' = IF run[w].owned THEN [job EXCEPT ![run[w].link].state = "completed"] ELSE job
    /\ run' = [run EXCEPT ![w] = NoRun]
    /\ UNCHANGED <<linkVars, visit, uploads, failing, req, faults, lost>>

\* Mutant: onFailed compares with > and never hears the last failure.
FailAttemptUnheard(l) ==
    LET last == job[l].made + 1 >= MaxAttempts IN
    /\ job' = [job EXCEPT ![l].made = @ + 1, ![l].state = IF last THEN "failed" ELSE "waiting"]
    /\ UNCHANGED failing

\* One attempt more has failed: the job waits for the next, or has failed and
\* the event reaches onFailed.
FailAttempt(l) ==
    LET last == job[l].made + 1 >= MaxAttempts IN
    /\ job' = [job EXCEPT ![l].made = @ + 1, ![l].state = IF last THEN "failed" ELSE "waiting"]
    /\ failing' = IF last THEN failing \cup {l} ELSE failing

Throw(w) ==
    /\ run[w] # NoRun /\ run[w].pc # "finish"
    /\ run' = [run EXCEPT ![w] = NoRun]
    /\ IF run[w].owned THEN FailAttempt(run[w].link) ELSE UNCHANGED <<job, failing>>
    /\ UNCHANGED <<linkVars, visit, uploads, req, faults, lost>>

\* Mutant: the status is written whatever it is.
MarkAnyImageFailed(l) ==
    /\ l \in failing
    /\ failing' = failing \ {l}
    /\ imageStatus' = [imageStatus EXCEPT ![l] = "FAILED"]
    /\ UNCHANGED <<link, imageKey, visit, uploads, job, run, req, faults, lost>>

\* updateMany where imageStatus is not READY
MarkImageFailed(l) ==
    /\ l \in failing
    /\ failing' = failing \ {l}
    /\ imageStatus' = IF imageStatus[l] # "READY"
                      THEN [imageStatus EXCEPT ![l] = "FAILED"] ELSE imageStatus
    /\ UNCHANGED <<link, imageKey, visit, uploads, job, run, req, faults, lost>>

-----------------------------------------------------------------------------
\* Faults

\* The API stops, or what the request calls next fails.
LoseRequest(q) ==
    /\ req[q] # NoRequest
    /\ End(q)
    /\ lost' = IF At(q, "enqueue") THEN lost \cup req[q].of ELSE lost
    /\ UNCHANGED <<linkVars, visit, uploads, job, failing, run, faults>>

LoseListener(l) ==
    /\ l \in failing
    /\ failing' = failing \ {l}
    /\ lost' = lost \cup {l}
    /\ UNCHANGED <<linkVars, visit, uploads, job, run, req, faults>>

Fault ==
    /\ faults < MaxFaults
    /\ faults' = faults + 1

\* BullMQ's stalled-job check: the job waits again, or fails for good when that
\* has happened too often; onFailed then ignores it as one with attempts left,
\* unless they were used up.
Stall(l) ==
    IF job[l].stalls < MaxStalled
    THEN /\ job' = [job EXCEPT ![l].stalls = @ + 1, ![l].state = "waiting"]
         /\ UNCHANGED failing
    ELSE /\ job' = [job EXCEPT ![l].made = @ + 1, ![l].state = "failed"]
         /\ failing' = IF job[l].made + 1 >= MaxAttempts THEN failing \cup {l} ELSE failing

LoseWorker(w) ==
    /\ run[w] # NoRun
    /\ Fault
    /\ run' = [run EXCEPT ![w] = NoRun]
    /\ IF run[w].owned THEN Stall(run[w].link) ELSE UNCHANGED <<job, failing>>
    /\ UNCHANGED <<linkVars, visit, uploads, req, lost>>

LoseLock(w) ==
    /\ run[w] # NoRun /\ run[w].owned
    /\ Fault
    /\ run' = [run EXCEPT ![w].owned = FALSE]
    /\ Stall(run[w].link)
    /\ UNCHANGED <<linkVars, visit, uploads, req, lost>>

-----------------------------------------------------------------------------
RequestStep(q) ==
    CreateLink(q) \/ EnqueueImage(q) \/ CommitRevoke(q) \/ LogEvent(q)

VisitStep(v) ==
    BeginSummary(v) \/ BeginImage(v) \/ BeginSignup(v) \/ LogVisit(v) \/ DownloadImage(v)

RunStep(w) == Load(w) \/ UploadImage(w) \/ MarkImageReady(w) \/ Finish(w) \/ Throw(w)

SharingNext ==
    \/ \E q \in Request : BeginShare(q) \/ BeginRevoke(q) \/ RequestStep(q)
    \/ \E w \in Worker, l \in Link : Pick(w, l)
    \/ \E w \in Worker : RunStep(w) \/ LoseWorker(w) \/ LoseLock(w)
    \/ \E l \in Link : MarkImageFailed(l) \/ LoseListener(l)
    \/ \E q \in Request : LoseRequest(q)
    \/ \E v \in Visitor : VisitStep(v)

SharingSpec == SharingInit /\ [][SharingNext]_sharingVars

\* A request, a run and a listener that have begun go on; a free worker takes a
\* job that waits.  No user is obliged to share or to revoke.
SharingFairness ==
    /\ \A q \in Request : WF_sharingVars(RequestStep(q))
    /\ \A w \in Worker : WF_sharingVars(RunStep(w)) /\ WF_sharingVars(\E l \in Link : Pick(w, l))
    /\ \A l \in Link : WF_sharingVars(MarkImageFailed(l))

SharingFairSpec == SharingSpec /\ SharingFairness

-----------------------------------------------------------------------------
\* Properties

SharingTypeOK ==
    /\ link \in [Link -> {"absent", "active", "revoked"}]
    /\ imageStatus \in [Link -> {"PENDING", "READY", "FAILED"}]
    /\ imageKey \in [Link -> 0..MaxRuns] /\ uploads \in [Link -> 0..MaxRuns]
    /\ job \in [Link -> [state : JobState, made : 0..MaxAttempts, stalls : 0..MaxStalled]]
    /\ failing \subseteq Link
    /\ run \in [Worker -> Run]
    /\ req \in [Request -> Requests]
    /\ visit \in [Visitor -> Visits]
    /\ faults \in 0..MaxFaults
    /\ lost \subseteq Link

\* What GET /shared/:token/image serves is there: a READY link names an object
\* that has been uploaded, however the runs of its job overlap or fail, and so
\* does a link read by a request that has not downloaded it yet, though another
\* run has given the link another image, or the owner revoked it, meanwhile.
ReadyHasObject ==
    /\ \A l \in Link : imageStatus[l] = "READY" => imageKey[l] \in 1..uploads[l]
    /\ \A v \in Visitor : VisitAt(v, "image") => visit[v].key \in 1..uploads[visit[v].link]

\* "No pisa un READY ya alcanzado" (sharing.service.ts:213): a late failure of
\* another run does not take back an image that is ready.
ReadyStays ==
    [][\A l \in Link : imageStatus[l] = "READY" => imageStatus'[l] = "READY"]_sharingVars

\* A job that failed as stalled too often, with attempts left: onFailed ignores
\* it and BullMQ never runs it again.
StalledOut(l) == job[l].state = "failed" /\ job[l].made < MaxAttempts

\* The image of a link that was created does not stay PENDING, whatever attempts
\* fail, workers stop or runs lose their lock: it becomes ready or failed, or the
\* link is revoked, unless the job was never added, the last failure never heard
\* of, or the job stalled more often than BullMQ allows.
ImageSettles ==
    \A l \in Link :
        link[l] = "active"
          ~> imageStatus[l] # "PENDING" \/ link[l] = "revoked" \/ l \in lost \/ StalledOut(l)

\* onFailed is there for the job that "failed permanently"
\* (share-image.processor.ts:74): when no run, onFailed or lost onFailed of a
\* failed job is left, its image is not PENDING any more.
FailedJobIsMarked ==
    \A l \in Link :
        /\ job[l].state = "failed" /\ l \notin failing \cup lost
        /\ \A w \in Worker : run[w] # NoRun => run[w].link # l
        => imageStatus[l] # "PENDING"

\* "Si ya hay un enlace activo para la lectura, lo devuelve en vez de crear uno
\* nuevo" (sharing.service.ts:47): a reading has one active link at most.
OneActiveLink == Cardinality(Active) <= 1

\* "Un token inválido, revocado o inexistente simplemente no atribuye nada"
\* (sharing.service.ts:223): a sign-up is attributed to a link that is active when
\* it is looked up.
RevokedAttributesNothing ==
    [][\A v \in Visitor : ~VisitAt(v, "signup") /\ visit'[v].pc = "signup" =>
         link[visit'[v].link] = "active"]_sharingVars
=============================================================================
