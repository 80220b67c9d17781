----------------------------- MODULE PalmImages -----------------------------
(***************************************************************************)
(* The palm images of one reading of a palm service: ReadingsService       *)
(* (presignImage, confirmImage, submitPalmReading up to its transaction,   *)
(* remove), the client that uploads with the presigned URL, the queue      *)
(* image-analysis with PalmImageValidationProcessor, and the scheduled     *)
(* ImageCleanupProcessor, over the rows of palm_images and the bucket.     *)
(*                                                                         *)
(* Database, bucket and Redis are three stores without a common            *)
(* transaction: every await that touches one of them is a step.  Credits   *)
(* and the rest of a submission are in module Readings.                    *)
(***************************************************************************)
EXTENDS Integers, FiniteSets

CONSTANTS
    Image,          \* ids and storage keys that presignImage may draw
    Slots,          \* requiredPalmImageSlots(service.code)
    Request,        \* HTTP requests served at the same time
    Worker,         \* validation jobs run at the same time
    BatchSize,      \* CLEANUP_BATCH_SIZE
    MaxAttempts,    \* attempts of a job (queues.module.ts)
    MaxStalled,     \* times BullMQ gives a stalled job to another worker
    MaxFaults       \* bound: faults of any kind

ASSUME SlotsAssumption == Slots \in Nat \ {0}
ASSUME BatchAssumption == BatchSize \in Nat \ {0}
ASSUME QueueAssumption == MaxAttempts \in Nat \ {0} /\ MaxStalled \in Nat
ASSUME FaultsAssumption == MaxFaults \in Nat

VARIABLES
    reading,        \* "DRAFT", "SUBMITTED" (every later status) or "DELETED"
    image,          \* palm_images.status, and "NONE" / "DELETED" without a row
    expiry,         \* palm_images.expiresAt: "null", ahead or "due"
    deletedAt,      \* images whose palm_images.deletedAt is set
    bucket,         \* the objects there are
    openUrl,        \* presigned URLs that have not expired
    judged,         \* images whose last uploaded file the AI has found legible
    job,            \* validation jobs in Redis, one id for each image
    failing,        \* images whose onFailed is running
    run,            \* what each worker is doing
    req,            \* what each request is doing
    cleaner,        \* the cleanup job: images left, and the one in hand
    faults

rowVars == <<reading, image, expiry, deletedAt>>
jobVars == <<job, failing, run>>
vars == <<rowVars, bucket, openUrl, judged, jobVars, req, cleaner, faults>>

Status == {"UPLOADED", "PENDING_REVIEW", "VALID", "INVALID"}

HasRow(i) == image[i] \in Status

NoJob == [state |-> "absent", made |-> 0, stalls |-> 0]

JobState == {"absent", "waiting", "active", "completed", "failed"}

NoRun == [pc |-> "idle"]

\* verdict: what the update that follows the AI's answer will write.
Run == {NoRun} \cup
       [pc : {"load", "judge", "save", "finish"}, image : Image,
        verdict : {"VALID", "INVALID"}, owned : BOOLEAN]

NoRequest == [kind |-> "idle"]

\* of: the images the request works on, once it knows them.
Requests == {NoRequest} \cup
    [kind : {"presign", "confirm", "submit", "remove"}, of : SUBSET Image,
     pc : {"draft", "counted", "read", "accept", "reject", "enqueue", "listed", "emptied"}]

NoCleanup == [left |-> {}, now |-> {}]

Init ==
    /\ reading = "DRAFT"
    /\ image = [i \in Image |-> "NONE"]
    /\ expiry = [i \in Image |-> "null"]
    /\ deletedAt = {}
    /\ bucket = {}
    /\ openUrl = {}
    /\ judged = {}
    /\ job = [i \in Image |-> NoJob]
    /\ failing = {}
    /\ run = [w \in Worker |-> NoRun]
    /\ req = [q \in Request |-> NoRequest]
    /\ cleaner = NoCleanup
    /\ faults = 0

-----------------------------------------------------------------------------
\* Requests.  Each begins with findOwnedDraft and relies on it afterwards.

At(q, kind, pc) == req[q] # NoRequest /\ req[q].kind = kind /\ req[q].pc = pc

Go(q, pc) == req' = [req EXCEPT ![q].pc = pc]

End(q) == req' = [req EXCEPT ![q] = NoRequest]

Begin(q, kind, of) ==
    /\ req[q] = NoRequest
    /\ reading = "DRAFT"
    /\ req' = [req EXCEPT ![q] = [kind |-> kind, of |-> of, pc |-> "draft"]]
    /\ UNCHANGED <<rowVars, bucket, openUrl, judged, jobVars, cleaner, faults>>

BeginPresign(q) == Begin(q, "presign", {})

BeginConfirm(q, i) == Begin(q, "confirm", {i})

BeginSubmit(q) == Begin(q, "submit", {})

BeginRemove(q) == Begin(q, "remove", {})

CountSlots(q) ==
    /\ At(q, "presign", "draft")
    /\ IF Cardinality({i \in Image : HasRow(i) /\ image[i] # "INVALID"}) < Slots
       THEN Go(q, "counted") ELSE End(q)
    /\ UNCHANGED <<rowVars, bucket, openUrl, judged, jobVars, cleaner, faults>>

\* The row refers to the reading: there is none for a reading that is gone.
CreateImage(q) ==
    /\ At(q, "presign", "counted")
    /\ End(q)
    /\ IF reading = "DELETED" THEN UNCHANGED <<image, openUrl>>
       ELSE \E i \in Image :
              /\ image[i] = "NONE"
              /\ image' = [image EXCEPT ![i] = "UPLOADED"]
              /\ openUrl' = openUrl \cup {i}
    /\ UNCHANGED <<reading, expiry, deletedAt, bucket, judged, jobVars, cleaner, faults>>

ReadImage(q) ==
    /\ At(q, "confirm", "draft")
    /\ IF \E i \in req[q].of : image[i] = "UPLOADED" THEN Go(q, "read") ELSE End(q)
    /\ UNCHANGED <<rowVars, bucket, openUrl, judged, jobVars, cleaner, faults>>

\* headObject and downloadObject: what is there may be an acceptable image.
Inspect(q) ==
    /\ At(q, "confirm", "read")
    /\ \/ req[q].of \subseteq bucket /\ Go(q, "accept")
       \/ Go(q, "reject")
    /\ UNCHANGED <<rowVars, bucket, openUrl, judged, jobVars, cleaner, faults>>

RejectImage(q) ==
    /\ At(q, "confirm", "reject")
    /\ End(q)
    /\ image' = [i \in Image |-> IF i \in req[q].of /\ HasRow(i) THEN "INVALID" ELSE image[i]]
    /\ UNCHANGED <<reading, expiry, deletedAt, bucket, openUrl, judged, jobVars, cleaner, faults>>

\* The status read in ReadImage is not read again.
AcceptImage(q) ==
    /\ At(q, "confirm", "accept")
    /\ \E i \in req[q].of :
         IF HasRow(i)
         THEN /\ image' = [image EXCEPT ![i] = "PENDING_REVIEW"]
              /\ expiry' = [expiry EXCEPT ![i] = "ahead"]
              /\ Go(q, "enqueue")
         ELSE UNCHANGED <<image, expiry>> /\ End(q)
    /\ UNCHANGED <<reading, deletedAt, bucket, openUrl, judged, jobVars, cleaner, faults>>

\* queue.add does nothing while Redis holds the id.
EnqueueValidation(q) ==
    /\ At(q, "confirm", "enqueue")
    /\ End(q)
    /\ job' = [i \in Image |-> IF i \in req[q].of /\ job[i] = NoJob
                               THEN [NoJob EXCEPT !.state = "waiting"] ELSE job[i]]
    /\ UNCHANGED <<rowVars, bucket, openUrl, judged, failing, run, cleaner, faults>>

CountValid(q) ==
    /\ At(q, "submit", "draft")
    /\ IF Cardinality({i \in Image : image[i] = "VALID"}) >= Slots
       THEN Go(q, "counted") ELSE End(q)
    /\ UNCHANGED <<rowVars, bucket, openUrl, judged, jobVars, cleaner, faults>>

\* The reservation's unique key lets one submission through, and its foreign
\* key none for a reading that is gone.
CommitSubmit(q) ==
    /\ At(q, "submit", "counted")
    /\ End(q)
    /\ reading' = IF reading = "DRAFT" THEN "SUBMITTED" ELSE reading
    /\ UNCHANGED <<image, expiry, deletedAt, bucket, openUrl, judged, jobVars, cleaner, faults>>

ListImages(q) ==
    /\ At(q, "remove", "draft")
    /\ req' = [req EXCEPT ![q].of = {i \in Image : HasRow(i)}, ![q].pc = "listed"]
    /\ UNCHANGED <<rowVars, bucket, openUrl, judged, jobVars, cleaner, faults>>

DeleteObjects(q) ==
    /\ At(q, "remove", "listed")
    /\ bucket' = bucket \ req[q].of
    /\ Go(q, "emptied")
    /\ UNCHANGED <<rowVars, openUrl, judged, jobVars, cleaner, faults>>

\* By id, whatever the status has become; the rows of the images go with it.
DeleteReading(q) ==
    /\ At(q, "remove", "emptied")
    /\ End(q)
    /\ reading' = "DELETED"
    /\ image' = [i \in Image |-> IF HasRow(i) THEN "DELETED" ELSE image[i]]
    /\ UNCHANGED <<expiry, deletedAt, bucket, openUrl, judged, jobVars, cleaner, faults>>

-----------------------------------------------------------------------------
\* The client and the bucket: while it lasts, a URL takes any number of uploads,
\* and each replaces the file before it, seen by the AI or not.

Upload(i) ==
    /\ i \in openUrl
    /\ bucket' = bucket \cup {i}
    /\ judged' = judged \ {i}
    /\ UNCHANGED <<rowVars, openUrl, jobVars, req, cleaner, faults>>

CloseUrl(i) ==
    /\ i \in openUrl
    /\ openUrl' = openUrl \ {i}
    /\ UNCHANGED <<rowVars, bucket, judged, jobVars, req, cleaner, faults>>

\* The retention is counted in hours from the confirmation, a URL lives five
\* minutes from before it.
RetentionEnds(i) ==
    /\ expiry[i] = "ahead" /\ i \notin openUrl
    /\ expiry' = [expiry EXCEPT ![i] = "due"]
    /\ UNCHANGED <<reading, image, deletedAt, bucket, openUrl, judged, jobVars, req, cleaner, faults>>

-----------------------------------------------------------------------------
\* PalmImageValidationProcessor

RunAt(w, pc) == run[w].pc = pc

Pick(w, i) ==
    /\ run[w] = NoRun /\ job[i].state = "waiting"
    /\ job' = [job EXCEPT ![i].state = "active"]
    /\ run' = [run EXCEPT ![w] =
                 [pc |-> "load", image |-> i, verdict |-> "INVALID", owned |-> TRUE]]
    /\ UNCHANGED <<rowVars, bucket, openUrl, judged, failing, req, cleaner, faults>>

Load(w) ==
    /\ RunAt(w, "load")
    /\ run' = [run EXCEPT ![w].pc =
                 IF image[run[w].image] = "PENDING_REVIEW" THEN "judge" ELSE "finish"]
    /\ UNCHANGED <<rowVars, bucket, openUrl, judged, job, failing, req, cleaner, faults>>

\* The object is downloaded and put before the AI, which finds a legible palm,
\* finds none, or gives up.  The verdict is on what was downloaded: an upload
\* during the call comes after this step.
Judge(w) ==
    /\ RunAt(w, "judge") /\ run[w].image \in bucket
    /\ \E verdict \in {"VALID", "INVALID"} :
         /\ run' = [run EXCEPT ![w].pc = "save", ![w].verdict = verdict]
         /\ judged' = IF verdict = "VALID" THEN judged \cup {run[w].image} ELSE judged
    /\ UNCHANGED <<rowVars, bucket, openUrl, job, failing, req, cleaner, faults>>

SaveVerdict(w) ==
    /\ RunAt(w, "save") /\ HasRow(run[w].image)
    /\ image' = [image EXCEPT ![run[w].image] = run[w].verdict]
    /\ run' = [run EXCEPT ![w].pc = "finish"]
    /\ UNCHANGED <<reading, expiry, deletedAt, bucket, openUrl, judged, job, failing, req, cleaner, faults>>

\* BullMQ takes the result of a run only from the holder of the job's lock.
Finish(w) ==
    /\ RunAt(w, "finish")
    /\ job' = IF run[w].owned THEN [job EXCEPT ![run[w].image].state = "completed"] ELSE job
    /\ run' = [run EXCEPT ![w] = NoRun]
    /\ UNCHANGED <<rowVars, bucket, openUrl, judged, failing, req, cleaner, faults>>

\* One attempt more has failed: the job waits for the next, or has failed and
\* the event reaches onFailed.
FailAttempt(i) ==
    LET last == job[i].made + 1 >= MaxAttempts IN
    /\ job' = [job EXCEPT ![i].made = @ + 1, ![i].state = IF last THEN "failed" ELSE "waiting"]
    /\ failing' = IF last THEN failing \cup {i} ELSE failing

Throw(w) ==
    /\ run[w] # NoRun /\ run[w].pc # "finish"
    /\ run' = [run EXCEPT ![w] = NoRun]
    /\ IF run[w].owned THEN FailAttempt(run[w].image) ELSE UNCHANGED <<job, failing>>
    /\ UNCHANGED <<rowVars, bucket, openUrl, judged, req, cleaner, faults>>

\* onFailed: updateMany where the status is not VALID
MarkInvalid(i) ==
    /\ i \in failing
    /\ failing' = failing \ {i}
    /\ image' = IF HasRow(i) /\ image[i] # "VALID"
                THEN [image EXCEPT ![i] = "INVALID"] ELSE image
    /\ UNCHANGED <<reading, expiry, deletedAt, bucket, openUrl, judged, job, run, req, cleaner, faults>>

\* Redis keeps the last hundred jobs that have completed or failed.
ForgetJob(i) ==
    /\ job[i].state \in {"completed", "failed"}
    /\ job' = [job EXCEPT ![i] = NoJob]
    /\ UNCHANGED <<rowVars, bucket, openUrl, judged, failing, run, req, cleaner, faults>>

-----------------------------------------------------------------------------
\* ImageCleanupProcessor, every fifteen minutes

\* Mutant: only images that passed the validation are cleaned up.
ExpiredAndValid ==
    {i \in Image : image[i] = "VALID" /\ expiry[i] = "due" /\ i \notin deletedAt}

Expired == {i \in Image : HasRow(i) /\ expiry[i] = "due" /\ i \notin deletedAt}

BeginCleanup ==
    /\ cleaner = NoCleanup
    /\ \E batch \in SUBSET Expired :
         /\ batch # {}
         /\ Cardinality(batch) = IF Cardinality(Expired) < BatchSize
                                  THEN Cardinality(Expired) ELSE BatchSize
         /\ cleaner' = [left |-> batch, now |-> {}]
    /\ UNCHANGED <<rowVars, bucket, openUrl, judged, jobVars, req, faults>>

DeleteExpired(i) ==
    /\ i \in cleaner.left /\ cleaner.now = {}
    /\ bucket' = bucket \ {i}
    /\ cleaner' = [left |-> cleaner.left \ {i}, now |-> {i}]
    /\ UNCHANGED <<rowVars, openUrl, judged, jobVars, req, faults>>

\* The update of a row that is gone throws, and the loop goes on.
MarkDeleted(i) ==
    /\ i \in cleaner.now
    /\ deletedAt' = IF HasRow(i) THEN deletedAt \cup {i} ELSE deletedAt
    /\ cleaner' = [cleaner EXCEPT !.now = {}]
    /\ UNCHANGED <<reading, image, expiry, bucket, openUrl, judged, jobVars, req, faults>>

-----------------------------------------------------------------------------
\* Faults

Fault ==
    /\ faults < MaxFaults
    /\ faults' = faults + 1

\* The API stops, or what the request calls next fails.
LoseRequest(q) ==
    /\ req[q] # NoRequest
    /\ Fault
    /\ End(q)
    /\ UNCHANGED <<rowVars, bucket, openUrl, judged, jobVars, cleaner>>

\* The deletions of a removal run in parallel: one fails, others do not.
DeleteSomeObjects(q) ==
    /\ At(q, "remove", "listed")
    /\ Fault
    /\ \E done \in SUBSET req[q].of : bucket' = bucket \ done
    /\ End(q)
    /\ UNCHANGED <<rowVars, openUrl, judged, jobVars, cleaner>>

\* Mutant: a failure of the storage does not keep the row from being marked.
FailToDeleteAndMark(i) ==
    /\ i \in cleaner.left /\ cleaner.now = {}
    /\ Fault
    /\ cleaner' = [left |-> cleaner.left \ {i}, now |-> {i}]
    /\ UNCHANGED <<rowVars, bucket, openUrl, judged, jobVars, req>>

FailToDelete(i) ==
    /\ i \in cleaner.left /\ cleaner.now = {}
    /\ Fault
    /\ cleaner' = [cleaner EXCEPT !.left = @ \ {i}]
    /\ UNCHANGED <<rowVars, bucket, openUrl, judged, jobVars, req>>

LoseCleaner ==
    /\ cleaner # NoCleanup
    /\ Fault
    /\ cleaner' = NoCleanup
    /\ UNCHANGED <<rowVars, bucket, openUrl, judged, jobVars, req>>

\* BullMQ's stalled-job check: the job waits again, or fails when that has
\* happened too often.  onFailed hears of that too, and ignores a job with
\* attempts left (palm-image-validation.processor.ts:90): the image of such a
\* job stays PENDING_REVIEW.
Stall(i) ==
    IF job[i].stalls < MaxStalled
    THEN /\ job' = [job EXCEPT ![i].stalls = @ + 1, ![i].state = "waiting"]
         /\ UNCHANGED failing
    ELSE /\ job' = [job EXCEPT ![i].made = @ + 1, ![i].state = "failed"]
         /\ failing' = IF job[i].made + 1 >= MaxAttempts THEN failing \cup {i} ELSE failing

LoseWorker(w) ==
    /\ run[w] # NoRun
    /\ Fault
    /\ run' = [run EXCEPT ![w] = NoRun]
    /\ IF run[w].owned THEN Stall(run[w].image) ELSE UNCHANGED <<job, failing>>
    /\ UNCHANGED <<rowVars, bucket, openUrl, judged, req, cleaner>>

LoseLock(w) ==
    /\ run[w] # NoRun /\ run[w].owned
    /\ Fault
    /\ run' = [run EXCEPT ![w].owned = FALSE]
    /\ Stall(run[w].image)
    /\ UNCHANGED <<rowVars, bucket, openUrl, judged, req, cleaner>>

LoseListener(i) ==
    /\ i \in failing
    /\ Fault
    /\ failing' = failing \ {i}
    /\ UNCHANGED <<rowVars, bucket, openUrl, judged, job, run, req, cleaner>>

-----------------------------------------------------------------------------
RequestStep(q) ==
    \/ CountSlots(q) \/ CreateImage(q) \/ ReadImage(q) \/ Inspect(q) \/ RejectImage(q)
    \/ AcceptImage(q) \/ EnqueueValidation(q) \/ CountValid(q) \/ CommitSubmit(q)
    \/ ListImages(q) \/ DeleteObjects(q) \/ DeleteReading(q)

RunStep(w) == Load(w) \/ Judge(w) \/ SaveVerdict(w) \/ Finish(w) \/ Throw(w)

CleanerStep == BeginCleanup \/ \E i \in Image : DeleteExpired(i) \/ MarkDeleted(i)

Next ==
    \/ \E q \in Request : BeginPresign(q) \/ BeginSubmit(q) \/ BeginRemove(q)
    \/ \E q \in Request, i \in Image : BeginConfirm(q, i)
    \/ \E q \in Request : RequestStep(q)
    \/ \E i \in Image : Upload(i) \/ CloseUrl(i) \/ RetentionEnds(i)
    \/ \E w \in Worker, i \in Image : Pick(w, i)
    \/ \E w \in Worker : RunStep(w)
    \/ \E i \in Image : MarkInvalid(i) \/ ForgetJob(i)
    \/ CleanerStep
    \/ \E q \in Request : LoseRequest(q) \/ DeleteSomeObjects(q)
    \/ \E i \in Image : FailToDelete(i) \/ LoseListener(i)
    \/ LoseCleaner
    \/ \E w \in Worker : LoseWorker(w) \/ LoseLock(w)

Spec == Init /\ [][Next]_vars

\* The cleanup is scheduled for ever, and time passes.
Fairness ==
    /\ WF_vars(CleanerStep)
    /\ \A i \in Image : WF_vars(RetentionEnds(i))

FairSpec == Spec /\ Fairness

-----------------------------------------------------------------------------
\* Properties

TypeOK ==
    /\ reading \in {"DRAFT", "SUBMITTED", "DELETED"}
    /\ image \in [Image -> Status \cup {"NONE", "DELETED"}]
    /\ expiry \in [Image -> {"null", "ahead", "due"}]
    /\ deletedAt \subseteq Image
    /\ bucket \subseteq Image /\ openUrl \subseteq Image
    /\ judged \subseteq Image
    /\ job \in [Image -> [state : JobState, made : 0..MaxAttempts, stalls : 0..MaxStalled]]
    /\ failing \subseteq Image
    /\ run \in [Worker -> Run]
    /\ req \in [Request -> Requests]
    /\ cleaner \in [left : SUBSET Image, now : SUBSET Image]
    /\ faults \in 0..MaxFaults

\* "Ese campo es en si mismo la evidencia de borrado"
\* (image-cleanup.processor.ts:16): an image marked deletedAt has no file in the
\* bucket, whatever fails between the deletion and the mark.
DeletionIsEvidence == deletedAt \cap bucket = {}

\* A file whose retention has ended does not stay: it is deleted even if the
\* storage fails for a while or the worker stops.
\* (A file whose row goes with the reading is the removal's business.)
ExpiredFilesGo ==
    \A i \in Image : HasRow(i) /\ expiry[i] = "due" /\ i \in bucket
                       ~> i \notin bucket \/ ~HasRow(i)

\* "So cascading the DB row never orphans a file in the bucket"
\* (readings.service.spec.ts:1128): a file has a row by which it can be found.
NoOrphanedObject == \A i \in bucket : HasRow(i)

\* "Debes subir y validar tus fotos de palma antes de enviar la lectura."
\* (readings.service.ts:323): the reading is submitted with as many files as its
\* service asks for that the AI has seen and found legible.  It does not hold:
\* the URL outlives the validation, and what was counted may change before the
\* transaction (readings.service.ts:317-350).
SubmittedIsLegible ==
    [][reading # "SUBMITTED" /\ reading' = "SUBMITTED"
          => Cardinality(judged \cap bucket) >= Slots]_vars

\* "imágenes de palmas se borran por defecto en 24 horas"
\* (PLAN_TECNICO_MVP_ORACULO_IA.md:730): a file that has a row, and whose upload
\* is over, has a time at which the cleanup takes it.
\* It does not hold: only a confirmation sets expiresAt, and the cleanup
\* passes over the rows without one (image-cleanup.processor.ts:48).
FilesExpire == \A i \in bucket : HasRow(i) => (expiry[i] # "null" \/ i \in openUrl)
=============================================================================
