--------------------------- MODULE PalmImagesProofs ---------------------------
(***************************************************************************)
(* Theorems of PalmImages for every set of images, requests and workers,   *)
(* every batch, and any number of attempts, stalls and faults.             *)
(***************************************************************************)
EXTENDS PalmImages, TLAPS

-----------------------------------------------------------------------------
\* The invariant

\* The part of TypeOK the arguments need: nothing of the jobs in Redis.
Typed ==
    /\ image \in [Image -> Status \cup {"NONE", "DELETED"}]
    /\ expiry \in [Image -> {"null", "ahead", "due"}]
    /\ run \in [Worker -> Run]
    /\ req \in [Request -> Requests]
    /\ cleaner \in [left : SUBSET Image, now : SUBSET Image]
    /\ deletedAt \subseteq Image

\* Images the cleanup has in hand or has marked.
Ended == cleaner.left \cup cleaner.now \cup deletedAt

\* DeletionIsEvidence is not inductive: a file is gone some steps before its mark,
\* and a presigned URL could bring it back.  No URL is open by then, nor is one
\* opened again: an id is drawn once.
Deletions ==
    /\ \A i \in Image : image[i] = "NONE" => expiry[i] = "null" /\ i \notin Ended
    /\ \A i \in Image : expiry[i] = "due" \/ i \in Ended => i \notin openUrl
    /\ (cleaner.now \cup deletedAt) \cap bucket = {}

IInv == Typed /\ Deletions

\* No image has been uploaded.
LEMMA InitiallyNoImage == Init => IInv
<1> SUFFICES ASSUME Init PROVE IInv
  OBVIOUS
<1>1. Typed
  BY DEF Init, Typed, Run, Requests, NoCleanup
<1>2. Deletions
  BY DEF Init, Deletions, Ended, NoCleanup
<1> QED
  BY <1>1, <1>2 DEF IInv

-----------------------------------------------------------------------------
\* Who writes what

\* The steps that write the status of a row.
LEMMA StatusSteps ==
    ASSUME [Next]_vars
    PROVE  \/ UNCHANGED image
           \/ \E q \in Request : \/ CreateImage(q) \/ RejectImage(q)
                                 \/ AcceptImage(q) \/ DeleteReading(q)
           \/ \E w \in Worker : SaveVerdict(w)
           \/ \E i \in Image : MarkInvalid(i)
BY DEF Next, vars, rowVars, BeginPresign, BeginSubmit, BeginRemove,
       BeginConfirm, Begin, RequestStep, CountSlots, ReadImage, Inspect, EnqueueValidation,
       CountValid, CommitSubmit, ListImages, DeleteObjects, Upload, CloseUrl, RetentionEnds,
       Pick, RunStep, Load, Judge, Finish, Throw, ForgetJob, CleanerStep, BeginCleanup,
       DeleteExpired, MarkDeleted, LoseRequest, DeleteSomeObjects, FailToDelete, LoseListener,
       LoseCleaner, LoseWorker, LoseLock

\* Those that write when its retention ends.
LEMMA ExpirySteps ==
    ASSUME [Next]_vars
    PROVE  \/ UNCHANGED expiry
           \/ \E q \in Request : AcceptImage(q)
           \/ \E i \in Image : RetentionEnds(i)
BY DEF Next, vars, rowVars, BeginPresign, BeginSubmit, BeginRemove,
       BeginConfirm, Begin, RequestStep, CountSlots, CreateImage, ReadImage, Inspect, RejectImage,
       EnqueueValidation, CountValid, CommitSubmit, ListImages, DeleteObjects, DeleteReading,
       Upload, CloseUrl, Pick, RunStep, Load, Judge, SaveVerdict, Finish, Throw, MarkInvalid,
       ForgetJob, CleanerStep, BeginCleanup, DeleteExpired, MarkDeleted, LoseRequest,
       DeleteSomeObjects, FailToDelete, LoseListener, LoseCleaner, LoseWorker, LoseLock

\* Those of the cleanup, which nothing else writes of.
LEMMA CleanupSteps ==
    ASSUME [Next]_vars
    PROVE  \/ UNCHANGED <<cleaner, deletedAt>>
           \/ BeginCleanup \/ LoseCleaner
           \/ \E i \in Image : DeleteExpired(i) \/ MarkDeleted(i) \/ FailToDelete(i)
BY DEF Next, vars, rowVars, BeginPresign, BeginSubmit, BeginRemove,
       BeginConfirm, Begin, RequestStep, CountSlots, CreateImage, ReadImage, Inspect, RejectImage,
       AcceptImage, EnqueueValidation, CountValid, CommitSubmit, ListImages, DeleteObjects,
       DeleteReading, Upload, CloseUrl, RetentionEnds, Pick, RunStep, Load, Judge, SaveVerdict,
       Finish, Throw, MarkInvalid, ForgetJob, CleanerStep, LoseRequest, DeleteSomeObjects,
       LoseListener, LoseWorker, LoseLock

\* Those of the requests.
LEMMA RequestSteps ==
    ASSUME [Next]_vars
    PROVE  \/ UNCHANGED req
           \/ \E q \in Request : \/ BeginPresign(q) \/ BeginSubmit(q) \/ BeginRemove(q)
                                 \/ \E i \in Image : BeginConfirm(q, i)
                                 \/ RequestStep(q) \/ LoseRequest(q) \/ DeleteSomeObjects(q)
BY DEF Next, vars, Upload, CloseUrl, RetentionEnds, Pick, RunStep, Load, Judge, SaveVerdict,
       Finish, Throw, MarkInvalid, ForgetJob, CleanerStep, BeginCleanup, DeleteExpired,
       MarkDeleted, FailToDelete, LoseListener, LoseCleaner, LoseWorker, LoseLock

\* Those of the runs of jobs.
LEMMA RunSteps ==
    ASSUME [Next]_vars
    PROVE  \/ UNCHANGED run
           \/ \E w \in Worker : \/ \E i \in Image : Pick(w, i)
                                \/ RunStep(w) \/ LoseWorker(w) \/ LoseLock(w)
BY DEF Next, vars, jobVars, BeginPresign, BeginSubmit, BeginRemove, BeginConfirm, Begin,
       RequestStep, CountSlots, CreateImage, ReadImage, Inspect, RejectImage, AcceptImage,
       EnqueueValidation, CountValid, CommitSubmit, ListImages, DeleteObjects, DeleteReading,
       Upload, CloseUrl, RetentionEnds, MarkInvalid, ForgetJob, CleanerStep, BeginCleanup,
       DeleteExpired, MarkDeleted, LoseRequest, DeleteSomeObjects, FailToDelete, LoseListener,
       LoseCleaner

-----------------------------------------------------------------------------
\* Types

\* A run of a job and a request that is being served are records.
LEMMA Records ==
    ASSUME Typed
    PROVE  /\ \A w \in Worker : run[w].pc # "idle" =>
                run[w] \in [pc : {"load", "judge", "save", "finish"}, image : Image,
                            verdict : {"VALID", "INVALID"}, owned : BOOLEAN]
           /\ \A q \in Request : req[q] # NoRequest =>
                req[q] \in [kind : {"presign", "confirm", "submit", "remove"}, of : SUBSET Image,
                            pc : {"draft", "counted", "read", "accept", "reject", "enqueue",
                                  "listed", "emptied"}]
BY DEF Typed, Run, NoRun, Requests

\* A step to the next point of a request, its end, and those of a run.
LEMMA RecordsStay ==
    ASSUME Typed
    PROVE  /\ \A q \in Request, r \in Requests :
                req' = [req EXCEPT ![q] = r] => req' \in [Request -> Requests]
           /\ \A q \in Request : End(q) => req' \in [Request -> Requests]
           /\ \A q \in Request, pc \in {"draft", "counted", "read", "accept", "reject", "enqueue",
                                        "listed", "emptied"} :
                req[q] # NoRequest /\ Go(q, pc) => req' \in [Request -> Requests]
           /\ \A w \in Worker, r \in Run :
                run' = [run EXCEPT ![w] = r] => run' \in [Worker -> Run]
<1>1. ASSUME NEW q \in Request, NEW r \in Requests, req' = [req EXCEPT ![q] = r]
      PROVE  req' \in [Request -> Requests]
  BY <1>1 DEF Typed
<1>2. ASSUME NEW q \in Request, End(q) PROVE req' \in [Request -> Requests]
  BY <1>1, <1>2 DEF End, Requests
<1>3. ASSUME NEW q \in Request, NEW pc \in {"draft", "counted", "read", "accept", "reject",
                                            "enqueue", "listed", "emptied"},
             req[q] # NoRequest, Go(q, pc)
      PROVE  req' \in [Request -> Requests]
  <2>1. [req[q] EXCEPT !.pc = pc] \in Requests
    BY <1>3, Records DEF Requests
  <2>2. req' = [req EXCEPT ![q] = [req[q] EXCEPT !.pc = pc]]
    BY <1>3 DEF Go, Typed
  <2> QED
    BY <1>1, <2>1, <2>2
<1>4. ASSUME NEW w \in Worker, NEW r \in Run, run' = [run EXCEPT ![w] = r]
      PROVE  run' \in [Worker -> Run]
  BY <1>4 DEF Typed
<1> QED
  BY <1>1, <1>2, <1>3, <1>4

\* Every step keeps the types: those of the requests,
LEMMA RequestsTyped ==
    ASSUME Typed, [Next]_vars
    PROVE  req' \in [Request -> Requests]
<1>1. ASSUME NEW q \in Request, NEW kind \in {"presign", "confirm", "submit", "remove"},
             NEW of \in SUBSET Image, Begin(q, kind, of)
      PROVE  req' \in [Request -> Requests]
  <2>1. [kind |-> kind, of |-> of, pc |-> "draft"] \in Requests
    BY DEF Requests
  <2> QED
    BY <1>1, <2>1, RecordsStay DEF Begin
<1>2. ASSUME NEW q \in Request, RequestStep(q), ~ListImages(q)
      PROVE  req' \in [Request -> Requests]
  BY <1>2, RecordsStay DEF RequestStep, CountSlots, CreateImage, ReadImage, Inspect, RejectImage,
     AcceptImage, EnqueueValidation, CountValid, CommitSubmit, DeleteObjects, DeleteReading, At
<1>3. ASSUME NEW q \in Request, ListImages(q)
      PROVE  req' \in [Request -> Requests]
  <2> DEFINE r == [req[q] EXCEPT !.of = {i \in Image : HasRow(i)}, !.pc = "listed"]
  <2>1. r \in Requests
    BY <1>3, Records DEF ListImages, At, Requests
  <2>2. req' = [req EXCEPT ![q] = r]
    BY <1>3 DEF ListImages, Typed
  <2> QED
    BY <2>1, <2>2, RecordsStay
<1>4. ASSUME NEW q \in Request, LoseRequest(q) \/ DeleteSomeObjects(q)
      PROVE  req' \in [Request -> Requests]
  BY <1>4, RecordsStay DEF LoseRequest, DeleteSomeObjects
<1>5. CASE UNCHANGED req
  BY <1>5 DEF Typed
<1>6. ASSUME NEW q \in Request, NEW i \in Image, BeginConfirm(q, i)
      PROVE  req' \in [Request -> Requests]
  BY <1>1, <1>6 DEF BeginConfirm
<1>7. ASSUME NEW q \in Request, BeginPresign(q) \/ BeginSubmit(q) \/ BeginRemove(q)
      PROVE  req' \in [Request -> Requests]
  BY <1>1, <1>7 DEF BeginPresign, BeginSubmit, BeginRemove
<1> QED
  BY <1>2, <1>3, <1>4, <1>5, <1>6, <1>7, RequestSteps

\* those of the runs of jobs,
LEMMA RunsTyped ==
    ASSUME Typed, [Next]_vars
    PROVE  run' \in [Worker -> Run]
<1>1. ASSUME NEW w \in Worker, NEW i \in Image, Pick(w, i) PROVE run' \in [Worker -> Run]
  <2>1. [pc |-> "load", image |-> i, verdict |-> "INVALID", owned |-> TRUE] \in Run
    BY DEF Run
  <2> QED
    BY <1>1, <2>1, RecordsStay DEF Pick
<1>2. ASSUME NEW w \in Worker, Load(w) PROVE run' \in [Worker -> Run]
  <2> DEFINE pc == IF image[run[w].image] = "PENDING_REVIEW" THEN "judge" ELSE "finish"
  <2>1. [run[w] EXCEPT !.pc = pc] \in Run
    BY <1>2, Records DEF Load, RunAt, Run
  <2>2. run' = [run EXCEPT ![w] = [run[w] EXCEPT !.pc = pc]]
    BY <1>2 DEF Load, Typed
  <2> QED
    BY <2>1, <2>2, RecordsStay
<1>3. ASSUME NEW w \in Worker, Judge(w) PROVE run' \in [Worker -> Run]
  <2>1. PICK verdict \in {"VALID", "INVALID"} :
          run' = [run EXCEPT ![w] = [run[w] EXCEPT !.pc = "save", !.verdict = verdict]]
    BY <1>3 DEF Judge, Typed
  <2>2. [run[w] EXCEPT !.pc = "save", !.verdict = verdict] \in Run
    BY <1>3, Records DEF Judge, RunAt, Run
  <2> QED
    BY <2>1, <2>2, RecordsStay
<1>4. ASSUME NEW w \in Worker, SaveVerdict(w) PROVE run' \in [Worker -> Run]
  <2>1. [run[w] EXCEPT !.pc = "finish"] \in Run
    BY <1>4, Records DEF SaveVerdict, RunAt, Run
  <2>2. run' = [run EXCEPT ![w] = [run[w] EXCEPT !.pc = "finish"]]
    BY <1>4 DEF SaveVerdict, Typed
  <2> QED
    BY <2>1, <2>2, RecordsStay
<1>5. ASSUME NEW w \in Worker, LoseLock(w) PROVE run' \in [Worker -> Run]
  <2>1. [run[w] EXCEPT !.owned = FALSE] \in Run
    BY <1>5 DEF LoseLock, Typed, Run
  <2>2. run' = [run EXCEPT ![w] = [run[w] EXCEPT !.owned = FALSE]]
    BY <1>5 DEF LoseLock, Typed
  <2> QED
    BY <2>1, <2>2, RecordsStay
<1>6. ASSUME NEW w \in Worker, Finish(w) \/ Throw(w) \/ LoseWorker(w)
      PROVE  run' \in [Worker -> Run]
  BY <1>6, RecordsStay DEF Finish, Throw, LoseWorker, Run
<1>7. CASE UNCHANGED run
  BY <1>7 DEF Typed
<1> QED
  BY <1>1, <1>2, <1>3, <1>4, <1>5, <1>6, <1>7, RunSteps DEF RunStep

\* and those of the rows and the cleanup.
LEMMA RowsTyped ==
    ASSUME Typed, [Next]_vars
    PROVE  /\ image' \in [Image -> Status \cup {"NONE", "DELETED"}]
           /\ expiry' \in [Image -> {"null", "ahead", "due"}]
           /\ cleaner' \in [left : SUBSET Image, now : SUBSET Image]
           /\ deletedAt' \subseteq Image
<1>1. image' \in [Image -> Status \cup {"NONE", "DELETED"}]
  <2>1. ASSUME NEW q \in Request,
               CreateImage(q) \/ RejectImage(q) \/ AcceptImage(q) \/ DeleteReading(q)
        PROVE  image' \in [Image -> Status \cup {"NONE", "DELETED"}]
    BY <2>1 DEF CreateImage, RejectImage, AcceptImage, DeleteReading, Typed, Status
  <2>2. ASSUME NEW w \in Worker, SaveVerdict(w)
        PROVE  image' \in [Image -> Status \cup {"NONE", "DELETED"}]
    <3>1. run[w].verdict \in Status
      BY <2>2, Records DEF SaveVerdict, RunAt, Status
    <3> QED
      BY <2>2, <3>1 DEF SaveVerdict, Typed
  <2>3. ASSUME NEW i \in Image, MarkInvalid(i)
        PROVE  image' \in [Image -> Status \cup {"NONE", "DELETED"}]
    BY <2>3 DEF MarkInvalid, Typed, Status
  <2>4. CASE UNCHANGED image
    BY <2>4 DEF Typed
  <2> QED
    BY <2>1, <2>2, <2>3, <2>4, StatusSteps
<1>2. expiry' \in [Image -> {"null", "ahead", "due"}]
  <2>1. ASSUME NEW q \in Request, AcceptImage(q)
        PROVE  expiry' \in [Image -> {"null", "ahead", "due"}]
    BY <2>1 DEF AcceptImage, Typed
  <2>2. ASSUME NEW i \in Image, RetentionEnds(i)
        PROVE  expiry' \in [Image -> {"null", "ahead", "due"}]
    BY <2>2 DEF RetentionEnds, Typed
  <2>3. CASE UNCHANGED expiry
    BY <2>3 DEF Typed
  <2> QED
    BY <2>1, <2>2, <2>3, ExpirySteps
<1>3. /\ cleaner' \in [left : SUBSET Image, now : SUBSET Image]
      /\ deletedAt' \subseteq Image
  <2>1. CASE BeginCleanup
    BY <2>1 DEF BeginCleanup, Expired, rowVars, Typed
  <2>2. ASSUME NEW i \in Image, DeleteExpired(i) \/ MarkDeleted(i) \/ FailToDelete(i)
        PROVE  /\ cleaner' \in [left : SUBSET Image, now : SUBSET Image]
               /\ deletedAt' \subseteq Image
    BY <2>2 DEF DeleteExpired, MarkDeleted, FailToDelete, rowVars, Typed
  <2>3. CASE LoseCleaner
    BY <2>3 DEF LoseCleaner, NoCleanup, rowVars, Typed
  <2>4. CASE UNCHANGED <<cleaner, deletedAt>>
    BY <2>4 DEF Typed
  <2> QED
    BY <2>1, <2>2, <2>3, <2>4, CleanupSteps
<1> QED
  BY <1>1, <1>2, <1>3

\* All of them.
LEMMA TypesPreserved ==
    ASSUME Typed, [Next]_vars
    PROVE  Typed'
BY RequestsTyped, RunsTyped, RowsTyped DEF Typed

-----------------------------------------------------------------------------
\* Deletions

\* What the cleanup has in hand or has marked was due when it was picked.
LEMMA EndedByTime ==
    ASSUME Typed, [Next]_vars
    PROVE  Ended' \subseteq Ended \cup Expired
<1>1. CASE BeginCleanup
  BY <1>1 DEF BeginCleanup, Ended, rowVars
<1>2. ASSUME NEW i \in Image, DeleteExpired(i) \/ MarkDeleted(i) \/ FailToDelete(i)
      PROVE  Ended' \subseteq Ended
  BY <1>2 DEF DeleteExpired, MarkDeleted, FailToDelete, Ended, rowVars, Typed
<1>3. CASE LoseCleaner \/ UNCHANGED <<cleaner, deletedAt>>
  BY <1>3 DEF LoseCleaner, NoCleanup, Ended, rowVars
<1> QED
  BY <1>1, <1>2, <1>3, CleanupSteps

\* What is due was, or its retention ends, which no open URL outlasts.
LEMMA DueByTime ==
    ASSUME Typed, [Next]_vars, NEW i \in Image, expiry'[i] = "due"
    PROVE  expiry[i] = "due" \/ (expiry[i] = "ahead" /\ i \notin openUrl')
<1>1. ASSUME NEW q \in Request, AcceptImage(q) PROVE expiry[i] = "due"
  BY <1>1 DEF AcceptImage, Typed
<1>2. ASSUME NEW j \in Image, RetentionEnds(j)
      PROVE  expiry[i] = "due" \/ (expiry[i] = "ahead" /\ i \notin openUrl')
  BY <1>2 DEF RetentionEnds, Typed
<1> QED
  BY <1>1, <1>2, ExpirySteps

\* A URL is opened for a new id, and what is uploaded has an open URL.
LEMMA UploadsByUrl ==
    ASSUME [Next]_vars
    PROVE  /\ openUrl' \subseteq openUrl \cup {i \in Image : image[i] = "NONE"}
           /\ bucket' \subseteq bucket \cup openUrl
BY DEF Next, vars, rowVars, BeginPresign, BeginSubmit, BeginRemove, BeginConfirm, Begin,
       RequestStep, CountSlots, CreateImage, ReadImage, Inspect, RejectImage, AcceptImage,
       EnqueueValidation, CountValid, CommitSubmit, ListImages, DeleteObjects, DeleteReading,
       Upload, CloseUrl, RetentionEnds, Pick, RunStep, Load, Judge, SaveVerdict, Finish, Throw,
       MarkInvalid, ForgetJob, CleanerStep, BeginCleanup, DeleteExpired, MarkDeleted, LoseRequest,
       DeleteSomeObjects, FailToDelete, LoseListener, LoseCleaner, LoseWorker, LoseLock

\* The cleanup deletes a file before it marks its image.
LEMMA DeletedBeforeMarked ==
    ASSUME Typed, [Next]_vars
    PROVE  (cleaner.now \cup deletedAt)' \cap bucket' \subseteq cleaner.now \cup deletedAt
<1>1. CASE BeginCleanup
  BY <1>1 DEF BeginCleanup, rowVars
<1>2. ASSUME NEW i \in Image, DeleteExpired(i) \/ MarkDeleted(i) \/ FailToDelete(i)
      PROVE  (cleaner.now \cup deletedAt)' \cap bucket' \subseteq cleaner.now \cup deletedAt
  BY <1>2 DEF DeleteExpired, MarkDeleted, FailToDelete, rowVars, Typed
<1>3. CASE LoseCleaner \/ UNCHANGED <<cleaner, deletedAt>>
  BY <1>3 DEF LoseCleaner, NoCleanup, rowVars
<1> QED
  BY <1>1, <1>2, <1>3, CleanupSteps

\* An id is not drawn twice, and what has an end has had a row.
LEMMA EndsAreOfRows ==
    ASSUME Typed, Deletions, [Next]_vars, NEW i \in Image, image'[i] = "NONE"
    PROVE  image[i] = "NONE" /\ expiry'[i] = "null" /\ i \notin Ended'
<1>1. image[i] = "NONE"
  <2>1. ASSUME NEW q \in Request,
               CreateImage(q) \/ RejectImage(q) \/ AcceptImage(q) \/ DeleteReading(q)
        PROVE  image[i] = "NONE"
    <3>1. CASE CreateImage(q)
      BY <3>1 DEF CreateImage, Typed
    <3>2. CASE RejectImage(q)
      BY <3>2 DEF RejectImage, Typed
    <3>3. CASE AcceptImage(q)
      BY <3>3 DEF AcceptImage, Typed
    <3>4. CASE DeleteReading(q)
      BY <3>4 DEF DeleteReading, Typed
    <3> QED
      BY <2>1, <3>1, <3>2, <3>3, <3>4
  <2>2. ASSUME NEW w \in Worker, SaveVerdict(w) PROVE image[i] = "NONE"
    <3>1. run[w].verdict # "NONE"
      BY <2>2, Records DEF SaveVerdict, RunAt
    <3> QED
      BY <2>2, <3>1 DEF SaveVerdict, Typed
  <2>3. ASSUME NEW j \in Image, MarkInvalid(j) PROVE image[i] = "NONE"
    BY <2>3 DEF MarkInvalid, Typed
  <2> QED
    BY <2>1, <2>2, <2>3, StatusSteps
<1>2. expiry[i] = "null" /\ i \notin Ended
  BY <1>1 DEF Deletions
<1>3. expiry'[i] = "null"
  <2>1. ASSUME NEW q \in Request, AcceptImage(q) PROVE expiry'[i] = "null"
    BY <1>1, <1>2, <2>1 DEF AcceptImage, HasRow, Status, Typed
  <2>2. ASSUME NEW j \in Image, RetentionEnds(j) PROVE expiry'[i] = "null"
    BY <1>2, <2>2 DEF RetentionEnds, Typed
  <2>3. CASE UNCHANGED expiry
    BY <1>2, <2>3
  <2> QED
    BY <2>1, <2>2, <2>3, ExpirySteps
<1>4. i \notin Ended'
  BY <1>1, <1>2, EndedByTime DEF Expired, HasRow, Status
<1> QED
  BY <1>1, <1>3, <1>4

\* Every step keeps what is known of the deletions.
LEMMA DeletionsPreserved ==
    ASSUME Typed, Deletions, [Next]_vars
    PROVE  Deletions'
<1>1. \A i \in Image : image'[i] = "NONE" => expiry'[i] = "null" /\ i \notin Ended'
  BY EndsAreOfRows
<1>2. ASSUME NEW i \in Image, expiry'[i] = "due" \/ i \in Ended', i \in openUrl'
      PROVE  FALSE
  <2>1. i \in openUrl \/ image[i] = "NONE"
    BY <1>2, UploadsByUrl
  <2>2. expiry[i] = "due" \/ i \in Ended
    BY <1>2, DueByTime, EndedByTime DEF Expired
  <2> QED
    BY <2>1, <2>2 DEF Deletions
<1>3. (cleaner.now \cup deletedAt)' \cap bucket' = {}
  <2> SUFFICES ASSUME NEW i \in cleaner.now \cup deletedAt, i \in bucket' PROVE FALSE
    BY DeletedBeforeMarked
  <2>1. i \in Image /\ i \in Ended
    BY DEF Ended, Typed
  <2>2. i \in openUrl
    BY UploadsByUrl DEF Deletions
  <2> QED
    BY <2>1, <2>2 DEF Deletions
<1> QED
  BY <1>1, <1>2, <1>3 DEF Deletions

\* Every reachable state satisfies the invariant.
LEMMA AlwaysInvariant == Spec => []IInv
<1>1. Init => IInv
  BY InitiallyNoImage
<1>2. IInv /\ [Next]_vars => IInv'
  BY TypesPreserved, DeletionsPreserved DEF IInv
<1> QED
  BY <1>1, <1>2, PTL DEF Spec

-----------------------------------------------------------------------------
\* The jobs in Redis

\* An attempt is counted by the run that holds the job's lock.  One run holds it at
\* most, a run that has lost it counts nothing, and a job is not picked again after
\* its last attempt.
Owns(w, i) == run[w] # NoRun /\ run[w].image = i /\ run[w].owned

Attempts ==
    /\ job \in [Image -> [state : JobState, made : 0..MaxAttempts, stalls : 0..MaxStalled]]
    /\ \A i \in Image : job[i].state \in {"waiting", "active"} => job[i].made < MaxAttempts
    /\ \A w \in Worker, i \in Image : Owns(w, i) => job[i].state = "active"
    /\ \A w, v \in Worker, i \in Image : Owns(w, i) /\ Owns(v, i) => w = v

\* A job changes, and is not active; no run comes to own one.
LEMMA JobPreserves ==
    ASSUME Typed, Attempts, NEW i \in Image,
           NEW j \in [state : JobState, made : 0..MaxAttempts, stalls : 0..MaxStalled],
           j.state # "active", j.state = "waiting" => j.made < MaxAttempts,
           job' = [job EXCEPT ![i] = j],
           \A w \in Worker : ~Owns(w, i)',
           \A w \in Worker, k \in Image : Owns(w, k)' => Owns(w, k)
    PROVE  Attempts'
<1>1. job' \in [Image -> [state : JobState, made : 0..MaxAttempts, stalls : 0..MaxStalled]]
  BY DEF Attempts
<1>2. \A k \in Image : job'[k] = IF k = i THEN j ELSE job[k]
  BY DEF Attempts
<1>3. \A k \in Image : job'[k].state \in {"waiting", "active"} => job'[k].made < MaxAttempts
  BY <1>2 DEF Attempts
<1>4. \A w \in Worker, k \in Image : Owns(w, k)' => job'[k].state = "active"
  BY <1>2 DEF Attempts
<1>5. \A w, v \in Worker, k \in Image : Owns(w, k)' /\ Owns(v, k)' => w = v
  BY DEF Attempts
<1> QED
  BY <1>1, <1>3, <1>4, <1>5 DEF Attempts

\* What the owner of a job does to it when its attempt fails or stalls.
LEMMA OwnerCounts ==
    ASSUME Typed, Attempts, NEW w \in Worker, NEW i \in Image, Owns(w, i),
           FailAttempt(i) \/ Stall(i),
           \A v \in Worker : ~Owns(v, i)',
           \A v \in Worker, k \in Image : Owns(v, k)' => Owns(v, k)
    PROVE  Attempts'
<1>1. /\ job[i] \in [state : JobState, made : 0..MaxAttempts, stalls : 0..MaxStalled]
      /\ job[i].state = "active" /\ job[i].made < MaxAttempts
      /\ job[i].made \in Nat /\ job[i].stalls \in Nat
      /\ MaxAttempts \in Nat /\ MaxStalled \in Nat
  BY QueueAssumption DEF Attempts
<1> DEFINE Jobs == [state : JobState, made : 0..MaxAttempts, stalls : 0..MaxStalled]
<1>2. CASE FailAttempt(i)
  <2> DEFINE s == IF job[i].made + 1 >= MaxAttempts THEN "failed" ELSE "waiting"
             j == [job[i] EXCEPT !.made = @ + 1, !.state = s]
  <2>1. job' = [job EXCEPT ![i] = j]
    BY <1>2 DEF FailAttempt, Attempts
  <2>2. s \in JobState /\ job[i].made + 1 \in 0..MaxAttempts
    BY <1>1 DEF JobState
  <2>3. j \in Jobs
    BY <1>1, <2>2
  <2>4. j.state # "active" /\ (j.state = "waiting" => j.made < MaxAttempts)
    BY <1>1
  <2> HIDE DEF j, s
  <2> QED
    BY <2>1, <2>3, <2>4, JobPreserves
<1>3. CASE Stall(i)
  <2>1. CASE job[i].stalls < MaxStalled
    <3> DEFINE j == [job[i] EXCEPT !.stalls = @ + 1, !.state = "waiting"]
    <3>1. job' = [job EXCEPT ![i] = j]
      BY <1>3, <2>1 DEF Stall, Attempts
    <3>2. job[i].stalls + 1 \in 0..MaxStalled
      BY <1>1, <2>1
    <3>3. j \in Jobs /\ j.state = "waiting" /\ j.made = job[i].made
      BY <1>1, <3>2 DEF JobState
    <3> HIDE DEF j
    <3> QED
      BY <1>1, <3>1, <3>3, JobPreserves
  <2>2. CASE ~ (job[i].stalls < MaxStalled)
    <3> DEFINE j == [job[i] EXCEPT !.made = @ + 1, !.state = "failed"]
    <3>1. job' = [job EXCEPT ![i] = j]
      BY <1>3, <2>2 DEF Stall, Attempts
    <3>2. job[i].made + 1 \in 0..MaxAttempts
      BY <1>1
    <3>3. j \in Jobs /\ j.state = "failed"
      BY <1>1, <3>2 DEF JobState
    <3> HIDE DEF j
    <3> QED
      BY <3>1, <3>3, JobPreserves
  <2> QED
    BY <2>1, <2>2
<1> QED
  BY <1>2, <1>3

\* A run that goes on, or that ends, owns no more than it did.
LEMMA OwnersStay ==
    ASSUME Typed, Attempts, UNCHANGED job,
           \A w \in Worker, k \in Image : Owns(w, k)' => Owns(w, k)
    PROVE  Attempts'
BY DEF Attempts

\* Every step keeps the count of attempts.
LEMMA AttemptsPreserved ==
    ASSUME Typed, Attempts, [Next]_vars
    PROVE  Attempts'
<1> USE DEF Typed
<1>1. CASE UNCHANGED <<job, run>>
  BY <1>1, OwnersStay DEF Owns
<1>2. ASSUME NEW w \in Worker, NEW i \in Image, Pick(w, i) PROVE Attempts'
  <2> DEFINE r == [pc |-> "load", image |-> i, verdict |-> "INVALID", owned |-> TRUE]
  <2>1. run' = [run EXCEPT ![w] = r] /\ run[w] = NoRun
        /\ job[i].state = "waiting" /\ job' = [job EXCEPT ![i] = [job[i] EXCEPT !.state = "active"]]
    BY <1>2 DEF Pick, Attempts
  <2>2. \A v \in Worker : ~Owns(v, i)
    BY <2>1 DEF Attempts
  <2>3. \A v \in Worker, k \in Image : Owns(v, k)' => Owns(v, k) \/ (v = w /\ k = i)
    BY <2>1 DEF Owns
  <2>4. job[i] \in [state : JobState, made : 0..MaxAttempts, stalls : 0..MaxStalled]
    BY DEF Attempts
  <2>5. /\ [job[i] EXCEPT !.state = "active"]
             \in [state : JobState, made : 0..MaxAttempts, stalls : 0..MaxStalled]
        /\ [job[i] EXCEPT !.state = "active"].made = job[i].made
        /\ [job[i] EXCEPT !.state = "active"].state = "active"
    BY <2>4 DEF JobState
  <2>6. \A k \in Image : job'[k] = IF k = i THEN [job[i] EXCEPT !.state = "active"] ELSE job[k]
    BY <2>1 DEF Attempts
  <2>7. job' \in [Image -> [state : JobState, made : 0..MaxAttempts, stalls : 0..MaxStalled]]
    BY <2>1, <2>5 DEF Attempts
  <2>8. \A k \in Image : job'[k].state \in {"waiting", "active"} => job'[k].made < MaxAttempts
    BY <2>1, <2>5, <2>6 DEF Attempts
  <2>9. \A v \in Worker, k \in Image : Owns(v, k)' => job'[k].state = "active"
    BY <2>3, <2>5, <2>6 DEF Attempts
  <2>10. \A v, u \in Worker, k \in Image : Owns(v, k)' /\ Owns(u, k)' => v = u
    BY <2>2, <2>3 DEF Attempts
  <2> QED
    BY <2>7, <2>8, <2>9, <2>10 DEF Attempts
<1>3. ASSUME NEW w \in Worker, Load(w) \/ Judge(w) \/ SaveVerdict(w) PROVE Attempts'
  <2>1. run[w] \in [pc : {"load", "judge", "save", "finish"}, image : Image,
                    verdict : {"VALID", "INVALID"}, owned : BOOLEAN]
    BY <1>3, Records DEF Load, Judge, SaveVerdict, RunAt
  <2>2. UNCHANGED job
    BY <1>3 DEF Load, Judge, SaveVerdict
  <2>3. \A v \in Worker, k \in Image : Owns(v, k)' => Owns(v, k)
    BY <1>3, <2>1 DEF Load, Judge, SaveVerdict, Owns, NoRun
  <2> QED
    BY <2>2, <2>3, OwnersStay
<1>4. ASSUME NEW w \in Worker, run[w] # NoRun, run' = [run EXCEPT ![w] = NoRun]
      PROVE  /\ run[w].image \in Image
             /\ \A v \in Worker, k \in Image : Owns(v, k)' => Owns(v, k) /\ v # w
             /\ \A i \in Image : run[w].owned /\ i = run[w].image => \A v \in Worker : ~Owns(v, i)'
  <2>1. run[w] \in [pc : {"load", "judge", "save", "finish"}, image : Image,
                    verdict : {"VALID", "INVALID"}, owned : BOOLEAN]
    BY <1>4 DEF Run
  <2>2. \A v \in Worker, k \in Image : Owns(v, k)' => Owns(v, k) /\ v # w
    BY <1>4 DEF Owns
  <2> QED
    BY <1>4, <2>1, <2>2 DEF Attempts, Owns
<1>5. ASSUME NEW w \in Worker, Finish(w) PROVE Attempts'
  <2>1. run[w] # NoRun /\ run' = [run EXCEPT ![w] = NoRun]
    BY <1>5 DEF Finish, RunAt, NoRun
  <2>2. CASE run[w].owned
    <3>0. PICK i \in Image : i = run[w].image
      BY <1>4, <2>1
    <3> DEFINE j == [job[i] EXCEPT !.state = "completed"]
    <3>1. job' = [job EXCEPT ![i] = j]
      BY <1>5, <2>2, <3>0 DEF Finish, Attempts
    <3>2. j \in [state : JobState, made : 0..MaxAttempts, stalls : 0..MaxStalled]
          /\ j.state = "completed"
      BY <3>1 DEF Attempts, JobState
    <3> HIDE DEF j
    <3> QED
      BY <1>4, <2>1, <2>2, <3>0, <3>1, <3>2, JobPreserves
  <2>3. CASE ~ run[w].owned
    BY <1>4, <1>5, <2>1, <2>3, OwnersStay DEF Finish
  <2> QED
    BY <2>2, <2>3
<1>6. ASSUME NEW w \in Worker, Throw(w) \/ LoseWorker(w) PROVE Attempts'
  <2>1. run[w] # NoRun /\ run' = [run EXCEPT ![w] = NoRun]
    BY <1>6 DEF Throw, LoseWorker
  <2>2. CASE run[w].owned
    <3>1. PICK i \in Image : i = run[w].image
      BY <1>4, <2>1
    <3>2. FailAttempt(i) \/ Stall(i)
      BY <1>6, <2>2, <3>1 DEF Throw, LoseWorker
    <3>3. Owns(w, i)
      BY <2>1, <2>2, <3>1 DEF Owns
    <3> QED
      BY <1>4, <2>1, <2>2, <3>1, <3>2, <3>3, OwnerCounts
  <2>3. CASE ~ run[w].owned
    BY <1>4, <1>6, <2>1, <2>3, OwnersStay DEF Throw, LoseWorker
  <2> QED
    BY <2>2, <2>3
<1>7. ASSUME NEW w \in Worker, LoseLock(w) PROVE Attempts'
  <2>1. /\ run[w] # NoRun /\ run[w].owned /\ Stall(run[w].image)
        /\ run' = [run EXCEPT ![w] = [run[w] EXCEPT !.owned = FALSE]]
    BY <1>7 DEF LoseLock
  <2>2. run[w] \in [pc : {"load", "judge", "save", "finish"}, image : Image,
                    verdict : {"VALID", "INVALID"}, owned : BOOLEAN]
    BY <2>1 DEF Run
  <2>3. PICK i \in Image : i = run[w].image
    BY <2>2
  <2>4. Owns(w, i)
    BY <2>1, <2>3 DEF Owns
  <2>5. \A v \in Worker, k \in Image : Owns(v, k)' => Owns(v, k) /\ v # w
    BY <2>1, <2>2 DEF Owns
  <2>6. \A v \in Worker : ~Owns(v, i)'
    BY <2>4, <2>5 DEF Attempts
  <2> QED
    BY <2>1, <2>3, <2>4, <2>5, <2>6, OwnerCounts
<1>8. ASSUME NEW i \in Image, NEW j, job' = [job EXCEPT ![i] = j], UNCHANGED run,
             j \in [state : JobState, made : 0..MaxAttempts, stalls : 0..MaxStalled],
             j.state # "active", j.state = "waiting" => j.made < MaxAttempts,
             job[i].state # "active"
      PROVE  Attempts'
  <2>1. \A w \in Worker, k \in Image : Owns(w, k)' <=> Owns(w, k)
    BY <1>8 DEF Owns
  <2>2. \A w \in Worker : ~Owns(w, i)
    BY <1>8 DEF Attempts
  <2> QED
    BY <1>8, <2>1, <2>2, JobPreserves
<1>9. NoJob \in [state : JobState, made : 0..MaxAttempts, stalls : 0..MaxStalled]
      /\ [NoJob EXCEPT !.state = "waiting"]
           \in [state : JobState, made : 0..MaxAttempts, stalls : 0..MaxStalled]
      /\ [NoJob EXCEPT !.state = "waiting"].made < MaxAttempts
  BY QueueAssumption DEF NoJob, JobState
<1>10. ASSUME NEW i \in Image, ForgetJob(i) PROVE Attempts'
  <2>1. job' = [job EXCEPT ![i] = NoJob] /\ UNCHANGED run /\ job[i].state # "active"
    BY <1>10 DEF ForgetJob
  <2>2. NoJob.state = "absent"
    BY DEF NoJob
  <2> QED
    BY <1>8, <1>9, <2>1, <2>2
<1>11. ASSUME NEW q \in Request, EnqueueValidation(q) PROVE Attempts'
  <2> DEFINE new == [NoJob EXCEPT !.state = "waiting"]
  <2>1. UNCHANGED run
    BY <1>11 DEF EnqueueValidation
  <2>2. \A k \in Image : job'[k] = job[k] \/ (job[k] = NoJob /\ job'[k] = new)
    BY <1>11 DEF EnqueueValidation
  <2>3. job' \in [Image -> [state : JobState, made : 0..MaxAttempts, stalls : 0..MaxStalled]]
    <3>1. job' = [k \in Image |-> IF k \in req[q].of /\ job[k] = NoJob THEN new ELSE job[k]]
      BY <1>11 DEF EnqueueValidation
    <3> QED
      BY <1>9, <3>1 DEF Attempts
  <2>4. \A k \in Image : job'[k].state \in {"waiting", "active"} => job'[k].made < MaxAttempts
    BY <1>9, <2>2 DEF Attempts
  <2>5. \A w \in Worker, k \in Image : Owns(w, k)' <=> Owns(w, k)
    BY <2>1 DEF Owns
  <2>6. \A k \in Image : job[k].state = "active" => job'[k].state = "active"
    BY <2>2 DEF NoJob
  <2> QED
    BY <2>3, <2>4, <2>5, <2>6 DEF Attempts
<1> HIDE DEF Typed
<1>12. \/ UNCHANGED <<job, run>>
       \/ \E w \in Worker : \/ \E i \in Image : Pick(w, i)
                            \/ Load(w) \/ Judge(w) \/ SaveVerdict(w) \/ Finish(w) \/ Throw(w)
                            \/ LoseWorker(w) \/ LoseLock(w)
       \/ \E i \in Image : ForgetJob(i)
       \/ \E q \in Request : EnqueueValidation(q)
  BY DEF Next, vars, jobVars, BeginPresign, BeginSubmit, BeginRemove, BeginConfirm, Begin,
     RequestStep, CountSlots, CreateImage, ReadImage, Inspect, RejectImage, AcceptImage,
     CountValid, CommitSubmit, ListImages, DeleteObjects, DeleteReading, Upload, CloseUrl,
     RetentionEnds, RunStep, MarkInvalid, CleanerStep, BeginCleanup, DeleteExpired,
     MarkDeleted, LoseRequest, DeleteSomeObjects, FailToDelete, LoseListener, LoseCleaner
<1> QED
  BY <1>1, <1>2, <1>3, <1>5, <1>6, <1>7, <1>10, <1>11, <1>12

\* The sets of images are sets of images, and the counters stay in bounds.
Sets ==
    /\ reading \in {"DRAFT", "SUBMITTED", "DELETED"}
    /\ bucket \subseteq Image /\ openUrl \subseteq Image /\ judged \subseteq Image
    /\ failing \subseteq Image
    /\ faults \in 0..MaxFaults

\* Every step keeps them so.
LEMMA SetsPreserved ==
    ASSUME Typed, Sets, [Next]_vars
    PROVE  Sets'
<1>1. reading' \in {"DRAFT", "SUBMITTED", "DELETED"}
  <2>1. reading' = reading \/ reading' \in {"SUBMITTED", "DELETED"}
    BY DEF Next, vars, rowVars, BeginPresign, BeginSubmit, BeginRemove, BeginConfirm, Begin,
       RequestStep, CountSlots, CreateImage, ReadImage, Inspect, RejectImage, AcceptImage,
       EnqueueValidation, CountValid, CommitSubmit, ListImages, DeleteObjects, DeleteReading,
       Upload, CloseUrl, RetentionEnds, Pick, RunStep, Load, Judge, SaveVerdict, Finish, Throw,
       MarkInvalid, ForgetJob, CleanerStep, BeginCleanup, DeleteExpired, MarkDeleted, LoseRequest,
       DeleteSomeObjects, FailToDelete, LoseListener, LoseCleaner, LoseWorker, LoseLock
  <2> QED
    BY <2>1 DEF Sets
<1>2. openUrl' \subseteq Image
  <2>1. openUrl' \subseteq openUrl \/ \E i \in Image : openUrl' = openUrl \cup {i}
    BY DEF Next, vars, rowVars, BeginPresign, BeginSubmit, BeginRemove, BeginConfirm, Begin,
       RequestStep, CountSlots, CreateImage, ReadImage, Inspect, RejectImage, AcceptImage,
       EnqueueValidation, CountValid, CommitSubmit, ListImages, DeleteObjects, DeleteReading,
       Upload, CloseUrl, RetentionEnds, Pick, RunStep, Load, Judge, SaveVerdict, Finish, Throw,
       MarkInvalid, ForgetJob, CleanerStep, BeginCleanup, DeleteExpired, MarkDeleted, LoseRequest,
       DeleteSomeObjects, FailToDelete, LoseListener, LoseCleaner, LoseWorker, LoseLock
  <2> QED
    BY <2>1 DEF Sets
<1>3. bucket' \subseteq Image
  <2>1. bucket' \subseteq bucket \cup openUrl
    BY UploadsByUrl
  <2> QED
    BY <2>1 DEF Sets
<1>4. judged' \subseteq Image
  <2>1. judged' \subseteq judged \/ \E w \in Worker : Judge(w)
    BY DEF Next, vars, rowVars, BeginPresign, BeginSubmit, BeginRemove, BeginConfirm, Begin,
       RequestStep, CountSlots, CreateImage, ReadImage, Inspect, RejectImage, AcceptImage,
       EnqueueValidation, CountValid, CommitSubmit, ListImages, DeleteObjects, DeleteReading,
       Upload, CloseUrl, RetentionEnds, Pick, RunStep, Load, SaveVerdict, Finish, Throw,
       MarkInvalid, ForgetJob, CleanerStep, BeginCleanup, DeleteExpired, MarkDeleted, LoseRequest,
       DeleteSomeObjects, FailToDelete, LoseListener, LoseCleaner, LoseWorker, LoseLock
  <2>2. \A w \in Worker : Judge(w) => judged' \subseteq judged \cup bucket
    BY DEF Judge
  <2> QED
    BY <2>1, <2>2 DEF Sets
<1>5. failing' \subseteq Image
  <2>1. \/ failing' \subseteq failing
        \/ \E w \in Worker : Throw(w) \/ LoseWorker(w) \/ LoseLock(w)
    BY DEF Next, vars, jobVars, BeginPresign, BeginSubmit, BeginRemove, BeginConfirm, Begin,
       RequestStep, CountSlots, CreateImage, ReadImage, Inspect, RejectImage, AcceptImage,
       EnqueueValidation, CountValid, CommitSubmit, ListImages, DeleteObjects, DeleteReading,
       Upload, CloseUrl, RetentionEnds, Pick, RunStep, Load, Judge, SaveVerdict, Finish,
       MarkInvalid, ForgetJob, CleanerStep, BeginCleanup, DeleteExpired, MarkDeleted, LoseRequest,
       DeleteSomeObjects, FailToDelete, LoseListener, LoseCleaner
  <2>2. ASSUME NEW w \in Worker, Throw(w) \/ LoseWorker(w) \/ LoseLock(w)
        PROVE  failing' \subseteq failing \cup {run[w].image} /\ run[w].image \in Image
    <3>1. run[w] # NoRun
      BY <2>2 DEF Throw, LoseWorker, LoseLock
    <3>2. run[w].image \in Image
      BY <3>1 DEF Typed, Run
    <3>3. failing' \subseteq failing \cup {run[w].image}
      BY <2>2 DEF Throw, LoseWorker, LoseLock, FailAttempt, Stall
    <3> QED
      BY <3>2, <3>3
  <2> QED
    BY <2>1, <2>2 DEF Sets
<1>6. faults' \in 0..MaxFaults
  <2>1. UNCHANGED faults \/ Fault
    BY DEF Next, vars, rowVars, BeginPresign, BeginSubmit, BeginRemove, BeginConfirm, Begin,
       RequestStep, CountSlots, CreateImage, ReadImage, Inspect, RejectImage, AcceptImage,
       EnqueueValidation, CountValid, CommitSubmit, ListImages, DeleteObjects, DeleteReading,
       Upload, CloseUrl, RetentionEnds, Pick, RunStep, Load, Judge, SaveVerdict, Finish, Throw,
       MarkInvalid, ForgetJob, CleanerStep, BeginCleanup, DeleteExpired, MarkDeleted, LoseRequest,
       DeleteSomeObjects, FailToDelete, LoseListener, LoseCleaner, LoseWorker, LoseLock
  <2> QED
    BY <2>1, FaultsAssumption DEF Sets, Fault
<1> QED
  BY <1>1, <1>2, <1>3, <1>4, <1>5, <1>6 DEF Sets

\* Every reachable state counts attempts within their bound.
LEMMA AlwaysCounted == Spec => [](Typed /\ Attempts /\ Sets)
<1>1. Init => Typed /\ Attempts /\ Sets
  <2> SUFFICES ASSUME Init PROVE Typed /\ Attempts /\ Sets
    OBVIOUS
  <2>1. Typed
    BY InitiallyNoImage DEF IInv
  <2>2. NoJob \in [state : JobState, made : 0..MaxAttempts, stalls : 0..MaxStalled]
        /\ NoJob.state = "absent"
    BY QueueAssumption DEF NoJob, JobState
  <2>3. Attempts
    BY <2>2 DEF Init, Attempts, Owns
  <2>4. Sets
    BY FaultsAssumption DEF Init, Sets
  <2> QED
    BY <2>1, <2>3, <2>4
<1>2. Typed /\ Attempts /\ Sets /\ [Next]_vars => (Typed /\ Attempts /\ Sets)'
  BY TypesPreserved, AttemptsPreserved, SetsPreserved
<1> QED
  BY <1>1, <1>2, PTL DEF Spec

-----------------------------------------------------------------------------
\* The theorems

\* An image marked deletedAt (ImageCleanupProcessor) has no file in the bucket,
\* whatever fails between the two and whoever still uploads.
THEOREM MarkedIsDeleted == Spec => []DeletionIsEvidence
<1>1. IInv => DeletionIsEvidence
  BY DEF IInv, Deletions, DeletionIsEvidence
<1> QED
  BY <1>1, AlwaysInvariant, PTL

\* Every reachable state is well typed (TypeOK): whatever runs of a job overlap,
\* lose its lock or stall (BullMQ's attempts and maxStalledCount), no job is given
\* more attempts or stalls than the queue allows.
THEOREM PalmImagesTyped == Spec => []TypeOK
<1>1. Typed /\ Attempts /\ Sets => TypeOK
  BY DEF Typed, Attempts, Sets, TypeOK
<1> QED
  BY <1>1, AlwaysCounted, PTL
=============================================================================
