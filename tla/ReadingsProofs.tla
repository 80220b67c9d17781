--------------------------- MODULE ReadingsProofs ---------------------------
(***************************************************************************)
(* Theorems of Readings for every set of users and readings, every price,  *)
(* every number of requests, workers, attempts and retries, and of faults. *)
(***************************************************************************)
EXTENDS Readings, TLAPS, Sequences

\* The part of TypeOK the arguments need.
Typed ==
    /\ status \in [Reading -> Written \cup {"NONE", "DELETED"}]
    /\ adProgress \in [User -> Nat]
    /\ delivered \subseteq Reading
    /\ balance \in [User -> Int]
    /\ reservation \in [Reading -> W!Reservations]
    /\ confirming \subseteq Reading
    /\ job \in [Job -> [state : JobState, made : Nat, stalls : Nat]]
    /\ listener \in [Job -> {"none", "release", "mark"}]
    /\ run \in [Worker -> Run]
    /\ req \in [Request -> Requests]

\* The reading has been submitted, and perhaps deleted since: it never is a draft
\* again, so what a request or a run once knew of it still holds.
Left(r) == status[r] \notin {"NONE", "DRAFT"}

\* A consumption waiting to commit has locked an open reservation.
Locked == \A r \in confirming : reservation[r].status = "ACTIVE"

\* What the rows of the readings promise.
RowsFit ==
    /\ SubmittedIsReserved
    /\ TerminalIsSettled
    /\ ChargedOnlyWhenDelivered
    /\ Locked

\* A run pursues a submitted reading; it consumes, and saves COMPLETED, only what
\* was delivered, and comes to save a result when the credits are settled.
FitRun(x) ==
    x # NoRun =>
      LET r == x.job[1] IN
        /\ Left(r)
        /\ x.pc = "confirm" => x.result = "COMPLETED"
        /\ x.pc = "save" => NotActive(r)
        /\ x.pc \in {"settle", "confirm", "save"} /\ x.result = "COMPLETED" =>
             r \in delivered \/ status[r] = "DELETED"

\* A job is of a submitted reading; onFailed marks it when its credits are settled.
FitJob(j) ==
    /\ job[j].state # "absent" \/ listener[j] # "none" => Left(j[1])
    /\ listener[j] = "mark" => NotActive(j[1])

\* A retry, and a submission that was committed, are of a submitted reading.
FitRequest(x) ==
    x.kind = "retry" \/ (x.kind = "submit" /\ x.pc = "committed") => Left(x.reading)

RunsFit == \A w \in Worker : FitRun(run[w])

JobsFit == \A j \in Job : FitJob(j)

RequestsFit == \A q \in Request : FitRequest(req[q])

\* The inductive invariant.  The properties of the rows are not inductive: what a
\* run, onFailed or a request writes rests on what it learned steps earlier.
IInv == Typed /\ RowsFit /\ RunsFit /\ JobsFit /\ RequestsFit

\* What a step may never undo, so that knowledge about a reading stays true: it
\* has left DRAFT, its credits are settled, the AI has delivered.
Onward ==
    \A r \in Reading :
        /\ Left(r) => Left(r)'
        /\ Left(r) /\ NotActive(r) => NotActive(r)'
        /\ r \in delivered \/ status[r] = "DELETED" =>
             r \in delivered' \/ status'[r] = "DELETED"

-----------------------------------------------------------------------------
\* The parts of a run that has begun.
LEMMA RunParts ==
    ASSUME Typed, NEW w \in Worker, run[w] # NoRun
    PROVE  /\ run[w] \in [pc : RunPc, job : Job, result : {"COMPLETED", "FAILED"}, owned : BOOLEAN]
           /\ run[w].job \in Job /\ Subject(w) \in Reading
           /\ run[w].result \in {"COMPLETED", "FAILED"}
<1>1. run[w] \in [pc : RunPc, job : Job, result : {"COMPLETED", "FAILED"}, owned : BOOLEAN]
  BY DEF Typed, Run
<1>2. run[w].job \in Job /\ run[w].result \in {"COMPLETED", "FAILED"}
  BY <1>1
<1> QED
  BY <1>1, <1>2 DEF Subject, Job

\* The parts of a request being served.
LEMMA RequestParts ==
    ASSUME Typed, NEW q \in Request, Busy(q)
    PROVE  /\ req[q] \in [kind : RequestKind, reading : Reading, pc : {"checked", "committed"}]
           /\ req[q].reading \in Reading
BY DEF Typed, Requests, Busy

\* A reading that has a row in the wallet's view has one in readings.
LEMMA RowParts ==
    ASSUME Typed, NEW r \in Reading
    PROVE  /\ rows[r] = "present" <=> status[r] \in Written
           /\ rows[r] = "absent" <=> status[r] = "NONE"
BY DEF Typed, rows, Written

\* The records a reservation can be.
LEMMA ReservationParts ==
    ASSUME Typed, NEW r \in Reading, reservation[r].status # "NONE"
    PROVE  /\ reservation[r] \in [status : W!ReservationStatus, user : User, amount : {0, Price}]
           /\ reservation[r].user \in User /\ reservation[r].amount \in Nat
<1>1. reservation[r] \in [status : W!ReservationStatus, user : User, amount : {0, Price}]
  BY DEF Typed, W!Reservations, W!NoReservation
<1> QED
  BY <1>1, PriceAssumption

-----------------------------------------------------------------------------
\* Steps of the rows

\* Nothing of a reading is written.
LEMMA RowsStay ==
    ASSUME RowsFit, UNCHANGED <<status, delivered, reservation, confirming>>
    PROVE  RowsFit' /\ Onward
BY DEF RowsFit, SubmittedIsReserved, TerminalIsSettled, ChargedOnlyWhenDelivered, Locked,
       Onward, Left, NotActive

\* The status of a submitted reading is written: a final one after the credits are
\* settled, COMPLETED after the AI delivered.
LEMMA StatusMoves ==
    ASSUME Typed, RowsFit, NEW r \in Reading, NEW s \in Written \ {"DRAFT"},
           status' = [status EXCEPT ![r] = s], status[r] \in Written, Left(r),
           s \in {"COMPLETED", "FAILED"} => NotActive(r), s = "COMPLETED" => r \in delivered,
           UNCHANGED <<delivered, reservation, confirming>>
    PROVE  RowsFit' /\ Onward
<1>1. status'[r] = s /\ \A x \in Reading : x # r => status'[x] = status[x]
  BY DEF Typed
<1>2. RowsFit'
  <2>1. SubmittedIsReserved'
    BY <1>1 DEF RowsFit, SubmittedIsReserved, Left
  <2>2. TerminalIsSettled'
    BY <1>1 DEF RowsFit, TerminalIsSettled, NotActive
  <2>3. ChargedOnlyWhenDelivered'
    BY <1>1 DEF RowsFit, ChargedOnlyWhenDelivered
  <2>4. Locked'
    BY DEF RowsFit, Locked
  <2> QED
    BY <2>1, <2>2, <2>3, <2>4 DEF RowsFit
<1>3. Onward
  BY <1>1 DEF Onward, Left, NotActive, Written
<1> QED
  BY <1>2, <1>3

\* A draft is created.
LEMMA CreateMoves ==
    ASSUME Typed, RowsFit, NEW r \in Reading, CreateReading(r)
    PROVE  RowsFit' /\ Onward
<1>1. status[r] = "NONE"
  BY RowParts DEF CreateReading, W!InsertReading
<1>2. /\ UNCHANGED <<delivered, reservation, confirming>>
      /\ status'[r] = "DRAFT" /\ \A x \in Reading : x # r => status'[x] = status[x]
  BY DEF CreateReading, W!InsertReading, Typed
<1>3. SubmittedIsReserved'
  BY <1>1, <1>2 DEF RowsFit, SubmittedIsReserved, Written
<1>4. TerminalIsSettled' /\ ChargedOnlyWhenDelivered' /\ Locked'
  BY <1>1, <1>2 DEF RowsFit, TerminalIsSettled, ChargedOnlyWhenDelivered, Locked
<1>5. Onward
  BY <1>1, <1>2 DEF Onward, Left, NotActive
<1> QED
  BY <1>3, <1>4, <1>5 DEF RowsFit

\* The reservation and the status PENDING are written together, once: the
\* reservation that is not there shows that the reading is still a draft.
LEMMA SubmitMoves ==
    ASSUME Typed, RowsFit, NEW r \in Reading, NEW u, NEW a,
           status' = [status EXCEPT ![r] = "PENDING"], UNCHANGED delivered,
           W!ReserveCreditsForReading(u, r, a)
    PROVE  RowsFit' /\ Onward /\ status[r] = "DRAFT" /\ status'[r] = "PENDING"
<1>1. status[r] \in Written /\ reservation[r] = W!NoReservation
  BY RowParts DEF W!ReserveCreditsForReading
<1>2. status[r] = "DRAFT"
  BY <1>1 DEF RowsFit, SubmittedIsReserved, W!NoReservation
<1>3. /\ status'[r] = "PENDING" /\ reservation'[r].status = "ACTIVE"
      /\ \A x \in Reading : x # r => status'[x] = status[x] /\ reservation'[x] = reservation[x]
      /\ confirming' = confirming
  BY DEF Typed, W!ReserveCreditsForReading
<1>4. SubmittedIsReserved'
  BY <1>3 DEF RowsFit, SubmittedIsReserved, Written
<1>5. TerminalIsSettled' /\ ChargedOnlyWhenDelivered'
  BY <1>3 DEF RowsFit, TerminalIsSettled, ChargedOnlyWhenDelivered
<1>6. Locked'
  BY <1>3 DEF RowsFit, Locked, Typed
<1>7. Onward
  BY <1>2, <1>3 DEF Onward, Left, NotActive
<1> QED
  BY <1>2, <1>3, <1>4, <1>5, <1>6, <1>7 DEF RowsFit

\* A row is deleted, and with it its reservation and executions.
LEMMA DeleteMoves ==
    ASSUME Typed, RowsFit, NEW r \in Reading,
           status' = [status EXCEPT ![r] = "DELETED"], delivered' = delivered \ {r},
           W!DeleteReading(r)
    PROVE  RowsFit' /\ Onward
<1>1. /\ status'[r] = "DELETED" /\ reservation'[r].status = "NONE" /\ r \notin confirming
      /\ \A x \in Reading : x # r =>
           status'[x] = status[x] /\ reservation'[x] = reservation[x]
      /\ confirming' = confirming
  BY DEF Typed, W!DeleteReading, W!NoReservation
<1>2. SubmittedIsReserved' /\ TerminalIsSettled'
  BY <1>1 DEF RowsFit, SubmittedIsReserved, TerminalIsSettled, Written
<1>3. ChargedOnlyWhenDelivered'
  BY <1>1 DEF RowsFit, ChargedOnlyWhenDelivered
<1>4. Locked'
  BY <1>1 DEF RowsFit, Locked, Typed
<1>5. Onward
  BY <1>1 DEF Onward, Left, NotActive
<1> QED
  BY <1>2, <1>3, <1>4, <1>5 DEF RowsFit

\* The AI has delivered: nothing else changes.
LEMMA DeliverMoves ==
    ASSUME RowsFit, delivered \subseteq delivered', UNCHANGED <<status, reservation, confirming>>
    PROVE  RowsFit' /\ Onward
BY DEF RowsFit, SubmittedIsReserved, TerminalIsSettled, ChargedOnlyWhenDelivered, Locked,
       Onward, Left, NotActive

\* An open reservation is closed: consumed only when the AI has delivered.
LEMMA CloseMoves ==
    ASSUME Typed, RowsFit, NEW r \in Reading, NEW s \in {"CONSUMED", "RELEASED"},
           reservation[r].status = "ACTIVE", s = "CONSUMED" => r \in delivered,
           reservation' = [reservation EXCEPT ![r].status = s],
           confirming' \subseteq confirming, r \notin confirming',
           UNCHANGED <<status, delivered>>
    PROVE  RowsFit' /\ Onward /\ NotActive(r)'
<1>1. reservation[r] \in [status : W!ReservationStatus, user : User, amount : {0, Price}]
  BY ReservationParts
<1>2. /\ reservation'[r].status = s
      /\ \A x \in Reading : x # r => reservation'[x] = reservation[x]
  BY <1>1 DEF Typed
<1>3. SubmittedIsReserved' /\ TerminalIsSettled'
  BY <1>2 DEF RowsFit, SubmittedIsReserved, TerminalIsSettled
<1>4. ChargedOnlyWhenDelivered'
  BY <1>2 DEF RowsFit, ChargedOnlyWhenDelivered
<1>5. Locked'
  BY <1>2 DEF RowsFit, Locked, Typed
<1>6. Onward /\ NotActive(r)'
  BY <1>2 DEF Onward, Left, NotActive
<1> QED
  BY <1>3, <1>4, <1>5, <1>6 DEF RowsFit

\* A consumption begins, or is rolled back.
LEMMA LockMoves ==
    ASSUME RowsFit,
           \A r \in confirming' : r \in confirming \/ reservation[r].status = "ACTIVE",
           UNCHANGED <<status, delivered, reservation>>
    PROVE  RowsFit' /\ Onward
BY DEF RowsFit, SubmittedIsReserved, TerminalIsSettled, ChargedOnlyWhenDelivered, Locked,
       Onward, Left, NotActive

-----------------------------------------------------------------------------
\* Steps of the processes

\* A run that does nothing still knows what it knew: no step takes a reading back.
LEMMA RunsStay ==
    ASSUME Typed, RunsFit, Onward, UNCHANGED run
    PROVE  RunsFit'
<1> SUFFICES ASSUME NEW w \in Worker, run[w] # NoRun
             PROVE  FitRun(run[w])'
  BY DEF RunsFit, FitRun
<1>1. FitRun(run[w]) /\ run'[w] = run[w]
  BY DEF RunsFit
<1>2. run[w].job[1] \in Reading
  BY RunParts DEF Subject
<1> QED
  BY <1>1, <1>2 DEF FitRun, Onward

\* One run goes on.
LEMMA RunMoves ==
    ASSUME Typed, RunsFit, Onward, NEW w \in Worker, NEW x \in Run,
           run' = [run EXCEPT ![w] = x], FitRun(x)'
    PROVE  RunsFit' /\ run' \in [Worker -> Run]
<1>1. run'[w] = x /\ \A v \in Worker : v # w => run'[v] = run[v]
  BY DEF Typed
<1>2. FitRun(run[w])'
  BY <1>1 DEF FitRun
<1>3. ASSUME NEW v \in Worker, v # w, run[v] # NoRun PROVE FitRun(run[v])'
  <2>1. FitRun(run[v]) /\ run'[v] = run[v]
    BY <1>1, <1>3 DEF RunsFit
  <2>2. run[v].job[1] \in Reading
    BY <1>3, RunParts DEF Subject
  <2> QED
    BY <2>1, <2>2 DEF FitRun, Onward
<1>4. ASSUME NEW v \in Worker PROVE FitRun(run[v])'
  <2>1. CASE v = w
    BY <1>2, <2>1
  <2>2. CASE v # w /\ run[v] # NoRun
    BY <1>3, <2>2
  <2>3. CASE v # w /\ run[v] = NoRun
    BY <1>1, <2>3 DEF FitRun
  <2> QED
    BY <2>1, <2>2, <2>3
<1> QED
  BY <1>4 DEF RunsFit, Typed

\* A run ends.
LEMMA RunEnds ==
    ASSUME Typed, RunsFit, Onward, NEW w \in Worker, run' = [run EXCEPT ![w] = NoRun]
    PROVE  RunsFit' /\ run' \in [Worker -> Run]
BY RunMoves DEF FitRun, Run

\* A job is of a reading.
LEMMA JobParts ==
    ASSUME NEW j \in Job
    PROVE  j[1] \in Reading
BY DEF Job

\* The jobs change only where the reading has been submitted, and no listener
\* comes to mark a reading whose credits are not settled.
LEMMA JobsMove ==
    ASSUME JobsFit, Onward,
           \A j \in Job : job'[j] # job[j] \/ listener'[j] # listener[j] =>
             Left(j[1]) /\ (listener'[j] = "mark" => listener[j] = "mark" \/ NotActive(j[1])')
    PROVE  JobsFit'
<1> SUFFICES ASSUME NEW j \in Job PROVE FitJob(j)'
  BY DEF JobsFit
<1>1. FitJob(j)
  BY DEF JobsFit
<1>2. j[1] \in Reading
  BY JobParts
<1>3. CASE job'[j] = job[j] /\ listener'[j] = listener[j]
  BY <1>1, <1>2, <1>3 DEF FitJob, Onward
<1>4. CASE ~(job'[j] = job[j] /\ listener'[j] = listener[j])
  BY <1>1, <1>2, <1>4 DEF FitJob, Onward
<1> QED
  BY <1>3, <1>4

\* Nothing happens to the jobs.
LEMMA JobsStay ==
    ASSUME JobsFit, Onward, UNCHANGED <<job, listener>>
    PROVE  JobsFit'
BY JobsMove

\* One request goes on.
LEMMA RequestMoves ==
    ASSUME Typed, RequestsFit, Onward, NEW q \in Request, NEW x \in Requests,
           req' = [req EXCEPT ![q] = x], FitRequest(x)'
    PROVE  RequestsFit' /\ req' \in [Request -> Requests]
<1>1. req'[q] = x /\ \A p \in Request : p # q => req'[p] = req[p]
  BY DEF Typed
<1>2. FitRequest(req[q])'
  BY <1>1 DEF FitRequest
<1>3. ASSUME NEW p \in Request, p # q PROVE FitRequest(req[p])'
  <2>1. FitRequest(req[p]) /\ req'[p] = req[p]
    BY <1>1, <1>3 DEF RequestsFit
  <2>2. CASE Busy(p)
    BY <2>1, <2>2, RequestParts DEF FitRequest, Onward
  <2>3. CASE ~Busy(p)
    BY <2>1, <2>3 DEF FitRequest, Busy, NoRequest
  <2> QED
    BY <2>2, <2>3
<1>4. RequestsFit'
  BY <1>2, <1>3 DEF RequestsFit
<1> QED
  BY <1>4 DEF Typed

\* A request has answered.
LEMMA RequestEnds ==
    ASSUME Typed, RequestsFit, Onward, NEW q \in Request, End(q)
    PROVE  RequestsFit' /\ req' \in [Request -> Requests]
<1>1. NoRequest \in Requests /\ NoRequest.kind = "idle"
  BY DEF Requests, NoRequest
<1>2. FitRequest(NoRequest)'
  BY DEF FitRequest, NoRequest
<1> QED
  BY <1>1, <1>2, RequestMoves DEF End

\* Nothing happens to the requests.
LEMMA RequestsStay ==
    ASSUME Typed, RequestsFit, Onward, UNCHANGED req
    PROVE  RequestsFit'
<1> SUFFICES ASSUME NEW q \in Request PROVE FitRequest(req[q])'
  BY DEF RequestsFit
<1>1. FitRequest(req[q]) /\ req'[q] = req[q]
  BY DEF RequestsFit
<1>2. CASE Busy(q)
  BY <1>1, <1>2, RequestParts DEF FitRequest, Onward
<1>3. CASE ~Busy(q)
  BY <1>1, <1>3 DEF FitRequest, Busy, NoRequest
<1> QED
  BY <1>2, <1>3

-----------------------------------------------------------------------------
\* Types

\* A movement of credits leaves the balances integers.
LEMMA MoveTyped ==
    ASSUME Typed, NEW u \in User, NEW type, NEW ref, NEW amount \in Int,
           W!Move(u, type, ref, amount)
    PROVE  /\ balance' = [balance EXCEPT ![u] = balance[u] + amount]
           /\ balance' \in [User -> Int]
BY DEF Typed, W!Move

\* A job is given another state, and more attempts or stalls.
LEMMA JobTyped ==
    ASSUME Typed, NEW j \in Job, NEW s \in JobState, NEW m \in {0, 1}, NEW n \in {0, 1},
           job' = [job EXCEPT ![j] = [state |-> s, made |-> job[j].made + m,
                                      stalls |-> job[j].stalls + n]]
    PROVE  job' \in [Job -> [state : JobState, made : Nat, stalls : Nat]]
BY DEF Typed

\* A reservation is opened for the reading's owner, at its cost.
LEMMA ReserveTyped ==
    ASSUME Typed, NEW r \in Reading, NEW u \in User, NEW a \in {0, Price},
           W!ReserveCreditsForReading(u, r, a)
    PROVE  /\ reservation' \in [Reading -> W!Reservations]
           /\ balance' = [balance EXCEPT ![u] = balance[u] - a]
           /\ balance' \in [User -> Int]
<1>1. a \in Nat /\ balance[u] \in Int
  BY PriceAssumption DEF Typed
<1>2. W!Move(u, "RESERVATION", r, -a)
  BY DEF W!ReserveCreditsForReading
<1>3. /\ balance' = [balance EXCEPT ![u] = balance[u] + (-a)]
      /\ balance' \in [User -> Int]
  BY <1>1, <1>2, MoveTyped
<1>4. balance[u] + (-a) = balance[u] - a
  BY <1>1
<1>5. [status |-> "ACTIVE", user |-> u, amount |-> a] \in W!Reservations
  BY DEF W!Reservations, W!ReservationStatus
<1>6. reservation' \in [Reading -> W!Reservations]
  BY <1>5 DEF W!ReserveCreditsForReading, Typed
<1> QED
  BY <1>3, <1>4, <1>6

\* A reservation is closed: nothing but its status changes.
LEMMA CloseTyped ==
    ASSUME Typed, NEW r \in Reading, NEW s \in {"CONSUMED", "RELEASED"},
           reservation[r].status = "ACTIVE",
           reservation' = [reservation EXCEPT ![r].status = s]
    PROVE  reservation' \in [Reading -> W!Reservations]
<1>1. reservation[r] \in [status : W!ReservationStatus, user : User, amount : {0, Price}]
  BY ReservationParts
<1>2. [reservation[r] EXCEPT !.status = s]
        \in [status : W!ReservationStatus, user : User, amount : {0, Price}]
  BY <1>1 DEF W!ReservationStatus
<1>3. [reservation[r] EXCEPT !.status = s] \in W!Reservations
  BY <1>2 DEF W!Reservations
<1>4. reservation' = [reservation EXCEPT ![r] = [reservation[r] EXCEPT !.status = s]]
  OBVIOUS
<1> QED
  BY <1>3, <1>4 DEF Typed

\* Credits held for a reading go back to the user they were taken from.
LEMMA ReleaseTyped ==
    ASSUME Typed, NEW r \in Reading, W!ReleaseReservation(r)
    PROVE  /\ reservation' \in [Reading -> W!Reservations]
           /\ balance' \in [User -> Int]
           /\ \A u \in User : balance'[u] >= balance[u]
           /\ reservation' = [reservation EXCEPT ![r].status = "RELEASED"]
           /\ reservation[r].status = "ACTIVE" /\ r \notin confirming
           /\ confirming' = confirming
<1>1. reservation[r].status = "ACTIVE" /\ r \notin confirming
  BY DEF W!ReleaseReservation, W!Active
<1>2. reservation[r].user \in User /\ reservation[r].amount \in Nat
  BY <1>1, ReservationParts
<1>3. W!Move(reservation[r].user, "RELEASE", r, reservation[r].amount)
  BY DEF W!ReleaseReservation
<1>4. /\ balance' = [balance EXCEPT ![reservation[r].user] =
                       balance[reservation[r].user] + reservation[r].amount]
      /\ balance' \in [User -> Int]
  BY <1>2, <1>3, MoveTyped
<1>5. \A u \in User : balance'[u] >= balance[u]
  BY <1>2, <1>4 DEF Typed
<1>6. reservation' = [reservation EXCEPT ![r].status = "RELEASED"] /\ confirming' = confirming
  BY DEF W!ReleaseReservation
<1>7. reservation' \in [Reading -> W!Reservations]
  BY <1>1, <1>6, CloseTyped
<1> QED
  BY <1>1, <1>4, <1>5, <1>6, <1>7

\* The bonus of a new account.
LEMMA RegisterTyped ==
    ASSUME Typed, NEW u \in User, Register(u)
    PROVE  /\ balance' \in [User -> Int]
           /\ \A v \in User : balance'[v] >= balance[v]
<1>1. CASE InitialBonus > 0
  <2>1. W!Move(u, "BONUS", u, InitialBonus)
    BY <1>1 DEF Register, W!CreateWalletWithBonus
  <2>2. /\ balance' = [balance EXCEPT ![u] = balance[u] + InitialBonus]
        /\ balance' \in [User -> Int]
    BY <2>1, MoveTyped, InitialBonusAssumption
  <2>3. \A v \in User : balance'[v] >= balance[v]
    BY <2>2, InitialBonusAssumption DEF Typed
  <2> QED
    BY <2>2, <2>3
<1>2. CASE ~(InitialBonus > 0)
  BY <1>2 DEF Register, W!CreateWalletWithBonus, Typed
<1> QED
  BY <1>1, <1>2

\* A service costs nothing or its price.
LEMMA CostTyped ==
    ASSUME NEW r \in Reading
    PROVE  CostOf(r) \in {0, Price} /\ Owner[r] \in User
BY OwnerAssumption DEF CostOf

-----------------------------------------------------------------------------
\* The invariant, action by action

\* Nothing has been created.
LEMMA InitiallyFit == Init => IInv
<1> SUFFICES ASSUME Init PROVE IInv
  OBVIOUS
<1>1. Typed
  <2>1. W!NoReservation \in W!Reservations
    BY DEF W!Reservations
  <2>2. Absent \in [state : JobState, made : Nat, stalls : Nat]
    BY DEF Absent, JobState
  <2> QED
    BY <2>1, <2>2 DEF Init, Typed, Run, Requests
<1>2. RowsFit
  BY DEF Init, RowsFit, SubmittedIsReserved, TerminalIsSettled, ChargedOnlyWhenDelivered,
         Locked, Written, W!NoReservation
<1>3. RunsFit /\ RequestsFit
  BY DEF Init, RunsFit, FitRun, RequestsFit, FitRequest, NoRequest
<1>4. JobsFit
  BY DEF Init, JobsFit, FitJob, Absent
<1> QED
  BY <1>1, <1>2, <1>3, <1>4 DEF IInv

\* Registration, ads, creation and the beginning of a request.
LEMMA BeginningsPreserve ==
    ASSUME IInv,
           \/ \E u \in User : Register(u) \/ WatchAd(u)
           \/ \E r \in Reading : CreateReading(r)
           \/ \E q \in Request, r \in Reading :
                BeginAnswer(q, r) \/ BeginSubmit(q, r) \/ BeginRetry(q, r) \/ BeginRemove(q, r)
    PROVE  IInv'
<1> USE DEF IInv
<1>1. ASSUME NEW u \in User, Register(u) \/ WatchAd(u) PROVE IInv'
  <2>1. UNCHANGED <<status, delivered, reservation, confirming, job, listener, run, req>>
    BY <1>1 DEF Register, WatchAd, W!CreateWalletWithBonus, dataVars, walletVars
  <2>2. balance' \in [User -> Int]
    BY <1>1, RegisterTyped DEF WatchAd, walletVars, Typed
  <2>3. adProgress' \in [User -> Nat]
    BY <1>1 DEF Register, WatchAd, Typed, dataVars
  <2>4. Typed'
    BY <2>1, <2>2, <2>3 DEF Typed
  <2>5. RowsFit' /\ Onward
    BY <2>1, RowsStay
  <2>6. RunsFit' /\ JobsFit' /\ RequestsFit'
    BY <2>1, <2>5, RunsStay, JobsStay, RequestsStay
  <2> QED
    BY <2>4, <2>5, <2>6
<1>2. ASSUME NEW r \in Reading, CreateReading(r) PROVE IInv'
  <2>1. RowsFit' /\ Onward
    BY <1>2, CreateMoves
  <2>2. RunsFit' /\ JobsFit' /\ RequestsFit'
    BY <1>2, <2>1, RunsStay, JobsStay, RequestsStay DEF CreateReading
  <2>3. status' \in [Reading -> Written \cup {"NONE", "DELETED"}]
    BY <1>2 DEF CreateReading, Typed, Written
  <2>4. Typed'
    BY <1>2, <2>3 DEF CreateReading, W!InsertReading, Typed
  <2> QED
    BY <2>1, <2>2, <2>4
<1>3. ASSUME NEW q \in Request, NEW r \in Reading,
             BeginAnswer(q, r) \/ BeginSubmit(q, r) \/ BeginRetry(q, r) \/ BeginRemove(q, r)
      PROVE  IInv'
  <2>1. PICK k \in RequestKind :
              /\ req' = [req EXCEPT ![q] = [kind |-> k, reading |-> r, pc |-> "checked"]]
              /\ UNCHANGED <<dataVars, walletVars, job, listener, run, faults>>
              /\ k = "retry" => Left(r)
    BY <1>3 DEF BeginAnswer, BeginSubmit, BeginRetry, BeginRemove, Begin, RequestKind, Left
  <2> DEFINE x == [kind |-> k, reading |-> r, pc |-> "checked"]
  <2>2. RowsFit' /\ Onward
    BY <2>1, RowsStay DEF dataVars, walletVars
  <2>3. x \in Requests
    BY DEF Requests
  <2>4. x.kind = k /\ x.reading = r /\ x.pc # "committed"
    OBVIOUS
  <2>5. req' = [req EXCEPT ![q] = x]
    BY <2>1
  <2> HIDE DEF x
  <2>6. FitRequest(x)'
    BY <2>1, <2>2, <2>4 DEF FitRequest, Onward
  <2>7. RequestsFit' /\ req' \in [Request -> Requests]
    BY <2>2, <2>3, <2>5, <2>6, RequestMoves
  <2>8. RunsFit' /\ JobsFit'
    BY <2>1, <2>2, RunsStay, JobsStay
  <2>9. Typed'
    BY <2>1, <2>7 DEF Typed, dataVars, walletVars
  <2> QED
    BY <2>2, <2>7, <2>8, <2>9
<1> QED
  BY <1>1, <1>2, <1>3

\* A request saves, submits, retries, enqueues, removes, refuses, or is lost.
LEMMA RequestsPreserve ==
    ASSUME IInv, NEW q \in Request, RequestStep(q) \/ LoseRequest(q)
    PROVE  IInv'
<1> USE DEF IInv
<1> DEFINE r == req[q].reading
<1>1. Busy(q) /\ UNCHANGED <<listener, run>>
  BY DEF RequestStep, LoseRequest, At, SaveAnswer, CommitSubmit, RejectSubmit, EnqueueSubmitted,
         CommitRetry, EnqueueRetry, CommitRemove
<1>2. /\ req[q] \in [kind : RequestKind, reading : Reading, pc : {"checked", "committed"}]
      /\ r \in Reading
  BY <1>1, RequestParts
<1>3. FitRequest(req[q])
  BY DEF RequestsFit
<1> HIDE DEF r
<1>4. ASSUME End(q), UNCHANGED <<status, adProgress, delivered, walletVars, job, listener, run>>
      PROVE  IInv'
  <2>1. RowsFit' /\ Onward
    BY <1>4, RowsStay DEF walletVars
  <2>2. RequestsFit' /\ req' \in [Request -> Requests]
    BY <1>4, <2>1, RequestEnds
  <2>3. RunsFit' /\ JobsFit'
    BY <1>4, <2>1, RunsStay, JobsStay
  <2> QED
    BY <1>4, <2>1, <2>2, <2>3 DEF Typed, walletVars
<1>5. CASE SaveAnswer(q) \/ RejectSubmit(q) \/ LoseRequest(q)
  BY <1>4, <1>5 DEF SaveAnswer, RejectSubmit, LoseRequest, dataVars
<1>6. ASSUME Goto(q, "committed"), status' = [status EXCEPT ![r] = "PENDING"], RowsFit', Onward
      PROVE  RequestsFit' /\ req' \in [Request -> Requests]
  <2>1. /\ [req[q] EXCEPT !.pc = "committed"] \in Requests
        /\ [req[q] EXCEPT !.pc = "committed"].reading = r
    BY <1>2 DEF Requests, r
  <2>2. PICK x \in Requests : x.reading = r /\ req' = [req EXCEPT ![q] = x]
    BY <1>6, <2>1 DEF Goto
  <2>3. status'[x.reading] = "PENDING"
    BY <1>2, <1>6, <2>2 DEF Typed
  <2>4. FitRequest(x)'
    BY <2>3 DEF FitRequest, Left
  <2> QED
    BY <1>6, <2>2, <2>4, RequestMoves
<1>7. CASE CommitSubmit(q)
  <2>1. /\ status' = [status EXCEPT ![r] = "PENDING"]
        /\ W!ReserveCreditsForReading(Owner[r], r, CostOf(r))
        /\ adProgress' = IF Unlocked(r) THEN [adProgress EXCEPT ![Owner[r]] = 0] ELSE adProgress
        /\ Goto(q, "committed") /\ UNCHANGED <<delivered, job, listener, run>>
    BY <1>7 DEF CommitSubmit, r
  <2>2. RowsFit' /\ Onward
    BY <1>2, <2>1, SubmitMoves
  <2>3. RequestsFit' /\ req' \in [Request -> Requests]
    BY <1>6, <2>1, <2>2
  <2>4. RunsFit' /\ JobsFit'
    BY <2>1, <2>2, RunsStay, JobsStay
  <2>5. reservation' \in [Reading -> W!Reservations] /\ balance' \in [User -> Int]
    BY <1>2, <2>1, CostTyped, ReserveTyped
  <2>6. adProgress' \in [User -> Nat]
    BY <2>1 DEF Typed
  <2>7. confirming' = confirming
    BY <2>1 DEF W!ReserveCreditsForReading
  <2>8. Typed'
    BY <2>1, <2>3, <2>5, <2>6, <2>7 DEF Typed, Written
  <2> QED
    BY <2>2, <2>3, <2>4, <2>8
<1>8. CASE CommitRetry(q) /\ status[r] \in Written
  <2>1. /\ status' = [status EXCEPT ![r] = "PENDING"] /\ Goto(q, "committed")
        /\ UNCHANGED <<adProgress, delivered, walletVars, job, listener, run>>
    BY <1>8 DEF CommitRetry, r
  <2>2. Left(r)
    BY <1>3, <1>8 DEF CommitRetry, At, FitRequest, r
  <2>3. RowsFit' /\ Onward
    BY <1>2, <1>8, <2>1, <2>2, StatusMoves DEF Written, walletVars
  <2>4. RequestsFit' /\ req' \in [Request -> Requests]
    BY <1>6, <2>1, <2>3
  <2>5. RunsFit' /\ JobsFit'
    BY <2>1, <2>3, RunsStay, JobsStay
  <2>6. Typed'
    BY <2>1, <2>4 DEF Typed, Written, walletVars
  <2> QED
    BY <2>3, <2>4, <2>5, <2>6
<1>9. CASE CommitRetry(q) /\ status[r] \notin Written
  BY <1>4, <1>9 DEF CommitRetry, r
<1>10. ASSUME NEW j, j \in Job => Left(j[1]), End(q),
              job' = job \/ job' = [job EXCEPT ![j].state = "waiting"],
              UNCHANGED <<dataVars, walletVars, listener, run>>
       PROVE  IInv'
  <2>1. RowsFit' /\ Onward
    BY <1>10, RowsStay DEF dataVars, walletVars
  <2>2. RequestsFit' /\ req' \in [Request -> Requests]
    BY <1>10, <2>1, RequestEnds
  <2>3. RunsFit'
    BY <1>10, <2>1, RunsStay
  <2>4. \A i \in Job : job'[i] # job[i] => Left(i[1])
    BY <1>10 DEF Typed
  <2>5. JobsFit'
    BY <1>10, <2>1, <2>4, JobsMove
  <2>6. job' \in [Job -> [state : JobState, made : Nat, stalls : Nat]]
    BY <1>10 DEF Typed, JobState
  <2> QED
    BY <1>10, <2>1, <2>2, <2>3, <2>5, <2>6 DEF Typed, dataVars, walletVars
<1>11. CASE EnqueueSubmitted(q)
  <2> DEFINE j == <<r, 0>>
  <2>1. Left(j[1])
    BY <1>3, <1>11 DEF EnqueueSubmitted, At, FitRequest, r
  <2>2. job' = job \/ job' = [job EXCEPT ![j].state = "waiting"]
    BY <1>11 DEF EnqueueSubmitted, r
  <2> QED
    BY <1>10, <1>11, <2>1, <2>2 DEF EnqueueSubmitted
<1>12. CASE EnqueueRetry(q)
  <2> DEFINE j == <<r, Cardinality(RetryJobs(r)) + 1>>
  <2>1. Left(j[1])
    BY <1>3, <1>12 DEF EnqueueRetry, At, FitRequest, r
  <2>2. job' = [job EXCEPT ![j].state = "waiting"]
    BY <1>12 DEF EnqueueRetry, r
  <2> QED
    BY <1>10, <1>12, <2>1, <2>2 DEF EnqueueRetry
<1>13. CASE CommitRemove(q) /\ status[r] \in Written
  <2>1. /\ status' = [status EXCEPT ![r] = "DELETED"] /\ delivered' = delivered \ {r}
        /\ W!DeleteReading(r) /\ End(q) /\ UNCHANGED <<adProgress, job, listener, run>>
    BY <1>13 DEF CommitRemove, r
  <2>2. RowsFit' /\ Onward
    BY <1>2, <2>1, DeleteMoves
  <2>3. RequestsFit' /\ req' \in [Request -> Requests]
    BY <2>1, <2>2, RequestEnds
  <2>4. RunsFit' /\ JobsFit'
    BY <2>1, <2>2, RunsStay, JobsStay
  <2>5. reservation' \in [Reading -> W!Reservations]
    BY <2>1 DEF W!DeleteReading, W!Reservations, Typed
  <2>6. UNCHANGED <<balance, confirming>>
    BY <2>1 DEF W!DeleteReading
  <2>7. Typed'
    BY <2>1, <2>3, <2>5, <2>6 DEF Typed
  <2> QED
    BY <2>2, <2>3, <2>4, <2>7
<1>14. CASE CommitRemove(q) /\ status[r] \notin Written
  BY <1>4, <1>14 DEF CommitRemove, r
<1> QED
  BY <1>5, <1>7, <1>8, <1>9, <1>11, <1>12, <1>13, <1>14 DEF RequestStep

\* An attempt fails, or its worker is taken for lost: the job, of a submitted
\* reading, waits again or has failed for good.
LEMMA JobFails ==
    ASSUME Typed, JobsFit, Onward, NEW j \in Job, Left(j[1]), FailAttempt(j) \/ Stall(j)
    PROVE  /\ JobsFit'
           /\ job' \in [Job -> [state : JobState, made : Nat, stalls : Nat]]
           /\ listener' \in [Job -> {"none", "release", "mark"}]
<1>1. /\ job[j] \in [state : JobState, made : Nat, stalls : Nat]
      /\ job[j].made + 1 \in Nat /\ job[j].stalls + 1 \in Nat
  BY DEF Typed
<1>2. \/ \E s \in JobState : job' = [job EXCEPT ![j].made = @ + 1, ![j].state = s]
      \/ \E s \in JobState : job' = [job EXCEPT ![j].stalls = @ + 1, ![j].state = s]
  BY DEF FailAttempt, Stall, JobState
<1>3. \/ listener' = listener
      \/ listener' = [listener EXCEPT ![j] = "release"]
  BY DEF FailAttempt, Stall
<1>4. /\ \A i \in Job : i # j => job'[i] = job[i]
      /\ job' \in [Job -> [state : JobState, made : Nat, stalls : Nat]]
  BY <1>1, <1>2 DEF Typed
<1>5. /\ \A i \in Job : i # j => listener'[i] = listener[i]
      /\ listener'[j] = "mark" => listener[j] = "mark"
      /\ listener' \in [Job -> {"none", "release", "mark"}]
  BY <1>3 DEF Typed
<1>6. JobsFit'
  BY <1>4, <1>5, JobsMove
<1> QED
  BY <1>4, <1>5, <1>6

\* A consumption in progress is rolled back with its run, or the wallet is left
\* alone.
LEMMA RollBackMoves ==
    ASSUME Typed, RowsFit, NEW w \in Worker, UNCHANGED <<status, delivered>>, RollBack(w)
    PROVE  /\ RowsFit' /\ Onward
           /\ UNCHANGED <<balance, reservation>> /\ confirming' \subseteq confirming
<1>1. UNCHANGED <<balance, reservation>> /\ confirming' \subseteq confirming
  BY DEF RollBack, W!AbortConsumption, walletVars
<1> QED
  BY <1>1, LockMoves

\* A run ends before its time.
LEMMA InterruptionsPreserve ==
    ASSUME IInv, NEW w \in Worker, Throw(w) \/ LoseWorker(w) \/ LoseLock(w)
    PROVE  IInv'
<1> USE DEF IInv
<1>1. run[w] # NoRun
  BY DEF Throw, LoseWorker, LoseLock
<1>2. /\ run[w] \in [pc : RunPc, job : Job, result : {"COMPLETED", "FAILED"}, owned : BOOLEAN]
      /\ run[w].job \in Job /\ Left(run[w].job[1])
  BY <1>1, RunParts DEF RunsFit, FitRun
<1>3. UNCHANGED <<status, adProgress, delivered, req>>
  BY DEF Throw, LoseWorker, LoseLock, dataVars
<1>4. \/ FailAttempt(run[w].job) \/ Stall(run[w].job)
      \/ UNCHANGED <<job, listener>>
  BY DEF Throw, LoseWorker, LoseLock
<1>5. /\ RowsFit' /\ Onward
      /\ UNCHANGED <<balance, reservation>> /\ confirming' \subseteq confirming
  <2>1. CASE RollBack(w)
    BY <1>3, <2>1, RollBackMoves
  <2>2. CASE UNCHANGED walletVars
    BY <1>3, <2>2, RowsStay DEF walletVars
  <2> QED
    BY <2>1, <2>2 DEF Throw, LoseWorker, LoseLock
<1>6. /\ JobsFit'
      /\ job' \in [Job -> [state : JobState, made : Nat, stalls : Nat]]
      /\ listener' \in [Job -> {"none", "release", "mark"}]
  <2>1. CASE FailAttempt(run[w].job) \/ Stall(run[w].job)
    BY <1>2, <1>5, <2>1, JobFails
  <2>2. CASE UNCHANGED <<job, listener>>
    BY <1>5, <2>2, JobsStay DEF Typed
  <2> QED
    BY <1>4, <2>1, <2>2
<1>7. RequestsFit'
  BY <1>3, <1>5, RequestsStay
<1>8. RunsFit' /\ run' \in [Worker -> Run]
  <2>1. CASE run' = [run EXCEPT ![w] = NoRun]
    BY <1>5, <2>1, RunEnds
  <2>2. CASE run' = [run EXCEPT ![w].owned = FALSE]
    <3>1. PICK x \in Run :
                /\ run' = [run EXCEPT ![w] = x]
                /\ x # NoRun /\ x.job = run[w].job /\ x.pc = run[w].pc
                /\ x.result = run[w].result
      <4> DEFINE y == [run[w] EXCEPT !.owned = FALSE]
      <4>1. y \in [pc : RunPc, job : Job, result : {"COMPLETED", "FAILED"}, owned : BOOLEAN]
        BY <1>2
      <4>2. y.job = run[w].job /\ y.pc = run[w].pc /\ y.result = run[w].result /\ y.pc # "idle"
        BY <1>2 DEF RunPc
      <4>3. run' = [run EXCEPT ![w] = y]
        BY <2>2
      <4> HIDE DEF y
      <4>4. y # NoRun
        BY <4>2 DEF NoRun
      <4> QED
        BY <4>1, <4>2, <4>3, <4>4 DEF Run
    <3>2. FitRun(run[w]) /\ run[w].job[1] \in Reading
      BY <1>1, RunParts DEF RunsFit, Subject
    <3>3. FitRun(x)'
      BY <1>1, <1>5, <3>1, <3>2 DEF FitRun, Onward
    <3> QED
      BY <1>5, <3>1, <3>3, RunMoves
  <2> QED
    BY <2>1, <2>2 DEF Throw, LoseWorker, LoseLock
<1>9. Typed'
  BY <1>3, <1>5, <1>6, <1>8 DEF Typed
<1> QED
  BY <1>5, <1>6, <1>7, <1>8, <1>9

\* A run goes on to its next step, with what that step relies on.
LEMMA RunGoesOn ==
    ASSUME Typed, RunsFit, Onward, NEW w \in Worker, run[w] # NoRun,
           NEW p \in RunPc, NEW s \in {"COMPLETED", "FAILED"},
           run' = [run EXCEPT ![w].pc = p, ![w].result = s],
           p = "confirm" => s = "COMPLETED",
           p = "save" => reservation'[Subject(w)].status # "ACTIVE",
           p \in {"settle", "confirm", "save"} /\ s = "COMPLETED" =>
             Subject(w) \in delivered' \/ status'[Subject(w)] = "DELETED"
    PROVE  RunsFit' /\ run' \in [Worker -> Run]
<1>1. /\ run[w] \in [pc : RunPc, job : Job, result : {"COMPLETED", "FAILED"}, owned : BOOLEAN]
      /\ run[w].job[1] \in Reading
  BY RunParts DEF Subject
<1>2. Left(run[w].job[1])
  BY DEF RunsFit, FitRun
<1>3. PICK x \in Run :
            /\ run' = [run EXCEPT ![w] = x]
            /\ x.job = run[w].job /\ x.pc = p /\ x.result = s
  <2> DEFINE y == [run[w] EXCEPT !.pc = p, !.result = s]
  <2>1. y \in [pc : RunPc, job : Job, result : {"COMPLETED", "FAILED"}, owned : BOOLEAN]
    BY <1>1
  <2>2. y.job = run[w].job /\ y.pc = p /\ y.result = s
    BY <1>1
  <2>3. run' = [run EXCEPT ![w] = y]
    OBVIOUS
  <2> HIDE DEF y
  <2> QED
    BY <2>1, <2>2, <2>3 DEF Run
<1>4. FitRun(x)'
  BY <1>1, <1>2, <1>3 DEF FitRun, Onward, NotActive, Subject
<1> QED
  BY <1>3, <1>4, RunMoves

\* A run goes on with the result it has.
LEMMA RunSteps ==
    ASSUME Typed, RunsFit, Onward, NEW w \in Worker, run[w] # NoRun,
           NEW p \in RunPc, Step(w, p),
           p = "confirm" => run[w].result = "COMPLETED",
           p = "save" => reservation'[Subject(w)].status # "ACTIVE",
           p \in {"settle", "confirm", "save"} /\ run[w].result = "COMPLETED" =>
             Subject(w) \in delivered' \/ status'[Subject(w)] = "DELETED"
    PROVE  RunsFit' /\ run' \in [Worker -> Run]
<1>1. /\ run[w] \in [pc : RunPc, job : Job, result : {"COMPLETED", "FAILED"}, owned : BOOLEAN]
      /\ run[w].result \in {"COMPLETED", "FAILED"}
  BY RunParts
<1>2. [run[w] EXCEPT !.pc = p] = [run[w] EXCEPT !.pc = p, !.result = run[w].result]
  BY <1>1
<1>3. run' = [run EXCEPT ![w].pc = p, ![w].result = run[w].result]
  BY <1>2 DEF Step
<1> QED
  BY <1>1, <1>3, RunGoesOn

\* What a run has in hand: the reading it pursues.
LEMMA InHand ==
    ASSUME IInv, NEW w \in Worker, run[w] # NoRun
    PROVE  /\ Subject(w) \in Reading /\ run[w].job \in Job /\ Left(Subject(w))
           /\ run[w].pc \in RunPc /\ run[w].result \in {"COMPLETED", "FAILED"}
           /\ run[w].pc = "confirm" => run[w].result = "COMPLETED"
           /\ run[w].pc = "save" => NotActive(Subject(w))
           /\ run[w].pc \in {"settle", "confirm", "save"} /\ run[w].result = "COMPLETED" =>
                Subject(w) \in delivered \/ status[Subject(w)] = "DELETED"
BY RunParts DEF IInv, RunsFit, FitRun, Subject

\* A run reads its reading, marks it, lets the AI answer, saves, and finishes.
LEMMA RunsPreserve ==
    ASSUME IInv, NEW w \in Worker,
           \/ Load(w) \/ MarkProcessing(w) \/ Execute(w, "COMPLETED") \/ Execute(w, "FAILED")
           \/ SaveResult(w) \/ Finish(w)
    PROVE  IInv'
<1> USE DEF IInv
<1>1. run[w] # NoRun
  BY DEF Load, MarkProcessing, Execute, SaveResult, Finish, RunAt
<1>2. CASE Load(w)
  <2>1. PICK p \in {"start", "finish"} : Step(w, p)
    BY <1>2 DEF Load
  <2>2. UNCHANGED <<status, adProgress, delivered, walletVars, job, listener, req>>
    BY <1>2 DEF Load, dataVars
  <2>3. RowsFit' /\ Onward
    BY <2>2, RowsStay DEF walletVars
  <2>4. RunsFit' /\ run' \in [Worker -> Run]
    BY <1>1, <2>1, <2>3, RunSteps DEF RunPc
  <2>5. JobsFit' /\ RequestsFit'
    BY <2>2, <2>3, JobsStay, RequestsStay
  <2> QED
    BY <2>2, <2>3, <2>4, <2>5 DEF Typed, walletVars
<1>3. CASE MarkProcessing(w)
  <2>1. /\ status' = [status EXCEPT ![Subject(w)] = "PROCESSING"] /\ status[Subject(w)] \in Written
        /\ Step(w, "execute") /\ UNCHANGED <<adProgress, delivered, walletVars, job, listener, req>>
    BY <1>3 DEF MarkProcessing
  <2>2. RowsFit' /\ Onward
    BY <1>1, <2>1, InHand, StatusMoves DEF Written, walletVars
  <2>3. RunsFit' /\ run' \in [Worker -> Run]
    BY <1>1, <2>1, <2>2, RunSteps DEF RunPc
  <2>4. JobsFit' /\ RequestsFit'
    BY <2>1, <2>2, JobsStay, RequestsStay
  <2> QED
    BY <2>1, <2>2, <2>3, <2>4 DEF Typed, Written, walletVars
<1>4. ASSUME NEW s \in {"COMPLETED", "FAILED"}, Execute(w, s) PROVE IInv'
  <2>1. /\ delivered' = IF s = "COMPLETED" THEN delivered \cup {Subject(w)} ELSE delivered
        /\ run' = [run EXCEPT ![w].pc = "settle", ![w].result = s]
        /\ UNCHANGED <<status, adProgress, walletVars, job, listener, req>>
    BY <1>4 DEF Execute
  <2>2. RowsFit' /\ Onward
    BY <2>1, DeliverMoves DEF walletVars
  <2>3. RunsFit' /\ run' \in [Worker -> Run]
    BY <1>1, <2>1, <2>2, RunGoesOn DEF RunPc
  <2>4. JobsFit' /\ RequestsFit'
    BY <2>1, <2>2, JobsStay, RequestsStay
  <2>5. delivered' \subseteq Reading
    BY <1>1, <2>1, InHand DEF Typed
  <2> QED
    BY <2>1, <2>2, <2>3, <2>4, <2>5 DEF Typed, walletVars
<1>5. CASE SaveResult(w)
  <2>1. /\ status' = [status EXCEPT ![Subject(w)] = run[w].result]
        /\ status[Subject(w)] \in Written /\ run[w].pc = "save"
        /\ Step(w, "finish") /\ UNCHANGED <<adProgress, delivered, walletVars, job, listener, req>>
    BY <1>5 DEF SaveResult, RunAt
  <2>2. /\ Subject(w) \in Reading /\ Left(Subject(w)) /\ NotActive(Subject(w))
        /\ run[w].result \in {"COMPLETED", "FAILED"}
        /\ run[w].result = "COMPLETED" => Subject(w) \in delivered
    BY <1>1, <2>1, InHand DEF Written
  <2>3. RowsFit' /\ Onward
    BY <2>1, <2>2, StatusMoves DEF Written, walletVars
  <2>4. RunsFit' /\ run' \in [Worker -> Run]
    BY <1>1, <2>1, <2>3, RunSteps DEF RunPc
  <2>5. JobsFit' /\ RequestsFit'
    BY <2>1, <2>3, JobsStay, RequestsStay
  <2> QED
    BY <2>1, <2>2, <2>3, <2>4, <2>5 DEF Typed, Written, walletVars
<1>6. CASE Finish(w)
  <2>1. /\ job' = job \/ job' = [job EXCEPT ![run[w].job].state = "completed"]
        /\ run' = [run EXCEPT ![w] = NoRun]
        /\ UNCHANGED <<status, adProgress, delivered, walletVars, listener, req>>
    BY <1>6 DEF Finish, dataVars
  <2>2. RowsFit' /\ Onward
    BY <2>1, RowsStay DEF walletVars
  <2>3. RunsFit' /\ run' \in [Worker -> Run]
    BY <2>1, <2>2, RunEnds
  <2>4. \A j \in Job : job'[j] # job[j] => Left(j[1])
    BY <1>1, <2>1, InHand DEF Typed, Subject
  <2>5. JobsFit'
    BY <2>1, <2>2, <2>4, JobsMove
  <2>6. job' \in [Job -> [state : JobState, made : Nat, stalls : Nat]]
    BY <2>1 DEF Typed, JobState
  <2>7. RequestsFit'
    BY <2>1, <2>2, RequestsStay
  <2> QED
    BY <2>1, <2>2, <2>3, <2>5, <2>6, <2>7 DEF Typed, walletVars
<1> QED
  BY <1>2, <1>3, <1>4, <1>5, <1>6

\* A run settles the credits of its reading.
LEMMA SettlementsPreserve ==
    ASSUME IInv, NEW w \in Worker,
           SettleConsumption(w) \/ CommitConsumption(w) \/ SettleRelease(w)
    PROVE  IInv'
<1> USE DEF IInv
<1>1. run[w] # NoRun /\ UNCHANGED <<status, adProgress, delivered, job, listener, req>>
  BY DEF SettleConsumption, CommitConsumption, SettleRelease, RunAt, dataVars
<1> DEFINE r == Subject(w)
<1>2. /\ r \in Reading /\ Left(r)
      /\ run[w].pc \in {"settle", "confirm", "save"} /\ run[w].result = "COMPLETED" =>
           r \in delivered \/ status[r] = "DELETED"
      /\ run[w].pc = "confirm" => run[w].result = "COMPLETED"
  BY <1>1, InHand
<1> HIDE DEF r
<1>3. ASSUME RowsFit', Onward, RunsFit', run' \in [Worker -> Run], balance' \in [User -> Int],
             reservation' \in [Reading -> W!Reservations], confirming' \subseteq Reading
      PROVE  IInv'
  <2>1. JobsFit' /\ RequestsFit'
    BY <1>1, <1>3, JobsStay, RequestsStay
  <2> QED
    BY <1>1, <1>3, <2>1 DEF Typed
<1>4. CASE SettleConsumption(w) /\ NotActive(r)
  <2>1. UNCHANGED walletVars /\ Step(w, "save") /\ run[w].pc = "settle"
    BY <1>4 DEF SettleConsumption, RunAt, r
  <2>2. RowsFit' /\ Onward
    BY <1>1, <2>1, RowsStay DEF walletVars
  <2>3. reservation'[r].status # "ACTIVE"
    BY <1>4, <2>1 DEF NotActive, walletVars
  <2>4. RunsFit' /\ run' \in [Worker -> Run]
    BY <1>1, <1>2, <2>1, <2>2, <2>3, RunSteps DEF RunPc, r
  <2> QED
    BY <1>3, <2>1, <2>2, <2>4 DEF Typed, walletVars
<1>5. CASE SettleConsumption(w) /\ ~NotActive(r)
  <2>1. /\ W!BeginConsumption(r) /\ Step(w, "confirm") /\ run[w].pc = "settle"
        /\ run[w].result = "COMPLETED"
    BY <1>5 DEF SettleConsumption, RunAt, r
  <2>2. /\ confirming' = confirming \cup {r} /\ reservation[r].status = "ACTIVE"
        /\ UNCHANGED <<balance, reservation>>
    BY <2>1 DEF W!BeginConsumption, W!Active
  <2>3. RowsFit' /\ Onward
    BY <1>1, <2>2, LockMoves
  <2>4. RunsFit' /\ run' \in [Worker -> Run]
    BY <1>1, <1>2, <2>1, <2>3, RunSteps DEF RunPc, r
  <2>5. confirming' \subseteq Reading
    BY <1>2, <2>2 DEF Typed
  <2> QED
    BY <1>3, <2>2, <2>3, <2>4, <2>5 DEF Typed
<1>6. CASE CommitConsumption(w)
  <2>1. W!CommitConsumption(r) /\ Step(w, "save") /\ run[w].pc = "confirm"
    BY <1>6 DEF CommitConsumption, RunAt, r
  <2>2. /\ r \in confirming /\ confirming' = confirming \ {r} /\ balance' = balance
        /\ reservation' = [reservation EXCEPT ![r].status = "CONSUMED"]
    BY <2>1 DEF W!CommitConsumption
  <2>3. reservation[r].status = "ACTIVE"
    BY <2>2 DEF RowsFit, Locked
  <2>4. r \in delivered
    BY <1>2, <2>1, <2>3 DEF RowsFit, SubmittedIsReserved, Written
  <2>5. RowsFit' /\ Onward
    BY <1>1, <1>2, <2>2, <2>3, <2>4, CloseMoves
  <2>6. reservation' \in [Reading -> W!Reservations]
    BY <1>2, <2>2, <2>3, CloseTyped
  <2>7. reservation'[r].status # "ACTIVE"
    BY <1>2, <2>2, <2>3, ReservationParts DEF Typed
  <2>8. RunsFit' /\ run' \in [Worker -> Run]
    BY <1>1, <1>2, <2>1, <2>4, <2>5, <2>7, RunSteps DEF RunPc, r
  <2> QED
    BY <1>3, <2>2, <2>5, <2>6, <2>8 DEF Typed
<1>7. CASE SettleRelease(w) /\ NotActive(r)
  <2>1. /\ UNCHANGED walletVars /\ Step(w, "save") /\ run[w].result = "FAILED"
    BY <1>7 DEF SettleRelease, r
  <2>2. RowsFit' /\ Onward
    BY <1>1, <2>1, RowsStay DEF walletVars
  <2>3. reservation'[r].status # "ACTIVE"
    BY <1>7, <2>1 DEF NotActive, walletVars
  <2>4. RunsFit' /\ run' \in [Worker -> Run]
    BY <1>1, <2>1, <2>2, <2>3, RunSteps DEF RunPc, r
  <2> QED
    BY <1>3, <2>1, <2>2, <2>4 DEF Typed, walletVars
<1>8. CASE SettleRelease(w) /\ ~NotActive(r)
  <2>1. W!ReleaseReservation(r) /\ Step(w, "save") /\ run[w].result = "FAILED"
    BY <1>8 DEF SettleRelease, r
  <2>2. /\ reservation' = [reservation EXCEPT ![r].status = "RELEASED"]
        /\ reservation[r].status = "ACTIVE" /\ r \notin confirming /\ confirming' = confirming
        /\ reservation' \in [Reading -> W!Reservations] /\ balance' \in [User -> Int]
    BY <1>2, <2>1, ReleaseTyped
  <2>3. RowsFit' /\ Onward
    BY <1>1, <1>2, <2>2, CloseMoves
  <2>4. reservation'[r].status # "ACTIVE"
    BY <1>2, <2>2, ReservationParts DEF Typed
  <2>5. RunsFit' /\ run' \in [Worker -> Run]
    BY <1>1, <2>1, <2>3, <2>4, RunSteps DEF RunPc, r
  <2> QED
    BY <1>3, <2>2, <2>3, <2>5 DEF Typed
<1> QED
  BY <1>4, <1>5, <1>6, <1>7, <1>8

\* A worker takes a job.
LEMMA PicksPreserve ==
    ASSUME IInv, NEW w \in Worker, NEW j \in Job, Pick(w, j)
    PROVE  IInv'
<1> USE DEF IInv
<1> DEFINE x == [pc |-> "load", job |-> j, result |-> "FAILED", owned |-> TRUE]
<1>1. UNCHANGED <<status, adProgress, delivered, walletVars, listener, req>>
  BY DEF Pick, dataVars
<1>2. Left(j[1])
  BY DEF Pick, JobsFit, FitJob
<1>3. RowsFit' /\ Onward
  BY <1>1, RowsStay DEF walletVars
<1>4. job' = [job EXCEPT ![j].state = "active"]
  BY DEF Pick
<1>5. job' \in [Job -> [state : JobState, made : Nat, stalls : Nat]]
  BY <1>4 DEF Typed, JobState
<1>6. \A i \in Job : job'[i] # job[i] => Left(i[1])
  BY <1>2, <1>4 DEF Typed
<1>7. JobsFit'
  BY <1>1, <1>3, <1>6, JobsMove
<1>8. RequestsFit'
  BY <1>1, <1>3, RequestsStay
<1>9. x \in Run /\ x.job = j /\ x.pc = "load" /\ run' = [run EXCEPT ![w] = x]
  BY DEF Pick, Run, RunPc
<1> HIDE DEF x
<1>10. FitRun(x)'
  BY <1>2, <1>3, <1>9, JobParts DEF FitRun, Onward
<1>11. RunsFit' /\ run' \in [Worker -> Run]
  BY <1>3, <1>9, <1>10, RunMoves
<1> QED
  BY <1>1, <1>3, <1>5, <1>7, <1>8, <1>11 DEF Typed, walletVars

\* onFailed releases the credits, marks the reading, or is cut short.
LEMMA ListenersPreserve ==
    ASSUME IInv, NEW j \in Job, ListenerStep(j) \/ LoseListener(j)
    PROVE  IInv'
<1> USE DEF IInv
<1>1. /\ listener[j] # "none" /\ UNCHANGED <<adProgress, delivered, job, run, req>>
      /\ \E s \in {"mark", "none"} : listener' = [listener EXCEPT ![j] = s]
  BY DEF ListenerStep, ListenerRelease, ListenerMark, LoseListener, dataVars
<1>2. j[1] \in Reading /\ Left(j[1])
  BY <1>1, JobParts DEF JobsFit, FitJob
<1>3. /\ listener' \in [Job -> {"none", "release", "mark"}]
      /\ \A i \in Job : i # j => listener'[i] = listener[i]
  BY <1>1 DEF Typed
<1>4. ASSUME RowsFit', Onward, status' \in [Reading -> Written \cup {"NONE", "DELETED"}],
             balance' \in [User -> Int], reservation' \in [Reading -> W!Reservations],
             confirming' = confirming, listener'[j] = "mark" => NotActive(j[1])'
      PROVE  IInv'
  <2>1. JobsFit'
    BY <1>1, <1>2, <1>3, <1>4, JobsMove
  <2>2. RunsFit' /\ RequestsFit'
    BY <1>1, <1>4, RunsStay, RequestsStay
  <2> QED
    BY <1>1, <1>3, <1>4, <2>1, <2>2 DEF Typed
<1>5. CASE ListenerRelease(j) /\ ~NotActive(j[1])
  <2>1. W!ReleaseReservation(j[1]) /\ UNCHANGED status
    BY <1>5 DEF ListenerRelease, dataVars
  <2>2. /\ reservation' = [reservation EXCEPT ![j[1]].status = "RELEASED"]
        /\ reservation[j[1]].status = "ACTIVE" /\ j[1] \notin confirming
        /\ confirming' = confirming
        /\ reservation' \in [Reading -> W!Reservations] /\ balance' \in [User -> Int]
    BY <1>2, <2>1, ReleaseTyped
  <2>3. RowsFit' /\ Onward /\ NotActive(j[1])'
    BY <1>1, <1>2, <2>1, <2>2, CloseMoves
  <2> QED
    BY <1>4, <2>1, <2>2, <2>3 DEF Typed
<1>6. CASE ListenerRelease(j) /\ NotActive(j[1])
  <2>1. UNCHANGED walletVars /\ UNCHANGED status
    BY <1>6 DEF ListenerRelease, dataVars
  <2>2. RowsFit' /\ Onward
    BY <1>1, <2>1, RowsStay DEF walletVars
  <2>3. NotActive(j[1])'
    BY <1>6, <2>1 DEF NotActive, walletVars
  <2> QED
    BY <1>4, <2>1, <2>2, <2>3 DEF Typed, walletVars
<1>7. CASE ListenerMark(j) \/ LoseListener(j)
  <2>1. UNCHANGED walletVars /\ listener' = [listener EXCEPT ![j] = "none"]
    BY <1>7 DEF ListenerMark, LoseListener
  <2>2. listener'[j] # "mark"
    BY <2>1 DEF Typed
  <2>3. CASE UNCHANGED status
    <3>1. RowsFit' /\ Onward
      BY <1>1, <2>1, <2>3, RowsStay DEF walletVars
    <3> QED
      BY <1>4, <2>1, <2>2, <2>3, <3>1 DEF Typed, walletVars
  <2>4. CASE ListenerMark(j) /\ status[j[1]] \in Written /\ status' = [status EXCEPT ![j[1]] = "FAILED"]
    <3>1. NotActive(j[1])
      BY <2>4 DEF ListenerMark, JobsFit, FitJob
    <3>2. RowsFit' /\ Onward
      BY <1>1, <1>2, <2>1, <2>4, <3>1, StatusMoves DEF Written, walletVars
    <3>3. status' \in [Reading -> Written \cup {"NONE", "DELETED"}]
      BY <2>4 DEF Typed, Written
    <3> QED
      BY <1>4, <2>1, <2>2, <3>2, <3>3 DEF Typed, walletVars
  <2> QED
    BY <1>7, <2>3, <2>4 DEF ListenerMark, LoseListener, dataVars
<1> QED
  BY <1>5, <1>6, <1>7 DEF ListenerStep

\* Nothing happens.
LEMMA StutterFits == IInv /\ UNCHANGED vars => IInv'
<1> SUFFICES ASSUME IInv, UNCHANGED vars PROVE IInv'
  OBVIOUS
<1> USE DEF IInv
<1>1. UNCHANGED <<status, adProgress, delivered, walletVars, job, listener, run, req>>
  BY DEF vars, dataVars
<1>2. RowsFit' /\ Onward
  BY <1>1, RowsStay DEF walletVars
<1>3. RunsFit' /\ JobsFit' /\ RequestsFit'
  BY <1>1, <1>2, RunsStay, JobsStay, RequestsStay
<1> QED
  BY <1>1, <1>2, <1>3 DEF Typed, walletVars

\* Every action preserves the invariant.
LEMMA FitPreserved == IInv /\ [Next]_vars => IInv'
<1> SUFFICES ASSUME IInv, [Next]_vars PROVE IInv'
  OBVIOUS
<1>1. ASSUME \/ \E u \in User : Register(u) \/ WatchAd(u)
             \/ \E r \in Reading : CreateReading(r)
             \/ \E q \in Request, r \in Reading :
                  BeginAnswer(q, r) \/ BeginSubmit(q, r) \/ BeginRetry(q, r) \/ BeginRemove(q, r)
      PROVE  IInv'
  BY <1>1, BeginningsPreserve
<1>2. ASSUME NEW q \in Request, RequestStep(q) \/ LoseRequest(q) PROVE IInv'
  BY <1>2, RequestsPreserve
<1>3. ASSUME NEW w \in Worker, NEW j \in Job, Pick(w, j) PROVE IInv'
  BY <1>3, PicksPreserve
<1>4. ASSUME NEW w \in Worker, RunStep(w) \/ LoseWorker(w) \/ LoseLock(w) PROVE IInv'
  BY <1>4, RunsPreserve, SettlementsPreserve, InterruptionsPreserve DEF RunStep
<1>5. ASSUME NEW j \in Job, ListenerStep(j) \/ LoseListener(j) PROVE IInv'
  BY <1>5, ListenersPreserve
<1>6. CASE UNCHANGED vars
  BY <1>6, StutterFits
<1> QED
  BY <1>1, <1>2, <1>3, <1>4, <1>5, <1>6 DEF Next

\* The invariant holds in every reachable state.
LEMMA AlwaysFit == Spec => []IInv
BY InitiallyFit, FitPreserved, PTL DEF Spec

-----------------------------------------------------------------------------
\* Theorems

\* Submission writes status and reservation together, and nothing ever separates
\* them: not a second submission, a retry nor a removal that checked earlier.
THEOREM SubmissionsAreReserved == Spec => []SubmittedIsReserved
<1>1. IInv => SubmittedIsReserved
  BY DEF IInv, RowsFit
<1> QED
  BY <1>1, AlwaysFit, PTL

\* A final status is written after the credits are settled, whoever writes it, and
\* no fault between the two leaves credits held by a finished reading.
THEOREM FinishedReadingsAreSettled == Spec => []TerminalIsSettled
<1>1. IInv => TerminalIsSettled
  BY DEF IInv, RowsFit
<1> QED
  BY <1>1, AlwaysFit, PTL

\* Credits are consumed, and COMPLETED is shown, only for what the AI delivered.
THEOREM OnlyDeliveriesAreCharged == Spec => []ChargedOnlyWhenDelivered
<1>1. IInv => ChargedOnlyWhenDelivered
  BY DEF IInv, RowsFit
<1> QED
  BY <1>1, AlwaysFit, PTL

-----------------------------------------------------------------------------
\* What is charged

\* No credits and no unlock leave anybody.
Gains == \A u \in User : balance'[u] >= balance[u] /\ adProgress'[u] >= adProgress[u]

\* Where neither is written nobody loses anything.
LEMMA NothingWritten ==
    ASSUME Typed, UNCHANGED <<balance, adProgress>>
    PROVE  Gains
BY DEF Gains, Typed

\* A transaction of consumption, and the deletion of a draft, move no credits.
LEMMA NoMovement ==
    ASSUME NEW r,
           \/ W!BeginConsumption(r) \/ W!CommitConsumption(r) \/ W!AbortConsumption(r)
           \/ W!DeleteReading(r) \/ W!InsertReading(r)
    PROVE  balance' = balance
BY DEF W!BeginConsumption, W!CommitConsumption, W!AbortConsumption, W!DeleteReading,
       W!InsertReading

\* Releasing adds credits.
LEMMA ReleaseGains ==
    ASSUME Typed, NEW r \in Reading, W!ReleaseReservation(r), UNCHANGED adProgress
    PROVE  Gains
BY ReleaseTyped DEF Gains, Typed

\* Every step but the commit of a submission only adds.
LEMMA OthersChargeNothing ==
    ASSUME IInv, [Next]_vars, ~\E q \in Request : CommitSubmit(q)
    PROVE  Gains
<1> USE DEF IInv
<1>1. ASSUME NEW u \in User, Register(u) \/ WatchAd(u) PROVE Gains
  <2>1. CASE Register(u)
    BY <2>1, RegisterTyped DEF Register, Gains, Typed, dataVars
  <2>2. CASE WatchAd(u)
    BY <2>2 DEF WatchAd, Gains, Typed, walletVars
  <2> QED
    BY <1>1, <2>1, <2>2
<1>2. ASSUME NEW r \in Reading, CreateReading(r) PROVE Gains
  BY <1>2, NoMovement, NothingWritten DEF CreateReading
<1>3. ASSUME NEW q \in Request, NEW r \in Reading,
             BeginAnswer(q, r) \/ BeginSubmit(q, r) \/ BeginRetry(q, r) \/ BeginRemove(q, r)
      PROVE  Gains
  <2>1. UNCHANGED <<balance, adProgress>>
    BY <1>3 DEF BeginAnswer, BeginSubmit, BeginRetry, BeginRemove, Begin, dataVars, walletVars
  <2> QED
    BY <2>1, NothingWritten
<1>4. ASSUME NEW q \in Request, RequestStep(q) \/ LoseRequest(q) PROVE Gains
  <2>1. CASE CommitRemove(q)
    <3>1. UNCHANGED <<balance, adProgress>>
      BY <2>1, NoMovement DEF CommitRemove, walletVars
    <3> QED
      BY <3>1, NothingWritten
  <2>2. CASE ~CommitRemove(q)
    <3>1. UNCHANGED <<balance, adProgress>>
      BY <1>4, <2>2 DEF RequestStep, SaveAnswer, RejectSubmit, EnqueueSubmitted, CommitRetry,
                        EnqueueRetry, LoseRequest, dataVars, walletVars
    <3> QED
      BY <3>1, NothingWritten
  <2> QED
    BY <2>1, <2>2
<1>5. ASSUME NEW w \in Worker,
             \/ Load(w) \/ MarkProcessing(w) \/ Execute(w, "COMPLETED") \/ Execute(w, "FAILED")
             \/ SaveResult(w) \/ Finish(w) \/ LoseLock(w) \/ \E j \in Job : Pick(w, j)
      PROVE  Gains
  <2>1. UNCHANGED <<balance, adProgress>>
    BY <1>5 DEF Load, MarkProcessing, Execute, SaveResult, Finish, LoseLock, Pick,
                dataVars, walletVars
  <2> QED
    BY <2>1, NothingWritten
<1>6. ASSUME NEW w \in Worker, Throw(w) \/ LoseWorker(w) PROVE Gains
  <2>1. RollBack(w) /\ UNCHANGED adProgress
    BY <1>6 DEF Throw, LoseWorker, dataVars
  <2>2. balance' = balance
    BY <2>1, NoMovement DEF RollBack, walletVars
  <2> QED
    BY <2>1, <2>2, NothingWritten
<1>7. ASSUME NEW w \in Worker,
             SettleConsumption(w) \/ CommitConsumption(w) \/ SettleRelease(w)
      PROVE  Gains
  <2>1. UNCHANGED adProgress /\ run[w] # NoRun
    BY <1>7 DEF SettleConsumption, CommitConsumption, SettleRelease, RunAt, dataVars
  <2>2. \/ W!BeginConsumption(Subject(w)) \/ W!CommitConsumption(Subject(w))
        \/ UNCHANGED walletVars \/ W!ReleaseReservation(Subject(w))
    BY <1>7 DEF SettleConsumption, CommitConsumption, SettleRelease
  <2>3. Subject(w) \in Reading
    BY <2>1, InHand
  <2>4. CASE W!ReleaseReservation(Subject(w))
    BY <2>1, <2>3, <2>4, ReleaseGains
  <2>5. CASE ~W!ReleaseReservation(Subject(w))
    <3>1. balance' = balance
      BY <2>2, <2>5, NoMovement DEF walletVars
    <3> QED
      BY <2>1, <3>1, NothingWritten
  <2> QED
    BY <2>4, <2>5
<1>8. ASSUME NEW j \in Job, ListenerStep(j) \/ LoseListener(j) PROVE Gains
  <2>1. UNCHANGED adProgress
    BY <1>8 DEF ListenerStep, ListenerRelease, ListenerMark, LoseListener, dataVars
  <2>2. UNCHANGED walletVars \/ W!ReleaseReservation(j[1])
    BY <1>8 DEF ListenerStep, ListenerRelease, ListenerMark, LoseListener
  <2>3. CASE W!ReleaseReservation(j[1])
    BY <2>1, <2>3, JobParts, ReleaseGains
  <2>4. CASE UNCHANGED walletVars
    BY <2>1, <2>4, NothingWritten DEF walletVars
  <2> QED
    BY <2>2, <2>3, <2>4
<1>9. CASE UNCHANGED vars
  BY <1>9, NothingWritten DEF vars, dataVars, walletVars
<1> QED
  BY <1>1, <1>2, <1>3, <1>4, <1>5, <1>6, <1>7, <1>8, <1>9 DEF Next, RequestStep, RunStep

\* What the commit of a submission takes: the unlock, or else the price, from the
\* owner alone, in the step that takes the reading from DRAFT to PENDING.
LEMMA SubmissionCharges ==
    ASSUME IInv, NEW q \in Request, CommitSubmit(q), NEW u \in User,
           balance'[u] < balance[u] \/ adProgress'[u] < adProgress[u]
    PROVE  \E r \in Reading :
             /\ Owner[r] = u /\ status[r] = "DRAFT" /\ status'[r] = "PENDING"
             /\ IF adProgress'[u] < adProgress[u]
                THEN r \in AdUnlockable /\ balance'[u] = balance[u]
                ELSE balance'[u] = balance[u] - Price
<1> USE DEF IInv
<1>1. PICK r \in Reading :
            /\ status' = [status EXCEPT ![r] = "PENDING"] /\ UNCHANGED delivered
            /\ W!ReserveCreditsForReading(Owner[r], r, CostOf(r))
            /\ adProgress' = IF Unlocked(r) THEN [adProgress EXCEPT ![Owner[r]] = 0]
                             ELSE adProgress
  BY RequestParts DEF CommitSubmit, At
<1>2. CostOf(r) \in {0, Price} /\ Owner[r] \in User
  BY CostTyped
<1>3. status[r] = "DRAFT" /\ status'[r] = "PENDING"
  BY <1>1, SubmitMoves
<1>4. balance' = [balance EXCEPT ![Owner[r]] = balance[Owner[r]] - CostOf(r)]
  BY <1>1, <1>2, ReserveTyped
<1>5. balance[u] \in Int /\ adProgress[u] \in Nat /\ Price \in Nat
  BY PriceAssumption DEF Typed
<1>6. Owner[r] = u
  <2> SUFFICES ASSUME Owner[r] # u PROVE FALSE
    OBVIOUS
  <2>1. balance'[u] = balance[u] /\ adProgress'[u] = adProgress[u]
    BY <1>1, <1>2, <1>4 DEF Typed
  <2> QED
    BY <1>5, <2>1
<1>7. balance'[u] = balance[u] - CostOf(r)
  BY <1>4, <1>6 DEF Typed
<1>8. CASE Unlocked(r)
  <2>1. CostOf(r) = 0 /\ r \in AdUnlockable /\ adProgress[u] >= AdsRequired
    BY <1>6, <1>8 DEF CostOf, Unlocked
  <2>2. adProgress'[u] = 0 /\ adProgress[u] > 0
    BY <1>1, <1>5, <1>6, <1>8, <2>1, AdsAssumption DEF Typed
  <2>3. adProgress'[u] < adProgress[u] /\ balance'[u] = balance[u]
    BY <1>5, <1>7, <2>1, <2>2
  <2> QED
    BY <1>3, <1>6, <2>1, <2>3
<1>9. CASE ~Unlocked(r)
  <2>1. CostOf(r) = Price /\ adProgress' = adProgress
    BY <1>1, <1>9 DEF CostOf
  <2>2. ~(adProgress'[u] < adProgress[u])
    BY <1>5, <2>1
  <2> QED
    BY <1>3, <1>6, <1>7, <2>1, <2>2
<1> QED
  BY <1>8, <1>9

\* A reading is charged once, when it is submitted, with the unlock or with the
\* price: whatever is retried, repeated or lost afterwards charges nothing.
THEOREM OnlySubmissionsAreCharged == Spec => OnlySubmissionCharges
<1> DEFINE Charge ==
      \A u \in User :
          balance'[u] < balance[u] \/ adProgress'[u] < adProgress[u] =>
            \E r \in Reading :
                /\ Owner[r] = u /\ status[r] = "DRAFT" /\ status'[r] = "PENDING"
                /\ IF adProgress'[u] < adProgress[u]
                   THEN r \in AdUnlockable /\ balance'[u] = balance[u]
                   ELSE balance'[u] = balance[u] - Price
<1>1. ASSUME IInv, [Next]_vars PROVE Charge
  <2>1. CASE \E q \in Request : CommitSubmit(q)
    BY <1>1, <2>1, SubmissionCharges
  <2>2. CASE ~\E q \in Request : CommitSubmit(q)
    <3>1. Gains
      BY <1>1, <2>2, OthersChargeNothing
    <3>2. \A u \in User : ~(balance'[u] < balance[u]) /\ ~(adProgress'[u] < adProgress[u])
      <4>1. \A u \in User : balance[u] \in Int /\ balance'[u] \in Int
        BY <1>1, FitPreserved DEF IInv, Typed
      <4>2. \A u \in User : adProgress[u] \in Int /\ adProgress'[u] \in Int
        BY <1>1, FitPreserved DEF IInv, Typed
      <4> QED
        BY <3>1, <4>1, <4>2 DEF Gains
    <3> QED
      BY <3>2
  <2> QED
    BY <2>1, <2>2
<1>2. IInv /\ [Next]_vars => [Charge]_vars
  BY <1>1
<1>3. [][Charge]_vars <=> OnlySubmissionCharges
  BY DEF OnlySubmissionCharges
<1> QED
  BY <1>2, <1>3, AlwaysFit, PTL DEF Spec

-----------------------------------------------------------------------------
\* Readings over the wallet

\* The tables Readings leaves out are empty in the wallet it uses.
LEMMA WalletStartsEmpty == Init => W!Init
<1> SUFFICES ASSUME Init PROVE W!Init
  OBVIOUS
<1>1. rows = [r \in Reading |-> "absent"]
  BY DEF Init, rows
<1> QED
  BY <1>1 DEF Init, W!Init

\* The wallet does not see the status of a reading, only whether there is a row.
LEMMA RowsUnseen ==
    ASSUME Typed, \A r \in Reading : status'[r] = status[r] \/ (status[r] \in Written /\ status'[r] \in Written),
           UNCHANGED walletVars
    PROVE  UNCHANGED W!vars
<1>1. rows' = rows
  <2>1. \A r \in Reading :
          (CASE status'[r] = "NONE" -> "absent" [] status'[r] = "DELETED" -> "deleted" [] OTHER -> "present")
          = (CASE status[r] = "NONE" -> "absent" [] status[r] = "DELETED" -> "deleted" [] OTHER -> "present")
    BY DEF Written
  <2> QED
    BY <2>1 DEF rows
<1> QED
  BY <1>1 DEF W!vars, walletVars

\* The status of a reading that has a row becomes another one it has a row with.
LEMMA StatusUnseen ==
    ASSUME Typed, NEW r \in Reading, NEW s \in Written, status[r] \in Written,
           status' = [status EXCEPT ![r] = s], UNCHANGED walletVars
    PROVE  UNCHANGED W!vars
BY RowsUnseen DEF Typed

\* A step is an operation of the wallet, or leaves it alone.
LEMMA StepOfWallet ==
    ASSUME IInv, [Next]_vars
    PROVE  [W!Next]_(W!vars)
<1> USE DEF IInv
<1>1. ASSUME UNCHANGED <<status, walletVars>> PROVE UNCHANGED W!vars
  BY <1>1, RowsUnseen
<1>2. ASSUME NEW u \in User, Register(u) \/ WatchAd(u) PROVE [W!Next]_(W!vars)
  <2>1. CASE Register(u)
    BY <2>1 DEF Register, W!Next
  <2>2. CASE WatchAd(u)
    BY <1>1, <2>2 DEF WatchAd
  <2> QED
    BY <1>2, <2>1, <2>2
<1>3. ASSUME NEW r \in Reading, CreateReading(r) PROVE W!Next
  BY <1>3 DEF CreateReading, W!Next
<1>4. ASSUME NEW q \in Request, NEW r \in Reading,
             BeginAnswer(q, r) \/ BeginSubmit(q, r) \/ BeginRetry(q, r) \/ BeginRemove(q, r)
      PROVE  UNCHANGED W!vars
  BY <1>1, <1>4 DEF BeginAnswer, BeginSubmit, BeginRetry, BeginRemove, Begin, dataVars
<1>5. ASSUME NEW q \in Request,
             SaveAnswer(q) \/ RejectSubmit(q) \/ EnqueueSubmitted(q) \/ EnqueueRetry(q) \/ LoseRequest(q)
      PROVE  UNCHANGED W!vars
  BY <1>1, <1>5 DEF SaveAnswer, RejectSubmit, EnqueueSubmitted, EnqueueRetry, LoseRequest, dataVars
<1>6. ASSUME NEW q \in Request, CommitSubmit(q) PROVE W!Next
  <2>1. PICK r \in Reading : W!ReserveCreditsForReading(Owner[r], r, CostOf(r))
    BY <1>6, RequestParts DEF CommitSubmit, At
  <2>2. Owner[r] \in User /\ CostOf(r) \in {0, Price}
    BY CostTyped
  <2> QED
    BY <2>1, <2>2 DEF W!Next
<1>7. ASSUME NEW q \in Request, CommitRetry(q) PROVE UNCHANGED W!vars
  <2>1. req[q].reading \in Reading /\ UNCHANGED walletVars
    BY <1>7, RequestParts DEF CommitRetry, At
  <2>2. CASE status[req[q].reading] \in Written
    <3>1. status' = [status EXCEPT ![req[q].reading] = "PENDING"]
      BY <1>7, <2>2 DEF CommitRetry
    <3> QED
      BY <2>1, <2>2, <3>1, StatusUnseen DEF Written
  <2>3. CASE status[req[q].reading] \notin Written
    BY <1>1, <1>7, <2>3 DEF CommitRetry
  <2> QED
    BY <2>2, <2>3
<1>8. ASSUME NEW q \in Request, CommitRemove(q) PROVE [W!Next]_(W!vars)
  <2>1. req[q].reading \in Reading
    BY <1>8, RequestParts DEF CommitRemove, At
  <2>2. CASE status[req[q].reading] \in Written
    <3>1. W!DeleteReading(req[q].reading)
      BY <1>8, <2>2 DEF CommitRemove
    <3> QED
      BY <2>1, <3>1 DEF W!Next
  <2>3. CASE status[req[q].reading] \notin Written
    BY <1>1, <1>8, <2>3 DEF CommitRemove
  <2> QED
    BY <2>2, <2>3
<1>9. ASSUME NEW w \in Worker,
             \/ Load(w) \/ Execute(w, "COMPLETED") \/ Execute(w, "FAILED") \/ Finish(w)
             \/ LoseLock(w) \/ \E j \in Job : Pick(w, j)
      PROVE  UNCHANGED W!vars
  BY <1>1, <1>9 DEF Load, Execute, Finish, LoseLock, Pick, dataVars
<1>10. ASSUME NEW w \in Worker, MarkProcessing(w) \/ SaveResult(w) PROVE UNCHANGED W!vars
  <2>1. /\ Subject(w) \in Reading /\ run[w].result \in {"COMPLETED", "FAILED"}
        /\ status[Subject(w)] \in Written /\ UNCHANGED walletVars
    BY <1>10, InHand DEF MarkProcessing, SaveResult, RunAt
  <2>2. PICK s \in Written : status' = [status EXCEPT ![Subject(w)] = s]
    BY <1>10, <2>1 DEF MarkProcessing, SaveResult, Written
  <2> QED
    BY <2>1, <2>2, StatusUnseen
<1>11. ASSUME NEW w \in Worker, Throw(w) \/ LoseWorker(w) PROVE [W!Next]_(W!vars)
  <2>1. /\ Subject(w) \in Reading /\ RollBack(w) /\ UNCHANGED status
    BY <1>11, InHand DEF Throw, LoseWorker, dataVars
  <2>2. CASE W!AbortConsumption(Subject(w))
    BY <2>1, <2>2 DEF W!Next
  <2>3. CASE UNCHANGED walletVars
    BY <1>1, <2>1, <2>3
  <2> QED
    BY <2>1, <2>2, <2>3 DEF RollBack
<1>12. ASSUME NEW w \in Worker,
              SettleConsumption(w) \/ CommitConsumption(w) \/ SettleRelease(w)
       PROVE  [W!Next]_(W!vars)
  <2>1. Subject(w) \in Reading /\ UNCHANGED status
    BY <1>12, InHand DEF SettleConsumption, CommitConsumption, SettleRelease, RunAt, dataVars
  <2>2. CASE \/ W!BeginConsumption(Subject(w)) \/ W!CommitConsumption(Subject(w))
             \/ W!ReleaseReservation(Subject(w))
    BY <2>1, <2>2 DEF W!Next
  <2>3. CASE UNCHANGED walletVars
    BY <1>1, <2>1, <2>3
  <2> QED
    BY <1>12, <2>2, <2>3 DEF SettleConsumption, CommitConsumption, SettleRelease
<1>13. ASSUME NEW j \in Job, ListenerRelease(j) PROVE [W!Next]_(W!vars)
  <2>1. CASE W!ReleaseReservation(j[1])
    BY <2>1, JobParts DEF W!Next
  <2>2. CASE UNCHANGED walletVars
    BY <1>1, <1>13, <2>2 DEF ListenerRelease, dataVars
  <2> QED
    BY <1>13, <2>1, <2>2 DEF ListenerRelease
<1>14. ASSUME NEW j \in Job, ListenerMark(j) \/ LoseListener(j) PROVE UNCHANGED W!vars
  <2>1. CASE UNCHANGED status
    BY <1>1, <1>14, <2>1 DEF ListenerMark, LoseListener
  <2>2. CASE status[j[1]] \in Written /\ status' = [status EXCEPT ![j[1]] = "FAILED"]
    BY <1>14, <2>2, JobParts, StatusUnseen DEF ListenerMark, LoseListener, Written
  <2> QED
    BY <1>14, <2>1, <2>2 DEF ListenerMark, LoseListener, dataVars
<1>15. CASE UNCHANGED vars
  BY <1>1, <1>15 DEF vars, dataVars
<1>16. ASSUME NEW q \in Request, RequestStep(q) PROVE [W!Next]_(W!vars)
  BY <1>5, <1>6, <1>7, <1>8, <1>16 DEF RequestStep
<1>17. ASSUME NEW w \in Worker, RunStep(w) PROVE [W!Next]_(W!vars)
  BY <1>9, <1>10, <1>11, <1>12, <1>17 DEF RunStep
<1> QED
  BY <1>2, <1>3, <1>4, <1>5, <1>9, <1>11, <1>13, <1>14, <1>15, <1>16, <1>17 DEF Next, ListenerStep

\* The lifecycle of readings moves credits only by what WalletService does, each
\* operation within one step, so that the theorems of WalletProofs hold for it.
THEOREM ReadingsUseTheWallet == Spec => ImplementsWallet
<1>1. Init => W!Init
  BY WalletStartsEmpty
<1>2. IInv /\ [Next]_vars => [W!Next]_(W!vars)
  BY StepOfWallet
<1> QED
  BY <1>1, <1>2, AlwaysFit, PTL DEF Spec, W!Spec, ImplementsWallet

-----------------------------------------------------------------------------
\* The theorems about WalletService alone, of this wallet.
WP == INSTANCE WalletProofs WITH
    Order <- {}, Credits <- {}, Adjustment <- {}, MaxAdjustments <- 0,
    Cost <- {0, Price}

\* It is the same wallet, and what Wallet assumes of its constants holds.
LEMMA SameWallet ==
    /\ W!Spec => WP!Spec
    /\ {0, Price} \subseteq Nat
    /\ InitialBonus \in Nat
<1>1. W!Init => WP!Init
  BY DEF W!Init, WP!Init, W!NoReservation, WP!NoReservation
<1>2. W!Next <=> WP!Next
  BY DEF W!Next, WP!Next,
         W!CreateWalletWithBonus, WP!CreateWalletWithBonus, W!InsertReading,
         WP!InsertReading, W!DeleteReading, WP!DeleteReading, W!ReserveCreditsForReading,
         WP!ReserveCreditsForReading, W!BeginConsumption, WP!BeginConsumption,
         W!CommitConsumption, WP!CommitConsumption, W!AbortConsumption,
         WP!AbortConsumption, W!ReleaseReservation, WP!ReleaseReservation,
         W!CreditPurchase, WP!CreditPurchase, W!AdjustBalance, WP!AdjustBalance, W!Move,
         WP!Move, W!Post, WP!Post, W!Recorded, WP!Recorded, W!Active, WP!Active,
         W!NoReservation, WP!NoReservation
<1>3. [W!Next]_(W!vars) => [WP!Next]_(WP!vars)
  BY <1>2 DEF W!vars, WP!vars
<1>4. W!Spec => WP!Spec
  BY <1>1, <1>3, PTL DEF W!Spec, WP!Spec
<1> QED
  BY <1>4, PriceAssumption, InitialBonusAssumption

\* Readings that are submitted, retried, removed and lost never overdraw a wallet,
\* lose a movement of its ledger, charge a reading twice or both charge and refund
\* it: no fault of a worker or of a request comes between what Wallet keeps together.
THEOREM ReadingsKeepTheLedger ==
    Spec => [](/\ W!NonNegativeBalance /\ W!LedgerReconciles
               /\ W!ReservationsMatchLedger /\ W!ConsumptionShowsAPastBalance)
<1>1. WP!Spec => /\ []WP!NonNegativeBalance /\ []WP!LedgerReconciles
                 /\ []WP!ReservationsMatchLedger /\ []WP!ConsumptionShowsAPastBalance
  BY SameWallet, WP!NeverOverdrawn, WP!LedgerAlwaysReconciles,
     WP!ReservationsAlwaysMatchLedger, WP!ConsumptionsShowAPastBalance
<1>2. WP!NonNegativeBalance => W!NonNegativeBalance
  BY DEF W!NonNegativeBalance, WP!NonNegativeBalance
<1>3. WP!LedgerReconciles => W!LedgerReconciles
  BY DEF W!LedgerReconciles, WP!LedgerReconciles, W!Reconciled, WP!Reconciled,
         W!Moves, WP!Moves
<1>4. WP!ReservationsMatchLedger => W!ReservationsMatchLedger
  BY DEF W!ReservationsMatchLedger, WP!ReservationsMatchLedger, W!Recorded, WP!Recorded
<1>5. WP!ConsumptionShowsAPastBalance => W!ConsumptionShowsAPastBalance
  BY DEF W!ConsumptionShowsAPastBalance, WP!ConsumptionShowsAPastBalance
<1> QED
  BY <1>1, <1>2, <1>3, <1>4, <1>5, SameWallet, ReadingsUseTheWallet, PTL DEF ImplementsWallet
=============================================================================
