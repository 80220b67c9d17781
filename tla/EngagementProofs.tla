--------------------------- MODULE EngagementProofs ---------------------------
(***************************************************************************)
(* Theorems of what brings a user back: of Rewards, for all finite sets of *)
(* sessions and of requests, any set of orders, any number of ads required *)
(* and any number of days; and of Sharing, for every set of links,         *)
(* requests, visitors and workers, and any number of attempts, stalls and  *)
(* faults.                                                                 *)
(*                                                                         *)
(* The two share nothing but this module: each theorem is of one           *)
(* specification, Spec (Rewards) or SharingSpec.                           *)
(***************************************************************************)
EXTENDS Rewards, Sharing, FiniteSetTheorems, TLAPS

Offer == {"open", "consumed", "lapsed"}

\* The part of TypeOK the arguments need.
Typed ==
    /\ session \in [Session -> {NoSession} \cup [status : SessionStatus, type : RewardType]]
    /\ transaction \in [Session -> Nat]
    /\ progress \in [RewardType -> Nat]
    /\ freeReadings \in Nat
    /\ cards \subseteq 1..MaxDays
    /\ offers \in Seq(Offer)
    /\ order \in [Order -> {NoOrder} \cup [day : Nat, offer : Nat]]
    /\ task \in [Task -> Tasks]
    /\ day \in 1..MaxDays

\* What a request or an order refers to is there: rows are not deleted.
Known ==
    /\ \A a \in Task : task[a].kind \in {"complete", "expire"} =>
         session[task[a].session] # NoSession
    /\ \A a \in Task : task[a].kind = "order" => task[a].offer <= Len(offers)
    /\ \A o \in Order : order[o] # NoOrder => order[o].offer <= Len(offers)

\* Requests that have paid for the card they will deliver, or lose.
Deliveries == {a \in Task : task[a].kind = "deliver" /\ task[a].date > FreeDays}

PaidCards == cards \ (1..FreeDays)

\* AdsPayForUnlocks for each reward, counting what has been paid and not delivered.
Covered ==
    /\ AdsRequired["TAROT_READING"] * freeReadings + progress["TAROT_READING"]
         <= Cardinality(Completed("TAROT_READING"))
    /\ AdsRequired["DAILY_CARD"] * (Cardinality(PaidCards) + Cardinality(Deliveries))
         + progress["DAILY_CARD"] <= Cardinality(Completed("DAILY_CARD"))
    /\ AdsRequired["FLASH_OFFER"] * Len(offers) + progress["FLASH_OFFER"]
         <= Cardinality(Completed("FLASH_OFFER"))

\* The properties are not inductive: an order takes the offer its request read, a
\* card is delivered some steps after the unlock was consumed.
IInv == Typed /\ Known /\ RewardedWhenCompleted /\ OfferUsedOnce /\ Covered

-----------------------------------------------------------------------------
\* Another unlock costs as much as each one before it.
LEMMA OneMore ==
    ASSUME NEW m \in Nat, NEW n \in Nat
    PROVE  m * n \in Nat /\ m * (n + 1) = m * n + m
OBVIOUS

\* Fewer unlocks cost no more.
LEMMA NoMore ==
    ASSUME NEW m \in Nat, NEW n \in Nat, NEW k \in Nat, k <= n
    PROVE  m * k \in Nat /\ m * n \in Nat /\ m * k <= m * n
OBVIOUS

\* Everything that is counted is finite.
LEMMA Countable ==
    ASSUME cards \subseteq 1..MaxDays
    PROVE  /\ \A t : IsFiniteSet(Completed(t)) /\ Cardinality(Completed(t)) \in Nat
           /\ IsFiniteSet(PaidCards) /\ Cardinality(PaidCards) \in Nat
           /\ IsFiniteSet(Deliveries) /\ Cardinality(Deliveries) \in Nat
<1>1. ASSUME NEW S, NEW T, IsFiniteSet(T), S \subseteq T
      PROVE  IsFiniteSet(S) /\ Cardinality(S) \in Nat
  BY <1>1, FS_Subset, FS_CardinalityType
<1>2. IsFiniteSet(1..MaxDays)
  BY LimitsAssumption, FS_Interval
<1>3. PaidCards \subseteq 1..MaxDays /\ Deliveries \subseteq Task
  BY DEF PaidCards, Deliveries
<1>4. \A t : Completed(t) \subseteq Session
  BY DEF Completed
<1>5. \A t : IsFiniteSet(Completed(t)) /\ Cardinality(Completed(t)) \in Nat
  BY <1>1, <1>4, FiniteAssumption
<1>6. IsFiniteSet(PaidCards) /\ Cardinality(PaidCards) \in Nat
  BY <1>1, <1>2, <1>3
<1>7. IsFiniteSet(Deliveries) /\ Cardinality(Deliveries) \in Nat
  BY <1>1, <1>3, FiniteAssumption
<1> QED
  BY <1>5, <1>6, <1>7

\* A part has no more elements.
LEMMA Fewer ==
    ASSUME NEW S, NEW T, IsFiniteSet(T), S \subseteq T
    PROVE  Cardinality(S) \in Nat /\ Cardinality(T) \in Nat /\ Cardinality(S) <= Cardinality(T)
<1>1. IsFiniteSet(S) /\ Cardinality(S) <= Cardinality(T)
  BY FS_Subset
<1> QED
  BY <1>1, FS_CardinalityType

\* What a request of each kind carries.
LEMMA Kinds ==
    ASSUME Typed, NEW a \in Task
    PROVE  /\ task[a].kind = "session" => task[a].type \in RewardType
           /\ task[a].kind \in {"complete", "expire"} => task[a].session \in Session
           /\ task[a].kind \in {"unlock", "deliver"} => task[a].date \in 1..MaxDays
           /\ task[a].kind = "order" => task[a].order \in Order /\ task[a].offer \in Nat
<1>1. task[a] \in Tasks
  BY DEF Typed
<1>2. CASE task[a] = Idle
  BY <1>2 DEF Idle
<1>3. CASE task[a] \in [kind : {"session"}, type : RewardType]
  BY <1>3
<1>4. CASE task[a] \in [kind : {"complete", "expire"}, session : Session]
  BY <1>4
<1>5. CASE task[a] \in [kind : {"unlock", "deliver"}, date : 1..MaxDays]
  BY <1>5
<1>6. CASE task[a] \in [kind : {"order"}, order : Order, offer : Nat]
  BY <1>6
<1> QED
  BY <1>1, <1>2, <1>3, <1>4, <1>5, <1>6 DEF Tasks

\* A request that is about to consume the unlock of a card.
LEMMA UnlockKind ==
    ASSUME Typed, NEW a \in Task, task[a].kind \in {"unlock", "deliver"}
    PROVE  task[a] \in [kind : {"unlock", "deliver"}, date : 1..MaxDays]
<1>1. task[a] \in Tasks
  BY DEF Typed
<1>2. task[a] # Idle
  BY DEF Idle
<1>3. task[a] \notin [kind : {"session"}, type : RewardType]
  OBVIOUS
<1>4. task[a] \notin [kind : {"complete", "expire"}, session : Session]
  OBVIOUS
<1>5. task[a] \notin [kind : {"order"}, order : Order, offer : Nat]
  OBVIOUS
<1> QED
  BY <1>1, <1>2, <1>3, <1>4, <1>5 DEF Tasks

\* Initially nobody has watched, bought or applied anything.
LEMMA InitiallyCovered == Init => IInv
<1> SUFFICES ASSUME Init PROVE IInv
  OBVIOUS
<1>1. Typed
  <2>1. offers \in Seq(Offer)
    BY DEF Init
  <2>2. task \in [Task -> Tasks]
    BY DEF Init, Tasks
  <2>3. progress \in [RewardType -> Nat] /\ freeReadings \in Nat /\ day \in 1..MaxDays
        /\ cards \subseteq 1..MaxDays /\ transaction \in [Session -> Nat]
    BY LimitsAssumption DEF Init
  <2>4. session \in [Session -> {NoSession}] /\ order \in [Order -> {NoOrder}]
    BY DEF Init
  <2> QED
    BY <2>1, <2>2, <2>3, <2>4 DEF Typed
<1>5. Known
  BY DEF Init, Known, Idle
<1>2. RewardedWhenCompleted /\ OfferUsedOnce
  BY DEF Init, RewardedWhenCompleted, OfferUsedOnce, NoSession
<1>3. Deliveries = {} /\ PaidCards = {} /\ \A t : Completed(t) = {}
  BY DEF Init, Deliveries, PaidCards, Completed, Idle
<1>4. Covered
  <2>1. Cardinality({}) = 0
    BY FS_EmptySet
  <2>2. /\ Cardinality(PaidCards) = 0 /\ Cardinality(Deliveries) = 0
        /\ \A t \in RewardType : Cardinality(Completed(t)) = 0
    BY <1>3, <2>1
  <2>3. freeReadings = 0 /\ Len(offers) = 0 /\ \A t \in RewardType : progress[t] = 0
    BY DEF Init
  <2>4. \A t \in RewardType : AdsRequired[t] \in Nat
    BY AdsRequiredAssumption
  <2> QED
    BY <2>2, <2>3, <2>4 DEF Covered, RewardType
<1> QED
  BY <1>1, <1>2, <1>4, <1>5 DEF IInv

\* What is bought stays covered while ads are only added and the cards paid for,
\* delivered or not, are no more.
LEMMA StaysFunded ==
    ASSUME Typed, Covered,
           Cardinality(PaidCards') + Cardinality(Deliveries') \in Nat,
           Cardinality(PaidCards') + Cardinality(Deliveries')
             <= Cardinality(PaidCards) + Cardinality(Deliveries),
           \A t \in RewardType : Completed(t) \subseteq Completed(t)',
           UNCHANGED <<progress, freeReadings>>, Len(offers') = Len(offers)
    PROVE  Covered'
<1>1. Cardinality(PaidCards) + Cardinality(Deliveries) \in Nat
  BY Countable DEF Typed
<1>2. /\ \A t \in RewardType : /\ Cardinality(Completed(t)) \in Nat
                               /\ Cardinality(Completed(t)') \in Nat
                               /\ Cardinality(Completed(t)) <= Cardinality(Completed(t)')
  <2>1. ASSUME NEW t \in RewardType PROVE IsFiniteSet(Completed(t)')
    <3>1. Completed(t)' \subseteq Session
      BY DEF Completed
    <3> QED
      BY <3>1, FiniteAssumption, FS_Subset
  <2> QED
    BY <2>1, Countable, Fewer DEF Typed
<1>3. AdsRequired["DAILY_CARD"] * (Cardinality(PaidCards') + Cardinality(Deliveries'))
        <= AdsRequired["DAILY_CARD"] * (Cardinality(PaidCards) + Cardinality(Deliveries))
  <2>1. AdsRequired["DAILY_CARD"] \in Nat
    BY AdsRequiredAssumption DEF RewardType
  <2> QED
    BY <1>1, <2>1, NoMore
<1>4. /\ progress["TAROT_READING"] \in Nat /\ progress["DAILY_CARD"] \in Nat
      /\ progress["FLASH_OFFER"] \in Nat
  BY DEF Typed, RewardType
<1>5. freeReadings \in Nat /\ Len(offers) \in Nat
  BY DEF Typed
<1>6. \A t \in RewardType : AdsRequired[t] \in Nat
  BY AdsRequiredAssumption
<1>7. "TAROT_READING" \in RewardType /\ "DAILY_CARD" \in RewardType /\ "FLASH_OFFER" \in RewardType
  BY DEF RewardType
<1> DEFINE A == AdsRequired["TAROT_READING"] * freeReadings
           B == AdsRequired["DAILY_CARD"] * (Cardinality(PaidCards) + Cardinality(Deliveries))
           C == AdsRequired["FLASH_OFFER"] * Len(offers)
<1>8. A \in Nat /\ B \in Nat /\ C \in Nat
  <2>1. A \in Nat
    BY <1>5, <1>6, <1>7, OneMore
  <2>2. B \in Nat
    <3> DEFINE n == Cardinality(PaidCards) + Cardinality(Deliveries)
               m == AdsRequired["DAILY_CARD"]
    <3>1. m \in Nat /\ n \in Nat
      BY <1>1, <1>6, <1>7
    <3> HIDE DEF m, n
    <3>2. m * n \in Nat
      BY <3>1, OneMore
    <3> QED
      BY <3>2 DEF m, n
  <2>3. C \in Nat
    BY <1>5, <1>6, <1>7, OneMore
  <2> HIDE DEF A, B, C
  <2> QED
    BY <2>1, <2>2, <2>3
<1>9. AdsRequired["DAILY_CARD"] * (Cardinality(PaidCards') + Cardinality(Deliveries')) \in Nat
  BY <1>6, <1>7, OneMore
<1>10. /\ A + progress["TAROT_READING"] <= Cardinality(Completed("TAROT_READING")')
       /\ C + progress["FLASH_OFFER"] <= Cardinality(Completed("FLASH_OFFER")')
  <2>1. /\ A + progress["TAROT_READING"] <= Cardinality(Completed("TAROT_READING"))
        /\ C + progress["FLASH_OFFER"] <= Cardinality(Completed("FLASH_OFFER"))
    BY DEF Covered
  <2> HIDE DEF A, B, C
  <2>2. A + progress["TAROT_READING"] <= Cardinality(Completed("TAROT_READING")')
    BY <2>1, <1>2, <1>4, <1>7, <1>8
  <2>3. C + progress["FLASH_OFFER"] <= Cardinality(Completed("FLASH_OFFER")')
    BY <2>1, <1>2, <1>4, <1>7, <1>8
  <2> QED
    BY <2>2, <2>3
<1>11. AdsRequired["DAILY_CARD"] * (Cardinality(PaidCards') + Cardinality(Deliveries'))
         + progress["DAILY_CARD"] <= Cardinality(Completed("DAILY_CARD")')
  <2>1. B + progress["DAILY_CARD"] <= Cardinality(Completed("DAILY_CARD"))
    BY DEF Covered
  <2>2. AdsRequired["DAILY_CARD"] * (Cardinality(PaidCards') + Cardinality(Deliveries')) <= B
    BY <1>3
  <2> HIDE DEF B
  <2> QED
    BY <2>1, <2>2, <1>2, <1>4, <1>7, <1>8, <1>9
<1> QED
  BY <1>10, <1>11 DEF Covered

\* No card is delivered: deliveries only end.
LEMMA StaysCovered ==
    ASSUME Typed, Covered, cards' = cards,
           Deliveries' \subseteq Deliveries,
           \A t \in RewardType : Completed(t) \subseteq Completed(t)',
           UNCHANGED <<progress, freeReadings>>, Len(offers') = Len(offers)
    PROVE  Covered'
<1>1. PaidCards' = PaidCards
  BY DEF PaidCards
<1>2. /\ Cardinality(PaidCards) \in Nat
      /\ Cardinality(Deliveries) \in Nat /\ Cardinality(Deliveries') \in Nat
      /\ Cardinality(Deliveries') <= Cardinality(Deliveries)
  BY Countable, Fewer DEF Typed
<1> QED
  BY <1>1, <1>2, StaysFunded

-----------------------------------------------------------------------------
\* A request goes on with what it has read, or ends or is lost.
LEMMA RequestPreserves ==
    ASSUME IInv, NEW a \in Task, NEW r \in Tasks, task' = [task EXCEPT ![a] = r],
           r.kind \in {"complete", "expire"} => session[r.session] # NoSession,
           r.kind = "order" => r.offer <= Len(offers),
           r.kind = "deliver" => r.date <= FreeDays,
           UNCHANGED <<session, transaction, progress, freeReadings, cards, offers, order, day>>
    PROVE  IInv'
<1>1. Typed'
  BY DEF IInv, Typed
<1>2. Known'
  BY DEF IInv, Known, Typed
<1>3. RewardedWhenCompleted' /\ OfferUsedOnce'
  BY DEF IInv, RewardedWhenCompleted, OfferUsedOnce
<1>4. Deliveries' \subseteq Deliveries
  <2>1. FreeDays \in Nat /\ (r.kind = "deliver" => r.date \in Nat)
    BY LimitsAssumption DEF Tasks, Idle
  <2> QED
    BY <2>1 DEF Deliveries, IInv, Typed
<1>5. \A t \in RewardType : Completed(t) \subseteq Completed(t)'
  BY DEF Completed
<1> QED
  BY <1>1, <1>2, <1>3, <1>4, <1>5, StaysCovered DEF IInv

\* A session is asked for.
LEMMA BeginSessionPreserves ==
    ASSUME IInv, NEW a \in Task, NEW t \in RewardType, BeginSession(a, t)
    PROVE  IInv'
<1>1. [kind |-> "session", type |-> t] \in Tasks
  BY DEF Tasks
<1> QED
  BY <1>1, RequestPreserves DEF BeginSession, Become

\* A callback reads the session of its ad.
LEMMA CallbackPreserves ==
    ASSUME IInv, NEW a \in Task, NEW s \in Session, Callback(a, s)
    PROVE  IInv'
<1>1. PICK k \in {"complete", "expire"} : task' = [task EXCEPT ![a] = [kind |-> k, session |-> s]]
  BY DEF Callback, Become
<1>2. [kind |-> k, session |-> s] \in Tasks
  BY DEF Tasks
<1>3. session[s] # NoSession
  BY DEF Callback, NoSession
<1> QED
  BY <1>1, <1>2, <1>3, RequestPreserves DEF Callback

\* The card of the day is delivered without an unlock in the free days only.
LEMMA BeginCardPreserves ==
    ASSUME IInv, NEW a \in Task, BeginCard(a)
    PROVE  IInv'
<1>1. PICK k \in {"deliver", "unlock"} :
        /\ task' = [task EXCEPT ![a] = [kind |-> k, date |-> day]]
        /\ k = "deliver" => day <= FreeDays
  BY DEF BeginCard, Become
<1>2. [kind |-> k, date |-> day] \in Tasks
  BY DEF Tasks, IInv, Typed
<1> QED
  BY <1>1, <1>2, RequestPreserves DEF BeginCard

\* An order reads the latest open offer.
LEMMA BeginOrderPreserves ==
    ASSUME IInv, NEW a \in Task, NEW o \in Order, BeginOrder(a, o)
    PROVE  IInv'
<1>1. PICK n \in 0..Len(offers) :
        task' = [task EXCEPT ![a] = [kind |-> "order", order |-> o, offer |-> n]]
  BY DEF BeginOrder, Become
<1>2. n \in Nat /\ n <= Len(offers)
  BY <1>1 DEF IInv, Typed
<1>3. [kind |-> "order", order |-> o, offer |-> n] \in Tasks
  BY <1>2 DEF Tasks
<1> QED
  BY <1>1, <1>2, <1>3, RequestPreserves DEF BeginOrder

\* A request that is lost has read, and nothing else.
LEMMA LosePreserves ==
    ASSUME IInv, NEW a \in Task, Lose(a)
    PROVE  IInv'
<1>1. Idle \in Tasks /\ Idle.kind = "idle"
  BY DEF Tasks, Idle
<1> QED
  BY <1>1, RequestPreserves DEF Lose, Become

\* A request ends: it delivers nothing any more.
LEMMA Ended ==
    ASSUME Typed, NEW a \in Task, Become(a, Idle)
    PROVE  /\ task' \in [Task -> Tasks] /\ task'[a] = Idle
           /\ \A b \in Task : task'[b].kind # "idle" => task'[b] = task[b]
           /\ Deliveries' = Deliveries \ {a}
<1>1. Idle \in Tasks /\ Idle.kind = "idle"
  BY DEF Tasks, Idle
<1>2. task' = [task EXCEPT ![a] = Idle] /\ task \in [Task -> Tasks]
  BY DEF Become, Typed
<1> QED
  BY <1>1, <1>2 DEF Deliveries

\* A session is created for no ad yet.
LEMMA CreatePreserves ==
    ASSUME IInv, NEW a \in Task, NEW s \in Session, CreateSession(a, s)
    PROVE  IInv'
<1>1. UNCHANGED <<transaction, progress, freeReadings, cards, offers, order, day>>
  BY DEF CreateSession
<1>2. PICK t \in RewardType : session' = [session EXCEPT ![s] = [status |-> "CREATED", type |-> t]]
  <2>1. task[a].type \in RewardType
    BY Kinds DEF CreateSession, Does, IInv
  <2> QED
    BY <2>1 DEF CreateSession
<1>3. /\ task' \in [Task -> Tasks] /\ Deliveries' = Deliveries \ {a}
      /\ \A b \in Task : task'[b].kind # "idle" => task'[b] = task[b]
  BY Ended DEF CreateSession, IInv
<1>4. session' \in [Session -> {NoSession} \cup [status : SessionStatus, type : RewardType]]
  BY <1>2 DEF IInv, Typed, SessionStatus
<1>5. Typed'
  BY <1>1, <1>3, <1>4 DEF IInv, Typed
<1>6. \A x \in Session : session[x] # NoSession => session'[x] = session[x]
  BY <1>2 DEF CreateSession, IInv, Typed
<1>7. Known'
  <2>1. ASSUME NEW b \in Task, task'[b].kind \in {"complete", "expire"}
        PROVE  session'[task'[b].session] # NoSession
    <3>1. task'[b] = task[b]
      BY <1>3, <2>1
    <3>2. task[b].session \in Session
      BY <2>1, <3>1, Kinds DEF IInv
    <3> QED
      BY <1>6, <2>1, <3>1, <3>2 DEF IInv, Known
  <2> QED
    BY <1>1, <1>3, <2>1 DEF IInv, Known
<1>8. transaction[s] = 0 /\ session[s].status = "NONE"
  BY DEF IInv, Typed, RewardedWhenCompleted, CreateSession, NoSession
<1>9. RewardedWhenCompleted'
  BY <1>1, <1>2, <1>8 DEF IInv, Typed, RewardedWhenCompleted
<1>10. OfferUsedOnce'
  BY <1>1 DEF IInv, OfferUsedOnce
<1>11. \A u \in RewardType : Completed(u) \subseteq Completed(u)'
  BY <1>1, <1>2, <1>8 DEF Completed, IInv, Typed
<1> QED
  BY <1>1, <1>3, <1>5, <1>7, <1>9, <1>10, <1>11, StaysCovered DEF IInv

\* markExpired writes only over CREATED, whatever has happened since it was read.
LEMMA ExpiryPreserves ==
    ASSUME IInv, NEW a \in Task, MarkExpired(a)
    PROVE  IInv'
<1> DEFINE s == task[a].session
<1>1. UNCHANGED <<transaction, progress, freeReadings, cards, offers, order, day>>
  BY DEF MarkExpired
<1>2. s \in Session /\ session[s] \in [status : SessionStatus, type : RewardType]
  <2>1. s \in Session /\ session[s] # NoSession
    BY Kinds DEF MarkExpired, Does, IInv, Known
  <2> QED
    BY <2>1 DEF IInv, Typed
<1>3. /\ task' \in [Task -> Tasks] /\ Deliveries' = Deliveries \ {a}
      /\ \A b \in Task : task'[b].kind # "idle" => task'[b] = task[b]
  BY Ended DEF MarkExpired, IInv
<1> DEFINE r == [session[s] EXCEPT !.status = IF @ = "CREATED" THEN "EXPIRED" ELSE @]
<1>4. /\ r \in [status : SessionStatus, type : RewardType] /\ r.type = session[s].type
      /\ r.status = session[s].status \/ (session[s].status = "CREATED" /\ r.status = "EXPIRED")
  BY <1>2 DEF SessionStatus
<1>5. session' = [session EXCEPT ![s] = r]
  BY DEF MarkExpired
<1> HIDE DEF r
<1>6. Typed'
  BY <1>1, <1>3, <1>4, <1>5 DEF IInv, Typed
<1>7. \A x \in Session : session[x] # NoSession => session'[x] # NoSession
  BY <1>2, <1>4, <1>5 DEF IInv, Typed, NoSession
<1>8. Known'
  <2>1. ASSUME NEW b \in Task, task'[b].kind \in {"complete", "expire"}
        PROVE  session'[task'[b].session] # NoSession
    BY <1>3, <1>7, <2>1, Kinds DEF IInv, Known
  <2> QED
    BY <1>1, <1>3, <2>1 DEF IInv, Known
<1>9. RewardedWhenCompleted'
  BY <1>1, <1>2, <1>4, <1>5 DEF IInv, Typed, RewardedWhenCompleted
<1>10. OfferUsedOnce'
  BY <1>1 DEF IInv, OfferUsedOnce
<1>11. \A u \in RewardType : Completed(u) \subseteq Completed(u)'
  BY <1>1, <1>2, <1>4, <1>5 DEF Completed, IInv, Typed
<1> QED
  BY <1>1, <1>3, <1>6, <1>8, <1>9, <1>10, <1>11, StaysCovered DEF IInv

\* An ad is counted: the session is COMPLETED, its transaction written, and one
\* more ad of its type has been watched.
LEMMA CompletionPreserves ==
    ASSUME IInv, NEW a \in Task, Complete(a)
    PROVE  IInv'
<1> DEFINE s == task[a].session
<1>1. UNCHANGED <<freeReadings, cards, order, day>>
  BY DEF Complete
<1>2. s \in Session /\ session[s] \in [status : SessionStatus, type : RewardType]
  <2>1. s \in Session /\ session[s] # NoSession
    BY Kinds DEF Complete, Does, IInv, Known
  <2> QED
    BY <2>1 DEF IInv, Typed
<1>3. PICK t \in RewardType : t = session[s].type
  BY <1>2
<1>4. /\ task' \in [Task -> Tasks] /\ Deliveries' = Deliveries \ {a}
      /\ \A b \in Task : task'[b].kind # "idle" => task'[b] = task[b]
  BY Ended DEF Complete, IInv
<1>5. CASE session[s].status # "CREATED"
  <2>1. UNCHANGED <<session, transaction, progress, offers>>
    BY <1>5 DEF Complete
  <2>2. Typed' /\ Known' /\ RewardedWhenCompleted' /\ OfferUsedOnce'
    BY <1>1, <1>4, <2>1
       DEF IInv, Typed, Known, RewardedWhenCompleted, OfferUsedOnce
  <2>3. \A u \in RewardType : Completed(u) \subseteq Completed(u)'
    BY <2>1 DEF Completed
  <2> QED
    BY <1>1, <1>4, <2>1, <2>2, <2>3, StaysCovered DEF IInv
<1>6. CASE session[s].status = "CREATED"
  <2> DEFINE r == [session[s] EXCEPT !.status = "COMPLETED"]
             n == IF OfferDue(t) THEN 0 ELSE progress[t] + 1
  <2>1. /\ r \in [status : SessionStatus, type : RewardType]
        /\ r.type = t /\ r.status = "COMPLETED"
    BY <1>2, <1>3 DEF SessionStatus
  <2>2. session' = [session EXCEPT ![s] = r]
    BY <1>6 DEF Complete
  <2>3. transaction' = [transaction EXCEPT ![s] = day] /\ day \in Nat /\ day # 0
    BY <1>6 DEF Complete, IInv, Typed
  <2>4. n \in Nat
    BY DEF IInv, Typed
  <2>5. progress' = [progress EXCEPT ![t] = n]
    BY <1>6, <1>3 DEF Complete
  <2>6. /\ offers' = IF OfferDue(t) THEN Append(offers, "open") ELSE offers
        /\ offers' \in Seq(Offer)
        /\ Len(offers') = IF OfferDue(t) THEN Len(offers) + 1 ELSE Len(offers)
        /\ \A k \in 1..Len(offers) : offers'[k] = offers[k]
        /\ Len(offers) \in Nat
    <3>1. offers' = IF OfferDue(t) THEN Append(offers, "open") ELSE offers
      BY <1>6, <1>3 DEF Complete
    <3>2. offers \in Seq(Offer) /\ "open" \in Offer
      BY DEF IInv, Typed, Offer
    <3> QED
      BY <3>1, <3>2
  <2> HIDE DEF r, n
  <2>7. Typed'
    BY <1>1, <1>2, <1>4, <2>1, <2>2, <2>3, <2>4, <2>5, <2>6 DEF IInv, Typed
  <2>8. Known'
    <3>1. \A x \in Session : session[x] # NoSession => session'[x] # NoSession
      BY <1>2, <2>1, <2>2 DEF IInv, Typed, NoSession
    <3>2. ASSUME NEW b \in Task, task'[b].kind \in {"complete", "expire"}
          PROVE  session'[task'[b].session] # NoSession
      BY <1>4, <3>1, <3>2, Kinds DEF IInv, Known
    <3>3. ASSUME NEW b \in Task, task'[b].kind = "order"
          PROVE  task'[b].offer <= Len(offers')
      <4>1. task'[b] = task[b] /\ task[b].offer \in Nat /\ task[b].offer <= Len(offers)
        BY <1>4, <3>3, Kinds DEF IInv, Known
      <4> QED
        BY <2>6, <4>1
    <3>4. ASSUME NEW o \in Order, order'[o] # NoOrder
          PROVE  order'[o].offer <= Len(offers')
      <4>1. order[o].offer \in Nat /\ order[o].offer <= Len(offers)
        BY <1>1, <3>4 DEF IInv, Known, Typed
      <4> QED
        BY <1>1, <2>6, <4>1
    <3> QED
      BY <3>2, <3>3, <3>4 DEF Known
  <2>9. RewardedWhenCompleted'
    BY <1>2, <2>1, <2>2, <2>3 DEF IInv, Typed, RewardedWhenCompleted
  <2>10. OfferUsedOnce'
    <3>1. \A o \in Order : order[o] # NoOrder /\ order[o].offer # 0 => order[o].offer \in 1..Len(offers)
      BY DEF IInv, Typed, Known
    <3> QED
      BY <1>1, <2>6, <3>1 DEF IInv, OfferUsedOnce
  <2>11. /\ Completed(t)' = Completed(t) \cup {s} /\ s \notin Completed(t)
         /\ \A u \in RewardType : u # t => Completed(u)' = Completed(u)
    <3>1. transaction[s] = 0
      BY <1>2, <1>6 DEF IInv, Typed, RewardedWhenCompleted
    <3>2. \A x \in Session : session'[x].type = session[x].type
      BY <1>2, <1>3, <2>1, <2>2 DEF IInv, Typed
    <3>3. transaction'[s] # 0 /\ \A x \in Session : x # s => transaction'[x] = transaction[x]
      BY <1>2, <2>3 DEF IInv, Typed
    <3>4. \A u : Completed(u) \subseteq Session /\ s \notin Completed(u)
      BY <3>1 DEF Completed
    <3>5. Completed(t)' = Completed(t) \cup {s}
      BY <1>2, <1>3, <3>2, <3>3 DEF Completed
    <3>6. ASSUME NEW u \in RewardType, u # t
          PROVE  Completed(u)' = Completed(u)
      <4>1. session[s].type # u
        BY <1>3, <3>6
      <4>2. \A x \in Session : (transaction'[x] # 0 /\ session'[x].type = u) <=> (transaction[x] # 0 /\ session[x].type = u)
        BY <3>2, <3>3, <4>1
      <4> QED
        BY <4>2 DEF Completed
    <3> QED
      BY <3>4, <3>5, <3>6
  <2>12. /\ \A u \in RewardType : Cardinality(Completed(u)) \in Nat
         /\ \A u \in RewardType : u # t => Cardinality(Completed(u)') = Cardinality(Completed(u))
         /\ Cardinality(Completed(t)') = Cardinality(Completed(t)) + 1
    <3>1. cards \subseteq 1..MaxDays
      BY DEF IInv, Typed
    <3>2. \A u : IsFiniteSet(Completed(u)) /\ Cardinality(Completed(u)) \in Nat
      BY <3>1, Countable
    <3>3. Cardinality(Completed(t) \cup {s}) = Cardinality(Completed(t)) + 1
      BY <2>11, <3>2, FS_AddElement
    <3>4. \A u \in RewardType : u # t => Cardinality(Completed(u)') = Cardinality(Completed(u))
      BY <2>11
    <3> QED
      BY <2>11, <3>2, <3>3, <3>4
  <2>13. /\ Deliveries' \subseteq Deliveries
         /\ Cardinality(Deliveries) \in Nat /\ Cardinality(Deliveries') \in Nat
         /\ Cardinality(Deliveries') <= Cardinality(Deliveries)
         /\ PaidCards' = PaidCards /\ Cardinality(PaidCards) \in Nat
    <3>1. Deliveries' \subseteq Deliveries /\ PaidCards' = PaidCards
      BY <1>1, <1>4 DEF PaidCards
    <3> QED
      BY <3>1, Countable, Fewer DEF IInv, Typed
  <2>14. /\ \A u \in RewardType : progress[u] \in Nat /\ AdsRequired[u] \in Nat
         /\ \A u \in RewardType : u # t => progress'[u] = progress[u]
         /\ progress'[t] = n
         /\ t # "FLASH_OFFER" => n = progress[t] + 1 /\ ~OfferDue(t)
    BY <2>4, <2>5, AdsRequiredAssumption DEF IInv, Typed, OfferDue, n
  <2>15. "TAROT_READING" \in RewardType /\ "DAILY_CARD" \in RewardType /\ "FLASH_OFFER" \in RewardType
    BY DEF RewardType
  <2>16. Covered'
    <3> DEFINE A == AdsRequired["TAROT_READING"] * freeReadings
               B == AdsRequired["DAILY_CARD"] * (Cardinality(PaidCards) + Cardinality(Deliveries))
               B2 == AdsRequired["DAILY_CARD"] * (Cardinality(PaidCards) + Cardinality(Deliveries'))
               C == AdsRequired["FLASH_OFFER"] * Len(offers)
               C2 == AdsRequired["FLASH_OFFER"] * Len(offers')
    <3>1. A \in Nat
      BY <2>14, <2>15, OneMore DEF IInv, Typed
    <3>2. B \in Nat /\ B2 \in Nat /\ B2 <= B
      <4>1. /\ Cardinality(PaidCards) + Cardinality(Deliveries) \in Nat
            /\ Cardinality(PaidCards) + Cardinality(Deliveries') \in Nat
            /\ Cardinality(PaidCards) + Cardinality(Deliveries')
                 <= Cardinality(PaidCards) + Cardinality(Deliveries)
        BY <2>13
      <4> QED
        BY <2>14, <2>15, <4>1, NoMore
    <3>3. C \in Nat /\ C2 = IF OfferDue(t) THEN C + AdsRequired["FLASH_OFFER"] ELSE C
      BY <2>6, <2>14, <2>15, OneMore
    <3>4. A + progress["TAROT_READING"] <= Cardinality(Completed("TAROT_READING"))
      BY DEF IInv, Covered
    <3>5. B + progress["DAILY_CARD"] <= Cardinality(Completed("DAILY_CARD"))
      BY DEF IInv, Covered
    <3>6. C + progress["FLASH_OFFER"] <= Cardinality(Completed("FLASH_OFFER"))
      BY DEF IInv, Covered
    <3>7. t = "FLASH_OFFER" => C2 + n <= C + progress[t] + 1
      <4>1. t = "FLASH_OFFER" /\ OfferDue(t) =>
              n = 0 /\ C2 = C + AdsRequired[t] /\ progress[t] + 1 >= AdsRequired[t]
        BY <3>3 DEF OfferDue, n
      <4>2. ~OfferDue(t) => n = progress[t] + 1 /\ C2 = C
        BY <3>3 DEF n
      <4> HIDE DEF C, C2
      <4> QED
        BY <2>4, <2>14, <3>3, <4>1, <4>2
    <3> HIDE DEF A, B, B2, C, C2
    <3>8. A + progress'["TAROT_READING"] <= Cardinality(Completed("TAROT_READING")')
      BY <2>4, <2>12, <2>14, <2>15, <3>1, <3>4
    <3>9. B2 + progress'["DAILY_CARD"] <= Cardinality(Completed("DAILY_CARD")')
      BY <2>4, <2>12, <2>14, <2>15, <3>2, <3>5
    <3>10. C2 + progress'["FLASH_OFFER"] <= Cardinality(Completed("FLASH_OFFER")')
      BY <2>4, <2>12, <2>14, <2>15, <3>3, <3>6, <3>7
    <3> QED
      BY <1>1, <2>13, <3>8, <3>9, <3>10 DEF Covered, A, B2, C2
  <2> QED
    BY <2>7, <2>8, <2>9, <2>10, <2>16 DEF IInv
<1> QED
  BY <1>5, <1>6

\* Time passes: what has expired matters only to the callbacks that will read it.
LEMMA TimePreserves ==
    ASSUME IInv,
           \/ NextDay \/ (\E s \in Session : ExpireSession(s)) \/ UNCHANGED vars
    PROVE  IInv'
<1>1. /\ UNCHANGED <<session, transaction, progress, freeReadings, cards, offers, order, task>>
      /\ day' \in 1..MaxDays
  BY LimitsAssumption DEF NextDay, ExpireSession, vars, IInv, Typed
<1>2. Typed' /\ Known' /\ RewardedWhenCompleted' /\ OfferUsedOnce'
  BY <1>1 DEF IInv, Typed, Known, RewardedWhenCompleted, OfferUsedOnce
<1>3. Deliveries' \subseteq Deliveries /\ \A u \in RewardType : Completed(u) \subseteq Completed(u)'
  BY <1>1 DEF Deliveries, Completed
<1> QED
  BY <1>1, <1>2, <1>3, StaysCovered DEF IInv

\* An offer that lapses was not applied to an order.
LEMMA LapsePreserves ==
    ASSUME IInv, NEW n \in 1..Len(offers), LapseOffer(n)
    PROVE  IInv'
<1>1. UNCHANGED <<session, transaction, progress, freeReadings, cards, order, task, day>>
  BY DEF LapseOffer
<1>2. /\ offers[n] = "open" /\ offers' = [offers EXCEPT ![n] = "lapsed"]
      /\ offers' \in Seq(Offer) /\ Len(offers') = Len(offers) /\ Len(offers) \in Nat
      /\ \A k \in 1..Len(offers) : k # n => offers'[k] = offers[k]
  <2>1. offers \in Seq(Offer) /\ "lapsed" \in Offer
    BY DEF IInv, Typed, Offer
  <2>2. offers[n] = "open" /\ offers' = [offers EXCEPT ![n] = "lapsed"]
    BY DEF LapseOffer, OpenOffers
  <2> QED
    BY <2>1, <2>2
<1>3. Typed' /\ Known' /\ RewardedWhenCompleted'
  BY <1>1, <1>2 DEF IInv, Typed, Known, RewardedWhenCompleted
<1>4. OfferUsedOnce'
  <2>1. \A o \in Order : order[o] # NoOrder /\ order[o].offer # 0 =>
          order[o].offer \in 1..Len(offers) /\ order[o].offer # n
    BY <1>2 DEF IInv, Typed, Known, OfferUsedOnce
  <2> QED
    BY <1>1, <1>2, <2>1 DEF IInv, OfferUsedOnce
<1>5. Deliveries' \subseteq Deliveries /\ \A u \in RewardType : Completed(u) \subseteq Completed(u)'
  BY <1>1 DEF Deliveries, Completed
<1> QED
  BY <1>1, <1>2, <1>3, <1>4, <1>5, StaysCovered DEF IInv

\* The order takes an offer nobody has consumed, even if it has lapsed, or none.
LEMMA OrderPreserves ==
    ASSUME IInv, NEW a \in Task, CreateOrder(a)
    PROVE  IInv'
<1> DEFINE n == task[a].offer
           o == task[a].order
           applied == IF ApplicableOffer(n) THEN n ELSE 0
<1>1. UNCHANGED <<session, transaction, progress, freeReadings, cards, day>>
  BY DEF CreateOrder
<1>2. o \in Order /\ n \in Nat /\ n <= Len(offers) /\ Len(offers) \in Nat
  BY Kinds DEF CreateOrder, Does, IInv, Known, Typed
<1>3. /\ task' \in [Task -> Tasks] /\ Deliveries' = Deliveries \ {a}
      /\ \A b \in Task : task'[b].kind # "idle" => task'[b] = task[b]
  BY Ended DEF CreateOrder, IInv
<1>4. /\ order' = [order EXCEPT ![o] = [day |-> day, offer |-> applied]]
      /\ offers' = IF applied # 0 THEN [offers EXCEPT ![n] = "consumed"] ELSE offers
  BY DEF CreateOrder
<1>5. applied \in 0..Len(offers) /\ (applied # 0 => applied = n /\ offers[n] # "consumed")
  BY <1>2 DEF ApplicableOffer
<1> HIDE DEF applied
<1>6. /\ offers' \in Seq(Offer) /\ Len(offers') = Len(offers)
      /\ \A k \in 1..Len(offers) : k # applied => offers'[k] = offers[k]
      /\ applied # 0 => offers'[applied] = "consumed"
  <2>1. offers \in Seq(Offer) /\ "consumed" \in Offer
    BY DEF IInv, Typed, Offer
  <2>2. CASE applied = 0
    BY <1>4, <2>1, <2>2
  <2>3. CASE applied # 0
    <3>1. offers' = [offers EXCEPT ![n] = "consumed"] /\ n \in 1..Len(offers) /\ applied = n
      BY <1>2, <1>4, <1>5, <2>3
    <3> QED
      BY <2>1, <3>1
  <2> QED
    BY <2>2, <2>3
<1>7. [day |-> day, offer |-> applied] \in [day : Nat, offer : Nat]
  BY <1>5 DEF IInv, Typed
<1>8. Typed'
  BY <1>1, <1>2, <1>3, <1>4, <1>6, <1>7 DEF IInv, Typed
<1>9. Known'
  <2>1. \A b \in Task : task'[b].kind \in {"complete", "expire"} =>
          session[task'[b].session] # NoSession
    BY <1>3 DEF IInv, Known
  <2>2. \A b \in Task : task'[b].kind = "order" => task'[b].offer <= Len(offers)
    BY <1>3 DEF IInv, Known
  <2>3. ASSUME NEW p \in Order, order'[p] # NoOrder
        PROVE  order'[p].offer <= Len(offers)
    <3>1. CASE p = o
      BY <1>2, <1>4, <1>5, <3>1 DEF IInv, Typed
    <3>2. CASE p # o
      BY <1>2, <1>4, <2>3, <3>2 DEF IInv, Typed, Known
    <3> QED
      BY <3>1, <3>2
  <2> QED
    BY <1>1, <1>6, <2>1, <2>2, <2>3 DEF Known
<1>10. RewardedWhenCompleted'
  BY <1>1 DEF IInv, RewardedWhenCompleted
<1>11. OfferUsedOnce'
  <2>1. \A p \in Order : order[p] # NoOrder /\ order[p].offer # 0 =>
          /\ order[p].offer \in 1..Len(offers) /\ order[p].offer # applied
          /\ offers[order[p].offer] = "consumed"
    BY <1>5 DEF IInv, Typed, Known, OfferUsedOnce
  <2>2. /\ order'[o].offer = applied
        /\ \A p \in Order : p # o => order'[p] = order[p]
    BY <1>2, <1>4 DEF IInv, Typed
  <2> HIDE DEF o
  <2> QED
    BY <1>6, <2>1, <2>2 DEF IInv, OfferUsedOnce
<1>12. Deliveries' \subseteq Deliveries /\ \A u \in RewardType : Completed(u) \subseteq Completed(u)'
  BY <1>1, <1>3 DEF Completed
<1> QED
  BY <1>1, <1>6, <1>8, <1>9, <1>10, <1>11, <1>12, StaysCovered DEF IInv

\* A submission consumes the unlock that it uses.
LEMMA ReadingPreserves ==
    ASSUME IInv, UnlockReading
    PROVE  IInv'
<1>1. /\ UNCHANGED <<session, transaction, cards, offers, order, task, day>>
      /\ freeReadings' = freeReadings + 1
      /\ progress["TAROT_READING"] >= AdsRequired["TAROT_READING"]
      /\ progress' = [progress EXCEPT !["TAROT_READING"] = 0]
  BY DEF UnlockReading, ConsumeUnlock
<1>2. Typed' /\ Known' /\ RewardedWhenCompleted' /\ OfferUsedOnce'
  BY <1>1 DEF IInv, Typed, Known, RewardedWhenCompleted, OfferUsedOnce, RewardType
<1>3. /\ progress'["TAROT_READING"] = 0
      /\ progress'["DAILY_CARD"] = progress["DAILY_CARD"]
      /\ progress'["FLASH_OFFER"] = progress["FLASH_OFFER"]
      /\ progress["TAROT_READING"] \in Nat
  BY <1>1 DEF IInv, Typed, RewardType
<1>4. AdsRequired["TAROT_READING"] * (freeReadings + 1) <= Cardinality(Completed("TAROT_READING"))
  <2> DEFINE A == AdsRequired["TAROT_READING"] * freeReadings
  <2>1. AdsRequired["TAROT_READING"] \in Nat /\ freeReadings \in Nat
    BY AdsRequiredAssumption DEF RewardType, IInv, Typed
  <2>2. A \in Nat /\ AdsRequired["TAROT_READING"] * (freeReadings + 1) = A + AdsRequired["TAROT_READING"]
    BY <2>1, OneMore
  <2>3. A + progress["TAROT_READING"] <= Cardinality(Completed("TAROT_READING"))
    BY DEF IInv, Covered
  <2>4. Cardinality(Completed("TAROT_READING")) \in Nat
    BY Countable DEF IInv, Typed
  <2> HIDE DEF A
  <2> QED
    BY <1>1, <1>3, <2>1, <2>2, <2>3, <2>4
<1>5. PaidCards' = PaidCards /\ Deliveries' = Deliveries /\ \A u : Completed(u)' = Completed(u)
  BY <1>1 DEF PaidCards, Deliveries, Completed
<1>6. AdsRequired["TAROT_READING"] * (freeReadings + 1) \in Nat
  BY AdsRequiredAssumption DEF RewardType, IInv, Typed
<1>7. AdsRequired["TAROT_READING"] * freeReadings' + progress'["TAROT_READING"]
        <= Cardinality(Completed("TAROT_READING"))
  BY <1>1, <1>3, <1>4, <1>6
<1>8. Covered'
  BY <1>1, <1>3, <1>5, <1>7 DEF IInv, Covered
<1> QED
  BY <1>2, <1>8 DEF IInv

\* The unlock of a card is consumed before it is delivered, and lost if it is not.
LEMMA UnlockCardPreserves ==
    ASSUME IInv, NEW a \in Task, UnlockCard(a)
    PROVE  IInv'
<1>1. UNCHANGED <<session, transaction, freeReadings, cards, offers, order, day>>
  BY DEF UnlockCard
<1>2. CASE Become(a, Idle) /\ UNCHANGED progress
  <2>1. Idle \in Tasks /\ Idle.kind = "idle"
    BY DEF Tasks, Idle
  <2> QED
    BY <1>1, <1>2, <2>1, RequestPreserves DEF Become
<1>3. CASE ConsumeUnlock("DAILY_CARD") /\ Become(a, [task[a] EXCEPT !.kind = "deliver"])
  <2> DEFINE r == [task[a] EXCEPT !.kind = "deliver"]
  <2>1. task[a] \in [kind : {"unlock", "deliver"}, date : 1..MaxDays] /\ task[a].kind = "unlock"
    BY UnlockKind DEF UnlockCard, Does, IInv
  <2>2. r \in [kind : {"unlock", "deliver"}, date : 1..MaxDays] /\ r.kind = "deliver"
    BY <2>1
  <2>3. task' = [task EXCEPT ![a] = r]
    BY <1>3 DEF Become
  <2> HIDE DEF r
  <2>4. r \in Tasks
    BY <2>2 DEF Tasks
  <2>5. /\ progress["DAILY_CARD"] >= AdsRequired["DAILY_CARD"]
        /\ progress' = [progress EXCEPT !["DAILY_CARD"] = 0]
    BY <1>3 DEF ConsumeUnlock
  <2>6. Typed'
    BY <1>1, <2>3, <2>4, <2>5 DEF IInv, Typed
  <2>7. Known' /\ RewardedWhenCompleted' /\ OfferUsedOnce'
    BY <1>1, <2>2, <2>3 DEF IInv, Typed, Known, RewardedWhenCompleted, OfferUsedOnce
  <2>8. /\ progress'["DAILY_CARD"] = 0
        /\ progress'["TAROT_READING"] = progress["TAROT_READING"]
        /\ progress'["FLASH_OFFER"] = progress["FLASH_OFFER"]
        /\ progress["DAILY_CARD"] \in Nat
    BY <2>5 DEF IInv, Typed, RewardType
  <2>9. /\ Cardinality(Deliveries) \in Nat /\ Cardinality(Deliveries') \in Nat
        /\ Cardinality(Deliveries') <= Cardinality(Deliveries) + 1
        /\ PaidCards' = PaidCards /\ Cardinality(PaidCards) \in Nat
    <3>1. Deliveries' \subseteq Deliveries \cup {a} /\ PaidCards' = PaidCards
      BY <1>1, <2>3 DEF Deliveries, PaidCards, IInv, Typed
    <3>2. /\ IsFiniteSet(Deliveries)
          /\ Cardinality(Deliveries) \in Nat /\ Cardinality(PaidCards) \in Nat
      BY Countable DEF IInv, Typed
    <3>3. /\ IsFiniteSet(Deliveries \cup {a})
          /\ Cardinality(Deliveries \cup {a}) <= Cardinality(Deliveries) + 1
      BY <3>2, FS_AddElement
    <3> QED
      BY <3>1, <3>2, <3>3, Fewer
  <2>10. AdsRequired["DAILY_CARD"] * (Cardinality(PaidCards) + Cardinality(Deliveries'))
           <= Cardinality(Completed("DAILY_CARD"))
         /\ AdsRequired["DAILY_CARD"] * (Cardinality(PaidCards) + Cardinality(Deliveries')) \in Nat
    <3> DEFINE k == Cardinality(PaidCards) + Cardinality(Deliveries)
               k2 == Cardinality(PaidCards) + Cardinality(Deliveries')
               m == AdsRequired["DAILY_CARD"]
    <3>1. m \in Nat /\ k \in Nat /\ k2 \in Nat /\ k + 1 \in Nat /\ k2 <= k + 1
      BY <2>9, AdsRequiredAssumption DEF RewardType
    <3>2. m * k + progress["DAILY_CARD"] <= Cardinality(Completed("DAILY_CARD"))
      BY DEF IInv, Covered
    <3>3. progress["DAILY_CARD"] >= m
      BY <2>5
    <3>4. Cardinality(Completed("DAILY_CARD")) \in Nat
      BY Countable DEF IInv, Typed
    <3>5. m * k2 <= Cardinality(Completed("DAILY_CARD")) /\ m * k2 \in Nat
      <4> HIDE DEF m, k, k2
      <4>1. m * k \in Nat /\ m * (k + 1) = m * k + m
        BY <3>1, OneMore
      <4>2. m * k2 <= m * (k + 1) /\ m * k2 \in Nat /\ m * (k + 1) \in Nat
        BY <3>1, NoMore
      <4> DEFINE x == m * k  y == m * k2  z == m * (k + 1)
      <4>3. x \in Nat /\ z = x + m /\ y <= z /\ y \in Nat
            /\ x + progress["DAILY_CARD"] <= Cardinality(Completed("DAILY_CARD"))
        BY <4>1, <4>2, <3>2
      <4> HIDE DEF x, y, z
      <4>4. y <= Cardinality(Completed("DAILY_CARD")) /\ y \in Nat
        BY <2>8, <3>1, <3>3, <3>4, <4>3
      <4> QED
        BY <4>4 DEF y
    <3> QED
      BY <3>5
  <2>11. \A u : Completed(u)' = Completed(u)
    BY <1>1 DEF Completed
  <2>12. AdsRequired["DAILY_CARD"] * (Cardinality(PaidCards') + Cardinality(Deliveries'))
           + progress'["DAILY_CARD"] <= Cardinality(Completed("DAILY_CARD"))
    BY <2>8, <2>9, <2>10
  <2>13. Covered'
    BY <1>1, <2>8, <2>11, <2>12 DEF IInv, Covered
  <2> QED
    BY <2>6, <2>7, <2>13 DEF IInv
<1> QED
  BY <1>2, <1>3 DEF UnlockCard

\* The card that was paid for is delivered, once a day.
LEMMA DeliveryPreserves ==
    ASSUME IInv, NEW a \in Task, DeliverCard(a)
    PROVE  IInv'
<1> DEFINE d == task[a].date
<1>1. /\ UNCHANGED <<session, transaction, progress, freeReadings, offers, order, day>>
      /\ cards' = cards \cup {d} /\ task[a].kind = "deliver"
  BY DEF DeliverCard, Does
<1>2. d \in 1..MaxDays /\ FreeDays \in Nat
  BY <1>1, Kinds, LimitsAssumption DEF IInv
<1>3. /\ task' \in [Task -> Tasks] /\ Deliveries' = Deliveries \ {a}
      /\ \A b \in Task : task'[b].kind # "idle" => task'[b] = task[b]
  BY Ended DEF DeliverCard, IInv
<1>4. Typed' /\ Known' /\ RewardedWhenCompleted' /\ OfferUsedOnce'
  BY <1>1, <1>2, <1>3 DEF IInv, Typed, Known, RewardedWhenCompleted, OfferUsedOnce
<1>5. \A u \in RewardType : Completed(u) \subseteq Completed(u)'
  BY <1>1 DEF Completed
<1>6. /\ IsFiniteSet(PaidCards) /\ Cardinality(PaidCards) \in Nat
      /\ IsFiniteSet(Deliveries) /\ Cardinality(Deliveries) \in Nat
  BY Countable DEF IInv, Typed
<1>7. /\ IsFiniteSet(Deliveries') /\ Cardinality(Deliveries') \in Nat
      /\ Cardinality(Deliveries') = IF a \in Deliveries THEN Cardinality(Deliveries) - 1
                                    ELSE Cardinality(Deliveries)
  BY <1>3, <1>6, FS_RemoveElement, FS_CardinalityType
<1>8. CASE d <= FreeDays
  <2>1. PaidCards' = PaidCards /\ a \notin Deliveries
    BY <1>1, <1>2, <1>8 DEF PaidCards, Deliveries
  <2> QED
    BY <1>1, <1>4, <1>5, <1>6, <1>7, <2>1, StaysFunded DEF IInv
<1>9. CASE ~(d <= FreeDays)
  <2>1. PaidCards' = PaidCards \cup {d} /\ a \in Deliveries
    BY <1>1, <1>2, <1>9 DEF PaidCards, Deliveries
  <2>2. /\ Cardinality(PaidCards') \in Nat
        /\ Cardinality(PaidCards') <= Cardinality(PaidCards) + 1
    <3>1. Cardinality(PaidCards \cup {d}) = IF d \in PaidCards THEN Cardinality(PaidCards)
                                            ELSE Cardinality(PaidCards) + 1
      BY <1>6, FS_AddElement
    <3> HIDE DEF d
    <3> QED
      BY <1>6, <2>1, <3>1
  <2> QED
    BY <1>1, <1>4, <1>5, <1>6, <1>7, <2>1, <2>2, StaysFunded DEF IInv
<1> QED
  BY <1>8, <1>9

\* Every step preserves the invariant.
LEMMA StepPreserves == IInv /\ [Next]_vars => IInv'
<1> SUFFICES ASSUME IInv, [Next]_vars PROVE IInv'
  OBVIOUS
<1>1. ASSUME NEW a \in Task, NEW t \in RewardType, BeginSession(a, t) PROVE IInv'
  BY <1>1, BeginSessionPreserves
<1>2. ASSUME NEW a \in Task, NEW s \in Session, CreateSession(a, s) \/ Callback(a, s) PROVE IInv'
  BY <1>2, CreatePreserves, CallbackPreserves
<1>3. ASSUME NEW a \in Task, MarkExpired(a) \/ Complete(a) PROVE IInv'
  BY <1>3, ExpiryPreserves, CompletionPreserves
<1>4. CASE UnlockReading
  BY <1>4, ReadingPreserves
<1>5. ASSUME NEW a \in Task, BeginCard(a) \/ UnlockCard(a) \/ DeliverCard(a) PROVE IInv'
  BY <1>5, BeginCardPreserves, UnlockCardPreserves, DeliveryPreserves
<1>6. ASSUME NEW a \in Task, NEW o \in Order, BeginOrder(a, o) PROVE IInv'
  BY <1>6, BeginOrderPreserves
<1>7. ASSUME NEW a \in Task, CreateOrder(a) \/ Lose(a) PROVE IInv'
  BY <1>7, OrderPreserves, LosePreserves
<1>8. ASSUME NEW n \in 1..Len(offers), LapseOffer(n) PROVE IInv'
  BY <1>8, LapsePreserves
<1>9. CASE NextDay \/ (\E s \in Session : ExpireSession(s)) \/ UNCHANGED vars
  BY <1>9, TimePreserves
<1> QED
  BY <1>1, <1>2, <1>3, <1>4, <1>5, <1>6, <1>7, <1>8, <1>9 DEF Next

\* The inductive invariant holds throughout.
LEMMA AlwaysCovered == Spec => []IInv
<1>1. Init => IInv
  BY InitiallyCovered
<1>2. IInv /\ [Next]_vars => IInv'
  BY StepPreserves
<1> QED
  BY <1>1, <1>2, PTL DEF Spec

-----------------------------------------------------------------------------
\* registerCompletedSession counts a session once, and an expiry that comes late
\* does not take it back.
THEOREM CompletedSessionsAreRewarded == Spec => []RewardedWhenCompleted
<1>1. IInv => RewardedWhenCompleted
  BY DEF IInv
<1> QED
  BY <1>1, AlwaysCovered, PTL

\* OrdersService.create applies an offer to one order, however many read it.
THEOREM OffersAreUsedOnce == Spec => []OfferUsedOnce
<1>1. IInv => OfferUsedOnce
  BY DEF IInv
<1> QED
  BY <1>1, AlwaysCovered, PTL

\* tryConsumeUnlock gives nothing for free, whatever each reward costs.
THEOREM UnlocksArePaid == Spec => []AdsPayForUnlocks
<1>1. IInv => AdsPayForUnlocks
  <2> SUFFICES ASSUME IInv, NEW t \in RewardType
               PROVE  AdsRequired[t] * Bought(t) + progress[t] <= Cardinality(Completed(t))
    BY DEF AdsPayForUnlocks
  <2>1. CASE t = "TAROT_READING"
    BY <2>1 DEF IInv, Covered, Bought
  <2>2. CASE t = "FLASH_OFFER"
    BY <2>2 DEF IInv, Covered, Bought
  <2>3. CASE t = "DAILY_CARD"
    <3> DEFINE m == AdsRequired["DAILY_CARD"]
               k == Cardinality(PaidCards)
               n == Cardinality(PaidCards) + Cardinality(Deliveries)
    <3>1. m \in Nat /\ k \in Nat /\ n \in Nat /\ k <= n
      BY Countable, AdsRequiredAssumption DEF RewardType, IInv, Typed
    <3>2. /\ m * n + progress["DAILY_CARD"] <= Cardinality(Completed("DAILY_CARD"))
          /\ progress["DAILY_CARD"] \in Nat /\ Cardinality(Completed("DAILY_CARD")) \in Nat
      BY Countable DEF IInv, Covered, Typed, RewardType
    <3>3. m * k + progress["DAILY_CARD"] <= Cardinality(Completed("DAILY_CARD"))
      <4> HIDE DEF m, k, n
      <4>1. m * k \in Nat /\ m * n \in Nat /\ m * k <= m * n
        BY <3>1, NoMore
      <4> DEFINE x == m * k  y == m * n
      <4>2. x \in Nat /\ y \in Nat /\ x <= y
            /\ y + progress["DAILY_CARD"] <= Cardinality(Completed("DAILY_CARD"))
        BY <3>2, <4>1
      <4> HIDE DEF x, y
      <4>3. x + progress["DAILY_CARD"] <= Cardinality(Completed("DAILY_CARD"))
        BY <3>2, <4>2
      <4> QED
        BY <4>3 DEF x
    <3> QED
      BY <2>3, <3>3 DEF Bought, PaidCards
  <2> QED
    BY <2>1, <2>2, <2>3 DEF RewardType
<1> QED
  BY <1>1, AlwaysCovered, PTL

-----------------------------------------------------------------------------
\* Sharing: the invariant

\* A run that has a job, with whatever number of uploads before it.
Rendering == [pc : {"load", "upload", "mark", "finish"}, link : Link, key : Nat, owned : BOOLEAN]

Visiting == [pc : {"summary", "image", "signup"}, link : Link, key : Nat]

\* The part of TypeOK the arguments need, without the bound on the runs of a job.
LinksTyped ==
    /\ imageStatus \in [Link -> {"PENDING", "READY", "FAILED"}]
    /\ imageKey \in [Link -> Nat] /\ uploads \in [Link -> Nat]
    /\ run \in [Worker -> {NoRun} \cup Rendering]
    /\ visit \in [Visitor -> {NoRequest} \cup Visiting]

\* A run about to mark its link has uploaded the object it will name, whatever
\* another run of the job has uploaded or marked since.
Rendered ==
    \A w \in Worker : RunAt(w, "mark") => run[w].key \in 1..uploads[run[w].link]

\* ReadyHasObject is not inductive: a link becomes READY by the word of a run.
ImagesThere == LinksTyped /\ Rendered /\ ReadyHasObject

\* The parts of a run and of a visit, by where they are.
LEMMA LinkParts ==
    ASSUME LinksTyped
    PROVE  /\ \A w \in Worker : run[w] # NoRun => run[w] \in Rendering /\ run[w].link \in Link
           /\ \A w \in Worker : ~RunAt(w, "idle") => run[w] # NoRun
           /\ \A v \in Visitor : visit[v] # NoRequest => visit[v].link \in Link
           /\ \A v \in Visitor : VisitAt(v, "image") => visit[v] # NoRequest
BY DEF LinksTyped, Rendering, Visiting, NoRun, NoRequest, RunAt, VisitAt

\* There is no link.
LEMMA InitiallyRendered == SharingInit => ImagesThere
BY DEF SharingInit, ImagesThere, LinksTyped, Rendered, ReadyHasObject, RunAt, VisitAt, NoRun,
   NoRequest

\* What neither runs a job nor touches its link's image keeps the invariant.
LEMMA LinkElsewherePreserves ==
    ASSUME ImagesThere, UNCHANGED <<imageStatus, imageKey, uploads, run, visit>>
    PROVE  ImagesThere'
BY DEF ImagesThere, LinksTyped, Rendered, ReadyHasObject, RunAt, VisitAt

\* A run that goes on, but not to mark its link, or that ends.
LEMMA LinkRunPreserves ==
    ASSUME ImagesThere, NEW w \in Worker, NEW r \in {NoRun} \cup Rendering, r.pc # "mark",
           run' = [run EXCEPT ![w] = r],
           UNCHANGED <<imageStatus, imageKey, uploads, visit>>
    PROVE  ImagesThere'
BY DEF ImagesThere, LinksTyped, Rendered, ReadyHasObject, RunAt, VisitAt

\* A visit that begins with what the link's row says, or ends.
LEMMA VisitPreserves ==
    ASSUME ImagesThere, NEW v \in Visitor, NEW x \in {NoRequest} \cup Visiting,
           x.pc = "image" => x.key \in 1..uploads[x.link],
           visit' = [visit EXCEPT ![v] = x],
           UNCHANGED <<imageStatus, imageKey, uploads, run>>
    PROVE  ImagesThere'
BY DEF ImagesThere, LinksTyped, Rendered, ReadyHasObject, RunAt, VisitAt

\* Every step keeps the invariant.
LEMMA LinkStepPreserves ==
    ASSUME ImagesThere, [SharingNext]_sharingVars
    PROVE  ImagesThere'
<1>1. ASSUME \/ UNCHANGED sharingVars
             \/ \E q \in Request : \/ BeginShare(q) \/ BeginRevoke(q) \/ RequestStep(q)
                                   \/ LoseRequest(q)
             \/ \E l \in Link : LoseListener(l)
      PROVE  ImagesThere'
  <2>1. UNCHANGED <<imageStatus, imageKey, uploads, run, visit>>
    BY <1>1 DEF sharingVars, linkVars, BeginShare, BeginRevoke, RequestStep, CreateLink,
       EnqueueImage, CommitRevoke, LogEvent, LoseRequest, LoseListener
  <2> QED
    BY <2>1, LinkElsewherePreserves
<1>2. ASSUME NEW w \in Worker, NEW l \in Link, Pick(w, l) PROVE ImagesThere'
  <2> DEFINE r == [pc |-> "load", link |-> l, key |-> 0, owned |-> TRUE]
  <2>1. r \in Rendering /\ r.pc # "mark"
    BY DEF Rendering
  <2>2. run' = [run EXCEPT ![w] = r] /\ UNCHANGED <<imageStatus, imageKey, uploads, visit>>
    BY <1>2 DEF Pick, linkVars
  <2> HIDE DEF r
  <2> QED
    BY <2>1, <2>2, LinkRunPreserves
<1>3. ASSUME NEW w \in Worker, Load(w) PROVE ImagesThere'
  <2> DEFINE pc == IF link[run[w].link] = "revoked" THEN "finish" ELSE "upload"
             r == [run[w] EXCEPT !.pc = pc]
  <2>1. run[w] \in Rendering
    BY <1>3, LinkParts DEF Load, RunAt, ImagesThere
  <2>2. r \in Rendering /\ r.pc # "mark"
    BY <2>1 DEF Rendering
  <2>3. run' = [run EXCEPT ![w] = r] /\ UNCHANGED <<imageStatus, imageKey, uploads, visit>>
    BY <1>3 DEF Load, Step, linkVars
  <2> HIDE DEF r
  <2> QED
    BY <2>2, <2>3, LinkRunPreserves
<1>4. ASSUME NEW w \in Worker, UploadImage(w) PROVE ImagesThere'
  <2> DEFINE l == run[w].link
             r == [run[w] EXCEPT !.pc = "mark", !.key = uploads[l] + 1]
  <2>1. run[w] \in Rendering /\ l \in Link
    BY <1>4, LinkParts DEF UploadImage, RunAt, ImagesThere
  <2>2. r \in Rendering /\ r.link = l /\ r.key = uploads[l] + 1
    <3>1. uploads[l] + 1 \in Nat
      BY <2>1 DEF ImagesThere, LinksTyped
    <3> HIDE DEF l
    <3> DEFINE k == uploads[l] + 1
    <3>2. k \in Nat
      BY <3>1
    <3> HIDE DEF k
    <3>3. [run[w] EXCEPT !.pc = "mark", !.key = k] \in Rendering
      BY <2>1, <3>2 DEF Rendering
    <3>4. [run[w] EXCEPT !.pc = "mark", !.key = k].key = k
      BY <2>1 DEF Rendering
    <3>5. [run[w] EXCEPT !.pc = "mark", !.key = k].link = run[w].link
      BY <2>1 DEF Rendering
    <3> QED
      BY <3>3, <3>4, <3>5 DEF k, l
  <2>3. /\ run' = [run EXCEPT ![w] = r] /\ uploads' = [uploads EXCEPT ![l] = @ + 1]
        /\ UNCHANGED <<imageStatus, imageKey, visit>>
    BY <1>4 DEF UploadImage, linkVars
  <2> HIDE DEF r, l
  <2>4. \A m \in Link : uploads[m] \in Nat /\ uploads'[m] \in Nat /\ uploads[m] <= uploads'[m]
    BY <2>1, <2>3 DEF ImagesThere, LinksTyped
  <2>5. LinksTyped'
    BY <2>1, <2>2, <2>3 DEF ImagesThere, LinksTyped
  <2>6. ASSUME NEW x \in Worker, RunAt(x, "mark")'
        PROVE  run'[x].key \in 1..uploads'[run'[x].link]
    <3>1. CASE x = w
      BY <2>1, <2>2, <2>3, <3>1 DEF ImagesThere, LinksTyped
    <3>2. CASE x # w
      <4>1. run'[x] = run[x] /\ run[x].link \in Link /\ RunAt(x, "mark")
        BY <2>3, <2>6, <3>2, LinkParts DEF ImagesThere, LinksTyped, RunAt
      <4> QED
        BY <2>4, <4>1 DEF ImagesThere, Rendered
    <3> QED
      BY <3>1, <3>2
  <2>7. ReadyHasObject'
    BY <2>3, <2>4, LinkParts DEF ImagesThere, ReadyHasObject, VisitAt
  <2> QED
    BY <2>5, <2>6, <2>7 DEF ImagesThere, Rendered
<1>5. ASSUME NEW w \in Worker, MarkImageReady(w) PROVE ImagesThere'
  <2> DEFINE l == run[w].link
             k == run[w].key
             r == [run[w] EXCEPT !.pc = "finish"]
  <2>1. run[w] \in Rendering /\ l \in Link /\ k \in Nat /\ k \in 1..uploads[l]
    BY <1>5, LinkParts DEF MarkImageReady, RunAt, ImagesThere, Rendered, Rendering
  <2>2. r \in Rendering /\ r.pc # "mark"
    BY <2>1 DEF Rendering
  <2>3. /\ run' = [run EXCEPT ![w] = r]
        /\ imageStatus' = [imageStatus EXCEPT ![l] = "READY"]
        /\ imageKey' = [imageKey EXCEPT ![l] = k]
        /\ UNCHANGED <<uploads, visit>>
    BY <1>5 DEF MarkImageReady, Step
  <2> HIDE DEF r, k, l
  <2>4. LinksTyped'
    BY <2>1, <2>2, <2>3 DEF ImagesThere, LinksTyped
  <2>5. Rendered'
    BY <2>2, <2>3 DEF ImagesThere, LinksTyped, Rendered, RunAt
  <2>6. ReadyHasObject'
    BY <2>1, <2>3 DEF ImagesThere, LinksTyped, ReadyHasObject, VisitAt
  <2> QED
    BY <2>4, <2>5, <2>6 DEF ImagesThere
<1>6. ASSUME NEW w \in Worker, Finish(w) \/ Throw(w) \/ LoseWorker(w) PROVE ImagesThere'
  <2>1. run' = [run EXCEPT ![w] = NoRun] /\ UNCHANGED <<imageStatus, imageKey, uploads, visit>>
    BY <1>6 DEF Finish, Throw, LoseWorker, linkVars
  <2> QED
    BY <2>1, LinkRunPreserves DEF NoRun
<1>7. ASSUME NEW w \in Worker, LoseLock(w) PROVE ImagesThere'
  <2> DEFINE r == [run[w] EXCEPT !.owned = FALSE]
  <2>1. run[w] \in Rendering
    BY <1>7, LinkParts DEF LoseLock, ImagesThere
  <2>2. r \in Rendering /\ r.pc = run[w].pc /\ r.key = run[w].key /\ r.link = run[w].link
    BY <2>1 DEF Rendering
  <2>3. run' = [run EXCEPT ![w] = r] /\ UNCHANGED <<imageStatus, imageKey, uploads, visit>>
    BY <1>7 DEF LoseLock, linkVars
  <2> HIDE DEF r
  <2>4. LinksTyped' /\ ReadyHasObject'
    BY <2>2, <2>3 DEF ImagesThere, LinksTyped, ReadyHasObject, VisitAt
  <2>5. Rendered'
    BY <2>2, <2>3 DEF ImagesThere, LinksTyped, Rendered, RunAt
  <2> QED
    BY <2>4, <2>5 DEF ImagesThere
<1>8. ASSUME NEW l \in Link, MarkImageFailed(l) PROVE ImagesThere'
  <2>1. /\ imageStatus' \in [Link -> {"PENDING", "READY", "FAILED"}]
        /\ \A m \in Link : imageStatus'[m] = "READY" => imageStatus[m] = "READY"
    BY <1>8 DEF MarkImageFailed, ImagesThere, LinksTyped
  <2>2. UNCHANGED <<imageKey, uploads, run, visit>>
    BY <1>8 DEF MarkImageFailed
  <2> QED
    BY <2>1, <2>2 DEF ImagesThere, LinksTyped, Rendered, ReadyHasObject, RunAt, VisitAt
<1>9. ASSUME NEW v \in Visitor, VisitStep(v) PROVE ImagesThere'
  <2>1. ASSUME NEW pc \in {"summary", "image", "signup"}, NEW l \in Link, NEW k \in Nat,
               BeginVisit(v, pc, l, k), pc = "image" => k \in 1..uploads[l]
        PROVE  ImagesThere'
    <3> DEFINE x == [pc |-> pc, link |-> l, key |-> k]
    <3>1. x \in Visiting /\ x.pc = pc /\ x.key = k /\ x.link = l
      BY DEF Visiting
    <3>2. visit' = [visit EXCEPT ![v] = x] /\ UNCHANGED <<imageStatus, imageKey, uploads, run>>
      BY <2>1 DEF BeginVisit, linkVars
    <3> HIDE DEF x
    <3> QED
      BY <2>1, <3>1, <3>2, VisitPreserves
  <2>2. CASE BeginSummary(v) \/ BeginSignup(v)
    BY <2>1, <2>2 DEF BeginSummary, BeginSignup, Active
  <2>3. CASE BeginImage(v)
    <3>1. PICK l \in Link : imageStatus[l] = "READY" /\ BeginVisit(v, "image", l, imageKey[l])
      BY <2>3 DEF BeginImage, Active
    <3>2. imageKey[l] \in Nat /\ imageKey[l] \in 1..uploads[l]
      BY <3>1 DEF ImagesThere, LinksTyped, ReadyHasObject
    <3> QED
      BY <2>1, <3>1, <3>2
  <2>4. CASE LogVisit(v) \/ DownloadImage(v)
    <3>1. visit' = [visit EXCEPT ![v] = NoRequest]
          /\ UNCHANGED <<imageStatus, imageKey, uploads, run>>
      BY <2>4 DEF LogVisit, DownloadImage, EndVisit, linkVars
    <3> QED
      BY <3>1, VisitPreserves DEF NoRequest
  <2> QED
    BY <1>9, <2>2, <2>3, <2>4 DEF VisitStep
<1> QED
  BY <1>1, <1>2, <1>3, <1>4, <1>5, <1>6, <1>7, <1>8, <1>9 DEF SharingNext, RunStep

\* Every reachable state satisfies the invariant.
LEMMA AlwaysRendered == SharingSpec => []ImagesThere
<1>1. SharingInit => ImagesThere
  BY InitiallyRendered
<1>2. ImagesThere /\ [SharingNext]_sharingVars => ImagesThere'
  BY LinkStepPreserves
<1> QED
  BY <1>1, <1>2, PTL DEF SharingSpec

-----------------------------------------------------------------------------
\* Sharing: the theorems

\* What GET /shared/:token/image serves is there, however many runs of the job
\* overlap, fail or are lost, and whatever the owner and other visitors do.
THEOREM ReadyImagesExist == SharingSpec => []ReadyHasObject
<1>1. ImagesThere => ReadyHasObject
  BY DEF ImagesThere
<1> QED
  BY <1>1, AlwaysRendered, PTL

\* markImageFailed does not take back what another run has made READY.
THEOREM ReadyIsKept == SharingSpec => ReadyStays
<1>1. ASSUME ImagesThere, [SharingNext]_sharingVars
      PROVE  [\A l \in Link : imageStatus[l] = "READY" => imageStatus'[l] = "READY"]_sharingVars
  <2>1. ASSUME NEW w \in Worker, MarkImageReady(w)
        PROVE  \A l \in Link : imageStatus[l] = "READY" => imageStatus'[l] = "READY"
    BY <1>1, <2>1 DEF MarkImageReady, ImagesThere, LinksTyped
  <2>2. ASSUME NEW l \in Link, MarkImageFailed(l)
        PROVE  \A m \in Link : imageStatus[m] = "READY" => imageStatus'[m] = "READY"
    BY <1>1, <2>2 DEF MarkImageFailed, ImagesThere, LinksTyped
  <2>3. \/ UNCHANGED sharingVars \/ UNCHANGED imageStatus
        \/ \E w \in Worker : MarkImageReady(w)
        \/ \E l \in Link : MarkImageFailed(l)
    BY <1>1 DEF SharingNext, RunStep, RequestStep, VisitStep, BeginShare, BeginRevoke,
       CreateLink, EnqueueImage, CommitRevoke, LogEvent, Pick, Load, UploadImage,
       Finish, Throw, LoseWorker, LoseLock, LoseListener, LoseRequest, BeginSummary,
       BeginSignup, BeginImage, BeginVisit, LogVisit, DownloadImage, EndVisit, linkVars
  <2> QED
    BY <2>1, <2>2, <2>3
<1> QED
  BY <1>1, AlwaysRendered, PTL DEF SharingSpec, ReadyStays
=============================================================================
