------------------------------- MODULE Rewards -------------------------------
(***************************************************************************)
(* Rewarded ads (RewardsService) and what they buy: readings at no cost,   *)
(* the card of the day (DailyCardService) and flash offers, which          *)
(* OrdersService applies to an order.  Rewards of different users have     *)
(* nothing in common: the module describes one user.                       *)
(*                                                                         *)
(* The ads network is external: it calls back for a session when an ad has *)
(* been watched, any number of times.  Time is a day and what has expired. *)
(* A request may be lost between two of its steps.                         *)
(***************************************************************************)
EXTENDS Integers, FiniteSets, Sequences

CONSTANTS
    Session,        \* reward sessions
    Order,          \* orders of the package the flash offers are for
    Task,           \* requests and callbacks served at the same time
    AdsRequired,    \* REWARD_ADS_REQUIRED
    DailyLimit,     \* FLASH_OFFER_DAILY_LIMIT
    FreeDays,       \* DAILY_CARD_FREE_DAYS
    MaxDays         \* bound: days of a behaviour

RewardType == {"DAILY_CARD", "TAROT_READING", "FLASH_OFFER"}

ASSUME AdsRequiredAssumption == AdsRequired \in [RewardType -> Nat \ {0}]
ASSUME LimitsAssumption == DailyLimit \in Nat /\ FreeDays \in Nat /\ MaxDays \in Nat \ {0}
ASSUME FiniteAssumption == IsFiniteSet(Session) /\ IsFiniteSet(Task)

VARIABLES
    session,        \* reward_sessions
    expired,        \* sessions whose expiresAt has passed
    transaction,    \* reward_transactions: the day of each, 0 where there is none
    progress,       \* reward_progress.currentCount
    freeReadings,   \* readings unlocked so far
    cards,          \* days whose card is in the cache
    offers,         \* flash_offer_unlocks, oldest first
    order,          \* orders: the offer each has applied (0: the full price), and its day
    task,           \* what each request or callback is doing
    day

vars == <<session, expired, transaction, progress, freeReadings, cards, offers, order, task, day>>

NoSession == [status |-> "NONE"]

SessionStatus == {"CREATED", "COMPLETED", "EXPIRED"}

NoOrder == [day |-> 0]

Idle == [kind |-> "idle"]

Tasks ==
    {Idle}
      \cup [kind : {"session"}, type : RewardType]
      \cup [kind : {"complete", "expire"}, session : Session]
      \cup [kind : {"unlock", "deliver"}, date : 1..MaxDays]
      \cup [kind : {"order"}, order : Order, offer : Nat]

Init ==
    /\ session = [s \in Session |-> NoSession]
    /\ expired = {}
    /\ transaction = [s \in Session |-> 0]
    /\ progress = [t \in RewardType |-> 0]
    /\ freeReadings = 0
    /\ cards = {}
    /\ offers = << >>
    /\ order = [o \in Order |-> NoOrder]
    /\ task = [a \in Task |-> Idle]
    /\ day = 1

Does(a, kind) == task[a].kind = kind

Become(a, t) == task' = [task EXCEPT ![a] = t]

-----------------------------------------------------------------------------
\* Sessions and callbacks

Completed(t) == {s \in Session : transaction[s] # 0 /\ session[s].type = t}

CompletedToday(t) == {s \in Completed(t) : transaction[s] = day}

\* assertFlashOfferDailyLimitNotExceeded
WithinDailyLimit ==
    Cardinality(CompletedToday("FLASH_OFFER")) \div AdsRequired["FLASH_OFFER"] < DailyLimit

BeginSession(a, t) ==
    /\ Does(a, "idle")
    /\ t = "FLASH_OFFER" => WithinDailyLimit
    /\ Become(a, [kind |-> "session", type |-> t])
    /\ UNCHANGED <<session, expired, transaction, progress, freeReadings, cards, offers, order, day>>

CreateSession(a, s) ==
    /\ Does(a, "session")
    /\ session[s] = NoSession
    /\ session' = [session EXCEPT ![s] = [status |-> "CREATED", type |-> task[a].type]]
    /\ Become(a, Idle)
    /\ UNCHANGED <<expired, transaction, progress, freeReadings, cards, offers, order, day>>

\* registerCompletedSession reads the session; one that is not CREATED any
\* more grants nothing.
Callback(a, s) ==
    /\ Does(a, "idle")
    /\ session[s].status = "CREATED"
    /\ Become(a, [kind |-> IF s \in expired THEN "expire" ELSE "complete", session |-> s])
    /\ UNCHANGED <<session, expired, transaction, progress, freeReadings, cards, offers, order, day>>

\* Mutant: the UPDATE has no condition on the status.
MarkAnyExpired(a) ==
    /\ Does(a, "expire")
    /\ session' = [session EXCEPT ![task[a].session].status = "EXPIRED"]
    /\ Become(a, Idle)
    /\ UNCHANGED <<expired, transaction, progress, freeReadings, cards, offers, order, day>>

MarkExpired(a) ==
    /\ Does(a, "expire")
    /\ session' = [session EXCEPT ![task[a].session].status =
                     IF @ = "CREATED" THEN "EXPIRED" ELSE @]
    /\ Become(a, Idle)
    /\ UNCHANGED <<expired, transaction, progress, freeReadings, cards, offers, order, day>>

\* The ad that is being counted earns a flash offer.
OfferDue(t) == t = "FLASH_OFFER" /\ progress[t] + 1 >= AdsRequired[t]

\* The transaction of registerCompletedSession, conditional on the status.
Complete(a) ==
    /\ Does(a, "complete")
    /\ LET s == task[a].session
           t == session[s].type
       IN IF session[s].status = "CREATED"
          THEN /\ session' = [session EXCEPT ![s].status = "COMPLETED"]
               /\ transaction' = [transaction EXCEPT ![s] = day]
               /\ progress' = [progress EXCEPT ![t] = IF OfferDue(t) THEN 0 ELSE @ + 1]
               /\ offers' = IF OfferDue(t) THEN Append(offers, "open") ELSE offers
          ELSE UNCHANGED <<session, transaction, progress, offers>>
    /\ Become(a, Idle)
    /\ UNCHANGED <<expired, freeReadings, cards, order, day>>

-----------------------------------------------------------------------------
\* What an unlock buys

\* Mutant: the counter is not reset.
ConsumeUnlockAndKeepIt(t) ==
    /\ progress[t] >= AdsRequired[t]
    /\ UNCHANGED progress

\* tryConsumeUnlock: one UPDATE, conditional on the counter.
ConsumeUnlock(t) ==
    /\ progress[t] >= AdsRequired[t]
    /\ progress' = [progress EXCEPT ![t] = 0]

\* The submission of a reading, in its transaction.
UnlockReading ==
    /\ ConsumeUnlock("TAROT_READING")
    /\ freeReadings' = freeReadings + 1
    /\ UNCHANGED <<session, expired, transaction, cards, offers, order, task, day>>

\* getTodaysCard: not in the cache.
BeginCard(a) ==
    /\ Does(a, "idle")
    /\ day \notin cards
    /\ Become(a, [kind |-> IF day <= FreeDays THEN "deliver" ELSE "unlock", date |-> day])
    /\ UNCHANGED <<session, expired, transaction, progress, freeReadings, cards, offers, order, day>>

UnlockCard(a) ==
    /\ Does(a, "unlock")
    /\ \/ ConsumeUnlock("DAILY_CARD") /\ Become(a, [task[a] EXCEPT !.kind = "deliver"])
       \/ progress["DAILY_CARD"] < AdsRequired["DAILY_CARD"] /\ Become(a, Idle)
          /\ UNCHANGED progress
    /\ UNCHANGED <<session, expired, transaction, freeReadings, cards, offers, order, day>>

DeliverCard(a) ==
    /\ Does(a, "deliver")
    /\ cards' = cards \cup {task[a].date}
    /\ Become(a, Idle)
    /\ UNCHANGED <<session, expired, transaction, progress, freeReadings, offers, order, day>>

-----------------------------------------------------------------------------
\* OrdersService.create

OpenOffers == {n \in 1..Len(offers) : offers[n] = "open"}

\* findFirst, the latest offer first; 0 when there is none.
BeginOrder(a, o) ==
    /\ Does(a, "idle")
    /\ order[o] = NoOrder
    /\ \A b \in Task : Does(b, "order") => task[b].order # o
    /\ \E n \in 0..Len(offers) :
         /\ IF OpenOffers = {} THEN n = 0
            ELSE n \in OpenOffers /\ \A m \in OpenOffers : m <= n
         /\ Become(a, [kind |-> "order", order |-> o, offer |-> n])
    /\ UNCHANGED <<session, expired, transaction, progress, freeReadings, cards, offers, order, day>>

\* Mutant: the offer found is applied without `consumedAt: null`.
ApplicableOfferAsRead(n) == n # 0

\* updateMany where consumedAt is null: an offer that has lapsed since it was
\* read is still taken.
ApplicableOffer(n) == n # 0 /\ offers[n] # "consumed"

CreateOrder(a) ==
    /\ Does(a, "order")
    /\ LET n == task[a].offer
           applied == IF ApplicableOffer(n) THEN n ELSE 0
       IN /\ order' = [order EXCEPT ![task[a].order] = [day |-> day, offer |-> applied]]
          /\ offers' = IF applied # 0 THEN [offers EXCEPT ![n] = "consumed"] ELSE offers
    /\ Become(a, Idle)
    /\ UNCHANGED <<session, expired, transaction, progress, freeReadings, cards, day>>

-----------------------------------------------------------------------------
\* Time and faults

ExpireSession(s) ==
    /\ session[s].status = "CREATED"
    /\ s \notin expired
    /\ expired' = expired \cup {s}
    /\ UNCHANGED <<session, transaction, progress, freeReadings, cards, offers, order, task, day>>

LapseOffer(n) ==
    /\ n \in OpenOffers
    /\ offers' = [offers EXCEPT ![n] = "lapsed"]
    /\ UNCHANGED <<session, expired, transaction, progress, freeReadings, cards, order, task, day>>

NextDay ==
    /\ day < MaxDays
    /\ day' = day + 1
    /\ UNCHANGED <<session, expired, transaction, progress, freeReadings, cards, offers, order, task>>

Lose(a) ==
    /\ ~Does(a, "idle")
    /\ Become(a, Idle)
    /\ UNCHANGED <<session, expired, transaction, progress, freeReadings, cards, offers, order, day>>

Next ==
    \/ \E a \in Task, t \in RewardType : BeginSession(a, t)
    \/ \E a \in Task, s \in Session : CreateSession(a, s) \/ Callback(a, s)
    \/ \E a \in Task : MarkExpired(a) \/ Complete(a)
    \/ UnlockReading
    \/ \E a \in Task : BeginCard(a) \/ UnlockCard(a) \/ DeliverCard(a)
    \/ \E a \in Task, o \in Order : BeginOrder(a, o)
    \/ \E a \in Task : CreateOrder(a)
    \/ \E s \in Session : ExpireSession(s)
    \/ \E n \in 1..Len(offers) : LapseOffer(n)
    \/ NextDay
    \/ \E a \in Task : Lose(a)

Spec == Init /\ [][Next]_vars

-----------------------------------------------------------------------------
\* Properties

TypeOK ==
    /\ session \in [Session -> {NoSession} \cup [status : SessionStatus, type : RewardType]]
    /\ expired \subseteq Session
    /\ transaction \in [Session -> 0..MaxDays]
    /\ progress \in [RewardType -> Nat] /\ progress["FLASH_OFFER"] < AdsRequired["FLASH_OFFER"]
    /\ freeReadings \in Nat
    /\ cards \subseteq 1..MaxDays
    /\ offers \in Seq({"open", "consumed", "lapsed"})
    /\ order \in [Order -> {NoOrder} \cup [day : 1..MaxDays, offer : 0..Len(offers)]]
    /\ task \in [Task -> Tasks]
    /\ day \in 1..MaxDays

\* A session that is COMPLETED has its reward transaction and no other session
\* has one: a callback that found it expired does not take back what a faster
\* one has granted (the conditions of registerCompletedSession's updates).
RewardedWhenCompleted ==
    \A s \in Session : session[s].status = "COMPLETED" <=> transaction[s] # 0

\* What a type of reward has bought.
Bought(t) == CASE t = "TAROT_READING" -> freeReadings
               [] t = "DAILY_CARD" -> Cardinality(cards \ (1..FreeDays))
               [] t = "FLASH_OFFER" -> Len(offers)

\* Every free reading, card beyond the free days and flash offer has cost as
\* many ads as it requires, and an ad counts once: duplicated callbacks and
\* concurrent consumers of tryConsumeUnlock get nothing for free.
AdsPayForUnlocks ==
    \A t \in RewardType :
        AdsRequired[t] * Bought(t) + progress[t] <= Cardinality(Completed(t))

\* "Para que jamas se pueda reutilizar" (orders.service.ts): an offer lowers the
\* price of one order at most, and has been marked as consumed.
OfferUsedOnce ==
    \A o, p \in Order :
        order[o] # NoOrder /\ order[o].offer # 0 =>
            /\ offers[order[o].offer] = "consumed"
            /\ o # p /\ order[p] # NoOrder => order[o].offer # order[p].offer

\* "Maximo 1 compra promocional por usuario por dia" (rewards.service.ts:348).
OnePromotionADay ==
    \A d \in 1..MaxDays :
        Cardinality({o \in Order : order[o].day = d /\ order[o].offer # 0}) <= DailyLimit
=============================================================================
