------------------------------- MODULE Wallet -------------------------------
(***************************************************************************)
(* The credit wallet (src/wallet/wallet.service.ts) over its four tables:  *)
(* wallets, wallet_transactions (the ledger), credit_reservations and      *)
(* audit_logs, plus the rows of readings that reservations refer to.       *)
(*                                                                         *)
(* Every operation of WalletService is one database transaction that       *)
(* writes the wallet row with an atomic UPDATE, so it holds that row's     *)
(* lock until it commits, and a transaction is one action here.  The       *)
(* exception is confirmConsumption: it only READS wallets.balance, without *)
(* a lock (READ COMMITTED), so other movements commit between that read    *)
(* and its own commit; it is two actions.  Calls that throw roll back and  *)
(* change nothing: they are the states in which the action is disabled.    *)
(***************************************************************************)
EXTENDS Integers, Sequences

CONSTANTS
    User,           \* users
    Reading,        \* identifiers (uuid) of readings
    Order,          \* identifiers of purchase orders
    Cost,           \* credit costs a reading may be reserved for
    Credits,        \* numbers of credits an order may bring
    Adjustment,     \* amounts an administrator may enter
    InitialBonus,   \* WALLET_INITIAL_BONUS_CREDITS
    MaxAdjustments  \* bound: administrator's adjustments in a behaviour

ASSUME CostAssumption == Cost \subseteq Nat
ASSUME CreditsAssumption == Credits \subseteq Nat
ASSUME AdjustmentAssumption == Adjustment \subseteq Int
ASSUME BonusAssumption == InitialBonus \in Nat

VARIABLES
    wallets,        \* users that have a row in wallets
    balance,        \* wallets.balance
    ledger,         \* wallet_transactions of each user, in commit order
    reservation,    \* credit_reservations, unique on readingId
    rows,           \* readings rows: a foreign key of the reservations
    audit,          \* audit_logs entries 'wallet.adjustment'
    confirming,     \* readings with an open confirmConsumption transaction
    seen            \* the balance such a transaction has read

vars == <<wallets, balance, ledger, reservation, rows, audit, confirming, seen>>

NoReservation == [status |-> "NONE"]

ReservationStatus == {"ACTIVE", "CONSUMED", "RELEASED"}

Reservations ==
    {NoReservation} \cup [status : ReservationStatus, user : User, amount : Cost]

EntryType == {"BONUS", "RESERVATION", "CONSUMPTION", "RELEASE", "PURCHASE", "ADJUSTMENT"}

\* idempotencyKey is the pair of an entry's type and the object it is about.
Entry == [type : EntryType, ref : User \cup Reading \cup Order \cup Nat,
          amount : Int, balanceAfter : Int]

Init ==
    /\ wallets = {}
    /\ balance = [u \in User |-> 0]
    /\ ledger = [u \in User |-> << >>]
    /\ reservation = [r \in Reading |-> NoReservation]
    /\ rows = [r \in Reading |-> "absent"]
    /\ audit = << >>
    /\ confirming = {}
    /\ seen = [r \in Reading |-> 0]

-----------------------------------------------------------------------------
\* The ledger

Recorded(type, ref) ==
    \E u \in User : \E i \in 1..Len(ledger[u]) :
        ledger[u][i].type = type /\ ledger[u][i].ref = ref

\* walletTransaction.create: fails, and with it the caller's transaction, when
\* the unique idempotencyKey is taken.
Post(u, type, ref, amount, after) ==
    /\ ~Recorded(type, ref)
    /\ ledger' = [ledger EXCEPT ![u] =
         Append(@, [type |-> type, ref |-> ref, amount |-> amount, balanceAfter |-> after])]

\* Mutant: balanceAfter is the balance before the movement.
MoveShowingTheOldBalance(u, type, ref, amount) ==
    /\ balance' = [balance EXCEPT ![u] = @ + amount]
    /\ Post(u, type, ref, amount, balance[u])

\* A movement of `amount` credits and its ledger entry, in one transaction.
Move(u, type, ref, amount) ==
    /\ balance' = [balance EXCEPT ![u] = @ + amount]
    /\ Post(u, type, ref, amount, balance[u] + amount)

-----------------------------------------------------------------------------
\* Operations

CreateWalletWithBonus(u) ==
    /\ u \notin wallets
    /\ wallets' = wallets \cup {u}
    /\ IF InitialBonus > 0 THEN Move(u, "BONUS", u, InitialBonus)
                           ELSE UNCHANGED <<balance, ledger>>
    /\ UNCHANGED <<reservation, rows, audit, confirming, seen>>

\* ReadingsService.create
InsertReading(r) ==
    /\ rows[r] = "absent"
    /\ rows' = [rows EXCEPT ![r] = "present"]
    /\ UNCHANGED <<wallets, balance, ledger, reservation, audit, confirming, seen>>

\* ReadingsService.remove: onDelete Cascade takes the reservation away, the
\* ledger keeps its entries (readingId becomes NULL, the keys stay).
DeleteReading(r) ==
    /\ rows[r] = "present"
    /\ r \notin confirming
    /\ rows' = [rows EXCEPT ![r] = "deleted"]
    /\ reservation' = [reservation EXCEPT ![r] = NoReservation]
    /\ UNCHANGED <<wallets, balance, ledger, audit, confirming, seen>>

\* Mutant: a plain UPDATE, without the condition on the balance.
ReserveWithoutCondition(u, r, amount) ==
    /\ u \in wallets
    /\ rows[r] = "present"
    /\ reservation[r] = NoReservation
    /\ reservation' = [reservation EXCEPT ![r] =
                         [status |-> "ACTIVE", user |-> u, amount |-> amount]]
    /\ Move(u, "RESERVATION", r, -amount)
    /\ UNCHANGED <<wallets, rows, audit, confirming, seen>>

ReserveCreditsForReading(u, r, amount) ==
    /\ u \in wallets
    /\ balance[u] >= amount
    /\ rows[r] = "present"
    /\ reservation[r] = NoReservation
    /\ reservation' = [reservation EXCEPT ![r] =
                         [status |-> "ACTIVE", user |-> u, amount |-> amount]]
    /\ Move(u, "RESERVATION", r, -amount)
    /\ UNCHANGED <<wallets, rows, audit, confirming, seen>>

\* Mutant: the UPDATE finds the reservation by readingId alone.
ActiveOrClosed(r) == reservation[r].status # "NONE" /\ r \notin confirming

Active(r) == reservation[r].status = "ACTIVE" /\ r \notin confirming

\* Mutant: the entry takes the amount off a balance it was already taken off.
BeginConsumptionTakingItTwice(r) ==
    /\ Active(r)
    /\ confirming' = confirming \cup {r}
    /\ seen' = [seen EXCEPT ![r] = balance[reservation[r].user] - reservation[r].amount]
    /\ UNCHANGED <<wallets, balance, ledger, reservation, rows, audit>>

\* confirmConsumption up to its read of the wallet: the row of the reservation
\* stays locked from here on, its new status is not yet visible to others.
BeginConsumption(r) ==
    /\ Active(r)
    /\ confirming' = confirming \cup {r}
    /\ seen' = [seen EXCEPT ![r] = balance[reservation[r].user]]
    /\ UNCHANGED <<wallets, balance, ledger, reservation, rows, audit>>

CommitConsumption(r) ==
    /\ r \in confirming
    /\ reservation' = [reservation EXCEPT ![r].status = "CONSUMED"]
    /\ Post(reservation[r].user, "CONSUMPTION", r, 0, seen[r])
    /\ confirming' = confirming \ {r}
    /\ seen' = [seen EXCEPT ![r] = 0]
    /\ UNCHANGED <<wallets, balance, rows, audit>>

\* The process or its connection dies: the database rolls the transaction back.
AbortConsumption(r) ==
    /\ r \in confirming
    /\ confirming' = confirming \ {r}
    /\ seen' = [seen EXCEPT ![r] = 0]
    /\ UNCHANGED <<wallets, balance, ledger, reservation, rows, audit>>

\* Mutant: refunds what the service costs now instead of what was reserved.
ReleaseAtPresentCost(r) ==
    /\ Active(r)
    /\ reservation' = [reservation EXCEPT ![r].status = "RELEASED"]
    /\ \E cost \in Cost : Move(reservation[r].user, "RELEASE", r, cost)
    /\ UNCHANGED <<wallets, rows, audit, confirming, seen>>

ReleaseReservation(r) ==
    /\ Active(r)
    /\ reservation' = [reservation EXCEPT ![r].status = "RELEASED"]
    /\ Move(reservation[r].user, "RELEASE", r, reservation[r].amount)
    /\ UNCHANGED <<wallets, rows, audit, confirming, seen>>

CreditPurchase(u, o, credits) ==
    /\ u \in wallets
    /\ Move(u, "PURCHASE", o, credits)
    /\ UNCHANGED <<wallets, reservation, rows, audit, confirming, seen>>

\* The random idempotencyKey is a number no earlier adjustment has.
AdjustBalance(u, amount) ==
    /\ Len(audit) < MaxAdjustments
    /\ amount # 0
    /\ u \in wallets
    /\ amount < 0 => balance[u] >= -amount
    /\ Move(u, "ADJUSTMENT", Len(audit) + 1, amount)
    /\ audit' = Append(audit, [user |-> u, amount |-> amount,
                               balanceAfter |-> balance[u] + amount])
    /\ UNCHANGED <<wallets, reservation, rows, confirming, seen>>

Next ==
    \/ \E u \in User : CreateWalletWithBonus(u)
    \/ \E r \in Reading : InsertReading(r)
    \/ \E r \in Reading : DeleteReading(r)
    \/ \E u \in User, r \in Reading, a \in Cost : ReserveCreditsForReading(u, r, a)
    \/ \E r \in Reading : BeginConsumption(r)
    \/ \E r \in Reading : CommitConsumption(r)
    \/ \E r \in Reading : AbortConsumption(r)
    \/ \E r \in Reading : ReleaseReservation(r)
    \/ \E u \in User, o \in Order, c \in Credits : CreditPurchase(u, o, c)
    \/ \E u \in User, a \in Adjustment : AdjustBalance(u, a)

Spec == Init /\ [][Next]_vars

-----------------------------------------------------------------------------
\* Properties

TypeOK ==
    /\ wallets \subseteq User
    /\ balance \in [User -> Int]
    /\ ledger \in [User -> Seq(Entry)]
    /\ reservation \in [Reading -> Reservations]
    /\ rows \in [Reading -> {"absent", "present", "deleted"}]
    /\ audit \in Seq([user : User, amount : Int, balanceAfter : Int])
    /\ confirming \subseteq Reading
    /\ seen \in [Reading -> Int]

\* No interleaving of reservations, refunds, purchases and negative adjustments
\* drives a balance below zero (the conditional UPDATE ... balance >= amount of
\* reserveCreditsForReading and adjustBalance).
NonNegativeBalance == \A u \in User : balance[u] >= 0

\* The entries that move credits: all but CONSUMPTION, which only marks the
\* moment a reservation became final.
Moves(L) == {i \in 1..Len(L) : L[i].type # "CONSUMPTION"}

\* Along the entries of L that move credits each balanceAfter is the previous
\* one plus the entry's amount, from zero to the balance b: adding up `amount`
\* gives b.
Reconciled(L, b) ==
    /\ Moves(L) = {} => b = 0
    /\ \A i \in Moves(L) :
         /\ (\A k \in Moves(L) : k <= i) => b = L[i].balanceAfter
         /\ (\A k \in Moves(L) : k >= i) => L[i].balanceAfter = L[i].amount
         /\ \A j \in Moves(L) :
              j < i /\ (\A k \in Moves(L) : k <= j \/ k >= i)
              => L[i].balanceAfter = L[j].balanceAfter + L[i].amount

\* wallets.balance is a projection of the ledger, which can be reconciled with
\* it (schema.prisma:412).  It fails when credits move without their entry, or
\* with a balance that another transaction has changed in between.
LedgerReconciles == \A u \in User : Reconciled(ledger[u], balance[u])

\* Ledger and reservations tell the same story: a reservation is charged once,
\* and closed at most once, by a CONSUMPTION or by a RELEASE and never by both,
\* whoever calls confirmConsumption and releaseReservation and however often.
ReservationsMatchLedger ==
    \A r \in Reading : LET status == reservation[r].status IN
        /\ ~(Recorded("CONSUMPTION", r) /\ Recorded("RELEASE", r))
        /\ rows[r] = "present" =>
             /\ (status # "NONE") <=> Recorded("RESERVATION", r)
             /\ (status = "CONSUMED") <=> Recorded("CONSUMPTION", r)
             /\ (status = "RELEASED") <=> Recorded("RELEASE", r)

\* A CONSUMPTION entry shows a balance the wallet really had since the credits
\* of that reading were reserved, though perhaps no longer has: the read in
\* confirmConsumption takes no lock.
ConsumptionShowsAPastBalance ==
    \A u \in User : \A i \in 1..Len(ledger[u]) : LET L == ledger[u] IN
        L[i].type = "CONSUMPTION" =>
            \E h \in 1..(i - 1), j \in 1..(i - 1) :
                /\ L[h].type = "RESERVATION" /\ L[h].ref = L[i].ref
                /\ h <= j /\ L[j].type # "CONSUMPTION"
                /\ L[j].balanceAfter = L[i].balanceAfter

-----------------------------------------------------------------------------
\* The abstract account, read off the ledger: it outlives the reservations that
\* are deleted with their readings.

Holder(r) == CHOOSE u \in User : \E i \in 1..Len(ledger[u]) :
                ledger[u][i].type = "RESERVATION" /\ ledger[u][i].ref = r

HoldEntry(r) == LET L == ledger[Holder(r)] IN
    L[CHOOSE i \in 1..Len(L) : L[i].type = "RESERVATION" /\ L[i].ref = r]

HoldState(r) == IF Recorded("RELEASE", r) THEN "refunded"
                ELSE IF Recorded("CONSUMPTION", r) THEN "captured" ELSE "held"

LedgerHold == [r \in Reading |->
    IF ~Recorded("RESERVATION", r) THEN [state |-> "none"]
    ELSE [state |-> HoldState(r), user |-> Holder(r), amount |-> -HoldEntry(r).amount]]

Account == INSTANCE CreditAccount WITH
    available <- balance,
    hold <- LedgerHold,
    Grant <- {InitialBonus} \cup Credits \cup Adjustment

\* Every step of the wallet is a grant, a hold, a capture, a full refund to the
\* user charged, or leaves credits and holds as they are.
ImplementsCreditAccount == Account!Spec
=============================================================================
