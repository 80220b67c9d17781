---------------------------- MODULE WalletProofs ----------------------------
(***************************************************************************)
(* Theorems of Wallet for every set of users, readings and orders, every   *)
(* cost, bonus and adjustment.                                             *)
(***************************************************************************)
EXTENDS Wallet, TLAPS

\* What the constants are, for citing in one place.
Amounts == /\ Cost \subseteq Nat
           /\ Credits \subseteq Nat
           /\ Adjustment \subseteq Int
           /\ InitialBonus \in Nat

\* The amounts the service accepts are what the assumptions on the constants say:
\* costs, credits and the bonus are naturals, only an adjustment may be negative.
LEMMA AmountsHold == Amounts
BY CostAssumption, CreditsAssumption, AdjustmentAssumption, BonusAssumption DEF Amounts

-----------------------------------------------------------------------------
\* Posting an entry keeps the ledger well typed.
LEMMA PostType ==
    ASSUME TypeOK, NEW u \in User, NEW type \in EntryType,
           NEW ref \in User \cup Reading \cup Order \cup Nat,
           NEW amount \in Int, NEW after \in Int, Post(u, type, ref, amount, after)
    PROVE  ledger' \in [User -> Seq(Entry)]
<1> DEFINE e == [type |-> type, ref |-> ref, amount |-> amount, balanceAfter |-> after]
<1>1. e \in Entry
  BY DEF Entry
<1>2. Append(ledger[u], e) \in Seq(Entry)
  BY <1>1 DEF TypeOK
<1>3. ledger' = [ledger EXCEPT ![u] = Append(ledger[u], e)]
  BY DEF Post
<1> HIDE DEF e
<1> QED
  BY <1>2, <1>3 DEF TypeOK

\* A movement of credits (the wallet's update and its ledger row, written in one
\* transaction) leaves both tables well typed.
LEMMA MoveType ==
    ASSUME TypeOK, NEW u \in User, NEW type \in EntryType,
           NEW ref \in User \cup Reading \cup Order \cup Nat,
           NEW amount \in Int, Move(u, type, ref, amount)
    PROVE  /\ ledger' \in [User -> Seq(Entry)]
           /\ balance' \in [User -> Int]
<1>1. balance[u] + amount \in Int
  BY DEF TypeOK
<1>2. Post(u, type, ref, amount, balance[u] + amount)
  BY DEF Move
<1>3. ledger' \in [User -> Seq(Entry)]
  BY <1>1, <1>2, PostType
<1>4. balance' \in [User -> Int]
  BY <1>1 DEF Move, TypeOK
<1> QED
  BY <1>3, <1>4

\* An open reservation is a full record.
LEMMA ActiveType ==
    ASSUME TypeOK, NEW r \in Reading, reservation[r].status # "NONE"
    PROVE  /\ reservation[r] \in [status : ReservationStatus, user : User, amount : Cost]
           /\ reservation[r].user \in User
           /\ reservation[r].amount \in Nat
<1>1. reservation[r] \in Reservations
  BY DEF TypeOK
<1>2. reservation[r] # NoReservation
  BY DEF NoReservation
<1>3. reservation[r] \in [status : ReservationStatus, user : User, amount : Cost]
  BY <1>1, <1>2 DEF Reservations
<1> QED
  BY <1>3, AmountsHold DEF Amounts

\* Closing a reservation changes its status alone.
LEMMA CloseType ==
    ASSUME TypeOK, NEW r \in Reading, reservation[r].status # "NONE",
           NEW s \in ReservationStatus,
           reservation' = [reservation EXCEPT ![r].status = s]
    PROVE  reservation' \in [Reading -> Reservations]
<1>1. [reservation[r] EXCEPT !.status = s]
        \in [status : ReservationStatus, user : User, amount : Cost]
  BY ActiveType
<1>2. reservation' = [reservation EXCEPT ![r] = [reservation[r] EXCEPT !.status = s]]
  OBVIOUS
<1> QED
  BY <1>1, <1>2 DEF TypeOK, Reservations

\* TypeOK is not inductive: CommitConsumption needs that the row it has locked
\* is still an open reservation.
LockedIsActive == \A r \in confirming : reservation[r].status = "ACTIVE"

Typed == TypeOK /\ LockedIsActive

\* The empty tables are well typed and no transaction holds a row.
LEMMA TypedInitially == Init => Typed
BY DEF Init, Typed, TypeOK, Reservations, LockedIsActive

\* A step keeps Typed: one step of the proof per action.
LEMMA TypedPreserved ==
    ASSUME Typed, [Next]_vars
    PROVE  Typed'
<1> USE DEF Typed
<1>1. ASSUME NEW u \in User, CreateWalletWithBonus(u)
      PROVE  Typed'
  <2>1. ledger' \in [User -> Seq(Entry)] /\ balance' \in [User -> Int]
    <3>1. CASE InitialBonus > 0
      <4>1. Move(u, "BONUS", u, InitialBonus)
        BY <1>1, <3>1 DEF CreateWalletWithBonus
      <4> QED
        BY <4>1, MoveType, AmountsHold DEF Amounts, EntryType
    <3>2. CASE ~(InitialBonus > 0)
      BY <1>1, <3>2 DEF CreateWalletWithBonus, TypeOK
    <3> QED
      BY <3>1, <3>2
  <2> QED
    BY <1>1, <2>1 DEF CreateWalletWithBonus, TypeOK, LockedIsActive
<1>2. ASSUME NEW r \in Reading, InsertReading(r)
      PROVE  Typed'
  BY <1>2 DEF InsertReading, TypeOK, LockedIsActive
<1>3. ASSUME NEW r \in Reading, DeleteReading(r)
      PROVE  Typed'
  BY <1>3 DEF DeleteReading, TypeOK, Reservations, LockedIsActive
<1>4. ASSUME NEW u \in User, NEW r \in Reading, NEW a \in Cost,
             ReserveCreditsForReading(u, r, a)
      PROVE  Typed'
  <2>1. a \in Nat /\ -a \in Int
    BY AmountsHold DEF Amounts
  <2>2. Move(u, "RESERVATION", r, -a)
    BY <1>4 DEF ReserveCreditsForReading
  <2>3. ledger' \in [User -> Seq(Entry)] /\ balance' \in [User -> Int]
    BY <2>1, <2>2, MoveType DEF EntryType
  <2>4. [status |-> "ACTIVE", user |-> u, amount |-> a] \in Reservations
    BY DEF Reservations, ReservationStatus
  <2>5. reservation' \in [Reading -> Reservations]
    BY <1>4, <2>4 DEF ReserveCreditsForReading, TypeOK
  <2>6. LockedIsActive'
    BY <1>4 DEF ReserveCreditsForReading, TypeOK, LockedIsActive
  <2> QED
    BY <1>4, <2>3, <2>5, <2>6 DEF ReserveCreditsForReading, TypeOK
<1>5. ASSUME NEW r \in Reading, BeginConsumption(r)
      PROVE  Typed'
  <2>1. reservation[r].user \in User
    BY <1>5, ActiveType DEF BeginConsumption, Active
  <2> QED
    BY <1>5, <2>1 DEF BeginConsumption, Active, TypeOK, LockedIsActive
<1>6. ASSUME NEW r \in Reading, CommitConsumption(r)
      PROVE  Typed'
  <2>1. reservation[r].status = "ACTIVE"
    BY <1>6 DEF CommitConsumption, LockedIsActive
  <2>2. reservation' \in [Reading -> Reservations]
    BY <1>6, <2>1, CloseType DEF CommitConsumption, ReservationStatus
  <2>3. ledger' \in [User -> Seq(Entry)]
    <3>1. Post(reservation[r].user, "CONSUMPTION", r, 0, seen[r])
      BY <1>6 DEF CommitConsumption
    <3>2. reservation[r].user \in User /\ seen[r] \in Int
      BY <2>1, ActiveType DEF TypeOK
    <3> QED
      BY <3>1, <3>2, PostType DEF EntryType
  <2>4. LockedIsActive'
    BY <1>6 DEF CommitConsumption, TypeOK, LockedIsActive
  <2> QED
    BY <1>6, <2>2, <2>3, <2>4 DEF CommitConsumption, TypeOK
<1>7. ASSUME NEW r \in Reading, AbortConsumption(r)
      PROVE  Typed'
  BY <1>7 DEF AbortConsumption, TypeOK, LockedIsActive
<1>8. ASSUME NEW r \in Reading, ReleaseReservation(r)
      PROVE  Typed'
  <2>1. reservation[r].status # "NONE"
    BY <1>8 DEF ReleaseReservation, Active
  <2>2. reservation' \in [Reading -> Reservations]
    BY <1>8, <2>1, CloseType DEF ReleaseReservation, ReservationStatus
  <2>3. Move(reservation[r].user, "RELEASE", r, reservation[r].amount)
    BY <1>8 DEF ReleaseReservation
  <2>4. ledger' \in [User -> Seq(Entry)] /\ balance' \in [User -> Int]
    BY <2>1, <2>3, ActiveType, MoveType DEF EntryType
  <2>5. LockedIsActive'
    BY <1>8 DEF ReleaseReservation, Active, TypeOK, LockedIsActive
  <2> QED
    BY <1>8, <2>2, <2>4, <2>5 DEF ReleaseReservation, TypeOK
<1>9. ASSUME NEW u \in User, NEW o \in Order, NEW c \in Credits, CreditPurchase(u, o, c)
      PROVE  Typed'
  <2>1. Move(u, "PURCHASE", o, c)
    BY <1>9 DEF CreditPurchase
  <2>2. ledger' \in [User -> Seq(Entry)] /\ balance' \in [User -> Int]
    BY <2>1, MoveType, AmountsHold DEF Amounts, EntryType
  <2> QED
    BY <1>9, <2>2 DEF CreditPurchase, TypeOK, LockedIsActive
<1>10. ASSUME NEW u \in User, NEW a \in Adjustment, AdjustBalance(u, a)
       PROVE  Typed'
  <2>1. a \in Int
    BY AmountsHold DEF Amounts
  <2>2. Move(u, "ADJUSTMENT", Len(audit) + 1, a)
    BY <1>10 DEF AdjustBalance
  <2>3. Len(audit) + 1 \in Nat
    BY DEF TypeOK
  <2>4. ledger' \in [User -> Seq(Entry)] /\ balance' \in [User -> Int]
    BY <2>1, <2>2, <2>3, MoveType DEF EntryType
  <2>5. audit' \in Seq([user : User, amount : Int, balanceAfter : Int])
    BY <1>10, <2>1 DEF AdjustBalance, TypeOK
  <2> QED
    BY <1>10, <2>4, <2>5 DEF AdjustBalance, TypeOK, LockedIsActive
<1>11. CASE UNCHANGED vars
  BY <1>11 DEF vars, TypeOK, LockedIsActive
<1> QED
  BY <1>1, <1>2, <1>3, <1>4, <1>5, <1>6, <1>7, <1>8, <1>9, <1>10, <1>11 DEF Next

\* No operation of WalletService, in any order, breaks Typed.
LEMMA TypedAlways == Spec => []Typed
<1> QED
  BY TypedInitially, TypedPreserved, PTL DEF Spec

\* Every table keeps the shape of its schema through every operation.
THEOREM TypeCorrect == Spec => []TypeOK
<1>1. Typed => TypeOK
  BY DEF Typed
<1> QED
  BY <1>1, TypedAlways, PTL

-----------------------------------------------------------------------------
\* No overdraft: every decrement is conditional and every other amount a Nat.
Solvent == Typed /\ NonNegativeBalance

\* Reservations and adjustments take credits only where enough are left, every
\* other operation adds some: one step of the proof per action.
LEMMA SolventPreserved ==
    ASSUME Solvent, [Next]_vars
    PROVE  NonNegativeBalance'
<1> USE DEF Solvent, Typed, NonNegativeBalance
<1>1. ASSUME NEW u \in User, NEW type, NEW ref, NEW amount \in Int,
             Move(u, type, ref, amount), balance[u] + amount >= 0
      PROVE  NonNegativeBalance'
  BY <1>1 DEF Move, TypeOK
<1>2. ASSUME NEW u \in User, CreateWalletWithBonus(u)
      PROVE  NonNegativeBalance'
  <2>1. InitialBonus \in Nat /\ balance[u] \in Int
    BY AmountsHold DEF Amounts, TypeOK
  <2> QED
    BY <1>1, <1>2, <2>1 DEF CreateWalletWithBonus
<1>3. ASSUME NEW u \in User, NEW r \in Reading, NEW a \in Cost,
             ReserveCreditsForReading(u, r, a)
      PROVE  NonNegativeBalance'
  <2>1. a \in Nat /\ balance[u] \in Int
    BY AmountsHold DEF Amounts, TypeOK
  <2>2. -a \in Int /\ balance[u] + (-a) >= 0
    BY <1>3, <2>1 DEF ReserveCreditsForReading
  <2> QED
    BY <1>1, <1>3, <2>2 DEF ReserveCreditsForReading
<1>4. ASSUME NEW r \in Reading, ReleaseReservation(r)
      PROVE  NonNegativeBalance'
  <2> DEFINE u == reservation[r].user
             a == reservation[r].amount
  <2>1. u \in User /\ a \in Nat
    BY <1>4, ActiveType DEF ReleaseReservation, Active
  <2>2. Move(u, "RELEASE", r, a)
    BY <1>4 DEF ReleaseReservation
  <2> HIDE DEF u, a
  <2>3. balance[u] \in Int /\ balance[u] + a >= 0
    BY <2>1 DEF TypeOK
  <2> QED
    BY <1>1, <2>1, <2>2, <2>3
<1>5. ASSUME NEW u \in User, NEW o \in Order, NEW c \in Credits, CreditPurchase(u, o, c)
      PROVE  NonNegativeBalance'
  <2>1. c \in Nat /\ balance[u] \in Int
    BY AmountsHold DEF Amounts, TypeOK
  <2> QED
    BY <1>1, <1>5, <2>1 DEF CreditPurchase
<1>6. ASSUME NEW u \in User, NEW a \in Adjustment, AdjustBalance(u, a)
      PROVE  NonNegativeBalance'
  <2>1. a \in Int /\ balance[u] \in Int
    BY AmountsHold DEF Amounts, TypeOK
  <2>2. balance[u] + a >= 0
    BY <1>6, <2>1 DEF AdjustBalance
  <2> QED
    BY <1>1, <1>6, <2>1, <2>2 DEF AdjustBalance
<1>7. CASE UNCHANGED balance
  BY <1>7
<1>8. ASSUME NEW r \in Reading,
             InsertReading(r) \/ DeleteReading(r) \/ BeginConsumption(r)
               \/ CommitConsumption(r) \/ AbortConsumption(r)
      PROVE  UNCHANGED balance
  BY <1>8 DEF InsertReading, DeleteReading, BeginConsumption, CommitConsumption,
              AbortConsumption
<1>9. UNCHANGED vars => UNCHANGED balance
  BY DEF vars
<1> QED
  BY <1>2, <1>3, <1>4, <1>5, <1>6, <1>7, <1>8, <1>9 DEF Next

\* "Ninguna concurrencia produce saldo negativo": whatever transactions
\* interleave, no wallet is overdrawn.
THEOREM NeverOverdrawn == Spec => []NonNegativeBalance
<1>1. Init => NonNegativeBalance
  <2> SUFFICES ASSUME Init, NEW u \in User PROVE balance[u] >= 0
    BY DEF NonNegativeBalance
  <2>1. balance[u] = 0
    BY DEF Init
  <2> QED
    BY <2>1
<1>2. Typed /\ NonNegativeBalance /\ [Next]_vars => NonNegativeBalance'
  BY SolventPreserved DEF Solvent
<1> QED
  BY <1>1, <1>2, TypedAlways, PTL DEF Spec

-----------------------------------------------------------------------------
\* The ledger

\* Appending a movement of b to b + e.amount keeps a ledger reconciled.
LEMMA AppendMove ==
    ASSUME NEW L \in Seq(Entry), NEW b \in Int, NEW e \in Entry, Reconciled(L, b),
           e.type # "CONSUMPTION", e.balanceAfter = b + e.amount
    PROVE  Reconciled(Append(L, e), b + e.amount)
<1> DEFINE M == Append(L, e)
           n == Len(L) + 1
<1>1. Len(L) \in Nat /\ Len(M) = n /\ M[n] = e /\ \A i \in 1..Len(L) : M[i] = L[i]
  OBVIOUS
<1>2. \A i \in 1..Len(L) : L[i] \in Entry
  OBVIOUS
<1> HIDE DEF M
<1>3. Moves(M) = Moves(L) \cup {n}
  BY <1>1 DEF Moves
<1>4. \A i \in Moves(L) : i \in 1..Len(L)
  BY DEF Moves
<1>5. ASSUME NEW i \in Moves(M) PROVE
        /\ (\A k \in Moves(M) : k <= i) => b + e.amount = M[i].balanceAfter
        /\ (\A k \in Moves(M) : k >= i) => M[i].balanceAfter = M[i].amount
        /\ \A j \in Moves(M) :
             j < i /\ (\A k \in Moves(M) : k <= j \/ k >= i)
             => M[i].balanceAfter = M[j].balanceAfter + M[i].amount
  <2>1. CASE i \in Moves(L)
    <3>1. i < n /\ n \in Moves(M) /\ i \in Nat /\ M[i] = L[i]
      BY <1>1, <1>3, <1>4, <2>1
    <3>2. ~(\A k \in Moves(M) : k <= i)
      BY <3>1, <1>1
    <3>3. (\A k \in Moves(M) : k >= i) => M[i].balanceAfter = M[i].amount
      BY <1>3, <2>1, <3>1 DEF Reconciled
    <3>4. ASSUME NEW j \in Moves(M), j < i, \A k \in Moves(M) : k <= j \/ k >= i
          PROVE  M[i].balanceAfter = M[j].balanceAfter + M[i].amount
      <4>1. j \in Moves(L)
        BY <1>1, <1>3, <3>1, <3>4
      <4> QED
        BY <1>1, <1>3, <1>4, <2>1, <3>1, <3>4, <4>1 DEF Reconciled
    <3> QED
      BY <3>2, <3>3, <3>4
  <2>2. CASE i = n
    <3>1. (\A k \in Moves(M) : k >= n) => Moves(L) = {}
      BY <1>1, <1>3, <1>4
    <3>2. ASSUME NEW j \in Moves(M), j < n, \A k \in Moves(M) : k <= j \/ k >= n
          PROVE  b = M[j].balanceAfter
      <4>1. j \in Moves(L) /\ M[j] = L[j]
        BY <1>1, <1>3, <1>4, <3>2
      <4>2. \A k \in Moves(L) : k <= j
        BY <1>1, <1>3, <1>4, <3>2
      <4>3. b = L[j].balanceAfter
        BY <1>4, <4>1, <4>2 DEF Reconciled
      <4> QED
        BY <4>1, <4>3
    <3>3. Moves(L) = {} => b = 0
      BY DEF Reconciled
    <3>4. /\ b \in Int /\ e.amount \in Int /\ e.balanceAfter = b + e.amount /\ M[i] = e
          /\ b + e.amount = M[i].balanceAfter /\ M[i].amount = e.amount
      BY <1>1, <2>2 DEF Entry
    <3>5. (\A k \in Moves(M) : k >= i) => M[i].balanceAfter = M[i].amount
      BY <2>2, <3>1, <3>3, <3>4
    <3>6. ASSUME NEW j \in Moves(M), j < i, \A k \in Moves(M) : k <= j \/ k >= i
          PROVE  M[i].balanceAfter = M[j].balanceAfter + M[i].amount
      BY <2>2, <3>2, <3>4, <3>6
    <3> QED
      BY <3>4, <3>5, <3>6
  <2> QED
    BY <1>3, <2>1, <2>2
<1>6. Moves(M) # {}
  BY <1>3
<1>7. Reconciled(M, b + e.amount)
  BY <1>5, <1>6 DEF Reconciled
<1> QED
  BY <1>7 DEF M

\* Appending a CONSUMPTION, which is no movement, changes nothing.
LEMMA AppendMark ==
    ASSUME NEW L \in Seq(Entry), NEW b \in Int, NEW e \in Entry, Reconciled(L, b),
           e.type = "CONSUMPTION"
    PROVE  Reconciled(Append(L, e), b)
<1> DEFINE M == Append(L, e)
<1>1. /\ Len(L) \in Nat /\ Len(M) = Len(L) + 1 /\ M[Len(L) + 1] = e
      /\ \A i \in 1..Len(L) : M[i] = L[i]
  OBVIOUS
<1> HIDE DEF M
<1>2. Moves(M) = Moves(L) /\ \A i \in Moves(L) : M[i] = L[i]
  BY <1>1 DEF Moves
<1>3. Reconciled(M, b)
  BY <1>2 DEF Reconciled
<1> QED
  BY <1>3 DEF M

\* A movement posted with Move, and any other change that leaves credits and
\* ledger alone, keeps every wallet reconciled.
LEMMA MoveReconciles ==
    ASSUME Typed, LedgerReconciles, NEW u \in User, NEW type \in EntryType \ {"CONSUMPTION"},
           NEW ref \in User \cup Reading \cup Order \cup Nat,
           NEW amount \in Int, Move(u, type, ref, amount)
    PROVE  LedgerReconciles'
<1> DEFINE e == [type |-> type, ref |-> ref, amount |-> amount,
                 balanceAfter |-> balance[u] + amount]
<1>1. /\ balance[u] \in Int /\ ledger[u] \in Seq(Entry)
      /\ balance \in [User -> Int] /\ ledger \in [User -> Seq(Entry)]
  BY DEF Typed, TypeOK
<1>2. balance[u] + amount \in Int
  BY <1>1
<1>3. e \in Entry
  BY <1>2 DEF Entry
<1>4. ledger' = [ledger EXCEPT ![u] = Append(ledger[u], e)]
      /\ balance' = [balance EXCEPT ![u] = balance[u] + amount]
  BY DEF Move, Post
<1>5. e.type # "CONSUMPTION" /\ e.amount = amount /\ e.balanceAfter = balance[u] + amount
  OBVIOUS
<1> HIDE DEF e
<1>6. Reconciled(ledger[u], balance[u])
  BY DEF LedgerReconciles
<1>7. Reconciled(Append(ledger[u], e), balance[u] + amount)
  BY <1>1, <1>3, <1>5, <1>6, AppendMove
<1>8. ASSUME NEW v \in User PROVE Reconciled(ledger'[v], balance'[v])
  <2>1. CASE v = u
    BY <1>1, <1>4, <1>7, <2>1
  <2>2. CASE v # u
    BY <1>1, <1>4, <2>2 DEF LedgerReconciles
  <2> QED
    BY <2>1, <2>2
<1> QED
  BY <1>8 DEF LedgerReconciles

\* Every operation that changes a balance writes the ledger row of the change in
\* the same transaction; the others touch neither.
LEMMA ReconcilesPreserved ==
    ASSUME Typed, LedgerReconciles, [Next]_vars
    PROVE  LedgerReconciles'
<1>1. CASE UNCHANGED <<balance, ledger>>
  BY <1>1 DEF LedgerReconciles
<1>2. ASSUME NEW u \in User, CreateWalletWithBonus(u)
      PROVE  LedgerReconciles'
  BY <1>1, <1>2, MoveReconciles, AmountsHold DEF CreateWalletWithBonus, Amounts, EntryType
<1>3. ASSUME NEW u \in User, NEW r \in Reading, NEW a \in Cost,
             ReserveCreditsForReading(u, r, a)
      PROVE  LedgerReconciles'
  <2>1. -a \in Int
    BY AmountsHold DEF Amounts
  <2> QED
    BY <1>3, <2>1, MoveReconciles DEF ReserveCreditsForReading, EntryType
<1>4. ASSUME NEW r \in Reading, ReleaseReservation(r)
      PROVE  LedgerReconciles'
  <2>1. reservation[r].user \in User /\ reservation[r].amount \in Int
    BY <1>4, ActiveType DEF ReleaseReservation, Active, Typed
  <2>2. Move(reservation[r].user, "RELEASE", r, reservation[r].amount)
    BY <1>4 DEF ReleaseReservation
  <2> QED
    BY <2>1, <2>2, MoveReconciles DEF EntryType
<1>5. ASSUME NEW u \in User, NEW o \in Order, NEW c \in Credits, CreditPurchase(u, o, c)
      PROVE  LedgerReconciles'
  BY <1>5, MoveReconciles, AmountsHold DEF CreditPurchase, Amounts, EntryType
<1>6. ASSUME NEW u \in User, NEW a \in Adjustment, AdjustBalance(u, a)
      PROVE  LedgerReconciles'
  <2>1. a \in Int /\ Len(audit) + 1 \in Nat
    BY AmountsHold DEF Amounts, Typed, TypeOK
  <2>2. Move(u, "ADJUSTMENT", Len(audit) + 1, a)
    BY <1>6 DEF AdjustBalance
  <2> QED
    BY <2>1, <2>2, MoveReconciles DEF EntryType
<1>7. ASSUME NEW r \in Reading, CommitConsumption(r)
      PROVE  LedgerReconciles'
  <2> DEFINE u == reservation[r].user
             e == [type |-> "CONSUMPTION", ref |-> r, amount |-> 0, balanceAfter |-> seen[r]]
  <2>1. u \in User /\ seen[r] \in Int
    BY <1>7, ActiveType DEF CommitConsumption, Typed, TypeOK, LockedIsActive
  <2>2. e \in Entry /\ e.type = "CONSUMPTION"
    BY <2>1 DEF Entry, EntryType
  <2>3. ledger' = [ledger EXCEPT ![u] = Append(ledger[u], e)] /\ balance' = balance
    BY <1>7 DEF CommitConsumption, Post
  <2> HIDE DEF u, e
  <2>4. balance[u] \in Int /\ ledger[u] \in Seq(Entry) /\ ledger \in [User -> Seq(Entry)]
    BY <2>1 DEF Typed, TypeOK
  <2>5. Reconciled(Append(ledger[u], e), balance[u])
    BY <2>1, <2>2, <2>4, AppendMark DEF LedgerReconciles
  <2>6. ASSUME NEW v \in User PROVE Reconciled(ledger'[v], balance'[v])
    <3>1. CASE v = u
      BY <2>3, <2>4, <2>5, <3>1
    <3>2. CASE v # u
      BY <2>3, <2>4, <3>2 DEF LedgerReconciles
    <3> QED
      BY <3>1, <3>2
  <2> QED
    BY <2>6 DEF LedgerReconciles
<1>8. ASSUME NEW r \in Reading,
             InsertReading(r) \/ DeleteReading(r) \/ BeginConsumption(r) \/ AbortConsumption(r)
      PROVE  UNCHANGED <<balance, ledger>>
  BY <1>8 DEF InsertReading, DeleteReading, BeginConsumption, AbortConsumption
<1>9. UNCHANGED vars => UNCHANGED <<balance, ledger>>
  BY DEF vars
<1> QED
  BY <1>1, <1>2, <1>3, <1>4, <1>5, <1>6, <1>7, <1>8, <1>9 DEF Next

\* "Ningun movimiento sin trazabilidad": the balance is at every moment what
\* the ledger adds up to.
THEOREM LedgerAlwaysReconciles == Spec => []LedgerReconciles
<1>1. Init => LedgerReconciles
  <2> SUFFICES ASSUME Init, NEW u \in User PROVE Reconciled(ledger[u], balance[u])
    BY DEF LedgerReconciles
  <2>1. ledger[u] = << >> /\ balance[u] = 0
    BY DEF Init
  <2>2. Moves(<< >>) = {}
    BY DEF Moves
  <2> QED
    BY <2>1, <2>2 DEF Reconciled
<1>2. Typed /\ LedgerReconciles /\ [Next]_vars => LedgerReconciles'
  BY ReconcilesPreserved
<1> QED
  BY <1>1, <1>2, TypedAlways, PTL DEF Spec

-----------------------------------------------------------------------------
\* Reservations and ledger

\* Posting an entry records that entry and no other.
LEMMA PostRecords ==
    ASSUME TypeOK, NEW u \in User, NEW type, NEW ref, NEW amount, NEW after,
           Post(u, type, ref, amount, after)
    PROVE  \A t, x : Recorded(t, x)' <=> Recorded(t, x) \/ (t = type /\ x = ref)
<1> DEFINE e == [type |-> type, ref |-> ref, amount |-> amount, balanceAfter |-> after]
           M == Append(ledger[u], e)
<1>1. ledger' = [ledger EXCEPT ![u] = M] /\ ledger \in [User -> Seq(Entry)]
  BY DEF Post, TypeOK
<1>2. /\ Len(ledger[u]) \in Nat /\ Len(M) = Len(ledger[u]) + 1 /\ M[Len(ledger[u]) + 1] = e
      /\ \A i \in 1..Len(ledger[u]) : M[i] = ledger[u][i]
  BY <1>1
<1>3. e.type = type /\ e.ref = ref
  OBVIOUS
<1> HIDE DEF e, M
<1>4. ledger'[u] = M /\ \A v \in User : v # u => ledger'[v] = ledger[v]
  BY <1>1
<1> SUFFICES ASSUME NEW t, NEW x
             PROVE  Recorded(t, x)' <=> Recorded(t, x) \/ (t = type /\ x = ref)
  OBVIOUS
<1>5. ASSUME Recorded(t, x) PROVE Recorded(t, x)'
  <2>1. PICK v \in User : \E i \in 1..Len(ledger[v]) : ledger[v][i].type = t /\ ledger[v][i].ref = x
    BY <1>5 DEF Recorded
  <2>2. PICK i \in 1..Len(ledger[v]) : ledger[v][i].type = t /\ ledger[v][i].ref = x
    BY <2>1
  <2>3. i \in 1..Len(ledger'[v]) /\ ledger'[v][i] = ledger[v][i]
    BY <1>2, <1>4
  <2> QED
    BY <2>2, <2>3 DEF Recorded
<1>6. ASSUME t = type, x = ref PROVE Recorded(t, x)'
  <2>1. Len(M) \in 1..Len(ledger'[u]) /\ ledger'[u][Len(M)] = e
    BY <1>2, <1>4
  <2> QED
    BY <1>3, <1>6, <2>1 DEF Recorded
<1>7. ASSUME Recorded(t, x)' PROVE Recorded(t, x) \/ (t = type /\ x = ref)
  <2>1. PICK v \in User : \E i \in 1..Len(ledger'[v]) : ledger'[v][i].type = t /\ ledger'[v][i].ref = x
    BY <1>7 DEF Recorded
  <2>2. PICK i \in 1..Len(ledger'[v]) : ledger'[v][i].type = t /\ ledger'[v][i].ref = x
    BY <2>1
  <2>3. CASE v # u
    BY <1>4, <2>2, <2>3 DEF Recorded
  <2>4. CASE v = u /\ i \in 1..Len(ledger[u])
    BY <1>2, <1>4, <2>2, <2>4 DEF Recorded
  <2>5. CASE v = u /\ i = Len(ledger[u]) + 1
    BY <1>2, <1>3, <1>4, <2>2, <2>5
  <2> QED
    BY <1>2, <1>4, <2>3, <2>4, <2>5
<1> QED
  BY <1>5, <1>6, <1>7

\* ReservationsMatchLedger with what it needs of readings that have no row.
MatchedAt(r) ==
    /\ ~(Recorded("CONSUMPTION", r) /\ Recorded("RELEASE", r))
    /\ rows[r] # "present" => reservation[r].status = "NONE"
    /\ rows[r] # "deleted" =>
         /\ (reservation[r].status # "NONE") <=> Recorded("RESERVATION", r)
         /\ (reservation[r].status = "CONSUMED") <=> Recorded("CONSUMPTION", r)
         /\ (reservation[r].status = "RELEASED") <=> Recorded("RELEASE", r)

Matched == \A r \in Reading : MatchedAt(r)

\* What a step that posts nothing about readings, or nothing at all, may do.
LEMMA MatchedByOthers ==
    ASSUME Typed, Matched, UNCHANGED <<reservation, rows>>,
           NEW u \in User, NEW type \in {"BONUS", "PURCHASE", "ADJUSTMENT"}, NEW ref,
           NEW amount, Move(u, type, ref, amount)
    PROVE  Matched'
<1>1. \A t, x : Recorded(t, x)' <=> Recorded(t, x) \/ (t = type /\ x = ref)
  BY PostRecords DEF Move, Typed
<1>2. \A r \in Reading, t \in {"RESERVATION", "CONSUMPTION", "RELEASE"} :
         Recorded(t, r)' <=> Recorded(t, r)
  BY <1>1
<1> QED
  BY <1>2 DEF Matched, MatchedAt

\* reserveCreditsForReading, confirmConsumption and releaseReservation each change
\* the reservation's status and write its ledger row together; a deletion that
\* cascades to the reservation leaves the ledger.
LEMMA MatchedPreserved ==
    ASSUME Typed, Matched, [Next]_vars
    PROVE  Matched'
<1>1. CASE UNCHANGED <<ledger, reservation, rows>>
  BY <1>1 DEF Matched, MatchedAt, Recorded
<1>2. ASSUME NEW u \in User, CreateWalletWithBonus(u)
      PROVE  Matched'
  BY <1>1, <1>2, MatchedByOthers DEF CreateWalletWithBonus
<1>3. ASSUME NEW r \in Reading, InsertReading(r)
      PROVE  Matched'
  <2>1. UNCHANGED <<ledger, reservation>> /\ rows[r] = "absent"
        /\ rows' = [rows EXCEPT ![r] = "present"]
    BY <1>3 DEF InsertReading
  <2>2. \A q \in Reading : \A t : Recorded(t, q)' <=> Recorded(t, q)
    BY <2>1 DEF Recorded
  <2> QED
    BY <2>1, <2>2 DEF Matched, MatchedAt, Typed, TypeOK
<1>4. ASSUME NEW r \in Reading, DeleteReading(r)
      PROVE  Matched'
  <2>1. UNCHANGED ledger /\ rows' = [rows EXCEPT ![r] = "deleted"]
        /\ reservation' = [reservation EXCEPT ![r] = NoReservation]
    BY <1>4 DEF DeleteReading
  <2>2. \A q \in Reading : \A t : Recorded(t, q)' <=> Recorded(t, q)
    BY <2>1 DEF Recorded
  <2> QED
    BY <2>1, <2>2 DEF Matched, MatchedAt, NoReservation, Typed, TypeOK
<1>5. ASSUME NEW u \in User, NEW r \in Reading, NEW a \in Cost,
             ReserveCreditsForReading(u, r, a)
      PROVE  Matched'
  <2>1. \A t, x : Recorded(t, x)' <=> Recorded(t, x) \/ (t = "RESERVATION" /\ x = r)
    BY <1>5, PostRecords DEF ReserveCreditsForReading, Move, Typed
  <2>2. rows' = rows /\ rows[r] = "present" /\ reservation[r].status = "NONE"
        /\ reservation'[r].status = "ACTIVE"
        /\ \A q \in Reading : q # r => reservation'[q] = reservation[q]
    BY <1>5 DEF ReserveCreditsForReading, NoReservation, Typed, TypeOK
  <2> QED
    BY <2>1, <2>2 DEF Matched, MatchedAt
<1>6. ASSUME NEW r \in Reading, CommitConsumption(r)
      PROVE  Matched'
  <2>1. reservation[r].status = "ACTIVE" /\ reservation[r].user \in User
    BY <1>6, ActiveType DEF CommitConsumption, Typed, LockedIsActive
  <2>2. \A t, x : Recorded(t, x)' <=> Recorded(t, x) \/ (t = "CONSUMPTION" /\ x = r)
    BY <1>6, <2>1, PostRecords DEF CommitConsumption, Typed
  <2>3. rows' = rows /\ reservation'[r].status = "CONSUMED"
        /\ \A q \in Reading : q # r => reservation'[q] = reservation[q]
    BY <1>6, <2>1, ActiveType DEF CommitConsumption, Typed, TypeOK
  <2> QED
    BY <2>1, <2>2, <2>3 DEF Matched, MatchedAt
<1>7. ASSUME NEW r \in Reading, ReleaseReservation(r)
      PROVE  Matched'
  <2>1. reservation[r].status = "ACTIVE" /\ reservation[r].user \in User
    BY <1>7, ActiveType DEF ReleaseReservation, Active, Typed
  <2>2. \A t, x : Recorded(t, x)' <=> Recorded(t, x) \/ (t = "RELEASE" /\ x = r)
    BY <1>7, <2>1, PostRecords DEF ReleaseReservation, Move, Typed
  <2>3. rows' = rows /\ reservation'[r].status = "RELEASED"
        /\ \A q \in Reading : q # r => reservation'[q] = reservation[q]
    BY <1>7, <2>1, ActiveType DEF ReleaseReservation, Typed, TypeOK
  <2> QED
    BY <2>1, <2>2, <2>3 DEF Matched, MatchedAt
<1>8. ASSUME NEW u \in User, NEW o \in Order, NEW c \in Credits, CreditPurchase(u, o, c)
      PROVE  Matched'
  BY <1>8, MatchedByOthers DEF CreditPurchase
<1>9. ASSUME NEW u \in User, NEW a \in Adjustment, AdjustBalance(u, a)
      PROVE  Matched'
  BY <1>9, MatchedByOthers DEF AdjustBalance
<1>10. ASSUME NEW r \in Reading, BeginConsumption(r) \/ AbortConsumption(r)
       PROVE  UNCHANGED <<ledger, reservation, rows>>
  BY <1>10 DEF BeginConsumption, AbortConsumption
<1>11. UNCHANGED vars => UNCHANGED <<ledger, reservation, rows>>
  BY DEF vars
<1> QED
  BY <1>1, <1>2, <1>3, <1>4, <1>5, <1>6, <1>7, <1>8, <1>9, <1>10, <1>11 DEF Next

\* No reading is charged twice, and no charge is both consumed and refunded,
\* even after the reading and its reservation are gone.
THEOREM ReservationsAlwaysMatchLedger == Spec => []ReservationsMatchLedger
<1>1. Init => Matched
  <2> SUFFICES ASSUME Init, NEW r \in Reading PROVE MatchedAt(r)
    BY DEF Matched
  <2>1. \A t : ~Recorded(t, r)
    BY DEF Init, Recorded
  <2> QED
    BY <2>1 DEF Init, MatchedAt, NoReservation
<1>2. Typed /\ Matched /\ [Next]_vars => Matched'
  BY MatchedPreserved
<1>3. Matched => ReservationsMatchLedger
  BY DEF Matched, MatchedAt, ReservationsMatchLedger
<1> QED
  BY <1>1, <1>2, <1>3, TypedAlways, PTL DEF Spec

-----------------------------------------------------------------------------
\* The ledger only grows, and what it says of a reservation is found in it

\* Entries stay where they are.
Grown ==
    \A u \in User :
        /\ Len(ledger[u]) \in Nat /\ Len(ledger'[u]) \in Nat
        /\ Len(ledger'[u]) >= Len(ledger[u])
        /\ \A i \in 1..Len(ledger[u]) : ledger'[u][i] = ledger[u][i]

\* Posting adds one entry at the end of one user's ledger.
LEMMA PostAppends ==
    ASSUME TypeOK, NEW u \in User, NEW type, NEW ref, NEW amount, NEW after,
           Post(u, type, ref, amount, after)
    PROVE  LET n == Len(ledger[u]) + 1 IN
           /\ Grown
           /\ Len(ledger[u]) \in Nat /\ Len(ledger'[u]) = n
           /\ \A i \in 1..Len(ledger[u]) : ledger'[u][i] = ledger[u][i]
           /\ ledger'[u][n].type = type /\ ledger'[u][n].ref = ref
           /\ ledger'[u][n].amount = amount /\ ledger'[u][n].balanceAfter = after
           /\ \A v \in User : v # u => ledger'[v] = ledger[v]
<1> DEFINE e == [type |-> type, ref |-> ref, amount |-> amount, balanceAfter |-> after]
           M == Append(ledger[u], e)
<1>1. ledger' = [ledger EXCEPT ![u] = M] /\ ledger \in [User -> Seq(Entry)]
  BY DEF Post, TypeOK
<1>2. /\ Len(ledger[u]) \in Nat /\ Len(M) = Len(ledger[u]) + 1 /\ M[Len(ledger[u]) + 1] = e
      /\ \A i \in 1..Len(ledger[u]) : M[i] = ledger[u][i]
  BY <1>1
<1>3. e.type = type /\ e.ref = ref /\ e.amount = amount /\ e.balanceAfter = after
  OBVIOUS
<1> HIDE DEF e, M
<1>4. ledger'[u] = M /\ \A v \in User : v # u => ledger'[v] = ledger[v]
  BY <1>1
<1>5. \A v \in User : Len(ledger[v]) \in Nat
  BY <1>1
<1>6. Grown
  BY <1>2, <1>4, <1>5 DEF Grown
<1> QED
  BY <1>2, <1>3, <1>4, <1>6

\* A movement does, and its entry shows the new balance.
LEMMA MoveAppends ==
    ASSUME TypeOK, NEW u \in User, NEW type, NEW ref, NEW amount, Move(u, type, ref, amount)
    PROVE  LET n == Len(ledger[u]) + 1 IN
           /\ Grown
           /\ Len(ledger[u]) \in Nat /\ Len(ledger'[u]) = n
           /\ \A i \in 1..Len(ledger[u]) : ledger'[u][i] = ledger[u][i]
           /\ ledger'[u][n].type = type /\ ledger'[u][n].ref = ref
           /\ ledger'[u][n].amount = amount /\ ledger'[u][n].balanceAfter = balance'[u]
           /\ \A v \in User : v # u => ledger'[v] = ledger[v] /\ balance'[v] = balance[v]
<1>1. Post(u, type, ref, amount, balance[u] + amount)
  BY DEF Move
<1>2. balance'[u] = balance[u] + amount /\ \A v \in User : v # u => balance'[v] = balance[v]
  BY DEF Move, TypeOK
<1> QED
  BY <1>1, <1>2, PostAppends

\* The balance is the one the last movement shows.
LastShows(L, b) ==
    Moves(L) # {} =>
      \E j \in Moves(L) : (\A k \in Moves(L) : k <= j) /\ b = L[j].balanceAfter

\* Since the credits of r were reserved, the first n entries of L have shown b.
ShownSince(L, n, r, b) ==
    \E h \in 1..n, j \in 1..n :
        /\ L[h].type = "RESERVATION" /\ L[h].ref = r
        /\ h <= j /\ L[j].type # "CONSUMPTION"
        /\ L[j].balanceAfter = b

BalanceIsShown == \A u \in User : LastShows(ledger[u], balance[u])

\* An open reservation has its entry in the ledger of the user it charged.
PostedFor(r) ==
    \E i \in 1..Len(ledger[reservation[r].user]) :
        LET e == ledger[reservation[r].user][i] IN
          e.type = "RESERVATION" /\ e.ref = r /\ e.amount = -reservation[r].amount

HoldsArePosted == \A r \in Reading : reservation[r].status = "ACTIVE" => PostedFor(r)

\* What confirmConsumption has read was the balance some time since then.
ReadIsPast(r) ==
    LET L == ledger[reservation[r].user] IN ShownSince(L, Len(L), r, seen[r])

ReadsArePast == \A r \in confirming : ReadIsPast(r)

\* The inductive invariant of ConsumptionShowsAPastBalance: between its two steps
\* confirmConsumption carries a balance that was read, and that the ledger shows.
History == BalanceIsShown /\ HoldsArePosted /\ ReadsArePast /\ ConsumptionShowsAPastBalance

\* What was shown stays shown.
LEMMA ShownStays ==
    ASSUME Grown, NEW u \in User, NEW n \in 0..Len(ledger[u]), NEW m \in Nat, n <= m,
           NEW r, NEW b, ShownSince(ledger[u], n, r, b)
    PROVE  ShownSince(ledger'[u], m, r, b)
<1>1. PICK h \in 1..n, j \in 1..n :
            /\ ledger[u][h].type = "RESERVATION" /\ ledger[u][h].ref = r
            /\ h <= j /\ ledger[u][j].type # "CONSUMPTION"
            /\ ledger[u][j].balanceAfter = b
  BY DEF ShownSince
<1>2. Len(ledger[u]) \in Nat
  BY DEF Grown
<1>3. h \in 1..Len(ledger[u]) /\ j \in 1..Len(ledger[u]) /\ h \in 1..m /\ j \in 1..m
  BY <1>2
<1>4. ledger'[u][h] = ledger[u][h] /\ ledger'[u][j] = ledger[u][j]
  BY <1>3 DEF Grown
<1> QED
  BY <1>1, <1>3, <1>4 DEF ShownSince

\* An entry once posted for a reservation stays posted for it.
LEMMA PostedStays ==
    ASSUME Typed, Grown, NEW r \in Reading, reservation[r].status = "ACTIVE", PostedFor(r),
           reservation'[r].user = reservation[r].user,
           reservation'[r].amount = reservation[r].amount
    PROVE  PostedFor(r)'
<1> DEFINE u == reservation[r].user
<1>1. u \in User
  BY ActiveType DEF Typed
<1>2. PICK i \in 1..Len(ledger[u]) :
            /\ ledger[u][i].type = "RESERVATION" /\ ledger[u][i].ref = r
            /\ ledger[u][i].amount = -reservation[r].amount
  BY DEF PostedFor
<1>3. i \in 1..Len(ledger'[u]) /\ ledger'[u][i] = ledger[u][i]
  BY <1>1 DEF Grown
<1> QED
  BY <1>2, <1>3 DEF PostedFor

\* Steps that leave open reservations and reads in progress as they are.
LEMMA OthersStay ==
    ASSUME Typed, History, Grown,
           \A r \in Reading : reservation'[r].status = "ACTIVE" => reservation'[r] = reservation[r],
           \A r \in confirming' : /\ r \in confirming /\ seen'[r] = seen[r]
                                  /\ reservation'[r] = reservation[r]
    PROVE  HoldsArePosted' /\ ReadsArePast'
<1>1. ASSUME NEW r \in Reading, reservation'[r].status = "ACTIVE" PROVE PostedFor(r)'
  <2>1. reservation'[r] = reservation[r]
    BY <1>1
  <2> QED
    BY <1>1, <2>1, PostedStays DEF History, HoldsArePosted
<1>2. ASSUME NEW r \in confirming' PROVE ReadIsPast(r)'
  <2>1. r \in confirming /\ r \in Reading /\ seen'[r] = seen[r] /\ reservation'[r] = reservation[r]
    BY <1>2 DEF Typed, TypeOK
  <2> DEFINE u == reservation[r].user
  <2>2. u \in User
    BY <2>1, ActiveType DEF Typed, LockedIsActive
  <2>3. ShownSince(ledger[u], Len(ledger[u]), r, seen[r])
    BY <2>1 DEF History, ReadsArePast, ReadIsPast
  <2>4. Len(ledger[u]) \in 0..Len(ledger[u]) /\ Len(ledger'[u]) \in Nat
        /\ Len(ledger[u]) <= Len(ledger'[u])
    BY <2>2 DEF Grown
  <2>5. ShownSince(ledger'[u], Len(ledger'[u]), r, seen[r])
    BY <2>2, <2>3, <2>4, ShownStays
  <2> QED
    BY <2>1, <2>5 DEF ReadIsPast
<1> QED
  BY <1>1, <1>2 DEF HoldsArePosted, ReadsArePast

\* A CONSUMPTION entry of the past keeps what it showed.
LEMMA PastStays ==
    ASSUME TypeOK, ConsumptionShowsAPastBalance, Grown, NEW u \in User,
           NEW i \in 1..Len(ledger[u]), ledger'[u][i].type = "CONSUMPTION"
    PROVE  ShownSince(ledger'[u], i - 1, ledger'[u][i].ref, ledger'[u][i].balanceAfter)
<1>1. ledger'[u][i] = ledger[u][i] /\ Len(ledger[u]) \in Nat
  BY DEF Grown
<1>2. ShownSince(ledger[u], i - 1, ledger[u][i].ref, ledger[u][i].balanceAfter)
  BY <1>1 DEF ConsumptionShowsAPastBalance, ShownSince
<1>3. i - 1 \in 0..Len(ledger[u]) /\ i - 1 \in Nat /\ i - 1 <= i - 1
  BY <1>1
<1> QED
  BY <1>1, <1>2, <1>3, ShownStays

\* ConsumptionShowsAPastBalance, said with ShownSince.
LEMMA PastIsShown ==
    ASSUME \A u \in User : \A i \in 1..Len(ledger'[u]) : ledger'[u][i].type = "CONSUMPTION" =>
             ShownSince(ledger'[u], i - 1, ledger'[u][i].ref, ledger'[u][i].balanceAfter)
    PROVE  ConsumptionShowsAPastBalance'
BY DEF ConsumptionShowsAPastBalance, ShownSince

\* A movement shows the new balance, and no entry of the past changes.
LEMMA MoveShows ==
    ASSUME Typed, History, NEW u \in User, NEW type, type # "CONSUMPTION", NEW ref,
           NEW amount, Move(u, type, ref, amount)
    PROVE  Grown /\ BalanceIsShown' /\ ConsumptionShowsAPastBalance'
<1> DEFINE n == Len(ledger[u]) + 1
<1>1. /\ Grown
      /\ Len(ledger[u]) \in Nat /\ Len(ledger'[u]) = n
      /\ ledger'[u][n].type = type /\ ledger'[u][n].balanceAfter = balance'[u]
      /\ \A v \in User : v # u => ledger'[v] = ledger[v] /\ balance'[v] = balance[v]
  BY MoveAppends DEF Typed
<1>2. LastShows(ledger'[u], balance'[u])
  <2>1. n \in Moves(ledger'[u]) /\ \A k \in Moves(ledger'[u]) : k <= n
    BY <1>1 DEF Moves
  <2> QED
    BY <1>1, <2>1 DEF LastShows
<1>3. BalanceIsShown'
  <2> SUFFICES ASSUME NEW v \in User PROVE LastShows(ledger'[v], balance'[v])
    BY DEF BalanceIsShown
  <2> QED
    BY <1>1, <1>2 DEF History, BalanceIsShown
<1>4. ASSUME NEW v \in User, NEW i \in 1..Len(ledger'[v]), ledger'[v][i].type = "CONSUMPTION"
      PROVE  ShownSince(ledger'[v], i - 1, ledger'[v][i].ref, ledger'[v][i].balanceAfter)
  <2>1. i \in 1..Len(ledger[v])
    <3>1. CASE v = u
      <4>1. i # n
        BY <1>1, <1>4, <3>1
      <4> QED
        BY <1>1, <3>1, <4>1
    <3>2. CASE v # u
      BY <1>1, <3>2
    <3> QED
      BY <3>1, <3>2
  <2> QED
    BY <1>1, <1>4, <2>1, PastStays DEF Typed, History
<1>5. ConsumptionShowsAPastBalance'
  BY <1>4, PastIsShown
<1> QED
  BY <1>1, <1>3, <1>5

\* Without entries and movements nothing changes.
LEMMA QuietShows ==
    ASSUME Typed, History, UNCHANGED <<balance, ledger>>
    PROVE  Grown /\ BalanceIsShown' /\ ConsumptionShowsAPastBalance'
<1>1. \A u \in User : Len(ledger[u]) \in Nat
  BY DEF Typed, TypeOK
<1>2. Grown
  BY <1>1 DEF Grown
<1> QED
  BY <1>2 DEF History, BalanceIsShown, ConsumptionShowsAPastBalance

\* reserveCreditsForReading posts the entry of the reservation it opens.
LEMMA ReserveShows ==
    ASSUME Typed, History, NEW u \in User, NEW r \in Reading, NEW a \in Cost,
           ReserveCreditsForReading(u, r, a)
    PROVE  History'
<1> DEFINE n == Len(ledger[u]) + 1
<1>1. Move(u, "RESERVATION", r, -a)
  BY DEF ReserveCreditsForReading
<1>2. Grown /\ BalanceIsShown' /\ ConsumptionShowsAPastBalance'
  BY <1>1, MoveShows
<1>3. /\ n \in 1..Len(ledger'[u])
      /\ ledger'[u][n].type = "RESERVATION" /\ ledger'[u][n].ref = r
      /\ ledger'[u][n].amount = -a
  BY <1>1, MoveAppends DEF Typed
<1>4. /\ reservation[r].status = "NONE"
      /\ reservation'[r].user = u /\ reservation'[r].amount = a
      /\ \A x \in Reading : x # r => reservation'[x] = reservation[x]
      /\ UNCHANGED <<confirming, seen>>
  BY DEF ReserveCreditsForReading, NoReservation, Typed, TypeOK
<1>5. PostedFor(r)'
  BY <1>3, <1>4 DEF PostedFor
<1>6. ASSUME NEW x \in Reading, reservation'[x].status = "ACTIVE" PROVE PostedFor(x)'
  <2>1. CASE x = r
    BY <1>5, <2>1
  <2>2. CASE x # r
    <3>1. reservation'[x] = reservation[x]
      BY <1>4, <2>2
    <3> QED
      BY <1>2, <1>6, <3>1, PostedStays DEF History, HoldsArePosted
  <2> QED
    BY <2>1, <2>2
<1>7. ASSUME NEW x \in confirming' PROVE ReadIsPast(x)'
  <2>1. x \in confirming /\ x \in Reading /\ x # r
    BY <1>4, <1>7 DEF Typed, TypeOK, LockedIsActive
  <2>2. reservation'[x] = reservation[x] /\ seen'[x] = seen[x]
    BY <1>4, <2>1
  <2> DEFINE v == reservation[x].user
  <2>3. v \in User
    BY <2>1, ActiveType DEF Typed, LockedIsActive
  <2>4. ShownSince(ledger[v], Len(ledger[v]), x, seen[x])
    BY <2>1 DEF History, ReadsArePast, ReadIsPast
  <2>5. Len(ledger[v]) \in 0..Len(ledger[v]) /\ Len(ledger'[v]) \in Nat
        /\ Len(ledger[v]) <= Len(ledger'[v])
    BY <1>2, <2>3 DEF Grown
  <2>6. ShownSince(ledger'[v], Len(ledger'[v]), x, seen[x])
    BY <1>2, <2>3, <2>4, <2>5, ShownStays
  <2> QED
    BY <2>2, <2>6 DEF ReadIsPast
<1>8. HoldsArePosted' /\ ReadsArePast'
  BY <1>6, <1>7 DEF HoldsArePosted, ReadsArePast
<1> QED
  BY <1>2, <1>8 DEF History

\* What confirmConsumption reads is the balance the last movement shows, and that
\* is no earlier than the entry of the reservation.
LEMMA BeginShows ==
    ASSUME Typed, History, NEW r \in Reading, BeginConsumption(r)
    PROVE  History'
<1> DEFINE u == reservation[r].user
           L == ledger[u]
<1>1. /\ reservation[r].status = "ACTIVE" /\ confirming' = confirming \cup {r}
      /\ seen'[r] = balance[u] /\ \A x \in Reading : x # r => seen'[x] = seen[x]
      /\ UNCHANGED <<balance, ledger, reservation>>
  BY DEF BeginConsumption, Active, Typed, TypeOK
<1>2. u \in User
  BY <1>1, ActiveType DEF Typed
<1>3. Grown /\ BalanceIsShown' /\ ConsumptionShowsAPastBalance'
  BY <1>1, QuietShows
<1>4. PICK h \in 1..Len(L) : L[h].type = "RESERVATION" /\ L[h].ref = r
  BY <1>1 DEF History, HoldsArePosted, PostedFor
<1>5. h \in Moves(L)
  BY <1>4 DEF Moves
<1>6. PICK j \in Moves(L) : (\A k \in Moves(L) : k <= j) /\ balance[u] = L[j].balanceAfter
  BY <1>2, <1>5 DEF History, BalanceIsShown, LastShows
<1>7. ShownSince(L, Len(L), r, balance[u])
  BY <1>4, <1>5, <1>6 DEF ShownSince, Moves
<1>8. HoldsArePosted'
  BY <1>1 DEF History, HoldsArePosted, PostedFor
<1>9. ASSUME NEW x \in confirming' PROVE ReadIsPast(x)'
  <2>1. CASE x = r
    BY <1>1, <1>7, <2>1 DEF ReadIsPast
  <2>2. CASE x # r
    BY <1>1, <1>9, <2>2 DEF Typed, TypeOK, History, ReadsArePast, ReadIsPast
  <2> QED
    BY <2>1, <2>2
<1> QED
  BY <1>3, <1>8, <1>9 DEF History, ReadsArePast

\* A CONSUMPTION entry at the end is no movement.
LEMMA MarkMoves ==
    ASSUME NEW L, NEW M, Len(L) \in Nat, Len(M) = Len(L) + 1,
           M[Len(L) + 1].type = "CONSUMPTION", \A i \in 1..Len(L) : M[i] = L[i]
    PROVE  Moves(M) = Moves(L)
BY DEF Moves

\* The CONSUMPTION entry shows what was read.
LEMMA CommitShows ==
    ASSUME Typed, History, NEW r \in Reading, CommitConsumption(r)
    PROVE  History'
<1> DEFINE u == reservation[r].user
           n == Len(ledger[u]) + 1
<1>1. r \in confirming /\ reservation[r].status = "ACTIVE"
  BY DEF CommitConsumption, Typed, LockedIsActive
<1>2. /\ Post(u, "CONSUMPTION", r, 0, seen[r])
      /\ balance' = balance /\ confirming' = confirming \ {r}
      /\ reservation'[r].status = "CONSUMED" /\ \A x \in Reading : x # r => seen'[x] = seen[x]
      /\ \A x \in Reading : x # r => reservation'[x] = reservation[x]
  BY <1>1, ActiveType DEF CommitConsumption, Typed, TypeOK
<1>3. u \in User
  BY <1>1, ActiveType DEF Typed
<1>4. /\ Grown
      /\ Len(ledger[u]) \in Nat /\ Len(ledger'[u]) = n
      /\ \A i \in 1..Len(ledger[u]) : ledger'[u][i] = ledger[u][i]
      /\ ledger'[u][n].type = "CONSUMPTION" /\ ledger'[u][n].ref = r
      /\ ledger'[u][n].balanceAfter = seen[r]
      /\ \A v \in User : v # u => ledger'[v] = ledger[v]
  BY <1>2, <1>3, PostAppends DEF Typed
<1>5. HoldsArePosted' /\ ReadsArePast'
  <2>1. \A x \in Reading : reservation'[x].status = "ACTIVE" => reservation'[x] = reservation[x]
    BY <1>2
  <2>2. \A x \in confirming' : /\ x \in confirming /\ seen'[x] = seen[x]
                               /\ reservation'[x] = reservation[x]
    BY <1>2 DEF Typed, TypeOK
  <2> QED
    BY <1>4, <2>1, <2>2, OthersStay
<1>6. BalanceIsShown'
  <2>1. Moves(ledger'[u]) = Moves(ledger[u])
    BY <1>4, MarkMoves
  <2>2. \A j \in Moves(ledger[u]) : ledger'[u][j] = ledger[u][j]
    BY <1>4 DEF Moves
  <2>3. LastShows(ledger[u], balance[u])
    BY <1>3 DEF History, BalanceIsShown
  <2>4. LastShows(ledger'[u], balance'[u])
    BY <1>2, <2>1, <2>2, <2>3 DEF LastShows
  <2> SUFFICES ASSUME NEW v \in User PROVE LastShows(ledger'[v], balance'[v])
    BY DEF BalanceIsShown
  <2> QED
    BY <1>2, <1>4, <2>4 DEF History, BalanceIsShown
<1>7. ASSUME NEW v \in User, NEW i \in 1..Len(ledger'[v]), ledger'[v][i].type = "CONSUMPTION"
      PROVE  ShownSince(ledger'[v], i - 1, ledger'[v][i].ref, ledger'[v][i].balanceAfter)
  <2>1. CASE i \in 1..Len(ledger[v])
    BY <1>4, <1>7, <2>1, PastStays DEF Typed, History
  <2>2. CASE v = u /\ i = n
    <3>1. ShownSince(ledger[u], Len(ledger[u]), r, seen[r])
      BY <1>1 DEF History, ReadsArePast, ReadIsPast
    <3>2. Len(ledger[u]) \in 0..Len(ledger[u]) /\ i - 1 \in Nat /\ Len(ledger[u]) <= i - 1
      BY <1>4, <2>2
    <3>3. ShownSince(ledger'[u], i - 1, r, seen[r])
      BY <1>3, <1>4, <3>1, <3>2, ShownStays
    <3> QED
      BY <1>4, <2>2, <3>3
  <2> QED
    BY <1>4, <2>1, <2>2
<1>8. ConsumptionShowsAPastBalance'
  BY <1>7, PastIsShown
<1> QED
  BY <1>5, <1>6, <1>8 DEF History

\* Every operation keeps the history true.
LEMMA HistoryPreserved ==
    ASSUME Typed, History, [Next]_vars
    PROVE  History'
<1>1. ASSUME Grown, BalanceIsShown', ConsumptionShowsAPastBalance',
             UNCHANGED <<reservation, confirming, seen>>
      PROVE  History'
  BY <1>1, OthersStay DEF History, Typed, TypeOK
<1>2. ASSUME NEW u \in User, CreateWalletWithBonus(u) PROVE History'
  <2>1. Grown /\ BalanceIsShown' /\ ConsumptionShowsAPastBalance'
    BY <1>2, MoveShows, QuietShows DEF CreateWalletWithBonus
  <2> QED
    BY <1>1, <1>2, <2>1 DEF CreateWalletWithBonus
<1>3. ASSUME NEW r \in Reading, InsertReading(r) PROVE History'
  BY <1>1, <1>3, QuietShows DEF InsertReading
<1>4. ASSUME NEW r \in Reading, DeleteReading(r) PROVE History'
  <2>1. Grown /\ BalanceIsShown' /\ ConsumptionShowsAPastBalance'
    BY <1>4, QuietShows DEF DeleteReading
  <2>2. /\ reservation'[r].status = "NONE" /\ r \notin confirming /\ UNCHANGED <<confirming, seen>>
        /\ \A x \in Reading : x # r => reservation'[x] = reservation[x]
    BY <1>4 DEF DeleteReading, NoReservation, Typed, TypeOK
  <2>3. HoldsArePosted' /\ ReadsArePast'
    BY <2>1, <2>2, OthersStay DEF Typed, TypeOK
  <2> QED
    BY <2>1, <2>3 DEF History
<1>5. ASSUME NEW u \in User, NEW r \in Reading, NEW a \in Cost, ReserveCreditsForReading(u, r, a)
      PROVE  History'
  BY <1>5, ReserveShows
<1>6. ASSUME NEW r \in Reading, BeginConsumption(r) PROVE History'
  BY <1>6, BeginShows
<1>7. ASSUME NEW r \in Reading, CommitConsumption(r) PROVE History'
  BY <1>7, CommitShows
<1>8. ASSUME NEW r \in Reading, AbortConsumption(r) PROVE History'
  <2>1. Grown /\ BalanceIsShown' /\ ConsumptionShowsAPastBalance'
    BY <1>8, QuietShows DEF AbortConsumption
  <2>2. /\ UNCHANGED reservation /\ confirming' = confirming \ {r}
        /\ \A x \in Reading : x # r => seen'[x] = seen[x]
    BY <1>8 DEF AbortConsumption, Typed, TypeOK
  <2>3. HoldsArePosted' /\ ReadsArePast'
    BY <2>1, <2>2, OthersStay DEF Typed, TypeOK
  <2> QED
    BY <2>1, <2>3 DEF History
<1>9. ASSUME NEW r \in Reading, ReleaseReservation(r) PROVE History'
  <2>1. reservation[r].status = "ACTIVE" /\ r \notin confirming
    BY <1>9 DEF ReleaseReservation, Active
  <2>2. reservation[r].user \in User
    BY <2>1, ActiveType DEF Typed
  <2>3. Grown /\ BalanceIsShown' /\ ConsumptionShowsAPastBalance'
    BY <1>9, <2>2, MoveShows DEF ReleaseReservation
  <2>4. /\ reservation'[r].status = "RELEASED" /\ UNCHANGED <<confirming, seen>>
        /\ \A x \in Reading : x # r => reservation'[x] = reservation[x]
    BY <1>9, <2>1, ActiveType DEF ReleaseReservation, Typed, TypeOK
  <2>5. HoldsArePosted' /\ ReadsArePast'
    BY <2>1, <2>3, <2>4, OthersStay DEF Typed, TypeOK
  <2> QED
    BY <2>3, <2>5 DEF History
<1>10. ASSUME NEW u \in User, NEW o \in Order, NEW c \in Credits, CreditPurchase(u, o, c)
       PROVE  History'
  BY <1>1, <1>10, MoveShows DEF CreditPurchase
<1>11. ASSUME NEW u \in User, NEW a \in Adjustment, AdjustBalance(u, a) PROVE History'
  BY <1>1, <1>11, MoveShows DEF AdjustBalance
<1>12. CASE UNCHANGED vars
  BY <1>1, <1>12, QuietShows DEF vars
<1> QED
  BY <1>2, <1>3, <1>4, <1>5, <1>6, <1>7, <1>8, <1>9, <1>10, <1>11, <1>12 DEF Next

\* The tables are empty: there is no history.
LEMMA HistoryInitially == Init => History
<1> SUFFICES ASSUME Init PROVE History
  OBVIOUS
<1>1. \A u \in User : ledger[u] = << >> /\ Len(ledger[u]) = 0
  BY DEF Init
<1>2. \A u \in User : Moves(ledger[u]) = {}
  <2>1. Moves(<< >>) = {}
    BY DEF Moves
  <2> QED
    BY <1>1, <2>1
<1>3. \A r \in Reading : reservation[r].status = "NONE"
  BY DEF Init, NoReservation
<1> QED
  BY <1>1, <1>2, <1>3 DEF Init, History, BalanceIsShown, LastShows, HoldsArePosted, ReadsArePast,
                          ConsumptionShowsAPastBalance

\* The history is true of every state.
LEMMA HistoryAlways == Spec => []History
<1>1. Typed /\ History /\ [Next]_vars => History'
  BY HistoryPreserved
<1> QED
  BY <1>1, HistoryInitially, TypedAlways, PTL DEF Spec

\* The read of confirmConsumption takes no lock, yet what its entry shows is a
\* balance the wallet had since the credits were reserved, never an invented one.
THEOREM ConsumptionsShowAPastBalance == Spec => []ConsumptionShowsAPastBalance
<1>1. History => ConsumptionShowsAPastBalance
  BY DEF History
<1> QED
  BY <1>1, HistoryAlways, PTL

-----------------------------------------------------------------------------
\* The wallet implements the abstract account

\* idempotencyKey is unique in the whole table.
KeysUnique ==
    \A u, v \in User : \A i \in 1..Len(ledger[u]), k \in 1..Len(ledger[v]) :
        ledger[u][i].type = ledger[v][k].type /\ ledger[u][i].ref = ledger[v][k].ref
        => u = v /\ i = k

\* A key that is taken is refused, so that keys stay unique.
LEMMA PostUnique ==
    ASSUME TypeOK, KeysUnique, NEW u \in User, NEW type, NEW ref, NEW amount, NEW after,
           Post(u, type, ref, amount, after)
    PROVE  KeysUnique'
<1> DEFINE n == Len(ledger[u]) + 1
<1>1. /\ Len(ledger[u]) \in Nat /\ Len(ledger'[u]) = n
      /\ \A i \in 1..Len(ledger[u]) : ledger'[u][i] = ledger[u][i]
      /\ ledger'[u][n].type = type /\ ledger'[u][n].ref = ref
      /\ \A v \in User : v # u => ledger'[v] = ledger[v]
  BY PostAppends
<1>2. \A v \in User : \A i \in 1..Len(ledger[v]) :
        ~(ledger[v][i].type = type /\ ledger[v][i].ref = ref)
  BY DEF Post, Recorded
<1>3. \A v \in User : \A i \in 1..Len(ledger'[v]) :
        \/ i \in 1..Len(ledger[v]) /\ ledger'[v][i] = ledger[v][i]
        \/ v = u /\ i = n
  BY <1>1
<1> HIDE DEF n
<1> SUFFICES ASSUME NEW v \in User, NEW w \in User,
                    NEW i \in 1..Len(ledger'[v]), NEW k \in 1..Len(ledger'[w]),
                    ledger'[v][i].type = ledger'[w][k].type,
                    ledger'[v][i].ref = ledger'[w][k].ref
             PROVE  v = w /\ i = k
  BY DEF KeysUnique
<1>4. CASE v = u /\ i = n /\ w = u /\ k = n
  BY <1>4
<1>5. CASE v = u /\ i = n /\ k \in 1..Len(ledger[w]) /\ ledger'[w][k] = ledger[w][k]
  BY <1>1, <1>2, <1>5
<1>6. CASE w = u /\ k = n /\ i \in 1..Len(ledger[v]) /\ ledger'[v][i] = ledger[v][i]
  BY <1>1, <1>2, <1>6
<1>7. CASE /\ i \in 1..Len(ledger[v]) /\ ledger'[v][i] = ledger[v][i]
           /\ k \in 1..Len(ledger[w]) /\ ledger'[w][k] = ledger[w][k]
  BY <1>7 DEF KeysUnique
<1> QED
  BY <1>3, <1>4, <1>5, <1>6, <1>7

\* What a step is to the ledger: nothing, or an entry posted.
LEMMA StepPosts ==
    ASSUME Typed, [Next]_vars
    PROVE  \/ UNCHANGED ledger
           \/ \E u \in User : \E type, ref, amount, after : Post(u, type, ref, amount, after)
<1>1. ASSUME NEW u \in User, NEW type, NEW ref, NEW amount, Move(u, type, ref, amount)
      PROVE  \E t, x, n, b : Post(u, t, x, n, b)
  BY <1>1 DEF Move
<1>2. ASSUME NEW u \in User, CreateWalletWithBonus(u)
      PROVE  UNCHANGED ledger \/ \E t, x, n, b : Post(u, t, x, n, b)
  BY <1>1, <1>2 DEF CreateWalletWithBonus
<1>3. ASSUME NEW r \in Reading,
             InsertReading(r) \/ DeleteReading(r) \/ BeginConsumption(r) \/ AbortConsumption(r)
      PROVE  UNCHANGED ledger
  BY <1>3 DEF InsertReading, DeleteReading, BeginConsumption, AbortConsumption
<1>4. ASSUME NEW u \in User, NEW r \in Reading, NEW a \in Cost, ReserveCreditsForReading(u, r, a)
      PROVE  \E t, x, n, b : Post(u, t, x, n, b)
  BY <1>1, <1>4 DEF ReserveCreditsForReading
<1>5. ASSUME NEW r \in Reading, CommitConsumption(r) \/ ReleaseReservation(r)
      PROVE  \E u \in User : \E t, x, n, b : Post(u, t, x, n, b)
  <2>1. reservation[r].user \in User
    BY <1>5, ActiveType DEF CommitConsumption, ReleaseReservation, Active, Typed, LockedIsActive
  <2>2. CASE CommitConsumption(r)
    BY <2>1, <2>2 DEF CommitConsumption
  <2>3. CASE ReleaseReservation(r)
    BY <1>1, <2>1, <2>3 DEF ReleaseReservation
  <2> QED
    BY <1>5, <2>2, <2>3
<1>6. ASSUME NEW u \in User, NEW o \in Order, NEW c \in Credits, CreditPurchase(u, o, c)
      PROVE  \E t, x, n, b : Post(u, t, x, n, b)
  BY <1>1, <1>6 DEF CreditPurchase
<1>7. ASSUME NEW u \in User, NEW a \in Adjustment, AdjustBalance(u, a)
      PROVE  \E t, x, n, b : Post(u, t, x, n, b)
  BY <1>1, <1>7 DEF AdjustBalance
<1>8. CASE UNCHANGED vars
  BY <1>8 DEF vars
<1> QED
  BY <1>2, <1>3, <1>4, <1>5, <1>6, <1>7, <1>8 DEF Next

\* No two entries of any users ever share a key.
LEMMA KeysAlwaysUnique == Spec => []KeysUnique
<1>1. Init => KeysUnique
  <2> SUFFICES ASSUME Init PROVE KeysUnique
    OBVIOUS
  <2>1. \A u \in User : Len(ledger[u]) = 0
    BY DEF Init
  <2> QED
    BY <2>1 DEF KeysUnique
<1>2. ASSUME Typed, KeysUnique, [Next]_vars PROVE KeysUnique'
  <2>1. CASE UNCHANGED ledger
    BY <1>2, <2>1 DEF KeysUnique
  <2>2. CASE \E u \in User : \E type, ref, amount, after : Post(u, type, ref, amount, after)
    BY <1>2, <2>2, PostUnique DEF Typed
  <2> QED
    BY <1>2, <2>1, <2>2, StepPosts
<1> QED
  BY <1>1, <1>2, TypedAlways, PTL DEF Spec

\* The entry of a reservation is the one the abstract hold is read from.
HoldsAreRead ==
    \A r \in Reading, u \in User : \A i \in 1..Len(ledger[u]) :
        ledger[u][i].type = "RESERVATION" /\ ledger[u][i].ref = r =>
          LedgerHold[r] = [state |-> HoldState(r), user |-> u, amount |-> -ledger[u][i].amount]

\* Where keys are unique there is only one entry to read.
LEMMA UniqueIsRead == KeysUnique => HoldsAreRead
<1> SUFFICES ASSUME KeysUnique, NEW r \in Reading, NEW u \in User, NEW i \in 1..Len(ledger[u]),
                    ledger[u][i].type = "RESERVATION", ledger[u][i].ref = r
             PROVE  LedgerHold[r] = [state |-> HoldState(r), user |-> u,
                                     amount |-> -ledger[u][i].amount]
  BY DEF HoldsAreRead
<1>1. Recorded("RESERVATION", r)
  BY DEF Recorded
<1>2. Holder(r) = u
  <2>1. \E v \in User : \E k \in 1..Len(ledger[v]) :
          ledger[v][k].type = "RESERVATION" /\ ledger[v][k].ref = r
    OBVIOUS
  <2>2. /\ Holder(r) \in User
        /\ \E k \in 1..Len(ledger[Holder(r)]) :
             ledger[Holder(r)][k].type = "RESERVATION" /\ ledger[Holder(r)][k].ref = r
    BY <2>1 DEF Holder
  <2> QED
    BY <2>2 DEF KeysUnique
<1>3. HoldEntry(r) = ledger[u][i]
  <2> DEFINE k == CHOOSE k \in 1..Len(ledger[u]) :
                    ledger[u][k].type = "RESERVATION" /\ ledger[u][k].ref = r
  <2>1. /\ k \in 1..Len(ledger[u])
        /\ ledger[u][k].type = "RESERVATION" /\ ledger[u][k].ref = r
    OBVIOUS
  <2>2. HoldEntry(r) = ledger[u][k]
    BY <1>2 DEF HoldEntry
  <2> HIDE DEF k
  <2>3. k = i
    BY <2>1 DEF KeysUnique
  <2> QED
    BY <2>2, <2>3
<1> QED
  BY <1>1, <1>2, <1>3 DEF LedgerHold


\* What the steps of the refinement rely on, before and after them.
Readable == Typed /\ Matched /\ History /\ NonNegativeBalance /\ KeysUnique /\ HoldsAreRead

\* It holds in every state.
LEMMA AlwaysReadable == Spec => []Readable
<1>1. Init => Matched /\ NonNegativeBalance
  <2> SUFFICES ASSUME Init PROVE Matched /\ NonNegativeBalance
    OBVIOUS
  <2>1. \A r \in Reading : \A t : ~Recorded(t, r)
    BY DEF Init, Recorded
  <2>2. Matched
    BY <2>1 DEF Init, Matched, MatchedAt, NoReservation
  <2>3. \A u \in User : balance[u] = 0
    BY DEF Init
  <2> QED
    BY <2>2, <2>3 DEF NonNegativeBalance
<1>2. Typed /\ Matched /\ NonNegativeBalance /\ [Next]_vars => Matched' /\ NonNegativeBalance'
  BY MatchedPreserved, SolventPreserved DEF Solvent
<1> QED
  BY <1>1, <1>2, TypedAlways, HistoryAlways, KeysAlwaysUnique, UniqueIsRead, PTL DEF Spec, Readable

\* The ledger says nothing new of reading q: its hold stays what it was.
LEMMA HoldStays ==
    ASSUME Readable, Readable', Grown, NEW q \in Reading,
           \A t \in {"RESERVATION", "CONSUMPTION", "RELEASE"} : Recorded(t, q)' <=> Recorded(t, q)
    PROVE  LedgerHold'[q] = LedgerHold[q]
<1>1. CASE ~Recorded("RESERVATION", q)
  BY <1>1 DEF LedgerHold
<1>2. CASE Recorded("RESERVATION", q)
  <2>1. PICK u \in User : \E i \in 1..Len(ledger[u]) :
               ledger[u][i].type = "RESERVATION" /\ ledger[u][i].ref = q
    BY <1>2 DEF Recorded
  <2>2. PICK i \in 1..Len(ledger[u]) : ledger[u][i].type = "RESERVATION" /\ ledger[u][i].ref = q
    BY <2>1
  <2>3. i \in 1..Len(ledger'[u]) /\ ledger'[u][i] = ledger[u][i]
    BY DEF Grown
  <2>4. LedgerHold[q] = [state |-> HoldState(q), user |-> u, amount |-> -ledger[u][i].amount]
    BY <2>2 DEF Readable, HoldsAreRead
  <2>5. LedgerHold'[q] = [state |-> HoldState(q)', user |-> u, amount |-> -ledger'[u][i].amount]
    BY <2>2, <2>3 DEF Readable, HoldsAreRead
  <2>6. HoldState(q)' = HoldState(q)
    BY DEF HoldState
  <2> QED
    BY <2>3, <2>4, <2>5, <2>6
<1> QED
  BY <1>1, <1>2

\* The holds are a function, before and after.
LEMMA HoldFunction ==
    /\ LedgerHold = [r \in Reading |-> LedgerHold[r]]
    /\ LedgerHold' = [r \in Reading |-> LedgerHold'[r]]
BY DEF LedgerHold

\* No hold changes where no entry about a reading is posted.
LEMMA HoldsStay ==
    ASSUME Readable, Readable', Grown,
           \A q \in Reading : \A t \in {"RESERVATION", "CONSUMPTION", "RELEASE"} :
             Recorded(t, q)' <=> Recorded(t, q)
    PROVE  LedgerHold' = LedgerHold
<1>1. \A q \in Reading : LedgerHold'[q] = LedgerHold[q]
  BY HoldStays
<1> QED
  BY <1>1, HoldFunction

\* A bonus, a purchase or an adjustment is a grant.
LEMMA GrantStep ==
    ASSUME Readable, Readable', NEW u \in User, NEW type \in {"BONUS", "PURCHASE", "ADJUSTMENT"},
           NEW ref, NEW amount \in {InitialBonus} \cup Credits \cup Adjustment,
           Move(u, type, ref, amount)
    PROVE  Account!Next
<1>1. balance' = [balance EXCEPT ![u] = balance[u] + amount] /\ balance'[u] = balance[u] + amount
  BY DEF Move, Readable, Typed, TypeOK
<1>2. balance[u] + amount >= 0
  BY <1>1 DEF Readable, NonNegativeBalance
<1>3. Grown
  BY MoveAppends DEF Readable, Typed
<1>4. \A t, x : Recorded(t, x)' <=> Recorded(t, x) \/ (t = type /\ x = ref)
  BY PostRecords DEF Move, Readable, Typed
<1>5. LedgerHold' = LedgerHold
  BY <1>3, <1>4, HoldsStay
<1>6. Account!GrantCredits(u, amount)
  BY <1>1, <1>2, <1>5 DEF Account!GrantCredits
<1> QED
  BY <1>6 DEF Account!Next

\* A reservation is a hold.
LEMMA HoldStep ==
    ASSUME Readable, Readable', NEW u \in User, NEW r \in Reading, NEW a \in Cost,
           ReserveCreditsForReading(u, r, a)
    PROVE  Account!Next
<1> DEFINE n == Len(ledger[u]) + 1
<1>1. Move(u, "RESERVATION", r, -a) /\ a \in Int /\ balance[u] \in Int
  BY AmountsHold DEF ReserveCreditsForReading, Amounts, Readable, Typed, TypeOK
<1>2. /\ balance[u] >= a
      /\ balance' = [balance EXCEPT ![u] = balance[u] - a]
  <2>1. balance[u] + (-a) = balance[u] - a
    BY <1>1
  <2> QED
    BY <1>1, <2>1 DEF ReserveCreditsForReading, Move
<1>3. /\ Grown /\ n \in 1..Len(ledger'[u])
      /\ ledger'[u][n].type = "RESERVATION" /\ ledger'[u][n].ref = r
      /\ ledger'[u][n].amount = -a
  BY <1>1, MoveAppends DEF Readable, Typed
<1>4. /\ ~Recorded("RESERVATION", r)
      /\ \A t, x : Recorded(t, x)' <=> Recorded(t, x) \/ (t = "RESERVATION" /\ x = r)
  <2>1. TypeOK /\ Post(u, "RESERVATION", r, -a, balance[u] + (-a))
    BY <1>1 DEF Move, Readable, Typed
  <2>2. ~Recorded("RESERVATION", r)
    BY <2>1 DEF Post
  <2> QED
    BY <2>1, <2>2, PostRecords
<1>5. ~Recorded("CONSUMPTION", r)' /\ ~Recorded("RELEASE", r)'
  <2>1. rows[r] = "present" /\ reservation[r].status = "NONE"
    BY DEF ReserveCreditsForReading, NoReservation
  <2> QED
    BY <1>4, <2>1 DEF Readable, Matched, MatchedAt
<1>6. LedgerHold[r] = [state |-> "none"]
  BY <1>4 DEF LedgerHold
<1>7. LedgerHold'[r] = [state |-> "held", user |-> u, amount |-> a]
  <2>1. LedgerHold'[r] = [state |-> HoldState(r)', user |-> u, amount |-> -ledger'[u][n].amount]
    BY <1>3 DEF Readable, HoldsAreRead
  <2>2. HoldState(r)' = "held"
    BY <1>5 DEF HoldState
  <2>3. -ledger'[u][n].amount = a
    BY <1>1, <1>3
  <2> QED
    BY <2>1, <2>2, <2>3
<1>8. \A q \in Reading : q # r => LedgerHold'[q] = LedgerHold[q]
  BY <1>3, <1>4, HoldStays
<1>9. LedgerHold' = [LedgerHold EXCEPT ![r] = [state |-> "held", user |-> u, amount |-> a]]
  BY <1>7, <1>8, HoldFunction
<1>10. Account!HoldCredits(u, r, a)
  BY <1>2, <1>6, <1>9 DEF Account!HoldCredits, Account!NoHold
<1> QED
  BY <1>10 DEF Account!Next

\* The hold of an open reservation is open, of its user and in its amount.
LEMMA OpenHold ==
    ASSUME Readable, NEW r \in Reading, reservation[r].status = "ACTIVE"
    PROVE  /\ reservation[r].user \in User /\ reservation[r].amount \in Nat
           /\ ~Recorded("CONSUMPTION", r) /\ ~Recorded("RELEASE", r)
           /\ LedgerHold[r] = [state |-> "held", user |-> reservation[r].user,
                               amount |-> reservation[r].amount]
           /\ \E i \in 1..Len(ledger[reservation[r].user]) :
                LET e == ledger[reservation[r].user][i] IN
                  e.type = "RESERVATION" /\ e.ref = r /\ e.amount = -reservation[r].amount
<1> DEFINE u == reservation[r].user
<1>1. u \in User /\ reservation[r].amount \in Nat
  BY ActiveType DEF Readable, Typed
<1>2. rows[r] = "present"
  BY DEF Readable, Matched, MatchedAt
<1>3. ~Recorded("CONSUMPTION", r) /\ ~Recorded("RELEASE", r)
  BY <1>2 DEF Readable, Matched, MatchedAt
<1>4. PostedFor(r)
  BY DEF Readable, History, HoldsArePosted
<1>5. PICK i \in 1..Len(ledger[u]) :
            /\ ledger[u][i].type = "RESERVATION" /\ ledger[u][i].ref = r
            /\ ledger[u][i].amount = -reservation[r].amount
  BY <1>4 DEF PostedFor
<1>6. LedgerHold[r] = [state |-> HoldState(r), user |-> u, amount |-> -ledger[u][i].amount]
  BY <1>1, <1>5 DEF Readable, HoldsAreRead
<1>7. HoldState(r) = "held" /\ -ledger[u][i].amount = reservation[r].amount
  BY <1>1, <1>3, <1>5 DEF HoldState
<1> QED
  BY <1>1, <1>3, <1>5, <1>6, <1>7

\* Closing a reservation closes its hold and no other.
LEMMA CloseStep ==
    ASSUME Readable, Readable', Grown, NEW r \in Reading, reservation[r].status = "ACTIVE",
           NEW type \in {"CONSUMPTION", "RELEASE"},
           \A t, x : Recorded(t, x)' <=> Recorded(t, x) \/ (t = type /\ x = r)
    PROVE  LedgerHold' = [LedgerHold EXCEPT ![r].state =
                            IF type = "RELEASE" THEN "refunded" ELSE "captured"]
<1> DEFINE u == reservation[r].user
           s == IF type = "RELEASE" THEN "refunded" ELSE "captured"
<1>1. PICK i \in 1..Len(ledger[u]) :
            /\ ledger[u][i].type = "RESERVATION" /\ ledger[u][i].ref = r
            /\ ledger[u][i].amount = -reservation[r].amount
  BY OpenHold
<1>2. /\ u \in User /\ reservation[r].amount \in Nat
      /\ LedgerHold[r] = [state |-> "held", user |-> u, amount |-> reservation[r].amount]
      /\ ~Recorded("CONSUMPTION", r) /\ ~Recorded("RELEASE", r)
  BY OpenHold
<1>3. i \in 1..Len(ledger'[u]) /\ ledger'[u][i] = ledger[u][i]
  BY <1>2 DEF Grown
<1>4. LedgerHold'[r] = [state |-> HoldState(r)', user |-> u, amount |-> -ledger'[u][i].amount]
  BY <1>1, <1>2, <1>3 DEF Readable, HoldsAreRead
<1>5. HoldState(r)' = s
  BY <1>2 DEF HoldState
<1>6. -ledger'[u][i].amount = reservation[r].amount
  BY <1>1, <1>2, <1>3
<1>7. LedgerHold'[r] = [LedgerHold[r] EXCEPT !.state = s]
  BY <1>2, <1>4, <1>5, <1>6
<1>8. \A q \in Reading : q # r => LedgerHold'[q] = LedgerHold[q]
  BY HoldStays
<1> QED
  BY <1>7, <1>8, HoldFunction

\* A consumption captures, a release refunds.
LEMMA EndStep ==
    ASSUME Readable, Readable', NEW r \in Reading, CommitConsumption(r) \/ ReleaseReservation(r)
    PROVE  Account!Next
<1> DEFINE u == reservation[r].user
           a == reservation[r].amount
<1>1. reservation[r].status = "ACTIVE"
  BY DEF CommitConsumption, ReleaseReservation, Active, Readable, Typed, LockedIsActive
<1>2. /\ u \in User
      /\ LedgerHold[r] = [state |-> "held", user |-> u, amount |-> a]
  BY <1>1, OpenHold
<1>3. Account!Open(r)
  BY <1>2 DEF Account!Open
<1>4. CASE CommitConsumption(r)
  <2>1. Post(u, "CONSUMPTION", r, 0, seen[r]) /\ balance' = balance
    BY <1>4 DEF CommitConsumption
  <2>2. Grown /\ \A t, x : Recorded(t, x)' <=> Recorded(t, x) \/ (t = "CONSUMPTION" /\ x = r)
    <3>1. TypeOK
      BY DEF Readable, Typed
    <3>2. Grown
      BY <1>2, <2>1, <3>1, PostAppends
    <3> QED
      BY <1>2, <2>1, <3>1, <3>2, PostRecords
  <2>3. LedgerHold' = [LedgerHold EXCEPT ![r].state = "captured"]
    BY <1>1, <2>2, CloseStep
  <2>4. Account!Capture(r)
    BY <1>3, <2>1, <2>3 DEF Account!Capture
  <2> QED
    BY <2>4 DEF Account!Next
<1>5. CASE ReleaseReservation(r)
  <2>1. Move(u, "RELEASE", r, a)
    BY <1>5 DEF ReleaseReservation
  <2>2. Grown /\ \A t, x : Recorded(t, x)' <=> Recorded(t, x) \/ (t = "RELEASE" /\ x = r)
    <3>1. TypeOK /\ Post(u, "RELEASE", r, a, balance[u] + a)
      BY <2>1 DEF Move, Readable, Typed
    <3>2. Grown
      BY <1>2, <3>1, PostAppends
    <3> QED
      BY <1>2, <3>1, <3>2, PostRecords
  <2>3. LedgerHold' = [LedgerHold EXCEPT ![r].state = "refunded"]
    BY <1>1, <2>2, CloseStep
  <2>4. LedgerHold[r].user = u /\ LedgerHold[r].amount = a
    BY <1>2
  <2>5. balance' = [balance EXCEPT ![LedgerHold[r].user] = @ + LedgerHold[r].amount]
    BY <2>1, <2>4 DEF Move
  <2>6. Account!Refund(r)
    BY <1>3, <2>3, <2>5 DEF Account!Refund
  <2> QED
    BY <2>6 DEF Account!Next
<1> QED
  BY <1>4, <1>5

\* Where no entry is posted the account stays as it is.
LEMMA QuietStep ==
    ASSUME Readable, Readable', UNCHANGED <<balance, ledger>>
    PROVE  UNCHANGED <<balance, LedgerHold>>
<1>1. Grown
  BY QuietShows DEF Readable
<1>2. \A t, x : Recorded(t, x)' <=> Recorded(t, x)
  BY DEF Recorded
<1> QED
  BY <1>1, <1>2, HoldsStay

\* Every step of the wallet is a step of the abstract account or none.
LEMMA StepOfAccount ==
    ASSUME Readable, Readable', [Next]_vars
    PROVE  [Account!Next]_<<balance, LedgerHold>>
<1>1. ASSUME NEW u \in User, CreateWalletWithBonus(u)
      PROVE  [Account!Next]_<<balance, LedgerHold>>
  BY <1>1, GrantStep, QuietStep DEF CreateWalletWithBonus
<1>2. ASSUME NEW r \in Reading,
             InsertReading(r) \/ DeleteReading(r) \/ BeginConsumption(r) \/ AbortConsumption(r)
      PROVE  UNCHANGED <<balance, LedgerHold>>
  BY <1>2, QuietStep DEF InsertReading, DeleteReading, BeginConsumption, AbortConsumption
<1>3. ASSUME NEW u \in User, NEW r \in Reading, NEW a \in Cost, ReserveCreditsForReading(u, r, a)
      PROVE  Account!Next
  BY <1>3, HoldStep
<1>4. ASSUME NEW r \in Reading, CommitConsumption(r) \/ ReleaseReservation(r)
      PROVE  Account!Next
  BY <1>4, EndStep
<1>5. ASSUME NEW u \in User, NEW o \in Order, NEW c \in Credits, CreditPurchase(u, o, c)
      PROVE  Account!Next
  BY <1>5, GrantStep DEF CreditPurchase
<1>6. ASSUME NEW u \in User, NEW a \in Adjustment, AdjustBalance(u, a)
      PROVE  Account!Next
  BY <1>6, GrantStep DEF AdjustBalance
<1>7. CASE UNCHANGED vars
  BY <1>7, QuietStep DEF vars
<1> QED
  BY <1>1, <1>2, <1>3, <1>4, <1>5, <1>6, <1>7 DEF Next

\* The wallet's four tables and two-step transactions do what the account of
\* CreditAccount does in one variable each: what was reserved is captured once or
\* refunded once and in full to the user it was taken from, and nothing else moves
\* credits, whatever becomes of the rows of readings and reservations.
THEOREM WalletImplementsCreditAccount == Spec => ImplementsCreditAccount
<1>1. Init => Account!Init
  <2> SUFFICES ASSUME Init PROVE Account!Init
    OBVIOUS
  <2>1. \A r \in Reading : ~Recorded("RESERVATION", r)
    BY DEF Init, Recorded
  <2>2. LedgerHold = [r \in Reading |-> [state |-> "none"]]
    BY <2>1 DEF LedgerHold
  <2> QED
    BY <2>2 DEF Init, Account!Init, Account!NoHold
<1>2. Readable /\ Readable' /\ [Next]_vars => [Account!Next]_<<balance, LedgerHold>>
  BY StepOfAccount
<1> QED
  BY <1>1, <1>2, AlwaysReadable, PTL DEF Spec, Account!Spec, ImplementsCreditAccount
=============================================================================
