--------------------------- MODULE PaymentsProofs ---------------------------
(***************************************************************************)
(* Theorems of Payments for every set of users and orders, every number of *)
(* checkout intents, of requests and deliveries handled at the same time,  *)
(* and of them lost.                                                       *)
(***************************************************************************)
EXTENDS Payments, TLAPS, FiniteSetTheorems, Sequences

\* The part of TypeOK the arguments need.
Typed ==
    /\ order \in [Order -> {"NONE", "PENDING", "PAID", "CANCELLED"}]
    /\ payment \in [Payment -> PaymentStatus \cup {"NONE"}]
    /\ transaction \in [Payment -> TransactionStatus \cup {"NONE"}]
    /\ mispriced \subseteq Payment
    /\ task \in [Request \cup Delivery -> Task]
    /\ balance \in [User -> Int]
    /\ ledger \in [User -> Seq(W!Entry)]

\* A task about to settle a payment holds the final status of that very
\* transaction, though it read it some steps ago: a final status never changes.
Informed ==
    \A a \in Request \cup Delivery : Does(a, "settle") =>
        /\ Conclusive(task[a].payment, task[a].status)
        /\ transaction[task[a].payment] = task[a].status

Approved(o) == \E p \in Payment : p[1] = o /\ payment[p] = "APPROVED"

\* An order, the key purchase:<order> in the ledger, and its payments agree.
Settled(o) ==
    /\ order[o] = "PAID" <=> Approved(o)
    /\ W!Recorded("PURCHASE", o) <=> Approved(o)
    /\ \A p, q \in Payment :
         p[1] = o /\ q[1] = o /\ payment[p] = "APPROVED" /\ payment[q] = "APPROVED" => p = q

-----------------------------------------------------------------------------
\* The parts of a task, by its kind.
LEMMA TaskParts ==
    ASSUME Typed, NEW a \in Request \cup Delivery
    PROVE  /\ Does(a, "settle") => task[a].payment \in Payment /\ task[a].status \in TransactionStatus
           /\ Does(a, "return") => task[a].payment \in Payment /\ task[a].transaction \in Payment
           /\ Does(a, "checkout") => task[a].order \in Order
BY DEF Typed, Task, Does, Idle

\* A payment is of an order, and the order of a buyer.
LEMMA PaymentParts ==
    ASSUME NEW p \in Payment
    PROVE  p[1] \in Order /\ Buyer[p[1]] \in User /\ CreditsOf[p[1]] \in Nat
BY BuyerAssumption, CreditsOfAssumption DEF Payment

\* An entry more, and nothing else, is found in the ledger after it is posted.
LEMMA PostRecords ==
    ASSUME Typed, NEW u \in User, NEW type, NEW ref, NEW amount, NEW after,
           W!Post(u, type, ref, amount, after)
    PROVE  \A t, x : W!Recorded(t, x)' <=> W!Recorded(t, x) \/ (t = type /\ x = ref)
<1> DEFINE e == [type |-> type, ref |-> ref, amount |-> amount, balanceAfter |-> after]
           M == Append(ledger[u], e)
<1>1. ledger' = [ledger EXCEPT ![u] = M] /\ ledger \in [User -> Seq(W!Entry)]
  BY DEF W!Post, Typed
<1>2. /\ Len(ledger[u]) \in Nat /\ Len(M) = Len(ledger[u]) + 1 /\ M[Len(ledger[u]) + 1] = e
      /\ \A i \in 1..Len(ledger[u]) : M[i] = ledger[u][i]
  BY <1>1
<1>3. e.type = type /\ e.ref = ref
  OBVIOUS
<1> HIDE DEF e, M
<1>4. ledger'[u] = M /\ \A v \in User : v # u => ledger'[v] = ledger[v]
  BY <1>1
<1> SUFFICES ASSUME NEW t, NEW x
             PROVE  W!Recorded(t, x)' <=> W!Recorded(t, x) \/ (t = type /\ x = ref)
  OBVIOUS
<1>5. ASSUME W!Recorded(t, x) PROVE W!Recorded(t, x)'
  <2>1. PICK v \in User : \E i \in 1..Len(ledger[v]) :
               ledger[v][i].type = t /\ ledger[v][i].ref = x
    BY <1>5 DEF W!Recorded
  <2>2. PICK i \in 1..Len(ledger[v]) : ledger[v][i].type = t /\ ledger[v][i].ref = x
    BY <2>1
  <2>3. i \in 1..Len(ledger'[v]) /\ ledger'[v][i] = ledger[v][i]
    BY <1>2, <1>4
  <2> QED
    BY <2>2, <2>3 DEF W!Recorded
<1>6. ASSUME t = type, x = ref PROVE W!Recorded(t, x)'
  <2>1. Len(M) \in 1..Len(ledger'[u]) /\ ledger'[u][Len(M)] = e
    BY <1>2, <1>4
  <2> QED
    BY <1>3, <1>6, <2>1 DEF W!Recorded
<1>7. ASSUME W!Recorded(t, x)' PROVE W!Recorded(t, x) \/ (t = type /\ x = ref)
  <2>1. PICK v \in User : \E i \in 1..Len(ledger'[v]) :
               ledger'[v][i].type = t /\ ledger'[v][i].ref = x
    BY <1>7 DEF W!Recorded
  <2>2. PICK i \in 1..Len(ledger'[v]) : ledger'[v][i].type = t /\ ledger'[v][i].ref = x
    BY <2>1
  <2>3. CASE v # u \/ i # Len(M)
    <3>1. i \in 1..Len(ledger[v]) /\ ledger'[v][i] = ledger[v][i]
      BY <1>2, <1>4, <2>3
    <3> QED
      BY <2>2, <3>1 DEF W!Recorded
  <2>4. CASE v = u /\ i = Len(M)
    BY <1>2, <1>3, <1>4, <2>2, <2>4
  <2> QED
    BY <2>3, <2>4
<1> QED
  BY <1>5, <1>6, <1>7

\* A movement leaves balances and ledger well typed.
LEMMA MoveTyped ==
    ASSUME Typed, NEW u \in User, NEW type \in W!EntryType, NEW ref \in User \cup Order,
           NEW amount \in Int, W!Move(u, type, ref, amount)
    PROVE  balance' \in [User -> Int] /\ ledger' \in [User -> Seq(W!Entry)]
<1> DEFINE e == [type |-> type, ref |-> ref, amount |-> amount,
                 balanceAfter |-> balance[u] + amount]
<1>1. balance[u] + amount \in Int
  BY DEF Typed
<1>2. e \in W!Entry
  BY <1>1 DEF W!Entry
<1>3. ledger' = [ledger EXCEPT ![u] = Append(@, e)] /\ balance' = [balance EXCEPT ![u] = @ + amount]
  BY DEF W!Move, W!Post
<1> HIDE DEF e
<1>4. Append(ledger[u], e) \in Seq(W!Entry)
  BY <1>2 DEF Typed
<1> QED
  BY <1>1, <1>3, <1>4 DEF Typed

\* The bonus of a new account is no purchase.
LEMMA RegisterRecords ==
    ASSUME Typed, NEW u \in User, Register(u)
    PROVE  /\ balance' \in [User -> Int] /\ ledger' \in [User -> Seq(W!Entry)]
           /\ \A o : W!Recorded("PURCHASE", o)' <=> W!Recorded("PURCHASE", o)
<1>1. CASE InitialBonus > 0
  <2>1. W!Move(u, "BONUS", u, InitialBonus)
    BY <1>1 DEF Register, W!CreateWalletWithBonus
  <2>2. \A t, x : W!Recorded(t, x)' <=> W!Recorded(t, x) \/ (t = "BONUS" /\ x = u)
    BY <2>1, PostRecords DEF W!Move
  <2>3. balance' \in [User -> Int] /\ ledger' \in [User -> Seq(W!Entry)]
    BY <2>1, MoveTyped, InitialBonusAssumption DEF W!EntryType
  <2> QED
    BY <2>2, <2>3
<1>2. CASE ~(InitialBonus > 0)
  <2>1. UNCHANGED <<balance, ledger>>
    BY <1>2 DEF Register, W!CreateWalletWithBonus
  <2> QED
    BY <2>1 DEF Typed, W!Recorded
<1> QED
  BY <1>1, <1>2

-----------------------------------------------------------------------------
\* The inductive invariant.  PaidOnce alone is not inductive: an approval must be
\* refused by the ledger's key when another payment of the order is approved, and
\* a settlement must write what Wompi's transaction still says.
IInv == Typed /\ Informed /\ SettledAsInWompi /\ \A o \in Order : Settled(o)

\* Nothing is bought, and nothing handled.
LEMMA InitiallySettled == Init => IInv
<1> SUFFICES ASSUME Init PROVE IInv
  OBVIOUS
<1>1. Typed
  BY DEF Init, Typed, Task
<1>2. Informed
  BY DEF Init, Informed, Does, Idle
<1>3. SettledAsInWompi
  BY DEF Init, SettledAsInWompi, PaymentStatus
<1>4. ASSUME NEW o \in Order PROVE Settled(o)
  <2>1. ~Approved(o)
    BY DEF Init, Approved
  <2>2. ~W!Recorded("PURCHASE", o)
    BY DEF Init, W!Recorded
  <2>3. order[o] # "PAID"
    BY DEF Init
  <2> QED
    BY <2>1, <2>2, <2>3 DEF Settled, Approved
<1> QED
  BY <1>1, <1>2, <1>3, <1>4 DEF IInv

\* Steps that leave payments, orders and the ledger keep Settled.
LEMMA SettledStays ==
    ASSUME \A o \in Order : Settled(o), UNCHANGED <<order, payment, ledger>>
    PROVE  \A o \in Order : Settled(o)'
BY DEF Settled, Approved, W!Recorded

\* A task that ends, or becomes anything but a settlement, leaves the others
\* informed.
LEMMA InformedStays ==
    ASSUME Typed, Informed, NEW a \in Request \cup Delivery, NEW t \in Task,
           t.kind # "settle", Become(a, t), UNCHANGED <<transaction, mispriced>>
    PROVE  Informed'
BY DEF Typed, Informed, Become, Does, Conclusive

\* A task is given the final status of the transaction.
LEMMA InformedGrows ==
    ASSUME Typed, Informed, NEW a \in Request \cup Delivery, NEW p \in Payment,
           Conclusive(p, transaction[p]),
           Become(a, [kind |-> "settle", payment |-> p, status |-> transaction[p]]),
           UNCHANGED <<transaction, mispriced>>
    PROVE  Informed'
BY DEF Typed, Informed, Become, Does, Conclusive

\* Steps of Wompi and of users: they settle nothing.
LEMMA OthersPreserve ==
    ASSUME IInv,
           \/ \E u \in User : Register(u)
           \/ \E o \in Order : CreateOrder(o)
           \/ \E a \in Request, o \in Order : BeginCheckout(a, o)
           \/ \E a \in Request, o \in Order, t \in Payment : BeginReturn(a, o, t)
           \/ \E p \in Payment : OpenTransaction(p)
           \/ \E p \in Payment, s \in TransactionStatus \ {"PENDING"} : CloseTransaction(p, s)
    PROVE  IInv'
<1> USE DEF IInv
<1>1. ASSUME NEW u \in User, Register(u) PROVE IInv'
  <2>1. Typed'
    BY <1>1, RegisterRecords DEF Register, Typed, wompiVars
  <2>2. Informed' /\ SettledAsInWompi'
    BY <1>1 DEF Register, Informed, SettledAsInWompi, Does, Conclusive, wompiVars
  <2>3. \A o \in Order : Settled(o)'
    BY <1>1, RegisterRecords DEF Register, Settled, Approved
  <2> QED
    BY <2>1, <2>2, <2>3
<1>2. ASSUME NEW o \in Order, CreateOrder(o) PROVE IInv'
  <2>1. Typed'
    BY <1>2 DEF CreateOrder, Typed, wompiVars, walletVars
  <2>2. Informed' /\ SettledAsInWompi'
    BY <1>2 DEF CreateOrder, Informed, SettledAsInWompi, Does, Conclusive, wompiVars
  <2>3. \A x \in Order : order'[x] = "PAID" <=> order[x] = "PAID"
    BY <1>2 DEF CreateOrder, Typed
  <2>4. \A x \in Order : Settled(x)'
    BY <1>2, <2>3 DEF CreateOrder, Settled, Approved, W!Recorded, walletVars
  <2> QED
    BY <2>1, <2>2, <2>4
<1>3. ASSUME NEW a \in Request, NEW o \in Order, BeginCheckout(a, o) PROVE IInv'
  <2> DEFINE t == [kind |-> "checkout", order |-> o]
  <2>1. t \in Task /\ t.kind # "settle"
    BY DEF Task
  <2>2. Become(a, t) /\ UNCHANGED <<order, payment, wompiVars, walletVars>>
    BY <1>3 DEF BeginCheckout
  <2> HIDE DEF t
  <2>3. Typed'
    BY <2>1, <2>2 DEF Typed, Become, wompiVars, walletVars
  <2>4. Informed'
    BY <2>1, <2>2, InformedStays DEF wompiVars
  <2>5. SettledAsInWompi' /\ \A x \in Order : Settled(x)'
    BY <2>2, SettledStays DEF SettledAsInWompi, Conclusive, wompiVars, walletVars
  <2> QED
    BY <2>3, <2>4, <2>5
<1>4. ASSUME NEW a \in Request, NEW o \in Order, NEW p \in Payment, BeginReturn(a, o, p)
      PROVE  IInv'
  <2>1. PICK n \in 1..MaxIntents :
               Become(a, [kind |-> "return", payment |-> <<o, n>>, transaction |-> p])
    BY <1>4 DEF BeginReturn
  <2> DEFINE t == [kind |-> "return", payment |-> <<o, n>>, transaction |-> p]
  <2>2. t \in Task /\ t.kind # "settle"
    BY DEF Task, Payment
  <2>3. Become(a, t) /\ UNCHANGED <<order, payment, wompiVars, walletVars>>
    BY <1>4, <2>1 DEF BeginReturn
  <2> HIDE DEF t
  <2>4. Typed'
    BY <2>2, <2>3 DEF Typed, Become, wompiVars, walletVars
  <2>5. Informed'
    BY <2>2, <2>3, InformedStays DEF wompiVars
  <2>6. SettledAsInWompi' /\ \A x \in Order : Settled(x)'
    BY <2>3, SettledStays DEF SettledAsInWompi, Conclusive, wompiVars, walletVars
  <2> QED
    BY <2>4, <2>5, <2>6
<1>5. ASSUME NEW p \in Payment, OpenTransaction(p) PROVE IInv'
  <2>1. /\ Typed'
        /\ \A q \in Payment : transaction[q] # "NONE" =>
             transaction'[q] = transaction[q] /\ (q \in mispriced' => q \in mispriced)
    BY <1>5 DEF OpenTransaction, Typed, TransactionStatus, walletVars
  <2>2. "NONE" \notin DOMAIN Outcome
    BY DEF Outcome, TransactionStatus
  <2>3. Informed'
    BY <1>5, <2>1, <2>2, TaskParts DEF OpenTransaction, Informed, Does, Conclusive
  <2>4. SettledAsInWompi'
    BY <1>5, <2>1, <2>2 DEF OpenTransaction, SettledAsInWompi, Conclusive
  <2>5. \A x \in Order : Settled(x)'
    BY <1>5, SettledStays DEF OpenTransaction, walletVars
  <2> QED
    BY <2>1, <2>3, <2>4, <2>5
<1>6. ASSUME NEW p \in Payment, NEW s \in TransactionStatus \ {"PENDING"}, CloseTransaction(p, s)
      PROVE  IInv'
  <2>1. /\ Typed'
        /\ \A q \in Payment : transaction[q] # "PENDING" => transaction'[q] = transaction[q]
    BY <1>6 DEF CloseTransaction, Typed, walletVars
  <2>2. "PENDING" \notin DOMAIN Outcome
    BY DEF Outcome, TransactionStatus
  <2>3. Informed'
    BY <1>6, <2>1, <2>2, TaskParts DEF CloseTransaction, Informed, Does, Conclusive
  <2>4. SettledAsInWompi'
    BY <1>6, <2>1, <2>2 DEF CloseTransaction, SettledAsInWompi, Conclusive
  <2>5. \A x \in Order : Settled(x)'
    BY <1>6, SettledStays DEF CloseTransaction, walletVars
  <2> QED
    BY <2>1, <2>3, <2>4, <2>5
<1> QED
  BY <1>1, <1>2, <1>3, <1>4, <1>5, <1>6

\* Steps of the handlers of requests and deliveries, but for the settlement.
LEMMA HandlersPreserve ==
    ASSUME IInv, NEW a \in Request \cup Delivery,
           \/ CreatePayment(a) \/ FetchTransaction(a) \/ SettleFails(a) \/ Lose(a)
           \/ \E p \in Payment, s \in TransactionStatus : Receive(a, p, s)
    PROVE  IInv'
<1> USE DEF IInv
<1>1. Idle \in Task /\ Idle.kind # "settle"
  BY DEF Idle, Task
<1>2. ASSUME CreatePayment(a) PROVE IInv'
  <2>1. task[a].order \in Order
    BY <1>2, TaskParts DEF CreatePayment
  <2>2. PICK n \in Unused(task[a].order) :
               payment' = [payment EXCEPT ![<<task[a].order, n>>] = "PENDING"]
    BY <1>2 DEF CreatePayment
  <2> DEFINE p == <<task[a].order, n>>
  <2>3. p \in Payment /\ payment[p] = "NONE"
    BY <2>1, <2>2 DEF Unused, Payment
  <2>4. payment' = [payment EXCEPT ![p] = "PENDING"]
    BY <2>2
  <2> HIDE DEF p
  <2>5. Become(a, Idle) /\ UNCHANGED <<order, wompiVars, walletVars>>
    BY <1>2 DEF CreatePayment
  <2>6. Typed'
    BY <1>1, <2>3, <2>4, <2>5 DEF Typed, Become, PaymentStatus, wompiVars, walletVars
  <2>7. Informed'
    BY <1>1, <2>5, InformedStays DEF wompiVars
  <2>8. SettledAsInWompi'
    BY <2>3, <2>4, <2>5 DEF Typed, SettledAsInWompi, Conclusive, PaymentStatus, wompiVars
  <2>9. \A q \in Payment : payment'[q] = "APPROVED" <=> payment[q] = "APPROVED"
    BY <2>3, <2>4 DEF Typed
  <2>10. \A o \in Order : Settled(o)'
    BY <2>5, <2>9 DEF Settled, Approved, W!Recorded, walletVars
  <2> QED
    BY <2>6, <2>7, <2>8, <2>10
<1>3. ASSUME Become(a, Idle), UNCHANGED <<order, payment, transaction, mispriced, walletVars>>
      PROVE  IInv'
  <2>1. Typed'
    BY <1>1, <1>3 DEF Typed, Become, walletVars
  <2>2. Informed'
    BY <1>1, <1>3, InformedStays
  <2>3. SettledAsInWompi' /\ \A x \in Order : Settled(x)'
    BY <1>3, SettledStays DEF SettledAsInWompi, Conclusive, walletVars
  <2> QED
    BY <2>1, <2>2, <2>3
<1>4. ASSUME NEW p \in Payment, Conclusive(p, transaction[p]),
             Become(a, [kind |-> "settle", payment |-> p, status |-> transaction[p]]),
             UNCHANGED <<order, payment, transaction, mispriced, walletVars>>
      PROVE  IInv'
  <2> DEFINE t == [kind |-> "settle", payment |-> p, status |-> transaction[p]]
  <2>1. t \in Task
    BY <1>4 DEF Task, Conclusive, Outcome
  <2>2. Become(a, t)
    BY <1>4
  <2> HIDE DEF t
  <2>3. Typed'
    BY <1>4, <2>1, <2>2 DEF Typed, Become, walletVars
  <2>4. Informed'
    BY <1>4, InformedGrows
  <2>5. SettledAsInWompi' /\ \A x \in Order : Settled(x)'
    BY <1>4, SettledStays DEF SettledAsInWompi, Conclusive, walletVars
  <2> QED
    BY <2>3, <2>4, <2>5
<1>5. ASSUME FetchTransaction(a) PROVE IInv'
  <2>1. task[a].payment \in Payment
    BY <1>5, TaskParts DEF FetchTransaction
  <2>2. CASE task[a].transaction = task[a].payment
               /\ Conclusive(task[a].transaction, transaction[task[a].transaction])
    BY <1>4, <1>5, <2>1, <2>2 DEF FetchTransaction, wompiVars
  <2>3. CASE ~(task[a].transaction = task[a].payment
               /\ Conclusive(task[a].transaction, transaction[task[a].transaction]))
    BY <1>3, <1>5, <2>3 DEF FetchTransaction, wompiVars
  <2> QED
    BY <2>2, <2>3
<1>6. ASSUME NEW p \in Payment, NEW s \in TransactionStatus, Receive(a, p, s) PROVE IInv'
  <2>1. UNCHANGED <<order, payment, transaction, mispriced, walletVars>>
    BY <1>6 DEF Receive
  <2>2. CASE UNCHANGED task
    <3>1. Typed'
      BY <2>1, <2>2 DEF Typed, walletVars
    <3>2. Informed' /\ SettledAsInWompi'
      BY <2>1, <2>2 DEF Informed, SettledAsInWompi, Does, Conclusive
    <3>3. \A x \in Order : Settled(x)'
      BY <2>1, SettledStays DEF walletVars
    <3> QED
      BY <3>1, <3>2, <3>3
  <2>3. CASE Conclusive(p, s) /\ Become(a, [kind |-> "settle", payment |-> p, status |-> s])
    <3>1. s = transaction[p]
      BY <1>6, <2>3 DEF Receive, Emitted, Conclusive, Outcome
    <3> QED
      BY <1>4, <2>1, <2>3, <3>1
  <2> QED
    BY <1>6, <2>2, <2>3 DEF Receive
<1>7. CASE SettleFails(a) \/ Lose(a)
  BY <1>3, <1>7 DEF SettleFails, Lose, wompiVars
<1> QED
  BY <1>2, <1>5, <1>6, <1>7

\* An approval is posted under the key purchase:<order>, so that it is the first
\* of its order.
LEMMA ApprovePreserves ==
    ASSUME Typed, \A o \in Order : Settled(o), NEW p \in Payment, payment[p] = "PENDING",
           Approve(p)
    PROVE  /\ order' \in [Order -> {"NONE", "PENDING", "PAID", "CANCELLED"}]
           /\ balance' \in [User -> Int] /\ ledger' \in [User -> Seq(W!Entry)]
           /\ \A o \in Order : Settled(o)'
<1> DEFINE b == p[1]
<1>1. b \in Order /\ Buyer[b] \in User /\ CreditsOf[b] \in Nat
  BY PaymentParts
<1>2. W!Move(Buyer[b], "PURCHASE", b, CreditsOf[b])
  BY DEF Approve, W!CreditPurchase
<1>3. /\ ~W!Recorded("PURCHASE", b)
      /\ \A t, x : W!Recorded(t, x)' <=> W!Recorded(t, x) \/ (t = "PURCHASE" /\ x = b)
  <2>1. W!Post(Buyer[b], "PURCHASE", b, CreditsOf[b], balance[Buyer[b]] + CreditsOf[b])
    BY <1>2 DEF W!Move
  <2> HIDE DEF b
  <2>2. ~W!Recorded("PURCHASE", b)
    BY <2>1 DEF W!Post
  <2> QED
    BY <1>1, <2>1, <2>2, PostRecords
<1>4. balance' \in [User -> Int] /\ ledger' \in [User -> Seq(W!Entry)]
  BY <1>1, <1>2, MoveTyped DEF W!EntryType
<1>5. payment' = [payment EXCEPT ![p] = "APPROVED"] /\ order' = [order EXCEPT ![b] = "PAID"]
  BY DEF Approve
<1>6. ASSUME NEW o \in Order PROVE Settled(o)'
  <2>1. CASE o = b
    <3>1. ~Approved(o)
      BY <1>3, <2>1 DEF Settled
    <3>2. \A q \in Payment : q[1] = o => (payment'[q] = "APPROVED" <=> q = p)
      BY <1>5, <3>1 DEF Typed, Approved
    <3>3. Approved(o)'
      BY <2>1, <3>2 DEF Approved
    <3>4. order'[o] = "PAID" /\ W!Recorded("PURCHASE", o)'
      BY <1>1, <1>3, <1>5, <2>1 DEF Typed
    <3> QED
      BY <3>2, <3>3, <3>4 DEF Settled
  <2>2. CASE o # b
    <3>1. \A q \in Payment : q[1] = o => payment'[q] = payment[q]
      BY <1>5, <2>2 DEF Typed
    <3>2. order'[o] = order[o] /\ (W!Recorded("PURCHASE", o)' <=> W!Recorded("PURCHASE", o))
      BY <1>3, <1>5, <2>2 DEF Typed
    <3>3. Approved(o)' <=> Approved(o)
      BY <3>1 DEF Approved
    <3> HIDE DEF b
    <3> QED
      BY <3>1, <3>2, <3>3 DEF Settled
  <2> QED
    BY <2>1, <2>2
<1> QED
  BY <1>1, <1>4, <1>5, <1>6 DEF Typed

\* A decline leaves a paid order and its credits as they are.
LEMMA MarkTerminalPreserves ==
    ASSUME Typed, \A o \in Order : Settled(o), NEW p \in Payment, payment[p] = "PENDING",
           NEW s \in DOMAIN Outcome, s # "APPROVED", MarkTerminal(p, s)
    PROVE  /\ order' \in [Order -> {"NONE", "PENDING", "PAID", "CANCELLED"}]
           /\ \A o \in Order : Settled(o)'
<1>1. payment' = [payment EXCEPT ![p] = Outcome[s]] /\ Outcome[s] # "APPROVED"
  BY DEF MarkTerminal, Outcome, TransactionStatus
<1>2. \A q \in Payment : payment'[q] = "APPROVED" <=> payment[q] = "APPROVED"
  BY <1>1 DEF Typed
<1>3. /\ order' \in [Order -> {"NONE", "PENDING", "PAID", "CANCELLED"}]
      /\ \A o \in Order : order'[o] = "PAID" <=> order[o] = "PAID"
  BY PaymentParts DEF Typed, MarkTerminal
<1>4. UNCHANGED ledger
  BY DEF MarkTerminal, walletVars
<1> QED
  BY <1>2, <1>3, <1>4 DEF Settled, Approved, W!Recorded

\* The settlement of a payment, conditional on its being PENDING.
LEMMA SettlePreserves ==
    ASSUME IInv, NEW a \in Request \cup Delivery, Settle(a)
    PROVE  IInv'
<1> USE DEF IInv
<1> DEFINE p == task[a].payment
           s == task[a].status
<1>1. /\ p \in Payment /\ s \in TransactionStatus
      /\ Conclusive(p, s) /\ transaction[p] = s
  BY TaskParts DEF Settle, Informed
<1>2. s \in DOMAIN Outcome /\ Outcome[s] \in PaymentStatus /\ Outcome["APPROVED"] = "APPROVED"
  BY <1>1 DEF Conclusive, Outcome, TransactionStatus, PaymentStatus
<1>3. Become(a, Idle) /\ UNCHANGED <<transaction, mispriced>>
  BY DEF Settle
<1>4. \/ UNCHANGED <<order, payment, walletVars>>
      \/ payment[p] = "PENDING" /\ s = "APPROVED" /\ Approve(p)
      \/ payment[p] = "PENDING" /\ s # "APPROVED" /\ MarkTerminal(p, s)
  BY DEF Settle
<1> HIDE DEF p, s
<1>5. /\ order' \in [Order -> {"NONE", "PENDING", "PAID", "CANCELLED"}]
      /\ balance' \in [User -> Int] /\ ledger' \in [User -> Seq(W!Entry)]
      /\ \A o \in Order : Settled(o)'
  <2>1. CASE UNCHANGED <<order, payment, walletVars>>
    BY <2>1, SettledStays DEF Typed, walletVars
  <2>2. CASE payment[p] = "PENDING" /\ Approve(p)
    BY <1>1, <2>2, ApprovePreserves
  <2>3. CASE payment[p] = "PENDING" /\ s # "APPROVED" /\ MarkTerminal(p, s)
    <3>1. UNCHANGED <<balance, ledger>>
      BY <2>3 DEF MarkTerminal, walletVars
    <3> QED
      BY <1>1, <1>2, <2>3, <3>1, MarkTerminalPreserves DEF Typed
  <2> QED
    BY <1>4, <2>1, <2>2, <2>3
<1>6. payment' = payment \/ payment' = [payment EXCEPT ![p] = Outcome[s]]
  BY <1>2, <1>4 DEF Approve, MarkTerminal
<1>7. Typed'
  <2>1. payment' \in [Payment -> PaymentStatus \cup {"NONE"}]
    BY <1>1, <1>2, <1>6 DEF Typed
  <2>2. task' \in [Request \cup Delivery -> Task]
    BY <1>3 DEF Typed, Become, Task
  <2> QED
    BY <1>3, <1>5, <2>1, <2>2 DEF Typed
<1>8. Informed'
  BY <1>3, InformedStays DEF Idle, Task
<1>9. SettledAsInWompi'
  BY <1>1, <1>3, <1>6 DEF Typed, SettledAsInWompi, Conclusive
<1> QED
  BY <1>5, <1>7, <1>8, <1>9

\* Every step keeps the invariant.
LEMMA StepPreserves ==
    ASSUME IInv, [Next]_vars
    PROVE  IInv'
<1>1. CASE UNCHANGED vars
  <2>1. UNCHANGED <<order, payment, transaction, mispriced, task, balance, ledger>>
    BY <1>1 DEF vars, wompiVars, walletVars
  <2>2. Typed' /\ Informed' /\ SettledAsInWompi'
    BY <2>1 DEF IInv, Typed, Informed, SettledAsInWompi, Does, Conclusive
  <2> QED
    BY <2>1, <2>2, SettledStays DEF IInv
<1>2. ASSUME NEW a \in Request \cup Delivery, TaskStep(a) PROVE IInv'
  BY <1>2, HandlersPreserve, SettlePreserves DEF TaskStep
<1>3. ASSUME NEW a \in Request \cup Delivery, Lose(a) PROVE IInv'
  BY <1>3, HandlersPreserve
<1>4. ASSUME NEW d \in Delivery, NEW p \in Payment, NEW s \in TransactionStatus, Receive(d, p, s)
      PROVE  IInv'
  BY <1>4, HandlersPreserve
<1> QED
  BY <1>1, <1>2, <1>3, <1>4, OthersPreserve DEF Next

\* Every reachable state satisfies the invariant.
LEMMA AlwaysSettled == Spec => []IInv
<1>1. Init => IInv
  BY InitiallySettled
<1>2. IInv /\ [Next]_vars => IInv'
  BY StepPreserves
<1> QED
  BY <1>1, <1>2, PTL DEF Spec

-----------------------------------------------------------------------------
\* A set without two different elements has one at most.
LEMMA AtMostOne ==
    ASSUME NEW S, \A x, y \in S : x = y
    PROVE  Cardinality(S) <= 1
<1>1. CASE S = {}
  BY <1>1, FS_EmptySet
<1>2. CASE S # {}
  <2>1. PICK x \in S : TRUE
    BY <1>2
  <2>2. S = {x}
    BY <2>1
  <2> QED
    BY <2>2, FS_Singleton
<1> QED
  BY <1>1, <1>2

\* approvePayment under the key purchase:<order>: for any number of intents,
\* returns and deliveries, in any order and however often repeated, an order is
\* PAID and its buyer credited exactly when one payment of it is APPROVED.
THEOREM OrdersArePaidOnce == Spec => []PaidOnce
<1>1. IInv => PaidOnce
  <2> SUFFICES ASSUME IInv, NEW o \in Order
               PROVE  LET approved == {p \in Payment : p[1] = o /\ payment[p] = "APPROVED"} IN
                        /\ Cardinality(approved) <= 1
                        /\ (order[o] = "PAID") <=> (approved # {})
                        /\ W!Recorded("PURCHASE", o) <=> (approved # {})
    BY DEF PaidOnce
  <2> DEFINE approved == {p \in Payment : p[1] = o /\ payment[p] = "APPROVED"}
  <2>1. Settled(o)
    BY DEF IInv
  <2>2. approved # {} <=> Approved(o)
    BY DEF Approved
  <2>3. \A p, q \in approved : p = q
    BY <2>1 DEF Settled
  <2>4. Cardinality(approved) <= 1
    BY <2>3, AtMostOne
  <2> QED
    BY <2>1, <2>2, <2>4 DEF Settled
<1> QED
  BY <1>1, AlwaysSettled, PTL

\* No payment is settled otherwise than Wompi's transaction of its reference was,
\* for the right amount: neither by what the browser says nor by a stale answer.
THEOREM PaymentsFollowWompi == Spec => []SettledAsInWompi
<1>1. IInv => SettledAsInWompi
  BY DEF IInv
<1> QED
  BY <1>1, AlwaysSettled, PTL

-----------------------------------------------------------------------------
\* The tables Payments leaves out are empty in the wallet it uses.
LEMMA WalletStartsEmpty == Init => W!Init
<1>1. << >> = [r \in {} |-> W!NoReservation]
  OBVIOUS
<1>2. << >> = [r \in {} |-> "absent"]
  OBVIOUS
<1>3. << >> = [r \in {} |-> 0]
  OBVIOUS
<1> QED
  BY <1>1, <1>2, <1>3 DEF Init, W!Init

\* A step is an operation of the wallet, or leaves it alone.
LEMMA StepOfWallet ==
    ASSUME IInv, [Next]_vars
    PROVE  [W!Next]_(W!vars)
<1>1. ASSUME UNCHANGED walletVars PROVE UNCHANGED W!vars
  BY <1>1 DEF walletVars, W!vars
<1>2. ASSUME NEW u \in User, Register(u) PROVE W!Next
  BY <1>2 DEF Register, W!Next
<1>3. ASSUME NEW a \in Request \cup Delivery, Settle(a) PROVE [W!Next]_(W!vars)
  <2> DEFINE p == task[a].payment
  <2>1. p \in Payment
    BY <1>3, TaskParts DEF Settle, IInv
  <2>2. CASE Approve(p)
    <3>1. W!CreditPurchase(Buyer[p[1]], p[1], CreditsOf[p[1]])
      BY <2>2 DEF Approve
    <3>2. /\ Buyer[p[1]] \in User /\ p[1] \in Order
          /\ CreditsOf[p[1]] \in {CreditsOf[o] : o \in Order}
      BY <2>1, PaymentParts
    <3> QED
      BY <3>1, <3>2 DEF W!Next
  <2>3. CASE UNCHANGED walletVars
    BY <1>1, <2>3
  <2> QED
    BY <1>3, <2>2, <2>3 DEF Settle, MarkTerminal
<1>4. CASE UNCHANGED vars
  BY <1>1, <1>4 DEF vars
<1>5. ASSUME \/ \E o \in Order : CreateOrder(o)
             \/ \E a \in Request, o \in Order : BeginCheckout(a, o)
             \/ \E a \in Request, o \in Order, t \in Payment : BeginReturn(a, o, t)
             \/ \E p \in Payment : OpenTransaction(p)
             \/ \E p \in Payment, s \in TransactionStatus : CloseTransaction(p, s)
             \/ \E d \in Delivery, p \in Payment, s \in TransactionStatus : Receive(d, p, s)
             \/ \E a \in Request \cup Delivery :
                  CreatePayment(a) \/ FetchTransaction(a) \/ SettleFails(a) \/ Lose(a)
      PROVE  UNCHANGED walletVars
  BY <1>5 DEF CreateOrder, BeginCheckout, BeginReturn, OpenTransaction, CloseTransaction,
              Receive, CreatePayment, FetchTransaction, SettleFails, Lose
<1> QED
  BY <1>1, <1>2, <1>3, <1>4, <1>5 DEF Next, TaskStep

\* Payments moves credits only by what WalletService does, so that the theorems of
\* WalletProofs are theorems of purchases too.
THEOREM PaymentsUseTheWallet == Spec => ImplementsWallet
<1>1. Init => W!Init
  BY WalletStartsEmpty
<1>2. IInv /\ [Next]_vars => [W!Next]_(W!vars)
  BY StepOfWallet
<1> QED
  BY <1>1, <1>2, AlwaysSettled, PTL DEF Spec, W!Spec, ImplementsWallet

-----------------------------------------------------------------------------
\* The theorems about WalletService alone, of this wallet.
WP == INSTANCE WalletProofs WITH
    Reading <- {}, Cost <- {}, Credits <- {CreditsOf[o] : o \in Order},
    Adjustment <- {}, MaxAdjustments <- 0, reservation <- << >>, rows <- << >>,
    audit <- << >>, confirming <- {}, seen <- << >>

\* It is the same wallet, and what Wallet assumes of its constants holds.
LEMMA SameWallet ==
    /\ W!Spec => WP!Spec
    /\ {CreditsOf[o] : o \in Order} \subseteq Nat
    /\ InitialBonus \in Nat
<1>1. W!Init => WP!Init
  BY DEF W!Init, WP!Init, W!NoReservation, WP!NoReservation
<1>2. W!Next <=> WP!Next
  BY DEF W!Next, WP!Next,
         W!CreateWalletWithBonus, WP!CreateWalletWithBonus, W!InsertReading,
         WP!InsertReading, W!DeleteReading, WP!DeleteReading, W!ReserveCreditsForReading,
         WP!ReserveCreditsForReading, W!BeginConsumption, WP!BeginConsumption,
         W!CommitConsumption, WP!CommitConsumption, W!AbortConsumption,
         WP!AbortConsumption, W!ReleaseReservation, WP!ReleaseReservation,
         W!CreditPurchase, WP!CreditPurchase, W!AdjustBalance, WP!AdjustBalance, W!Move,
         WP!Move, W!Post, WP!Post, W!Recorded, WP!Recorded, W!Active, WP!Active,
         W!NoReservation, WP!NoReservation
<1>3. [W!Next]_(W!vars) => [WP!Next]_(WP!vars)
  BY <1>2 DEF W!vars, WP!vars
<1>4. W!Spec => WP!Spec
  BY <1>1, <1>3, PTL DEF W!Spec, WP!Spec
<1> QED
  BY <1>4, CreditsOfAssumption, InitialBonusAssumption

\* A purchase is credited in one movement that the ledger shows, however often and in
\* whatever order the events and the returns of its payments are handled.
THEOREM PaymentsKeepTheLedger == Spec => [](W!NonNegativeBalance /\ W!LedgerReconciles)
<1>1. WP!Spec => []WP!NonNegativeBalance /\ []WP!LedgerReconciles
  BY SameWallet, WP!NeverOverdrawn, WP!LedgerAlwaysReconciles
<1>2. WP!NonNegativeBalance => W!NonNegativeBalance
  BY DEF W!NonNegativeBalance, WP!NonNegativeBalance
<1>3. WP!LedgerReconciles => W!LedgerReconciles
  BY DEF W!LedgerReconciles, WP!LedgerReconciles, W!Reconciled, WP!Reconciled,
         W!Moves, WP!Moves
<1> QED
  BY <1>1, <1>2, <1>3, SameWallet, PaymentsUseTheWallet, PTL DEF ImplementsWallet
=============================================================================
