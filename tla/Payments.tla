------------------------------ MODULE Payments ------------------------------
(***************************************************************************)
(* The purchase of credits: orders (OrdersService), checkout intents,      *)
(* Wompi's webhook and the confirmation on return (PaymentsService), over  *)
(* the credit wallet of module Wallet.                                     *)
(*                                                                         *)
(* Wompi is external: it moves a transaction to a final status and posts   *)
(* each status to the webhook until it is answered 200, in any order.  A   *)
(* request and a delivery may be lost between two of their steps.          *)
(***************************************************************************)
EXTENDS Integers, FiniteSets

CONSTANTS
    User, Order,
    Buyer,          \* the user of each order
    CreditsOf,      \* credits of its package, frozen in the order
    InitialBonus,
    MaxIntents,     \* bound: checkout intents of an order
    Request,        \* requests of users served at the same time
    Delivery,       \* webhook deliveries handled at the same time
    MaxFaults       \* bound: requests and deliveries lost

ASSUME BuyerAssumption == Buyer \in [Order -> User]
ASSUME CreditsOfAssumption == CreditsOf \in [Order -> Nat]
ASSUME InitialBonusAssumption == InitialBonus \in Nat
ASSUME BoundsAssumption == MaxIntents \in Nat /\ MaxFaults \in Nat

VARIABLES
    order,          \* orders.status
    payment,        \* payments.status
    webhookEvents,  \* webhook_events, unique on (transaction, status)
    transaction,    \* Wompi: the transaction of each payment's reference
    mispriced,      \* Wompi: transactions of another amount or currency
    acked,          \* Wompi: events answered with 200
    wallets, balance, ledger,
    task,           \* what each request or delivery is doing
    faults

walletVars == <<wallets, balance, ledger>>
wompiVars == <<transaction, mispriced, acked>>
vars == <<order, payment, webhookEvents, wompiVars, walletVars, task, faults>>

W == INSTANCE Wallet WITH
    Reading <- {}, Cost <- {}, Credits <- {CreditsOf[o] : o \in Order},
    Adjustment <- {}, MaxAdjustments <- 0, reservation <- << >>, rows <- << >>,
    audit <- << >>, confirming <- {}, seen <- << >>

\* The n-th checkout intent of an order: createdAt grows with n.
Payment == Order \X (1..MaxIntents)

TransactionStatus == {"PENDING", "APPROVED", "DECLINED", "ERROR", "VOIDED"}

PaymentStatus == {"PENDING", "APPROVED", "DECLINED", "FAILED"}

\* TERMINAL_STATUS_MAP
Outcome == [s \in TransactionStatus \ {"PENDING"} |->
              CASE s = "ERROR" -> "FAILED" [] s = "VOIDED" -> "DECLINED" [] OTHER -> s]

\* A transaction that is final has been PENDING: Wompi posts both events.  The
\* id of an event holds its timestamp too, which tells no two of them apart: a
\* status is reached once, and a repeated delivery repeats the whole body.
Emitted(p) == IF transaction[p] = "NONE" THEN {} ELSE {"PENDING", transaction[p]}

Event == Payment \X TransactionStatus

Idle == [kind |-> "idle"]

\* "settle": the payment and the final status it is about to be given.
Task ==
    {Idle}
      \cup [kind : {"checkout"}, order : Order]
      \cup [kind : {"return"}, payment : Payment, transaction : Payment]
      \cup [kind : {"settle"}, payment : Payment, status : TransactionStatus]

Init ==
    /\ order = [o \in Order |-> "NONE"]
    /\ payment = [p \in Payment |-> "NONE"]
    /\ webhookEvents = {}
    /\ transaction = [p \in Payment |-> "NONE"]
    /\ mispriced = {}
    /\ acked = {}
    /\ wallets = {}
    /\ balance = [u \in User |-> 0]
    /\ ledger = [u \in User |-> << >>]
    /\ task = [a \in Request \cup Delivery |-> Idle]
    /\ faults = 0

Does(a, kind) == task[a].kind = kind

Become(a, t) == task' = [task EXCEPT ![a] = t]

-----------------------------------------------------------------------------
\* Requests of users

Register(u) ==
    /\ W!CreateWalletWithBonus(u)
    /\ UNCHANGED <<order, payment, webhookEvents, wompiVars, task, faults>>

\* OrdersService.create does not look at the wallet: the buyer's registration may
\* have stopped between the account and the wallet.
CreateOrder(o) ==
    /\ order[o] = "NONE"
    /\ order' = [order EXCEPT ![o] = "PENDING"]
    /\ UNCHANGED <<payment, webhookEvents, wompiVars, walletVars, task, faults>>

Unused(o) == {n \in 1..MaxIntents : payment[<<o, n>>] = "NONE"}

\* createCheckoutIntent: the order's status is read first ...
BeginCheckout(a, o) ==
    /\ a \in Request /\ Does(a, "idle")
    /\ order[o] = "PENDING"
    /\ Cardinality(Unused(o)) > Cardinality({b \in Request : Does(b, "checkout")})
    /\ Become(a, [kind |-> "checkout", order |-> o])
    /\ UNCHANGED <<order, payment, webhookEvents, wompiVars, walletVars, faults>>

\* ... and the payment inserted later, whatever the order has become.
CreatePayment(a) ==
    /\ Does(a, "checkout")
    /\ LET o == task[a].order IN
         \E n \in Unused(o) :
           /\ \A m \in Unused(o) : n <= m
           /\ payment' = [payment EXCEPT ![<<o, n>>] = "PENDING"]
    /\ Become(a, Idle)
    /\ UNCHANGED <<order, webhookEvents, wompiVars, walletVars, faults>>

\* confirmFromReturn picks the last PENDING payment of the order, for whatever
\* transaction the browser names.
BeginReturn(a, o, t) ==
    /\ a \in Request /\ Does(a, "idle")
    /\ \E n \in 1..MaxIntents :
         /\ payment[<<o, n>>] = "PENDING"
         /\ \A m \in (n + 1)..MaxIntents : payment[<<o, m>>] # "PENDING"
         /\ Become(a, [kind |-> "return", payment |-> <<o, n>>, transaction |-> t])
    /\ UNCHANGED <<order, payment, webhookEvents, wompiVars, walletVars, faults>>

\* Final and of the right amount.
Conclusive(t, s) == s \in DOMAIN Outcome /\ t \notin mispriced

\* Mutant: the transaction's reference is not compared with the payment's.
FetchAnyTransaction(a) ==
    /\ Does(a, "return")
    /\ LET p == task[a].payment
           t == task[a].transaction
       IN IF Conclusive(t, transaction[t])
          THEN Become(a, [kind |-> "settle", payment |-> p, status |-> transaction[t]])
          ELSE Become(a, Idle)
    /\ UNCHANGED <<order, payment, webhookEvents, wompiVars, walletVars, faults>>

\* Wompi's answer (none, when it cannot be reached, ends the request): its
\* reference, amount and status decide whether the payment is settled.
FetchTransaction(a) ==
    /\ Does(a, "return")
    /\ LET p == task[a].payment
           t == task[a].transaction
       IN IF t = p /\ Conclusive(t, transaction[t])
          THEN Become(a, [kind |-> "settle", payment |-> p, status |-> transaction[t]])
          ELSE Become(a, Idle)
    /\ UNCHANGED <<order, payment, webhookEvents, wompiVars, walletVars, faults>>

-----------------------------------------------------------------------------
\* Wompi

OpenTransaction(p) ==
    /\ payment[p] # "NONE" /\ transaction[p] = "NONE"
    /\ transaction' = [transaction EXCEPT ![p] = "PENDING"]
    /\ mispriced' \in {mispriced, mispriced \cup {p}}
    /\ UNCHANGED <<order, payment, webhookEvents, acked, walletVars, task, faults>>

CloseTransaction(p, s) ==
    /\ transaction[p] = "PENDING"
    /\ transaction' = [transaction EXCEPT ![p] = s]
    /\ UNCHANGED <<order, payment, webhookEvents, mispriced, acked, walletVars, task, faults>>

\* A delivery of an event: the row of webhook_events commits by itself, a
\* duplicate is answered 200 at once; so is what needs no further step (the
\* payment's row and its amount never change).
Receive(d, p, s) ==
    /\ d \in Delivery /\ Does(d, "idle")
    /\ s \in Emitted(p) /\ <<p, s>> \notin acked
    /\ webhookEvents' = webhookEvents \cup {<<p, s>>}
    /\ IF <<p, s>> \notin webhookEvents /\ Conclusive(p, s)
       THEN /\ Become(d, [kind |-> "settle", payment |-> p, status |-> s])
            /\ UNCHANGED acked
       ELSE /\ acked' = acked \cup {<<p, s>>}
            /\ UNCHANGED task
    /\ UNCHANGED <<order, payment, transaction, mispriced, walletVars, faults>>

-----------------------------------------------------------------------------
\* Settling a payment: one transaction, conditional on payments.status

\* Mutant: only an order that is still PENDING is paid and credited.
ApproveOnlyPendingOrders(p) ==
    /\ payment' = [payment EXCEPT ![p] = "APPROVED"]
    /\ IF order[p[1]] # "PENDING" THEN UNCHANGED <<order, walletVars>>
       ELSE /\ order' = [order EXCEPT ![p[1]] = "PAID"]
            /\ W!CreditPurchase(Buyer[p[1]], p[1], CreditsOf[p[1]])

\* Mutant: the balance grows, without an entry in the ledger.
ApproveWithoutEntry(p) ==
    /\ payment' = [payment EXCEPT ![p] = "APPROVED"]
    /\ order' = [order EXCEPT ![p[1]] = "PAID"]
    /\ balance' = [balance EXCEPT ![Buyer[p[1]]] = @ + CreditsOf[p[1]]]
    /\ UNCHANGED <<wallets, ledger>>

Approve(p) ==
    /\ payment' = [payment EXCEPT ![p] = "APPROVED"]
    /\ order' = [order EXCEPT ![p[1]] = "PAID"]
    /\ W!CreditPurchase(Buyer[p[1]], p[1], CreditsOf[p[1]])

\* Mutant: the order is cancelled whatever its status.
MarkTerminalAnyOrder(p, s) ==
    /\ payment' = [payment EXCEPT ![p] = Outcome[s]]
    /\ order' = [order EXCEPT ![p[1]] = "CANCELLED"]
    /\ UNCHANGED walletVars

MarkTerminal(p, s) ==
    /\ payment' = [payment EXCEPT ![p] = Outcome[s]]
    /\ order' = [order EXCEPT ![p[1]] = IF @ = "PENDING" THEN "CANCELLED" ELSE @]
    /\ UNCHANGED walletVars

Acknowledge(a, p, s) ==
    acked' = IF a \in Delivery THEN acked \cup {<<p, s>>} ELSE acked

Settle(a) ==
    /\ Does(a, "settle")
    /\ LET p == task[a].payment
           s == task[a].status
       IN /\ \/ payment[p] # "PENDING" /\ UNCHANGED <<order, payment, walletVars>>
             \/ payment[p] = "PENDING" /\ s = "APPROVED" /\ Approve(p)
             \/ payment[p] = "PENDING" /\ s # "APPROVED" /\ MarkTerminal(p, s)
          /\ Acknowledge(a, p, s)
    /\ Become(a, Idle)
    /\ UNCHANGED <<webhookEvents, transaction, mispriced, faults>>

\* purchase:<order> is taken, or creditPurchase finds no wallet: everything is
\* rolled back, the answer is a 500.
SettleFails(a) ==
    /\ Does(a, "settle")
    /\ LET p == task[a].payment IN
         /\ payment[p] = "PENDING" /\ task[a].status = "APPROVED"
         /\ W!Recorded("PURCHASE", p[1]) \/ Buyer[p[1]] \notin wallets
    /\ Become(a, Idle)
    /\ UNCHANGED <<order, payment, webhookEvents, wompiVars, walletVars, faults>>

Lose(a) ==
    /\ ~Does(a, "idle")
    /\ faults < MaxFaults
    /\ faults' = faults + 1
    /\ Become(a, Idle)
    /\ UNCHANGED <<order, payment, webhookEvents, wompiVars, walletVars>>

-----------------------------------------------------------------------------
TaskStep(a) == CreatePayment(a) \/ FetchTransaction(a) \/ Settle(a) \/ SettleFails(a)

Next ==
    \/ \E u \in User : Register(u)
    \/ \E o \in Order : CreateOrder(o)
    \/ \E a \in Request, o \in Order : BeginCheckout(a, o)
    \/ \E a \in Request, o \in Order, t \in Payment : BeginReturn(a, o, t)
    \/ \E p \in Payment : OpenTransaction(p)
    \/ \E p \in Payment, s \in TransactionStatus \ {"PENDING"} : CloseTransaction(p, s)
    \/ \E d \in Delivery, p \in Payment, s \in TransactionStatus : Receive(d, p, s)
    \/ \E a \in Request \cup Delivery : TaskStep(a)
    \/ \E a \in Request \cup Delivery : Lose(a)

Spec == Init /\ [][Next]_vars

\* What has begun goes on; Wompi repeats an event until it is answered.
Fairness ==
    /\ \A a \in Request \cup Delivery : WF_vars(TaskStep(a))
    /\ \A e \in Event : WF_vars(\E d \in Delivery : Receive(d, e[1], e[2]))

FairSpec == Spec /\ Fairness

-----------------------------------------------------------------------------
\* Properties

TypeOK ==
    /\ order \in [Order -> {"NONE", "PENDING", "PAID", "CANCELLED"}]
    /\ payment \in [Payment -> PaymentStatus \cup {"NONE"}]
    /\ webhookEvents \subseteq Event
    /\ transaction \in [Payment -> TransactionStatus \cup {"NONE"}]
    /\ mispriced \subseteq Payment
    /\ acked \subseteq webhookEvents
    /\ W!TypeOK
    /\ task \in [Request \cup Delivery -> Task]
    /\ faults \in 0..MaxFaults

\* approvePayment's guard and the key purchase:<order>: however many intents,
\* deliveries and returns an order has, one payment of it at most is APPROVED,
\* exactly then is it PAID and the buyer credited, and a declined payment
\* beside it does not take that back.
PaidOnce ==
    \A o \in Order :
        LET approved == {p \in Payment : p[1] = o /\ payment[p] = "APPROVED"} IN
            /\ Cardinality(approved) <= 1
            /\ (order[o] = "PAID") <=> (approved # {})
            /\ W!Recorded("PURCHASE", o) <=> (approved # {})

\* "Nunca se acredita saldo basandose en la redireccion del navegador"
\* (PLAN:640): a payment is settled only as Wompi's own transaction of that
\* reference was, for the right amount.
SettledAsInWompi ==
    \A p \in Payment :
        payment[p] \in PaymentStatus \ {"PENDING"} =>
            Conclusive(p, transaction[p]) /\ payment[p] = Outcome[transaction[p]]

\* Purchases move credits only by WalletService.creditPurchase, within one step.
ImplementsWallet == W!Spec

\* The buyer of an order that Wompi approves is credited, also after the order
\* was CANCELLED by an earlier declined attempt, when no handler is lost and the
\* buyer had a wallet before the approval: without one the settlement rolls back
\* and the repeated event is taken for a duplicate.
ApprovedIsCredited ==
    \A p \in Payment :
        [](Buyer[p[1]] \in wallets /\ transaction[p] # "APPROVED"
             => [](transaction[p] = "APPROVED" /\ p \notin mispriced
                     => <>(W!Recorded("PURCHASE", p[1]) \/ faults > 0)))

\* "Un pago aprobado acredita exactamente una vez" (PLAN:1036), "incluso si
\* Wompi reintenta la entrega" (payments.service.ts:161): an approval that has
\* been answered 200 is credited in the end, when its buyer had a wallet.
AcknowledgedIsCredited ==
    \A p \in Payment :
        [](Buyer[p[1]] \in wallets /\ transaction[p] # "APPROVED"
             => [](<<p, "APPROVED">> \in acked /\ p \notin mispriced
                     => <>W!Recorded("PURCHASE", p[1])))

\* The same words, of any buyer: when an approval has been answered 200, nothing
\* was lost and nothing is being settled, its order is credited.
AcceptedPurchaseIsCredited ==
    \A p \in Payment :
        /\ <<p, "APPROVED">> \in acked /\ p \notin mispriced
        /\ faults = 0 /\ \A a \in Request \cup Delivery : Does(a, "idle")
        => W!Recorded("PURCHASE", p[1])
=============================================================================
