---------------------------- MODULE CreditAccount ----------------------------
(***************************************************************************)
(* What the wallet promises its users, without wallets, ledgers or         *)
(* reservations: credits are granted, held for a reading, and a hold ends  *)
(* once, captured or refunded in full to the user it was taken from.       *)
(* Nothing else moves credits and nobody spends what is not there.         *)
(***************************************************************************)
EXTENDS Integers

CONSTANTS User, Reading, Grant, Cost

VARIABLES available, hold

Open(r) == hold[r].state = "held"

NoHold == [state |-> "none"]

Init ==
    /\ available = [u \in User |-> 0]
    /\ hold = [r \in Reading |-> NoHold]

\* A bonus, a purchase or an administrator's adjustment (which may be negative).
GrantCredits(u, n) ==
    /\ available[u] + n >= 0
    /\ available' = [available EXCEPT ![u] = @ + n]
    /\ UNCHANGED hold

HoldCredits(u, r, n) ==
    /\ hold[r] = NoHold
    /\ available[u] >= n
    /\ available' = [available EXCEPT ![u] = @ - n]
    /\ hold' = [hold EXCEPT ![r] = [state |-> "held", user |-> u, amount |-> n]]

Capture(r) ==
    /\ Open(r)
    /\ hold' = [hold EXCEPT ![r].state = "captured"]
    /\ UNCHANGED available

Refund(r) ==
    /\ Open(r)
    /\ available' = [available EXCEPT ![hold[r].user] = @ + hold[r].amount]
    /\ hold' = [hold EXCEPT ![r].state = "refunded"]

Next ==
    \/ \E u \in User, n \in Grant : GrantCredits(u, n)
    \/ \E u \in User, r \in Reading, n \in Cost : HoldCredits(u, r, n)
    \/ \E r \in Reading : Capture(r) \/ Refund(r)

Spec == Init /\ [][Next]_<<available, hold>>
=============================================================================
