----------------------------- MODULE MCPayments -----------------------------
(***************************************************************************)
(* Instances of Payments for TLC: one buyer, one order of two credits.     *)
(***************************************************************************)
EXTENDS Payments, TLC

CONSTANTS u1, o1

Buyers == o1 :> u1

TwoCredits == o1 :> 2
=============================================================================
