----------------------------- MODULE MCRewards ------------------------------
(***************************************************************************)
(* Instances of Rewards for TLC: two ads for a flash offer, as in the      *)
(* code, and for a reading; the first day's card is free.                  *)
(***************************************************************************)
EXTENDS Rewards, TLC

RequiredAds == [t \in RewardType |-> IF t = "DAILY_CARD" THEN 1 ELSE 2]

Symmetry == Permutations(Session) \cup Permutations(Order) \cup Permutations(Task)
=============================================================================
