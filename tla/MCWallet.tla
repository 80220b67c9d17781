------------------------------ MODULE MCWallet ------------------------------
(***************************************************************************)
(* Wallet instances for TLC.  Two readings share one wallet, so that their *)
(* transactions interleave on its balance; a reading may cost nothing (an  *)
(* unlock earned with ads) or two credits, the bonus pays for one of them. *)
(***************************************************************************)
EXTENDS Wallet, TLC

MCCost == {0, 2}

MCCredits == {3}

MCAdjustment == {-2, 0, 1}

Symmetry == Permutations(Reading)
=============================================================================
