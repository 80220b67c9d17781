------------------------------- MODULE MCTarot -------------------------------
(***************************************************************************)
(* Instances of Tarot for TLC.                                             *)
(***************************************************************************)
EXTENDS Tarot
=============================================================================
