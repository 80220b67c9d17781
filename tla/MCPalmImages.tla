---------------------------- MODULE MCPalmImages ----------------------------
(***************************************************************************)
(* Instances of PalmImages for TLC.                                        *)
(***************************************************************************)
EXTENDS PalmImages, TLC

Symmetry == Permutations(Image) \cup Permutations(Request) \cup Permutations(Worker)
=============================================================================
