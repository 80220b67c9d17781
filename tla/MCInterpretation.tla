--------------------------- MODULE MCInterpretation ---------------------------
(***************************************************************************)
(* Instances of Interpretation for TLC.                                    *)
(***************************************************************************)
EXTENDS Interpretation
=============================================================================
