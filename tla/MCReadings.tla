----------------------------- MODULE MCReadings -----------------------------
(***************************************************************************)
(* Instances of Readings for TLC.                                          *)
(***************************************************************************)
EXTENDS Readings, TLC

CONSTANTS u1, r1, r2

OneOwner == (r1 :> u1) @@ (r2 :> u1)

OnlyR1 == r1 :> u1

NoFaults == [f \in FaultKind |-> 0]

OneOfEach == [f \in FaultKind |-> 1]

\* Enough for a job to stall more often than MaxStalled = 1 allows, also while
\* the run that lost its lock goes on.
Stalls == [f \in FaultKind |->
             CASE f = "crash" -> 2 [] f = "lock" -> 1 [] OTHER -> 0]

Symmetry == Permutations(Request) \cup Permutations(Worker)
=============================================================================
