----------------------------- MODULE AIExecution -----------------------------
(***************************************************************************)
(* What AiOrchestratorService.execute() promises whoever calls it: an      *)
(* execution leaves one row in ai_executions at most, a row is never       *)
(* written again, and the caller is told what the row says and nothing     *)
(* that no row says.  An execution may also end in an exception or with    *)
(* its process, with or without its row.                                   *)
(***************************************************************************)
CONSTANT Call       \* the executions

VARIABLES
    row,            \* ai_executions: the status of each execution's row, or "none"
    told            \* the status the caller has been given, or "none"

vars == <<row, told>>

Status == {"COMPLETED", "FAILED"}

Init ==
    /\ row = [c \in Call |-> "none"]
    /\ told = [c \in Call |-> "none"]

Record(c, status) ==
    /\ row[c] = "none"
    /\ row' = [row EXCEPT ![c] = status]
    /\ UNCHANGED told

Tell(c) ==
    /\ row[c] # "none" /\ told[c] = "none"
    /\ told' = [told EXCEPT ![c] = row[c]]
    /\ UNCHANGED row

Next == \E c \in Call : Tell(c) \/ \E status \in Status : Record(c, status)

Spec == Init /\ [][Next]_vars
=============================================================================
