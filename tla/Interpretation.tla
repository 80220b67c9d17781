---------------------------- MODULE Interpretation ----------------------------
(***************************************************************************)
(* One execution of an AI task: AiOrchestratorService.execute() with the   *)
(* OpenAiProvider, the guardrails, the registry of tasks and their output  *)
(* schemas.  Calls run at the same time: the workers' for readings and     *)
(* palm images, and the administrators' tests of a prompt.                 *)
(*                                                                         *)
(* A text is what the guardrails and the schemas tell apart in it; what    *)
(* the provider answers, and whether it answers, is up to it.              *)
(***************************************************************************)
EXTENDS Integers, FiniteSets

CONSTANTS
    Call,           \* the executions
    MaxTechnicalRetries \* AI_MAX_TECHNICAL_RETRIES (ai.constants.ts)

ASSUME RetriesAssumption == MaxTechnicalRetries \in Nat

VARIABLES
    input,          \* what each call asks for
    pc,             \* how far each call has come
    attempt,        \* completions asked of the provider for each call
    timer,          \* calls whose timeout is armed (setTimeout in complete)
    content,        \* the answer of the provider
    row,            \* ai_executions
    told            \* what execute() has returned

executionVars == <<input, pc, attempt, timer, content, row, told>>

-----------------------------------------------------------------------------
\* Tasks and their schemas (task-registry.ts, tasks/)

TarotTask == {"TAROT_THREE", "TAROT_FIVE", "TAROT_TEN"}

PalmTask == {"PALM_READING", "PALM_LEGIBILITY"}

\* An administrator may create a prompt with any other code.
Task == TarotTask \cup PalmTask \cup {"OTHER"}

Registered == TarotTask \cup PalmTask

CardCount == {0, 1, 3, 5, 10}

\* kind: the shape of the JSON, if it is JSON; filled: no text or list of it is
\* empty; cards: the entries of its list of cards; apart: each of them is for a
\* position of its own; raw: the text of the answer matches a pattern of
\* output-guardrail.ts; shown: what is left of it once it is parsed does.  Neither
\* follows from the other: an escape of JSON hides a text from a pattern, and the
\* schemas drop the keys they do not know.
Content ==
    [kind : {"text", "palm", "legibility"}, filled : BOOLEAN, cards : {0}, apart : {TRUE},
     raw : BOOLEAN, shown : BOOLEAN] \cup
    [kind : {"cards"}, filled : BOOLEAN, cards : CardCount, apart : BOOLEAN,
     raw : BOOLEAN, shown : BOOLEAN]

NoContent == [kind |-> "none"]

TarotThreeSchema(c) == c.kind = "cards" /\ c.filled /\ c.cards >= 1

TarotFiveSchema(c) == c.kind = "cards" /\ c.filled /\ c.cards = 5

TarotTenSchema(c) == c.kind = "cards" /\ c.filled /\ c.cards = 10

PalmReadingSchema(c) == c.kind = "palm" /\ c.filled

PalmLegibilitySchema(c) == c.kind = "legibility" /\ c.filled

Fits(task, c) ==
    \/ task = "TAROT_THREE" /\ TarotThreeSchema(c)
    \/ task = "TAROT_FIVE" /\ TarotFiveSchema(c)
    \/ task = "TAROT_TEN" /\ TarotTenSchema(c)
    \/ task = "PALM_READING" /\ PalmReadingSchema(c)
    \/ task = "PALM_LEGIBILITY" /\ PalmLegibilitySchema(c)

\* containsProhibitedContent: of the raw answer, not of what was parsed.
Prohibited(c) == c.raw

-----------------------------------------------------------------------------
\* What is asked.  text: what the user wrote and the prompt will hold ("risky"
\* text matches a pattern of risk-guardrail.ts); checked: riskCheckText.

NoInput == [task |-> "none"]

\* TarotReadingProcessor checks the question, which is all of the variables
\* that the user wrote.
TarotInputs == {[task |-> t, text |-> x, checked |-> x] : t \in TarotTask, x \in {"safe", "risky"}}

\* The palms' processors send images and no text.
PalmInputs == {[task |-> t, text |-> "none", checked |-> "none"] : t \in PalmTask}

\* Mutant: a test of a prompt checks nothing.
TestInputsUnchecked ==
    {[task |-> t, text |-> x, checked |-> "none"] : t \in Task, x \in {"safe", "risky"}}

\* An administrator's test checks the values of all the variables.
TestInputs == {[task |-> t, text |-> x, checked |-> x] : t \in Task, x \in {"safe", "risky"}}

\* detectHighRiskContent
HighRisk(text) == text = "risky"

Inputs == TarotInputs \cup PalmInputs \cup TestInputs

ExecutionInit ==
    /\ input = [c \in Call |-> NoInput]
    /\ pc = [c \in Call |-> "idle"]
    /\ attempt = [c \in Call |-> 0]
    /\ timer = {}
    /\ content = [c \in Call |-> NoContent]
    /\ row = [c \in Call |-> "none"]
    /\ told = [c \in Call |-> "none"]

Goto(c, where) == pc' = [pc EXCEPT ![c] = where]

-----------------------------------------------------------------------------
\* execute()

Execute(c) ==
    /\ pc[c] = "idle"
    /\ \E i \in Inputs : input' = [input EXCEPT ![c] = i]
    /\ Goto(c, "begun")
    /\ UNCHANGED <<attempt, timer, content, row, told>>

\* No validator for the task: an exception.  Risky text: a row, and no call.
CheckInput(c) ==
    /\ pc[c] = "begun"
    /\ Goto(c, IF input[c].task \notin Registered THEN "thrown"
               ELSE IF HighRisk(input[c].checked) THEN "reject" ELSE "ask")
    /\ UNCHANGED <<input, attempt, timer, content, row, told>>

\* Mutant: no timeout is armed.
AskWithoutTimeout(c) ==
    /\ pc[c] = "ask"
    /\ attempt' = [attempt EXCEPT ![c] = @ + 1]
    /\ Goto(c, "asking")
    /\ UNCHANGED <<input, timer, content, row, told>>

\* provider.complete: the request goes out, the timer runs.
Ask(c) ==
    /\ pc[c] = "ask"
    /\ attempt' = [attempt EXCEPT ![c] = @ + 1]
    /\ timer' = timer \cup {c}
    /\ Goto(c, "asking")
    /\ UNCHANGED <<input, content, row, told>>

\* An answer with some content, in time.
Answer(c, answer) ==
    /\ pc[c] = "asking"
    /\ content' = [content EXCEPT ![c] = answer]
    /\ timer' = timer \ {c}
    /\ Goto(c, "answered")
    /\ UNCHANGED <<input, attempt, row, told>>

\* An attempt has thrown: another one, or none is left.
FailAttempt(c) ==
    /\ timer' = timer \ {c}
    /\ Goto(c, IF attempt[c] <= MaxTechnicalRetries THEN "ask" ELSE "reject")
    /\ UNCHANGED <<input, attempt, content, row, told>>

\* A network failure, an error of the API, or an answer without content.
ProviderFails(c) == pc[c] = "asking" /\ FailAttempt(c)

\* The timer aborts the request.
TimeOut(c) == pc[c] = "asking" /\ c \in timer /\ FailAttempt(c)

\* handleResponse: JSON, then the schema, then the guardrail of the output.  An
\* answer that is refused is not asked for again.
Judge(c) ==
    /\ pc[c] = "answered"
    /\ Goto(c, IF Fits(input[c].task, content[c]) /\ ~Prohibited(content[c])
               THEN "complete" ELSE "reject")
    /\ UNCHANGED <<input, attempt, timer, content, row, told>>

\* Mutant: the caller is told before the row is written.
TellFirst(c) ==
    /\ pc[c] \in {"complete", "reject"}
    /\ told' = [told EXCEPT ![c] = IF pc[c] = "complete" THEN "COMPLETED" ELSE "FAILED"]
    /\ Goto(c, "done")
    /\ UNCHANGED <<input, attempt, timer, content, row>>

\* createExecution: the row of an execution that was refused or completed.
CreateExecution(c) ==
    /\ pc[c] \in {"complete", "reject"}
    /\ row' = [row EXCEPT ![c] = IF pc[c] = "complete" THEN "COMPLETED" ELSE "FAILED"]
    /\ Goto(c, "recorded")
    /\ UNCHANGED <<input, attempt, timer, content, told>>

Return(c) ==
    /\ pc[c] = "recorded"
    /\ told' = [told EXCEPT ![c] = row[c]]
    /\ Goto(c, "done")
    /\ UNCHANGED <<input, attempt, timer, content, row>>

\* A query of the database throws, or the process stops, between two steps.
Lose(c) ==
    /\ pc[c] \notin {"idle", "thrown", "done"}
    /\ timer' = timer \ {c}
    /\ Goto(c, "thrown")
    /\ UNCHANGED <<input, attempt, content, row, told>>

Step(c) ==
    \/ CheckInput(c) \/ Ask(c) \/ TimeOut(c) \/ Judge(c) \/ CreateExecution(c) \/ Return(c)

ExecutionNext == \E c \in Call :
    \/ Execute(c) \/ Step(c) \/ ProviderFails(c) \/ Lose(c)
    \/ \E answer \in Content : Answer(c, answer)

\* What has begun goes on, and timers fire; the provider owes no answer.
ExecutionSpec ==
    /\ ExecutionInit /\ [][ExecutionNext]_executionVars
    /\ \A c \in Call : WF_executionVars(Step(c))

Promise == INSTANCE AIExecution

-----------------------------------------------------------------------------
\* Properties

ExecutionTypeOK ==
    /\ input \in [Call -> Inputs \cup {NoInput}]
    /\ pc \in [Call -> {"idle", "begun", "ask", "asking", "answered", "complete", "reject",
                        "recorded", "done", "thrown"}]
    /\ attempt \in [Call -> 0..MaxTechnicalRetries + 1]
    /\ timer \subseteq Call
    /\ content \in [Call -> Content \cup {NoContent}]
    /\ row \in [Call -> {"none", "COMPLETED", "FAILED"}]
    /\ told \in [Call -> {"none", "COMPLETED", "FAILED"}]

\* execute() keeps its promise to the processors, whose settlement of credits
\* relies on it (Readings.Execute): one row, and the answer that the row holds.
ImplementsAIExecution == Promise!Spec

\* "Cortar antes de invocar al proveedor" (risk-guardrail.ts): no text at risk
\* is sent, by whichever caller, at the first attempt or a later one.
RiskyTextStaysHere ==
    \A c \in Call : attempt[c] > 0 => ~HighRisk(input[c].text)

Positions(task) == CASE task = "TAROT_THREE" -> 3 [] task = "TAROT_FIVE" -> 5
                     [] task = "TAROT_TEN" -> 10

\* "El campo "cards" debe tener exactamente una entrada por cada carta de la
\* tirada" (seed-data/prompts.ts).  It does not hold: the schema of three cards
\* takes one entry or more, and those of the deeper spreads count entries and do
\* not look at their positions.
EveryCardIsInterpreted ==
    \A c \in Call : row[c] = "COMPLETED" /\ input[c].task \in TarotTask =>
        content[c].cards = Positions(input[c].task) /\ content[c].apart

\* "fails when the output contains guardrail-prohibited content"
\* (ai-orchestrator.service.spec.ts:227): the output a user is shown holds
\* nothing that the guardrail refuses.  It does not hold: the guardrail reads the
\* text of the answer, and the output is what was parsed from it.
NothingProhibitedIsShown ==
    \A c \in Call : row[c] = "COMPLETED" => ~content[c].shown

\* An execution ends, though the provider may never answer: the timer of each
\* attempt sees to it.
ExecutionEnds == \A c \in Call : pc[c] = "begun" ~> pc[c] \in {"done", "thrown"}
=============================================================================
