-------------------------------- MODULE Tarot --------------------------------
(***************************************************************************)
(* What a tarot reading is made of: the answers to its form                *)
(* (ReadingsService.updateInputs, validateReadingAnswers), the cards drawn *)
(* at its submission (submitTarotReading, TarotService with its cached     *)
(* deck, DrawEngineService), what the worker reads of both to have them    *)
(* interpreted (TarotReadingProcessor) and what the user is shown          *)
(* (toReadingDetail), for one reading.                                     *)
(*                                                                         *)
(* The seed script inserts the deck and then the spread row by row while   *)
(* the API answers.  Credits, jobs and attempts are those of Readings.     *)
(***************************************************************************)
EXTENDS Integers, FiniteSets

CONSTANTS
    DeckSize,       \* cards of the deck that the seed inserts
    SpreadSize,     \* positions of the spread that the seed inserts
    Request,        \* HTTP requests served at the same time
    Worker,         \* runs of the reading's jobs at the same time
    MaxRetries      \* bound: retries of the reading

ASSUME SizesAssumption == SpreadSize \in Nat \ {0} /\ DeckSize \in Nat
ASSUME RetriesAssumption == MaxRetries \in Nat

VARIABLES
    seeded,         \* rows the seed script has inserted
    cache,          \* tarot:deck:<code> in Redis
    status,         \* readings.status, "NONE" without a row
    hasSpread,      \* readings.spreadId
    answer,         \* reading_inputs: the question
    draws,          \* tarot_draws: the card of each position drawn
    executions,     \* what was interpreted in the COMPLETED rows of ai_executions
    retries,
    req,            \* what each request is doing
    run             \* what each worker is doing

readingVars == <<status, hasSpread, answer, draws, executions, retries>>
vars == <<seeded, cache, readingVars, req, run>>

-----------------------------------------------------------------------------
\* The seed (prisma/seed.ts): the deck, its cards, the spread, its positions.

DeckExists == seeded > 0

Cards == IF seeded > DeckSize THEN DeckSize ELSE IF DeckExists THEN seeded - 1 ELSE 0

SpreadExists == seeded > DeckSize + 1

Positions == IF SpreadExists THEN seeded - DeckSize - 2 ELSE 0

\* The deck, or its next card.
SeedDeck ==
    /\ seeded < DeckSize + 1
    /\ seeded' = seeded + 1
    /\ UNCHANGED <<cache, readingVars, req, run>>

\* The spread, or its next position.
SeedSpread ==
    /\ seeded \in DeckSize + 1..DeckSize + 1 + SpreadSize
    /\ seeded' = seeded + 1
    /\ UNCHANGED <<cache, readingVars, req, run>>

-----------------------------------------------------------------------------
\* The form

\* Any JSON value may come as an answer.
Value == [type : {"null", "number"}, text : {""}] \cup
         [type : {"string"}, text : {"", "short", "question", "another"}]

NoAnswer == [type |-> "none", text |-> ""]

\* allowed: the texts within minLength, maxLength and options.
Question == [required |-> TRUE, allowed |-> {"question", "another"}]

\* Bounds and options are for strings; of anything else only its absence counts.
Accepts(field, value) ==
    LET isEmpty == value.type = "null" \/ (value.type = "string" /\ value.text = "") IN
    /\ isEmpty => ~field.required
    /\ ~isEmpty /\ value.type = "string" => value.text \in field.allowed

-----------------------------------------------------------------------------
\* The deck and the draw

NoCache == [state |-> "empty"]

\* ttl: the key expires (SET ... EX).
Cache == {NoCache} \cup [state : {"set"}, cards : 0..DeckSize, ttl : BOOLEAN]

\* Mutant: a card stays in the pool.
DrawWithReplacement(cards, positions) == [1..positions -> 1..cards]

\* One card for each position, none twice; whatever randomInt gives.
Draw(cards, positions) ==
    {d \in [1..positions -> 1..cards] : \A i, j \in 1..positions : d[i] = d[j] => i = j}

NoDraws == << >>

Draws == UNION {[1..n -> 1..DeckSize] : n \in 0..SpreadSize}

Execution == [question : {"", "question", "another"}, draws : Draws]

NoRequest == [kind |-> "idle"]

\* positions, cards: what the request has read of the spread and of the deck.
Requests == {NoRequest} \cup [kind : {"answer"}] \cup
    [kind : {"submit", "daily"}, pc : {"checked", "missed", "fetched", "ready"},
     positions : 0..SpreadSize, cards : 0..DeckSize]

NoRun == [pc |-> "idle"]

Runs == {NoRun} \cup [pc : {"loaded"}, work : Execution] \cup [pc : {"save"}]

Init ==
    /\ seeded = 0
    /\ cache = NoCache
    /\ status = "NONE" /\ hasSpread = FALSE
    /\ answer = NoAnswer
    /\ draws = NoDraws
    /\ executions = << >>
    /\ retries = 0
    /\ req = [q \in Request |-> NoRequest]
    /\ run = [w \in Worker |-> NoRun]

\* The spread is looked for by the code of the service, once.
CreateReading ==
    /\ status = "NONE"
    /\ status' = "DRAFT"
    /\ hasSpread' = SpreadExists
    /\ UNCHANGED <<seeded, cache, answer, draws, executions, retries, req, run>>

-----------------------------------------------------------------------------
\* updateInputs

End(q) == req' = [req EXCEPT ![q] = NoRequest]

\* Mutant: the status is not looked at.
BeginAnswerAnyTime(q) ==
    /\ req[q] = NoRequest /\ status # "NONE"
    /\ req' = [req EXCEPT ![q] = [kind |-> "answer"]]
    /\ UNCHANGED <<seeded, cache, readingVars, run>>

\* findOwnedDraft
BeginAnswer(q) ==
    /\ req[q] = NoRequest /\ status = "DRAFT"
    /\ req' = [req EXCEPT ![q] = [kind |-> "answer"]]
    /\ UNCHANGED <<seeded, cache, readingVars, run>>

\* validateReadingAnswers, then the upsert, whatever the status is by now.
SaveAnswer(q) ==
    /\ req[q].kind = "answer"
    /\ \E value \in Value :
         answer' = IF Accepts(Question, value) THEN value ELSE answer
    /\ End(q)
    /\ UNCHANGED <<seeded, cache, status, hasSpread, draws, executions, retries, run>>

-----------------------------------------------------------------------------
\* submitTarotReading

At(q, pc) == req[q].kind \in {"submit", "daily"} /\ req[q].pc = pc

\* cache.get: what is cached, or that nothing is.  An empty deck counts as cached.
LookUpDeck(request) ==
    IF cache = NoCache THEN [request EXCEPT !.pc = "missed"]
    ELSE [request EXCEPT !.pc = "ready", !.cards = cache.cards]

\* findOwnedDraft
BeginSubmit(q) ==
    /\ req[q] = NoRequest /\ status = "DRAFT"
    /\ req' = [req EXCEPT ![q] = [kind |-> "submit", pc |-> "checked",
                                  positions |-> 0, cards |-> 0]]
    /\ UNCHANGED <<seeded, cache, readingVars, run>>

\* There must be answers and a spread; then the deck is looked for in the cache.
PrepareSubmit(q) ==
    /\ At(q, "checked")
    /\ IF answer = NoAnswer \/ ~hasSpread THEN End(q)
       ELSE req' = [req EXCEPT ![q] = LookUpDeck([@ EXCEPT !.positions = Positions])]
    /\ UNCHANGED <<seeded, cache, readingVars, run>>

\* getTodaysCard, of any user: the deck is looked for before there is a spread.
BeginDaily(q) ==
    /\ req[q] = NoRequest
    /\ req' = [req EXCEPT ![q] = LookUpDeck([kind |-> "daily", pc |-> "checked",
                                             positions |-> 0, cards |-> 0])]
    /\ UNCHANGED <<seeded, cache, readingVars, run>>

\* Without a deck, 404.
FetchDeck(q) ==
    /\ At(q, "missed")
    /\ IF DeckExists THEN req' = [req EXCEPT ![q].pc = "fetched", ![q].cards = Cards]
       ELSE End(q)
    /\ UNCHANGED <<seeded, cache, readingVars, run>>

\* Mutant: the deck is cached until it is invalidated.
CacheDeckForEver(q) ==
    /\ At(q, "fetched")
    /\ cache' = [state |-> "set", cards |-> req[q].cards, ttl |-> FALSE]
    /\ req' = [req EXCEPT ![q].pc = "ready"]
    /\ UNCHANGED <<seeded, readingVars, run>>

CacheDeck(q) ==
    /\ At(q, "fetched")
    /\ cache' = [state |-> "set", cards |-> req[q].cards, ttl |-> TRUE]
    /\ req' = [req EXCEPT ![q].pc = "ready"]
    /\ UNCHANGED <<seeded, readingVars, run>>

ExpireDeck ==
    /\ cache # NoCache /\ cache.ttl
    /\ cache' = NoCache
    /\ UNCHANGED <<seeded, readingVars, req, run>>

\* buildTodaysCard, or its failure when the deck is empty; nothing here changes.
ServeDaily(q) ==
    /\ At(q, "ready") /\ req[q].kind = "daily"
    /\ End(q)
    /\ UNCHANGED <<seeded, cache, readingVars, run>>

\* No positions, or fewer cards than positions: nothing is drawn.
RefuseDraw(q) ==
    /\ At(q, "ready") /\ req[q].kind = "submit"
    /\ req[q].positions = 0 \/ req[q].positions > req[q].cards
    /\ End(q)
    /\ UNCHANGED <<seeded, cache, readingVars, run>>

\* Mutant: no reservation tells that the reading has been submitted.
CommitEverySubmit(q) ==
    /\ At(q, "ready") /\ req[q].kind = "submit"
    /\ req[q].positions \in 1..req[q].cards
    /\ draws' \in Draw(req[q].cards, req[q].positions)
    /\ status' = "PENDING"
    /\ End(q)
    /\ UNCHANGED <<seeded, cache, hasSpread, answer, executions, retries, run>>

\* The draw and the transaction; the reservation of an earlier submission rolls
\* it back.
CommitSubmit(q) ==
    /\ At(q, "ready") /\ req[q].kind = "submit"
    /\ req[q].positions \in 1..req[q].cards
    /\ IF status = "DRAFT"
       THEN status' = "PENDING" /\ draws' \in Draw(req[q].cards, req[q].positions)
       ELSE UNCHANGED <<status, draws>>
    /\ End(q)
    /\ UNCHANGED <<seeded, cache, hasSpread, answer, executions, retries, run>>

Retry ==
    /\ status = "FAILED" /\ retries < MaxRetries
    /\ status' = "PENDING" /\ retries' = retries + 1
    /\ UNCHANGED <<seeded, cache, hasSpread, answer, draws, executions, req, run>>

-----------------------------------------------------------------------------
\* TarotReadingProcessor

\* Only a text is a question.
QuestionOf(value) == IF value.type = "string" THEN value.text ELSE ""

\* The job runs once, or again after a stall or a retry.  PENDING stands for
\* PROCESSING as well.
Load(w) ==
    /\ run[w] = NoRun /\ status \in {"PENDING", "FAILED"}
    /\ run' = [run EXCEPT ![w] =
                 [pc |-> "loaded", work |-> [question |-> QuestionOf(answer), draws |-> draws]]]
    /\ UNCHANGED <<seeded, cache, readingVars, req>>

\* aiOrchestrator.execute: the row of a completed execution, newest first.
Interpret(w) ==
    /\ run[w].pc = "loaded"
    /\ executions' = <<run[w].work>>
    /\ run' = [run EXCEPT ![w] = [pc |-> "save"]]
    /\ UNCHANGED <<seeded, cache, status, hasSpread, answer, draws, retries, req>>

Complete(w) ==
    /\ run[w].pc = "save"
    /\ status' = "COMPLETED"
    /\ run' = [run EXCEPT ![w] = NoRun]
    /\ UNCHANGED <<seeded, cache, hasSpread, answer, draws, executions, retries, req>>

\* The execution failed, and the attempts are over.
Fail(w) ==
    /\ run[w].pc = "loaded"
    /\ status' = "FAILED"
    /\ run' = [run EXCEPT ![w] = NoRun]
    /\ UNCHANGED <<seeded, cache, hasSpread, answer, draws, executions, retries, req>>

\* The process stops, or the next query fails.
LoseRequest(q) ==
    /\ req[q] # NoRequest
    /\ End(q)
    /\ UNCHANGED <<seeded, cache, readingVars, run>>

LoseRun(w) ==
    /\ run[w] # NoRun
    /\ run' = [run EXCEPT ![w] = NoRun]
    /\ UNCHANGED <<seeded, cache, readingVars, req>>

DrawingStep(q) ==
    \/ BeginSubmit(q) \/ PrepareSubmit(q) \/ BeginDaily(q) \/ FetchDeck(q) \/ CacheDeck(q)
    \/ ServeDaily(q) \/ RefuseDraw(q) \/ CommitSubmit(q)

Next ==
    \/ SeedDeck \/ SeedSpread \/ ExpireDeck \/ CreateReading \/ Retry
    \/ \E q \in Request : BeginAnswer(q) \/ SaveAnswer(q) \/ DrawingStep(q) \/ LoseRequest(q)
    \/ \E w \in Worker : Load(w) \/ Interpret(w) \/ Complete(w) \/ Fail(w) \/ LoseRun(w)

\* Redis expires its keys.
Spec == Init /\ [][Next]_vars /\ WF_vars(ExpireDeck)

-----------------------------------------------------------------------------
\* What GET /readings/:id shows: the newest completed execution, if any.

Detail == [status |-> status, answer |-> answer, draws |-> draws, result |-> executions]

\* Properties

TypeOK ==
    /\ seeded \in 0..DeckSize + 2 + SpreadSize
    /\ cache \in Cache
    /\ status \in {"NONE", "DRAFT", "PENDING", "COMPLETED", "FAILED"}
    /\ hasSpread \in BOOLEAN
    /\ answer \in Value \cup {NoAnswer}
    /\ draws \in Draws
    /\ executions \in {<< >>} \cup {<<e>> : e \in Execution}
    /\ retries \in 0..MaxRetries
    /\ req \in [Request -> Requests]
    /\ run \in [Worker -> Runs]

\* The cards under an interpretation are the ones that were interpreted: a
\* second submission that was under way draws again, but nothing of it is kept,
\* and retries and stalled runs do not draw.
InterpretedAsDrawn ==
    Detail.result # << >> => Detail.result[1].draws = Detail.draws

\* A reading that was submitted has cards, in positions of its spread, no card in
\* two of them and none that is not in the deck, though the deck and the spread it
\* was drawn from may have been cached or read half seeded.
DrawnFairly ==
    status \notin {"NONE", "DRAFT"} =>
        /\ DOMAIN draws \in {1..n : n \in 1..Positions}
        /\ \A i, j \in DOMAIN draws : draws[i] \in 1..Cards /\ (draws[i] = draws[j] => i = j)

\* "Esta lectura ya fue enviada y no se puede modificar" (readings.service.ts:579):
\* of the answers only those that were being saved when the reading was submitted
\* still come, so that they settle.
AnswersSettle == []<>(status \in {"NONE", "DRAFT"}) \/ <>[][UNCHANGED answer]_answer

\* A deck that was cached half seeded, which refuses or narrows every draw, goes.
StaleDeckGoes ==
    (cache # NoCache /\ cache.cards < Cards) ~> (cache = NoCache \/ cache.cards = Cards)

\* The same words, without those in between: what was interpreted is the answer
\* that the user sees with it.
AnsweredAsAsked ==
    Detail.result # << >> => Detail.result[1].question = QuestionOf(Detail.answer)

\* The form of the seed requires a question of 5 to 500 characters: an
\* interpretation has one to answer.
HasQuestion == Detail.result # << >> => Detail.result[1].question # ""
=============================================================================
