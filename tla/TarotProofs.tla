----------------------------- MODULE TarotProofs -----------------------------
(***************************************************************************)
(* Theorems of Tarot for every deck and spread, every set of requests and  *)
(* of workers, and any number of retries.                                  *)
(***************************************************************************)
EXTENDS Tarot, TLAPS

Drawn == UNION {[1..n -> Nat] : n \in Nat}

Work == [question : {"", "short", "question", "another"}, draws : Drawn]

Drawing == [kind : {"submit", "daily"}, pc : {"checked", "missed", "fetched", "ready"},
            positions : Nat, cards : Nat]

\* The part of TypeOK the arguments need.
Typed ==
    /\ seeded \in Nat
    /\ cache \in {NoCache} \cup [state : {"set"}, cards : Nat, ttl : BOOLEAN]
    /\ answer \in Value \cup {NoAnswer}
    /\ draws \in Drawn
    /\ executions \in {<< >>} \cup {<<e>> : e \in Work}
    /\ req \in [Request -> {NoRequest} \cup [kind : {"answer"}] \cup Drawing]
    /\ run \in [Worker -> {NoRun} \cup [pc : {"loaded"}, work : Work] \cup [pc : {"save"}]]

Submitted == status \notin {"NONE", "DRAFT"}

\* A run and what it interpreted follow the submission, after which nobody draws.
Follows ==
    /\ \A w \in Worker : run[w] # NoRun => Submitted
    /\ \A w \in Worker : run[w].pc = "loaded" => run[w].work.draws = draws
    /\ executions # << >> => Submitted /\ executions[1].draws = draws

\* What was read of the deck and of the spread is there still: the seed only inserts.
Read(r) == r.kind \in {"submit", "daily"} => r.cards <= Cards /\ r.positions <= Positions

StillThere ==
    /\ cache # NoCache => cache.cards <= Cards
    /\ \A q \in Request : Read(req[q])

\* The properties are not inductive: the draw is made with what the request read,
\* or another request cached, some steps before.
IInv == Typed /\ Follows /\ StillThere /\ DrawnFairly

-----------------------------------------------------------------------------
\* At every point of the seed there is a whole number of cards and of positions.
LEMMA Sizes ==
    ASSUME seeded \in Nat
    PROVE  Cards \in Nat /\ Positions \in Nat
BY SizesAssumption DEF Cards, Positions, DeckExists, SpreadExists

\* The seed inserts rows and takes none away.
LEMMA SeedGrows ==
    ASSUME seeded \in Nat, seeded' = seeded + 1
    PROVE  seeded' \in Nat /\ Cards <= Cards' /\ Positions <= Positions'
BY SizesAssumption DEF Cards, Positions, DeckExists, SpreadExists

\* What a submission or the card of the day carries.
LEMMA Kinds ==
    ASSUME Typed, NEW q \in Request
    PROVE  /\ req[q].kind \in {"submit", "daily"} => req[q] \in Drawing
           /\ req[q] \in Drawing => req[q].kind \in {"submit", "daily"}
BY DEF Typed, NoRequest, Drawing

\* Before the seed and without a reading there is nothing to show.
LEMMA InitiallyThere == Init => IInv
<1> SUFFICES ASSUME Init PROVE IInv
  OBVIOUS
<1>1. draws \in Drawn
  <2>1. draws \in [1..0 -> Nat]
    BY DEF Init, NoDraws
  <2> QED
    BY <2>1 DEF Drawn
<1>2. Typed
  BY <1>1 DEF Init, Typed
<1>3. Follows /\ StillThere /\ DrawnFairly
  BY DEF Init, Follows, StillThere, Read, DrawnFairly, NoRequest, NoRun
<1> QED
  BY <1>2, <1>3 DEF IInv

\* Rows are inserted.
LEMMA SeedPreserves ==
    ASSUME IInv, SeedDeck \/ SeedSpread
    PROVE  IInv'
<1> USE DEF readingVars
<1>1. /\ seeded' = seeded + 1
      /\ UNCHANGED <<cache, status, answer, draws, executions, req, run>>
  BY DEF SeedDeck, SeedSpread
<1>2. /\ seeded' \in Nat /\ Cards <= Cards' /\ Positions <= Positions'
      /\ Cards \in Nat /\ Positions \in Int
  BY <1>1, SeedGrows, Sizes DEF IInv, Typed
<1>3. Cards' \in Nat /\ Positions' \in Int
  BY <1>1, <1>2, SizesAssumption DEF Cards, Positions, DeckExists, SpreadExists
<1>4. Typed' /\ Follows'
  BY <1>1, <1>2 DEF IInv, Typed, Follows, Submitted
<1>5. StillThere'
  <2>1. cache # NoCache => cache.cards \in Nat
    BY DEF IInv, Typed
  <2>2. \A q \in Request : req[q].kind \in {"submit", "daily"} =>
          req[q].cards \in Nat /\ req[q].positions \in Nat
    BY Kinds DEF IInv, Drawing
  <2> QED
    BY <1>1, <1>2, <1>3, <2>1, <2>2 DEF IInv, StillThere, Read
<1>6. DrawnFairly'
  BY <1>1, <1>2, <1>3 DEF IInv, DrawnFairly
<1> QED
  BY <1>4, <1>5, <1>6 DEF IInv

\* A request goes on with what it read, or ends.
LEMMA RequestPreserves ==
    ASSUME IInv, NEW q \in Request,
           NEW r \in {NoRequest} \cup [kind : {"answer"}] \cup Drawing, Read(r),
           req' = [req EXCEPT ![q] = r],
           cache' \in {NoCache} \cup [state : {"set"}, cards : Nat, ttl : BOOLEAN],
           cache' # NoCache => cache'.cards <= Cards,
           answer' \in Value \cup {NoAnswer},
           UNCHANGED <<seeded, status, draws, executions, run>>
    PROVE  IInv'
<1>1. UNCHANGED <<Cards, Positions>>
  BY DEF Cards, Positions, DeckExists, SpreadExists
<1>2. Typed' /\ Follows' /\ DrawnFairly'
  BY <1>1 DEF IInv, Typed, Follows, Submitted, DrawnFairly
<1>3. StillThere'
  BY <1>1 DEF IInv, Typed, StillThere, Read
<1> QED
  BY <1>2, <1>3 DEF IInv

\* Answers, and the reads of a submission and of the card of the day.
LEMMA ReadsPreserve ==
    ASSUME IInv, NEW q \in Request,
           \/ BeginAnswer(q) \/ SaveAnswer(q) \/ BeginSubmit(q) \/ PrepareSubmit(q)
           \/ BeginDaily(q) \/ FetchDeck(q) \/ CacheDeck(q) \/ ServeDaily(q)
           \/ RefuseDraw(q) \/ LoseRequest(q)
    PROVE  IInv'
<1> USE DEF readingVars
<1> DEFINE Doing == {NoRequest} \cup [kind : {"answer"}] \cup Drawing
           Stored == {NoCache} \cup [state : {"set"}, cards : Nat, ttl : BOOLEAN]
<1>1. /\ Cards \in Nat /\ Positions \in Nat
      /\ cache \in Stored /\ (cache # NoCache => cache.cards <= Cards)
      /\ answer \in Value \cup {NoAnswer} /\ Read(req[q])
  BY Sizes DEF IInv, Typed, StillThere
<1>2. ASSUME NEW r \in Doing, Read(r), req' = [req EXCEPT ![q] = r],
             UNCHANGED <<seeded, cache, status, answer, draws, executions, run>>
      PROVE  IInv'
  BY <1>1, <1>2, RequestPreserves
<1>3. NoRequest \in Doing /\ Read(NoRequest)
  BY DEF Read, NoRequest
<1>4. CASE BeginAnswer(q)
  <2>1. [kind |-> "answer"] \in Doing /\ Read([kind |-> "answer"])
    BY DEF Read
  <2> QED
    BY <1>2, <1>4, <2>1 DEF BeginAnswer
<1>5. CASE SaveAnswer(q)
  <2>1. answer' \in Value \cup {NoAnswer}
    BY <1>1, <1>5 DEF SaveAnswer
  <2> QED
    BY <1>1, <1>3, <1>5, <2>1, RequestPreserves DEF SaveAnswer, End
<1>6. CASE BeginSubmit(q)
  <2> DEFINE r == [kind |-> "submit", pc |-> "checked", positions |-> 0, cards |-> 0]
  <2>1. r \in Doing /\ Read(r)
    BY <1>1 DEF Read, Drawing
  <2> HIDE DEF r
  <2>2. req' = [req EXCEPT ![q] = r]
    BY <1>6 DEF BeginSubmit, r
  <2> QED
    BY <1>2, <1>6, <2>1, <2>2 DEF BeginSubmit
\* What is found in the cache is no more than there is.
<1>7. ASSUME NEW x \in Drawing, x.positions <= Positions, x.cards <= Cards
      PROVE  LookUpDeck(x) \in Drawing /\ Read(LookUpDeck(x))
  BY <1>1, <1>7 DEF LookUpDeck, Drawing, Read
<1>8. CASE PrepareSubmit(q)
  <2>1. CASE End(q)
    BY <1>2, <1>3, <1>8, <2>1 DEF PrepareSubmit, End
  <2>2. CASE ~End(q)
    <3> DEFINE x == [req[q] EXCEPT !.positions = Positions]
    <3>1. req[q] \in Drawing
      BY <1>8, Kinds DEF IInv, PrepareSubmit, At
    <3>2. x \in Drawing /\ x.positions <= Positions /\ x.cards <= Cards
      BY <1>1, <3>1, Kinds DEF IInv, Drawing, Read
    <3> HIDE DEF x
    <3>3. req' = [req EXCEPT ![q] = LookUpDeck(x)]
      BY <1>8, <2>2 DEF PrepareSubmit, x
    <3> QED
      BY <1>2, <1>7, <1>8, <3>2, <3>3 DEF PrepareSubmit
  <2> QED
    BY <2>1, <2>2
<1>9. CASE BeginDaily(q)
  <2> DEFINE x == [kind |-> "daily", pc |-> "checked", positions |-> 0, cards |-> 0]
  <2>1. x \in Drawing /\ x.positions <= Positions /\ x.cards <= Cards
    BY <1>1 DEF Drawing
  <2> HIDE DEF x
  <2>2. req' = [req EXCEPT ![q] = LookUpDeck(x)]
    BY <1>9 DEF BeginDaily, x
  <2> QED
    BY <1>2, <1>7, <1>9, <2>1, <2>2 DEF BeginDaily
<1>10. CASE FetchDeck(q)
  <2>1. CASE End(q)
    BY <1>2, <1>3, <1>10, <2>1 DEF FetchDeck, End
  <2>2. CASE ~End(q)
    <3> DEFINE r == [req[q] EXCEPT !.pc = "fetched", !.cards = Cards]
    <3>1. req[q] \in Drawing
      BY <1>10, Kinds DEF IInv, FetchDeck, At
    <3>2. r \in Doing /\ Read(r)
      <4>1. r \in Drawing /\ r.cards = Cards /\ r.positions = req[q].positions
        BY <1>1, <3>1 DEF Drawing
      <4>2. req[q].positions <= Positions
        BY <1>1, <3>1, Kinds DEF IInv, Read
      <4> HIDE DEF r
      <4> QED
        BY <1>1, <4>1, <4>2 DEF Read
    <3>3. req' = [req EXCEPT ![q] = r]
      BY <1>10, <2>2, <3>1 DEF FetchDeck, IInv, Typed
    <3> HIDE DEF r
    <3> QED
      BY <1>2, <1>10, <3>2, <3>3 DEF FetchDeck
  <2> QED
    BY <2>1, <2>2
<1>11. CASE CacheDeck(q)
  <2> DEFINE r == [req[q] EXCEPT !.pc = "ready"]
  <2>1. req[q] \in Drawing /\ req[q].cards \in Nat /\ req[q].cards <= Cards
    BY <1>1, <1>11, Kinds DEF IInv, CacheDeck, At, Read, Drawing
  <2>2. r \in Doing /\ Read(r)
    BY <1>1, <2>1, Kinds DEF IInv, Drawing, Read
  <2>3. req' = [req EXCEPT ![q] = r]
    BY <1>11 DEF CacheDeck
  <2>4. cache' \in Stored /\ cache'.cards <= Cards
    BY <1>11, <2>1 DEF CacheDeck
  <2> HIDE DEF r
  <2> QED
    BY <1>1, <1>11, <2>2, <2>3, <2>4, RequestPreserves DEF CacheDeck
<1>12. CASE ServeDaily(q) \/ RefuseDraw(q) \/ LoseRequest(q)
  BY <1>2, <1>3, <1>12 DEF ServeDaily, RefuseDraw, LoseRequest, End
<1> QED
  BY <1>4, <1>5, <1>6, <1>8, <1>9, <1>10, <1>11, <1>12

\* The one step that draws finds the reading in DRAFT: nothing follows it yet.
LEMMA SubmitPreserves ==
    ASSUME IInv, NEW q \in Request, CommitSubmit(q)
    PROVE  IInv'
<1> USE DEF readingVars
<1>1. Read(NoRequest)
  BY DEF Read, NoRequest
<1>2. CASE status # "DRAFT"
  BY <1>1, <1>2, RequestPreserves DEF CommitSubmit, End, IInv, Typed, StillThere
<1>3. CASE status = "DRAFT"
  <2>1. /\ req[q] \in Drawing /\ req[q].positions \in Nat /\ req[q].cards \in Nat
        /\ req[q].positions <= Positions /\ req[q].cards <= Cards
    BY Kinds DEF CommitSubmit, At, IInv, StillThere, Read, Drawing
  <2>2. UNCHANGED <<Cards, Positions>> /\ Cards \in Nat /\ Positions \in Nat
    BY Sizes DEF Cards, Positions, DeckExists, SpreadExists, IInv, Typed, CommitSubmit
  <2>3. PICK n \in 1..Positions :
          /\ draws' \in [1..n -> 1..Cards]
          /\ \A i, j \in 1..n : draws'[i] = draws'[j] => i = j
    <3>1. /\ draws' \in [1..req[q].positions -> 1..req[q].cards]
          /\ \A i, j \in 1..req[q].positions : draws'[i] = draws'[j] => i = j
          /\ req[q].positions \in 1..req[q].cards
      BY <1>3 DEF CommitSubmit, Draw
    <3>2. 1..req[q].cards \subseteq 1..Cards /\ req[q].positions \in 1..Positions
      BY <2>1, <2>2, <3>1
    <3> QED
      BY <3>1, <3>2
  <2>4. draws' \in Drawn
    <3>1. 1..Cards \subseteq Nat /\ n \in Nat
      BY <2>2
    <3>2. draws' \in [1..n -> Nat]
      BY <2>3, <3>1
    <3> QED
      BY <3>1, <3>2 DEF Drawn
  <2>5. Typed' /\ Follows' /\ StillThere'
    BY <1>1, <1>3, <2>2, <2>4
       DEF CommitSubmit, End, IInv, Typed, Follows, Submitted, StillThere, Read, NoRun
  <2>6. DrawnFairly'
    BY <2>2, <2>3 DEF DrawnFairly
  <2> QED
    BY <2>5, <2>6 DEF IInv
<1> QED
  BY <1>2, <1>3

\* The worker reads no other question than the form knows of.
LEMMA Texts ==
    ASSUME NEW value \in Value \cup {NoAnswer}
    PROVE  QuestionOf(value) \in {"", "short", "question", "another"}
<1>1. CASE value \in [type : {"string"}, text : {"", "short", "question", "another"}]
  BY <1>1 DEF QuestionOf
<1>2. CASE value \in [type : {"null", "number"}, text : {""}]
  BY <1>2 DEF QuestionOf
<1>3. CASE value = NoAnswer
  BY <1>3 DEF QuestionOf, NoAnswer
<1> QED
  BY <1>1, <1>2, <1>3 DEF Value

\* A run reads what was drawn, and nobody draws until it is done.
LEMMA RunPreserves ==
    ASSUME IInv, NEW w \in Worker,
           Load(w) \/ Interpret(w) \/ Complete(w) \/ Fail(w) \/ LoseRun(w)
    PROVE  IInv'
<1> USE DEF readingVars
<1>1. UNCHANGED <<seeded, cache, answer, draws, req>>
  BY DEF Load, Interpret, Complete, Fail, LoseRun
<1>2. UNCHANGED <<Cards, Positions>>
  BY <1>1 DEF Cards, Positions, DeckExists, SpreadExists
<1>3. StillThere'
  BY <1>1, <1>2 DEF IInv, StillThere, Read
<1>4. ~(Load(w) \/ LoseRun(w)) => run[w] # NoRun
  BY DEF Interpret, Complete, Fail, NoRun
<1>5. (Submitted /\ Submitted') \/ (LoseRun(w) /\ UNCHANGED status)
  BY <1>4 DEF Load, Interpret, Complete, Fail, LoseRun, IInv, Follows, Submitted
<1>6. DrawnFairly'
  BY <1>1, <1>2, <1>5 DEF IInv, DrawnFairly, Submitted
<1>7. CASE Load(w)
  <2> DEFINE r == [pc |-> "loaded", work |-> [question |-> QuestionOf(answer), draws |-> draws]]
  <2>1. QuestionOf(answer) \in {"", "short", "question", "another"}
    BY Texts DEF IInv, Typed
  <2>2. r \in [pc : {"loaded"}, work : Work] /\ r.work.draws = draws
    BY <2>1 DEF Work, IInv, Typed
  <2> HIDE DEF r
  <2>3. run' = [run EXCEPT ![w] = r]
    BY <1>7 DEF Load, r
  <2>4. UNCHANGED <<status, executions>>
    BY <1>7 DEF Load
  <2>5. Typed'
    BY <1>1, <2>2, <2>3, <2>4 DEF IInv, Typed
  <2>6. Follows'
    BY <1>1, <1>5, <1>7, <2>2, <2>3, <2>4 DEF Load, IInv, Typed, Follows, Submitted
  <2> QED
    BY <1>3, <1>6, <2>5, <2>6 DEF IInv
<1>8. CASE Interpret(w)
  <2>1. run[w].pc = "loaded" /\ run[w].work \in Work /\ run[w].work.draws = draws
    BY <1>8 DEF Interpret, IInv, Typed, Follows, NoRun
  <2>2. executions' = <<run[w].work>> /\ run' = [run EXCEPT ![w] = [pc |-> "save"]]
        /\ UNCHANGED status
    BY <1>8 DEF Interpret
  <2>3. executions'[1].draws = draws
    BY <2>1, <2>2
  <2>4. executions' \in {<<e>> : e \in Work}
    BY <2>1, <2>2
  <2>5. run' \in [Worker -> {NoRun} \cup [pc : {"loaded"}, work : Work] \cup [pc : {"save"}]]
    BY <2>2 DEF IInv, Typed
  <2>6. Typed'
    BY <1>1, <2>4, <2>5 DEF IInv, Typed
  <2>7. Submitted /\ Submitted'
    <3>1. run[w] # NoRun
      BY <1>8 DEF Interpret, NoRun
    <3> QED
      BY <2>2, <3>1 DEF IInv, Follows, Submitted
  <2>8. Follows'
    BY <1>1, <2>2, <2>3, <2>7 DEF IInv, Typed, Follows
  <2> QED
    BY <1>3, <1>6, <2>6, <2>8 DEF IInv
<1>9. CASE Complete(w) \/ Fail(w) \/ LoseRun(w)
  <2>1. run' = [run EXCEPT ![w] = NoRun] /\ UNCHANGED executions
    BY <1>9 DEF Complete, Fail, LoseRun
  <2>2. Submitted => Submitted'
    BY <1>5 DEF Submitted
  <2> QED
    BY <1>1, <1>3, <1>6, <2>1, <2>2 DEF IInv, Typed, Follows, Submitted, NoRun
<1> QED
  BY <1>7, <1>8, <1>9

\* Every step of the seed, of a request and of a run preserves the invariant.
LEMMA StepPreserves == IInv /\ [Next]_vars => IInv'
<1> SUFFICES ASSUME IInv, [Next]_vars PROVE IInv'
  OBVIOUS
<1>1. CASE SeedDeck \/ SeedSpread
  BY <1>1, SeedPreserves
<1>2. ASSUME \/ ExpireDeck \/ CreateReading \/ Retry \/ UNCHANGED vars
      PROVE  IInv'
  <2>1. /\ UNCHANGED <<seeded, answer, draws, executions, req, run>>
        /\ cache' = NoCache \/ UNCHANGED cache
        /\ Submitted => Submitted'
        /\ Submitted' => Submitted
    BY <1>2 DEF ExpireDeck, CreateReading, Retry, vars, readingVars, Submitted
  <2>2. UNCHANGED <<Cards, Positions>>
    BY <2>1 DEF Cards, Positions, DeckExists, SpreadExists
  <2>3. Typed' /\ Follows' /\ StillThere'
    BY <2>1, <2>2 DEF IInv, Typed, Follows, Submitted, StillThere, Read
  <2>4. DrawnFairly'
    BY <2>1, <2>2 DEF IInv, DrawnFairly, Submitted
  <2> QED
    BY <2>3, <2>4 DEF IInv
<1>3. ASSUME NEW q \in Request,
             BeginAnswer(q) \/ SaveAnswer(q) \/ DrawingStep(q) \/ LoseRequest(q)
      PROVE  IInv'
  BY <1>3, ReadsPreserve, SubmitPreserves DEF DrawingStep
<1>4. ASSUME NEW w \in Worker,
             Load(w) \/ Interpret(w) \/ Complete(w) \/ Fail(w) \/ LoseRun(w)
      PROVE  IInv'
  BY <1>4, RunPreserves
<1> QED
  BY <1>1, <1>2, <1>3, <1>4 DEF Next

\* The inductive invariant holds throughout.
LEMMA AlwaysThere == Spec => []IInv
<1>1. Init => IInv
  BY InitiallyThere
<1>2. IInv /\ [Next]_vars => IInv'
  BY StepPreserves
<1> QED
  BY <1>1, <1>2, PTL DEF Spec

-----------------------------------------------------------------------------
\* GET /readings/:id shows the cards that were interpreted, however many
\* submissions, stalled runs and retries there were.
THEOREM InterpretationsAreOfTheDraw == Spec => []InterpretedAsDrawn
<1>1. IInv => InterpretedAsDrawn
  BY DEF IInv, Follows, InterpretedAsDrawn, Detail
<1> QED
  BY <1>1, AlwaysThere, PTL

\* DrawEngineService draws from the deck there is, without replacement, for decks
\* and spreads of any size and at any point of the seed.
THEOREM DrawsAreFair == Spec => []DrawnFairly
<1>1. IInv => DrawnFairly
  BY DEF IInv
<1> QED
  BY <1>1, AlwaysThere, PTL
=============================================================================
