CONSTANTS
    DeckSize = 2
    SpreadSize = 2
    Request = {q1, q2}
    Worker = {w1, w2}
    MaxRetries = 1
SPECIFICATION Spec
INVARIANTS
    InterpretedAsDrawn
    DrawnFairly
PROPERTIES
    AnswersSettle
    StaleDeckGoes
CHECK_DEADLOCK FALSE
