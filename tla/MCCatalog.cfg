CONSTANTS
    MaxVersion = 2
    MaxForm = 2
    MaxRevision = 1
    Request = {q1, q2}
SPECIFICATION FairSpec
INVARIANTS
    LastFormIsShown
PROPERTIES
    StaysPublished
    StaleListGoes
CHECK_DEADLOCK FALSE
