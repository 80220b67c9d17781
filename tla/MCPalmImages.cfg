CONSTANTS
    Image = {i1}
    Slots = 1
    Request = {q1, q2}
    Worker = {w1}
    BatchSize = 1
    MaxAttempts = 2
    MaxStalled = 1
    MaxFaults = 1
SPECIFICATION FairSpec
INVARIANT
    DeletionIsEvidence
PROPERTY
    ExpiredFilesGo
CHECK_DEADLOCK FALSE
