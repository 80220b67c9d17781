CONSTANTS
    Link = {l1}
    Request = {q1, q2}
    Visitor = {v1}
    Worker = {w1, w2}
    MaxAttempts = 2
    MaxStalled = 1
    MaxFaults = 2
SPECIFICATION SharingFairSpec
INVARIANTS
    ReadyHasObject
PROPERTIES
    ReadyStays
    ImageSettles
CHECK_DEADLOCK FALSE
