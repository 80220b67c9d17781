CONSTANTS
    u1 = u1
    r1 = r1
    r2 = r2
    User = {u1}
    Reading = {r1}
    Owner <- OnlyR1
    AdUnlockable = {r1}
    Price = 2
    InitialBonus = 3
    AdsRequired = 1
    MaxAds = 1
    MaxAnswers = 1
    Request = {q1, q2}
    Worker = {w1, w2}
    MaxAttempts = 2
    MaxRetries = 1
    MaxStalled = 1
    MaxFaults <- OneOfEach
SPECIFICATION Spec
SYMMETRY Symmetry
INVARIANTS
    SubmittedIsReserved
    TerminalIsSettled
    ChargedOnlyWhenDelivered
PROPERTIES
    ImplementsWallet
    OnlySubmissionCharges
CHECK_DEADLOCK FALSE
