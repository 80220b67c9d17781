CONSTANTS
    u1 = u1
    r1 = r1
    r2 = r2
    User = {u1}
    Reading = {r1}
    Owner <- OnlyR1
    AdUnlockable = {}
    Price = 2
    InitialBonus = 3
    AdsRequired = 1
    MaxAds = 0
    MaxAnswers = 1
    Request = {q1}
    Worker = {w1, w2}
    MaxAttempts = 2
    MaxRetries = 1
    MaxStalled = 1
    MaxFaults <- Stalls
SPECIFICATION FairSpec
PROPERTIES
    SubmittedReadingEnds
    ReservationEnds
CHECK_DEADLOCK FALSE
