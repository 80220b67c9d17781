CONSTANTS
    Session = {s1, s2, s3}
    Order = {o1, o2}
    Task = {a1, a2}
    AdsRequired <- RequiredAds
    DailyLimit = 1
    FreeDays = 1
    MaxDays = 2
SPECIFICATION Spec
SYMMETRY Symmetry
INVARIANTS
    RewardedWhenCompleted
    AdsPayForUnlocks
    OfferUsedOnce
CHECK_DEADLOCK FALSE
