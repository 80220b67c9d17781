CONSTANTS
    User = {u1, u2}
    Reading = {r1, r2}
    Order = {o1}
    Cost <- MCCost
    Credits <- MCCredits
    Adjustment <- MCAdjustment
    InitialBonus = 2
    MaxAdjustments = 1
SPECIFICATION Spec
SYMMETRY Symmetry
PROPERTY ImplementsCreditAccount
INVARIANTS
    NonNegativeBalance
    LedgerReconciles
    ReservationsMatchLedger
    ConsumptionShowsAPastBalance
CHECK_DEADLOCK FALSE
