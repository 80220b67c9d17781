CONSTANTS
    u1 = u1
    o1 = o1
    User = {u1}
    Order = {o1}
    Buyer <- Buyers
    CreditsOf <- TwoCredits
    InitialBonus = 1
    MaxIntents = 1
    Request = {q1}
    Delivery = {d1, d2}
    MaxFaults = 1
SPECIFICATION FairSpec
PROPERTY AcknowledgedIsCredited
CHECK_DEADLOCK FALSE
