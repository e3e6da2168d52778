SPECIFICATION FairMessageSpec
CONSTANTS
    r1 = r1
    r2 = r2
    w1 = w1
    w2 = w2
    k1 = k1
    k2 = k2
    Requests = {r1, r2}
    Workers = {w1, w2}
    Reports = {k1, k2}
    KindOf <- TwoReports
    MaxSends = 3
    MaxFaults = 2
    Null = Null
CHECK_DEADLOCK FALSE
INVARIANTS
    AcceptedOnce
    ToldTheTruth
    WaitingHasJob
PROPERTIES
    NoStepBack
    MessageSettles
