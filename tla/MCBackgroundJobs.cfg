SPECIFICATION JobSpec
CONSTANTS
    w1 = w1
    w2 = w2
    t1 = t1
    t2 = t2
    t3 = t3
    t4 = t4
    j1 = j1
    Jobs = {j1}
    Invocations = {w1, w2}
    Reconcilers = {r1}
    Tokens = {t1, t2, t3, t4}
    Null = Null
    MaxJobAttempts = 2
    OwnersMayStall = TRUE
SYMMETRY Symmetry
INVARIANTS
    JobsRunAlone
    ClosedForAReason
CHECK_DEADLOCK FALSE
