SPECIFICATION FairPipeline
CONSTANTS
    d1 = d1
    d2 = d2
    w1 = w1
    w2 = w2
    t1 = t1
    t2 = t2
    k1 = k1
    k2 = k2
    Deliveries = {d1, d2}
    Transactional = {d1}
    Invocations = {w1, w2}
    Reconcilers = {r1}
    Tokens = {t1, t2}
    JobTokens = {k1, k2}
    Null = Null
    MaxAttempts = 2
    AttemptCap = 3
    MaxJobAttempts = 3
    OwnersMayStall = FALSE
    AnswersMayBeLost = FALSE
CONSTRAINT OneAtATime
INVARIANTS
    PermanentMeansOver
    JobsKeepTheirHolders
    CallsWithinLimit
PROPERTY
    JobsSettle
CHECK_DEADLOCK FALSE
