SPECIFICATION FairSpec
CONSTANTS
    w1 = w1
    w2 = w2
    t1 = t1
    t2 = t2
    Deliveries = {d1}
    Transactional = {d1}
    Invocations = {w1, w2}
    Reconcilers = {r1}
    Tokens = {t1, t2}
    Null = Null
    MaxAttempts = 2
    AttemptCap = 3
    OwnersMayStall = TRUE
    AnswersMayBeLost = TRUE
INVARIANTS
    AcceptedAtMostOnce
    CallIsExclusive
    CallsWithinAttempts
PROPERTIES
    SendsAsPromised
    TransactionalResolved
CONSTRAINT OneException
CHECK_DEADLOCK FALSE
