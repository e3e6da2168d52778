SPECIFICATION FairEventSpec
CONSTANTS
    d1 = d1
    e1 = e1
    e2 = e2
    w1 = w1
    q1 = q1
    Deliveries = {d1}
    Events = {e1, e2}
    EventOf <- AboutTheOne
    ById = {e1, e2}
    KindsOf <- AnyNews
    Invocations = {w1}
    Requests = {q1}
    MaxEventAttempts = 2
    MaxSends = 2
    Null = Null
CHECK_DEADLOCK FALSE
CONSTRAINT SecondIsSimple
INVARIANTS
    CountedOnce
    ProcessedIsSuppressed
PROPERTIES
    OutcomesStand
    EventsSettle
