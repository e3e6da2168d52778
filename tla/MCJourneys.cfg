SPECIFICATION FairJourneySpec
CONSTANTS
    None = None
    n1 = n1
    n2 = n2
    branch = branch
    delay = delay
    send = send
    wait = wait
    end = end
    Runs = {n1, n2}
    Steps <- JSteps
    Root = branch
    TypeOf <- JTypes
    NextOf <- JNext
    OtherOf <- JOther
    MaxEvents = 2
    MaxPauses = 2
    MaxOverlaps = 2
    MaxFaults = 2
CHECK_DEADLOCK FALSE
CONSTRAINT TwoTroubles
INVARIANTS
    SentOnce
    CountersAgree
PROPERTIES
    JourneyEnds
