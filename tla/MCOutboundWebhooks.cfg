SPECIFICATION FairWebhookSpec
CONSTANTS
    h1 = h1
    a1 = a1
    a2 = a2
    Hooks = {h1}
    Attempters = {a1, a2}
    MaxRetries = 3
    QueueCap = 10
    MaxFaults = 2
    MaxManual = 1
    RunsMayStall = TRUE
CHECK_DEADLOCK FALSE
INVARIANTS
    TakenAsRecorded
PROPERTIES
    WebhooksSettle
