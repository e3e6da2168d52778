CONSTANTS
    r1 = r1
    w1 = w1
    w2 = w2
    q1 = q1
    rec = rec
    t1 = t1
    t2 = t2
    t3 = t3
    t4 = t4
    Recipients = {r1}
    Invocations = {w1}
    Reconcilers = {rec}
    Requests = {q1}
    Tokens = {t1, t2}
    Null = Null
    MaxAttempts = 2
    AttemptCap = 2
    OwnersMayStall = FALSE
SPECIFICATION FairCampaignSpec
CHECK_DEADLOCK FALSE
PROPERTY CampaignCompletes
