SPECIFICATION AccessSpec
CONSTANTS
    Requests = {r1, r2}
    Checks = {v1, v2}
    MaxAttempts = 2
    Users = {ann, cy}
    FirstAdmin = ann
    Logins = {l1, l2}
    AdminCalls = {a1, a2}
    Tokens = {t1}
    Resets = {p1, p2}
    MaxPassword = 2
    Null = Null
SYMMETRY Symmetry
CONSTRAINT OneThingAtATime
CHECK_DEADLOCK FALSE
INVARIANTS
    UsedOnce
    GuessesAreLimited
    TokenSpentOnce
    AdminRemains
    OldSessionsEnd
PROPERTIES
    NewestWins
