SPECIFICATION RecipientSpec
CONSTANTS
    Subjects <- SomeSubjects
    Submitted <- SomeCriteria
    Height <- Stands
    MaxDepth = 1
    MaxContact = 3
    Runs = {r1, r2, p}
    Previews = {p}
    BatchSize = 2
    HasList = TRUE
    HasSegment = TRUE
    MaxChanges = 2
    Ops = {o1, o2}
    Sends = {s1}
    Spellings = {asStored, asTyped}
    MaxOps = 2
    Rest = Rest
SYMMETRY Alike
CONSTRAINT FewAtATime
CHECK_DEADLOCK FALSE
INVARIANTS
    PlainConditionsAgree
    RightAudience
    OptOutHonoured
    SuppressedHasNoConsent
PROPERTIES
    SnapshotIsFrozen
