CONSTANTS
    None = None
    QueryErrors = "raised"
    InsertErrors = "raised"
    Levels = "parsed"
    Handlers = {h1, h2}
    Nids = {n1}
    Keys = {k1, k2}
    Entities = {"agent", "node"}
    DaySeconds = 2
    AgentDays = 1
    NodeDays = 2
    RenewalDays = 0
    MaxTime = 2
    MaxRequests = 4
    MaxFaults = 1
SPECIFICATION Spec
SYMMETRY Symmetry
CHECK_DEADLOCK FALSE
INVARIANT TypeOK
INVARIANT RevocationTotal
INVARIANT DeliveredRecorded
INVARIANT DeliveredSerialsUnique
INVARIANT SubjectsBounded
INVARIANT OutsideWindowBounded
