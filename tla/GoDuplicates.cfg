CONSTANTS
    None = None
    QueryErrors = "raised"
    InsertErrors = "discarded"
    Levels = "ignored"
    Handlers = {h1, h2}
    Nids = {n1, n2}
    Keys = {k1}
    Entities = {"agent"}
    DaySeconds = 2
    AgentDays = 1
    NodeDays = 2
    RenewalDays = 0
    MaxTime = 2
    MaxRequests = 2
    MaxFaults = 0
SPECIFICATION Spec
SYMMETRY Symmetry
CHECK_DEADLOCK FALSE
INVARIANT DeliveredSerialsUnique
