CONSTANTS
    None = None
    QueryErrors = "absent"
    InsertErrors = "discarded"
    Levels = "ignored"
    Handlers = {h1, h2}
    Nids = {n1}
    Keys = {k1, k2, k3, k4}
    Entities = {"agent"}
    DaySeconds = 2
    AgentDays = 1
    NodeDays = 2
    RenewalDays = 0
    MaxTime = 2
    MaxRequests = 4
    MaxFaults = 1
SPECIFICATION Spec
SYMMETRY Symmetry
CHECK_DEADLOCK FALSE
INVARIANT SerialsDense
INVARIANT RevocationTotal
INVARIANT LostOnlyByFault
INVARIANT SubjectsBounded
INVARIANT OutsideWindowBounded
PROPERTY KeepsLedger
