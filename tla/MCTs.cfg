CONSTANTS
    None = None
    Handlers = {h1, h2}
    Nids = {n1, n2}
    Keys = {k1, k2}
    Entities = {"agent"}
    DaySeconds = 2
    AgentDays = 1
    NodeDays = 2
    RenewalDays = 0
    MaxTime = 3
    MaxRequests = 4
    MaxFaults = 1
SPECIFICATION Spec
SYMMETRY Symmetry
CHECK_DEADLOCK FALSE
INVARIANT DeliveredRecorded
INVARIANT OneSubject
INVARIANT SuspendedIsCurrent
INVARIANT VerifyFindsValid
INVARIANT OneOutsideWindow
PROPERTY KeepsLedger
PROPERTY Implements
