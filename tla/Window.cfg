CONSTANTS
    None = None
    QueryErrors = "raised"
    InsertErrors = "raised"
    Levels = "ignored"
    Handlers = {h1}
    Nids = {"n1"}
    Keys = {k1}
    Entities = {"agent"}
    DaySeconds = 2
    AgentDays = 3
    NodeDays = 3
    RenewalDays = 1
    MaxTime = 6
    MaxRequests = 3
    MaxFaults = 1
SPECIFICATION Spec
CHECK_DEADLOCK FALSE
PROPERTY RenewalsInWindow
