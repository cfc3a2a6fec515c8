CONSTANTS
    None = None
    QueryErrors = "raised"
    InsertErrors = "raised"
    Levels = "ignored"
    Handlers = {h1, h2}
    Nids = {"n1"}
    Keys = {k1}
    Entities = {"agent"}
    DaySeconds = 2
    AgentDays = 1
    NodeDays = 2
    RenewalDays = 0
    MaxTime = 1
    MaxRequests = 12
    MaxFaults = 0
SPECIFICATION FairSpec
CHECK_DEADLOCK FALSE
INVARIANT SerialsDense
INVARIANT FreshUntilTen
PROPERTY RequestsEnd
