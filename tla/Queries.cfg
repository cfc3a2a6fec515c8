CONSTANTS
    None = None
    QueryErrors = "absent"
    InsertErrors = "discarded"
    Levels = "ignored"
    CrlErrors = "partial"
    Handlers = {h1}
    Tasks = {t1, t2}
    Nids = {n1}
    Keys = {k1}
    Entities = {"agent"}
    DaySeconds = 1
    AgentDays = 2
    NodeDays = 2
    RenewalDays = 1
    MaxTime = 3
    MaxRequests = 2
    MaxFaults = 1
    MaxErrors = 1
SPECIFICATION QSpec
SYMMETRY Symmetry
CHECK_DEADLOCK FALSE
INVARIANT QTypeOK
INVARIANT AnswersTrue
PROPERTY KeepsThreaded
