CONSTANTS
    Key = {k1, k2, k3}
    Absent = Absent
    Torn = Torn
    MaxStarts = 5
    MaxMisses = 2
SPECIFICATION FairSpec
CHECK_DEADLOCK FALSE
INVARIANT OneIdentity
INVARIANT RootMatchesKey
INVARIANT OneRoot
PROPERTY ComesBack
