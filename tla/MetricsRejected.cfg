CONSTANTS
    Slots = {s1, s2}
    MaxRequests = 3
SPECIFICATION Spec
CHECK_DEADLOCK FALSE
INVARIANT RejectedAreSigningRequests
