SPECIFICATION Spec
CONSTANTS
    Callers = {loop}
    Prefetched = FALSE
    Reorders = FALSE
    MaxInits = 1
    MaxInbox = 1
    MaxCrashes = 0
    MaxResets = 0
    MaxLostAcks = 0
    MaxDbFails = 0
    MaxLosses = 0
CHECK_DEADLOCK FALSE
INVARIANT SameAnswer
