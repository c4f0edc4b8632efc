SPECIFICATION DeliverySpec
CONSTANTS
    Callers = {loop}
    Prefetched = TRUE
    Reorders = FALSE
    MaxInits = 2
    MaxInbox = 1
    MaxCrashes = 0
    MaxResets = 0
    MaxLostAcks = 1
    MaxDbFails = 1
    MaxLosses = 0
    OldRelays = {old}
    NewRelays = {new}
    Extra = 1
    LaneIds = {l1}
    PeerLanes = {p1}
    MaxBreaks = 2
    MaxMoves = 1
    MaxMail = 1
    Notes = {n1}
    MaxOutboxLosses = 2
    MaxReopens = 1
    Presses = {t1, t2}
    RecreateAfterFailures = 2
    MaxDials = 2
    PartCount = 3
    Window = 2
    MaxHoles = 1
    MaxMishaps = 2
PROPERTIES
    SessionDelivers
    LoginCollects
    
    TunnelsSettle
CHECK_DEADLOCK FALSE
