SPECIFICATION DeviceSpec
CONSTANTS
    Total = 3
    Window = 3
    MaxSpan = 2
    MaxMissing = 2
    EarlyCap = 1
    MaxFileLosses = 0
    MaxRestarts = 0
    Starters = {t1, t2}
    Sayings = {s1, s2}
    AppProfiles = {pa, pb}
    Nobody = Nobody
    MaxUnlocks = 2
    Chatters = {c1, c2, c3}
    TheGroup = TheGroup
    MaxMembers = 2
    MaxTexts = 2
    MaxChanges = 1
    MaxInFlight = 1
SYMMETRY DeviceSymmetry
INVARIANTS
    SaidIsApplied
    EnteredIsLoaded
    

    
CHECK_DEADLOCK FALSE
