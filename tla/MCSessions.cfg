SPECIFICATION KeptSpec
CONSTANTS
    Callers = {loop}
    Prefetched = FALSE
    Reorders = FALSE
    MaxInits = 1
    MaxInbox = 1
    MaxCrashes = 1
    MaxResets = 1
    MaxLostAcks = 0
    MaxDbFails = 0
    MaxLosses = 1
    Engines = {1, 2}
    MaxAlternates = 3
    TargetPrekeys = 2
    MaxMail = 4
    Passwords = {w1, w2}
    Passkeys = {pk1}
    BrowserLetters = {l1, l2}
    BrowserFiles = {f1}
    MaxGeneration = 4
    MaxFaults = 3
    Keys = {ka, kb}
    Lens = {0, 1, 2, 3}
    MaxTotalBytes = 5
    MaxRecipientBytes = 3
    MaxBundles = 1
    PendingLimit = 2
    MaxId = 4
    Anyone = Anyone
    Nobody = Nobody
INVARIANTS
    
    LettersStayReadable
    ProfileSurvives
PROPERTIES
    StoreKeeps
CHECK_DEADLOCK FALSE
