SPECIFICATION ContentSpec
CONSTANTS
    Peers = {alice, bob}
    Author = alice
    Reporters = {bob}
    MaxTime = 1
    MaxEvents = 1
    MaxLosses = 0
    MaxReplays = 1
    Stagers = {s1, s2}
    FileNames = {f1, f2}
    Outgoing = {sent}
    Incoming = {letter}
    GroupSent = {shared}
    FilesEach = 1
    MaxCommits = 2
    MaxOutages = 1
    MaxSkip = 2
    MaxSent = 5
    MemThreads = {m1, m2}
    Secrets = {k1, k2, k3}
    MaxPages = 3
    MaxMemFaults = 2
    WinChats = {ca, cb}
    NoChat = NoChat
    PageSize = 1
    UntilMargin = 1
    WindowSize = 2
    MaxMids = 2
    MaxEpoch = 3
    MaxAsked = 2
    MaxHappened = 1
SYMMETRY ContentSymmetry
INVARIANTS
    UndeletedHasFiles
    OpensOnce
    GoneStaysOffScreen
    KeysKeepTheirPage
PROPERTIES
    DeletionHolds
CHECK_DEADLOCK FALSE
