SPECIFICATION WorkSpec
CONSTANTS
    Bosses = {b1, b2}
    NoBoss = NoBoss
    MaxOrders = 2
    MaxAgentEvents = 2
    MaxJobs = 2
    MaxErased = 1
    HeadCap = 2
    TailCap = 2
    MaxWritten = 7
    BotChats = {c1}
    Payloads <- MCPayloads
    MaxItems = 2
    EventQueue = 2
    ChatQueue = 1
    MaxAttempts = 2
    MaxBotEvents = 1
    MaxRelease = 3
    MaxUpdateEvents = 2
    QueueDepth = 2
    MaxBuffered = 2
    MaxWrites = 3
    MaxFrames = 3
    Streams = {s1, s2, s3, s4}
    MaxStreams = 3
    MaxServing = 2
    MaxIdleStreams = 1
    MaxRequests = 1
    Visitors = {v1, v2}
    Targets = {h1}
    PermitLimit = 1
    RateBurst = 2
    TargetBurst = 2
    LeaseLife = 1
    BytesLimit = 1
    PublicIp = FALSE
    BindIsPublic = TRUE
    MaxBridgeTime = 2
    MaxReloads = 1
    Routers = {r1, r2, r3}
    MinRouters = 1
    MaxRecords = 2
    RouterLife = 2
    MaxNetTime = 3
    DhtKeys = {k1, k2}
    Values <- MCValues
    Letters <- MCLetters
    MaxValueBytes = 4
    MaxDhtBytes = 3
    MaxKeyBytes = 2
    MaxKeyItems = 2
    MaxTtl = 1
    MaxNow = 1
    MaxPuts = 4
PROPERTIES
    MemImplements
    
    
    NetworkRecovers
    BridgeHolds
    StartsWarm
CHECK_DEADLOCK FALSE
