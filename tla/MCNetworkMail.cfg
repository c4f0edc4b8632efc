SPECIFICATION NetworkSpec
CONSTANTS
    Keys = {owner}
    Owner = owner
    Lens = {1}
    MaxTotalBytes = 9
    MaxRecipientBytes = 9
    MaxBundles = 1
    PendingLimit = 9
    Anyone = Anyone
    Nobody = Nobody
    Conns = {c1, c2}
    MaxId = 2
    PushCapacity = 9
    MaxCloses = 1
    MaxDrops = 0
    MaxDeclines = 0
    s1 = s1
    a = a
    b = b
    Others = {s1, a, b}
    Seeds = {s1}
    Storing = {s1, a}
    Near <- MCNear
    K = 1
    Alpha = 1
    MaxPeers = 2
    MaxFailures = 2
    MaxNodePuts = 1
    MaxChurns = 1
    Nodes = {n1, n2}
    Week = 2
    LaterDays = 1
    MaxHalfDays = 5
    MaxRestarts = 1
SYMMETRY NetworkSymmetry
INVARIANTS
    
    NodeIsSound
    MailHandledOnce
CHECK_DEADLOCK FALSE
