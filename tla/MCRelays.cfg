SPECIFICATION RelaysSpec
CONSTANTS
    Keys = {owner}
    Owner = owner
    Lens = {1}
    MaxTotalBytes = 9
    MaxRecipientBytes = 9
    MaxBundles = 1
    PendingLimit = 9
    Anyone = Anyone
    Nobody = Nobody
    Conns = {c1, c2}
    MaxId = 2
    PushCapacity = 1
    MaxCloses = 1
    MaxDrops = 1
    MaxDeclines = 1
    RelayLanes = {l1, l2}
    MaxClients = 2
    RelayPending = 2
    RelayMailLimit = 2
    MaxDeposits = 3
    MaxEnds = 1
    Handles = {h1, h2}
    Passes = {p1, p2}
    Limits = {2}
    MaxOps = 3
    MaxKills = 1
    Mates = {m1, m2, m3}
    MaxRowIds = 3
    MaxTextIds = 2
    MaxChanges = 4
    AliasOwners = {1, 2}
    AliasNodes = {n1, n2}
    Lease = 1
    ClaimTtl = 2
    TombstoneTtl = 3
    MaxAliasTime = 2
    Persons = {ann, ben}
    Texts = {t1}
    MaxOpened = 2
    MaxCommands = 4
SYMMETRY RelaysSymmetry
INVARIANTS
    DealtOnce
    AckedWasHandled
    FirstComeKept
    VaultHolds
    TextsKeepTheirChat
    RequestsHold
CHECK_DEADLOCK FALSE
