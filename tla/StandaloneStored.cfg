SPECIFICATION StandaloneSpec
CONSTANTS
    RelayLanes = {c1}
    MaxClients = 1
    RelayPending = 1
    RelayMailLimit = 3
    MaxDeposits = 3
    MaxEnds = 0
PROPERTY StoredArrives
CHECK_DEADLOCK FALSE
