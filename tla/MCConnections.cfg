SPECIFICATION ConnectionsSpec
CONSTANTS
    Peers = {alice, bob}
    Author = alice
    Reporters = {}
    MaxTime = 1
    MaxEvents = 0
    MaxLosses = 1
    MaxReplays = 0
    Places = {a1, a2}
    Dialers = {d1, d2, d3}
    Redials = 1
    MaxPeerEvents = 3
    Switches = {c1, c2}
    MaxStarts = 3
    MaxBuilds = 1
    MaxOutages = 1
    Requesters = {q1, q2}
    RebuildAfter = 2
    MaxOutgoing = 3
    ReadBuf = 2
    MaxSendsInFlight = 2
    MaxBytes = 3
    MaxWrites = 4
    Gateways = {g1, g2}
    PermanentOnly = {g1}
    Slots = {tcp, udp}
    MaxUpnpEvents = 2
    NoGateway = NoGateway
PROPERTIES
    DeletionReaches
    
    OwnRelayFollowed
    StreamDelivers
    RulesAreOwned
CHECK_DEADLOCK FALSE
