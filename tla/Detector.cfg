SPECIFICATION MCSpec
CONSTANTS
    MinInterval = 4
    BanThreshold = 10
    BanTime = 120
    HeartbeatInterval = 5
    StartDelay = 2
    HeartbeatTimeout = 15
    CheckInterval = 3
    RetryLimit = 3
    RequiredFailures = 3
    MaxBackoff = 5
    RecentWindow = 60
    MaxDelay = 1
    MaxLost = 2
    MaxLoops = 2
    MaxAnnounced = 1
    Peer = {a, b}
    ListsPeers = FALSE
    MaxFailures = 2
    MaxRetries = 2
    EmptyChecks = 2
    MaxCuts = 2
    a = a
    b = b
INVARIANT DetectedInTime
PROPERTIES NoFalseAlarm PeersReturn
