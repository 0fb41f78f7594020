SPECIFICATION MCSpec
CONSTANTS
    Doc = {d1, d2, d3}
    MayFail = FALSE
    MaxUpdates = 2
    Worker = {w1, w2}
    Command = {p1, p2, p3, p4, g1}
    Kind <- Kinds
    Typed = {p1, g1}
    NoCommand = none
    ChannelSize = 2
    MaxConcurrency = 2
    BusSize = 1
    p2 = p2
    p3 = p3
    p4 = p4
    g1 = g1
    Message <- Messages
    MaxCuts = 1
    MaxConnections = 2
CHECK_DEADLOCK FALSE
INVARIANTS  SensorsUpToDate
PROPERTIES MailboxImplemented NodeListens
