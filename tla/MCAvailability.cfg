SPECIFICATION MCSpec
CONSTANTS
    p1 = p1
    p2 = p2
    p3 = p3
    Peer = {p1, p2}
    Genesis = {p1}
    Modes = {0, 1}
    BackoffBase = 1
    BackoffCeiling = 3
    StreakTtl = 2
    MaxExp = 2
    SmallRoster = 2
    SmallCapacity = 1
    LargeRoster = 4
    LargeCapacity = 2
    Process = {p1, p2, p3}
    FormatOf <- TwoFormats
    None = None
    MaxKills = 2
INVARIANTS
    SocketReaches
    FormatKept
PROPERTIES
    PeersSyncedAgain
    
