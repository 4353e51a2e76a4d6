SPECIFICATION MCSpec
CONSTANTS
    Me = me
    Peer = {p, q}
    Clusters = {{p}, {p, q}}
    K <- AllAtOnce
    TxPerSync = 2
    MaxPending = 2
    None = None
    MaxSubmitted <- OneThenThree
    MaxOwn <- Two
    MaxRemote <- TwoThenNone
    MaxReconnects <- OneThenNone
    Self = self
    Others = {other}
    New = new
    OpRound = 2
    WindowRounds = 0
    SnapshotRounds = 0
    Clock = {0}
    MaxBirth = 5
    MaxUnlogged = 2
    MaxAccepting = 1
    MaxStops = 1
    Followed = {"pending", "joined", "reconnected"}
    Faults = {"pending", "lost", "joined", "young", "file", "unlogged", "late", "power", "gap"}
    Client = {c, d}
    Written <- Inputs
    MaxRequest = 2
    MaxConnections = 1
    MaxQueue = 1
    h1 = h1
    h2 = h2
    Order <- TwoHosts
    MaxKeys = 4
CONSTRAINT Explored
\* A bound is reached, or a process has stopped.
CHECK_DEADLOCK FALSE
INVARIANTS
    NothingLost
    NoSelfFork
    SnapshotPresent
    
    
    
    OneGenesis
    
PROPERTIES
    OwnChainGrows
