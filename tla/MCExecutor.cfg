SPECIFICATION MCSpec
CONSTANTS
    Did = {d}
    Index = {i1, i2, i3}
    Key = {k1, k2}
    None = None
    MaxFaults = 1
    Data = {1, 2}
    MaxLeaves = 6
    StateKey = {"a", "b", "c", "d"}
    StateValue = {1, 2}
    DEPTH = 3
    path_of <- MCpath_of
    U64 = 2
    U32 = 1
    U16 = 1
    HashLen = 1
    KeyLen = 1
    SigLen = 2
    BlsKeyLen = 1
    BlsSigLen = 2
    UuidLen = 1
    Ipv4Len = 1
    Ipv6Len = 2
    MaxStateBytes = 3
    MaxFrameSize = 200
    MaxMethods = 2
    Siblings = 2
    Kinds = {"frame", "logged", "checkpoint", "roster", "tx", "root", "sub", "proof", "merkle", "state", "stream"}
    NewByte = {0, 1, 2, 58, 209, 255}
SYMMETRY SlotSymmetry
CHECK_DEADLOCK FALSE
INVARIANTS
    Committed
    ControlMirrors
    LogProofsExact
    RecordsBind
    StateTreeBinds
    
    OneEncoding
    PayloadsBind
PROPERTIES
    AppendOnly
    Retired
