SPECIFICATION Spec
CONSTANTS
    Key = {"a", "b"}
    Value = {"x", "y"}
    MaxRound = 3
    Ops <- MCOps
    Anchors <- NoAnchors
    MaxRestores = 1
    MaxFaults = 2
CHECK_DEADLOCK FALSE
INVARIANTS
    
    SignedWithSnapshot
