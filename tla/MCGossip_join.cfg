SPECIFICATION Spec
CONSTANTS
    CoinRoundFrequency = 12
    Coin <- MCCoin
    Replica = {1, 2}
    Genesis = {1, 2}
    Histories <- NoHistory
    MaxEvents = 9
    MaxChain <- AnyChain
    Timestamp <- MCTimestamp
    AddOps <- JoinOps
INVARIANT RoundsAgree
CHECK_DEADLOCK FALSE
