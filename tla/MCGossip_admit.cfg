SPECIFICATION Spec
CONSTANTS
    CoinRoundFrequency = 12
    Coin <- MCCoin
    Replica = {1, 2}
    Genesis = {1, 2}
    Histories <- NoHistory
    MaxEvents = 9
    MaxChain <- ShortChain
    Timestamp <- MCTimestamp
    AddOps <- JoinOps
INVARIANTS RoundsAgreeToJoin JoinsAgree
CHECK_DEADLOCK FALSE
