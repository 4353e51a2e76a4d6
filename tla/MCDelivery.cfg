SPECIFICATION RetentionSpec
CONSTANTS
    CoinRoundFrequency = 3
    Coin <- MCCoin
    Replica = {0}
    Genesis = {1, 2, 3, 4}
    Histories <- MCHistories
    MaxEvents = 0
    MaxChain <- AnyChain
    Timestamp <- MCTimestamp
    AddOps <- NoOps
    SignedWindowRounds = 0
INVARIANTS RoundsAsDefined  VotesComplete OrderAsDefined ParentsKept TransferAccepted
CHECK_DEADLOCK FALSE
