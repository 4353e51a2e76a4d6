SPECIFICATION FairSpec
CONSTANTS
    a = a
    b = b
    p = p
    Member = {a, b}
    Faulty = {}
    Payload = {p}
    MaxRound = 2
    Roster <- FixedRoster
    MaxPending = 64
    LagRounds = 1
    MaxRestarts = 0
    MaxRefusals = 0
    MaxInFlight = 2
PROPERTIES
    LagBounded
CHECK_DEADLOCK FALSE
