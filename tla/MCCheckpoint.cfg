SPECIFICATION Spec
CONSTANTS
    a = a
    b = b
    p = p
    q = q
    Member = {a, b}
    Faulty = {}
    Payload = {p, q}
    MaxRound = 2
    Roster <- GrowingRoster
    MaxPending = 64
    LagRounds = 0
    MaxRestarts = 1
    MaxRefusals = 1
    MaxInFlight = 1
SYMMETRY Symmetry
 
PROPERTY RefinesAgreement
CHECK_DEADLOCK FALSE
