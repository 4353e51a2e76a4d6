SPECIFICATION Spec
CONSTANTS
    a = a
    b = b
    c = c
    d = d
    p = p
    q = q
    Member = {a, b, c, d}
    Faulty = {d}
    Round = {1, 2}
    Payload = {p, q}
    Roster <- FixedRoster
SYMMETRY Symmetry
INVARIANTS
    Agreement
CHECK_DEADLOCK FALSE
