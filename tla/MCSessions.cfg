\* Five requests of one user, each a login or a logout.
SPECIFICATION SessionsSpec
CONSTANTS
    Requests = {r1, r2, r3, r4, r5}
    Profiles = {p, q}
    None = None
SYMMETRY RequestSymmetry
INVARIANTS
    EndedStaysEnded
PROPERTIES
    OnlyLogoutsEndSessions
CHECK_DEADLOCK FALSE
