\* Two users, two keys, two requests at a time; a key is used before and after a tick.
SPECIFICATION Spec
CONSTANTS
    Users = {u1, u2}
    Keys = {a1, a2}
    Threads = {t1, t2}
    Nobody = Nobody
    MaxTime = 2
SYMMETRY Symmetry
INVARIANTS
    HasAdmin
    KeysSound
PROPERTIES
    ActsAtomically
    UsageMonotone
\* A deleted project takes no more requests: the system may stop.
CHECK_DEADLOCK FALSE
