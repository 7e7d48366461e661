\* Two keys, so that a delta can leave one out; four runs and one edit.
SPECIFICATION Spec
CONSTANTS
    Keys = {k1, k2}
    Values = {v1, v2}
    None = None
    Removed = Removed
    MaxEdits = 1
    MaxRuns = 4
SYMMETRY Symmetry
CHECK_DEADLOCK FALSE
INVARIANTS
    IndexHonest
    PushDelivers
    UnsettledIsCovered
