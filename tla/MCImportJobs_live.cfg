\* An undo job and a dry run under fairness; one fault.
SPECIFICATION FairSpec
CONSTANTS
    j1 = j1
    j2 = j2
    s1 = s1
    k1 = k1
    Jobs = {j1, j2}
    DryRuns = {j2}
    Undos = {j1}
    Syncs = {}
    Sweepers = {k1}
    MaxFaults = 1
PROPERTIES
    JobsEnd
    LockComesFree
CHECK_DEADLOCK FALSE
