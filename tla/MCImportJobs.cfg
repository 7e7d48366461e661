\* Two import jobs, one synchronous import, one sweep; one fault anywhere.
SPECIFICATION Spec
CONSTANTS
    j1 = j1
    j2 = j2
    s1 = s1
    k1 = k1
    Jobs = {j1, j2}
    DryRuns = {}
    Undos = {}
    Syncs = {s1}
    Sweepers = {k1}
    MaxFaults = 1
SYMMETRY JobSymmetry
INVARIANTS
    Serialized
    OutcomeTruthful
    NoOverwriteGap
PROPERTIES
    OutcomeFinal
    JobsAreAtomic
CHECK_DEADLOCK FALSE
