\* Pairs of requests for one string, and lone requests for two strings.
SPECIFICATION FairSpec
CONSTANTS
    j1 = j1
    j2 = j2
    a = a
    b = b
    Jobs = {j1, j2}
    Plans <- FourPlans
    Strings = {a, b}
    Texts = {x, y}
    Sweepers = {k1}
    None = None
    Person = Person
    MaxFaults = 1
INVARIANTS
    OutcomeTruthful
PROPERTIES
    TextsMatch
    NoneReplaced
    OutcomeFinal
    Progress
CHECK_DEADLOCK FALSE
