\* Two strings and two clients in three scenes.
SPECIFICATION Spec
CONSTANTS
    Strings = {a, b}
    k = k
    l = l
    m = m
    x = x
    y = y
    Keys = {k, l, m}
    Texts = {x, y}
    Clients = {c1, c2}
    Scenes <- ThreeScenes
    None = None
SYMMETRY Symmetry
INVARIANTS
    LogSound
    PreviewsAgree
PROPERTIES
    UndoIsExact
    MarkersTellTheTruth
CHECK_DEADLOCK FALSE
