\* Two strings of one key, two modules, files of every shape.
SPECIFICATION CatalogSpec
CONSTANTS
    Strings = {1, 2}
    Modules = {1, 2}
    k = k
    l = l
    m = m
    n = n
    x = x
    Slugs = {m, n}
    Keys = {k}
    Texts = {Blank, x, k}
    Blank = Blank
    None = None
    Starts <- TwoPlaces
    Files <- AllFiles
    Kinds = {"create", "save", "publish", "unpublish", "delete", "restore", "discard", "modules", "policy", "layout", "import"}
    Layouts = {TRUE, FALSE}
    Policies = {TRUE, FALSE}
    MaxSteps = 3
INVARIANTS
    CatalogSound
    RoundTrip
    PredictionsHold
PROPERTIES
    ImportsReviveNothing
CHECK_DEADLOCK FALSE
