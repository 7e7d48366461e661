SPECIFICATION Spec
CONSTANTS
    Clients = {importer, editor, mover, other}
    importer = importer
    editor = editor
    mover = mover
    other = other
    Strings = {1, 2, 3, 4, 5}
    Modules = {1, 2}
    k = k
    l = l
    m = m
    n = n
    p = p
    q = q
    x = x
    Slugs = {m, n}
    Keys = {k, l, p, q}
    Texts = {Blank, x, k, l, p, q}
    Blank = Blank
    None = None
    threeClients = threeClients
    fourClients = fourClients
    leavingClients = leavingClients
    renamingClients = renamingClients
    Scenes = {threeClients, fourClients, leavingClients, renamingClients}
    Requests <- AllScenes
    Setups <- BothSetups
INVARIANTS
    EngineSound
    ImportsAvoidDeadlock
PROPERTIES
    WritesAreInformed
CHECK_DEADLOCK FALSE
