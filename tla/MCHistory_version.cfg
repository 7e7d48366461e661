\* One string; a version is restored while somebody else saves.
SPECIFICATION Spec
CONSTANTS
    Strings = {a}
    k = k
    l = l
    m = m
    x = x
    y = y
    Keys = {k, l, m}
    Texts = {x, y}
    Clients = {c1, c2}
    Scenes <- VersionScene
    None = None
PROPERTIES
    VersionIsRestored
CHECK_DEADLOCK FALSE
