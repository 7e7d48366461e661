\* Two strings that compete for two keys, and one string that is reviewed; two clients.
SPECIFICATION Spec
CONSTANTS
    Strings = {a, b}
    Keys = {k, l}
    Texts = {x, y}
    Clients = {c1, c2}
    Scenes <- TwoScenes
    None = None
SYMMETRY Symmetry
INVARIANTS
    ExportSound
PROPERTIES
    LeavesOnPurpose
    EditsSurvive
    PublishedAsReviewed
    NoLostEdit
CHECK_DEADLOCK FALSE
