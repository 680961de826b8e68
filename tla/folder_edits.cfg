SPECIFICATION Spec
CONSTANTS
    None = None
    Editors = {e1, e2}
    Confirmers = {c1}
    Generators = {}
    Sources = {s1, s2}
    Kinds = {"text", "file"}
    Texts = {t1}
    Keys = {k1}
    MaxActive = 2
    MaxRevision = 2
    MaxCrashes = 1
    Resends = TRUE
INVARIANTS
    TypeOK
    EditsAreSerial
CHECK_DEADLOCK FALSE
SYMMETRY FolderSymmetry
