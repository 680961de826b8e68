SPECIFICATION Spec
CONSTANTS
    None = None
    Jobs = {1, 2}
    Editors = {e1}
    Renderers = {d1}
    Pollers = {p1}
    Keys = {k1, k2}
    MaxVersions = 2
    MaxRevision = 2
    MaxRestarts = 0
INVARIANTS TypeOK CompletedWasRendered FinalWasApproved
CHECK_DEADLOCK FALSE
SYMMETRY TimelineSymmetry
