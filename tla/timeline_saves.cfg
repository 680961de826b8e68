SPECIFICATION Spec
CONSTANTS
    None = None
    Jobs = {1, 2}
    Editors = {e1, e2}
    Renderers = {}
    Pollers = {}
    Keys = {k1}
    MaxVersions = 2
    MaxRevision = 2
    MaxRestarts = 0
INVARIANT EveryEditCounts
CHECK_DEADLOCK FALSE
