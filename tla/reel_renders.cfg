SPECIFICATION FairSpec
CONSTANTS
    None = None
    Jobs = {1, 2}
    Creators = {c1}
    Watchers = {w1}
    Contents = {x1}
    MaxRestarts = 1
    MaxCrashes = 1
INVARIANTS TypeOK CompletedHasVideo ExportWasRendered
PROPERTIES KeepsPromise ReelSettles
CHECK_DEADLOCK FALSE
