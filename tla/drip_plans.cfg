SPECIFICATION FairSpec
CONSTANTS
    Files = {f1, f2}
    OptIn = TRUE
    OptedIn = {f1, f2}
    Stops = TRUE
    Moves = {"approved", "publishing", "published"}
    Results = {"published", "failed"}
    MaxTime = 2
    MaxJobs = 2
    Mishaps = 2
INVARIANTS TypeOK OneLiveJob PublishedIsOut
PROPERTY DueIsReleased
CHECK_DEADLOCK FALSE
