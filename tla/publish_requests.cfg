SPECIFICATION FairSpec
CONSTANTS
    Publishers = {p1}
    Completers = {c1}
    Moves = {"approved", "scheduled"}
    PostStates = {"scheduled", "publishing", "published", "failed"}
    MaxRequests = 2
INVARIANTS TypeOK PostAccountedFor PublishedIsOut
PROPERTY OutcomeSettles
CHECK_DEADLOCK FALSE
