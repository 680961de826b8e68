SPECIFICATION Spec
CONSTANTS
    None = None
    Creators = {c1, c2}
    Uploaders = {u1, u2}
    Aborters = {a1}
    Removers = {}
    Reconcilers = {}
    MaxAttempts = 2
    MaxCrashes = 1
    Multipart = FALSE
    Replaces = TRUE
    LostReplies = FALSE
    Prompt = TRUE
INVARIANTS SourceFollowsSession CompensationAccounted ReplacementTakesOver
PROPERTY ImplementsOutcome
CHECK_DEADLOCK FALSE
SYMMETRY ActorSymmetry
