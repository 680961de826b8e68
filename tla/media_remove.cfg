SPECIFICATION Spec
CONSTANTS
    None = None
    Creators = {c1}
    Uploaders = {u1, u2}
    Aborters = {}
    Removers = {d1}
    Reconcilers = {k1}
    MaxAttempts = 2
    MaxCrashes = 1
    Multipart = TRUE
    Replaces = FALSE
    LostReplies = FALSE
    Prompt = FALSE
INVARIANTS TypeOK ExclusiveCompletion ReadyBacked
CHECK_DEADLOCK FALSE
SYMMETRY ActorSymmetry
