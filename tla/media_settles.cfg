SPECIFICATION FairSpec
CONSTANTS
    None = None
    Creators = {c1}
    Uploaders = {u1}
    Aborters = {}
    Removers = {}
    Reconcilers = {k1}
    MaxAttempts = 2
    MaxCrashes = 1
    Multipart = TRUE
    Replaces = FALSE
    LostReplies = TRUE
    Prompt = TRUE
PROPERTIES SessionSettles SourceSettles
CHECK_DEADLOCK FALSE
