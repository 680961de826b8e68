SPECIFICATION FairSpec
CONSTANTS
    None = None
    Editors = {e1}
    Confirmers = {}
    Generators = {g1, g2}
    Sources = {s1, s2}
    Kinds = {"link"}
    Texts = {t1}
    Keys = {k1}
    MaxActive = 2
    MaxRevision = 2
    MaxCrashes = 0
    Resends = FALSE
INVARIANTS
    AnswersAgree
    ReadyIsUsable
PROPERTIES
    KeepsPromise
    HandoffSettles
    RetrySettles
CHECK_DEADLOCK FALSE
