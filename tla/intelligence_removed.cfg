SPECIFICATION Spec
CONSTANTS
    Ingesters = {i1}
    Removers = {d1}
    Files = {f1, f2}
    Texts = {t1}
    Audience = {t1}
    Batch = 2
    Mishaps = 0
INVARIANT RemovedIsGone
CHECK_DEADLOCK FALSE
