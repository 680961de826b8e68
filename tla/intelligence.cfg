SPECIFICATION Spec
CONSTANTS
    Ingesters = {i1, i2}
    Removers = {d1}
    Files = {f1, f2}
    Texts = {t1}
    Audience = {t1}
    Batch = 1
    Mishaps = 1
INVARIANTS TypeOK EvidenceOnce SourceIsGone
SYMMETRY IntelligenceSymmetry
CHECK_DEADLOCK FALSE
