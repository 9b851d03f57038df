CONSTANTS
    Spans = {s1, s2, s3, s4}
    Tasks = {t1, t2, t3}
    None = None
SPECIFICATION Spec
SYMMETRY Symmetry
INVARIANTS
    ChainHolds
    LostForAReason
    LateOnlyAcrossTasks
CHECK_DEADLOCK FALSE
