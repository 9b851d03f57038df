CONSTANTS
    Spans = {s1, s2}
    Producers = {p1, p2}
    Worker = worker
    Flushers = {f1}
    Closers = {k1, k2}
    BatchSize = 2
    MaxAttempts = 2
SPECIFICATION LiveSpec
INVARIANTS
    Accounted
PROPERTIES
    EverySpanSettled
CHECK_DEADLOCK FALSE
