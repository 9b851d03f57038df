CONSTANTS
    Spans = {n1, n2, c1}
    Critical = {c1}
    Producers = {p1, p2}
    Closers = {k1}
    Flushers = {}
    MaxSize = 1
    None = None
SPECIFICATION LiveSpec
PROPERTIES
    
    AcceptedLeavesQueue
CHECK_DEADLOCK FALSE
