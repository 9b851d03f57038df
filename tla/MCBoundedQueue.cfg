CONSTANTS
    Spans = {n1, n2, c1}
    Critical = {c1}
    Producers = {p1, p2}
    Closers = {k1, k2}
    Flushers = {f1}
    MaxSize = 2
    None = None
SPECIFICATION Spec
SYMMETRY Symmetry
INVARIANTS
    TypeOK
    StrandedOnlyLate
    FlushHandsOver
    ProducerOrder
PROPERTIES
    CustodyKept
