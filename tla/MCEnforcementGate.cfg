CONSTANTS
    Holds = {open, closed}
    Reviewers = {r1, r2}
    Mode <- ModeOf
    MaxPolls = 2
    open = open
    closed = closed
SPECIFICATION GateLiveSpec
INVARIANTS
    
    RefusedForAReason
PROPERTIES
    NeverReopened
    HoldsSettle
    CallReturns
CHECK_DEADLOCK FALSE
