SPECIFICATION Spec
CONSTANTS
    Refs = {r1}
    NoRef = NoRef
    MaxAttempts = 3
    MaxFaults = 3
INVARIANTS
    HolderNeverRefunded
    ToldAtMostOnce
    CallsBounded
PROPERTIES
    NeverReopened
    RefundEnds
CHECK_DEADLOCK FALSE
