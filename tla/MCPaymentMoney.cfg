SPECIFICATION MoneySpec
CONSTANTS
    Refs = {own, r1}
    OwnRef = own
    NoRef = NoRef
    SavedKinds = {}
    Refusals = FALSE
    MaxAttempts = 1
    MaxFaults = 0
INVARIANTS
    RefundsAreDuplicates
PROPERTIES
    ImplementsRefunds
    MoneyEnds
CHECK_DEADLOCK FALSE
