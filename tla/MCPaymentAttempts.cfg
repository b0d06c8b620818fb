SPECIFICATION Spec
CONSTANTS
    Refs = {own, r1, r2}
    OwnRef = own
    NoRef = NoRef
    SavedKinds = {"mobile_money"}
    Refusals = TRUE
INVARIANTS
    OneActiveAttempt
    MoneyAccounted
PROPERTIES
    HolderNeverReplaced
    SettledStays
SYMMETRY MCSymmetry
CHECK_DEADLOCK FALSE
