SPECIFICATION Spec
CONSTANTS
    Disputes = {d1, d2}
    NoDispute = NoDispute
    Admins = {a1, a2}
    NoAdmin = NoAdmin
    Amount = 2
    MaxFaults = 1
INVARIANTS
    OneMovement
    NoPhantomVerdict
PROPERTIES
    ClosedStands
    ImplementsClaim
SYMMETRY MCSymmetry
CHECK_DEADLOCK FALSE
