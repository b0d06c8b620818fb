SPECIFICATION Spec
CONSTANTS
    Bookings = {b1, b2}
    Customers = {k1, k2}
    Windows <- MCWindows
    Requests = {q1, q2}
    MaxPending = 1
    Followed = {b1}
INVARIANTS
    TypeOK
    NoDoubleBooking
    PendingCapped
    ExpiredUnbilled
    CompletedTogether
    CancelledUnbilled
SYMMETRY MCSymmetry
CHECK_DEADLOCK FALSE
