SPECIFICATION Spec
CONSTANTS
    Artisans = {a1, a2}
    NoArtisan = NoArtisan
    Requests = {q1, q2, q3}
    MaxPayments = 2
    MaxClobbers = 1
    Disputed = TRUE
INVARIANTS
    PayeeIsEngaged
    CompletedOnce
    StartedWasPaid
    SentForCompleted
SYMMETRY MCSymmetry
CHECK_DEADLOCK FALSE
