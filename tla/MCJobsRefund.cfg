SPECIFICATION Spec
CONSTANTS
    Artisans = {a1, a2}
    NoArtisan = NoArtisan
    Requests = {q1, q2}
    MaxPayments = 2
    MaxClobbers = 1
    Disputed = FALSE
INVARIANT NeverRefundedAndSent
CHECK_DEADLOCK FALSE
