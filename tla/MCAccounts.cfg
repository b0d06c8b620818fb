SPECIFICATION Spec
CONSTANTS
    Users = {u1}
    Administrators = {}
    Tokens = {t1, t2, t3}
    NoToken = NoToken
    Requests = {q1, q2}
    MaxPasswords = 1
INVARIANTS
    RedeemedOnce
    OldSessionsEnd
    SanctionsStand
    PurgedForGood
SYMMETRY MCSymmetry
CHECK_DEADLOCK FALSE
