SPECIFICATION Spec
CONSTANTS
    Users = {u1, u2}
    Administrators = {u1, u2}
    Tokens = {t1}
    NoToken = NoToken
    Requests = {q1, q2}
    MaxPasswords = 0
PROPERTIES
    LastAdminStays
CHECK_DEADLOCK FALSE
