SPECIFICATION CodesSpec
CONSTANTS
    Purposes = {"login", "password_reset"}
    Callers = {r1, r2}
    MaxAttempts = 2
    MaxPerHour = 1
    MaxCodes = 2
INVARIANTS
    TriesBounded
    
PROPERTIES
    ImplementsOneTimeCode
SYMMETRY MCSymmetry
CHECK_DEADLOCK FALSE
