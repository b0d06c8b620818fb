SPECIFICATION Spec
CONSTANTS
    Callers = {c1, c2}
    Handlers = {h1}
    Amount = 2
    MaxChecks = 2
    MaxTransfers = 2
    MaxMethods = 2
    MaxFaults = 1
INVARIANTS
    SentOnlyIfMatched
    MoneyClaimsTrue
    AtMostOneLive
SYMMETRY MCSymmetry
CHECK_DEADLOCK FALSE
