SPECIFICATION Spec
CONSTANTS
    Requests = {r1, r2, r3}
    Fingerprints = {f1, f2}
    MaxRuns = 3
    NoResponse = NoResponse
INVARIANTS
    OneRuns
    RunsExcused
    ReplayIsOwn
SYMMETRY MCSymmetry
