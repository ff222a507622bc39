SPECIFICATION LockSpec
CONSTANTS
    Reqs = {r1, r2, r3, r4}
    MaxConcurrent = 2
INVARIANTS
    PermitsAccounted
PROPERTY AdmissionSpec
