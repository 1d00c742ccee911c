CONSTANTS
    Cands = {c}
    Old = Old
    None = None
    MaxView = 3
    MaxRev = 3
    NJobs = 1
    MaxFaults = 2
SPECIFICATION Spec
INVARIANTS TypeOK ConfirmationsSettle ResultsBelong
