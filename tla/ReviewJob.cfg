SPECIFICATION FairSpec
CONSTANTS
    Jobs = {j1}
    Workers = {w1, w2}
    Sessions = 2
    MaxLine = 2
    MaxAttempts = 2
    NoJob = NoJob
    NoReceipt = NoReceipt
CHECK_DEADLOCK FALSE
INVARIANTS TypeOK ProgressIsAccepted ProgressIsSynced OwnerKeepsJob
PROPERTY JobsEnd
