SPECIFICATION FairSpec
CONSTANTS
    History = History
    Overview = Overview
    Ledger = Ledger
    Units = {u1, u2}
    Tampered = Tampered
    None = None
    MaxSaves = 2
    MaxFaults = 1
    Counted = {}
INVARIANTS TypeOK EditsKept SidesAgree
PROPERTIES BasesAreFinal ImplementsAtomicSync Settles
