CONSTANTS
  this = this
  other = other
  next = next
  elsewhere = elsewhere
  s1 = s1
  s2 = s2
  Procs = {i1, i2}
  Proposals = {this, other, next}
  Sessions = {s1, s2}
  SessionOf <- OfSession
  From <- Starts
  To <- Stops
  Origin <- Begin
  Empty = {}
  Edits = {}
  SharedLock = TRUE
  None = None
  MaxSyncs = 1
  MaxStops = 1
  MaxRestores = 1
SPECIFICATION Spec
CHECK_DEADLOCK FALSE
SYMMETRY Alike
INVARIANTS TypeOK VaultShowsApplied
PROPERTIES VaultNeverForgets ImplementsAtomicLedger
