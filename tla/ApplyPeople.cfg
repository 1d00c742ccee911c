CONSTANTS
  this = this
  other = other
  next = next
  elsewhere = elsewhere
  s1 = s1
  s2 = s2
  Procs = {i1}
  Proposals = {this, next}
  Sessions = {s1, s2}
  SessionOf <- OfSession
  From <- Starts
  To <- Stops
  Origin <- Begin
  Empty = {next}
  Edits = {e1}
  SharedLock = TRUE
  None = None
  MaxSyncs = 1
  MaxStops = 1
  MaxRestores = 1
SPECIFICATION FairSpec
CHECK_DEADLOCK FALSE
PROPERTIES EditsStay CursorFollowsFiles Resumes
