SPECIFICATION Spec
CONSTANTS
  Controllers = {c1, c2}
  Pids = {p1, p2}
  NoPid = noPid
  Free = free
  Grace = 1
  MaxJobs = 2
  MaxTime = 3
  LastStart = 2
  MaxFaults = 2
  PidReuse = TRUE
SYMMETRY Symmetry
INVARIANTS TypeOK AtMostOneWorker DeclaredDeadIsDead
