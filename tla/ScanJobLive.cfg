SPECIFICATION FairSpec
CONSTANTS
  Controllers = {c1}
  Pids = {p1, p2}
  NoPid = noPid
  Free = free
  Grace = 1
  MaxJobs = 2
  MaxTime = 3
  LastStart = 1
  MaxFaults = 1
  PidReuse = FALSE
PROPERTY PollingEnds
