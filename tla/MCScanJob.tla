------------------------------ MODULE MCScanJob ------------------------------
EXTENDS ScanJob, TLC

Symmetry == Permutations(Controllers) \cup Permutations(Pids)
==============================================================================
