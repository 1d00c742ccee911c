SPECIFICATION FairSpec
CONSTANTS
  Docs = {"review"}
  Edits = {e1}
  Formats = {{"edit", "scan"}}
  Editable <- HumanFiles
  Window = FALSE
  TornPointer = {"edit", "scan"}
  NoDest = noDest
  MaxGen = 2
  MaxFaults = 1
PROPERTY RecoveryEnds
