SPECIFICATION Spec
CONSTANTS
  Docs = {"review"}
  Edits = {e1, e2}
  Formats = {{"edit", "scan"}, {"generation"}}
  Editable <- HumanFiles
  Window = FALSE
  TornPointer = {"edit", "scan"}
  NoDest = noDest
  MaxGen = 2
  MaxFaults = 2
SYMMETRY Symmetry
INVARIANTS TypeOK EditsStay NeverMixed OutcomesAgree
PROPERTY Atomicity
