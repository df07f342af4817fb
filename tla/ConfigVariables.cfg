SPECIFICATION Spec
CONSTANTS
  LoadOrder <- MCOrder
  Tables <- MCTables
  Meant <- Collides
  Unconfigured = {"u"}
  Metrics = {"m1", "m2", "m3"}
  Params = {"p"}
  SetNames = {"s"}
  Ids = {"x"}
  CheckForms <- MCCheckForms
  EntryForms <- MCEntryForms
  SetForms <- MCSetForms
  Objects = {"t"}
  Proposals <- MCProposals
  MaxEdits = 3
INVARIANT
  AddedChecksLoad
CHECK_DEADLOCK FALSE
