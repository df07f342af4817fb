SPECIFICATION Spec
CONSTANTS
  LoadOrder <- MCOrder
  Tables <- MCTables
  Meant <- Apart
  Unconfigured = {"u"}
  Metrics = {"m1", "m2", "m3"}
  Params = {"p"}
  SetNames = {"s"}
  Ids = {"x"}
  CheckForms <- MCCheckForms
  EntryForms <- MCEntryForms
  SetForms <- MCSetForms
  Objects = {"t"}
  Proposals <- MCProposals
  MaxEdits = 3
INVARIANTS
  FilesInv
  ValidateForeseesLoad
  AddedChecksLoad
  MigrationKeepsMeaning
  MigrationConverges
CHECK_DEADLOCK FALSE
