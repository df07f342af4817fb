SPECIFICATION Spec
CONSTANTS
  Forms <- SomeForms
  NoTable = "no table"
  Descriptions <- SomeDescriptions
  Missing = Missing
  Loaded = {}
  Veiled <- JustTotals
  Edited <- JustSchema
  Picks <- AllOrOne
  MaxPresses = 2
  MaxWaiting = 2
  MaxEdits = 1
  Nothing = Nothing
CHECK_DEADLOCK FALSE
INVARIANTS
  ScreenInv
  PanelsAnswerLastPress
PROPERTIES
  EveryPressEnds
