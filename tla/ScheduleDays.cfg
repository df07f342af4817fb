SPECIFICATION Spec
CONSTANTS
  LastDay = 8
  Midnight <- FallBack
  FirstWeekday = 4
  Workdays = {0, 1, 2, 3, 4}
  CountryHolidays = {5, 6}
  Extra = {4}
  Remove = {6}
  Instants <- MCInstants
  CheckSpecs <- MCCheckSpecs
  None = None
  MaxRuns = 3
  FetchLimit = 2
INVARIANTS
  LagCountsBusinessTime
  SameWeekdayBaseline
  FailuresStayVisible
PROPERTIES
  LagFallsOnlyAfterOffDays
CHECK_DEADLOCK FALSE
