SPECIFICATION Spec
CONSTANTS
  EventsLate = FALSE
  NoCopy = NoCopy
  MaxHooks = 3
INVARIANTS
  PassedIsRecovered
  RunFindsItWhole
  LeftoverIsTold
PROPERTIES
  ReadyComes
CHECK_DEADLOCK FALSE
