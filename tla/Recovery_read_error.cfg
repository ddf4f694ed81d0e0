\* An iterator of the constructor meets a read error.
SPECIFICATION Spec
CONSTANTS
  Base = 2
  Width = 3
  BatchSize = 4
  MaxPuts = 3
  IteratorMayFail = TRUE
INVARIANT ValidIsInitialized
CHECK_DEADLOCK FALSE
