\* Keys of three bits, up to seven puts, a sync every fourth write.
SPECIFICATION Spec
CONSTANTS
  Base = 2
  Width = 3
  BatchSize = 4
  MaxPuts = 7
  IteratorMayFail = FALSE
INVARIANTS TypeOK KeyOrder BoundsRecovered InOrder NoneVanishes ReappearBounded
PROPERTIES FailureUndoesFew ImplementsDurable
