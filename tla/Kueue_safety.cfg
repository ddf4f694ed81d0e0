SPECIFICATION Spec
CONSTANTS
  p1 = p1
  p2 = p2
  c1 = c1
  c2 = c2
  v1 = v1
  v2 = v2
  NoThread = NoThread
  NoValue = NoValue
  Threads = {p1, c1, c2}
  Calls <- MixedCalls
  Values = {v1, v2}
  Recovered <- EmptyOrOne
  KeyLimit = 3
  StoreMayFail = TRUE
  EraseAnyKey = FALSE
CHECK_DEADLOCK FALSE
SYMMETRY ValueSymmetry
INVARIANTS
  TypeOK
  LocksComeFree
  StoredIsWindow
  CountIsMessages
  TotalsBalance
  FetchFindsMessage
  ErasesWhatWasRead
PROPERTIES
  NoOverwrite
  TrueEraseRemoves
  ImplementsFifo
