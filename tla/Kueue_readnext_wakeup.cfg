SPECIFICATION FairSpec
CONSTANTS
  p1 = p1
  p2 = p2
  c1 = c1
  c2 = c2
  v1 = v1
  v2 = v2
  NoThread = NoThread
  NoValue = NoValue
  Threads = {p1, c1, c2}
  Calls <- ReaderCalls
  Values = {v1, v2}
  Recovered <- Empty
  KeyLimit = 2
  StoreMayFail = FALSE
  EraseAnyKey = FALSE
CHECK_DEADLOCK FALSE
PROPERTIES
  SleepingTakeIsWoken
