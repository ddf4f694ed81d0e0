SPECIFICATION FairSpec
CONSTANTS
  p1 = p1
  p2 = p2
  c1 = c1
  c2 = c2
  v1 = v1
  v2 = v2
  NoThread = NoThread
  NoValue = NoValue
  Threads = {p1, p2, c1, c2}
  Calls <- TakerCalls
  Values = {v1}
  Recovered <- Empty
  KeyLimit = 2
  StoreMayFail = TRUE
  EraseAnyKey = FALSE
CHECK_DEADLOCK FALSE
INVARIANTS
  NoLostWakeup
PROPERTIES
  SleepingTakeIsWoken
  TimedCallReturns
  PutAndClearReturn
