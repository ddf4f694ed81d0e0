SPECIFICATION Spec
CONSTANTS
  k1 = k1
  k2 = k2
  t1 = t1
  t2 = t2
  v1 = v1
  NoValue = NoValue
  EmptyValue = EmptyValue
  NoKind = NoKind
  Threads = {t1}
  Calls <- CountedCalls
  Kinds = {k1}
  DefaultKind = k1
  Keys = {1}
  Values = {v1, EmptyValue}
  BatchSize = 2
  MaxUnsynced = 1
  DbMayFail = TRUE
  SyncMayFail = FALSE
  OpenMayFail = TRUE
CHECK_DEADLOCK FALSE
INVARIANTS
  NullNeverFollowed
