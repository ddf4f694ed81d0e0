SPECIFICATION Spec
CONSTANTS
  k1 = k1
  k2 = k2
  t1 = t1
  t2 = t2
  v1 = v1
  NoValue = NoValue
  EmptyValue = EmptyValue
  NoKind = NoKind
  Threads = {t1, t2}
  Calls <- Ops
  Kinds = {k1, k2}
  DefaultKind = k1
  Keys = {1}
  Values = {v1, EmptyValue}
  BatchSize = 2
  MaxUnsynced = 2
  DbMayFail = TRUE
  SyncMayFail = TRUE
  OpenMayFail = TRUE
VIEW View
SYMMETRY Symmetry
CHECK_DEADLOCK FALSE
INVARIANTS
  TypeOK
  LossBounded
  KindsAreFamilies
PROPERTIES
  StatusTellsEffect
  CallsFollowNoNull
