\* Three threads share a manager with two queue identifiers.
SPECIFICATION Spec
CONSTANTS
  Threads = {t1, t2, t3}
  Ids = {i1, i2}
  Queues = {q1, q2, q3}
  KeyLimit = 2
  StoreMayFail = TRUE
  NoThread = NoThread
  NoQueue = NoQueue
  NoId = NoId
SYMMETRY Symmetry
INVARIANTS TypeOK BoundsAgree OneQueuePerId MonitorCallsSafe DeletedOnce NothingLeft
CHECK_DEADLOCK FALSE
