\* A client deletes the queue that get returned.
SPECIFICATION DeletingSpec
CONSTANTS
  Threads = {t1, t2}
  Ids = {i1, i2}
  Queues = {q1, q2, q3}
  KeyLimit = 2
  StoreMayFail = TRUE
  NoThread = NoThread
  NoQueue = NoQueue
  NoId = NoId
SYMMETRY Symmetry
INVARIANT DeletedOnce
CHECK_DEADLOCK FALSE
