SPECIFICATION FairSpec
CONSTANTS
  CThreads = {c1, c2}
  GoThreads = {g1}
  NoOne = NoOne
  NULL = NULL
  Blocks = {b1, b2}
  AllocSizes = {0, 1}
  Requests = {0, 1, 2}
INVARIANTS TypeOK LockOwned QuiescentHeap
PROPERTIES ReallocExact LockReleased
\* a process that was killed, or that makes no more calls, stops
CHECK_DEADLOCK FALSE
