SPECIFICATION Spec
CONSTANTS
  CThreads = {c1}
  GoThreads = {g1}
  NoOne = NoOne
  NULL = NULL
  Blocks = {b1, b2}
  AllocSizes = {0, 1}
  Requests = {0, 1, 2}
INVARIANT SliceValid
\* a process that makes no more calls stops
CHECK_DEADLOCK FALSE
