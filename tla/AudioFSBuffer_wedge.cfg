SPECIFICATION FairSpec
CONSTANTS
  CThreads = {c1}
  GoThreads = {g1, g2}
  NoOne = NoOne
  NULL = NULL
  Blocks = {b1, b2}
  AllocSizes = {0, 1}
  Requests = {2}
PROPERTY ReallocReturns
\* the stop is what the property is about
CHECK_DEADLOCK FALSE
