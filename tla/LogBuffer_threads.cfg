SPECIFICATION FairSpec
CONSTANTS
  Threads = {t1, t2}
  NoOne = NoOne
  Blocks = {b1, b2, b3}
  NULL = NULL
  Lengths = {0, 2}
  Levels = {0, 5}
  MaxCalls = 3
INVARIANTS PrintedWhole RoomForMessage OneBlockUnlessLost EveryMessageAccounted
PROPERTY MutexReleased
\* a process that logs no more stops
CHECK_DEADLOCK FALSE
