SPECIFICATION Spec
CONSTANTS
  Natives <- Streams
  Requests <- Changes
  Dithers = {"none", "high_shibata"}
  Threads = {t1, t2}
  NONE = NONE
  NULL = NULL
  MaxCalls = 5
INVARIANTS TypeOK RequestHonoured SetupMeetsTarget OneContext LevelRestored
\* a program calls as often as it likes, and then no more
CHECK_DEADLOCK FALSE
