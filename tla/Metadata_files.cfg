SPECIFICATION FairSpec
CONSTANTS
  Files <- UpToTwo
  Faults = {"open", "info", "transcode", "empty", "bytes", "memory"}
  MaxShort = 1
INVARIANTS TypeOK AnswerIsComplete InputAndHandlesClosed
PROPERTY Answered
\* one file, and then the process is over
CHECK_DEADLOCK FALSE
