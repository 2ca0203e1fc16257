SPECIFICATION Spec
CONSTANTS
  Files <- Music
  Faults = {}
  MaxShort = 0
INVARIANT JsonReleased
\* one file, and then the process is over
CHECK_DEADLOCK FALSE
