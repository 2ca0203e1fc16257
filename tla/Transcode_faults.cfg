SPECIFICATION FairSpec
CONSTANTS
  Inputs <- AnyFile
  PathModes = {TRUE, FALSE}
  Faults = {"input", "decoders", "output", "file", "filters", "packet", "loop"}
  MaxCalls = 2
  MaxPackets = 2
  FrameCounts = {1, 2}
  FilterDelay = 1
INVARIANTS TypeOK InputOwnership MuxedInOrder HandleIsComplete
  CleanupDefinedOnceSetUp NothingLeftBehind
PROPERTY CallReturns
\* a process calls do_transcode as often as it likes, and then no more
CHECK_DEADLOCK FALSE
