SPECIFICATION FairSpec
CONSTANTS
  Names = {memory, path}
  Prefixes = {memory}
  InitialLen = 2
  K64 = 4
  M1 = 6
  M16 = 8
  MaxInt32 = 15
  MaxInt64 = 31
  MemLimit = 24
  MaxWrites = 2
  WriteSizes = {3, 12}
  DiskSizes = {2}
  ReadSizes = {2}
  MemOffsets <- SeekOffsets
  DiskOffsets <- FileOffsets
INVARIANT TypeOK
PROPERTIES MovesOnlyOnSuccess NeverShrinks CallReturns DiskIsFile
\* after audiofs_avio_close the handle is gone
CHECK_DEADLOCK FALSE
