SPECIFICATION FPSpec
CONSTANTS
  Names = {memory}
  Prefixes = {memory}
  InitialLen = 2
  BufSize = 3
  K64 = 4
  M1 = 6
  M16 = 8
  MaxInt32 = 15
  MaxInt64 = 31
  MemLimit = 24
  MaxWrites = 5
  WriteSizes = {}
  DiskSizes = {}
  ReadSizes = {}
  MemOffsets = {}
  DiskOffsets = {}
  Totals <- Lengths
INVARIANTS ShortFingerprintIsWhole SizeWithinBuffer
\* once the fingerprint is taken the handle is gone
CHECK_DEADLOCK FALSE
