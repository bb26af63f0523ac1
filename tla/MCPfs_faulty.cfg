SPECIFICATION HSpec
CONSTANTS
  n1 = n1
  n2 = n2
  long = long
  d1 = d1
  PFS_MAX_FILES = 2
  PFS_DATA_END = 5
  ShortNames = {n1, n2}
  LongNames = {long}
  Clip <- MCClip
  NoName = NoName
  Data = {d1}
  MaxChunks = 2
  BufChunks = 1
  Faults = {"read","write","lost"}
  Garbage <- MCGarbage
INVARIANTS
  TypeOK
  ChainsAscend
  UniqueUntilMisread
  OwnedUnlessHarmed
PROPERTIES
  MountRepairs
  CommandsTerminate
