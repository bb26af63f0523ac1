SPECIFICATION SysSpec
CONSTANTS
  n1 = n1
  n2 = n2
  d1 = d1
  PFS_MAX_FILES = 1
  PFS_DATA_END = 5
  ShortNames = {n1}
  LongNames = {}
  Clip <- MCNoClip
  NoName = NoName
  Data = {d1}
  MaxChunks = 2
  BufChunks = 1
  Faults = {"read", "write", "lost"}
  Garbage <- MCGarbage
  ZERO_END = 4
  NoMarker = NoMarker
  Tails = {"a", "b"}
INVARIANTS
  SysTypeOK
PROPERTIES
  VerifiedDiskIsMarked
  ReachesPrompt
