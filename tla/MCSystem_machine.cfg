SPECIFICATION SysSpec
CONSTANTS
  n1 = n1
  n2 = n2
  d1 = d1
  PFS_MAX_FILES = 2
  PFS_DATA_END = 6
  ShortNames = {n1, n2}
  LongNames = {}
  Clip <- MCNoClip
  NoName = NoName
  Data = {d1}
  MaxChunks = 2
  BufChunks = 1
  Faults = {}
  Garbage = {}
  ZERO_END = 5
  NoMarker = NoMarker
  Tails = {"a", "b"}
SYMMETRY Interchangeable
INVARIANTS
  FilesWholeOrGone
  StaleBitmapIsSafe
