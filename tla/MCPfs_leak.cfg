SPECIFICATION Spec
CONSTANTS
  n1 = n1
  n2 = n2
  n3 = n3
  d1 = d1
  d2 = d2
  PFS_MAX_FILES = 2
  PFS_DATA_END = 6
  ShortNames = {n1, n2}
  LongNames = {}
  Clip <- MCNoClip
  NoName = NoName
  Data = {d1}
  MaxChunks = 2
  BufChunks = 1
  Faults = {"write"}
  Garbage = {}
INVARIANT
  FreeBlocksExact
