SPECIFICATION Spec
CONSTANTS
  n1 = n1
  n2 = n2
  n3 = n3
  d1 = d1
  d2 = d2
  PFS_MAX_FILES = 2
  PFS_DATA_END = 7
  ShortNames = {n1, n2, n3}
  LongNames = {}
  Clip <- MCNoClip
  NoName = NoName
  Data = {d1, d2}
  MaxChunks = 3
  BufChunks = 2
  Faults = {}
  Garbage = {}
SYMMETRY Interchangeable
INVARIANTS
  CrashConsistent
  NoCrossLink
  BitmapCovers
  UniqueNames
PROPERTIES
  MountExact
  ImplementsFileStore
