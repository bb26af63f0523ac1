SPECIFICATION Spec
CONSTANTS
  Names = {"a", "b"}
  TypedPaths <- MCPlainPaths
  InitDirs <- MCInitDirs
  InitFiles <- MCInitFiles
  MAX_TOKENS = 4
  MAX_NODES = 5
  OpenFails = FALSE
PROPERTY
  DotDotIsParent
