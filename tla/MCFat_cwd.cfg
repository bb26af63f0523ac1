SPECIFICATION Spec
CONSTANTS
  Names = {"a", "b"}
  TypedPaths <- MCTypedPaths
  InitDirs <- MCInitDirs
  InitFiles <- MCInitFiles
  MAX_TOKENS = 4
  MAX_NODES = 5
  OpenFails = TRUE
INVARIANTS
  TypeOK
  PromptTellsWhere
PROPERTIES
  PlainUpGoesUp
