CONSTANTS
  Ext <- MCExt
  Selected <- MCSelected
  Scripts <- MCScripts
  Paths <- MCPaths
  None = "none"
  Null = "null"
SPECIFICATION Spec
CHECK_DEADLOCK FALSE
INVARIANTS NoResponseLost ExtensionsComplete LastWordWins BadPatchIsCaught
PROPERTIES RefinesFanOut
