CONSTANTS
  Files <- MCFiles
  Mods = {"m", "a", "b"}
  Ids = {"f", "g", "x", "y"}
  Types = {"t", "u"}
  Texts <- CarefulTexts
  Main = "m.c"
  ModName <- MCModName
  OpenMax = 6
SPECIFICATION Spec
INVARIANTS
  TypeOK
  ReadOnce
  DefinedOnce
  ImportsUsed
  ReferencesImported
CHECK_DEADLOCK FALSE
