CONSTANTS
  Mods <- MCMods
  Ids <- MCIds
  Modules <- MCModules
  Programs <- MCPrograms
  Library <- MCLibrary
  CrtFile <- MCCrtFile
  Crt = "crt"
  Wasi = "wasi"
  MainId = "main"
  StartId = "_start"
  MemId = "memory"
  None = "none"
  Bytes <- MCBytes
  Align <- MCAlign
  ReadOnly <- MCReadOnly
  AddressOf <- MCAddressOf
  SdbAddr = 4
  StackSz = 5
  ArgvSz = 3
  StackAlign = 4
  Page = 16
  Pad = Pad
SPECIFICATION WSpec
INVARIANTS
  MovedOnce
  NothingDangles
  NothingUnused
  LinkComplete
  MemoryDivided
  AddressesLead
PROPERTIES
  LinkEnds
CHECK_DEADLOCK FALSE
