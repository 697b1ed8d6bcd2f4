SPECIFICATION Spec
CONSTANTS
  ByteBits = 2
  OptLevel = 2
  StackTop = 240
  Compile <- MCCompile
  Bytes <- MCBytes
  FirstNumber <- MCFirstNumber
  Meant <- MCMeant
  TypeNamed <- MCTypeNamed
  Functions <- MCFunctions
  Globals <- MCGlobals
  Externals <- MCExternals
  Refused <- MCRefused
  Calls <- MCCalls
INVARIANTS
  ReturnsWhatItMeans
  WellTyped
PROPERTIES
  Returns
CHECK_DEADLOCK FALSE
