SPECIFICATION Spec
CONSTANTS
  ByteBits = 2
  OptLevel = 2
  StackTop = 240
  Compile <- MCCompile
  Bytes <- MCBytes
  FirstNumber <- MCFirstNumber
  Meant <- MCMeant
  TypeNamed <- MCTypeNamed
  Functions <- MCSelectFunctions
  Globals <- MCGlobals
  Externals <- MCExternals
  Refused = {}
  Calls <- MCSelectCalls
INVARIANT ReturnsWhatItMeans
CHECK_DEADLOCK FALSE
