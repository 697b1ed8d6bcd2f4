CONSTANTS
  N = 12
  Ranks = {0, 1}
  WordMod = 4096
  Environs <- MCEnvirons
  Moments <- MCMoments
  Changes <- MCChanges
  Patterns <- MCPatterns
  Rooms <- MCRooms
  NameMax = 6
  YearMax = 40000
  Meant <- MCMeant
  Prints <- MCPrints
  SizeBits <- MCSizeBits
  BufferSize = 14
  PointerDigits = 8
  Grain = 16
  DefaultPrecision = 3
  MaxPrecision = 4
  HexDigits = 3
  Bias = 7
  Scans <- MCScans
  ScanBits <- MCSizeBits
  ScanBuffer = 12
  MaxDigits = 3
  MaxExponent = 30
  Integral <- MCIntegral
  Fractional <- MCFractional
  IntegralOf <- MCIntegralOf
  FractionalOf <- MCFractionalOf
  Longest <- MCLongest
  Said <- MCSaid
SPECIFICATION LibrarySpec
INVARIANTS
  Permuted
  InBounds
  Sorted
  Searched
  CalendarRight
  PrintedRight
  ScannedRight
PROPERTIES
  Ends
CHECK_DEADLOCK FALSE
