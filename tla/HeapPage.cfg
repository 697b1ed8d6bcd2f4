CONSTANTS
  Bucket0P2 = 1
  NBuckets = 5
  SbrkBucket = 2
  MemLimit = 16
  Requests <- PageRequests
  Counts <- MCCounts
  MaxLive = 4
  Junk = Junk
SPECIFICATION Spec
INVARIANTS
  Tiling
  PayloadIntact
  JoinsOnlyListed
PROPERTIES
  Implements
CHECK_DEADLOCK FALSE
