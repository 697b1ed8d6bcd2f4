CONSTANTS
  Bucket0P2 = 1
  NBuckets = 5
  SbrkBucket = 2
  MemLimit = 32
  Requests <- SbrkRequests
  Counts <- MCCounts
  MaxLive = 3
  Junk = Junk
SPECIFICATION Spec
INVARIANTS
  BlocksTile
CHECK_DEADLOCK FALSE
