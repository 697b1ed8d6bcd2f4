CONSTANTS
  NL = 10
  Text = {1}
  Hole = 0
  BufSiz = 2
  SbufSiz = 1
  DiskSize = 3
  Files <- MCFiles
  Opened = {"r", "w", "r+"}
  Buffering = {"full", "line", "none"}
  Counts <- MCCounts
  Writes <- UpdateWrites
  Offsets <- MCOffsets
  Habits = {}
SPECIFICATION Spec
INVARIANTS
  LinesFlushed
  BufferHonest
PROPERTIES
  ImplementsFile
CHECK_DEADLOCK FALSE
