SPECIFICATION Spec
CONSTANTS
  T1 = T1
  T2 = T2
  Writer = Writer
  Rebooter = Rebooter
  NIL = NIL
  Threads = {T1, T2}
  RingLines = 2
  ChunkLines = 1
  MaxFileLines = 3
  MaxFiles = 2
  CardFails = FALSE
  CardFills = FALSE
  MaxLines = 3
  MaxBoots = 1
  MaxSwitches = 1
INVARIANTS StoppedLinesNeverWritten
CHECK_DEADLOCK FALSE
