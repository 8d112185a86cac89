SPECIFICATION FairSpec
CONSTANTS
  T1 = T1
  T2 = T2
  Writer = Writer
  Rebooter = Rebooter
  NIL = NIL
  Threads = {T1}
  RingLines = 2
  ChunkLines = 1
  MaxFileLines = 2
  MaxFiles = 2
  CardFails = TRUE
  CardFills = FALSE
  MaxLines = 3
  MaxBoots = 2
  MaxSwitches = 1
INVARIANTS WrittenInOrder  EveryLineAccounted
PROPERTIES FlushedOrInHand WaitingLinesAreWritten
CHECK_DEADLOCK FALSE
