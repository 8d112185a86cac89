SPECIFICATION FairSpec
CONSTANTS
  A = A
  B = B
  NIL = NIL
  Txids = {A, B}
  MostSilences = 1
  RequestCap = 1
  DecodedCap = 2
  MaxPacket = 3
  MaxConveyors = 2
  MaxPlays = 4
INVARIANTS CountsDecodes
PROPERTIES PlaysInOrder TailComesLast TailIsPlayedOnOneConveyor
CHECK_DEADLOCK FALSE
