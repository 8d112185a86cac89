SPECIFICATION FairSpec
CONSTANTS
  A = A
  B = B
  NIL = NIL
  Txids = {A, B}
  MostSilences = 1
  RequestCap = 2
  DecodedCap = 2
  MaxPacket = 2
  MaxConveyors = 2
  MaxPlays = 3
PROPERTIES TailIsPlayed
CHECK_DEADLOCK FALSE
