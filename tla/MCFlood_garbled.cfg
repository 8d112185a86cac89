SPECIFICATION FairSpec
CONSTANTS
  BinUs = 80000
  AirUs = 65792
  EmptyBinsToEnd = 12
  NIL = NIL
  T = T
  R1 = R1
  R2 = R2
  L = L
  Talker = T
  Repeaters = {R1}
  Listeners = {L}
  InRange <- OneRepeater
  LastPacket = 3
  MaxHops = 7
  TimeErrors <- DeskErrors
  SkewErrors <- BothSkews
  GarbledHeard = TRUE
  PlayGarbled = TRUE
  MaxBin = 24
INVARIANTS NumberingAgrees TakenInOrder
PROPERTIES EveryConveyorEnds
