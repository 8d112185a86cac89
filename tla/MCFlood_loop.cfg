SPECIFICATION Spec
CONSTANTS
  BinUs = 80000
  AirUs = 65792
  EmptyBinsToEnd = 12
  NIL = NIL
  T = T
  R1 = R1
  R2 = R2
  L = L
  Talker = T
  Repeaters = {R1, R2}
  Listeners = {}
  InRange <- LoopOfTwo
  LastPacket = 3
  MaxHops = 7
  TimeErrors <- DeskErrors
  SkewErrors <- BothSkews
  GarbledHeard = FALSE
  PlayGarbled = FALSE
  MaxBin = 10
INVARIANTS TypeOK EveryCopyNumbered LoopsDieOut
