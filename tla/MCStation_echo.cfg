SPECIFICATION FairSpec
CONSTANTS
  A = A
  B = B
  NIL = NIL
  Talkers = {A}
  Modes = {"Echo"}
  RxCap = 2
  TxCap = 4
  OnAir <- TransmissionOfA
  PlayGarbled = FALSE
  MaxArrivals = 2
  MaxTalks = 0
  MaxMenus = 1
  MaxVoice = 1
PROPERTIES RecordingIsReplayed
CHECK_DEADLOCK FALSE
