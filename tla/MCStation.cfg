SPECIFICATION FairSpec
CONSTANTS
  A = A
  B = B
  NIL = NIL
  Talkers = {A, B}
  Modes = {"Normal", "Repeater", "Echo"}
  RxCap = 1
  TxCap = 1
  OnAir <- Everything
  PlayGarbled = TRUE
  MaxArrivals = 3
  MaxTalks = 1
  MaxMenus = 1
  MaxVoice = 2
INVARIANTS TypeOK RotationAgrees  LeftoversAreFew
PROPERTIES LockEnds SendingEnds
CHECK_DEADLOCK FALSE
