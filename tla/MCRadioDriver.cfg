\* Freezes anywhere, and one order of the app's.
CONSTANTS
    Channels = 2
    Rotations <- ThereAndBack
    HeaderAfter = 1
    EndAfter = 2
    OffBy = 1
    HeaderWait = 2
    PacketEndWait = 4
    FalseAlarmWait = 2
    SignHoldMax = 3
    Guard = 1
    Prepare = 1
    PrepareAtLeast = 1
    TxTime = 1
    MaxTime = 8
    MaxLate = 2
    MaxNoise = 1
    MaxOrders = 1
    NIL = NIL
SPECIFICATION Spec
INVARIANTS  PacketsAreFetched ListensAsItSays
PROPERTIES NoPacketCutShort
CHECK_DEADLOCK FALSE
