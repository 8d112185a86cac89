CONSTANTS
    b1 = b1
    b2 = b2
    b3 = b3
    f0 = f0
    f1 = f1
    f2 = f2
    Bundles = {b1, b2, b3}
    Firmwares = {f0, f1, f2}
    FirmwareOf <- TheFirmwareOf
    Bad = {f2}
    Flashed = f0
    script = script
    page = page
    Files = {script, page}
    Chunks = 2
    MaxAsks = 3
    MaxPublished = 1
    MaxLosses = 1
    Channels = 5
    MaxHops = 7
    Levels <- TheLevels
    PacketsToMove = 2
    StrongerBy = 3
    AverageOver = 3
    MaxBin = 17
    Items <- TheItems
    Root = "Menu"
    EventsCap = 2
    Quick = 1
    WheelStops = 3
    MaxTyped = 1
    MaxMoves = 8
    MaxAway = 1
    b4 = b4
    b5 = b5
    c1 = c1
    c2 = c2
    Conns = {c1, c2}
    MaxCalls = 2
    MaxListings = 1
    Entries <- TheEntries
    Units <- TheUnits
    Flags <- TheFlags
    Cuts = {3, 4}
    WindowLen = 4
    InputLen = 2
    BlockLen = 2
    CopyLen = 2
    Operations <- TheOperations
    MaxTransfer = 3
    MaxOps = 2
    MaxBusCalls = 2
    MaxChanges = 3
    MaxWaits = 2
    Steady = 1
    CaptureLen = 4
    BinLen = 2
    Deadline = 3
    ChanCap = 4
    EncodeTimes = {1, 5}
    BusyTimes = {0, 4}
    MaxFlips = 4
    MaxEvents = 1
    MaxTime = 18
    NIL = NIL
SYMMETRY Alike
SPECIFICATION PartsSpec
INVARIANTS PartsTypeOK GoodAppKept OneBundleAtATime UpToDateIsTrue ServedAsItself
INVARIANTS EntriesComeWhole  SentInItsBin
PROPERTIES StopsAtTheNext NothingMissed StrayPressesDoNothing AnswersAreCurrent
CHECK_DEADLOCK FALSE
