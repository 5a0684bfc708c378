CONSTANTS
    p1 = p1
    p2 = p2
    p3 = p3
    Point <- MCPoint
    TS <- MCTS
    Concurrency = 2
    FlushThreshold = 2
    Framing = {TRUE}
    MaxCrashes = 1
    MaxStops = 0
    MaxRotations = 1
    MaxSize = 2
    BufCap = 4
    MaxSeq = 5
    MaxIdx = 4
    Window = 2
    MaxInt = 15
    Clock = {0}
    MaxShards = 4
SPECIFICATION FairSpec
PROPERTY RequestsReturn
PROPERTY PointsReachBlocks
PROPERTY LogAsSpecified
