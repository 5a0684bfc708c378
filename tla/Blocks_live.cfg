CONSTANTS
    p1 = p1
    p2 = p2
    Sample = {p1, p2}
    TS <- MCTS
    Step = 2
    Compactor = {c1}
    Reader = {r1}
    Ranges <- MCRanges
    Cutoffs = {2}
    MaxBlocks = 2
    MaxPanics = 1
    Window = 4
    MaxInt = 15
    Clock = {0}
    MaxShards = 2
SPECIFICATION FairSpec
INVARIANT RefsExact
INVARIANT QueryExact
PROPERTY ArchivedLeave
