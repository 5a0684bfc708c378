CONSTANTS
    p1 = p1
    p2 = p2
    Sample = {p1, p2}
    TS <- MCTS
    Step = 2
    Compactor = {c1, c2}
    Reader = {}
    Ranges <- MCRanges
    Cutoffs = {1}
    MaxBlocks = 3
    MaxPanics = 0
    Window = 4
    MaxInt = 15
    Clock = {0}
    MaxShards = 2
SPECIFICATION Spec
SYMMETRY MCSymmetry
INVARIANT BlocksTypeOK
INVARIANT RefsExact
INVARIANT ShownOnce
INVARIANT InsideWindow
PROPERTY NeverVanishes
