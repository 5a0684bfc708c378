CONSTANTS
    Sample <- MCSample
    Ranges <- MCRanges
    Reader = {r1}
    FlushThreshold = 4
    Step = 2
    MaxFlushes = 2
    MaxHeld = 5
SPECIFICATION Spec
INVARIANT ReadsTypeOK
INVARIANT KeptInOrder
INVARIANT BufferBounded
INVARIANT SnapshotRefs
INVARIANT QueryAccounts
INVARIANT QueryInRange
INVARIANT AggregateExact
INVARIANT DownsampleAgrees
