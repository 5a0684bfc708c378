CONSTANTS
    Payload = {p}
    MaxSize = 2
    BufCap = 1
    MaxSeq = 4
    MaxIdx = 3
    Window = 3
    MaxInt = 15
    Clock = {1, 11}
    Block = {b1}
    MaxShards = 4
SPECIFICATION LogShardsSpec
INVARIANT TypeOK
INVARIANT ReplayAscending
INVARIANT ReplayDelivers
PROPERTY DurableUntilTruncated
PROPERTY CheckpointMonotone
INVARIANT ShardsTypeOK
INVARIANT WindowsInOrder
INVARIANT OnlyNewestActive
PROPERTY ShardsOnlyAge
