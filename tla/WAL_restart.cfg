CONSTANTS
    Payload = {p}
    MaxSize = 2
    BufCap = 1
    MaxSeq = 4
    MaxIdx = 3
SPECIFICATION Spec
INVARIANT NextSeqAboveReplayStart
