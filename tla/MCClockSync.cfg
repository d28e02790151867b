SPECIFICATION SyncSpec
CONSTANTS
    WindowSize = 2
    AutoLatency = TRUE
    FixedLatency = 0
    Offset <- MCOffset
    Jump <- MCJump
    MaxNow = 2
    MaxRequests = 2
    MaxAcks = 4
    MaxJumps = 1
INVARIANTS SyncTypeOK SampleWithinLatency OffsetWithinLatency SymmetricIsExact
CHECK_DEADLOCK FALSE
