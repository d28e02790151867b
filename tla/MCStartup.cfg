SPECIFICATION FairSpec
CONSTANTS
    Devices = 2
    Garbage = {"null", "wild"}
    RingSize = 1
    MaxEvents = 2
    MaxPackets = 3
INVARIANTS TypeOK SafeOnceTied PlayedOnAll
PROPERTIES EventuallyPlayed StrandedAtOpening OnlyOldSyncLost AstrayOnlyAtStart
CHECK_DEADLOCK FALSE
