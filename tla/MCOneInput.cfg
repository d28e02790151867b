SPECIFICATION Spec
CONSTANTS
    alice = alice
    bob = bob
    i1 = i1
    i2 = i2
    Peer = {alice, bob}
    Input = {i1}
    PeerOf <- MCPeerOf
    Offset <- MCOffset
    AutoLatency = TRUE
    FixedLatency <- MCFixedLatency
    LatencyEst = {2}
    DeltaEst <- MCDeltaEst
    EstErr = 1
    Duplication = 2
    Logging = FALSE
    SerialMod = 3
    SerialInit = {2}
    MaxNow = 2
    MaxStrikeTime = 1
    MaxStrikes = 2
    MaxAcks = 1
INVARIANTS TypeOK Bookkeeping AtMostOnce DuplicatesOnly
PROPERTIES NeverEarly HeardAfterStroke ImplementsEnsemble
