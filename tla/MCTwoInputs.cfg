SPECIFICATION Spec
CONSTANTS
    alice = alice
    bob = bob
    i1 = i1
    i2 = i2
    Peer = {alice, bob}
    Input = {i1, i2}
    PeerOf <- MCPeerOf
    Offset <- MCOffset
    AutoLatency = FALSE
    FixedLatency <- MCFixedLatency
    LatencyEst = {1}
    DeltaEst <- MCDeltaEst
    EstErr = 1
    Duplication = 1
    Logging = FALSE
    SerialMod = 3
    SerialInit = {0}
    MaxNow = 1
    MaxStrikeTime = 1
    MaxStrikes = 1
    MaxAcks = 1
INVARIANTS DuplicatesOnly
