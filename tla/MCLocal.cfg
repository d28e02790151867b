SPECIFICATION FairSpec
CONSTANTS
    alice = alice
    bob = bob
    i1 = i1
    i2 = i2
    Peer = {alice, bob}
    Input = {i1}
    PeerOf <- MCPeerOf
    Offset <- MCOffset
    AutoLatency = TRUE
    FixedLatency <- MCFixedLatency
    LatencyEst = {0, 2}
    DeltaEst <- MCDeltaExact
    EstErr = 1
    Duplication = 0
    Logging = TRUE
    SerialMod = 3
    SerialInit = {2}
    MaxNow = 2
    MaxStrikeTime = 0
    MaxStrikes = 2
    MaxAcks = 2
INVARIANTS LocalOrder LogExact
PROPERTIES HeardAtHome PlayedIsLogged
