SPECIFICATION FairSpec
CONSTANTS
    alice = alice
    bob = bob
    Node = {alice, bob}
    Kind <- MCKind
    UnboundFails = TRUE
    ResetFails = TRUE
    MaxRuns = 2
    MaxOutages = 1
INVARIANTS TypeOK Addressed DeafHasCause
PROPERTIES Found
CHECK_DEADLOCK FALSE
