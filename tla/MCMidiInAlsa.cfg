SPECIFICATION Spec
CONSTANTS
    Programs <- MCPrograms
    Fails = {"port", "subscribe", "thread", "memory", "overrun"}
    MaxCalls = 4
    RingSize = 1
    Kinds = {"note", "sysex"}
    Ragged = TRUE
    MaxChunks = 2
INVARIANTS Quiet FaultHasCause Intact
PROPERTIES CallReturns
CHECK_DEADLOCK FALSE
