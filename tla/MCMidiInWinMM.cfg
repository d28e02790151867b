SPECIFICATION Spec
CONSTANTS
    Programs <- MCPrograms
    Fails = {"port", "unprepare", "damaged", "requeue"}
    MaxCalls = 4
    RingSize = 1
    Kinds = {"note", "sysex"}
    Ragged = FALSE
    MaxChunks = 2
    Buffers = 1
INVARIANTS OneBufferEach FaultHasCause
PROPERTIES CallReturns
CHECK_DEADLOCK FALSE
