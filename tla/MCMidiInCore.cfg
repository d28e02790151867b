SPECIFICATION Spec
CONSTANTS
    Programs <- MCPrograms
    Fails = {"port", "source"}
    MaxCalls = 4
    RingSize = 2
    Kinds = {"note", "sysex"}
    Ragged = TRUE
    Empties = TRUE
    MaxChunks = 3
INVARIANTS QueueExact Intact NotesSwallowed
CHECK_DEADLOCK FALSE
