SPECIFICATION Spec
CONSTANTS
    Programs <- MCPrograms
    Apis = {"LINUX_ALSA", "MACOSX_CORE", "WINDOWS_MM"}
    Lengths = {1, 2, 3}
    Fails = {"port", "subscribe", "memory", "send", "drain"}
    MaxCalls = 5
INVARIANTS FaultHasCause SilentIsHeard
CHECK_DEADLOCK FALSE
