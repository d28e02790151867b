SPECIFICATION TcpSpec
CONSTANTS
    main = main
    callback = callback
    Thread = {main, callback}
    HeaderBytes = 2
    Size <- MCSize
    SplitHeader = FALSE
    MaxSends = 2
INVARIANTS InStep
CHECK_DEADLOCK FALSE
