SPECIFICATION TcpFairSpec
CONSTANTS
    main = main
    callback = callback
    Thread = {main, callback}
    HeaderBytes = 2
    Size <- MCSize
    SplitHeader = TRUE
    MaxSends = 5
INVARIANTS InStepUnlessTorn
PROPERTIES Arrives
CHECK_DEADLOCK FALSE
