SPECIFICATION LiveSpec
CONSTANTS
    Stream = {s1, s2}
    NoStream = NoStream
    MaxStarts = 2
    MaxUpdates = 2
INVARIANTS TypeOK FirstRunIsToldEverything OneLoopPerStream
PROPERTIES CallsReturn DispatchesEnd
CHECK_DEADLOCK FALSE
