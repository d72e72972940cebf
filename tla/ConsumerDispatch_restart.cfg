SPECIFICATION Spec
CONSTANTS
    Stream = {s1, s2}
    NoStream = NoStream
    MaxStarts = 2
    MaxUpdates = 2
SYMMETRY Symmetry
INVARIANTS RunningIsToldEverything
CHECK_DEADLOCK FALSE
