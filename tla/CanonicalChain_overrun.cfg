SPECIFICATION Spec
CONSTANTS
    Fork = {a, b}
    Main = a
    MaxHeight = 3
    Nil = Nil
    Block <- MCBlock
    NoBlock = Nil
    Number <- MCNumber
    Parent <- MCParent
    Path <- MCPath
    MaxReorgs = 0
    MonitoredHeadLength = 2
    FilterPollingMode = "server"
SYMMETRY Symmetry
INVARIANTS UpdateHoldsAllFromChange
CHECK_DEADLOCK FALSE
