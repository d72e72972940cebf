SPECIFICATION Spec
CONSTANTS
    Fork = {a, b}
    Main = a
    MaxHeight = 3
    Nil = Nil
    Block <- MCBlock
    NoBlock = Nil
    Number <- MCNumber
    Parent <- MCParent
    Path <- MCPath
    MaxReorgs = 1
    MonitoredHeadLength = 4
    FilterPollingMode = "server"
SYMMETRY Symmetry
INVARIANTS ChainIsLinked ConsumersKnowChain UpdateIsLinked
CHECK_DEADLOCK FALSE
