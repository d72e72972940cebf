SPECIFICATION LiveSpec
CONSTANTS
    Fork = {a, b}
    Main = a
    MaxHeight = 3
    Nil = Nil
    Block <- MCBlock
    NoBlock = Nil
    Number <- MCNumber
    Parent <- MCParent
    Path <- MCPath
    MaxReorgs = 2
    MonitoredHeadLength = 2
    FilterPollingMode = "client"
INVARIANTS TypeOK ChainIsLinked HeadCoversChain ConsumersKnowChain
PROPERTIES ChainCatchesUp
CHECK_DEADLOCK FALSE
