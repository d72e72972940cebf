SPECIFICATION LiveSpec
CONSTANTS
    Fork = {a, b}
    Main = a
    MaxHeight = 5
    Nil = Nil
    Block <- MCForkedBlock
    NoBlock = Nil
    Number <- MCNumber
    Parent <- MCParent
    Path <- MCPath
    MaxReorgs = 1
    ChainTrackingMode = "full"
    CheckpointBlockGap = 2
    MaxReorgDepth = 1
    NodesBehind = FALSE
    FromBlocks = {0, 2}
    CatchupPageSize = 2
    CatchupThreshold = 2
    MaxResets = 1
    MaxLead = 1
INVARIANTS TypeOK NothingLostBelowHWM
PROPERTIES EventsDetected ImplementsDetection
CHECK_DEADLOCK FALSE
