SPECIFICATION LiveSpec
CONSTANTS
    Fork = {a, b}
    Main = a
    MaxHeight = 4
    Nil = Nil
    Block <- MCForkedBlock
    NoBlock = Nil
    Number <- MCNumber
    Parent <- MCParent
    Path <- MCPath
    MaxReorgs = 2
    ChainTrackingMode = "light"
    CheckpointBlockGap = 1
    MaxReorgDepth = 1
    NodesBehind = TRUE
    FromBlocks = {0, 3}
    CatchupPageSize = 2
    CatchupThreshold = 2
    MaxResets = 1
    MaxLead = 5
INVARIANTS NothingLostBelowHWM NoRedelivery HeadBlockIsStable
PROPERTIES EventsDetected ImplementsDetection
CHECK_DEADLOCK FALSE
