SPECIFICATION Spec
CONSTANTS
    Fork = {a, b}
    Main = a
    MaxHeight = 5
    Nil = Nil
    Block <- MCForkedBlock
    NoBlock = Nil
    Number <- MCNumber
    Parent <- MCParent
    Path <- MCPath
    MaxReorgs = 1
    ChainTrackingMode = "full"
    CheckpointBlockGap = 2
    MaxReorgDepth = 1
    NodesBehind = FALSE
    FromBlocks = {0}
    CatchupPageSize = 3
    CatchupThreshold = 3
    MaxResets = 0
    MaxLead = 5
INVARIANTS NothingLostBelowHWM
CHECK_DEADLOCK FALSE
