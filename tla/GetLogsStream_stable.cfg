SPECIFICATION Spec
CONSTANTS
    Fork = {a, b}
    Main = a
    MaxHeight = 5
    Nil = Nil
    Block <- MCForkedBlock
    NoBlock = Nil
    Number <- MCNumber
    Parent <- MCParent
    Path <- MCPath
    MaxReorgs = 1
    ChainTrackingMode = "light"
    CheckpointBlockGap = 1
    MaxReorgDepth = 1
    NodesBehind = FALSE
    FromBlocks = {0}
    CatchupPageSize = 2
    CatchupThreshold = 2
    MaxResets = 0
    MaxLead = 5
INVARIANTS DetectedStableStays
CHECK_DEADLOCK FALSE
