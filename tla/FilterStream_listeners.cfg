SPECIFICATION LiveSpec
CONSTANTS
    Fork = {a, b}
    Main = a
    MaxHeight = 4
    Nil = Nil
    Block <- MCOneFork
    NoBlock = Nil
    Number <- MCNumber
    Parent <- MCParent
    Path <- MCPath
    MaxReorgs = 1
    ChainTrackingMode = "light"
    CheckpointBlockGap = 1
    MaxReorgDepth = 1
    NodesBehind = TRUE
    Listener = {s, o}
    Subject = s
    EventBlocks <- MCEventBlocks
    InitialListeners = {{o}}
    Removable = {s}
    FromBlocks = {0}
    CatchupPageSize = 2
    CatchupThreshold = 2
INVARIANTS TypeOK NobodyIsForgotten HeadBlockIsStable
PROPERTIES ImplementsDetection ListenersRejoin
CHECK_DEADLOCK FALSE
