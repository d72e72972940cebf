SPECIFICATION Spec
CONSTANTS
    Fork = {a, b}
    Main = a
    Other = b
    MaxHeight = 4
    Nil = Nil
    Block <- MCForkedBlock
    NoBlock = Nil
    Number <- MCNumber
    Parent <- MCParent
    Path <- MCPath
    TxBlocks <- MCTxBlocks
    MaxReorgs = 2
    MonitoredHeadLength = 2
    CheckpointBlockGap = 1
    MaxReorgDepth = 1
    NodesBehind = TRUE
    MaxAsyncBlockFetchConcurrency = 1
    MaxCallbacks = 1
    Targets = {2}
    HandBackWith = {"off"}
    MaxAdvance = 1
INVARIANTS ListStartsAtReceipt
CHECK_DEADLOCK FALSE
