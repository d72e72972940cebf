--------------------------- MODULE CanonicalChain ---------------------------
(***************************************************************************)
(* The block listener in "full" chain tracking mode                        *)
(* (pkg/ethblocklistener): its listen loop establishes the block height,   *)
(* seeds the monitored head, then polls for new blocks and reconciles each *)
(* into the in-memory canonical chain, trimming and rebuilding the chain   *)
(* from the node when a block does not fit, and tells the consumers the    *)
(* hashes from the point of change onwards.                                *)
(*                                                                         *)
(* The node may change between any two calls, so every JSON/RPC call the   *)
(* loop makes is a step of its own, with the code that runs on its result  *)
(* up to the next call.  A call that fails inside retry.Do, or a poll that *)
(* fails and backs off, changes nothing and is a stuttering step.  The     *)
(* receipt cache is off, its default (ReceiptCacheEnabled = false).        *)
(***************************************************************************)
EXTENDS EVMNode

CONSTANTS
    MonitoredHeadLength,    \* BlockListenerConfig.MonitoredHeadLength
    FilterPollingMode       \* BlockListenerConfig.FilterPollingMode

ASSUME ConfigAssumption ==
    /\ MonitoredHeadLength \in Nat \ {0}        \* NewBlockListener refuses 0
    /\ FilterPollingMode \in {"server", "client"}

VARIABLES
    pc,                 \* what the listen loop does next
    stopped,            \* bl.ctx is done
    seeding,            \* reconcileCanonicalChain is called by seedMonitoredHead
    seedNext,           \* seedMonitoredHead's blockNumber
    seedEnd,            \* seedMonitoredHead's copy of highestBlock
    highestBlockSet,
    highestBlock,
    headBlockInfo,
    canonicalChain,     \* the blocks of the list, front to back
    filter,             \* blockFilterPoller.filter is not ""
    batch,              \* the hashes of this poll still to be resolved
    lastElem,           \* trimToLastValidBlock: position of the block being verified
    nextBlockNumber,    \* rebuildCanonicalChain
    rebuiltFrom,        \* rebuildCanonicalChain's notifyPos
    notifyPos,          \* reconcileAndDispatch's notifyPos: the block of the list element
    detached,           \* what following Next from notifyPos yields once it left the list
    gapPotential,       \* canonicalChainPollerBase.gapPotential
    told                \* history: the newest block of each number a consumer knows

heightVars  == <<highestBlockSet, highestBlock, headBlockInfo>>
seedVars    == <<seeding, seedNext, seedEnd>>
rebuildVars == <<lastElem, nextBlockNumber, rebuiltFrom>>
notifyVars  == <<notifyPos, detached>>
pollVars    == <<filter, batch, gapPotential, told>>
listenerVars == <<pc, stopped, seedVars, heightVars, canonicalChain, rebuildVars, notifyVars, pollVars>>
vars == <<nodeVars, listenerVars>>

Init ==
    /\ NodeInit
    /\ pc = "height"
    /\ stopped = FALSE
    /\ seeding = FALSE /\ seedNext = 0 /\ seedEnd = 0
    /\ highestBlockSet = FALSE /\ highestBlock = 0 /\ headBlockInfo = NoBlock
    /\ canonicalChain = <<>>
    /\ lastElem = 0 /\ nextBlockNumber = 0 /\ rebuiltFrom = NoBlock
    /\ notifyPos = NoBlock /\ detached = <<>>
    /\ filter = FALSE /\ batch = <<>> /\ gapPotential = TRUE
    /\ told = {}

-----------------------------------------------------------------------------
(* Start-up. *)

(* Mutant: the guard against going below block 0 is forgotten. *)
SeedStartUnguarded(height) == height - MonitoredHeadLength + 1

(* The first block of the window seedMonitoredHead fills. *)
SeedStart(height) == IF height >= MonitoredHeadLength THEN height - MonitoredHeadLength + 1 ELSE 0

(* establishBlockHeightWithRetry, then the bounds of seedMonitoredHead *)
EstablishBlockHeight ==
    /\ pc = "height" /\ ~stopped
    /\ highestBlock' = Number(head)
    /\ highestBlockSet' = TRUE
    /\ seeding' = TRUE
    /\ seedEnd' = Number(head)
    /\ seedNext' = SeedStart(Number(head))
    /\ pc' = "seed"
    /\ UNCHANGED <<nodeVars, stopped, headBlockInfo, canonicalChain, rebuildVars, notifyVars, pollVars>>

(* The context was cancelled first: the loop is entered with no block height. *)
ExitBeforeBlockHeight ==
    /\ pc = "height" /\ stopped
    /\ pc' = "poll"
    /\ UNCHANGED <<nodeVars, stopped, seedVars, heightVars, canonicalChain, rebuildVars, notifyVars, pollVars>>

(* The end of seedMonitoredHead: every block done, a null block, or a failure once stopped.  *)
(* Consumers can be added from here on: they start from the chain as seeded.                 *)
SeedingEnds ==
    /\ pc = "seed"
    /\ seedNext > seedEnd \/ stopped \/ GetBlockByNumber(seedNext) = NoBlock
    /\ seeding' = FALSE /\ seedNext' = 0 /\ seedEnd' = 0
    /\ told' = BlocksOf(canonicalChain)
    /\ pc' = "poll"
    /\ UNCHANGED <<nodeVars, stopped, heightVars, canonicalChain, rebuildVars,
                   notifyVars, filter, batch, gapPotential>>

-----------------------------------------------------------------------------
(* reconcileCanonicalChain and what it calls. *)

(* Mutant: lower blocks are not ignored when the info of the head block is kept. *)
KeepInfoOfAnyBlock(bi) ==
    /\ highestBlock' = IF Number(bi) > highestBlock THEN Number(bi) ELSE highestBlock
    /\ highestBlockSet' = (highestBlockSet \/ Number(bi) > highestBlock)
    /\ headBlockInfo' = bi

(* checkAndSetHighestBlock *)
CheckAndSetHighestBlock(bi) ==
    /\ highestBlock' = IF Number(bi) > highestBlock THEN Number(bi) ELSE highestBlock
    /\ highestBlockSet' = (highestBlockSet \/ Number(bi) > highestBlock)
    /\ headBlockInfo' = IF Number(bi) >= highestBlock THEN bi ELSE headBlockInfo

(* Whether the element notifyPos points to is still in the list. *)
InList == notifyPos # NoBlock /\ detached = <<>>

(* list.Remove clears the links of an element it takes out of the list. *)
DetachedUnlessIn(kept) ==
    IF InList /\ notifyPos \notin BlocksOf(kept) THEN <<notifyPos>> ELSE detached

(* The blocks reached by following Next from the element of block b. *)
From(chain, b) ==
    LET before == {i \in DOMAIN chain : Number(chain[i]) < Number(b)}
    IN  SubSeq(chain, Cardinality(before) + 1, Len(chain))

(* list.Init leaves the links between the elements of the old list in place. *)
DetachedByInit == IF InList THEN From(canonicalChain, notifyPos) ELSE detached

(* Mutant: the first candidate is kept, although a later block of the poll changed the chain below it. *)
FirstCandidate(candidate) == candidate # NoBlock /\ notifyPos = NoBlock

(* reconcileAndDispatch moves notifyPos down to the candidate. *)
LowestCandidate(candidate) ==
    /\ candidate # NoBlock
    /\ notifyPos = NoBlock \/ Number(candidate) <= Number(notifyPos)

(* reconcileCanonicalChain returns candidate to its caller: seedMonitoredHead goes on to the *)
(* next block, reconcileAndDispatch keeps the lowest changed position.                       *)
Return(candidate, nowDetached) ==
    IF seeding
    THEN /\ seedNext' = seedNext + 1
         /\ pc' = "seed"
         /\ UNCHANGED notifyVars
    ELSE /\ pc' = "reconcile"
         /\ IF LowestCandidate(candidate)
            THEN notifyPos' = candidate /\ detached' = <<>>
            ELSE notifyPos' = notifyPos /\ detached' = nowDetached
         /\ UNCHANGED seedNext

(* How much of a list is kept from the front trim of handleNewBlock *)
TrimFront(chain) ==
    IF Len(chain) > MonitoredHeadLength
    THEN SubSeq(chain, Len(chain) - MonitoredHeadLength + 1, Len(chain)) ELSE chain

(* This is a duplicate - no need to notify of anything *)
DuplicateBlock(bi) ==
    /\ bi \in BlocksOf(canonicalChain)
    /\ Return(NoBlock, detached)
    /\ UNCHANGED <<canonicalChain, lastElem>>

(* handleNewBlock with no position to add after: the list starts again from this block *)
FirstBlock(bi) ==
    /\ bi \notin BlocksOf(canonicalChain)
    /\ \A i \in DOMAIN canonicalChain : Number(canonicalChain[i]) >= Number(bi)
    /\ canonicalChain' = <<bi>>
    /\ Return(bi, DetachedByInit)
    /\ UNCHANGED lastElem

(* pos is where reconcileCanonicalChain adds bi: the last block with a lower number. *)
AddAfter(bi, pos) ==
    /\ bi \notin BlocksOf(canonicalChain)
    /\ \A i \in DOMAIN canonicalChain : i <= pos <=> Number(canonicalChain[i]) < Number(bi)

(* Mutant: what followed the position is left in place. *)
InsertKeepingTail(pos, bi) ==
    SubSeq(canonicalChain, 1, pos) \o <<bi>> \o SubSeq(canonicalChain, pos + 1, Len(canonicalChain))

(* list.InsertAfter, and the removal of everything after the new element *)
InsertAfter(pos, bi) == Append(SubSeq(canonicalChain, 1, pos), bi)

(* handleNewBlock: the block fits after pos, and replaces whatever followed *)
BlockFits(bi) ==
    \E pos \in DOMAIN canonicalChain :
        /\ AddAfter(bi, pos)
        /\ IsParentOf(canonicalChain[pos], bi)
        /\ LET kept == TrimFront(InsertAfter(pos, bi))
           IN  canonicalChain' = kept /\ Return(bi, DetachedUnlessIn(kept))
        /\ UNCHANGED lastElem

(* handleNewBlock: it does not fit, so rebuildCanonicalChain verifies the list from its end *)
BlockDoesNotFit(bi) ==
    /\ \E pos \in DOMAIN canonicalChain :
        AddAfter(bi, pos) /\ ~IsParentOf(canonicalChain[pos], bi)
    /\ pc' = "trim"
    /\ lastElem' = Len(canonicalChain)
    /\ UNCHANGED <<canonicalChain, notifyVars, seedNext>>

ReconcileCanonicalChain(bi) ==
    /\ CheckAndSetHighestBlock(bi)
    /\ DuplicateBlock(bi) \/ FirstBlock(bi) \/ BlockFits(bi) \/ BlockDoesNotFit(bi)
    /\ UNCHANGED <<nextBlockNumber, rebuiltFrom>>

(* seedMonitoredHead: one block of the window, by number *)
SeedBlock ==
    /\ pc = "seed" /\ ~stopped
    /\ seedNext <= seedEnd
    /\ GetBlockByNumber(seedNext) # NoBlock
    /\ ReconcileCanonicalChain(GetBlockByNumber(seedNext))
    /\ UNCHANGED <<nodeVars, stopped, seeding, seedEnd, pollVars>>

-----------------------------------------------------------------------------
(* trimToLastValidBlock and rebuildCanonicalChain, one query of the node at a time. *)

StartRebuildAt(number) ==
    /\ lastElem' = 0
    /\ nextBlockNumber' = number
    /\ rebuiltFrom' = NoBlock
    /\ pc' = "rebuild"

(* Mutant: the hash of the block the node has now is not compared. *)
NodeHasThatNumber(b) == GetBlockByNumber(Number(b)) # NoBlock

(* The node's current block of this number has the same hash. *)
StillValid(b) == GetBlockByNumber(Number(b)) = b

(* The block under lastElem is still canonical: everything after it is removed. *)
FoundLastValidBlock ==
    /\ pc = "trim" /\ ~stopped
    /\ lastElem > 0
    /\ LET valid == canonicalChain[lastElem]
           kept  == SubSeq(canonicalChain, 1, lastElem)
       IN  /\ StillValid(valid)
           /\ canonicalChain' = kept
           /\ detached' = DetachedUnlessIn(kept)
           /\ StartRebuildAt(Number(valid) + 1)
    /\ UNCHANGED <<nodeVars, stopped, seedVars, heightVars, notifyPos, pollVars>>

BlockNoLongerValid ==
    /\ pc = "trim" /\ ~stopped
    /\ lastElem > 0
    /\ ~StillValid(canonicalChain[lastElem])
    /\ lastElem' = lastElem - 1
    /\ UNCHANGED <<nodeVars, pc, stopped, seedVars, heightVars, canonicalChain, nextBlockNumber,
                   rebuiltFrom, notifyVars, pollVars>>

(* No block was valid - or, indistinguishably, the context was cancelled: the list is *)
(* cleared and the rebuild starts from the number of its first block.                 *)
ReinitializeChain ==
    /\ pc = "trim"
    /\ lastElem = 0 \/ stopped
    /\ canonicalChain' = <<>>
    /\ detached' = DetachedByInit
    /\ StartRebuildAt(Number(canonicalChain[1]))
    /\ UNCHANGED <<nodeVars, stopped, seedVars, heightVars, notifyPos, pollVars>>

(* Mutant: the parent of the next block is not checked. *)
ContinuesUnchecked(bi) == bi # NoBlock

(* The next block exists and continues what has been rebuilt. *)
Continues(bi) ==
    /\ bi # NoBlock
    /\ canonicalChain # <<>> => Parent(bi) = canonicalChain[Len(canonicalChain)]

(* Mutant: the last block pushed is returned, not the first. *)
LastRebuilt(bi) == bi

(* rebuildCanonicalChain notifies from the first block it pushed. *)
FirstRebuilt(bi) == IF rebuiltFrom = NoBlock THEN bi ELSE rebuiltFrom

RebuildBlock ==
    /\ pc = "rebuild" /\ ~stopped
    /\ LET bi == GetBlockByNumber(nextBlockNumber)
       IN  /\ Continues(bi)
           /\ canonicalChain' = Append(canonicalChain, bi)
           /\ rebuiltFrom' = FirstRebuilt(bi)
           /\ CheckAndSetHighestBlock(bi)
    /\ nextBlockNumber' = nextBlockNumber + 1
    /\ UNCHANGED <<nodeVars, pc, stopped, seedVars, lastElem, notifyVars, pollVars>>

ReturnFromRebuild(candidate) ==
    /\ Return(candidate, detached)
    /\ nextBlockNumber' = 0
    /\ rebuiltFrom' = NoBlock
    /\ UNCHANGED <<nodeVars, stopped, seeding, seedEnd, heightVars, canonicalChain, lastElem, pollVars>>

(* The rebuild reached the head of the node, or a block of another fork. *)
RebuildEnds ==
    /\ pc = "rebuild" /\ ~stopped
    /\ ~Continues(GetBlockByNumber(nextBlockNumber))
    /\ ReturnFromRebuild(rebuiltFrom)

RebuildCancelled ==
    /\ pc = "rebuild" /\ stopped
    /\ ReturnFromRebuild(NoBlock)

-----------------------------------------------------------------------------
(* One iteration of the listen loop: latestBlockPoller.poll and blockFilterPoller.poll. *)

(* Client filter polling: the head block is fetched and reconciled. *)
PollLatestBlock ==
    /\ FilterPollingMode = "client"
    /\ pc = "poll" /\ ~stopped
    /\ ReconcileCanonicalChain(head)
    /\ UNCHANGED <<nodeVars, stopped, seeding, seedEnd, pollVars>>

(* eth_newBlockFilter *)
NewBlockFilter ==
    /\ FilterPollingMode = "server"
    /\ pc = "poll" /\ ~stopped
    /\ ~filter
    /\ filter' = TRUE
    /\ nodeFilter' = TRUE
    /\ filterQueue' = <<>>
    /\ UNCHANGED <<head, reorgs, pc, stopped, seedVars, heightVars, canonicalChain, rebuildVars,
                   notifyVars, batch, gapPotential, told>>

(* eth_getFilterChanges returns the hashes queued by the node. *)
GetFilterChanges ==
    /\ pc = "poll" /\ ~stopped
    /\ filter /\ nodeFilter
    /\ batch' = filterQueue
    /\ filterQueue' = <<>>
    /\ pc' = "reconcile"
    /\ UNCHANGED <<head, reorgs, nodeFilter, stopped, seedVars, heightVars, canonicalChain,
                   rebuildVars, notifyVars, filter, gapPotential, told>>

(* The node returned them, and the response was lost on its way. *)
LoseFilterChanges ==
    /\ pc = "poll" /\ ~stopped
    /\ filter /\ nodeFilter
    /\ filterQueue' = <<>>
    /\ UNCHANGED <<head, reorgs, nodeFilter, listenerVars>>

(* eth_getFilterChanges: filter not found *)
FilterNotFound ==
    /\ pc = "poll" /\ ~stopped
    /\ filter /\ ~nodeFilter
    /\ filter' = FALSE
    /\ gapPotential' = TRUE
    /\ UNCHANGED <<nodeVars, pc, stopped, seedVars, heightVars, canonicalChain, rebuildVars,
                   notifyVars, batch, told>>

(* The next block of the batch is looked up by hash (a cache hit needs no call), and reconciled. *)
ResolveBlockHash ==
    /\ pc = "reconcile"
    /\ batch # <<>>
    /\ ReconcileCanonicalChain(Head(batch))
    /\ batch' = Tail(batch)
    /\ UNCHANGED <<nodeVars, stopped, seeding, seedEnd, filter, gapPotential, told>>

(* The look-up failed, or the node does not have the block any more. *)
SkipBlockHash ==
    /\ pc = "reconcile"
    /\ batch # <<>>
    /\ batch' = Tail(batch)
    /\ UNCHANGED <<nodeVars, pc, stopped, seedVars, heightVars, canonicalChain, rebuildVars,
                   notifyVars, filter, gapPotential, told>>

(* The hashes of the update: from notifyPos to the end of the list it is in. *)
BlockHashes ==
    CASE notifyPos = NoBlock -> <<>>
      [] InList -> From(canonicalChain, notifyPos)
      [] OTHER -> detached

(* The end of reconcileAndDispatch.  What a consumer knows is overwritten number by number; *)
(* a stopped listener may give up on the delivery.                                          *)
Dispatch ==
    /\ pc = "reconcile"
    /\ batch = <<>>
    /\ \/ told' = {b \in told : \A c \in BlocksOf(BlockHashes) : Number(b) # Number(c)}
                    \cup BlocksOf(BlockHashes)
       \/ stopped /\ UNCHANGED told
    /\ notifyPos' = NoBlock
    /\ detached' = <<>>
    /\ gapPotential' = FALSE
    /\ pc' = "poll"
    /\ UNCHANGED <<nodeVars, stopped, seedVars, heightVars, canonicalChain, rebuildVars, filter, batch>>

(* A signal cancels the context of the connector. *)
Stop ==
    /\ ~stopped
    /\ stopped' = TRUE
    /\ UNCHANGED <<nodeVars, pc, seedVars, heightVars, canonicalChain, rebuildVars, notifyVars, pollVars>>

(* waitNextPoll: the loop exits once the context is done. *)
ListenLoopExits ==
    /\ pc = "poll" /\ stopped
    /\ pc' = "done"
    /\ UNCHANGED <<nodeVars, stopped, seedVars, heightVars, canonicalChain, rebuildVars, notifyVars, pollVars>>

StartUp == EstablishBlockHeight \/ ExitBeforeBlockHeight \/ SeedBlock \/ SeedingEnds
Rebuild == FoundLastValidBlock \/ BlockNoLongerValid \/ ReinitializeChain
            \/ RebuildBlock \/ RebuildEnds \/ RebuildCancelled
Poll == PollLatestBlock \/ NewBlockFilter \/ GetFilterChanges \/ LoseFilterChanges \/ FilterNotFound
            \/ ResolveBlockHash \/ SkipBlockHash \/ Dispatch \/ ListenLoopExits

ListenLoop == StartUp \/ Rebuild \/ Poll

NodeStep == NodeNext /\ UNCHANGED listenerVars

Next == ListenLoop \/ NodeStep \/ Stop

Spec == Init /\ [][Next]_vars

(* The loop is a goroutine that is always scheduled, and the node answers in the end. *)
LiveSpec == Spec /\ WF_vars(ListenLoop)
-----------------------------------------------------------------------------
(* Properties. *)

TypeOK ==
    /\ NodeTypeOK
    /\ pc \in {"height", "seed", "poll", "reconcile", "trim", "rebuild", "done"}
    /\ stopped \in BOOLEAN
    /\ seeding \in BOOLEAN /\ seedNext \in Nat /\ seedEnd \in Nat
    /\ highestBlockSet \in BOOLEAN /\ highestBlock \in Nat /\ headBlockInfo \in BlockOrNil
    /\ canonicalChain \in Seq(Block)
    /\ lastElem \in 0..Len(canonicalChain)
    /\ nextBlockNumber \in Nat /\ rebuiltFrom \in BlockOrNil
    /\ notifyPos \in BlockOrNil /\ detached \in Seq(Block)
    /\ filter \in BOOLEAN /\ batch \in Seq(Block) /\ gapPotential \in BOOLEAN
    /\ told \subseteq Block

(* However re-orgs interleave with the queries of a poll, a trim and a rebuild, the in-memory *)
(* canonical chain (blocklistener.go:139) is one unbroken run of blocks of a single fork, so  *)
(* the confirmations and the head-chain snapshot taken from it can be walked by parent hash.  *)
ChainIsLinked == Linked(canonicalChain)

(* The height the event streams read is never below a block the chain holds, and the block    *)
(* info kept for the head is of that height (checkAndSetHighestBlock): blocks enter the chain *)
(* on three paths, and each must have raised the height first.                                *)
HeadCoversChain ==
    /\ \A b \in BlocksOf(canonicalChain) : Number(b) <= highestBlock
    /\ headBlockInfo # NoBlock => Number(headBlockInfo) = highestBlock

(* "We notify for all hashes from the point of change in the chain onwards"                   *)
(* (blocklistener_pollers.go:98): between polls, a consumer that starts from the seeded chain *)
(* and applies the updates knows every block of the chain, re-orged ones included.            *)
ConsumersKnowChain ==
    pc = "poll" /\ ~stopped => BlocksOf(canonicalChain) \subseteq told

(* The same comment taken to the letter, of the update about to be sent: it holds every hash  *)
(* of the chain from the number of notifyPos onwards.                                         *)
UpdateHoldsAllFromChange ==
    pc = "reconcile" /\ batch = <<>> /\ notifyPos # NoBlock =>
        BlocksOf(From(canonicalChain, notifyPos)) \subseteq BlocksOf(BlockHashes)

(* What one update tells a consumer is one unbroken run of blocks of a single fork, although  *)
(* the element it starts from may have been removed by a later block of the same poll.        *)
UpdateIsLinked == pc = "reconcile" => Linked(BlockHashes)

(* In client filter polling mode: once the node stops changing, polling brings    *)
(* the chain onto the node's fork, and consumers know that head: a gap, a re-org or a rebuild *)
(* that stopped on a changing node is repaired by the later polls.                            *)
ChainCatchesUp ==
    <>[](stopped \/ (head \in BlocksOf(canonicalChain) /\ head \in told))
=============================================================================
