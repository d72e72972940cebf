---------------------------- MODULE GetLogsStream ----------------------------
(***************************************************************************)
(* An event stream whose lead group polls with eth_getLogs                 *)
(* (events.filterPollingMode: client), in full and in light chain tracking *)
(* mode: streamLoop, leadGroupCatchup and leadGroupSteadyStateGetLogs      *)
(* (internal/ethereum), next to a block listener and a node that move.     *)
(*                                                                         *)
(* A block version stands for its logs: every block carries one event the  *)
(* listener wants.  The lead group is one listener; another one that joins *)
(* or leaves shows as a change of updateCount.  Reading the height, taking *)
(* the snapshot, the query, and each push on the events channel are steps. *)
(***************************************************************************)
EXTENDS MonitoredHead

CONSTANTS
    FromBlocks,             \* the listener's fromBlock or checkpoint
    CatchupPageSize,        \* events.catchupPageSize
    CatchupThreshold,       \* events.catchupThreshold
    MaxResets,              \* bound: changes of the lead group's listeners
    MaxLead                 \* bound: blocks the chain may grow between two continuity checks

ASSUME StreamAssumption ==
    /\ FromBlocks \subseteq Nat
    /\ CatchupPageSize \in Nat \ {0}
    /\ CatchupThreshold \in Nat /\ CatchupThreshold >= CatchupPageSize
    /\ LightMode => CatchupPageSize > CheckpointBlockGap    \* NewEthereumConnector enforces both
    /\ MaxResets \in Nat /\ MaxLead \in Nat

VARIABLES
    pc,                 \* what the stream loop does next
    catchup,            \* es.catchup: the lead group is in leadGroupCatchup
    headBlock,          \* es.headBlock
    hwmBlock,           \* the listener's scan position
    lastDetected,       \* the listener's last detected checkpoint (its block), or -1
    resets,             \* changes of es.updateCount so far
    changed,            \* es.updateCount differs from the loop's lastUpdate
    chainHead,          \* the height read at the start of the cycle
    headChain,          \* the snapshot of the monitored head
    fromBlock,          \* poll.fromBlock, or -1
    toBlock,
    polledChain,        \* poll.polledChain (full mode): at most one block of each number
    deliveredBlocks,    \* poll.deliveredBlocks (light mode)
    newLogs,            \* the block versions the query returned, less those delivered
    pending,            \* the events of the page still to be pushed
    startBlock,         \* history: where the listener started
    delivered,          \* history: the events pushed to FFTM
    sinceReset,         \* history: those pushed since the poll position was (re-)established
    detectedStable,     \* history: those pushed with DetectedStable set
    checkedHead         \* history: highestBlock at the last continuity check

pollVars    == <<fromBlock, polledChain, deliveredBlocks, sinceReset>>
pageVars    == <<chainHead, headChain, toBlock, newLogs, pending>>
markVars    == <<hwmBlock, headBlock, lastDetected>>
historyVars == <<startBlock, delivered, detectedStable>>
streamVars  == <<pc, catchup, markVars, resets, changed, pollVars, pageVars, historyVars, checkedHead>>
vars == <<headVars, streamVars>>

Init ==
    /\ HeadInit
    /\ pc = "start" /\ catchup = FALSE
    /\ hwmBlock \in FromBlocks /\ startBlock = hwmBlock
    /\ headBlock = -1 /\ lastDetected = -1
    /\ resets = 0 /\ changed = FALSE
    /\ chainHead = 0 /\ headChain = <<>> /\ toBlock = 0 /\ newLogs = {} /\ pending = {}
    /\ fromBlock = -1 /\ polledChain = {} /\ deliveredBlocks = {} /\ sinceReset = {}
    /\ delivered = {} /\ detectedStable = {}
    /\ checkedHead = highestBlock

(* Mutant: not clamped at block 0. *)
StableHeadUnclamped(height) == height - CheckpointBlockGap

(* Mutant: the gap is one block short. *)
StableHeadTooHigh(height) == NotBelowZero(height - CheckpointBlockGap + 1)

(* The stable threshold: checkpointBlockGap behind the head. *)
StableHead(height) == NotBelowZero(height - CheckpointBlockGap)

(* moveHWMForwards and storeHeadBlockForward *)
Forward(old, new) == IF new > old THEN new ELSE old

-----------------------------------------------------------------------------
(* Start-up and the two modes of streamLoop. *)

(* preStartProcessing: the head position is the listener's, or the stable threshold. *)
PreStartProcessing ==
    /\ pc = "start"
    /\ headBlock' = IF hwmBlock > StableHead(highestBlock) THEN StableHead(highestBlock) ELSE hwmBlock
    /\ pc' = "cycle" /\ catchup' = TRUE
    /\ UNCHANGED <<headVars, hwmBlock, lastDetected, resets, changed, pollVars, pageVars, historyVars, checkedHead>>

(* leadGroupCatchup: the gap to the stable threshold is small, so the steady state begins *)
CaughtUp ==
    /\ pc = "cycle" /\ catchup
    /\ StableHead(highestBlock) - hwmBlock < CatchupThreshold
    /\ catchup' = FALSE
    /\ changed' = FALSE
    /\ fromBlock' = -1 /\ polledChain' = {} /\ deliveredBlocks' = {} /\ sinceReset' = {}
    /\ UNCHANGED <<headVars, pc, markVars, resets, pageVars, historyVars, checkedHead>>

(* leadGroupCatchup: the next page, which never reaches above the stable threshold *)
CatchupPage ==
    /\ pc = "cycle" /\ catchup
    /\ StableHead(highestBlock) - hwmBlock >= CatchupThreshold
    /\ chainHead' = highestBlock
    /\ fromBlock' = hwmBlock
    /\ LET page == hwmBlock + CatchupPageSize - 1
       IN  toBlock' = IF page > StableHead(highestBlock) THEN StableHead(highestBlock) ELSE page
    /\ pc' = "query"
    /\ changed' = FALSE
    /\ UNCHANGED <<headVars, catchup, markVars, resets, polledChain, deliveredBlocks, sinceReset,
                   headChain, newLogs, pending, historyVars, checkedHead>>

-----------------------------------------------------------------------------
(* leadGroupSteadyStateGetLogs *)

(* poll.reset, from the listener's scan position *)
ResetPoll ==
    /\ fromBlock' = hwmBlock
    /\ polledChain' = {} /\ deliveredBlocks' = {} /\ sinceReset' = {}

(* The cycle reads the height, and (re-)establishes the poll position if it has to. *)
BeginCycle ==
    /\ pc = "cycle" /\ ~catchup
    /\ chainHead' = highestBlock
    /\ changed' = FALSE
    /\ IF fromBlock < 0 \/ changed THEN ResetPoll ELSE UNCHANGED pollVars
    /\ IF StableHead(highestBlock) - fromBlock' > CatchupThreshold
       THEN pc' = "cycle" /\ catchup' = TRUE            \* reverting to catchup mode
       ELSE pc' = "plan" /\ catchup' = catchup
    /\ UNCHANGED <<headVars, markVars, resets, headChain, toBlock, newLogs, pending, historyVars, checkedHead>>

(* The records of polled blocks that are still in the monitored window *)
InWindow(chain) ==
    IF chain = <<>> THEN polledChain ELSE {b \in polledChain : Number(b) >= Number(chain[1])}

(* Where the chain we polled and the chain we hold now differ *)
Diverging(records, chain) ==
    {r \in records : \E b \in BlocksOf(chain) : Number(b) = Number(r) /\ b # r}

Lowest(blocks) == CHOOSE b \in blocks : \A c \in blocks : Number(b) <= Number(c)

(* Mutant: the diverging block itself is not scanned again. *)
RewindPastDiverging(chain) ==
    LET records == InWindow(chain)
        diverging == Diverging(records, chain)
    IN  IF diverging = {}
        THEN polledChain' = records /\ UNCHANGED fromBlock
        ELSE /\ polledChain' = {r \in records : Number(r) <= Number(Lowest(diverging))}
             /\ fromBlock' = Number(Lowest(diverging)) + 1

(* checkReorgRewind *)
CheckReorgRewind(chain) ==
    LET records == InWindow(chain)
        diverging == Diverging(records, chain)
    IN  IF diverging = {}
        THEN polledChain' = records /\ UNCHANGED fromBlock
        ELSE /\ polledChain' = {r \in records : Number(r) < Number(Lowest(diverging))}
             /\ fromBlock' = Number(Lowest(diverging))

(* Mutant: light mode is held at the stable threshold too. *)
CeilingAtStableHead(chain) == StableHead(chainHead)

(* steadyStateScanCeiling *)
ScanCeiling(chain) ==
    LET snapTop == IF chain = <<>> THEN 0 ELSE Number(chain[Len(chain)])
        verifiableTo == Forward(StableHead(chainHead), snapTop)
    IN  IF LightMode \/ chainHead < verifiableTo THEN chainHead ELSE verifiableTo

(* The snapshot, the continuity check, and the range of the next query *)
PlanScan ==
    /\ pc = "plan"
    /\ IF LightMode
       THEN UNCHANGED <<headChain, polledChain, fromBlock>>
       ELSE headChain' = canonicalChain /\ CheckReorgRewind(canonicalChain)
    /\ checkedHead' = highestBlock
    /\ LET page == fromBlock' + CatchupPageSize - 1
           ceiling == ScanCeiling(headChain')
       IN  toBlock' = IF ceiling > page THEN page ELSE ceiling
    /\ pc' = IF toBlock' >= fromBlock' THEN "query" ELSE "cycle"
    /\ UNCHANGED <<headVars, catchup, markVars, resets, changed, deliveredBlocks, sinceReset,
                   chainHead, newLogs, pending, historyVars>>

(* eth_getLogs: what the node has in the range *)
RangeLogs == {b \in BlocksOf(Path(head)) : Number(b) \in fromBlock..toBlock}

(* Mutant: delivered blocks are recognised by their number. *)
FilterDeliveredNumbers(logs) == {b \in logs : \A d \in deliveredBlocks : Number(d) # Number(b)}

(* filterDelivered *)
FilterDelivered(logs) == logs \ deliveredBlocks

(* A light mode node refuses a range above its head; others return what they have. *)
RangeQuery ==
    /\ pc = "query"
    /\ LightMode => toBlock <= Number(head)
    /\ newLogs' = IF LightMode /\ ~catchup THEN FilterDelivered(RangeLogs) ELSE RangeLogs
    /\ pending' = {b \in newLogs' : Number(b) >= hwmBlock}
    /\ pc' = "dispatch"
    /\ UNCHANGED <<headVars, catchup, markVars, resets, changed, pollVars, chainHead, headChain, toBlock,
                   historyVars, checkedHead>>

(* The cycle ends: its local variables are dead. *)
EndCycle ==
    /\ chainHead' = 0 /\ headChain' = <<>> /\ toBlock' = 0 /\ newLogs' = {}
    /\ pc' = "cycle"

(* The query is refused or fails, or an event cannot be enriched: the cycle starts again. *)
RangeQueryFailed ==
    /\ pc = "query"
    /\ EndCycle
    /\ UNCHANGED <<headVars, catchup, markVars, resets, changed, pollVars, pending, historyVars, checkedHead>>

-----------------------------------------------------------------------------
(* dispatchSetHWMCheckExit, one event at a time *)

(* detectedStable *)
IsDetectedStable(b) == LightMode /\ Number(b) + CheckpointBlockGap < highestBlock

(* markDetectedAndDispatch, in the order of the chain: the event is marked, then pushed. *)
DispatchEvent ==
    /\ pc = "dispatch" /\ pending # {}
    /\ LET b == Lowest(pending)
       IN  /\ lastDetected' = Forward(lastDetected, Number(b))
           /\ delivered' = delivered \cup {b}
           /\ sinceReset' = sinceReset \cup {b}
           /\ detectedStable' = IF IsDetectedStable(b) THEN detectedStable \cup {b} ELSE detectedStable
           /\ pending' = pending \ {b}
    /\ UNCHANGED <<headVars, pc, catchup, hwmBlock, headBlock, resets, changed, fromBlock, polledChain,
                   deliveredBlocks, chainHead, headChain, toBlock, newLogs, startBlock, checkedHead>>

(* Mutant: the unstable blocks of the page are marked as done. *)
PageHWMUncapped == toBlock + 1

(* The high water mark of a page is min(scan position, stable threshold). *)
PageHWM ==
    LET hwm == IF StableHead(chainHead) < toBlock + 1 THEN StableHead(chainHead) ELSE toBlock + 1
    IN  IF LightMode /\ hwm < fromBlock THEN fromBlock ELSE hwm

(* advance: the hashes of the snapshot are recorded for the blocks polled. *)
Advance ==
    /\ polledChain' = polledChain \cup {b \in BlocksOf(headChain) : Number(b) \in fromBlock..toBlock}
    /\ fromBlock' = toBlock + 1
    /\ UNCHANGED deliveredBlocks

(* Mutant: the block at the new base is forgotten, although it is scanned again. *)
AdvanceRescanTooFar(newBase) ==
    /\ deliveredBlocks' = {b \in deliveredBlocks \cup newLogs : Number(b) > newBase}
    /\ fromBlock' = newBase
    /\ UNCHANGED polledChain

(* advanceRescan: what was delivered is recorded until it is below the window. *)
AdvanceRescan(newBase) ==
    /\ deliveredBlocks' = {b \in deliveredBlocks \cup newLogs : Number(b) >= newBase}
    /\ fromBlock' = newBase
    /\ UNCHANGED polledChain

SteadyPageDone ==
    /\ pc = "dispatch" /\ pending = {} /\ ~catchup
    /\ hwmBlock' = Forward(hwmBlock, PageHWM)
    /\ headBlock' = Forward(headBlock, PageHWM)
    /\ IF LightMode THEN AdvanceRescan(PageHWM) ELSE Advance
    /\ EndCycle
    /\ UNCHANGED <<headVars, catchup, lastDetected, resets, changed, sinceReset, pending, historyVars, checkedHead>>

CatchupPageDone ==
    /\ pc = "dispatch" /\ pending = {} /\ catchup
    /\ hwmBlock' = Forward(hwmBlock, toBlock + 1)
    /\ EndCycle
    /\ UNCHANGED <<headVars, catchup, headBlock, lastDetected, resets, changed, pollVars, pending,
                   historyVars, checkedHead>>

-----------------------------------------------------------------------------
(* The rest of the connector. *)

(* Another listener joins or leaves the lead group. *)
ListenersChange ==
    /\ resets < MaxResets
    /\ resets' = resets + 1
    /\ changed' = TRUE
    /\ UNCHANGED <<headVars, pc, catchup, markVars, pollVars, pageVars, historyVars, checkedHead>>

(* The context of the stream is cancelled. *)
StreamStops ==
    /\ pc # "done"
    /\ pc' = "done"
    /\ UNCHANGED <<headVars, catchup, markVars, resets, changed, pollVars, pageVars, historyVars, checkedHead>>

(* The chain moves, at most MaxLead blocks past the height of the last continuity check. *)
ChainStep ==
    /\ ChainMoves
    /\ (polledChain # {} \/ headChain # <<>>) => Number(head') <= checkedHead + MaxLead
    /\ UNCHANGED streamVars

PollStep == PollHead /\ UNCHANGED streamVars

StreamLoop == PreStartProcessing \/ CaughtUp \/ CatchupPage \/ BeginCycle \/ PlanScan \/ RangeQuery
                \/ RangeQueryFailed \/ DispatchEvent \/ SteadyPageDone \/ CatchupPageDone

Next == StreamLoop \/ ListenersChange \/ StreamStops \/ ChainStep \/ PollStep

Spec == Init /\ [][Next]_vars

(* The two loops are goroutines that are always scheduled, FFTM drains the events channel, and a *)
(* query that is sent again and again is answered in the end.                                    *)
LiveSpec == Spec /\ WF_vars(PollStep) /\ WF_vars(StreamLoop) /\ SF_vars(RangeQuery)
-----------------------------------------------------------------------------
(* Properties. *)

TypeOK ==
    /\ HeadTypeOK
    /\ pc \in {"start", "cycle", "plan", "query", "dispatch", "done"}
    /\ catchup \in BOOLEAN /\ changed \in BOOLEAN
    /\ resets \in 0..MaxResets
    /\ hwmBlock \in Nat /\ startBlock \in Nat /\ chainHead \in Nat /\ toBlock \in Nat /\ checkedHead \in Nat
    /\ fromBlock \in Nat \cup {-1} /\ headBlock \in Nat \cup {-1} /\ lastDetected \in Nat \cup {-1}
    /\ headChain \in Seq(Block) /\ polledChain \subseteq Block /\ pending \subseteq Block
    /\ deliveredBlocks \subseteq Block /\ newLogs \subseteq Block
    /\ delivered \subseteq Block /\ sinceReset \subseteq Block /\ detectedStable \subseteq Block

(* The scan position is what an inactivity checkpoint records, and a restart never looks below *)
(* it (event_listener.go:61, event_stream_getlogs.go:202): every event of the chain between    *)
(* the listener's first block and its scan position has been pushed, on the fork that stayed,  *)
(* whatever re-orgs, rewinds, resets and failed pages came in between.                         *)
NothingLostBelowHWM ==
    \A b \in BlocksOf(Path(head)) :
        Number(b) \in startBlock..(hwmBlock - 1) => b \in delivered

(* In light mode the unstable window is scanned on every sweep, and every block version is     *)
(* pushed once: what deliveredBlocks forgets is never scanned again.                           *)
NoRedelivery ==
    LightMode /\ ~catchup /\ pc = "dispatch" => pending \cap sinceReset = {}

(* The lead group's position is where the listeners in individual catchup stop                 *)
(* (catchupCeiling): no block below it may still be replaced by a re-org, even when the height *)
(* was first read from a node ahead of the one that answers the polls.  The exception is a     *)
(* listener that starts above the stable threshold, at the latest block for instance: in light *)
(* mode (event_stream_getlogs.go:333) it takes the position there.                             *)
HeadBlockIsStable ==
    \/ headBlock <= Number(settled)
    \/ LightMode /\ headBlock = startBlock

(* "so no re-org can remove it" (event_stream.go:597): an event that is pushed with            *)
(* DetectedStable, which FFTM confirms without its receipt, is of a block that stays.          *)
DetectedStableStays == detectedStable \subseteq BlocksOf(Path(settled))

(* Whatever the mode, the stream keeps the promise of EventDetection: the scan position only     *)
(* moves over settled blocks whose events were pushed, and never back.                           *)
Detection == INSTANCE EventDetection WITH
    EventBlocks <- Block, start <- startBlock, position <- hwmBlock, detected <- delivered

ImplementsDetection == Detection!Spec

(* Once the chain stops moving, every event from the listener's first block on is pushed, in   *)
(* whatever mode the stream was when blocks were mined, replaced, or missed by a snapshot.     *)
(* Nothing is promised of a light mode node that stays behind the head.                        *)
EventsDetected ==
    <>[](\/ pc = "done"
         \/ LightMode /\ Number(head) < highestBlock
         \/ \A b \in BlocksOf(Path(head)) : Number(b) >= startBlock => b \in delivered)
=============================================================================
