----------------------------- MODULE Listeners -----------------------------
(***************************************************************************)
(* The listeners of one event stream (event_listener.go, event_actions.go  *)
(* and the listener part of event_stream.go): added and removed by API     *)
(* calls, started by the call and by the stream's own start-up, scanned in *)
(* an individual catchup loop until they are close enough to the lead      *)
(* group's position, then members of the lead group.                       *)
(*                                                                         *)
(* What a listener detects is followed for one of them, the Subject; the   *)
(* others move the group, its position and the shared page size around it. *)
(* A catchup loop looks at its readiness, reads its range, queries it, and *)
(* pushes the page in four steps, with the rest of the stream in between.  *)
(***************************************************************************)
EXTENDS MonitoredHead

CONSTANTS
    Listener, Subject,
    EventBlocks,            \* the blocks that carry an event of the Subject
    InitialListeners,       \* the sets of listeners the stream may be started with
    Removable,              \* bound: the listeners an API call may remove
    FromBlocks,             \* the fromBlock or checkpoint a listener may be added with
    CatchupPageSize,        \* events.catchupPageSize
    CatchupThreshold        \* events.catchupThreshold

(* NewEthereumConnectorWithRPC enforces the sizes. *)
ASSUME ListenersAssumption ==
    /\ Subject \in Listener
    /\ EventBlocks \subseteq Block
    /\ InitialListeners \subseteq SUBSET Listener
    /\ Removable \subseteq Listener
    /\ FromBlocks \subseteq Nat
    /\ CatchupPageSize \in Nat \ {0}
    /\ CatchupThreshold \in Nat /\ CatchupThreshold >= CatchupPageSize
    /\ LightMode => CatchupPageSize > CheckpointBlockGap

VARIABLES
    headBlock,      \* es.headBlock: the position of the lead group, or -1
    status,         \* "absent", "added", "removed"
    catchup,        \* listener.catchup: not a member of the lead group
    hwmBlock,       \* the scan position
    loop,           \* the catchup loop: "none", "check", "range", "query", "dispatch", "done"
    loopTo,         \* its toBlock
    loopEvents,     \* the Subject's events of the page
    adding,         \* added by an EventListenerAdd that has not started it yet
    updated,        \* es.updateCount differs from the lead group's lastUpdate
    pageSize,       \* catchupPageSize, shared by all loops
    startBlock,     \* history: where the Subject started, or -1
    delivered       \* history: the Subject's events pushed to FFTM

listenerVars == <<status, catchup, hwmBlock, loop, loopTo, loopEvents, adding, pageSize, startBlock, delivered>>

(* The listeners the stream is started with are added before its loop runs. *)
ListenersInit ==
    /\ headBlock = -1
    /\ \E initial \in InitialListeners :
        /\ status = [l \in Listener |-> IF l \in initial THEN "added" ELSE "absent"]
        /\ \E n \in FromBlocks : hwmBlock = [l \in Listener |-> IF l \in initial THEN n ELSE 0]
    /\ catchup = [l \in Listener |-> TRUE]
    /\ loop = [l \in Listener |-> "none"]
    /\ loopTo = [l \in Listener |-> 0]
    /\ loopEvents = {} /\ adding = {} /\ updated = TRUE
    /\ pageSize = CatchupPageSize
    /\ startBlock = IF status[Subject] = "added" THEN hwmBlock[Subject] ELSE -1
    /\ delivered = {}

Forward(old, new) == IF new > old THEN new ELSE old

(* Mutant: the gap is one block short. *)
StableHeadTooHigh(height) == NotBelowZero(height - CheckpointBlockGap + 1)

(* The stable threshold: checkpointBlockGap behind the head *)
StableHead(height) == NotBelowZero(height - CheckpointBlockGap)

(* Mutant: a listener has to be past the lead group's position. *)
ReadyOncePast(l) == headBlock >= 0 /\ headBlock < hwmBlock[l]

(* checkReadyForLeadPackOrRemoved *)
Ready(l) == headBlock >= 0 /\ headBlock - hwmBlock[l] < CatchupThreshold

-----------------------------------------------------------------------------
(* API calls. *)

(* addEventListener: from a block, a checkpoint, or the latest block *)
AddEventListener(l) ==
    /\ status[l] = "absent"
    /\ status' = [status EXCEPT ![l] = "added"]
    /\ \E n \in FromBlocks \cup {highestBlock} :
        /\ hwmBlock' = [hwmBlock EXCEPT ![l] = n]
        /\ startBlock' = IF l = Subject THEN n ELSE startBlock
    /\ adding' = adding \cup {l}
    /\ UNCHANGED <<headBlock, catchup, loop, loopTo, loopEvents, updated, pageSize, delivered>>

(* startEventListener: only one loop is ever spawned. *)
Spawns(l) == ~Ready(l) /\ status[l] # "removed" /\ loop[l] = "none"

(* startEventListener: a member of the lead group at once, or a catchup loop *)
StartEventListener(l) ==
    /\ loop' = IF Spawns(l) THEN [loop EXCEPT ![l] = "check"] ELSE loop
    /\ IF Ready(l) /\ catchup[l]
       THEN catchup' = [catchup EXCEPT ![l] = FALSE] /\ updated' = TRUE
       ELSE UNCHANGED <<catchup, updated>>

(* EventListenerAdd starts what it added. *)
StartAdded(l) ==
    /\ l \in adding
    /\ StartEventListener(l)
    /\ adding' = adding \ {l}
    /\ UNCHANGED <<headBlock, status, hwmBlock, loopTo, loopEvents, pageSize, startBlock, delivered>>

(* removeEventListener *)
RemoveEventListener(l) ==
    /\ l \in Removable /\ status[l] = "added"
    /\ status' = [status EXCEPT ![l] = "removed"]
    /\ updated' = TRUE
    /\ UNCHANGED <<headBlock, catchup, hwmBlock, loop, loopTo, loopEvents, adding, pageSize, startBlock, delivered>>

ApiCall == \E l \in Listener : AddEventListener(l) \/ StartAdded(l) \/ RemoveEventListener(l)

-----------------------------------------------------------------------------
(* listenerCatchupLoop *)

LogsOf(blocks) == blocks \cap EventBlocks

(* eth_getLogs: what the node has in a range of blocks *)
RangeLogs(from, to) == LogsOf({b \in BlocksOf(Path(head)) : Number(b) \in from..to})

LoopSees(l, next) == loop' = [loop EXCEPT ![l] = next]

CatchupRemoved(l) ==
    /\ loop[l] = "check" /\ status[l] = "removed"
    /\ LoopSees(l, "done")
    /\ UNCHANGED <<headBlock, status, catchup, hwmBlock, loopTo, loopEvents, adding, updated, pageSize,
                   startBlock, delivered>>

(* Mutant: the lead group is not told. *)
RejoinUnannounced(l) == catchup' = [catchup EXCEPT ![l] = FALSE] /\ UNCHANGED updated

(* rejoinLeadGroup *)
RejoinLeadGroup(l) == catchup' = [catchup EXCEPT ![l] = FALSE] /\ updated' = TRUE

CatchupCompletes(l) ==
    /\ loop[l] = "check" /\ status[l] # "removed" /\ Ready(l)
    /\ RejoinLeadGroup(l)
    /\ LoopSees(l, "done")
    /\ UNCHANGED <<headBlock, status, hwmBlock, loopTo, loopEvents, adding, pageSize, startBlock, delivered>>

CatchupNotReady(l) ==
    /\ loop[l] = "check" /\ status[l] # "removed" /\ ~Ready(l)
    /\ LoopSees(l, "range")
    /\ UNCHANGED <<headBlock, status, catchup, hwmBlock, loopTo, loopEvents, adding, updated, pageSize,
                   startBlock, delivered>>

(* catchupCeiling: the page ends below the position of the lead group. *)
BelowCeiling(toBlock) == IF toBlock >= headBlock THEN headBlock - 1 ELSE toBlock

(* Without a position of the lead group, or with no block below it to scan, the loop waits. *)
CatchupRange(l) ==
    LET toBlock == BelowCeiling(hwmBlock[l] + pageSize - 1)
        scans == headBlock >= 0 /\ hwmBlock[l] <= toBlock
    IN  /\ loop[l] = "range"
        /\ loopTo' = IF scans THEN [loopTo EXCEPT ![l] = toBlock] ELSE loopTo
        /\ LoopSees(l, IF scans THEN "query" ELSE "check")
        /\ UNCHANGED <<headBlock, status, catchup, hwmBlock, loopEvents, adding, updated, pageSize,
                       startBlock, delivered>>

(* A light mode node refuses a range above its head. *)
CatchupQuery(l) ==
    /\ loop[l] = "query"
    /\ LightMode => loopTo[l] <= Number(head)
    /\ loopEvents' = IF l = Subject THEN RangeLogs(hwmBlock[l], loopTo[l]) ELSE loopEvents
    /\ LoopSees(l, "dispatch")
    /\ UNCHANGED <<headBlock, status, catchup, hwmBlock, loopTo, adding, updated, pageSize, startBlock, delivered>>

(* Mutant: the size is halved whatever the mode. *)
DownscaledBelowWindow == IF pageSize \div 2 >= 1 THEN pageSize \div 2 ELSE 1

(* downscaleCatchupPageSize: halved, but a light mode page always covers the unstable window. *)
Downscaled ==
    LET floor == IF LightMode THEN CheckpointBlockGap + 1 ELSE 1
    IN  IF pageSize \div 2 >= floor THEN pageSize \div 2
        ELSE IF pageSize <= floor THEN pageSize ELSE floor

(* The query fails: because of the size of its answer, or for any other reason. *)
CatchupQueryFailed(l) ==
    /\ loop[l] = "query"
    /\ pageSize' \in {pageSize, Downscaled}
    /\ loopTo' = [loopTo EXCEPT ![l] = 0]
    /\ LoopSees(l, "check")
    /\ UNCHANGED <<headBlock, status, catchup, hwmBlock, loopEvents, adding, updated, startBlock, delivered>>

(* The events are pushed, then the scan position moves. *)
CatchupDispatch(l) ==
    /\ loop[l] = "dispatch"
    /\ delivered' = IF l = Subject THEN delivered \cup loopEvents ELSE delivered
    /\ loopEvents' = IF l = Subject THEN {} ELSE loopEvents
    /\ hwmBlock' = [hwmBlock EXCEPT ![l] = Forward(@, loopTo[l] + 1)]
    /\ loopTo' = [loopTo EXCEPT ![l] = 0]
    /\ LoopSees(l, "check")
    /\ UNCHANGED <<headBlock, status, catchup, adding, updated, pageSize, startBlock>>

CatchupStep(l) ==
    CatchupRemoved(l) \/ CatchupCompletes(l) \/ CatchupNotReady(l) \/ CatchupRange(l) \/ CatchupQuery(l)
        \/ CatchupQueryFailed(l) \/ CatchupDispatch(l)

CatchupLoop == \E l \in Listener : CatchupStep(l)

ListenersTypeOK ==
    /\ headBlock \in Nat \cup {-1}
    /\ status \in [Listener -> {"absent", "added", "removed"}]
    /\ catchup \in [Listener -> BOOLEAN]
    /\ hwmBlock \in [Listener -> Nat]
    /\ loop \in [Listener -> {"none", "check", "range", "query", "dispatch", "done"}]
    /\ loopTo \in [Listener -> Nat]
    /\ loopEvents \subseteq Block /\ delivered \subseteq Block
    /\ adding \subseteq Listener /\ updated \in BOOLEAN
    /\ pageSize \in 1..CatchupPageSize /\ (LightMode => pageSize > CheckpointBlockGap)
    /\ startBlock \in Nat \cup {-1}
=============================================================================
