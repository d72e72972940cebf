---------------------------- MODULE FilterStream ----------------------------
(***************************************************************************)
(* An event stream whose lead group polls a log filter of the node         *)
(* (events.filterPollingMode: server): preStartProcessing, streamLoop,     *)
(* leadGroupCatchup and leadGroupSteadyState (event_stream.go), next to    *)
(* the listeners' own catchup loops, the API calls that add and remove     *)
(* them, a block listener and a node that move.                            *)
(*                                                                         *)
(* The node holds the log filter, and the logs that became canonical since *)
(* it was last read.  A response that is lost on its way takes the logs it *)
(* carried with it.  The events of a page are pushed, and the scan         *)
(* positions moved, in one step: an observer in between would see events   *)
(* ahead of a position, never behind it.  That the stream stops, at any    *)
(* point, needs no step of its own: nothing is promised after it.          *)
(***************************************************************************)
EXTENDS Listeners

VARIABLES
    pc,             \* what the stream loop does next
    group,          \* the listeners of the aggregated listener
    toStart,        \* the listeners preStartProcessing still has to start
    filter,         \* "none", "new" (eth_getFilterLogs comes next) or "polled"
    resetRequired,  \* filterResetRequired
    filterFrom,     \* the filter's fromBlock
    pageHWM,        \* where the page in hand moves the scan positions
    pending,        \* the Subject's events of that page
    nodeLogFilter,  \* the node holds the log filter
    filterLogs,     \* the blocks whose logs eth_getFilterChanges returns next
    lostLogs        \* history: blocks whose logs were lost with a response

streamVars == <<pc, group, toStart, filter, resetRequired, filterFrom, pageHWM, pending>>
filterVars == <<nodeLogFilter, filterLogs, lostLogs>>
vars == <<headVars, headBlock, updated, listenerVars, streamVars, filterVars>>

Init ==
    /\ HeadInit
    /\ ListenersInit
    /\ pc = "start" /\ group = {} /\ toStart = {}
    /\ filter = "none" /\ resetRequired = FALSE /\ filterFrom = 0
    /\ pageHWM = 0 /\ pending = {}
    /\ nodeLogFilter = FALSE /\ filterLogs = {} /\ lostLogs = {}

Added == {l \in Listener : status[l] = "added"}

(* buildReuseLeadGroupListener: the group is only rebuilt if a listener has changed. *)
CurrentGroup == IF updated THEN {l \in Added : ~catchup[l]} ELSE group

(* The lowest scan position of the group *)
LowestHWM == CHOOSE n \in {hwmBlock[l] : l \in group'} : \A l \in group' : n <= hwmBlock[l]

-----------------------------------------------------------------------------
(* preStartProcessing *)

(* The head position is the highest of the listeners', but no higher than the stable threshold. *)
EstablishHeadBlock ==
    /\ pc = "start"
    /\ LET safeHead == StableHead(highestBlock)
           highest == CHOOSE n \in {hwmBlock[l] : l \in Added} : \A l \in Added : n >= hwmBlock[l]
       IN  headBlock' = IF Added = {} \/ \E l \in Added : hwmBlock[l] > safeHead THEN safeHead ELSE highest
    /\ toStart' = Added
    /\ pc' = "starting"
    /\ UNCHANGED <<headVars, updated, listenerVars, group, filter, resetRequired, filterFrom, pageHWM, pending,
                   filterVars>>

StartInitial(l) ==
    /\ pc = "starting" /\ l \in toStart
    /\ StartEventListener(l)
    /\ toStart' = toStart \ {l}
    /\ UNCHANGED <<headVars, headBlock, status, hwmBlock, loopTo, loopEvents, adding, pageSize, startBlock, delivered,
                   pc, group, filter, resetRequired, filterFrom, pageHWM, pending, filterVars>>

-----------------------------------------------------------------------------
(* streamLoop alternates between two modes; each builds the group anew. *)

EnterMode(mode) == pc' = mode /\ updated' = TRUE

AllStarted ==
    /\ pc = "starting" /\ toStart = {}
    /\ EnterMode("catchup")
    /\ UNCHANGED <<headVars, headBlock, listenerVars, group, toStart, filter, resetRequired, filterFrom, pageHWM,
                   pending, filterVars>>

(* leadGroupCatchup: the next page up to the stable threshold, or on to the steady state *)
LeadGroupCatchup ==
    /\ pc = "catchup"
    /\ group' = CurrentGroup
    /\ LET pollableHead == StableHead(highestBlock)
           page == LowestHWM + pageSize - 1
       IN  IF group' = {} \/ pollableHead - LowestHWM < CatchupThreshold
           THEN EnterMode("steady") /\ UNCHANGED <<filterFrom, pageHWM>>
           ELSE /\ pc' = "query" /\ updated' = FALSE
                /\ filterFrom' = LowestHWM
                /\ pageHWM' = (IF page > pollableHead THEN pollableHead ELSE page) + 1
    /\ UNCHANGED <<headVars, headBlock, listenerVars, toStart, filter, resetRequired, pending, filterVars>>

(* The Subject's events among the logs, those below its scan position left out (filterEnrichEthLog) *)
EventsOf(logs) == IF Subject \in group THEN {b \in logs : Number(b) >= hwmBlock[Subject]} ELSE {}

CatchupPage ==
    /\ pc = "query"
    /\ LightMode => pageHWM - 1 <= Number(head)
    /\ pending' = EventsOf(RangeLogs(filterFrom, pageHWM - 1))
    /\ pc' = "catchupDispatch"
    /\ UNCHANGED <<headVars, headBlock, updated, listenerVars, group, toStart, filter, resetRequired, filterFrom,
                   pageHWM, filterVars>>

CatchupPageFailed ==
    /\ pc = "query"
    /\ pc' = "catchup"
    /\ UNCHANGED <<headVars, headBlock, updated, listenerVars, group, toStart, filter, resetRequired, filterFrom,
                   pageHWM, pending, filterVars>>

(* dispatchSetHWMCheckExit: the events are pushed, and the scan positions moved forwards. *)
MoveHWMForwards ==
    hwmBlock' = [l \in Listener |-> IF l \in group THEN Forward(hwmBlock[l], pageHWM) ELSE hwmBlock[l]]

Dispatch ==
    /\ delivered' = delivered \cup pending
    /\ MoveHWMForwards
    /\ pending' = {} /\ pageHWM' = 0
    /\ UNCHANGED <<headVars, updated, status, catchup, loop, loopTo, loopEvents, adding, pageSize, startBlock,
                   group, toStart, filter, resetRequired, filterVars>>

DispatchCatchupPage ==
    /\ pc = "catchupDispatch"
    /\ Dispatch
    /\ filterFrom' = 0
    /\ pc' = "catchup"
    /\ UNCHANGED headBlock

-----------------------------------------------------------------------------
(* leadGroupSteadyState *)

(* A filter is needed when there is none, the group has changed, or events could not be enriched. *)
NeedsFilter == filter = "none" \/ updated \/ resetRequired

(* The height is read before the logs, and the scan positions follow it once they are pushed. *)
SteadyCycle ==
    /\ pc = "steady"
    /\ group' = CurrentGroup
    /\ updated' = FALSE
    /\ IF group' = {}
       THEN UNCHANGED <<pc, pageHWM, resetRequired>>
       ELSE /\ pageHWM' = StableHead(highestBlock)
            /\ pc' = IF NeedsFilter THEN "filter" ELSE "logs"
            /\ resetRequired' = FALSE
    /\ UNCHANGED <<headVars, headBlock, listenerVars, toStart, filter, filterFrom, pending, filterVars>>

(* uninstallFilter *)
Uninstalled == nodeLogFilter' = FALSE /\ filterLogs' = {} /\ UNCHANGED lostLogs

(* reverting to catchup mode *)
RevertToCatchup ==
    /\ pc = "filter"
    /\ group' = group
    /\ StableHead(highestBlock) - LowestHWM > CatchupThreshold
    /\ Uninstalled /\ filter' = "none" /\ filterFrom' = 0 /\ pageHWM' = 0
    /\ EnterMode("catchup")
    /\ UNCHANGED <<headVars, headBlock, listenerVars, toStart, resetRequired, pending>>

(* Where a filter starts *)
FilterStart == LowestHWM

(* eth_newFilter, after the filter before it was uninstalled; what it will return is fetched at once. *)
NewFilter ==
    /\ pc = "filter"
    /\ group' = group
    /\ StableHead(highestBlock) - LowestHWM <= CatchupThreshold
    /\ nodeLogFilter' = TRUE /\ filterLogs' = {} /\ UNCHANGED lostLogs
    /\ filter' = "new"
    /\ filterFrom' = FilterStart
    /\ pc' = "logs"
    /\ UNCHANGED <<headVars, headBlock, updated, listenerVars, toStart, resetRequired,
                   pageHWM, pending>>

NewFilterFails ==
    /\ pc = "filter"
    /\ Uninstalled /\ filter' = "none" /\ filterFrom' = 0 /\ pageHWM' = 0
    /\ pc' = "steady"
    /\ UNCHANGED <<headVars, headBlock, updated, listenerVars, group, toStart, resetRequired,
                   pending>>

(* The logs the next call returns: all of them for a new filter, then those since the last call. *)
NextLogs ==
    IF filter = "new" THEN LogsOf({b \in BlocksOf(Path(head)) : Number(b) >= filterFrom}) ELSE filterLogs

(* eth_getFilterLogs may leave what it returned in the filter's queue. *)
LogsAreTaken == filterLogs' \in IF filter = "new" THEN {{}, filterLogs} ELSE {{}}

GetFilterLogs ==
    /\ pc = "logs" /\ nodeLogFilter
    /\ pending' = EventsOf(NextLogs)
    /\ LogsAreTaken
    /\ filter' = "polled" /\ filterFrom' = 0
    /\ pc' = "dispatch"
    /\ UNCHANGED <<headVars, headBlock, updated, listenerVars, group, toStart, resetRequired, pageHWM, nodeLogFilter, lostLogs>>

(* The next cycle queries again; its local variables are dead. *)
Retry ==
    /\ pc = "logs"
    /\ pc' = "steady" /\ pageHWM' = 0
    /\ UNCHANGED <<headVars, headBlock, updated, listenerVars, group, toStart,
                   filterFrom, pending>>

(* The call fails, and the changes it was to return are gone if the node has taken them off. *)
GetFilterLogsFails ==
    /\ Retry
    /\ filterLogs' \in {{}, filterLogs}
    /\ lostLogs' = IF filter = "polled" /\ filterLogs' = {} THEN lostLogs \cup filterLogs ELSE lostLogs
    /\ UNCHANGED <<filter, resetRequired, nodeLogFilter>>

FilterNotFound ==
    /\ ~nodeLogFilter
    /\ Retry
    /\ filter' = "none"
    /\ UNCHANGED <<resetRequired, filterVars>>

(* Mutant: the filter is kept. *)
KeepFilter == FALSE

(* The filter is reset, "as otherwise we'll skip past these events". *)
ResetAfterEnrichFailure == TRUE

EnrichFails ==
    /\ nodeLogFilter
    /\ EventsOf(NextLogs) # {}
    /\ Retry
    /\ LogsAreTaken
    /\ filter' = "polled"
    /\ resetRequired' = ResetAfterEnrichFailure
    /\ UNCHANGED <<nodeLogFilter, lostLogs>>

(* The head position follows the scan positions. *)
DispatchLogs ==
    /\ pc = "dispatch"
    /\ Dispatch
    /\ headBlock' = Forward(headBlock, pageHWM)
    /\ pc' = "steady"
    /\ UNCHANGED filterFrom

-----------------------------------------------------------------------------
(* The rest of the connector. *)

ListenerStep == (ApiCall \/ CatchupLoop) /\ UNCHANGED <<headVars, streamVars, filterVars>>

(* The node drops the log filter. *)
FilterLost ==
    /\ nodeLogFilter
    /\ nodeLogFilter' = FALSE /\ filterLogs' = {}
    /\ UNCHANGED <<headVars, headBlock, updated, listenerVars, streamVars, lostLogs>>

(* The chain moves, and the log filter collects what it matches in the blocks that became canonical. *)
ChainStep ==
    /\ ChainMoves
    /\ filterLogs' = IF nodeLogFilter THEN filterLogs \cup LogsOf(BlocksOf(NewlyCanonical(head, head'))) ELSE filterLogs
    /\ UNCHANGED <<headBlock, updated, listenerVars, streamVars, nodeLogFilter, lostLogs>>

PollStep == PollHead /\ UNCHANGED <<headBlock, updated, listenerVars, streamVars, filterVars>>

StreamLoop ==
    \/ EstablishHeadBlock \/ (\E l \in Listener : StartInitial(l)) \/ AllStarted
    \/ LeadGroupCatchup \/ CatchupPage \/ CatchupPageFailed \/ DispatchCatchupPage
    \/ SteadyCycle \/ RevertToCatchup \/ NewFilter \/ NewFilterFails
    \/ GetFilterLogs \/ GetFilterLogsFails \/ FilterNotFound \/ EnrichFails \/ DispatchLogs

Next == StreamLoop \/ ListenerStep \/ FilterLost \/ ChainStep \/ PollStep

Spec == Init /\ [][Next]_vars

(* The catchup loop of a listener is a goroutine of its own, and a query it sends again and *)
(* again is answered in the end.                                                            *)
LiveSpec ==
    /\ Spec
    /\ WF_vars(EstablishHeadBlock)
    /\ WF_vars(CatchupStep(Subject) /\ UNCHANGED <<headVars, streamVars, filterVars>>)
    /\ SF_vars(CatchupQuery(Subject) /\ UNCHANGED <<headVars, streamVars, filterVars>>)
-----------------------------------------------------------------------------
(* Properties. *)

TypeOK ==
    /\ HeadTypeOK
    /\ ListenersTypeOK
    /\ pc \in {"start", "starting", "catchup", "query", "catchupDispatch", "steady", "filter", "logs", "dispatch"}
    /\ group \subseteq Listener /\ toStart \subseteq Listener
    /\ filter \in {"none", "new", "polled"} /\ resetRequired \in BOOLEAN
    /\ filterFrom \in Nat /\ pageHWM \in Nat
    /\ pending \subseteq Block
    /\ nodeLogFilter \in BOOLEAN /\ filterLogs \subseteq Block /\ lostLogs \subseteq Block

(* A listener that leaves individual catchup is only polled for once the lead group has been   *)
(* rebuilt with it: until then the group must have been told of the change, or it is in nobody's *)
(* hands (startEventListener, rejoinLeadGroup).                                                 *)
NobodyIsForgotten ==
    \A l \in Listener \ group : status[l] = "added" /\ ~catchup[l] => updated

(* The lead group's position holds back the listeners in individual catchup (catchupCeiling):  *)
(* no block below it may still be replaced by a re-org.                                         *)
HeadBlockIsStable == headBlock <= Number(settled)

(* "we mark the re-org unstable blocks it deliberately holds back from as already scanned": the *)
(* scan position of a listener only moves over settled blocks whose events were pushed, in its  *)
(* own catchup loop as in the lead group, whatever filters, calls and responses fail.  The logs *)
(* of a response that is lost (event_stream.go:427) are the exception.                          *)
Detection == INSTANCE EventDetection WITH
    start <- startBlock,
    position <- IF startBlock = -1 THEN -1 ELSE hwmBlock[Subject],
    detected <- delivered \cup lostLogs

ImplementsDetection == Detection!Spec

(* A catchup loop does not go on for ever behind a lead group that moves: it ends with its      *)
(* listener in the group, or removed.                                                           *)
ListenersRejoin ==
    loop[Subject] = "check" ~> loop[Subject] = "done" /\ (status[Subject] = "removed" \/ ~catchup[Subject])
=============================================================================
