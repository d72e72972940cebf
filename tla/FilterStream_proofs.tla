------------------------- MODULE FilterStream_proofs -------------------------
(***************************************************************************)
(* Theorems about FilterStream: for every block tree, any number of        *)
(* listeners, and both tracking modes, the stream implements               *)
(* EventDetection.                                                         *)
(***************************************************************************)
EXTENDS FilterStream, MonitoredHead_proofs

-----------------------------------------------------------------------------
(* Types. *)

(* A filter is only asked for, and a page only queried, for a group that has members. *)
GroupNotEmpty == pc \in {"filter", "query"} => group # {}

StreamTypeOK == TypeOK /\ GroupNotEmpty

LEMMA StableHeadType == ASSUME NEW n \in Int PROVE StableHead(n) \in Nat
  BY HeadAssumption DEF StableHead, NotBelowZero

(* The lowest scan position of the group that is built *)
LEMMA LowestHWMType ==
    ASSUME TypeOK, group' \subseteq Listener, group' # {}
    PROVE  LowestHWM \in Nat /\ \A l \in group' : LowestHWM <= hwmBlock[l]
<1> DEFINE positions == {hwmBlock[l] : l \in group'}
<1>1. positions \in SUBSET Nat /\ positions # {}
  BY DEF TypeOK, ListenersTypeOK
<1>2. \E n \in positions : \A l \in group' : n <= hwmBlock[l]
  <2>1. PICK n \in positions : \A m \in positions : n <= m
    BY <1>1, LeastNatural
  <2> QED
    BY <2>1
<1> QED
  BY <1>1, <1>2 DEF LowestHWM

LEMMA TypeInitially == Init => StreamTypeOK
<1> SUFFICES ASSUME Init PROVE StreamTypeOK
  OBVIOUS
<1>1. HeadTypeOK
  BY HeadInitially DEF Init, HeadInv
<1>2. ListenersTypeOK
  <2>1. hwmBlock \in [Listener -> Nat]
    BY ListenersAssumption DEF Init, ListenersInit
  <2>2. startBlock \in Nat \cup {-1}
    BY <2>1, ListenersAssumption DEF Init, ListenersInit
  <2>3. pageSize \in 1..CatchupPageSize /\ (LightMode => pageSize > CheckpointBlockGap)
    BY ListenersAssumption DEF Init, ListenersInit
  <2> QED
    BY <2>1, <2>2, <2>3 DEF Init, ListenersInit, ListenersTypeOK
<1> QED
  BY <1>1, <1>2 DEF Init, StreamTypeOK, GroupNotEmpty, TypeOK

(* A page size that is halved stays positive, and a light mode page longer than the gap. *)
LEMMA DownscaledType ==
    ASSUME ListenersTypeOK
    PROVE  Downscaled \in 1..CatchupPageSize /\ (LightMode => Downscaled > CheckpointBlockGap)
<1>1. /\ pageSize \in Nat /\ 1 <= pageSize /\ pageSize <= CatchupPageSize /\ CatchupPageSize \in Nat
      /\ CheckpointBlockGap \in Nat /\ (LightMode => pageSize > CheckpointBlockGap)
  BY HeadAssumption, ListenersAssumption DEF ListenersTypeOK
<1>2. pageSize \div 2 \in Nat /\ pageSize \div 2 <= pageSize
  BY <1>1
<1> QED
  BY <1>1, <1>2 DEF Downscaled

LEMMA RangeLogsType ==
    ASSUME head \in Block, NEW from, NEW to
    PROVE  RangeLogs(from, to) \subseteq Block
  BY PathOfBlock DEF RangeLogs, LogsOf

(* The listeners' own steps *)
LEMMA ListenerStepType == StreamTypeOK /\ ListenerStep => StreamTypeOK'
<1> SUFFICES ASSUME StreamTypeOK, ListenerStep PROVE StreamTypeOK'
  OBVIOUS
<1>1. UNCHANGED <<headVars, streamVars, filterVars>> /\ HeadTypeOK' /\ head \in Block /\ highestBlock \in Nat
  BY DEF ListenerStep, StreamTypeOK, TypeOK, HeadTypeOK, NodeTypeOK, headVars, nodeVars, viewVars
<1> SUFFICES ListenersTypeOK'
  BY <1>1 DEF StreamTypeOK, TypeOK, GroupNotEmpty, streamVars, filterVars
<1>2. ListenersTypeOK
  BY DEF StreamTypeOK, TypeOK
<1>3. ASSUME NEW l \in Listener, AddEventListener(l) PROVE ListenersTypeOK'
  <2>1. PICK n \in FromBlocks \cup {highestBlock} :
            /\ hwmBlock' = [hwmBlock EXCEPT ![l] = n]
            /\ startBlock' = IF l = Subject THEN n ELSE startBlock
    BY <1>3 DEF AddEventListener
  <2>2. n \in Nat
    BY <1>1, ListenersAssumption
  <2> QED
    BY <1>2, <1>3, <2>1, <2>2 DEF AddEventListener, ListenersTypeOK
<1>4. ASSUME NEW l \in Listener, StartAdded(l) PROVE ListenersTypeOK'
  BY <1>2, <1>4 DEF StartAdded, StartEventListener, ListenersTypeOK
<1>5. ASSUME NEW l \in Listener, RemoveEventListener(l) PROVE ListenersTypeOK'
  BY <1>2, <1>5 DEF RemoveEventListener, ListenersTypeOK
<1>6. ASSUME NEW l \in Listener, CatchupRemoved(l) \/ CatchupCompletes(l) \/ CatchupNotReady(l)
      PROVE  ListenersTypeOK'
  BY <1>2, <1>6 DEF CatchupRemoved, CatchupCompletes, CatchupNotReady, LoopSees, RejoinLeadGroup, ListenersTypeOK
<1>7. ASSUME NEW l \in Listener, CatchupRange(l) PROVE ListenersTypeOK'
  <2> DEFINE toBlock == BelowCeiling(hwmBlock[l] + pageSize - 1)
  <2>1. toBlock \in Int /\ hwmBlock[l] \in Nat
    <3>1. hwmBlock[l] \in Nat /\ pageSize \in Nat /\ headBlock \in Int
      BY <1>2 DEF ListenersTypeOK
    <3> QED
      BY <3>1 DEF BelowCeiling
  <2>2. loopTo' \in [Listener -> Nat]
    <3>1. CASE loopTo' = loopTo
      BY <1>2, <3>1 DEF ListenersTypeOK
    <3>2. CASE loopTo' # loopTo
      <4>1. hwmBlock[l] <= toBlock /\ loopTo' = [loopTo EXCEPT ![l] = toBlock]
        BY <1>7, <3>2 DEF CatchupRange
      <4> HIDE DEF toBlock
      <4>2. toBlock \in Nat
        BY <2>1, <4>1
      <4> QED
        BY <1>2, <4>1, <4>2 DEF ListenersTypeOK
    <3> QED
      BY <3>1, <3>2
  <2>3. loop' \in [Listener -> {"none", "check", "range", "query", "dispatch", "done"}]
    BY <1>2, <1>7 DEF CatchupRange, LoopSees, ListenersTypeOK
  <2> QED
    BY <1>2, <1>7, <2>2, <2>3 DEF CatchupRange, ListenersTypeOK
<1>8. ASSUME NEW l \in Listener, CatchupQuery(l) PROVE ListenersTypeOK'
  <2>1. loopEvents' \subseteq Block
    BY <1>1, <1>2, <1>8, RangeLogsType DEF CatchupQuery, ListenersTypeOK
  <2> QED
    BY <1>2, <1>8, <2>1 DEF CatchupQuery, LoopSees, ListenersTypeOK
<1>9. ASSUME NEW l \in Listener, CatchupQueryFailed(l) PROVE ListenersTypeOK'
  <2>1. pageSize' \in 1..CatchupPageSize /\ (LightMode => pageSize' > CheckpointBlockGap)
    BY <1>2, <1>9, DownscaledType DEF CatchupQueryFailed, ListenersTypeOK
  <2>2. loopTo' \in [Listener -> Nat] /\ loop' \in [Listener -> {"none", "check", "range", "query", "dispatch", "done"}]
    BY <1>2, <1>9 DEF CatchupQueryFailed, LoopSees, ListenersTypeOK
  <2> QED
    BY <1>2, <1>9, <2>1, <2>2 DEF CatchupQueryFailed, ListenersTypeOK
<1>10. ASSUME NEW l \in Listener, CatchupDispatch(l) PROVE ListenersTypeOK'
  <2>1. Forward(hwmBlock[l], loopTo[l] + 1) \in Nat
    BY <1>2 DEF Forward, ListenersTypeOK
  <2>2. hwmBlock' = [hwmBlock EXCEPT ![l] = Forward(hwmBlock[l], loopTo[l] + 1)]
    BY <1>10 DEF CatchupDispatch
  <2>3. hwmBlock' \in [Listener -> Nat]
    BY <1>2, <2>1, <2>2 DEF ListenersTypeOK
  <2> QED
    BY <1>2, <1>10, <2>3 DEF CatchupDispatch, LoopSees, ListenersTypeOK
<1> QED
  BY <1>3, <1>4, <1>5, <1>6, <1>7, <1>8, <1>9, <1>10 DEF ListenerStep, ApiCall, CatchupLoop, CatchupStep

LEMMA EventsOfType == ASSUME NEW logs, logs \subseteq Block PROVE EventsOf(logs) \subseteq Block
  BY DEF EventsOf

LEMMA NextLogsType == TypeOK => NextLogs \subseteq Block
  BY PathOfBlock DEF NextLogs, LogsOf, TypeOK, HeadTypeOK, NodeTypeOK

LEMMA CurrentGroupType == TypeOK => CurrentGroup \subseteq Listener
  BY DEF CurrentGroup, Added, TypeOK

(* What a dispatch leaves *)
LEMMA DispatchType ==
    TypeOK /\ Dispatch => /\ delivered' \subseteq Block /\ hwmBlock' \in [Listener -> Nat]
                          /\ pending' = {} /\ pageHWM' = 0
<1> SUFFICES ASSUME TypeOK, Dispatch
             PROVE  /\ delivered' \subseteq Block /\ hwmBlock' \in [Listener -> Nat]
                    /\ pending' = {} /\ pageHWM' = 0
  OBVIOUS
<1>1. \A l \in Listener : Forward(hwmBlock[l], pageHWM) \in Nat
  BY DEF Forward, TypeOK, ListenersTypeOK
<1> QED
  BY <1>1 DEF Dispatch, MoveHWMForwards, TypeOK, ListenersTypeOK

LEMMA NewlyCanonicalType ==
    ASSUME NEW old \in Block, NEW new \in Block
    PROVE  BlocksOf(NewlyCanonical(old, new)) \subseteq Block
<1> DEFINE shared == {i \in DOMAIN Path(new) : i \in DOMAIN Path(old) /\ Path(old)[i] = Path(new)[i]}
<1>1. Path(new) \in Seq(Block) /\ Len(Path(new)) \in Nat
  BY PathOfBlock
<1>2. Cardinality(shared) \in 0..Len(Path(new))
  BY <1>1, IndicesAreFinite
<1> HIDE DEF shared
<1>3. SubSeq(Path(new), Cardinality(shared) + 1, Len(Path(new))) \in Seq(Block)
  BY <1>1, <1>2, SegmentOfBlocks
<1>4. NewlyCanonical(old, new) \in Seq(Block)
  BY <1>3 DEF NewlyCanonical, shared
<1> QED
  BY <1>4, LenProperties, ElementOfSeq DEF BlocksOf

(* The position the stream starts with *)
LEMMA EstablishedHead ==
    ASSUME TypeOK, EstablishHeadBlock
    PROVE  headBlock' \in Nat /\ headBlock' <= StableHead(highestBlock)
<1>1. StableHead(highestBlock) \in Nat
  BY StableHeadType DEF TypeOK, HeadTypeOK
<1>2. CASE Added # {} /\ \A l \in Added : ~(hwmBlock[l] > StableHead(highestBlock))
  <2> DEFINE positions == {hwmBlock[l] : l \in Added}
  <2>1. positions \in SUBSET Nat /\ positions # {} /\ \A m \in positions : m <= StableHead(highestBlock)
    <3>1. Added \subseteq Listener /\ hwmBlock \in [Listener -> Nat]
      BY DEF TypeOK, ListenersTypeOK, Added
    <3>2. \A l \in Added : hwmBlock[l] \in Nat /\ hwmBlock[l] <= StableHead(highestBlock)
      <4> SUFFICES ASSUME NEW l \in Added PROVE hwmBlock[l] \in Nat /\ hwmBlock[l] <= StableHead(highestBlock)
        OBVIOUS
      <4>1. hwmBlock[l] \in Nat /\ ~(hwmBlock[l] > StableHead(highestBlock))
        BY <1>2, <3>1
      <4> HIDE DEF positions
      <4> QED
        BY <1>1, <4>1
    <3> QED
      BY <1>2, <3>2
  <2>2. PICK n \in positions : \A m \in positions : n >= m
    BY <1>1, <2>1, GreatestNatural
  <2>3. \E k \in positions : \A l \in Added : k >= hwmBlock[l]
    BY <2>2
  <2>4. headBlock' \in positions
    BY <1>2, <2>3 DEF EstablishHeadBlock
  <2> QED
    BY <2>1, <2>4
<1>3. CASE ~(Added # {} /\ \A l \in Added : ~(hwmBlock[l] > StableHead(highestBlock)))
  BY <1>1, <1>3 DEF EstablishHeadBlock
<1> QED
  BY <1>2, <1>3

LEMMA TypePreserved == StreamTypeOK /\ [Next]_vars => StreamTypeOK'
<1> SUFFICES ASSUME StreamTypeOK, [Next]_vars PROVE StreamTypeOK'
  OBVIOUS
<1> USE DEF StreamTypeOK, GroupNotEmpty
<1>1. TypeOK /\ HeadTypeOK /\ ListenersTypeOK /\ head \in Block
      /\ StableHead(highestBlock) \in Nat /\ {} \subseteq Block /\ CurrentGroup \subseteq Listener
  BY StableHeadType, CurrentGroupType, SMTT(30) DEF TypeOK, HeadTypeOK, NodeTypeOK
<1>2. UNCHANGED headVars => HeadTypeOK'
  BY <1>1 DEF HeadTypeOK, NodeTypeOK, headVars, nodeVars, viewVars
<1>3. UNCHANGED <<headBlock, updated, listenerVars>> => ListenersTypeOK'
  BY <1>1 DEF ListenersTypeOK, listenerVars
<1>4. /\ headBlock' \in Nat \cup {-1} /\ updated' \in BOOLEAN /\ UNCHANGED listenerVars => ListenersTypeOK'
  BY <1>1 DEF ListenersTypeOK, listenerVars
<1>5. CASE EstablishHeadBlock
  <2>1. headBlock' \in Nat
    BY <1>1, <1>5, EstablishedHead
  <2>2. updated' \in BOOLEAN /\ UNCHANGED listenerVars /\ Added \subseteq Listener
    BY <1>1, <1>5 DEF EstablishHeadBlock, ListenersTypeOK, Added
  <2> QED
    BY <1>1, <1>2, <1>4, <1>5, <2>1, <2>2 DEF EstablishHeadBlock, TypeOK, filterVars
<1>6. ASSUME NEW l \in Listener, StartInitial(l) PROVE StreamTypeOK'
  <2>1. ListenersTypeOK'
    BY <1>1, <1>6 DEF StartInitial, StartEventListener, ListenersTypeOK
  <2> QED
    BY <1>1, <1>2, <1>6, <2>1 DEF StartInitial, TypeOK, filterVars
<1>7. CASE AllStarted
  BY <1>1, <1>2, <1>4, <1>7 DEF AllStarted, EnterMode, TypeOK, ListenersTypeOK, filterVars
<1>8. CASE LeadGroupCatchup
  <2>1. group' \subseteq Listener /\ updated' \in BOOLEAN
    BY <1>1, <1>8 DEF LeadGroupCatchup, EnterMode
  <2>2. filterFrom' \in Nat /\ pageHWM' \in Nat
    <3>1. CASE UNCHANGED <<filterFrom, pageHWM>>
      BY <1>1, <3>1 DEF TypeOK
    <3>2. CASE ~ UNCHANGED <<filterFrom, pageHWM>>
      <4>1. group' # {} /\ filterFrom' = LowestHWM
            /\ pageHWM' \in {LowestHWM + pageSize - 1 + 1, StableHead(highestBlock) + 1}
        BY <1>8, <3>2 DEF LeadGroupCatchup
      <4>2. LowestHWM \in Nat /\ pageSize \in Nat
        BY <1>1, <2>1, <4>1, LowestHWMType DEF ListenersTypeOK
      <4> QED
        BY <1>1, <4>1, <4>2
    <3> QED
      BY <3>1, <3>2
  <2>3. pc' \in {"steady", "query"} /\ (pc' = "query" => group' # {})
    BY <1>8 DEF LeadGroupCatchup, EnterMode
  <2>4. ListenersTypeOK' /\ HeadTypeOK'
    BY <1>1, <1>2, <1>4, <1>8, <2>1 DEF LeadGroupCatchup, ListenersTypeOK
  <2> QED
    BY <1>1, <1>8, <2>1, <2>2, <2>3, <2>4 DEF LeadGroupCatchup, TypeOK, filterVars
<1>9. CASE CatchupPage
  <2>1. pending' \subseteq Block
    BY <1>1, <1>9, RangeLogsType, EventsOfType DEF CatchupPage
  <2> QED
    BY <1>1, <1>2, <1>3, <1>9, <2>1 DEF CatchupPage, TypeOK, filterVars
<1>10. CASE CatchupPageFailed
  BY <1>1, <1>2, <1>3, <1>10 DEF CatchupPageFailed, TypeOK, filterVars
<1>11. CASE DispatchCatchupPage
  <2>1. delivered' \subseteq Block /\ hwmBlock' \in [Listener -> Nat] /\ pending' = {} /\ pageHWM' = 0
    BY <1>1, <1>11, DispatchType DEF DispatchCatchupPage
  <2>2. ListenersTypeOK'
    BY <1>1, <1>11, <2>1 DEF DispatchCatchupPage, Dispatch, ListenersTypeOK
  <2> QED
    BY <1>1, <1>2, <1>11, <2>1, <2>2 DEF DispatchCatchupPage, Dispatch, TypeOK, filterVars
<1>12. CASE SteadyCycle
  <2>1. group' \subseteq Listener /\ updated' \in BOOLEAN /\ pageHWM' \in Nat /\ resetRequired' \in BOOLEAN
        /\ pc' \in {"steady", "filter", "logs"} /\ (pc' = "filter" => group' # {})
    BY <1>1, <1>12 DEF SteadyCycle, TypeOK
  <2>2. ListenersTypeOK' /\ HeadTypeOK'
    BY <1>1, <1>2, <1>4, <1>12, <2>1 DEF SteadyCycle, ListenersTypeOK
  <2> QED
    BY <1>1, <1>12, <2>1, <2>2 DEF SteadyCycle, TypeOK, filterVars
<1>13. CASE RevertToCatchup
  <2>1. ListenersTypeOK'
    BY <1>1, <1>4, <1>13 DEF RevertToCatchup, EnterMode, ListenersTypeOK
  <2> QED
    BY <1>1, <1>2, <1>13, <2>1 DEF RevertToCatchup, Uninstalled, EnterMode, TypeOK
<1>14. CASE NewFilter
  <2>1. LowestHWM \in Nat
    <3>1. group' \subseteq Listener /\ group' # {}
      BY <1>1, <1>14 DEF NewFilter, TypeOK
    <3> QED
      BY <1>1, <3>1, LowestHWMType
  <2>2. ListenersTypeOK'
    BY <1>1, <1>3, <1>14 DEF NewFilter
  <2> QED
    BY <1>1, <1>2, <1>14, <2>1, <2>2 DEF NewFilter, FilterStart, TypeOK
<1>15. CASE NewFilterFails
  BY <1>1, <1>2, <1>3, <1>15 DEF NewFilterFails, Uninstalled, TypeOK
<1>16. CASE GetFilterLogs
  <2>1. pending' \subseteq Block /\ filterLogs' \subseteq Block
    BY <1>1, <1>16, NextLogsType, EventsOfType DEF GetFilterLogs, LogsAreTaken, TypeOK
  <2> QED
    BY <1>1, <1>2, <1>3, <1>16, <2>1 DEF GetFilterLogs, TypeOK
<1>17. CASE GetFilterLogsFails
  BY <1>1, <1>2, <1>3, <1>17 DEF GetFilterLogsFails, Retry, TypeOK
<1>18. CASE FilterNotFound
  BY <1>1, <1>2, <1>3, <1>18 DEF FilterNotFound, Retry, TypeOK, filterVars
<1>19. CASE EnrichFails
  BY <1>1, <1>2, <1>3, <1>19 DEF EnrichFails, Retry, LogsAreTaken, ResetAfterEnrichFailure, TypeOK
<1>20. CASE DispatchLogs
  <2>1. delivered' \subseteq Block /\ hwmBlock' \in [Listener -> Nat] /\ pending' = {} /\ pageHWM' = 0
    BY <1>1, <1>20, DispatchType DEF DispatchLogs
  <2>2. headBlock' \in Nat \cup {-1}
    BY <1>1, <1>20 DEF DispatchLogs, Forward, TypeOK, ListenersTypeOK
  <2>3. ListenersTypeOK'
    BY <1>1, <1>20, <2>1, <2>2 DEF DispatchLogs, Dispatch, ListenersTypeOK
  <2> QED
    BY <1>1, <1>2, <1>20, <2>1, <2>3 DEF DispatchLogs, Dispatch, TypeOK, filterVars
<1>21. CASE ListenerStep
  BY <1>21, ListenerStepType
<1>22. CASE FilterLost
  BY <1>1, <1>2, <1>3, <1>22 DEF FilterLost, TypeOK, streamVars
<1>23. CASE ChainStep
  <2>1. HeadTypeOK' /\ head' \in Block
    BY <1>1, <1>23, ChainMovesType DEF ChainStep, HeadTypeOK, NodeTypeOK
  <2>2. filterLogs' \subseteq Block
    BY <1>1, <1>23, <2>1, NewlyCanonicalType DEF ChainStep, LogsOf, TypeOK
  <2> QED
    BY <1>1, <1>3, <1>23, <2>1, <2>2 DEF ChainStep, TypeOK, streamVars
<1>24. CASE PollStep
  <2>1. HeadTypeOK'
    BY <1>1, <1>24, PollHeadType DEF PollStep
  <2> QED
    BY <1>1, <1>3, <1>24, <2>1 DEF PollStep, TypeOK, streamVars, filterVars
<1>25. CASE UNCHANGED vars
  BY <1>1, <1>2, <1>3, <1>25 DEF vars, TypeOK, streamVars, filterVars
<1> QED
  BY <1>5, <1>6, <1>7, <1>8, <1>9, <1>10, <1>11, <1>12, <1>13, <1>14, <1>15, <1>16, <1>17, <1>18, <1>19, <1>20,
     <1>21, <1>22, <1>23, <1>24, <1>25 DEF Next, StreamLoop

(* Type correctness. *)
THEOREM TypeCorrect == Spec => []TypeOK
<1>1. StreamTypeOK => TypeOK
  BY DEF StreamTypeOK
<1> QED
  BY <1>1, TypeInitially, TypePreserved, PTL DEF Spec
-----------------------------------------------------------------------------
(* Who is polled for: nobody before it is added, and everybody after. *)

AbsentIsIdle ==
    \A l \in Listener : status[l] = "absent" =>
        l \notin group /\ l \notin toStart /\ l \notin adding /\ loop[l] = "none" /\ catchup[l]

StartIsKnown == status[Subject] = "absent" <=> startBlock = -1

RegistryInv == AbsentIsIdle /\ StartIsKnown /\ NobodyIsForgotten

LEMMA RegistryInitially == Init => RegistryInv
<1> SUFFICES ASSUME Init PROVE RegistryInv
  OBVIOUS
<1>1. hwmBlock \in [Listener -> Nat] /\ Subject \in Listener
  BY TypeInitially, ListenersAssumption DEF StreamTypeOK, TypeOK, ListenersTypeOK
<1>2. startBlock = (IF status[Subject] = "added" THEN hwmBlock[Subject] ELSE -1)
      /\ status[Subject] \in {"added", "absent"} /\ hwmBlock[Subject] \in Nat
  BY <1>1 DEF Init, ListenersInit
<1> QED
  BY <1>2 DEF Init, ListenersInit, RegistryInv, AbsentIsIdle, StartIsKnown, NobodyIsForgotten

LEMMA RegistryPreserved == StreamTypeOK /\ RegistryInv /\ [Next]_vars => RegistryInv'
<1> SUFFICES ASSUME StreamTypeOK, RegistryInv, [Next]_vars PROVE RegistryInv'
  OBVIOUS
<1> USE DEF RegistryInv, AbsentIsIdle, StartIsKnown, NobodyIsForgotten
<1>1. /\ status \in [Listener -> {"absent", "added", "removed"}] /\ catchup \in [Listener -> BOOLEAN]
      /\ loop \in [Listener -> {"none", "check", "range", "query", "dispatch", "done"}]
      /\ Subject \in Listener /\ updated \in BOOLEAN
  BY ListenersAssumption DEF StreamTypeOK, TypeOK, ListenersTypeOK
<1>2. ASSUME UNCHANGED <<status, catchup, loop, adding, startBlock>>, group' = CurrentGroup,
             toStart' = toStart, updated' \in BOOLEAN
      PROVE  RegistryInv'
  <2>1. CASE updated
    BY <1>1, <1>2, <2>1 DEF CurrentGroup, Added
  <2>2. CASE ~updated
    BY <1>1, <1>2, <2>2 DEF CurrentGroup
  <2> QED
    BY <1>1, <2>1, <2>2
<1>3. ASSUME UNCHANGED <<status, catchup, loop, adding, startBlock, group, toStart>>, updated => updated'
      PROVE  RegistryInv'
  BY <1>1, <1>3
<1>4. CASE EstablishHeadBlock
  BY <1>1, <1>4 DEF EstablishHeadBlock, listenerVars, Added
<1>5. ASSUME NEW l \in Listener, StartInitial(l) PROVE RegistryInv'
  BY <1>1, <1>5 DEF StartInitial, StartEventListener
<1>6. CASE AllStarted
  BY <1>1, <1>6 DEF AllStarted, EnterMode, listenerVars
<1>7. CASE LeadGroupCatchup
  <2>1. UNCHANGED <<status, catchup, loop, adding, startBlock, toStart>> /\ group' = CurrentGroup
        /\ updated' \in BOOLEAN
    BY <1>7 DEF LeadGroupCatchup, EnterMode, listenerVars
  <2> QED
    BY <1>2, <2>1
<1>8. CASE SteadyCycle
  <2>1. UNCHANGED <<status, catchup, loop, adding, startBlock, toStart>> /\ group' = CurrentGroup
        /\ updated' \in BOOLEAN
    BY <1>8 DEF SteadyCycle, listenerVars
  <2> QED
    BY <1>2, <2>1
<1>9. CASE RevertToCatchup
  BY <1>3, <1>9 DEF RevertToCatchup, EnterMode, listenerVars
<1>10. CASE \/ CatchupPage \/ CatchupPageFailed \/ DispatchCatchupPage \/ NewFilter \/ NewFilterFails
            \/ GetFilterLogs \/ GetFilterLogsFails \/ FilterNotFound \/ EnrichFails \/ DispatchLogs
            \/ FilterLost \/ ChainStep \/ PollStep \/ UNCHANGED vars
  <2>1. UNCHANGED <<status, catchup, loop, adding, startBlock, group, toStart, updated>>
    BY <1>10 DEF CatchupPage, CatchupPageFailed, DispatchCatchupPage, NewFilter, NewFilterFails, GetFilterLogs,
         GetFilterLogsFails, FilterNotFound, EnrichFails, Retry, DispatchLogs, Dispatch, FilterLost, ChainStep,
         PollStep, vars, streamVars, listenerVars
  <2> QED
    BY <1>3, <2>1
<1>11. ASSUME NEW l \in Listener, AddEventListener(l), UNCHANGED <<group, toStart>> PROVE RegistryInv'
  <2>1. l = Subject => startBlock' \in Nat
    <3>1. FromBlocks \cup {highestBlock} \subseteq Nat
      BY ListenersAssumption DEF StreamTypeOK, TypeOK, HeadTypeOK
    <3> QED
      BY <1>11, <3>1 DEF AddEventListener
  <2>2. l # Subject => startBlock' = startBlock
    BY <1>11 DEF AddEventListener
  <2> QED
    BY <1>1, <1>11, <2>1, <2>2 DEF AddEventListener
<1>12. ASSUME NEW l \in Listener, StartAdded(l), UNCHANGED <<group, toStart>> PROVE RegistryInv'
  BY <1>1, <1>12 DEF StartAdded, StartEventListener
<1>13. ASSUME NEW l \in Listener, RemoveEventListener(l), UNCHANGED <<group, toStart>> PROVE RegistryInv'
  BY <1>1, <1>13 DEF RemoveEventListener
<1>14. ASSUME NEW l \in Listener, CatchupCompletes(l), UNCHANGED <<group, toStart>> PROVE RegistryInv'
  BY <1>1, <1>14 DEF CatchupCompletes, LoopSees, RejoinLeadGroup
<1>15. ASSUME NEW l \in Listener, UNCHANGED <<group, toStart>>,
              \/ CatchupRemoved(l) \/ CatchupNotReady(l) \/ CatchupRange(l) \/ CatchupQuery(l)
              \/ CatchupQueryFailed(l) \/ CatchupDispatch(l)
       PROVE  RegistryInv'
  <2>1. UNCHANGED <<status, catchup, adding, updated, startBlock>> /\ loop[l] # "none"
        /\ \A k \in Listener : k # l => loop'[k] = loop[k]
    BY <1>1, <1>15 DEF CatchupRemoved, CatchupNotReady, CatchupRange, CatchupQuery, CatchupQueryFailed, CatchupDispatch,
         LoopSees
  <2> QED
    BY <1>1, <1>15, <2>1
<1>16. CASE ListenerStep
  <2>1. UNCHANGED <<group, toStart>>
    BY <1>16 DEF ListenerStep, streamVars
  <2> QED
    BY <1>11, <1>12, <1>13, <1>14, <1>15, <1>16, <2>1 DEF ListenerStep, ApiCall, CatchupLoop, CatchupStep
<1> QED
  BY <1>4, <1>5, <1>6, <1>7, <1>8, <1>9, <1>10, <1>16 DEF Next, StreamLoop

(* A listener that is added, and not in individual catchup, is polled for by the lead group, or *)
(* the lead group is told to build itself anew.                                                 *)
THEOREM NobodyIsEverForgotten == Spec => []NobodyIsForgotten
<1>1. Init => StreamTypeOK /\ RegistryInv
  BY TypeInitially, RegistryInitially
<1>2. StreamTypeOK /\ RegistryInv /\ [Next]_vars => (StreamTypeOK /\ RegistryInv)'
  BY TypePreserved, RegistryPreserved
<1>3. RegistryInv => NobodyIsForgotten
  BY DEF RegistryInv
<1> QED
  BY <1>1, <1>2, <1>3, PTL DEF Spec
-----------------------------------------------------------------------------
(* Positions: nothing the stream scans up to lies above what is settled. *)

(* A listener may start above the settled blocks; it is never moved above them. *)
SubjectPosition ==
    startBlock # -1 =>
        /\ hwmBlock[Subject] >= startBlock
        /\ hwmBlock[Subject] <= Number(settled) \/ hwmBlock[Subject] = startBlock

ScanInv ==
    /\ HeadBlockIsStable
    /\ pageHWM <= Number(settled)
    /\ pc = "start" => headBlock = -1
    /\ \A l \in Listener : loop[l] \in {"query", "dispatch"} => loopTo[l] < headBlock
    /\ SubjectPosition

PositionInv == StreamTypeOK /\ RegistryInv /\ HeadIsSettled /\ ScanInv

LEMMA PositionInitially == Init => PositionInv
<1> SUFFICES ASSUME Init PROVE PositionInv
  OBVIOUS
<1>1. StreamTypeOK /\ RegistryInv /\ HeadIsSettled
  BY TypeInitially, RegistryInitially, HeadInitially DEF Init, HeadInv
<1>2. /\ Number(settled) \in Nat /\ hwmBlock \in [Listener -> Nat] /\ Subject \in Listener
  BY <1>1, PathOfBlock, ListenersAssumption DEF StreamTypeOK, TypeOK, HeadTypeOK, ListenersTypeOK
<1>3. SubjectPosition
  BY <1>2 DEF SubjectPosition, Init, ListenersInit
<1>4. ScanInv
  BY <1>2, <1>3 DEF ScanInv, HeadBlockIsStable, Init, ListenersInit
<1> QED
  BY <1>1, <1>4 DEF PositionInv

(* A page of the lead group's catchup ends below the stable threshold. *)
LEMMA CatchupPageSettled ==
    ASSUME TypeOK, LeadGroupCatchup
    PROVE  UNCHANGED pageHWM \/ (pageHWM' \in Nat /\ pageHWM' <= StableHead(highestBlock))
<1> SUFFICES ASSUME ~ UNCHANGED pageHWM
             PROVE  pageHWM' \in Nat /\ pageHWM' <= StableHead(highestBlock)
  OBVIOUS
<1> DEFINE page == LowestHWM + pageSize - 1
<1>1. group' # {} /\ ~(StableHead(highestBlock) - LowestHWM < CatchupThreshold)
      /\ pageHWM' = (IF page > StableHead(highestBlock) THEN StableHead(highestBlock) ELSE page) + 1
  BY DEF LeadGroupCatchup
<1>2. LowestHWM \in Nat
  <2>1. group' \subseteq Listener
    BY CurrentGroupType DEF LeadGroupCatchup
  <2> QED
    BY <1>1, <2>1, LowestHWMType
<1>3. StableHead(highestBlock) \in Nat /\ pageSize \in Nat /\ pageSize >= 1
      /\ CatchupThreshold \in Nat /\ CatchupThreshold >= pageSize
  <2>1. StableHead(highestBlock) \in Nat
    BY StableHeadType DEF TypeOK, HeadTypeOK
  <2>2. pageSize \in 1..CatchupPageSize
    BY DEF TypeOK, ListenersTypeOK
  <2>3. CatchupPageSize \in Nat /\ CatchupThreshold \in Nat /\ CatchupThreshold >= CatchupPageSize
    BY ListenersAssumption
  <2> QED
    BY <2>1, <2>2, <2>3
<1> QED
  BY <1>1, <1>2, <1>3

(* What is settled when a position is taken stays settled. *)
LEMMA PositionPreserved == PositionInv /\ [Next]_vars => PositionInv'
<1> SUFFICES ASSUME PositionInv, [Next]_vars PROVE PositionInv'
  OBVIOUS
<1>1. StreamTypeOK /\ StreamTypeOK' /\ RegistryInv /\ RegistryInv' /\ TypeOK
  BY TypePreserved, RegistryPreserved DEF PositionInv, StreamTypeOK
<1>2. HeadIsSettled' /\ Number(settled) <= Number(settled') /\ (UNCHANGED headVars => settled' = settled)
  <2>1. HeadInv
    BY <1>1 DEF PositionInv, HeadInv, TypeOK
  <2>2. settled \in Block /\ Number(settled) \in Nat
    BY <1>1, PathOfBlock DEF TypeOK, HeadTypeOK
  <2>3. CASE ChainStep
    BY <2>1, <2>3, ChainMovesSettles DEF ChainStep, HeadInv, headVars
  <2>4. CASE PollStep
    BY <2>1, <2>2, <2>4, PollHeadSettles DEF PollStep, HeadInv
  <2>5. CASE UNCHANGED headVars
    BY <2>1, <2>2, <2>5, HeadUnchanged DEF HeadInv
  <2> QED
    BY <2>3, <2>4, <2>5
       DEF Next, StreamLoop, vars, EstablishHeadBlock, StartInitial, AllStarted, LeadGroupCatchup, CatchupPage,
           CatchupPageFailed, DispatchCatchupPage, SteadyCycle, RevertToCatchup, NewFilter, NewFilterFails,
           GetFilterLogs, GetFilterLogsFails, FilterNotFound, EnrichFails, Retry, DispatchLogs, Dispatch,
           ListenerStep, FilterLost
<1>3. /\ Number(settled) \in Nat /\ Number(settled') \in Nat /\ Number(settled) <= Number(settled')
      /\ headBlock \in Nat \cup {-1} /\ pageHWM \in Nat /\ startBlock \in Nat \cup {-1}
      /\ hwmBlock \in [Listener -> Nat] /\ loopTo \in [Listener -> Nat] /\ Subject \in Listener
      /\ loop \in [Listener -> {"none", "check", "range", "query", "dispatch", "done"}]
  BY <1>1, <1>2, PathOfBlock, ListenersAssumption DEF StreamTypeOK, TypeOK, HeadTypeOK, ListenersTypeOK
<1>4. StableHead(highestBlock) \in Nat /\ StableHead(highestBlock) <= Number(settled)
  BY <1>1, GapIsSettled DEF StableHead, PositionInv, HeadIsSettled, TypeOK, HeadTypeOK
<1> SUFFICES ScanInv'
  BY <1>1, <1>2 DEF PositionInv
<1>5. ScanInv
  BY DEF PositionInv
<1> USE DEF ScanInv, SubjectPosition, HeadBlockIsStable
<1>6. ASSUME UNCHANGED <<loop, loopTo, hwmBlock, startBlock, headBlock>>, pageHWM' <= Number(settled),
             pc' # "start" \/ pc' = pc
      PROVE  ScanInv'
  <2>1. pageHWM' \in Nat
    BY <1>1 DEF StreamTypeOK, TypeOK
  <2> QED
    BY <1>3, <1>5, <1>6, <2>1
<1>7. CASE EstablishHeadBlock
  <2>1. headBlock' \in Nat /\ headBlock' <= StableHead(highestBlock)
    BY <1>1, <1>7, EstablishedHead
  <2>2. pc = "start" /\ pc' = "starting" /\ UNCHANGED <<loop, loopTo, hwmBlock, startBlock, pageHWM>>
    BY <1>7 DEF EstablishHeadBlock, listenerVars
  <2>3. \A l \in Listener : ~(loop[l] \in {"query", "dispatch"})
    BY <1>3, <1>5, <2>2
  <2> QED
    BY <1>3, <1>4, <1>5, <2>1, <2>2, <2>3
<1>8. ASSUME NEW l \in Listener, StartInitial(l) PROVE ScanInv'
  <2>1. UNCHANGED <<loopTo, hwmBlock, startBlock, headBlock, pageHWM, pc>> /\ pc = "starting"
        /\ \A k \in Listener : loop'[k] \in {loop[k], "check"}
    BY <1>3, <1>8 DEF StartInitial, StartEventListener
  <2> QED
    BY <1>3, <1>5, <2>1
<1>9. CASE LeadGroupCatchup
  <2>1. pageHWM' <= Number(settled)
    BY <1>1, <1>3, <1>4, <1>5, <1>9, CatchupPageSettled
  <2> QED
    BY <1>6, <1>9, <2>1 DEF LeadGroupCatchup, EnterMode, listenerVars
<1>10. CASE SteadyCycle
  <2>1. pageHWM' <= Number(settled)
    BY <1>4, <1>5, <1>10 DEF SteadyCycle
  <2> QED
    BY <1>6, <1>10, <2>1 DEF SteadyCycle, listenerVars
<1>11. CASE \/ AllStarted \/ CatchupPage \/ CatchupPageFailed \/ RevertToCatchup \/ NewFilter \/ NewFilterFails
            \/ GetFilterLogs \/ GetFilterLogsFails \/ FilterNotFound \/ EnrichFails
            \/ FilterLost \/ ChainStep \/ PollStep \/ UNCHANGED vars
  <2>1. UNCHANGED <<loop, loopTo, hwmBlock, startBlock, headBlock>> /\ pageHWM' \in {pageHWM, 0}
        /\ (pc' # "start" \/ pc' = pc)
    BY <1>11 DEF AllStarted, EnterMode, CatchupPage, CatchupPageFailed, RevertToCatchup, NewFilter, NewFilterFails,
         GetFilterLogs, GetFilterLogsFails, FilterNotFound, EnrichFails, Retry, FilterLost, ChainStep,
         PollStep, vars, streamVars, listenerVars
  <2> QED
    BY <1>3, <1>5, <1>6, <2>1
<1>12. ASSUME Dispatch, headBlock' \in {headBlock, Forward(headBlock, pageHWM)}, pc' # "start" PROVE ScanInv'
  <2>1. UNCHANGED <<loop, loopTo, startBlock>> /\ pageHWM' = 0
        /\ hwmBlock'[Subject] \in {hwmBlock[Subject], Forward(hwmBlock[Subject], pageHWM)}
        /\ settled' = settled
    BY <1>3, <1>12 DEF Dispatch, MoveHWMForwards, headVars
  <2>2. headBlock <= headBlock' /\ headBlock' <= Number(settled) /\ headBlock' \in Nat \cup {-1}
    BY <1>3, <1>5, <1>12 DEF Forward
  <2>3. startBlock # -1 =>
            /\ hwmBlock'[Subject] >= startBlock
            /\ hwmBlock'[Subject] <= Number(settled) \/ hwmBlock'[Subject] = startBlock
    <3>1. hwmBlock[Subject] \in Nat
      BY <1>3
    <3> QED
      BY <1>3, <1>5, <2>1, <3>1 DEF Forward
  <2>4. \A l \in Listener : loop'[l] \in {"query", "dispatch"} => loopTo'[l] < headBlock'
    <3> SUFFICES ASSUME NEW l \in Listener, loop[l] \in {"query", "dispatch"} PROVE loopTo[l] < headBlock'
      BY <2>1
    <3>1. loopTo[l] \in Nat /\ loopTo[l] < headBlock
      BY <1>3, <1>5
    <3> QED
      BY <1>3, <2>2, <3>1
  <2> QED
    BY <1>3, <1>12, <2>1, <2>2, <2>3, <2>4
<1>13. CASE DispatchCatchupPage \/ DispatchLogs
  BY <1>12, <1>13 DEF DispatchCatchupPage, DispatchLogs
<1>14. CASE ListenerStep
  <2>1. UNCHANGED <<headBlock, pageHWM, pc, settled>>
    BY <1>14 DEF ListenerStep, ApiCall, CatchupLoop, CatchupStep, AddEventListener, StartAdded, RemoveEventListener,
         CatchupRemoved, CatchupCompletes, CatchupNotReady, CatchupRange, CatchupQuery, CatchupQueryFailed,
         CatchupDispatch, headVars, streamVars
  <2>2. ASSUME NEW l \in Listener, AddEventListener(l) PROVE ScanInv'
    <3>1. UNCHANGED <<loop, loopTo>> /\ (l # Subject => startBlock' = startBlock /\ hwmBlock'[Subject] = hwmBlock[Subject])
          /\ (l = Subject => startBlock' = hwmBlock'[Subject])
      BY <1>3, <2>2 DEF AddEventListener
    <3>2. hwmBlock' \in [Listener -> Nat]
      BY <1>1 DEF StreamTypeOK, TypeOK, ListenersTypeOK
    <3> QED
      BY <1>3, <1>5, <2>1, <3>1, <3>2
  <2>3. ASSUME NEW l \in Listener, StartAdded(l) \/ RemoveEventListener(l) \/ CatchupRemoved(l)
                    \/ CatchupCompletes(l) \/ CatchupNotReady(l)
        PROVE  ScanInv'
    <3>1. UNCHANGED <<loopTo, hwmBlock, startBlock>>
          /\ \A k \in Listener : loop'[k] \in {loop[k], "check", "range", "done"}
      BY <1>3, <2>3 DEF StartAdded, StartEventListener, RemoveEventListener, CatchupRemoved, CatchupCompletes,
           CatchupNotReady, LoopSees
    <3> QED
      BY <1>3, <1>5, <2>1, <3>1
  <2>4. ASSUME NEW l \in Listener, CatchupRange(l) PROVE ScanInv'
    <3> DEFINE toBlock == BelowCeiling(hwmBlock[l] + pageSize - 1)
    <3>1. UNCHANGED <<hwmBlock, startBlock>> /\ \A k \in Listener \ {l} : loop'[k] = loop[k] /\ loopTo'[k] = loopTo[k]
      BY <1>3, <2>4 DEF CatchupRange, LoopSees
    <3>2. loop'[l] \in {"query", "dispatch"} => loopTo'[l] = toBlock /\ headBlock >= 0
      BY <1>3, <2>4 DEF CatchupRange, LoopSees
    <3>3. headBlock >= 0 => toBlock < headBlock
      <4>1. hwmBlock[l] \in Nat /\ pageSize \in Nat
        BY <1>1, <1>3 DEF TypeOK, ListenersTypeOK
      <4> QED
        BY <1>3, <4>1 DEF BelowCeiling
    <3> HIDE DEF toBlock
    <3>4. \A k \in Listener : loop'[k] \in {"query", "dispatch"} => loopTo'[k] < headBlock
      BY <1>5, <3>1, <3>2, <3>3
    <3> QED
      BY <1>3, <1>5, <2>1, <3>1, <3>4
  <2>5. ASSUME NEW l \in Listener, CatchupQuery(l) PROVE ScanInv'
    <3>1. UNCHANGED <<loopTo, hwmBlock, startBlock>> /\ loop[l] = "query"
          /\ \A k \in Listener : loop'[k] \in {"query", "dispatch"} => loop[k] \in {"query", "dispatch"}
      BY <1>3, <2>5 DEF CatchupQuery, LoopSees
    <3> QED
      BY <1>3, <1>5, <2>1, <3>1
  <2>6. ASSUME NEW l \in Listener, CatchupQueryFailed(l) \/ CatchupDispatch(l) PROVE ScanInv'
    <3>1. /\ loop'[l] = "check" /\ \A k \in Listener \ {l} : loop'[k] = loop[k] /\ loopTo'[k] = loopTo[k]
          /\ startBlock' = startBlock
      BY <1>3, <2>6 DEF CatchupQueryFailed, CatchupDispatch, LoopSees
    <3>2. /\ hwmBlock'[Subject] = hwmBlock[Subject]
          \/ /\ hwmBlock'[Subject] = Forward(hwmBlock[Subject], loopTo[Subject] + 1)
             /\ loop[Subject] = "dispatch"
      BY <1>3, <2>6 DEF CatchupQueryFailed, CatchupDispatch
    <3>3. startBlock # -1 =>
            /\ hwmBlock'[Subject] >= startBlock
            /\ hwmBlock'[Subject] <= Number(settled) \/ hwmBlock'[Subject] = startBlock
      <4>1. hwmBlock[Subject] \in Nat /\ loopTo[Subject] \in Nat
        BY <1>3
      <4>2. loop[Subject] = "dispatch" => loopTo[Subject] + 1 <= Number(settled)
        BY <1>3, <1>5, <4>1
      <4> QED
        BY <1>3, <1>5, <3>2, <4>1, <4>2 DEF Forward
    <3>4. \A k \in Listener : loop'[k] \in {"query", "dispatch"} => loopTo'[k] < headBlock
      BY <1>5, <3>1
    <3> QED
      BY <1>3, <1>5, <2>1, <3>1, <3>3, <3>4
  <2> QED
    BY <1>14, <2>2, <2>3, <2>4, <2>5, <2>6 DEF ListenerStep, ApiCall, CatchupLoop, CatchupStep
<1> QED
  BY <1>7, <1>8, <1>9, <1>10, <1>11, <1>13, <1>14 DEF Next, StreamLoop

(* The lead group's position, up to which the listeners in individual catchup scan, is settled. *)
THEOREM HeadBlockAlwaysStable == Spec => []HeadBlockIsStable
<1>1. PositionInv => HeadBlockIsStable
  BY DEF PositionInv, ScanInv
<1> QED
  BY <1>1, PositionInitially, PositionPreserved, PTL DEF Spec
-----------------------------------------------------------------------------
(* What every step leaves: the blocks that are settled, the events that are known, and the      *)
(* scan position at or above where it was.                                                      *)

Position == hwmBlock[Subject]

(* Pushed, or lost with a response *)
Known == delivered \cup lostLogs

LEMMA StepsLeave ==
    PositionInv /\ [Next]_vars =>
        /\ settled \in BlocksOf(Path(settled'))
        /\ Known \subseteq Known'
        /\ startBlock # -1 => startBlock' = startBlock /\ Position <= Position'
        /\ startBlock = -1 => startBlock' = -1 \/ startBlock' = Position'
        /\ settled' # settled => ChainStep
<1> SUFFICES ASSUME PositionInv, [Next]_vars
             PROVE  /\ settled \in BlocksOf(Path(settled'))
                    /\ Known \subseteq Known'
                    /\ startBlock # -1 => startBlock' = startBlock /\ Position <= Position'
                    /\ startBlock = -1 => startBlock' = -1 \/ startBlock' = Position'
                    /\ settled' # settled => ChainStep
  OBVIOUS
<1> USE DEF Position, Known
<1>1. /\ settled \in Block /\ hwmBlock \in [Listener -> Nat] /\ loopTo \in [Listener -> Nat] /\ Subject \in Listener
      /\ pageHWM \in Nat
  BY ListenersAssumption DEF PositionInv, StreamTypeOK, TypeOK, HeadTypeOK, ListenersTypeOK
<1>2. settled \in BlocksOf(Path(settled)) /\ Position \in Nat
  BY <1>1, PathOfBlock
<1>3. ASSUME settled' = settled, UNCHANGED <<startBlock, hwmBlock>>, Known \subseteq Known'
      PROVE  /\ settled \in BlocksOf(Path(settled'))
             /\ Known \subseteq Known'
             /\ startBlock # -1 => startBlock' = startBlock /\ Position <= Position'
             /\ startBlock = -1 => startBlock' = -1 \/ startBlock' = Position'
             /\ settled' # settled => ChainStep
  BY <1>2, <1>3
<1>4. CASE \/ EstablishHeadBlock \/ (\E l \in Listener : StartInitial(l)) \/ AllStarted
           \/ LeadGroupCatchup \/ CatchupPage \/ CatchupPageFailed
           \/ SteadyCycle \/ RevertToCatchup \/ NewFilter \/ NewFilterFails
           \/ GetFilterLogs \/ GetFilterLogsFails \/ FilterNotFound \/ EnrichFails
           \/ FilterLost \/ UNCHANGED vars
  BY <1>3, <1>4
     DEF EstablishHeadBlock, StartInitial, AllStarted, LeadGroupCatchup, CatchupPage, CatchupPageFailed, SteadyCycle,
         RevertToCatchup, NewFilter, NewFilterFails, Uninstalled, GetFilterLogs, GetFilterLogsFails, FilterNotFound,
         EnrichFails, Retry, FilterLost, vars, headVars, listenerVars, filterVars
<1>5. CASE DispatchCatchupPage \/ DispatchLogs
  <2>1. Dispatch
    BY <1>5 DEF DispatchCatchupPage, DispatchLogs
  <2>2. settled' = settled /\ startBlock' = startBlock /\ Known \subseteq Known'
    BY <2>1 DEF Dispatch, headVars, filterVars
  <2>3. Position' \in {Position, Forward(Position, pageHWM)}
    BY <1>1, <2>1 DEF Dispatch, MoveHWMForwards
  <2> QED
    BY <1>1, <1>2, <2>2, <2>3 DEF Forward
<1>6. CASE ListenerStep
  <2>1. settled' = settled /\ lostLogs' = lostLogs
    BY <1>6 DEF ListenerStep, headVars, filterVars
  <2>2. ASSUME NEW l \in Listener, AddEventListener(l) PROVE
             /\ startBlock # -1 => startBlock' = startBlock /\ Position <= Position'
             /\ startBlock = -1 => startBlock' = -1 \/ startBlock' = Position'
             /\ delivered' = delivered
    <3>1. l = Subject => startBlock = -1
      BY <2>2 DEF AddEventListener, PositionInv, RegistryInv, StartIsKnown
    <3>2. l = Subject => startBlock' = Position'
      BY <1>1, <2>2 DEF AddEventListener
    <3>3. l # Subject => UNCHANGED <<startBlock, Position>>
      BY <1>1, <2>2 DEF AddEventListener
    <3>4. delivered' = delivered
      BY <2>2 DEF AddEventListener
    <3> QED
      BY <1>2, <3>1, <3>2, <3>3, <3>4
  <2>3. ASSUME NEW l \in Listener, CatchupDispatch(l)
        PROVE  startBlock' = startBlock /\ Position <= Position' /\ delivered \subseteq delivered'
    <3>1. Position' \in {Position, Forward(Position, loopTo[Subject] + 1)}
      BY <1>1, <2>3 DEF CatchupDispatch
    <3>2. loopTo[Subject] \in Nat
      BY <1>1
    <3> QED
      BY <1>2, <2>3, <3>1, <3>2 DEF CatchupDispatch, Forward
  <2>4. ASSUME NEW l \in Listener,
               \/ StartAdded(l) \/ RemoveEventListener(l) \/ CatchupRemoved(l) \/ CatchupCompletes(l)
               \/ CatchupNotReady(l) \/ CatchupRange(l) \/ CatchupQuery(l) \/ CatchupQueryFailed(l)
        PROVE  UNCHANGED <<startBlock, hwmBlock, delivered>>
    BY <2>4 DEF StartAdded, StartEventListener, RemoveEventListener, CatchupRemoved, CatchupCompletes, CatchupNotReady,
         CatchupRange, CatchupQuery, CatchupQueryFailed
  <2> QED
    BY <1>2, <1>6, <2>1, <2>2, <2>3, <2>4 DEF ListenerStep, ApiCall, CatchupLoop, CatchupStep
<1>7. CASE ChainStep
  <2>1. settled \in BlocksOf(Path(settled'))
    BY <1>7, ChainMovesSettles DEF ChainStep, PositionInv, StreamTypeOK, TypeOK, HeadInv
  <2> QED
    BY <1>2, <1>7, <2>1 DEF ChainStep, listenerVars
<1>8. CASE PollStep
  BY <1>3, <1>8 DEF PollStep, PollHead, PollLatestBlock, PollHeadNumber, listenerVars, filterVars
<1> QED
  BY <1>4, <1>5, <1>6, <1>7, <1>8 DEF Next, StreamLoop
-----------------------------------------------------------------------------
(* The events of the chain that ends in a block, in a range of numbers *)

EventsIn(b, from, to) == {e \in BlocksOf(Path(b)) \cap EventBlocks : Number(e) \in from..to}

(* Up to a settled block they do not change. *)
LEMMA EventsInStay ==
    ASSUME NEW b \in Block, NEW c \in BlocksOf(Path(b)), NEW from \in Int, NEW to \in Int, to <= Number(c)
    PROVE  EventsIn(b, from, to) = EventsIn(c, from, to)
<1>1. c \in Block /\ BlocksOf(Path(b)) \subseteq Block /\ BlocksOf(Path(c)) \subseteq Block
  BY PathOfBlock
<1>2. ASSUME NEW e \in Block, Number(e) \in from..to
      PROVE  e \in BlocksOf(Path(b)) <=> e \in BlocksOf(Path(c))
  <2>1. Number(e) <= Number(c)
    BY <1>1, <1>2, PathOfBlock
  <2> QED
    BY <2>1, SharedPath
<1> QED
  BY <1>1, <1>2 DEF EventsIn

LEMMA EventsInEmpty ==
    ASSUME NEW b, NEW from \in Int
    PROVE  EventsIn(b, from, from - 1) = {}
<1>1. from..(from - 1) = {}
  OBVIOUS
<1> QED
  BY <1>1 DEF EventsIn

LEMMA EventsInParts ==
    ASSUME NEW b, NEW from \in Int, NEW middle \in Int, NEW to \in Int
    PROVE  EventsIn(b, from, to) \subseteq EventsIn(b, from, middle - 1) \cup EventsIn(b, middle, to)
<1>1. from..to \subseteq (from..(middle - 1)) \cup (middle..to)
  OBVIOUS
<1> QED
  BY <1>1 DEF EventsIn

LEMMA EventsInWithin ==
    ASSUME NEW b, NEW from \in Int, NEW to \in Int, NEW low \in Int, low <= from
    PROVE  EventsIn(b, from, to) \subseteq EventsIn(b, low, to)
<1>1. from..to \subseteq low..to
  OBVIOUS
<1> QED
  BY <1>1 DEF EventsIn

(* A query below the settled block is answered with the settled events. *)
LEMMA SettledEventsAreAnswered ==
    ASSUME head \in Block, settled \in BlocksOf(Path(head)), NEW from \in Int, NEW to \in Int, to <= Number(settled)
    PROVE  EventsIn(settled, from, to) = RangeLogs(from, to)
<1>1. EventsIn(head, from, to) = RangeLogs(from, to)
  BY DEF EventsIn, RangeLogs, LogsOf
<1> QED
  BY <1>1, EventsInStay
-----------------------------------------------------------------------------
(* What lies behind the scan position, and what a catchup loop has in hand *)

BehindIsKnown == startBlock # -1 => EventsIn(settled, startBlock, Position - 1) \subseteq Known

LoopHoldsPage ==
    loop[Subject] = "dispatch" => EventsIn(settled, Position, loopTo[Subject]) \subseteq loopEvents \cup Known

(* A page of the lead group *)
GroupHoldsPage ==
    pc \in {"catchupDispatch", "dispatch"} /\ Subject \in group =>
        EventsIn(settled, Position, pageHWM - 1) \subseteq pending \cup Known

LEMMA BehindPreserved ==
    PositionInv /\ PositionInv' /\ BehindIsKnown /\ LoopHoldsPage /\ GroupHoldsPage /\ [Next]_vars => BehindIsKnown'
<1> SUFFICES ASSUME PositionInv, PositionInv', BehindIsKnown, LoopHoldsPage, GroupHoldsPage, [Next]_vars,
                    startBlock' # -1
             PROVE  EventsIn(settled', startBlock', Position' - 1) \subseteq Known'
  BY DEF BehindIsKnown
<1>1. /\ settled \in BlocksOf(Path(settled'))
      /\ Known \subseteq Known'
      /\ startBlock # -1 => startBlock' = startBlock /\ Position <= Position'
      /\ startBlock = -1 => startBlock' = -1 \/ startBlock' = Position'
      /\ settled' # settled => ChainStep
  BY StepsLeave
<1>2. /\ settled \in Block /\ settled' \in Block /\ Subject \in Listener
      /\ Position \in Nat /\ Position' \in Nat /\ startBlock \in Int /\ startBlock' \in Int
      /\ hwmBlock \in [Listener -> Nat] /\ loopTo \in [Listener -> Nat] /\ pageHWM \in Nat
  BY ListenersAssumption DEF PositionInv, StreamTypeOK, TypeOK, HeadTypeOK, ListenersTypeOK, Position
<1>3. CASE startBlock = -1
  BY <1>1, <1>2, <1>3, EventsInEmpty
<1>4. CASE startBlock # -1 /\ Position' = Position
  <2>1. CASE Position = startBlock
    BY <1>1, <1>2, <1>4, <2>1, EventsInEmpty
  <2>2. CASE Position # startBlock
    <3>1. Position <= Number(settled)
      BY <1>4, <2>2 DEF PositionInv, ScanInv, SubjectPosition, Position
    <3>2. Number(settled) \in Nat
      BY <1>2, PathOfBlock
    <3>3. EventsIn(settled', startBlock, Position - 1) = EventsIn(settled, startBlock, Position - 1)
      BY <1>1, <1>2, <3>1, <3>2, EventsInStay
    <3> QED
      BY <1>1, <1>4, <3>3 DEF BehindIsKnown
  <2> QED
    BY <2>1, <2>2
<1>5. CASE startBlock # -1 /\ Position' # Position
  <2> SUFFICES EventsIn(settled, Position, Position' - 1) \subseteq Known' /\ settled' = settled
    BY <1>1, <1>2, <1>5, EventsInParts DEF BehindIsKnown
  <2>1. PICK l \in Listener :
            CatchupDispatch(l) \/ AddEventListener(l) \/ DispatchCatchupPage \/ DispatchLogs
    BY <1>1, <1>2, <1>5
       DEF Next, StreamLoop, EstablishHeadBlock, StartInitial, AllStarted, LeadGroupCatchup, CatchupPage,
           CatchupPageFailed, SteadyCycle, RevertToCatchup, NewFilter, NewFilterFails,
           GetFilterLogs, GetFilterLogsFails, FilterNotFound, EnrichFails, Retry, FilterLost, ChainStep, PollStep, vars, listenerVars, Position, ListenerStep, ApiCall, CatchupLoop,
           CatchupStep, StartAdded, RemoveEventListener, CatchupRemoved, CatchupCompletes, CatchupNotReady,
           CatchupRange, CatchupQuery, CatchupQueryFailed
  <2>2. CASE AddEventListener(l)
    <3>1. l # Subject
      BY <1>5, <2>2 DEF AddEventListener, PositionInv, RegistryInv, StartIsKnown
    <3>2. Position' = Position
      BY <1>2, <2>2, <3>1 DEF AddEventListener, Position
    <3> QED
      BY <1>5, <3>2
  <2>3. CASE CatchupDispatch(l)
    <3>1. l = Subject /\ Position' = loopTo[Subject] + 1
      BY <1>2, <1>5, <2>3 DEF CatchupDispatch, Position, Forward
    <3>2. loop[Subject] = "dispatch" /\ delivered' = delivered \cup loopEvents
      BY <2>3, <3>1 DEF CatchupDispatch
    <3>3. Position' - 1 = loopTo[Subject]
      BY <1>2, <3>1
    <3>4. settled' = settled
      BY <1>1, <1>2, <1>5, <2>3, <3>1 DEF ChainStep, listenerVars, Position
    <3> QED
      BY <1>1, <3>2, <3>3, <3>4 DEF LoopHoldsPage, Known
  <2>4. CASE DispatchCatchupPage \/ DispatchLogs
    <3>1. Dispatch /\ pc \in {"catchupDispatch", "dispatch"}
      BY <2>4 DEF DispatchCatchupPage, DispatchLogs
    <3>2. settled' = settled /\ delivered' = delivered \cup pending
      BY <3>1 DEF Dispatch, headVars
    <3>3. Subject \in group /\ Position' = pageHWM
      BY <1>2, <1>5, <3>1 DEF Dispatch, MoveHWMForwards, Forward, Position
    <3> QED
      BY <1>1, <3>1, <3>2, <3>3 DEF GroupHoldsPage, Known
  <2> QED
    BY <2>1, <2>2, <2>3, <2>4
<1> QED
  BY <1>3, <1>4, <1>5

LEMMA LoopPagePreserved ==
    PositionInv /\ PositionInv' /\ LoopHoldsPage /\ [Next]_vars => LoopHoldsPage'
<1> SUFFICES ASSUME PositionInv, PositionInv', LoopHoldsPage, [Next]_vars, loop'[Subject] = "dispatch"
             PROVE  EventsIn(settled', Position', loopTo'[Subject]) \subseteq loopEvents' \cup Known'
  BY DEF LoopHoldsPage
<1>1. /\ settled \in BlocksOf(Path(settled')) /\ Known \subseteq Known'
      /\ startBlock # -1 => Position <= Position'
      /\ settled' # settled => ChainStep
  BY StepsLeave
<1>2. /\ settled \in Block /\ settled' \in Block /\ head \in Block /\ Subject \in Listener
      /\ Position \in Nat /\ Position' \in Nat /\ headBlock \in Int /\ Number(settled) \in Nat
      /\ loopTo \in [Listener -> Nat] /\ loop \in [Listener -> {"none", "check", "range", "query", "dispatch", "done"}]
  <2>1. HeadTypeOK /\ HeadTypeOK' /\ ListenersTypeOK /\ ListenersTypeOK' /\ Subject \in Listener
    BY ListenersAssumption DEF PositionInv, StreamTypeOK, TypeOK
  <2>2. settled \in Block /\ settled' \in Block /\ head \in Block
    BY <2>1 DEF HeadTypeOK, NodeTypeOK
  <2>3. Number(settled) \in Nat
    BY <2>2, PathOfBlock
  <2> QED
    BY <2>1, <2>2, <2>3 DEF ListenersTypeOK, Position
<1>3. loop[Subject] \in {"query", "dispatch"} => loopTo[Subject] \in Nat /\ loopTo[Subject] <= Number(settled)
  <2>1. loop[Subject] \in {"query", "dispatch"} => loopTo[Subject] < headBlock /\ headBlock <= Number(settled)
    BY <1>2 DEF PositionInv, ScanInv, HeadBlockIsStable
  <2>2. loopTo[Subject] \in Nat
    BY <1>2
  <2> QED
    BY <1>2, <2>1, <2>2
<1>4. ASSUME ListenerStep, ~CatchupQuery(Subject)
      PROVE  loop[Subject] = "dispatch" /\ UNCHANGED <<loopTo[Subject], loopEvents>>
  <2>1. ASSUME NEW l \in Listener, \/ StartAdded(l) \/ CatchupRemoved(l) \/ CatchupCompletes(l) \/ CatchupNotReady(l)
                                   \/ CatchupRange(l) \/ CatchupQueryFailed(l) \/ CatchupDispatch(l)
        PROVE  loop[Subject] = "dispatch" /\ UNCHANGED <<loopTo[Subject], loopEvents>>
    BY <1>2, <2>1 DEF StartAdded, StartEventListener, CatchupRemoved, CatchupCompletes, CatchupNotReady, CatchupRange,
         CatchupQueryFailed, CatchupDispatch, LoopSees
  <2>2. ASSUME NEW l \in Listener, AddEventListener(l) \/ RemoveEventListener(l)
        PROVE  loop[Subject] = "dispatch" /\ UNCHANGED <<loopTo[Subject], loopEvents>>
    BY <1>2, <2>2 DEF AddEventListener, RemoveEventListener
  <2>3. ASSUME NEW l \in Listener, CatchupQuery(l), l # Subject
        PROVE  loop[Subject] = "dispatch" /\ UNCHANGED <<loopTo[Subject], loopEvents>>
    BY <1>2, <2>3 DEF CatchupQuery, LoopSees
  <2> QED
    BY <1>4, <2>1, <2>2, <2>3 DEF ListenerStep, ApiCall, CatchupLoop, CatchupStep
<1>5. ASSUME NEW l \in Listener, StartInitial(l)
      PROVE  loop[Subject] = "dispatch" /\ UNCHANGED <<loopTo[Subject], loopEvents>>
  BY <1>2, <1>5 DEF StartInitial, StartEventListener
<1>6. ASSUME ~ListenerStep, \A l \in Listener : ~StartInitial(l)
      PROVE  loop[Subject] = "dispatch" /\ UNCHANGED <<loopTo[Subject], loopEvents>>
  BY <1>6 DEF Next, StreamLoop, EstablishHeadBlock, AllStarted, LeadGroupCatchup, CatchupPage,
     CatchupPageFailed, SteadyCycle, RevertToCatchup, NewFilter, NewFilterFails,
     GetFilterLogs, GetFilterLogsFails, FilterNotFound, EnrichFails, Retry, DispatchCatchupPage, DispatchLogs, Dispatch,
     FilterLost, ChainStep, PollStep, vars, listenerVars
<1>7. CASE ListenerStep /\ CatchupQuery(Subject)
  <2>1. /\ loop[Subject] = "query" /\ loopEvents' = RangeLogs(Position, loopTo[Subject])
        /\ UNCHANGED <<settled, Position, loopTo>>
    BY <1>7 DEF ListenerStep, CatchupQuery, headVars, Position
  <2>2. EventsIn(settled, Position, loopTo[Subject]) = RangeLogs(Position, loopTo[Subject])
    BY <1>2, <1>3, <2>1, SettledEventsAreAnswered DEF PositionInv, HeadIsSettled
  <2> QED
    BY <2>1, <2>2
<1>8. CASE loop[Subject] = "dispatch" /\ UNCHANGED <<loopTo[Subject], loopEvents>>
  <2>1. startBlock # -1
    BY <1>2, <1>8 DEF PositionInv, RegistryInv, AbsentIsIdle, StartIsKnown
  <2>2. EventsIn(settled', Position', loopTo[Subject]) \subseteq EventsIn(settled', Position, loopTo[Subject])
    BY <1>1, <1>2, <1>3, <1>8, <2>1, EventsInWithin
  <2>3. EventsIn(settled', Position, loopTo[Subject]) = EventsIn(settled, Position, loopTo[Subject])
    BY <1>1, <1>2, <1>3, <1>8, EventsInStay
  <2> QED
    BY <1>1, <1>8, <2>2, <2>3 DEF LoopHoldsPage
<1> QED
  BY <1>4, <1>5, <1>6, <1>7, <1>8
-----------------------------------------------------------------------------
(* What the filter and the pages of the lead group hold *)

StreamControl ==
    /\ pc \in {"start", "starting", "catchup", "query", "catchupDispatch"} => filter = "none"
    /\ pc \notin {"catchupDispatch", "dispatch"} => pending = {}
    /\ pc \in {"filter", "logs", "dispatch"} => ~resetRequired
    /\ pc = "logs" => filter # "none"

LEMMA ControlInitially == Init => StreamControl
  BY DEF Init, StreamControl

LEMMA ControlPreserved == StreamControl /\ [Next]_vars => StreamControl'
<1> SUFFICES ASSUME StreamControl, [Next]_vars PROVE StreamControl'
  OBVIOUS
<1> USE DEF StreamControl
<1>1. CASE EstablishHeadBlock \/ (\E l \in Listener : StartInitial(l)) \/ AllStarted
  BY <1>1 DEF EstablishHeadBlock, StartInitial, AllStarted, EnterMode
<1>2. CASE LeadGroupCatchup \/ CatchupPage \/ CatchupPageFailed
  BY <1>2 DEF LeadGroupCatchup, EnterMode, CatchupPage, CatchupPageFailed
<1>3. CASE DispatchCatchupPage \/ DispatchLogs
  BY <1>3 DEF DispatchCatchupPage, DispatchLogs, Dispatch
<1>4. CASE SteadyCycle
  BY <1>4 DEF SteadyCycle, NeedsFilter
<1>5. CASE RevertToCatchup \/ NewFilter \/ NewFilterFails
  BY <1>5 DEF RevertToCatchup, EnterMode, NewFilter, NewFilterFails
<1>6. CASE GetFilterLogs \/ GetFilterLogsFails \/ FilterNotFound \/ EnrichFails
  BY <1>6 DEF GetFilterLogs, GetFilterLogsFails, FilterNotFound, EnrichFails, Retry
<1>7. CASE ListenerStep \/ FilterLost \/ ChainStep \/ PollStep \/ UNCHANGED vars
  BY <1>7 DEF ListenerStep, FilterLost, ChainStep, PollStep, vars, streamVars
<1> QED
  BY <1>1, <1>2, <1>3, <1>4, <1>5, <1>6, <1>7 DEF Next, StreamLoop

(* A page, and a new filter, starts no higher than the Subject's scan position. *)
StartsBelow ==
    /\ Subject \in group
    /\ pc = "query" \/ (filter = "new" /\ pc \in {"steady", "logs", "dispatch"})
    => filterFrom <= Position

(* The filter of the node collects what the Subject has yet to see. *)
FilterCollects ==
    /\ Subject \in group
    /\ filter = "polled" /\ nodeLogFilter /\ ~resetRequired /\ pc \in {"steady", "logs", "dispatch"}
    => \A b \in BlocksOf(Path(head)) \cap EventBlocks : Number(b) >= Position => b \in Known \cup filterLogs \cup pending

QueryInv == StartsBelow /\ GroupHoldsPage /\ FilterCollects

LEMMA QueryInitially == Init => QueryInv
  BY DEF Init, QueryInv, StartsBelow, GroupHoldsPage, FilterCollects

(* What is not on the chain of old is among what becomes canonical. *)
LEMMA NewBlocksAreAnnounced ==
    ASSUME NEW old \in Block, NEW new \in Block, NEW b \in BlocksOf(Path(new)), b \notin BlocksOf(Path(old))
    PROVE  b \in BlocksOf(NewlyCanonical(old, new))
<1> DEFINE shared == {i \in DOMAIN Path(new) : i \in DOMAIN Path(old) /\ Path(old)[i] = Path(new)[i]}
<1>1. /\ Path(new) \in Seq(Block) /\ Len(Path(new)) = Number(new) + 1 /\ Number(new) \in Nat
      /\ DOMAIN Path(new) = 1..(Number(new) + 1)
      /\ \A i \in 1..(Number(new) + 1) : Path(new)[i] \in Block /\ Number(Path(new)[i]) = i - 1
      /\ b \in Block /\ Number(b) \in Nat
  BY PathOfBlock
<1>2. /\ Number(b) + 1 \in 1..(Number(new) + 1) /\ Path(new)[Number(b) + 1] = b
  BY <1>1, OnPath
<1>3. shared \subseteq 1..Number(b)
  <2> SUFFICES ASSUME NEW i \in shared, i > Number(b) PROVE FALSE
    BY <1>1
  <2>1. i \in 1..(Number(new) + 1) /\ i \in DOMAIN Path(old) /\ Path(old)[i] = Path(new)[i]
    BY <1>1
  <2> DEFINE c == Path(new)[i]
  <2>2. c \in Block /\ Number(c) = i - 1 /\ c \in BlocksOf(Path(new)) /\ c \in BlocksOf(Path(old))
    BY <1>1, <2>1 DEF BlocksOf
  <2> HIDE DEF c
  <2>3. Number(b) <= Number(c)
    BY <1>1, <2>1, <2>2
  <2>4. b \in BlocksOf(Path(c))
    BY <1>1, <2>2, <2>3, SharedPath
  <2> QED
    BY <2>2, <2>4, OnPathTransitive
<1>4. Cardinality(shared) \in Nat /\ Cardinality(shared) <= Number(b)
  <2>1. ASSUME NEW n \in Nat PROVE IsFiniteSet(1..n) /\ Cardinality(1..n) = n
    <3>1. IsFiniteSet(1..n) /\ Cardinality(1..n) = IF 1 > n THEN 0 ELSE n - 1 + 1
      BY FS_Interval
    <3> QED
      BY <3>1
  <2>2. IsFiniteSet(1..Number(b)) /\ Cardinality(1..Number(b)) = Number(b)
    BY <1>1, <2>1
  <2>3. IsFiniteSet(shared) /\ Cardinality(shared) <= Number(b)
    BY <1>3, <2>2, FS_Subset
  <2> QED
    BY <2>3, FS_CardinalityType
<1> DEFINE from == Cardinality(shared) + 1
           last == Number(new) + 1
           announced == SubSeq(Path(new), from, last)
<1>5. /\ from \in Nat /\ last \in Nat /\ 1 <= from /\ from <= Number(b) + 1 /\ Number(b) + 1 <= last
      /\ last = Number(new) + 1
  BY <1>1, <1>2, <1>4
<1>6. NewlyCanonical(old, new) = announced
  BY <1>1 DEF NewlyCanonical
<1> HIDE DEF shared, from, last
<1>7. \A i \in from..last : Path(new)[i] \in Block
  BY <1>1, <1>5
<1>8. /\ announced \in Seq(Block)
      /\ Len(announced) = IF from <= last THEN last - from + 1 ELSE 0
      /\ \A i \in 1..(last - from + 1) : announced[i] = Path(new)[from + i - 1]
  BY <1>5, <1>7, SubSeqProperties
<1> HIDE DEF announced
<1>9. DOMAIN announced = 1..(last - from + 1)
  BY <1>5, <1>8, LenProperties
<1> DEFINE place == Number(b) + 1 - from + 1
<1>10. place \in 1..(last - from + 1) /\ from + place - 1 = Number(b) + 1
  BY <1>1, <1>5
<1>11. announced[place] = b
  BY <1>2, <1>8, <1>10
<1> HIDE DEF place
<1> QED
  BY <1>6, <1>9, <1>10, <1>11 DEF BlocksOf

LEMMA QueryPreserved ==
    PositionInv /\ PositionInv' /\ StreamControl /\ QueryInv /\ [Next]_vars => QueryInv'
<1> SUFFICES ASSUME PositionInv, PositionInv', StreamControl, QueryInv, [Next]_vars PROVE QueryInv'
  OBVIOUS
<1> USE DEF QueryInv
<1>1. TypeOK /\ TypeOK' /\ HeadTypeOK /\ HeadTypeOK' /\ ListenersTypeOK /\ ListenersTypeOK' /\ Subject \in Listener
  BY ListenersAssumption DEF PositionInv, StreamTypeOK, TypeOK
<1>2. /\ settled \in Block /\ settled' \in Block /\ head \in Block /\ head' \in Block
      /\ settled \in BlocksOf(Path(head)) /\ Number(settled) \in Nat
      /\ pageHWM \in Nat /\ pageHWM <= Number(settled) /\ filterFrom \in Nat
      /\ hwmBlock \in [Listener -> Nat] /\ Position \in Nat /\ Position' \in Nat
  <2>1. settled \in Block /\ settled' \in Block /\ head \in Block /\ head' \in Block
    BY <1>1 DEF HeadTypeOK, NodeTypeOK
  <2>2. Number(settled) \in Nat
    BY <2>1, PathOfBlock
  <2>3. pageHWM \in Nat /\ filterFrom \in Nat /\ hwmBlock \in [Listener -> Nat] /\ Position \in Nat /\ Position' \in Nat
    BY <1>1 DEF TypeOK, ListenersTypeOK, Position
  <2> QED
    BY <2>1, <2>2, <2>3 DEF PositionInv, ScanInv, HeadIsSettled
<1>3. settled \in BlocksOf(Path(settled')) /\ Known \subseteq Known'
  BY StepsLeave
<1>4. Subject \in group => Position <= Position'
  <2>1. Subject \in group => startBlock # -1
    BY <1>1 DEF PositionInv, RegistryInv, AbsentIsIdle, StartIsKnown
  <2> QED
    BY <2>1, StepsLeave
<1>5. \A b \in BlocksOf(Path(head)) : b \in Block /\ Number(b) \in Nat
  BY <1>2, PathOfBlock
<1>6. ASSUME UNCHANGED <<group, pc, pageHWM, pending>> PROVE GroupHoldsPage'
  <2> SUFFICES ASSUME Subject \in group, pc \in {"catchupDispatch", "dispatch"}
               PROVE  EventsIn(settled', Position', pageHWM - 1) \subseteq pending \cup Known'
    BY <1>6 DEF GroupHoldsPage
  <2>1. EventsIn(settled', Position', pageHWM - 1) \subseteq EventsIn(settled', Position, pageHWM - 1)
    BY <1>2, <1>4, EventsInWithin
  <2>2. EventsIn(settled', Position, pageHWM - 1) = EventsIn(settled, Position, pageHWM - 1)
    BY <1>2, <1>3, EventsInStay
  <2> QED
    BY <1>3, <2>1, <2>2 DEF GroupHoldsPage
<1>7. ASSUME Subject \in group, filter = "polled", nodeLogFilter, ~resetRequired, pc \in {"steady", "logs", "dispatch"},
             head' = head, filterLogs \cup pending \subseteq Known' \cup filterLogs' \cup pending'
      PROVE  FilterCollects'
  <2> SUFFICES ASSUME NEW b \in BlocksOf(Path(head)) \cap EventBlocks, Number(b) >= Position'
               PROVE  b \in Known' \cup filterLogs' \cup pending'
    BY <1>7 DEF FilterCollects
  <2>1. Number(b) >= Position
    BY <1>2, <1>4, <1>5, <1>7
  <2>2. b \in Known \cup filterLogs \cup pending
    BY <1>7, <2>1 DEF FilterCollects
  <2> QED
    BY <1>3, <1>7, <2>2
<1>8. ASSUME Subject \in group, StartsBelow, UNCHANGED filterFrom,
             pc = "query" \/ (filter = "new" /\ pc \in {"steady", "logs", "dispatch"})
      PROVE  StartsBelow'
  BY <1>2, <1>4, <1>8 DEF StartsBelow
<1>9. CASE /\ UNCHANGED <<head, group, pc, pageHWM, pending, filter, resetRequired, filterFrom, filterLogs>>
           /\ nodeLogFilter' => nodeLogFilter
  <2>1. StartsBelow'
    BY <1>8, <1>9 DEF StartsBelow
  <2>2. FilterCollects'
    BY <1>7, <1>9 DEF FilterCollects
  <2> QED
    BY <1>6, <1>9, <2>1, <2>2
<1>10. CASE ListenerStep \/ PollStep \/ (\E l \in Listener : StartInitial(l)) \/ UNCHANGED vars
  BY <1>9, <1>10 DEF ListenerStep, PollStep, PollHead, PollLatestBlock, PollHeadNumber, StartInitial, vars,
     headVars, nodeVars, streamVars, filterVars
<1>11. CASE FilterLost
  <2>1. UNCHANGED <<group, pc, pageHWM, pending, filter, filterFrom>> /\ ~nodeLogFilter'
    BY <1>11 DEF FilterLost, streamVars
  <2>2. StartsBelow'
    BY <1>8, <2>1 DEF StartsBelow
  <2> QED
    BY <1>6, <2>1, <2>2 DEF FilterCollects
<1>12. CASE EstablishHeadBlock \/ AllStarted \/ CatchupPageFailed \/ DispatchCatchupPage \/ RevertToCatchup
            \/ NewFilterFails \/ FilterNotFound
  <2>1. filter' = "none" /\ pc' \notin {"query", "catchupDispatch", "dispatch"}
    BY <1>12 DEF StreamControl, EstablishHeadBlock, AllStarted, EnterMode, CatchupPageFailed, DispatchCatchupPage,
       Dispatch, RevertToCatchup, NewFilterFails, FilterNotFound, Retry
  <2> QED
    BY <2>1 DEF StartsBelow, GroupHoldsPage, FilterCollects
<1>13. CASE LeadGroupCatchup
  <2>1. filter' = "none" /\ pc' \in {"steady", "query"}
    BY <1>13 DEF LeadGroupCatchup, EnterMode, StreamControl
  <2>2. ASSUME pc' = "query", Subject \in group' PROVE filterFrom' <= Position'
    <3>1. filterFrom' = LowestHWM /\ hwmBlock' = hwmBlock
      BY <1>13, <2>2 DEF LeadGroupCatchup, EnterMode, listenerVars
    <3>2. group' \subseteq Listener
      BY <1>1 DEF TypeOK
    <3> QED
      BY <1>1, <2>2, <3>1, <3>2, LowestHWMType DEF Position
  <2> QED
    BY <2>1, <2>2 DEF StartsBelow, GroupHoldsPage, FilterCollects
<1>14. CASE CatchupPage
  <2>1. /\ filter' = "none" /\ pc = "query" /\ pc' = "catchupDispatch" /\ UNCHANGED <<settled, group, pageHWM, Position>>
        /\ pending' = EventsOf(RangeLogs(filterFrom, pageHWM - 1))
    BY <1>14 DEF CatchupPage, StreamControl, headVars, listenerVars, Position
  <2>2. ASSUME Subject \in group PROVE EventsIn(settled, Position, pageHWM - 1) \subseteq pending'
    <3>1. filterFrom <= Position
      BY <2>1, <2>2 DEF StartsBelow
    <3>2. EventsIn(settled, Position, pageHWM - 1) \subseteq EventsIn(settled, filterFrom, pageHWM - 1)
      BY <1>2, <3>1, EventsInWithin
    <3>3. EventsIn(settled, filterFrom, pageHWM - 1) = RangeLogs(filterFrom, pageHWM - 1)
      BY <1>2, SettledEventsAreAnswered
    <3>4. \A b \in EventsIn(settled, Position, pageHWM - 1) : Number(b) >= Position
      BY <1>2 DEF EventsIn
    <3> QED
      BY <2>1, <2>2, <3>2, <3>3, <3>4 DEF EventsOf, Position
  <2> QED
    BY <2>1, <2>2 DEF StartsBelow, GroupHoldsPage, FilterCollects
<1>15. CASE SteadyCycle
  <2>1. /\ pc = "steady" /\ UNCHANGED <<head, filter, filterFrom, pending, nodeLogFilter, filterLogs, Position>>
        /\ pc' \in {"steady", "filter", "logs"} /\ (pc' = "steady" => group' = {})
    BY <1>15 DEF SteadyCycle, headVars, nodeVars, listenerVars, filterVars, Position
  <2>2. pc' = "logs" => group' = group /\ ~resetRequired
    BY <1>15 DEF SteadyCycle, NeedsFilter, CurrentGroup
  <2>3. StartsBelow'
    BY <1>8, <2>1, <2>2 DEF StartsBelow
  <2>4. FilterCollects'
    BY <1>7, <2>1, <2>2 DEF FilterCollects
  <2> QED
    BY <2>1, <2>3, <2>4 DEF GroupHoldsPage
<1>16. CASE NewFilter
  <2>1. /\ filter' = "new" /\ pc' = "logs" /\ group' = group /\ filterFrom' = LowestHWM /\ hwmBlock' = hwmBlock
    BY <1>16 DEF NewFilter, FilterStart, listenerVars
  <2>2. ASSUME Subject \in group' PROVE filterFrom' <= Position'
    <3>1. group' \subseteq Listener
      BY <1>1 DEF TypeOK
    <3> QED
      BY <1>1, <2>1, <2>2, <3>1, LowestHWMType DEF Position
  <2> QED
    BY <2>1, <2>2 DEF StartsBelow, GroupHoldsPage, FilterCollects
<1>17. CASE GetFilterLogs
  <2>1. /\ pc = "logs" /\ nodeLogFilter /\ pending = {} /\ ~resetRequired /\ filter \in {"new", "polled"}
        /\ filter' = "polled" /\ pc' = "dispatch" /\ pending' = EventsOf(NextLogs)
        /\ UNCHANGED <<head, settled, group, pageHWM, Position>> /\ Known' = Known
    BY <1>1, <1>17 DEF GetFilterLogs, StreamControl, TypeOK, headVars, nodeVars, listenerVars, Position, Known
  <2>2. ASSUME Subject \in group, NEW b \in BlocksOf(Path(head)) \cap EventBlocks, Number(b) >= Position
        PROVE  b \in Known \cup pending'
    <3>1. CASE filter = "new"
      <4>1. filterFrom <= Position
        BY <2>1, <2>2, <3>1 DEF StartsBelow
      <4>2. Number(b) >= filterFrom
        BY <1>2, <1>5, <2>2, <4>1
      <4> QED
        BY <2>1, <2>2, <3>1, <4>2 DEF EventsOf, NextLogs, LogsOf, Position
    <3>2. CASE filter = "polled"
      <4>1. b \in Known \cup filterLogs
        BY <2>1, <2>2, <3>2 DEF FilterCollects
      <4> QED
        BY <2>1, <2>2, <3>2, <4>1 DEF EventsOf, NextLogs, Position
    <3> QED
      BY <2>1, <3>1, <3>2
  <2>3. ASSUME Subject \in group PROVE EventsIn(settled, Position, pageHWM - 1) \subseteq pending' \cup Known
    <3>1. EventsIn(settled, Position, pageHWM - 1) = RangeLogs(Position, pageHWM - 1)
      BY <1>2, SettledEventsAreAnswered
    <3>2. \A b \in RangeLogs(Position, pageHWM - 1) :
              b \in BlocksOf(Path(head)) \cap EventBlocks /\ Number(b) >= Position
      BY <1>2 DEF RangeLogs, LogsOf
    <3> QED
      BY <2>2, <2>3, <3>1, <3>2
  <2> QED
    BY <2>1, <2>2, <2>3 DEF StartsBelow, GroupHoldsPage, FilterCollects
<1>18. CASE GetFilterLogsFails
  <2>1. /\ pc = "logs" /\ pc' = "steady" /\ UNCHANGED <<head, group, filter, resetRequired, filterFrom, pending, nodeLogFilter>>
    BY <1>18 DEF GetFilterLogsFails, Retry, headVars, nodeVars
  <2>2. filter = "polled" => filterLogs \subseteq Known' \cup filterLogs'
    BY <1>18 DEF GetFilterLogsFails, Known
  <2>3. StartsBelow'
    BY <1>8, <2>1 DEF StartsBelow
  <2>4. FilterCollects'
    BY <1>7, <2>1, <2>2 DEF FilterCollects
  <2> QED
    BY <2>1, <2>3, <2>4 DEF GroupHoldsPage
<1>19. CASE EnrichFails
  BY <1>19 DEF EnrichFails, Retry, ResetAfterEnrichFailure, StartsBelow, GroupHoldsPage, FilterCollects
<1>20. CASE DispatchLogs
  <2>1. /\ pc = "dispatch" /\ pc' = "steady" /\ UNCHANGED <<head, group, filter, resetRequired, filterFrom, nodeLogFilter, filterLogs>>
        /\ pending \subseteq Known'
    BY <1>20 DEF DispatchLogs, Dispatch, Known, headVars, nodeVars, filterVars
  <2>2. StartsBelow'
    BY <1>8, <2>1 DEF StartsBelow
  <2>3. FilterCollects'
    BY <1>7, <2>1 DEF FilterCollects
  <2> QED
    BY <2>1, <2>2, <2>3 DEF GroupHoldsPage
<1>21. CASE ChainStep
  <2>1. /\ UNCHANGED <<group, pc, pageHWM, pending, filter, resetRequired, filterFrom, nodeLogFilter, Position>>
        /\ filterLogs' = IF nodeLogFilter THEN filterLogs \cup LogsOf(BlocksOf(NewlyCanonical(head, head'))) ELSE filterLogs
    BY <1>21 DEF ChainStep, streamVars, listenerVars, Position
  <2>2. StartsBelow'
    BY <1>8, <2>1 DEF StartsBelow
  <2>3. FilterCollects'
    <3> SUFFICES ASSUME Subject \in group, filter = "polled", nodeLogFilter, ~resetRequired,
                        pc \in {"steady", "logs", "dispatch"},
                        NEW b \in BlocksOf(Path(head')) \cap EventBlocks, Number(b) >= Position
                 PROVE  b \in Known' \cup filterLogs' \cup pending'
      BY <2>1 DEF FilterCollects
    <3>1. CASE b \in BlocksOf(Path(head))
      BY <1>3, <2>1, <3>1 DEF FilterCollects
    <3>2. CASE b \notin BlocksOf(Path(head))
      BY <1>2, <2>1, <3>2, NewBlocksAreAnnounced DEF LogsOf
    <3> QED
      BY <3>1, <3>2
  <2> QED
    BY <1>6, <2>1, <2>2, <2>3
<1> QED
  BY <1>10, <1>11, <1>12, <1>13, <1>14, <1>15, <1>16, <1>17, <1>18, <1>19, <1>20, <1>21 DEF Next, StreamLoop
-----------------------------------------------------------------------------
(* The stream implements EventDetection. *)

Safety == PositionInv /\ StreamControl /\ BehindIsKnown /\ LoopHoldsPage /\ QueryInv

LEMMA SafetyInitially == Init => Safety
<1> SUFFICES ASSUME Init PROVE Safety
  OBVIOUS
<1>1. Position \in Nat /\ (startBlock # -1 => startBlock = Position)
  BY TypeInitially, ListenersAssumption DEF Init, ListenersInit, StreamTypeOK, TypeOK, ListenersTypeOK, Position
<1>2. BehindIsKnown
  BY <1>1, EventsInEmpty DEF BehindIsKnown
<1>3. LoopHoldsPage
  BY ListenersAssumption DEF LoopHoldsPage, Init, ListenersInit
<1> QED
  BY <1>2, <1>3, PositionInitially, ControlInitially, QueryInitially DEF Safety

LEMMA SafetyPreserved == Safety /\ [Next]_vars => Safety'
  BY PositionPreserved, ControlPreserved, BehindPreserved, LoopPagePreserved, QueryPreserved DEF Safety, QueryInv

LEMMA DetectsInitially == Init => Detection!Init
<1> SUFFICES ASSUME Init PROVE Detection!Init
  OBVIOUS
<1>1. settled \in Block /\ startBlock \in Nat \cup {-1}
  BY TypeInitially DEF StreamTypeOK, TypeOK, HeadTypeOK, ListenersTypeOK
<1>2. startBlock # -1 => startBlock = hwmBlock[Subject]
  BY DEF Init, ListenersInit
<1>3. delivered = {} /\ lostLogs = {}
  BY DEF Init, ListenersInit
<1> QED
  BY <1>1, <1>2, <1>3 DEF Detection!Init

LEMMA StepDetects == Safety /\ Safety' /\ [Next]_vars => [Detection!Next]_(Detection!detectionVars)
<1> SUFFICES ASSUME Safety, Safety', [Next]_vars PROVE [Detection!Next]_(Detection!detectionVars)
  OBVIOUS
<1>1. /\ settled \in BlocksOf(Path(settled'))
      /\ Known \subseteq Known'
      /\ startBlock # -1 => startBlock' = startBlock /\ Position <= Position'
      /\ startBlock = -1 => startBlock' = -1 \/ startBlock' = Position'
      /\ settled' # settled => ChainStep
  BY StepsLeave DEF Safety
<1>2. /\ settled \in Block /\ settled' \in Block /\ Number(settled) \in Nat
      /\ startBlock \in Nat \cup {-1} /\ startBlock' \in Nat \cup {-1} /\ Position \in Nat /\ Position' \in Nat
      /\ Known \subseteq Block /\ Known' \subseteq Block
  <2>1. TypeOK /\ TypeOK' /\ Subject \in Listener
    BY ListenersAssumption DEF Safety, PositionInv, StreamTypeOK
  <2>2. settled \in Block /\ settled' \in Block
    BY <2>1 DEF TypeOK, HeadTypeOK
  <2>3. Number(settled) \in Nat
    BY <2>2, PathOfBlock
  <2> QED
    BY <2>1, <2>2, <2>3 DEF TypeOK, ListenersTypeOK, Position, Known
<1>3. CASE ChainStep
  <2>1. UNCHANGED <<startBlock, Position, Known>>
    BY <1>3 DEF ChainStep, listenerVars, Position, Known
  <2>2. Detection!Settle
    BY <1>1, <1>2, <2>1 DEF Detection!Settle, Detection!BlocksOf, BlocksOf, Position, Known
  <2> QED
    BY <2>2 DEF Detection!Next
<1>4. CASE settled' = settled /\ startBlock = -1 /\ startBlock' # -1
  <2>1. Known' = Known
    <3>1. PICK l \in Listener : AddEventListener(l) /\ ListenerStep
      BY <1>4 DEF Next, StreamLoop, EstablishHeadBlock, StartInitial, AllStarted, LeadGroupCatchup, CatchupPage,
         CatchupPageFailed, DispatchCatchupPage, SteadyCycle, RevertToCatchup, NewFilter, NewFilterFails,
         GetFilterLogs, GetFilterLogsFails, FilterNotFound, EnrichFails, Retry, DispatchLogs, Dispatch,
         FilterLost, ChainStep, PollStep, vars, listenerVars, ListenerStep, ApiCall, CatchupLoop,
         CatchupStep, StartAdded, RemoveEventListener, CatchupRemoved, CatchupCompletes, CatchupNotReady,
         CatchupRange, CatchupQuery, CatchupQueryFailed, CatchupDispatch
    <3> QED
      BY <3>1 DEF AddEventListener, ListenerStep, filterVars, Known
  <2>2. Detection!Begin
    BY <1>1, <1>2, <1>4, <2>1 DEF Detection!Begin, Position, Known
  <2> QED
    BY <2>2 DEF Detection!Next
<1>5. CASE settled' = settled /\ startBlock = startBlock' /\ (startBlock = -1 \/ Position' = Position)
  <2>1. Detection!Detect
    BY <1>1, <1>2, <1>5 DEF Detection!Detect, Position, Known
  <2> QED
    BY <2>1 DEF Detection!Next
<1>6. CASE settled' = settled /\ startBlock = startBlock' /\ startBlock # -1 /\ Position' # Position
  <2>1. Position' > Position /\ Position' <= Number(settled) + 1
    <3>1. Position' <= Number(settled') \/ Position' = startBlock'
      BY <1>6 DEF Safety, PositionInv, ScanInv, SubjectPosition, Position
    <3>2. Position >= startBlock
      BY <1>6 DEF Safety, PositionInv, ScanInv, SubjectPosition, Position
    <3> QED
      BY <1>1, <1>2, <1>6, <3>1, <3>2
  <2>2. Detection!Behind(Position') = EventsIn(settled, startBlock, Position' - 1)
    BY DEF Detection!Behind, Detection!BlocksOf, BlocksOf, EventsIn
  <2>3. Detection!Behind(Position') \subseteq Known'
    BY <1>6, <2>2 DEF Safety, BehindIsKnown
  <2>4. Detection!Advance
    BY <1>1, <1>2, <1>6, <2>1, <2>3 DEF Detection!Advance, Position, Known
  <2> QED
    BY <2>4 DEF Detection!Next
<1> QED
  BY <1>1, <1>2, <1>3, <1>4, <1>5, <1>6

(* The stream keeps the promise of EventDetection: whatever filters, calls and responses fail,  *)
(* and whoever scans for the listener, its scan position never goes back, and only moves over   *)
(* settled blocks whose events were pushed, or lost with a response of the node.                *)
THEOREM StreamImplementsDetection == Spec => ImplementsDetection
<1>1. Spec => []Safety
  BY SafetyInitially, SafetyPreserved, PTL DEF Spec
<1> QED
  BY <1>1, DetectsInitially, StepDetects, PTL DEF Spec, ImplementsDetection, Detection!Spec
=============================================================================
