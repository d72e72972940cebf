------------------------- MODULE GetLogsStream_proofs -------------------------
(***************************************************************************)
(* Theorems about GetLogsStream, for every block tree and configuration.   *)
(* In light mode nothing is lost, nothing is pushed twice, and the stream  *)
(* implements EventDetection.  In full mode nothing is lost as long as the *)
(* monitored window covers a re-org and the blocks mined since the last    *)
(* continuity check, and no re-org brings back a fork that was polled:     *)
(* what is not pushed yet replaces a record, and the next check finds it.  *)
(***************************************************************************)
EXTENDS GetLogsStream, MonitoredHead_proofs, WellFoundedInduction

-----------------------------------------------------------------------------
(* Types. *)

LEMMA LowestIsMember ==
    ASSUME NEW S \in SUBSET Block, S # {}
    PROVE  Lowest(S) \in S /\ \A c \in S : Number(Lowest(S)) <= Number(c)
<1> DEFINE numbers == {Number(b) : b \in S}
<1>1. numbers \in SUBSET Nat /\ numbers # {}
  BY PathOfBlock, SMTT(30)
<1>2. \E n \in numbers : \A m \in numbers : n <= m
  <2>1. PICK n \in numbers : \A m \in numbers : <<m, n>> \notin OpToRel(<, Nat)
    BY <1>1, NatLessThanWellFounded, WFMin
  <2>2. \A m \in numbers : ~(m < n)
    BY <1>1, <2>1, Zenon DEF OpToRel
  <2> QED
    BY <1>1, <2>2
<1>3. \E b \in S : \A c \in S : Number(b) <= Number(c)
  BY <1>2
<1> QED
  BY <1>3 DEF Lowest

LEMMA StableHeadType == ASSUME NEW n \in Int PROVE StableHead(n) \in Nat
  BY HeadAssumption DEF StableHead, NotBelowZero

(* A range is only planned, queried and pushed once the poll position is established. *)
PollEstablished == pc \in {"plan", "query", "dispatch"} => fromBlock >= 0

StreamTypeOK == TypeOK /\ PollEstablished

LEMMA TypeInitially == Init => StreamTypeOK
<1> SUFFICES ASSUME Init PROVE StreamTypeOK
  OBVIOUS
<1>1. HeadTypeOK
  BY HeadInitially DEF Init, HeadInv
<1>2. <<>> \in Seq(Block) /\ 0 \in 0..MaxResets /\ hwmBlock \in Nat
  BY EmptySeq, StreamAssumption DEF Init
<1> QED
  BY <1>1, <1>2 DEF Init, StreamTypeOK, PollEstablished, TypeOK, HeadTypeOK

LEMMA TypePreserved == StreamTypeOK /\ [Next]_vars => StreamTypeOK'
<1> SUFFICES ASSUME StreamTypeOK, [Next]_vars PROVE StreamTypeOK'
  OBVIOUS
<1> USE DEF StreamTypeOK, PollEstablished
<1>1. /\ highestBlock \in Nat /\ chainHead \in Nat /\ toBlock \in Nat
      /\ StableHead(highestBlock) \in Nat /\ StableHead(chainHead) \in Nat
      /\ <<>> \in Seq(Block) /\ {} \subseteq Block
  BY StableHeadType, EmptySeq, SMTT(30) DEF TypeOK, HeadTypeOK
<1>2. UNCHANGED headVars => HeadTypeOK'
  BY DEF TypeOK, HeadTypeOK, NodeTypeOK, headVars, nodeVars, viewVars
<1>3. CASE PreStartProcessing
  BY <1>1, <1>2, <1>3 DEF PreStartProcessing, TypeOK, pollVars, pageVars, historyVars
<1>4. CASE CaughtUp
  BY <1>1, <1>2, <1>4 DEF CaughtUp, TypeOK, markVars, pageVars, historyVars
<1>5. CASE CatchupPage
  <2>1. toBlock' \in Nat
    BY <1>1, <1>5, StreamAssumption DEF CatchupPage, TypeOK
  <2>2. PollEstablished'
    BY <1>5 DEF CatchupPage, TypeOK
  <2>3. TypeOK'
    BY <1>1, <1>2, <1>5, <2>1 DEF CatchupPage, TypeOK, markVars, historyVars
  <2> QED
    BY <2>2, <2>3
<1>6. CASE BeginCycle
  <2>1. fromBlock' \in Nat \cup {-1} /\ polledChain' \subseteq Block /\ deliveredBlocks' \subseteq Block
        /\ sinceReset' \subseteq Block
    BY <1>1, <1>6 DEF BeginCycle, ResetPoll, pollVars, TypeOK
  <2>2. PollEstablished'
    BY <1>6 DEF BeginCycle, ResetPoll, pollVars, TypeOK
  <2>3. TypeOK'
    BY <1>1, <1>2, <1>6, <2>1 DEF BeginCycle, TypeOK, markVars, historyVars
  <2> QED
    BY <2>2, <2>3
<1>7. CASE PlanScan
  <2>1. InWindow(canonicalChain) \subseteq Block
    BY DEF InWindow, TypeOK
  <2>2. headChain' \in Seq(Block) /\ polledChain' \subseteq Block /\ fromBlock' \in Nat
    <3> DEFINE diverging == Diverging(InWindow(canonicalChain), canonicalChain)
    <3>1. diverging \subseteq Block
      BY <2>1 DEF Diverging
    <3>2. diverging # {} => Number(Lowest(diverging)) \in Nat
      BY <3>1, LowestIsMember, PathOfBlock
    <3> QED
      BY <1>7, <2>1, <3>2 DEF PlanScan, CheckReorgRewind, TypeOK, HeadTypeOK
  <2>3. toBlock' \in Nat
    <3>1. ScanCeiling(headChain') \in Nat
      <4> DEFINE top == IF headChain' = <<>> THEN 0 ELSE Number(headChain'[Len(headChain')])
      <4>1. headChain' # <<>> => headChain'[Len(headChain')] \in Block
        BY <2>2, LenProperties, ElementOfSeq, EmptySeq
      <4>2. top \in Nat
        BY <4>1, PathOfBlock
      <4> QED
        BY <1>1, <4>2 DEF ScanCeiling, Forward
    <3>2. fromBlock' + CatchupPageSize - 1 \in Nat
      <4>1. \A n \in Nat : n + CatchupPageSize - 1 \in Nat
        BY StreamAssumption
      <4> QED
        BY <2>2, <4>1
    <3>3. toBlock' \in {ScanCeiling(headChain'), fromBlock' + CatchupPageSize - 1}
      BY <1>7 DEF PlanScan
    <3> QED
      BY <3>1, <3>2, <3>3
  <2> QED
    BY <1>1, <1>2, <1>7, <2>2, <2>3 DEF PlanScan, TypeOK, HeadTypeOK, markVars, historyVars
<1>8. CASE RangeQuery
  <2>1. RangeLogs \subseteq Block
    BY PathOfBlock DEF RangeLogs, TypeOK, HeadTypeOK, NodeTypeOK
  <2> QED
    BY <1>2, <1>8, <2>1 DEF RangeQuery, FilterDelivered, TypeOK, markVars, pollVars, historyVars
<1>9. CASE RangeQueryFailed
  BY <1>1, <1>2, <1>9 DEF RangeQueryFailed, EndCycle, TypeOK, markVars, pollVars, historyVars
<1>10. CASE DispatchEvent
  <2>1. Lowest(pending) \in Block /\ Number(Lowest(pending)) \in Nat
    BY <1>10, LowestIsMember, PathOfBlock DEF DispatchEvent, TypeOK
  <2> QED
    BY <1>2, <1>10, <2>1 DEF DispatchEvent, Forward, TypeOK
<1>11. CASE SteadyPageDone
  <2>2. PageHWM \in Nat
    BY <1>1, <1>11 DEF PageHWM, TypeOK, SteadyPageDone
  <2>3. BlocksOf(headChain) \subseteq Block
    BY LenProperties, ElementOfSeq DEF BlocksOf, TypeOK
  <2> QED
    BY <1>1, <1>2, <1>11, <2>2, <2>3
       DEF SteadyPageDone, EndCycle, Advance, AdvanceRescan, Forward, TypeOK, historyVars
<1>12. CASE CatchupPageDone
  BY <1>1, <1>2, <1>12 DEF CatchupPageDone, EndCycle, Forward, TypeOK, pollVars, historyVars
<1>13. CASE ListenersChange
  BY <1>2, <1>13, StreamAssumption DEF ListenersChange, TypeOK, markVars, pollVars, pageVars, historyVars
<1>14. CASE StreamStops
  BY <1>2, <1>14 DEF StreamStops, TypeOK, markVars, pollVars, pageVars, historyVars
<1>15. CASE ChainStep
  <2>1. HeadTypeOK'
    BY <1>15, ChainMovesType DEF ChainStep, TypeOK
  <2> QED
    BY <1>15, <2>1 DEF ChainStep, TypeOK, streamVars, markVars, pollVars, pageVars, historyVars
<1>16. CASE PollStep
  <2>1. HeadTypeOK'
    BY <1>16, PollHeadType DEF PollStep, TypeOK
  <2> QED
    BY <1>16, <2>1 DEF PollStep, TypeOK, streamVars, markVars, pollVars, pageVars, historyVars
<1>17. CASE UNCHANGED vars
  BY <1>2, <1>17 DEF vars, TypeOK, streamVars, markVars, pollVars, pageVars, historyVars
<1> QED
  BY <1>3, <1>4, <1>5, <1>6, <1>7, <1>8, <1>9, <1>10, <1>11, <1>12, <1>13, <1>14, <1>15, <1>16, <1>17
     DEF Next, StreamLoop

(* Type correctness. *)
THEOREM TypeCorrect == Spec => []TypeOK
<1>1. StreamTypeOK => TypeOK
  BY DEF StreamTypeOK
<1> QED
  BY <1>1, TypeInitially, TypePreserved, PTL DEF Spec
-----------------------------------------------------------------------------
(* Positions: nothing the stream commits to lies above what is settled. *)

(* A listener may start above the settled blocks; it is never moved above them. *)
SettledOrStart(n) == n <= Number(settled) \/ n = startBlock

ScanInv ==
    /\ hwmBlock >= startBlock /\ SettledOrStart(hwmBlock)
    /\ HeadBlockIsStable
    /\ chainHead - MaxReorgDepth <= Number(settled)
    /\ LightMode => SettledOrStart(fromBlock) /\ fromBlock <= hwmBlock
    /\ pc = "plan" => ~catchup
    /\ catchup /\ pc \in {"query", "dispatch"} => toBlock + 1 <= Number(settled)

PositionInv == StreamTypeOK /\ HeadIsSettled /\ ScanInv

LEMMA PositionInitially == Init => PositionInv
<1> SUFFICES ASSUME Init PROVE PositionInv
  OBVIOUS
<1>1. StreamTypeOK /\ HeadIsSettled
  BY TypeInitially, HeadInitially DEF Init, HeadInv
<1>2. Number(settled) \in Nat /\ MaxReorgDepth \in Nat /\ hwmBlock \in Nat
  BY <1>1, PathOfBlock, HeadAssumption DEF StreamTypeOK, TypeOK, HeadTypeOK
<1>3. ScanInv
  BY <1>2 DEF ScanInv, SettledOrStart, HeadBlockIsStable, Init
<1> QED
  BY <1>1, <1>3 DEF PositionInv

(* The high water mark of a steady state page. *)
LEMMA PageHWMSettled ==
    ASSUME PositionInv, pc \in {"query", "dispatch"}
    PROVE  /\ PageHWM \in Nat
           /\ PageHWM <= Number(settled) \/ (LightMode /\ PageHWM = fromBlock)
           /\ LightMode => fromBlock <= PageHWM
           /\ PageHWM <= toBlock + 1 \/ (LightMode /\ PageHWM = fromBlock)
<1>1. /\ settled \in Block /\ chainHead \in Nat /\ toBlock \in Nat /\ fromBlock \in Nat
      /\ chainHead - MaxReorgDepth <= Number(settled)
  BY DEF PositionInv, StreamTypeOK, PollEstablished, TypeOK, HeadTypeOK, ScanInv
<1>2. StableHead(chainHead) \in Nat /\ StableHead(chainHead) <= Number(settled)
  BY <1>1, GapIsSettled DEF StableHead
<1>3. Number(settled) \in Nat
  BY <1>1, PathOfBlock
<1> QED
  BY <1>1, <1>2, <1>3 DEF PageHWM

(* What is settled when a position is taken stays settled. *)
LEMMA PositionPreserved == PositionInv /\ [Next]_vars => PositionInv'
<1> SUFFICES ASSUME PositionInv, [Next]_vars PROVE PositionInv'
  OBVIOUS
<1>1. StreamTypeOK' /\ StreamTypeOK
  BY TypePreserved DEF PositionInv
<1>2. HeadIsSettled' /\ Number(settled) <= Number(settled') /\ (UNCHANGED headVars => settled' = settled)
  <2>1. HeadInv
    BY DEF PositionInv, HeadInv, StreamTypeOK, TypeOK
  <2>2. settled \in Block /\ Number(settled) \in Nat
    BY PathOfBlock DEF PositionInv, StreamTypeOK, TypeOK, HeadTypeOK
  <2>3. CASE ChainStep
    BY <2>1, <2>3, ChainMovesSettles DEF ChainStep, HeadInv, headVars
  <2>4. CASE PollStep
    BY <2>1, <2>2, <2>4, PollHeadSettles DEF PollStep, HeadInv
  <2>5. CASE UNCHANGED headVars
    BY <2>1, <2>2, <2>5, HeadUnchanged DEF HeadInv
  <2> QED
    BY <2>3, <2>4, <2>5
       DEF Next, StreamLoop, vars, PreStartProcessing, CaughtUp, CatchupPage, BeginCycle, PlanScan, RangeQuery,
           RangeQueryFailed, DispatchEvent, SteadyPageDone, CatchupPageDone, ListenersChange, StreamStops
<1>3. /\ settled \in Block /\ settled' \in Block /\ Number(settled) \in Nat /\ Number(settled') \in Nat
      /\ hwmBlock \in Nat /\ startBlock \in Nat /\ toBlock \in Nat /\ chainHead \in Nat /\ highestBlock \in Nat
      /\ fromBlock \in Nat \cup {-1} /\ headBlock \in Nat \cup {-1} /\ MaxReorgDepth \in Nat
  BY <1>1, PathOfBlock, HeadAssumption DEF StreamTypeOK, TypeOK, HeadTypeOK
<1>4. /\ StableHead(highestBlock) \in Nat /\ StableHead(highestBlock) <= Number(settled)
      /\ highestBlock - MaxReorgDepth <= Number(settled)
  BY <1>3, GapIsSettled DEF StableHead, PositionInv, HeadIsSettled
<1> SUFFICES ScanInv'
  BY <1>1, <1>2 DEF PositionInv
<1> USE DEF ScanInv, SettledOrStart, HeadBlockIsStable
<1>5. ScanInv
  BY DEF PositionInv
<1>6. CASE PreStartProcessing
  BY <1>2, <1>3, <1>4, <1>5, <1>6 DEF PreStartProcessing, pollVars, pageVars, historyVars
<1>7. CASE CaughtUp
  BY <1>2, <1>3, <1>5, <1>7 DEF CaughtUp, markVars, pageVars, historyVars
<1>8. CASE CatchupPage
  <2>1. toBlock' + 1 <= Number(settled)
    BY <1>3, <1>4, <1>8, StreamAssumption DEF CatchupPage
  <2> QED
    BY <1>2, <1>3, <1>4, <1>5, <1>8, <2>1 DEF CatchupPage, markVars, historyVars
<1>9. CASE BeginCycle
  <2>1. pc' \in {"cycle", "plan"} /\ fromBlock' \in {fromBlock, hwmBlock} /\ chainHead' = highestBlock
    BY <1>9 DEF BeginCycle, ResetPoll, pollVars
  <2> QED
    BY <1>2, <1>3, <1>4, <1>5, <1>9, <2>1 DEF BeginCycle, markVars, historyVars
<1>10. CASE PlanScan
  BY <1>2, <1>3, <1>5, <1>10 DEF PlanScan, markVars, historyVars
<1>11. CASE RangeQuery
  BY <1>2, <1>3, <1>5, <1>11 DEF RangeQuery, markVars, pollVars, historyVars
<1>12. CASE RangeQueryFailed
  BY <1>2, <1>3, <1>5, <1>12 DEF RangeQueryFailed, EndCycle, markVars, pollVars, historyVars
<1>13. CASE DispatchEvent
  BY <1>2, <1>3, <1>5, <1>13 DEF DispatchEvent
<1>14. CASE SteadyPageDone
  <2>1. /\ PageHWM \in Nat
        /\ PageHWM <= Number(settled) \/ (LightMode /\ PageHWM = fromBlock)
    BY <1>14, PageHWMSettled DEF SteadyPageDone
  <2>2. /\ hwmBlock' = Forward(hwmBlock, PageHWM) /\ headBlock' = Forward(headBlock, PageHWM)
        /\ LightMode => fromBlock' = PageHWM
        /\ startBlock' = startBlock /\ chainHead' = 0 /\ pc' = "cycle" /\ settled' = settled
    BY <1>2, <1>14 DEF SteadyPageDone, AdvanceRescan, EndCycle, historyVars
  <2>3. hwmBlock' >= startBlock' /\ SettledOrStart(hwmBlock)'
    BY <1>3, <1>5, <2>1, <2>2 DEF Forward
  <2>4. HeadBlockIsStable'
    BY <1>3, <1>5, <2>1, <2>2 DEF Forward
  <2>5. LightMode => SettledOrStart(fromBlock)' /\ fromBlock' <= hwmBlock'
    BY <1>3, <1>5, <2>1, <2>2 DEF Forward
  <2> QED
    BY <1>3, <2>2, <2>3, <2>4, <2>5
<1>15. CASE CatchupPageDone
  BY <1>2, <1>3, <1>5, <1>15 DEF CatchupPageDone, EndCycle, Forward, pollVars, historyVars
<1>16. CASE ListenersChange
  BY <1>2, <1>3, <1>5, <1>16 DEF ListenersChange, markVars, pollVars, pageVars, historyVars
<1>17. CASE StreamStops
  BY <1>2, <1>3, <1>5, <1>17 DEF StreamStops, markVars, pollVars, pageVars, historyVars
<1>18. CASE ChainStep \/ PollStep \/ UNCHANGED vars
  <2>1. UNCHANGED streamVars
    BY <1>18 DEF ChainStep, PollStep, vars
  <2> QED
    BY <1>2, <1>3, <1>5, <2>1 DEF streamVars, markVars, pollVars, pageVars, historyVars
<1> QED
  BY <1>6, <1>7, <1>8, <1>9, <1>10, <1>11, <1>12, <1>13, <1>14, <1>15, <1>16, <1>17, <1>18
     DEF Next, StreamLoop

(* The lead group's position, up to which the listeners in individual catchup scan, is settled, *)
(* but for a light mode listener that starts above.                                             *)
THEOREM HeadBlockAlwaysStable == Spec => []HeadBlockIsStable
<1>1. PositionInv => HeadBlockIsStable
  BY DEF PositionInv, ScanInv
<1> QED
  BY <1>1, PositionInitially, PositionPreserved, PTL DEF Spec
-----------------------------------------------------------------------------
(* Light mode: the re-scan of the unstable window loses nothing. *)

(* Where the page in hand takes the scan position *)
PagePosition == IF catchup THEN toBlock + 1 ELSE PageHWM

SettledBelow(n) == {b \in BlocksOf(Path(settled)) : Number(b) < n}

(* What the page in hand holds of the settled blocks is pushed, or about to be; and a block is  *)
(* only remembered as delivered if it was, or is below the scan position.                       *)
LightInv ==
    /\ \A b \in SettledBelow(hwmBlock) : Number(b) >= startBlock => b \in delivered
    /\ \A b \in deliveredBlocks : Number(b) >= hwmBlock => b \in delivered
    /\ pc = "dispatch" =>
        /\ \A b \in newLogs : Number(b) >= hwmBlock => b \in delivered \cup pending
        /\ \A b \in SettledBelow(PagePosition) : Number(b) >= hwmBlock => b \in delivered \cup pending

LEMMA LightInitially == Init => LightInv
<1> SUFFICES ASSUME Init PROVE LightInv
  OBVIOUS
<1>1. settled \in Block /\ hwmBlock \in Nat
  BY TypeInitially DEF StreamTypeOK, TypeOK, HeadTypeOK
<1>2. \A b \in SettledBelow(hwmBlock) : Number(b) \in Nat /\ Number(b) < hwmBlock
  BY <1>1, PathOfBlock DEF SettledBelow
<1> QED
  BY <1>1, <1>2 DEF LightInv, Init

(* When more blocks settle, those below a position that was settled are the same. *)
LEMMA SettledBelowStays ==
    ASSUME settled \in Block, settled' \in Block, settled \in BlocksOf(Path(settled')),
           NEW n \in Int, n <= Number(settled) + 1
    PROVE  SettledBelow(n)' = SettledBelow(n)
<1>1. Number(settled) \in Nat
  BY PathOfBlock
<1>2. ASSUME NEW b \in Block, Number(b) < n
      PROVE  b \in BlocksOf(Path(settled')) <=> b \in BlocksOf(Path(settled))
  <2>1. Number(b) \in Nat /\ Number(b) <= Number(settled)
    BY <1>1, <1>2, PathOfBlock
  <2> QED
    BY <2>1, SharedPath
<1>3. BlocksOf(Path(settled)) \subseteq Block /\ BlocksOf(Path(settled')) \subseteq Block
  BY PathOfBlock
<1> QED
  BY <1>2, <1>3 DEF SettledBelow

(* Below the settled block the node, wherever it is, answers a query with the settled blocks.   *)
LEMMA SettledBlocksAreAnswered ==
    ASSUME PositionInv, LightMode, pc = "query", toBlock <= Number(head),
           NEW b \in SettledBelow(PagePosition), Number(b) >= hwmBlock
    PROVE  b \in RangeLogs
<1>1. /\ head \in Block /\ settled \in Block /\ settled \in BlocksOf(Path(head))
      /\ toBlock \in Nat /\ hwmBlock \in Nat /\ fromBlock \in Nat /\ fromBlock <= hwmBlock
  BY DEF PositionInv, StreamTypeOK, PollEstablished, TypeOK, HeadTypeOK, NodeTypeOK, HeadIsSettled, ScanInv
<1>2. b \in BlocksOf(Path(settled)) /\ Number(b) < PagePosition
  BY DEF SettledBelow
<1>3. b \in Block /\ Number(b) \in Nat
  BY <1>1, <1>2, PathOfBlock
<1>4. b \in BlocksOf(Path(head))
  BY <1>1, <1>2, OnPathTransitive
<1>5. Number(b) <= toBlock
  BY <1>1, <1>2, <1>3, PageHWMSettled DEF PagePosition
<1> QED
  BY <1>1, <1>3, <1>4, <1>5 DEF RangeLogs

LEMMA LightPreserved ==
    LightMode /\ PositionInv /\ PositionInv' /\ LightInv /\ [Next]_vars => LightInv'
<1> SUFFICES ASSUME LightMode, PositionInv, PositionInv', LightInv, [Next]_vars PROVE LightInv'
  OBVIOUS
<1> USE DEF LightInv
<1>1. /\ settled \in Block /\ settled' \in Block /\ Number(settled) \in Nat
      /\ hwmBlock \in Nat /\ hwmBlock' \in Nat /\ startBlock \in Nat /\ toBlock \in Nat /\ head \in Block
  BY PathOfBlock DEF PositionInv, StreamTypeOK, TypeOK, HeadTypeOK, NodeTypeOK
<1>2. \A b \in BlocksOf(Path(settled)) : b \in Block /\ Number(b) \in Nat
  BY <1>1, PathOfBlock
<1>3. UNCHANGED headVars => \A n : SettledBelow(n)' = SettledBelow(n)
  BY DEF SettledBelow, headVars
<1>4. CASE PreStartProcessing
  BY <1>3, <1>4 DEF PreStartProcessing, pollVars, pageVars, historyVars
<1>5. CASE CaughtUp
  BY <1>3, <1>5 DEF CaughtUp, markVars, pageVars, historyVars
<1>6. CASE CatchupPage
  BY <1>3, <1>6 DEF CatchupPage, markVars, historyVars
<1>7. CASE BeginCycle
  <2>1. deliveredBlocks' \in {{}, deliveredBlocks} /\ pc' # "dispatch"
    BY <1>7 DEF BeginCycle, ResetPoll, pollVars
  <2> QED
    BY <1>3, <1>7, <2>1 DEF BeginCycle, markVars, historyVars
<1>8. CASE PlanScan
  BY <1>3, <1>8 DEF PlanScan, markVars, historyVars
<1>9. CASE RangeQuery
  <2>1. /\ toBlock <= Number(head) /\ pc = "query"
        /\ newLogs' = (IF ~catchup THEN RangeLogs \ deliveredBlocks ELSE RangeLogs)
        /\ pending' = {b \in newLogs' : Number(b) >= hwmBlock}
        /\ hwmBlock' = hwmBlock /\ startBlock' = startBlock /\ delivered' = delivered
        /\ deliveredBlocks' = deliveredBlocks /\ settled' = settled
    BY <1>9 DEF RangeQuery, FilterDelivered, markVars, pollVars, historyVars, headVars
  <2>2. PagePosition' = PagePosition
    BY <1>9 DEF RangeQuery, PagePosition, PageHWM, StableHead, pollVars
  <2>3. SettledBelow(PagePosition)' = SettledBelow(PagePosition)
    BY <2>1, <2>2 DEF SettledBelow
  <2>4. ASSUME NEW b \in SettledBelow(PagePosition), Number(b) >= hwmBlock
        PROVE  b \in delivered' \cup pending'
    <3>1. b \in RangeLogs
      BY <2>1, <2>4, SettledBlocksAreAnswered
    <3> QED
      BY <2>1, <2>4, <3>1
  <2>5. SettledBelow(hwmBlock)' = SettledBelow(hwmBlock)
    BY <2>1 DEF SettledBelow
  <2> QED
    BY <2>1, <2>3, <2>4, <2>5
<1>10. CASE RangeQueryFailed
  BY <1>3, <1>10 DEF RangeQueryFailed, EndCycle, markVars, pollVars, historyVars
<1>11. CASE DispatchEvent
  <2>1. /\ delivered' = delivered \cup {Lowest(pending)} /\ pending' = pending \ {Lowest(pending)}
        /\ UNCHANGED <<headVars, pc, catchup, hwmBlock, fromBlock, deliveredBlocks, chainHead, toBlock, newLogs,
                       startBlock>>
    BY <1>11 DEF DispatchEvent
  <2>2. PagePosition' = PagePosition
    BY <2>1 DEF PagePosition, PageHWM, StableHead
  <2> QED
    BY <1>3, <2>1, <2>2
<1>12. CASE SteadyPageDone
  <2>1. PageHWM \in Nat
    BY <1>12, PageHWMSettled DEF SteadyPageDone
  <2>2. /\ pc = "dispatch" /\ pending = {} /\ PagePosition = PageHWM
        /\ hwmBlock' = Forward(hwmBlock, PageHWM) /\ hwmBlock <= hwmBlock'
        /\ delivered' = delivered /\ startBlock' = startBlock /\ pc' = "cycle" /\ settled' = settled
        /\ deliveredBlocks' \subseteq deliveredBlocks \cup newLogs
    BY <1>1, <1>12, <2>1
       DEF SteadyPageDone, PagePosition, AdvanceRescan, EndCycle, Forward, historyVars, headVars
  <2>3. ASSUME NEW b \in SettledBelow(hwmBlock)', Number(b) >= startBlock PROVE b \in delivered
    <3>1. b \in BlocksOf(Path(settled)) /\ Number(b) < hwmBlock' /\ Number(b) \in Nat
      BY <1>2, <2>2, <2>3 DEF SettledBelow
    <3>2. CASE Number(b) < hwmBlock
      BY <2>3, <3>1, <3>2 DEF SettledBelow
    <3>3. CASE Number(b) >= hwmBlock
      <4>1. Number(b) < PagePosition
        BY <1>1, <2>1, <2>2, <3>1, <3>3 DEF Forward
      <4> QED
        BY <2>2, <3>1, <3>3, <4>1 DEF SettledBelow
    <3> QED
      BY <1>1, <3>1, <3>2, <3>3
  <2>4. ASSUME NEW b \in deliveredBlocks', Number(b) >= hwmBlock' PROVE b \in delivered
    <3>1. b \in deliveredBlocks \/ b \in newLogs
      BY <2>2, <2>4
    <3>2. b \in Block
      BY <3>1 DEF PositionInv, StreamTypeOK, TypeOK
    <3>3. Number(b) >= hwmBlock
      BY <1>1, <2>2, <2>4, <3>2, PathOfBlock
    <3> QED
      BY <2>2, <3>1, <3>3
  <2> QED
    BY <2>2, <2>3, <2>4
<1>13. CASE CatchupPageDone
  <2>1. /\ pc = "dispatch" /\ pending = {} /\ PagePosition = toBlock + 1
        /\ hwmBlock' = Forward(hwmBlock, toBlock + 1) /\ hwmBlock <= hwmBlock'
        /\ delivered' = delivered /\ startBlock' = startBlock /\ pc' = "cycle" /\ settled' = settled
        /\ deliveredBlocks' = deliveredBlocks
    BY <1>1, <1>13 DEF CatchupPageDone, PagePosition, EndCycle, Forward, pollVars, historyVars, headVars
  <2>2. ASSUME NEW b \in SettledBelow(hwmBlock)', Number(b) >= startBlock PROVE b \in delivered
    <3>1. b \in BlocksOf(Path(settled)) /\ Number(b) < hwmBlock' /\ Number(b) \in Nat
      BY <1>2, <2>1, <2>2 DEF SettledBelow
    <3>2. CASE Number(b) < hwmBlock
      BY <2>2, <3>1, <3>2 DEF SettledBelow
    <3>3. CASE Number(b) >= hwmBlock
      <4>1. Number(b) < PagePosition
        BY <1>1, <2>1, <3>1, <3>3 DEF Forward
      <4> QED
        BY <2>1, <3>1, <3>3, <4>1 DEF SettledBelow
    <3> QED
      BY <1>1, <3>1, <3>2, <3>3
  <2>3. ASSUME NEW b \in deliveredBlocks', Number(b) >= hwmBlock' PROVE b \in delivered
    <3>1. b \in deliveredBlocks /\ b \in Block
      BY <2>1, <2>3 DEF PositionInv, StreamTypeOK, TypeOK
    <3>2. Number(b) >= hwmBlock
      BY <1>1, <2>1, <2>3, <3>1, PathOfBlock
    <3> QED
      BY <3>1, <3>2
  <2> QED
    BY <2>1, <2>2, <2>3
<1>14. CASE ListenersChange
  <2>1. PagePosition' = PagePosition
    BY <1>14 DEF ListenersChange, PagePosition, PageHWM, StableHead, pollVars, pageVars
  <2> QED
    BY <1>3, <1>14, <2>1 DEF ListenersChange, markVars, pollVars, pageVars, historyVars
<1>15. CASE StreamStops
  BY <1>3, <1>15 DEF StreamStops, markVars, pollVars, pageVars, historyVars
<1>16. CASE ChainStep
  <2>1. settled \in BlocksOf(Path(settled'))
    BY <1>16, ChainMovesSettles DEF ChainStep, PositionInv, HeadInv, StreamTypeOK, TypeOK
  <2>2. PagePosition' = PagePosition /\ UNCHANGED <<hwmBlock, startBlock, delivered, deliveredBlocks, pc, newLogs, pending>>
    BY <1>16 DEF ChainStep, PagePosition, PageHWM, StableHead, streamVars, markVars, pollVars, pageVars, historyVars
  <2>3. ASSUME NEW b \in SettledBelow(hwmBlock)', Number(b) >= startBlock PROVE b \in delivered
    <3>1. b \in BlocksOf(Path(settled')) /\ Number(b) < hwmBlock /\ b \in Block /\ Number(b) \in Nat
      BY <1>1, <2>2, <2>3, PathOfBlock DEF SettledBelow
    <3>2. hwmBlock <= Number(settled)
      BY <1>1, <2>3, <3>1 DEF PositionInv, ScanInv, SettledOrStart
    <3>3. SettledBelow(hwmBlock)' = SettledBelow(hwmBlock)
      BY <1>1, <2>1, <2>2, <3>2, SettledBelowStays DEF SettledBelow
    <3> QED
      BY <2>3, <3>3
  <2>4. ASSUME pc = "dispatch", NEW b \in SettledBelow(PagePosition)', Number(b) >= hwmBlock
        PROVE  b \in delivered \cup pending
    <3>1. b \in BlocksOf(Path(settled')) /\ Number(b) < PagePosition /\ b \in Block /\ Number(b) \in Nat
      BY <1>1, <2>2, <2>4, PathOfBlock DEF SettledBelow
    <3>2. PagePosition \in Int /\ PagePosition <= Number(settled)
      <4>1. CASE catchup
        BY <1>1, <2>4, <4>1 DEF PagePosition, PositionInv, ScanInv
      <4>2. CASE ~catchup
        <5>1. PageHWM \in Nat /\ (PageHWM <= Number(settled) \/ PageHWM = fromBlock)
          BY <2>4, PageHWMSettled
        <5>2. fromBlock <= hwmBlock
          BY DEF PositionInv, ScanInv
        <5> QED
          BY <1>1, <2>4, <3>1, <4>2, <5>1, <5>2 DEF PagePosition
      <4> QED
        BY <4>1, <4>2
    <3>3. SettledBelow(PagePosition)' = SettledBelow(PagePosition)
      BY <1>1, <2>1, <2>2, <3>2, SettledBelowStays DEF SettledBelow
    <3> QED
      BY <2>4, <3>3
  <2> QED
    BY <2>2, <2>3, <2>4
<1>17. CASE PollStep \/ UNCHANGED vars
  <2>1. UNCHANGED <<streamVars, settled>>
    BY <1>17 DEF PollStep, PollHead, PollLatestBlock, PollHeadNumber, vars, headVars
  <2>2. PagePosition' = PagePosition
    BY <2>1 DEF PagePosition, PageHWM, StableHead, streamVars, pollVars, pageVars
  <2>3. \A n : SettledBelow(n)' = SettledBelow(n)
    BY <2>1 DEF SettledBelow
  <2> QED
    BY <2>1, <2>2, <2>3 DEF streamVars, markVars, pollVars, pageVars, historyVars
<1> QED
  BY <1>4, <1>5, <1>6, <1>7, <1>8, <1>9, <1>10, <1>11, <1>12, <1>13, <1>14, <1>15, <1>16, <1>17
     DEF Next, StreamLoop

LightSafety == PositionInv /\ LightInv

LEMMA LightSafetyInvariant == LightMode => (Spec => []LightSafety)
<1> SUFFICES ASSUME LightMode PROVE Spec => []LightSafety
  OBVIOUS
<1>1. Init => LightSafety
  BY PositionInitially, LightInitially DEF LightSafety
<1>2. LightSafety /\ [Next]_vars => LightSafety'
  BY PositionPreserved, LightPreserved DEF LightSafety
<1> QED
  BY <1>1, <1>2, PTL DEF Spec

(* In light mode, against nodes that may be behind and whatever re-orgs, every event of the     *)
(* chain between the listener's first block and its scan position was pushed.                   *)
THEOREM LightLosesNothing == LightMode => (Spec => []NothingLostBelowHWM)
<1> SUFFICES ASSUME LightMode PROVE Spec => []NothingLostBelowHWM
  OBVIOUS
<1>1. ASSUME LightSafety PROVE NothingLostBelowHWM
  <2>1. /\ head \in Block /\ settled \in Block /\ settled \in BlocksOf(Path(head))
        /\ Number(settled) \in Nat /\ hwmBlock \in Nat /\ startBlock \in Nat
    BY <1>1, PathOfBlock DEF LightSafety, PositionInv, StreamTypeOK, TypeOK, HeadTypeOK, NodeTypeOK, HeadIsSettled
  <2> SUFFICES ASSUME NEW b \in BlocksOf(Path(head)), Number(b) \in startBlock..(hwmBlock - 1) PROVE b \in delivered
    BY DEF NothingLostBelowHWM
  <2>2. b \in Block /\ Number(b) \in Nat
    BY <2>1, PathOfBlock
  <2>3. hwmBlock <= Number(settled)
    BY <1>1, <2>1, <2>2 DEF LightSafety, PositionInv, ScanInv, SettledOrStart
  <2>4. b \in BlocksOf(Path(settled))
    BY <2>1, <2>2, <2>3, SharedPath
  <2> QED
    BY <1>1, <2>1, <2>2, <2>4 DEF LightSafety, LightInv, SettledBelow
<1> QED
  BY <1>1, LightSafetyInvariant, PTL
-----------------------------------------------------------------------------
(* The stream implements EventDetection, in either mode, as long as nothing is lost. *)

(* What is settled below the scan position was pushed. *)
SettledPushed == \A b \in SettledBelow(hwmBlock) : Number(b) >= startBlock => b \in delivered

LEMMA InitiallyDetects == Init => Detection!Init
<1> SUFFICES ASSUME Init PROVE Detection!Init
  OBVIOUS
<1>1. settled \in Block /\ startBlock \in Nat
  BY TypeInitially DEF StreamTypeOK, TypeOK, HeadTypeOK
<1> QED
  BY <1>1 DEF Init, Detection!Init

(* The end of a page: what the new position leaves behind was pushed. *)
LEMMA PageDoneAdvances ==
    ASSUME PositionInv, PositionInv', SettledPushed',
           UNCHANGED <<settled, startBlock, delivered>>, hwmBlock <= hwmBlock'
    PROVE  [Detection!Next]_(Detection!detectionVars)
<1>1. /\ settled \in Block /\ Number(settled) \in Nat /\ settled' = settled
      /\ hwmBlock \in Nat /\ hwmBlock' \in Nat /\ startBlock \in Nat /\ startBlock' = startBlock
      /\ delivered \subseteq Block /\ delivered' = delivered
      /\ startBlock <= hwmBlock
  BY PathOfBlock DEF PositionInv, ScanInv, StreamTypeOK, TypeOK, HeadTypeOK
<1>2. CASE hwmBlock' = hwmBlock
  BY <1>1, <1>2 DEF Detection!detectionVars
<1>3. CASE hwmBlock' > hwmBlock
  <2>1. hwmBlock' <= Number(settled)
    BY <1>1, <1>3 DEF PositionInv, ScanInv, SettledOrStart
  <2>2. ASSUME NEW b \in Detection!Behind(hwmBlock') PROVE b \in delivered'
    <3>1. b \in BlocksOf(Path(settled)) /\ Number(b) \in startBlock..(hwmBlock' - 1)
      BY <2>2 DEF Detection!Behind, Detection!BlocksOf, BlocksOf
    <3>2. b \in Block /\ Number(b) \in Nat
      BY <1>1, <3>1, PathOfBlock
    <3>3. b \in SettledBelow(hwmBlock)' /\ Number(b) >= startBlock'
      BY <1>1, <3>1, <3>2 DEF SettledBelow
    <3> QED
      BY <3>3 DEF SettledPushed
  <2>3. Detection!Advance
    BY <1>1, <1>3, <2>1, <2>2 DEF Detection!Advance
  <2> QED
    BY <2>3 DEF Detection!Next
<1> QED
  BY <1>1, <1>2, <1>3

LEMMA StepDetects ==
    PositionInv /\ PositionInv' /\ SettledPushed' /\ [Next]_vars => [Detection!Next]_(Detection!detectionVars)
<1> SUFFICES ASSUME PositionInv, PositionInv', SettledPushed', [Next]_vars
             PROVE  [Detection!Next]_(Detection!detectionVars)
  OBVIOUS
<1>1. /\ settled \in Block /\ settled' \in Block /\ head \in Block
      /\ hwmBlock \in Nat /\ toBlock \in Nat /\ delivered \subseteq Block /\ delivered' \subseteq Block
  BY DEF PositionInv, StreamTypeOK, TypeOK, HeadTypeOK, NodeTypeOK
<1>2. CASE ChainStep
  <2>1. settled \in BlocksOf(Path(settled'))
    BY <1>2, ChainMovesSettles DEF ChainStep, PositionInv, HeadInv, StreamTypeOK, TypeOK
  <2>2. UNCHANGED <<startBlock, hwmBlock, delivered>>
    BY <1>2 DEF ChainStep, streamVars, markVars, historyVars
  <2>3. Detection!Settle
    BY <1>1, <2>1, <2>2 DEF Detection!Settle, Detection!BlocksOf, BlocksOf
  <2> QED
    BY <2>3 DEF Detection!Next
<1>3. CASE DispatchEvent
  <2>1. delivered \subseteq delivered' /\ UNCHANGED <<settled, startBlock, hwmBlock>>
    BY <1>3 DEF DispatchEvent, headVars
  <2>2. Detection!Detect
    BY <1>1, <2>1 DEF Detection!Detect
  <2> QED
    BY <2>2 DEF Detection!Next
<1>4. CASE SteadyPageDone
  <2>1. PageHWM \in Nat
    BY <1>4, PageHWMSettled DEF SteadyPageDone
  <2>2. UNCHANGED <<settled, startBlock, delivered>> /\ hwmBlock <= hwmBlock'
    BY <1>1, <1>4, <2>1 DEF SteadyPageDone, Forward, headVars, historyVars
  <2> QED
    BY <2>2, PageDoneAdvances
<1>5. CASE CatchupPageDone
  <2>1. UNCHANGED <<settled, startBlock, delivered>> /\ hwmBlock <= hwmBlock'
    BY <1>1, <1>5 DEF CatchupPageDone, Forward, headVars, historyVars
  <2> QED
    BY <2>1, PageDoneAdvances
<1>6. CASE UNCHANGED <<settled, startBlock, hwmBlock, delivered>>
  BY <1>6 DEF Detection!detectionVars
<1> QED
  BY <1>2, <1>3, <1>4, <1>5, <1>6
     DEF Next, StreamLoop, vars, streamVars, headVars, markVars, historyVars, PreStartProcessing, CaughtUp,
         CatchupPage, BeginCycle, PlanScan, RangeQuery, RangeQueryFailed, ListenersChange, StreamStops,
         PollStep, PollHead, PollLatestBlock, PollHeadNumber

(* In light mode, the stream keeps the promise of EventDetection: the scan position never goes  *)
(* back, and only moves over settled blocks whose events were pushed.                           *)
THEOREM LightImplementsDetection == LightMode => (Spec => ImplementsDetection)
<1> SUFFICES ASSUME LightMode PROVE Spec => ImplementsDetection
  OBVIOUS
<1>1. Spec => []LightSafety
  BY LightSafetyInvariant
<1>2. LightSafety => PositionInv /\ SettledPushed
  BY DEF LightSafety, LightInv, SettledPushed
<1> QED
  BY <1>1, <1>2, InitiallyDetects, StepDetects, PTL DEF Spec, ImplementsDetection, Detection!Spec
-----------------------------------------------------------------------------
(* Light mode: the unstable window is scanned again and again, and nothing is pushed twice. *)

(* What was pushed since the poll position was established, and is scanned again, is remembered. *)
RedeliveryInv ==
    ~catchup =>
        /\ pc \in {"cycle", "plan", "query"} =>
            \A b \in sinceReset : Number(b) >= fromBlock => b \in deliveredBlocks
        /\ pc = "dispatch" =>
            /\ \A b \in sinceReset : Number(b) >= fromBlock => b \in deliveredBlocks \cup newLogs
            /\ pending \subseteq newLogs
            /\ pending \cap sinceReset = {}

LEMMA RedeliveryPreserved ==
    LightMode /\ PositionInv /\ RedeliveryInv /\ [Next]_vars => RedeliveryInv'
<1> SUFFICES ASSUME LightMode, PositionInv, RedeliveryInv, [Next]_vars PROVE RedeliveryInv'
  OBVIOUS
<1> USE DEF RedeliveryInv
<1>1. CASE PreStartProcessing
  BY <1>1 DEF PreStartProcessing
<1>2. CASE CaughtUp
  BY <1>2 DEF CaughtUp
<1>3. CASE CatchupPage
  BY <1>3 DEF CatchupPage
<1>4. CASE BeginCycle
  <2>1. sinceReset' = {} \/ UNCHANGED pollVars
    BY <1>4 DEF BeginCycle, ResetPoll
  <2> QED
    BY <1>4, <2>1 DEF BeginCycle, pollVars
<1>5. CASE PlanScan
  BY <1>5 DEF PlanScan
<1>6. CASE RangeQuery
  <2>1. pc = "query" /\ pc' = "dispatch" /\ UNCHANGED <<catchup, fromBlock, deliveredBlocks, sinceReset>>
        /\ pending' \subseteq newLogs' /\ (~catchup => newLogs' = RangeLogs \ deliveredBlocks)
    BY <1>6 DEF RangeQuery, FilterDelivered, pollVars
  <2>2. \A b \in RangeLogs : Number(b) >= fromBlock
    <3>1. fromBlock \in Nat /\ toBlock \in Nat
      BY <2>1 DEF PositionInv, StreamTypeOK, PollEstablished, TypeOK
    <3> QED
      BY <3>1 DEF RangeLogs
  <2> QED
    BY <2>1, <2>2
<1>7. CASE RangeQueryFailed
  BY <1>7 DEF RangeQueryFailed, EndCycle, pollVars
<1>8. CASE DispatchEvent
  <2> DEFINE b == Lowest(pending)
  <2>1. b \in pending
    BY <1>8, LowestIsMember DEF DispatchEvent, PositionInv, StreamTypeOK, TypeOK
  <2>2. sinceReset' = sinceReset \cup {b} /\ pending' = pending \ {b}
        /\ UNCHANGED <<pc, catchup, fromBlock, deliveredBlocks, newLogs>> /\ pc = "dispatch"
    BY <1>8 DEF DispatchEvent
  <2> HIDE DEF b
  <2> QED
    BY <2>1, <2>2
<1>9. CASE SteadyPageDone
  <2>1. PageHWM \in Nat /\ fromBlock \in Nat /\ fromBlock <= PageHWM
    BY <1>9, PageHWMSettled DEF SteadyPageDone, PositionInv, StreamTypeOK, PollEstablished, TypeOK
  <2>2. /\ pc = "dispatch" /\ pc' = "cycle" /\ ~catchup /\ sinceReset' = sinceReset /\ fromBlock' = PageHWM
        /\ deliveredBlocks' = {b \in deliveredBlocks \cup newLogs : Number(b) >= PageHWM}
    BY <1>9 DEF SteadyPageDone, AdvanceRescan, EndCycle
  <2>3. \A b \in sinceReset : Number(b) \in Nat
    BY PathOfBlock DEF PositionInv, StreamTypeOK, TypeOK
  <2> QED
    BY <2>1, <2>2, <2>3
<1>10. CASE CatchupPageDone
  BY <1>10 DEF CatchupPageDone
<1>11. CASE ListenersChange
  BY <1>11 DEF ListenersChange, pollVars, pageVars
<1>12. CASE StreamStops
  BY <1>12 DEF StreamStops
<1>13. CASE ChainStep \/ PollStep \/ UNCHANGED vars
  BY <1>13 DEF ChainStep, PollStep, vars, streamVars, pollVars, pageVars
<1> QED
  BY <1>1, <1>2, <1>3, <1>4, <1>5, <1>6, <1>7, <1>8, <1>9, <1>10, <1>11, <1>12, <1>13 DEF Next, StreamLoop

(* In light mode no block version is pushed twice between two resets of the poll position:      *)
(* what deliveredBlocks forgets is never scanned again.                                         *)
THEOREM LightNeverRedelivers == LightMode => (Spec => []NoRedelivery)
<1> SUFFICES ASSUME LightMode PROVE Spec => []NoRedelivery
  OBVIOUS
<1>1. Init => RedeliveryInv
  BY DEF Init, RedeliveryInv
<1>2. PositionInv /\ RedeliveryInv /\ [Next]_vars => RedeliveryInv'
  BY RedeliveryPreserved
<1>3. RedeliveryInv => NoRedelivery
  BY DEF RedeliveryInv, NoRedelivery
<1> QED
  BY <1>1, <1>2, <1>3, PositionInitially, PositionPreserved, PTL DEF Spec
-----------------------------------------------------------------------------
(* Full mode: where the positions are, next to what the block listener shows. *)

(* A steady state page, from its query to its last event *)
SteadyPage == ~catchup /\ pc \in {"query", "dispatch"}

(* The scan never gets ahead of the block after the head, but where the listener starts. *)
InReach(n) == n <= highestBlock + 1 \/ n <= startBlock

(* The page in hand is held by the snapshot above the stable threshold, and what was recorded   *)
(* of polled blocks is below the scan position.                                                 *)
RangeInv ==
    /\ chainHead <= highestBlock /\ checkedHead <= highestBlock
    /\ InReach(hwmBlock) /\ InReach(fromBlock)
    /\ catchup /\ pc \in {"query", "dispatch"} => fromBlock = hwmBlock /\ toBlock <= highestBlock
    /\ SteadyPage =>
        /\ Run(headChain) /\ headChain # <<>>
        /\ fromBlock <= toBlock /\ toBlock <= chainHead /\ chainHead <= checkedHead
        /\ toBlock <= StableHead(chainHead) \/ toBlock <= Number(Tip(headChain))
        /\ Number(headChain[1]) <= NotBelowZero(checkedHead + 1 - CheckpointBlockGap)
    /\ ~catchup => \A r \in polledChain : Number(r) < fromBlock

(* Every height between the settled block and the scan position has a record. *)
RecordsInv ==
    \A n \in startBlock..(fromBlock - 1) : n > Number(settled) => \E r \in polledChain : Number(r) = n

FullView == PositionInv /\ ViewInv /\ RangeInv /\ RecordsInv

(* What the steps of the full mode rest on: nodes that are not behind one another. *)
FullStep == ~LightMode /\ ~NodesBehind /\ [Next]_vars

LEMMA FullFacts ==
    ASSUME PositionInv
    PROVE  /\ head \in Block /\ settled \in Block /\ Number(head) \in Nat /\ Number(settled) \in Nat
           /\ settled \in BlocksOf(Path(head)) /\ highestBlock - MaxReorgDepth <= Number(settled)
           /\ highestBlock \in Nat /\ hwmBlock \in Nat /\ startBlock \in Nat /\ chainHead \in Nat /\ toBlock \in Nat
           /\ checkedHead \in Nat /\ fromBlock \in Nat \cup {-1}
           /\ pc \in {"plan", "query", "dispatch"} => fromBlock \in Nat
           /\ StableHead(highestBlock) \in Nat /\ StableHead(highestBlock) <= highestBlock
           /\ StableHead(chainHead) \in Nat /\ StableHead(chainHead) <= chainHead
           /\ StableHead(chainHead) <= Number(settled)
           /\ \A r \in polledChain : r \in Block /\ Number(r) \in Nat
           /\ \A r \in pending : r \in Block /\ Number(r) \in Nat
           /\ \A b \in BlocksOf(Path(head)) : b \in Block /\ Number(b) \in Nat
           /\ HeadInv
<1>1. /\ head \in Block /\ settled \in Block
      /\ settled \in BlocksOf(Path(head)) /\ highestBlock - MaxReorgDepth <= Number(settled)
      /\ highestBlock \in Nat /\ hwmBlock \in Nat /\ startBlock \in Nat /\ chainHead \in Nat /\ toBlock \in Nat
      /\ checkedHead \in Nat /\ fromBlock \in Nat \cup {-1}
      /\ pc \in {"plan", "query", "dispatch"} => fromBlock >= 0
      /\ polledChain \subseteq Block /\ pending \subseteq Block
      /\ chainHead - MaxReorgDepth <= Number(settled)
      /\ HeadInv
  BY DEF PositionInv, StreamTypeOK, PollEstablished, TypeOK, HeadTypeOK, NodeTypeOK, HeadIsSettled, HeadInv, ScanInv
<1>2. /\ Number(head) \in Nat /\ Number(settled) \in Nat
      /\ \A b \in BlocksOf(Path(head)) : b \in Block /\ Number(b) \in Nat
      /\ \A r \in polledChain : r \in Block /\ Number(r) \in Nat
      /\ \A r \in pending : r \in Block /\ Number(r) \in Nat
  BY <1>1, PathOfBlock
<1>3. /\ StableHead(highestBlock) \in Nat /\ StableHead(highestBlock) <= highestBlock
      /\ StableHead(chainHead) \in Nat /\ StableHead(chainHead) <= chainHead
      /\ StableHead(chainHead) <= Number(settled)
  BY <1>1, <1>2, GapIsSettled, HeadAssumption DEF StableHead, NotBelowZero
<1>4. pc \in {"plan", "query", "dispatch"} => fromBlock \in Nat
  BY <1>1
<1> QED
  BY <1>1, <1>2, <1>3, <1>4

LEMMA ViewStep ==
    PositionInv /\ ViewInv /\ FullStep => ViewInv' /\ highestBlock <= highestBlock'
<1> SUFFICES ASSUME PositionInv, ViewInv, FullStep PROVE ViewInv' /\ highestBlock <= highestBlock'
  OBVIOUS
<1>1. HeadInv /\ highestBlock \in Nat
  BY FullFacts
<1>2. CASE ChainStep
  BY <1>1, <1>2, ViewKept DEF ChainStep, FullStep, ChainMoves, viewVars
<1>3. CASE PollStep
  BY <1>1, <1>3, ViewPolled DEF PollStep, FullStep, PollHead, PollHeadNumber
<1>4. CASE UNCHANGED headVars
  BY <1>1, <1>4 DEF ViewInv, Seen, Tip, headVars, nodeVars, viewVars
<1> QED
  BY <1>2, <1>3, <1>4
     DEF FullStep, Next, StreamLoop, vars, PreStartProcessing, CaughtUp, CatchupPage, BeginCycle, PlanScan, RangeQuery,
         RangeQueryFailed, DispatchEvent, SteadyPageDone, CatchupPageDone, ListenersChange, StreamStops

LEMMA RangeInitially == Init /\ ~LightMode => ViewInv /\ RangeInv /\ RecordsInv
<1> SUFFICES ASSUME Init, ~LightMode PROVE ViewInv /\ RangeInv /\ RecordsInv
  OBVIOUS
<1>1. ViewInv
  BY ViewInitially DEF Init
<1>2. highestBlock \in Nat /\ startBlock \in Nat
  BY TypeInitially DEF StreamTypeOK, TypeOK, HeadTypeOK
<1>3. RangeInv /\ RecordsInv
  BY <1>2 DEF Init, RangeInv, RecordsInv, InReach, SteadyPage
<1> QED
  BY <1>1, <1>3

(* Where the continuity check takes the records and the scan position *)
LEMMA Rewound ==
    ASSUME PositionInv, ViewInv, RangeInv, ~LightMode, PlanScan
    PROVE  LET records == InWindow(canonicalChain)
           IN  /\ fromBlock \in Nat /\ fromBlock' \in Nat /\ fromBlock' <= fromBlock
               /\ records = {r \in polledChain : Number(r) >= Number(canonicalChain[1])}
               /\ polledChain' = {r \in records : Number(r) < fromBlock'}
               /\ \A r \in Diverging(records, canonicalChain) : fromBlock' <= Number(r)
<1> DEFINE records == InWindow(canonicalChain)
           diverging == Diverging(records, canonicalChain)
<1>1. /\ fromBlock \in Nat /\ ~catchup
      /\ \A r \in polledChain : r \in Block /\ Number(r) \in Nat
      /\ \A r \in polledChain : Number(r) < fromBlock
  BY FullFacts DEF PlanScan, PositionInv, ScanInv, RangeInv
<1>2. records = {r \in polledChain : Number(r) >= Number(canonicalChain[1])}
  BY DEF InWindow, ViewInv
<1>3. diverging \in SUBSET Block /\ diverging \subseteq records /\ records \subseteq polledChain
  BY <1>1, <1>2 DEF Diverging
<1>4. CASE diverging = {}
  <2>1. polledChain' = records /\ fromBlock' = fromBlock
    BY <1>4 DEF PlanScan, CheckReorgRewind
  <2> HIDE DEF records
  <2> QED
    BY <1>1, <1>2, <1>3, <1>4, <2>1 DEF records
<1>5. CASE diverging # {}
  <2> DEFINE low == Number(Lowest(diverging))
  <2>1. polledChain' = {r \in records : Number(r) < low} /\ fromBlock' = low
    BY <1>5 DEF PlanScan, CheckReorgRewind
  <2>2. Lowest(diverging) \in diverging /\ \A r \in diverging : low <= Number(r)
    BY <1>3, <1>5, LowestIsMember
  <2>3. low \in Nat /\ low < fromBlock
    BY <1>1, <1>3, <2>2
  <2> HIDE DEF records, diverging, low
  <2> QED
    BY <1>1, <1>2, <2>1, <2>2, <2>3 DEF records, diverging
<1> QED
  BY <1>4, <1>5

LEMMA RangePreserved ==
    PositionInv /\ ViewInv /\ RangeInv /\ FullStep => RangeInv'
<1> SUFFICES ASSUME PositionInv, ViewInv, RangeInv, FullStep PROVE RangeInv'
  OBVIOUS
<1>1. ViewInv' /\ highestBlock <= highestBlock'
  BY ViewStep
<1>2. /\ highestBlock \in Nat /\ hwmBlock \in Nat /\ startBlock \in Nat /\ chainHead \in Nat /\ toBlock \in Nat
      /\ checkedHead \in Nat /\ fromBlock \in Nat \cup {-1}
      /\ StableHead(highestBlock) \in Nat /\ StableHead(highestBlock) <= highestBlock
      /\ StableHead(chainHead) \in Nat /\ StableHead(chainHead) <= chainHead
      /\ \A r \in polledChain : Number(r) \in Nat
  BY FullFacts
<1>3. highestBlock' \in Nat
  BY PositionPreserved DEF FullStep, PositionInv, StreamTypeOK, TypeOK, HeadTypeOK
<1>4. ~LightMode /\ RangeInv
  BY DEF FullStep
<1> USE DEF RangeInv, SteadyPage, InReach
<1>5. CASE PreStartProcessing
  BY <1>4, <1>5 DEF PreStartProcessing, headVars, viewVars, pollVars, pageVars, historyVars
<1>6. CASE CaughtUp
  BY <1>2, <1>4, <1>6 DEF CaughtUp, headVars, viewVars, markVars, pageVars, historyVars
<1>7. CASE CatchupPage
  <2>1. /\ hwmBlock <= StableHead(highestBlock) /\ toBlock' <= StableHead(highestBlock)
        /\ StableHead(highestBlock) - hwmBlock >= CatchupThreshold
    <3>1. /\ StableHead(highestBlock) - hwmBlock >= CatchupThreshold
          /\ toBlock' = LET page == hwmBlock + CatchupPageSize - 1
                        IN  IF page > StableHead(highestBlock) THEN StableHead(highestBlock) ELSE page
      BY <1>7 DEF CatchupPage
    <3> QED
      BY <1>2, <3>1, StreamAssumption
  <2>2. /\ catchup' /\ chainHead' = highestBlock /\ fromBlock' = hwmBlock /\ highestBlock' = highestBlock
        /\ UNCHANGED <<hwmBlock, startBlock, checkedHead>>
    BY <1>7 DEF CatchupPage, headVars, viewVars, markVars, historyVars
  <2>3. toBlock' \in Nat
    BY PositionPreserved DEF FullStep, PositionInv, StreamTypeOK, TypeOK
  <2> QED
    BY <1>2, <1>4, <2>1, <2>2, <2>3
<1>8. CASE BeginCycle
  <2>1. /\ chainHead' = highestBlock /\ highestBlock' = highestBlock /\ pc' \in {"cycle", "plan"}
        /\ UNCHANGED <<hwmBlock, startBlock, checkedHead>> /\ ~catchup
    BY <1>8 DEF BeginCycle, headVars, viewVars, markVars, historyVars
  <2>2. (fromBlock' = hwmBlock /\ polledChain' = {}) \/ UNCHANGED <<fromBlock, polledChain>>
    BY <1>8 DEF BeginCycle, ResetPoll, pollVars
  <2> QED
    BY <1>2, <1>4, <2>1, <2>2
<1>9. CASE PlanScan
  <2>1. /\ headChain' = canonicalChain /\ checkedHead' = highestBlock
        /\ UNCHANGED <<highestBlock, catchup, hwmBlock, startBlock, chainHead>> /\ ~catchup
    BY <1>4, <1>9 DEF PlanScan, headVars, viewVars, markVars, historyVars, PositionInv, ScanInv
  <2>2. /\ fromBlock \in Nat /\ fromBlock' \in Nat /\ fromBlock' <= fromBlock
        /\ \A r \in polledChain' : Number(r) < fromBlock'
    BY <1>4, <1>9, Rewound
  <2>3. InReach(hwmBlock)' /\ InReach(fromBlock)'
    BY <1>2, <1>4, <2>1, <2>2
  <2> DEFINE ceiling == ScanCeiling(canonicalChain)
             top == Number(Tip(canonicalChain))
  <2>4. Run(canonicalChain) /\ canonicalChain # <<>> /\ top \in Nat
    BY EndsOfRun DEF ViewInv
  <2>5. ceiling \in Nat /\ ceiling <= chainHead /\ (ceiling <= StableHead(chainHead) \/ ceiling <= top)
    <3>1. ceiling = (IF chainHead < Forward(StableHead(chainHead), top)
                     THEN chainHead ELSE Forward(StableHead(chainHead), top))
      BY <1>4, <2>4 DEF ScanCeiling, Tip
    <3>2. Forward(StableHead(chainHead), top) = (IF top > StableHead(chainHead) THEN top ELSE StableHead(chainHead))
      BY DEF Forward
    <3> HIDE DEF ceiling, top
    <3> QED
      BY <1>2, <2>4, <3>1, <3>2
  <2>6. toBlock' = (IF ceiling > fromBlock' + CatchupPageSize - 1 THEN fromBlock' + CatchupPageSize - 1 ELSE ceiling)
        /\ pc' = IF toBlock' >= fromBlock' THEN "query" ELSE "cycle"
    BY <1>9, <2>1 DEF PlanScan
  <2>7. toBlock' <= ceiling /\ toBlock' \in Int
    <3> DEFINE page == fromBlock' + CatchupPageSize - 1
    <3>1. page \in Int
      BY <2>2, StreamAssumption
    <3>2. ceiling \in Nat
      BY <2>5
    <3>3. toBlock' = IF ceiling > page THEN page ELSE ceiling
      BY <2>6
    <3> HIDE DEF ceiling, page
    <3> QED
      BY <3>1, <3>2, <3>3
  <2>8. toBlock' <= chainHead /\ (toBlock' <= StableHead(chainHead) \/ toBlock' <= top)
    <3> HIDE DEF ceiling, top
    <3> QED
      BY <1>2, <2>4, <2>5, <2>7
  <2>9. pc' \in {"query", "dispatch"} => fromBlock' <= toBlock'
    <3> HIDE DEF ceiling
    <3> QED
      BY <2>2, <2>6, <2>7
  <2>10. Number(canonicalChain[1]) <= NotBelowZero(highestBlock + 1 - CheckpointBlockGap)
    BY DEF ViewInv
  <2>11. SteadyPage' =>
        /\ Run(headChain') /\ headChain' # <<>>
        /\ fromBlock' <= toBlock' /\ toBlock' <= chainHead' /\ chainHead' <= checkedHead'
        /\ toBlock' <= StableHead(chainHead') \/ toBlock' <= Number(Tip(headChain'))
        /\ Number(headChain'[1]) <= NotBelowZero(checkedHead' + 1 - CheckpointBlockGap)
    BY <1>4, <2>1, <2>4, <2>8, <2>9, <2>10
  <2>12. chainHead' <= highestBlock' /\ checkedHead' <= highestBlock'
    BY <1>2, <1>4, <2>1
  <2> QED
    BY <2>1, <2>2, <2>3, <2>11, <2>12 DEF StableHead, Tip
<1>10. CASE RangeQuery
  BY <1>4, <1>10 DEF RangeQuery, headVars, viewVars, markVars, pollVars, historyVars, StableHead, Tip
<1>11. CASE RangeQueryFailed
  BY <1>2, <1>4, <1>11 DEF RangeQueryFailed, EndCycle, headVars, viewVars, markVars, pollVars, historyVars
<1>12. CASE DispatchEvent
  BY <1>4, <1>12 DEF DispatchEvent, headVars, viewVars, StableHead, Tip
<1>13. CASE SteadyPageDone
  <2>1. /\ fromBlock <= toBlock /\ toBlock <= chainHead /\ chainHead <= highestBlock /\ fromBlock \in Nat
    BY <1>4, <1>13, FullFacts DEF SteadyPageDone
  <2>2. PageHWM \in Nat /\ PageHWM <= toBlock + 1
    BY <1>4, <1>13, PageHWMSettled DEF SteadyPageDone
  <2>3. /\ hwmBlock' = Forward(hwmBlock, PageHWM) /\ fromBlock' = toBlock + 1
        /\ polledChain' = polledChain \cup {b \in BlocksOf(headChain) : Number(b) \in fromBlock..toBlock}
        /\ chainHead' = 0 /\ pc' = "cycle" /\ ~catchup
        /\ UNCHANGED <<highestBlock, startBlock, checkedHead, catchup>>
    BY <1>4, <1>13 DEF SteadyPageDone, Advance, EndCycle, headVars, viewVars, historyVars
  <2>4. InReach(hwmBlock)' /\ InReach(fromBlock)'
    BY <1>2, <1>4, <2>1, <2>2, <2>3 DEF Forward
  <2>5. ASSUME NEW r \in polledChain' PROVE Number(r) < fromBlock'
    <3>1. CASE r \in polledChain
      <4>1. Number(r) < fromBlock /\ Number(r) \in Nat
        BY <1>2, <1>4, <2>3, <3>1
      <4> QED
        BY <1>2, <2>1, <2>3, <4>1
    <3>2. CASE Number(r) \in fromBlock..toBlock
      BY <1>2, <2>1, <2>3, <3>2
    <3> QED
      BY <2>3, <2>5, <3>1, <3>2
  <2> QED
    BY <1>2, <1>4, <2>3, <2>4, <2>5
<1>14. CASE CatchupPageDone
  <2>1. /\ hwmBlock' = Forward(hwmBlock, toBlock + 1) /\ toBlock <= highestBlock
        /\ UNCHANGED <<highestBlock, startBlock, checkedHead, catchup, fromBlock, polledChain>>
        /\ chainHead' = 0 /\ pc' = "cycle" /\ catchup
    BY <1>4, <1>14 DEF CatchupPageDone, EndCycle, headVars, viewVars, pollVars, historyVars
  <2> QED
    BY <1>2, <1>4, <2>1 DEF Forward
<1>15. CASE ListenersChange
  BY <1>4, <1>15 DEF ListenersChange, headVars, viewVars, markVars, pollVars, pageVars, historyVars, StableHead, Tip
<1>16. CASE StreamStops
  BY <1>4, <1>16 DEF StreamStops, headVars, viewVars, markVars, pollVars, pageVars, historyVars
<1>17. CASE ChainStep \/ PollStep \/ UNCHANGED vars
  <2>1. UNCHANGED streamVars
    BY <1>17 DEF ChainStep, PollStep, vars
  <2>2. UNCHANGED <<pc, catchup, hwmBlock, fromBlock, polledChain, chainHead, headChain, toBlock, startBlock, checkedHead>>
    BY <2>1 DEF streamVars, markVars, pollVars, pageVars, historyVars
  <2>3. InReach(hwmBlock)' /\ InReach(fromBlock)' /\ chainHead' <= highestBlock' /\ checkedHead' <= highestBlock'
    <3> DEFINE height == highestBlock'
    <3>1. highestBlock <= height /\ height \in Int
      BY <1>1, <1>3
    <3> HIDE DEF height
    <3>2. \A n \in Int : n <= highestBlock => n <= height
      BY <1>2, <3>1
    <3>3. \A n \in Int : InReach(n) => n <= height + 1 \/ n <= startBlock
      BY <1>2, <3>1
    <3>4. (hwmBlock <= height + 1 \/ hwmBlock <= startBlock) /\ (fromBlock <= height + 1 \/ fromBlock <= startBlock)
      BY <1>2, <1>4, <3>3
    <3>5. chainHead <= height /\ checkedHead <= height
      BY <1>2, <1>4, <3>2
    <3> QED
      BY <2>2, <3>4, <3>5 DEF height
  <2>4. catchup' /\ pc' \in {"query", "dispatch"} => toBlock' <= highestBlock'
    BY <1>1, <1>2, <1>3, <1>4, <2>2
  <2> QED
    BY <1>4, <2>2, <2>3, <2>4 DEF StableHead, Tip
<1> QED
  BY <1>5, <1>6, <1>7, <1>8, <1>9, <1>10, <1>11, <1>12, <1>13, <1>14, <1>15, <1>16, <1>17
     DEF FullStep, Next, StreamLoop

(* Above the settled block, a page has a block of the snapshot at every height. *)
LEMMA PageCovered ==
    ASSUME PositionInv, RangeInv, SteadyPage, NEW n \in fromBlock..toBlock, n > Number(settled)
    PROVE  \E r \in BlocksOf(headChain) : Number(r) = n
<1> DEFINE low == Number(headChain[1])
           top == Number(Tip(headChain))
           done == Number(settled)
<1>1. /\ Run(headChain) /\ headChain # <<>>
      /\ chainHead <= checkedHead /\ checkedHead <= highestBlock
      /\ toBlock <= StableHead(chainHead) \/ toBlock <= top
      /\ low <= NotBelowZero(checkedHead + 1 - CheckpointBlockGap)
  BY DEF RangeInv
<1>2. /\ low \in Nat /\ top \in Nat
      /\ \A m \in low..top : \E r \in BlocksOf(headChain) : Number(r) = m
  BY <1>1, EndsOfRun
<1>3. /\ done \in Nat /\ fromBlock \in Nat /\ toBlock \in Nat /\ checkedHead \in Nat /\ highestBlock \in Nat
      /\ highestBlock - MaxReorgDepth <= done
      /\ StableHead(chainHead) \in Nat /\ StableHead(chainHead) <= done
  BY FullFacts DEF SteadyPage
<1>4. n <= top
  <2> HIDE DEF top, done
  <2> QED
    BY <1>1, <1>2, <1>3 DEF done
<1>5. low <= n
  <2>1. checkedHead + 1 - CheckpointBlockGap <= done + 1
    <3> HIDE DEF done
    <3> QED
      BY <1>1, <1>3, HeadAssumption
  <2>2. NotBelowZero(checkedHead + 1 - CheckpointBlockGap) <= done + 1
    <3> HIDE DEF done
    <3> QED
      BY <1>3, <2>1, HeadAssumption DEF NotBelowZero
  <2>3. NotBelowZero(checkedHead + 1 - CheckpointBlockGap) \in Int
    BY <1>3, HeadAssumption DEF NotBelowZero
  <2>4. n \in Int /\ n >= done + 1
    BY <1>3
  <2> HIDE DEF low, done
  <2> QED
    BY <1>1, <1>2, <1>3, <2>2, <2>3, <2>4
<1>6. n \in low..top
  <2>1. n \in Int
    BY <1>3
  <2> HIDE DEF low, top
  <2> QED
    BY <1>2, <1>4, <1>5, <2>1
<1> QED
  BY <1>2, <1>6

LEMMA RecordsPreserved ==
    FullView /\ FullStep => RecordsInv'
<1> SUFFICES ASSUME FullView, FullStep PROVE RecordsInv'
  OBVIOUS
<1>1. /\ PositionInv /\ ViewInv /\ RangeInv /\ RecordsInv /\ ~LightMode
      /\ hwmBlock >= startBlock /\ SettledOrStart(hwmBlock)
  BY DEF FullView, FullStep, PositionInv, ScanInv
<1>2. /\ Number(settled) \in Nat /\ hwmBlock \in Nat /\ startBlock \in Nat /\ toBlock \in Nat
      /\ fromBlock \in Nat \cup {-1} /\ highestBlock \in Nat
      /\ highestBlock - MaxReorgDepth <= Number(settled)
  BY <1>1, FullFacts
<1>3. CASE fromBlock' = hwmBlock /\ UNCHANGED <<startBlock, settled>>
  BY <1>1, <1>2, <1>3 DEF RecordsInv, SettledOrStart
<1>4. CASE fromBlock' = -1 /\ UNCHANGED startBlock
  BY <1>2, <1>4 DEF RecordsInv
<1>5. CASE UNCHANGED <<fromBlock, polledChain, startBlock, settled>>
  BY <1>1, <1>5 DEF RecordsInv
<1>6. CASE PlanScan
  <2>1. /\ fromBlock \in Nat /\ fromBlock' \in Nat /\ fromBlock' <= fromBlock
        /\ polledChain' = {r \in InWindow(canonicalChain) : Number(r) < fromBlock'}
        /\ InWindow(canonicalChain) = {r \in polledChain : Number(r) >= Number(canonicalChain[1])}
    BY <1>1, <1>6, Rewound
  <2>2. UNCHANGED <<startBlock, settled>>
    BY <1>6 DEF PlanScan, headVars, historyVars
  <2>3. /\ Number(canonicalChain[1]) \in Nat
        /\ Number(canonicalChain[1]) <= NotBelowZero(highestBlock + 1 - CheckpointBlockGap)
    BY <1>1, EndsOfRun DEF ViewInv
  <2> SUFFICES ASSUME NEW n \in startBlock..(fromBlock' - 1), n > Number(settled)
               PROVE  \E r \in polledChain' : Number(r) = n
    BY <2>2 DEF RecordsInv
  <2>4. n \in startBlock..(fromBlock - 1) /\ n \in Nat /\ n < fromBlock'
    <3> DEFINE from == fromBlock'
    <3>1. from \in Nat /\ from <= fromBlock /\ fromBlock \in Nat /\ n \in startBlock..(from - 1)
      BY <2>1
    <3> HIDE DEF from
    <3>2. n \in startBlock..(fromBlock - 1) /\ n \in Nat /\ n < from
      BY <1>2, <3>1
    <3> QED
      BY <3>2 DEF from
  <2>5. PICK r \in polledChain : Number(r) = n
    BY <1>1, <2>4 DEF RecordsInv
  <2>6. NotBelowZero(highestBlock + 1 - CheckpointBlockGap) <= n
    BY <1>2, <2>4, HeadAssumption DEF NotBelowZero
  <2>7. NotBelowZero(highestBlock + 1 - CheckpointBlockGap) \in Int
    BY <1>2, HeadAssumption DEF NotBelowZero
  <2>8. Number(canonicalChain[1]) <= n
    BY <2>3, <2>4, <2>6, <2>7
  <2> QED
    BY <2>1, <2>4, <2>5, <2>8
<1>7. CASE SteadyPageDone
  <2>1. /\ fromBlock' = toBlock + 1 /\ SteadyPage /\ UNCHANGED <<startBlock, settled>>
        /\ polledChain' = polledChain \cup {b \in BlocksOf(headChain) : Number(b) \in fromBlock..toBlock}
    BY <1>1, <1>7 DEF SteadyPageDone, Advance, SteadyPage, headVars, historyVars
  <2> SUFFICES ASSUME NEW n \in startBlock..toBlock, n > Number(settled)
               PROVE  \E r \in polledChain' : Number(r) = n
    BY <1>2, <2>1 DEF RecordsInv
  <2>2. n \in startBlock..(fromBlock - 1) \/ n \in fromBlock..toBlock
    BY <1>2
  <2>3. CASE n \in startBlock..(fromBlock - 1)
    BY <1>1, <2>1, <2>3 DEF RecordsInv
  <2>4. CASE n \in fromBlock..toBlock
    BY <1>1, <2>1, <2>4, PageCovered
  <2> QED
    BY <2>2, <2>3, <2>4
<1>8. CASE ChainStep
  <2>1. Number(settled) <= Number(settled') /\ Number(settled') \in Nat
    <3>1. settled' \in Block
      BY PositionPreserved, <1>1 DEF FullStep, PositionInv, StreamTypeOK, TypeOK, HeadTypeOK
    <3> QED
      BY <1>1, <1>8, <3>1, FullFacts, ChainMovesSettles, PathOfBlock DEF ChainStep
  <2>2. UNCHANGED <<fromBlock, polledChain, startBlock>>
    BY <1>8 DEF ChainStep, streamVars, pollVars, historyVars
  <2> DEFINE before == Number(settled)
             after == Number(settled')
  <2>3. \A n \in Int : n > after => n > before
    <3>1. before \in Nat /\ after \in Nat /\ before <= after
      BY <1>2, <2>1
    <3> HIDE DEF before, after
    <3> QED
      BY <3>1
  <2>4. \A n \in startBlock..(fromBlock - 1) : n \in Int
    BY <1>2
  <2> QED
    BY <1>1, <2>2, <2>3, <2>4 DEF RecordsInv
<1>9. BeginCycle => fromBlock' = hwmBlock \/ UNCHANGED pollVars
  BY DEF BeginCycle, ResetPoll
<1> QED
  BY <1>3, <1>4, <1>5, <1>6, <1>7, <1>8, <1>9
     DEF FullStep, Next, StreamLoop, vars, streamVars, headVars, pollVars, historyVars, PreStartProcessing, CaughtUp,
         CatchupPage, BeginCycle, RangeQuery, RangeQueryFailed, DispatchEvent, CatchupPageDone, ListenersChange,
         StreamStops, PollStep, PollHead, PollLatestBlock, PollHeadNumber

LEMMA FullViewPreserved == FullView /\ FullStep => FullView'
<1> SUFFICES ASSUME FullView, FullStep PROVE FullView'
  OBVIOUS
<1>1. PositionInv /\ ViewInv /\ RangeInv /\ [Next]_vars
  BY DEF FullView, FullStep
<1> QED
  BY <1>1, PositionPreserved, ViewStep, RangePreserved, RecordsPreserved DEF FullView
-----------------------------------------------------------------------------
(* Full mode: what a page or a record misses is found by the next continuity check. *)

(* b replaced, since the last continuity check, the block that one of the records holds at its  *)
(* height; and the chain did not get ahead of what the next check looks at.                     *)
Replaces(b, records) ==
    /\ \E r \in records : Number(r) = Number(b) /\ r # b
    /\ Number(b) > checkedHead - MaxReorgDepth
    /\ Number(head) <= checkedHead + MaxLead

(* Below the scan position of the poll, what was not pushed replaces what was. *)
ScannedInv ==
    \A b \in BlocksOf(Path(head)) :
        Number(b) \in startBlock..(fromBlock - 1) => b \in delivered \/ Replaces(b, polledChain)

(* So it is with the range of the page in hand; what catchup reads is not replaced at all. *)
PageInv ==
    pc = "dispatch" =>
        \A b \in BlocksOf(Path(head)) :
            Number(b) \in fromBlock..toBlock /\ Number(b) >= hwmBlock =>
                b \in delivered \cup pending \/ (~catchup /\ Replaces(b, BlocksOf(headChain)))

FullInv == FullView /\ NothingLostBelowHWM /\ ScannedInv /\ PageInv

(* No re-org brings back a block that is recorded as polled, or that the page in hand scans.    *)
(* One that does hides what its own predecessor brought: the records then agree with the chain, *)
(* as if the blocks between had never been replaced by others.                                  *)
NoReturn ==
    Reorg => \A b \in BlocksOf(Path(head')) \ BlocksOf(Path(head)) : b \notin polledChain \cup BlocksOf(headChain)

LEMMA LeadIsBounded ==
    ASSUME ChainStep, NEW r \in polledChain \cup BlocksOf(headChain)
    PROVE  Number(head') <= checkedHead + MaxLead
<1>1. polledChain # {} \/ headChain # <<>>
  BY EmptyRun
<1> QED
  BY <1>1 DEF ChainStep

(* A block that comes in with a step of the chain replaces a record of its height. *)
LEMMA NewBlockReplaces ==
    ASSUME FullView, FullStep, NoReturn, ChainStep,
           NEW b \in BlocksOf(Path(head')), Number(b) <= highestBlock,
           NEW records \in SUBSET (polledChain \cup BlocksOf(headChain)),
           Number(b) > Number(settled) => \E r \in records : Number(r) = Number(b)
    PROVE  \/ b \in BlocksOf(Path(head))
           \/ /\ \E r \in records : Number(r) = Number(b) /\ r # b
              /\ Number(b) > checkedHead - MaxReorgDepth
              /\ Number(head') <= checkedHead + MaxLead
<1>1. /\ head \in Block /\ settled \in Block /\ Number(head) \in Nat /\ Number(settled) \in Nat
      /\ settled \in BlocksOf(Path(head)) /\ highestBlock - MaxReorgDepth <= Number(settled)
      /\ highestBlock \in Nat /\ checkedHead \in Nat /\ checkedHead <= highestBlock /\ highestBlock <= Number(head)
  BY FullFacts DEF FullView, RangeInv, ViewInv
<1>2. head' \in Block /\ ChainMoves /\ settled \in BlocksOf(Path(head'))
  <2>1. head' \in Block
    BY PositionPreserved DEF FullView, FullStep, PositionInv, StreamTypeOK, TypeOK, HeadTypeOK, NodeTypeOK
  <2> QED
    BY <2>1 DEF ChainStep, ChainMoves
<1>3. b \in Block /\ Number(b) \in Nat
  BY <1>2, PathOfBlock
<1>4. CASE Extend
  <2>1. head \in BlocksOf(Path(head')) /\ Number(b) <= Number(head)
    BY <1>1, <1>2, <1>3, <1>4, ParentOnPath DEF Extend
  <2> QED
    BY <1>2, <2>1, LowerOnPath
<1>5. CASE Reorg /\ b \notin BlocksOf(Path(head))
  <2>1. b \notin polledChain \cup BlocksOf(headChain)
    BY <1>5 DEF NoReturn
  <2>2. Number(b) > Number(settled)
    <3>1. CASE Number(b) <= Number(settled)
      <4>1. b \in BlocksOf(Path(settled))
        BY <1>2, <3>1, LowerOnPath
      <4> QED
        BY <1>1, <1>5, <4>1, OnPathTransitive
    <3> QED
      BY <1>1, <1>3, <3>1
  <2>3. PICK r \in records : Number(r) = Number(b)
    BY <2>2
  <2>4. r # b
    BY <2>1
  <2>5. Number(b) > checkedHead - MaxReorgDepth
    BY <1>1, <1>3, <2>2, HeadAssumption
  <2>6. Number(head') <= checkedHead + MaxLead
    BY <2>3, LeadIsBounded
  <2> QED
    BY <2>3, <2>4, <2>5, <2>6
<1> QED
  BY <1>2, <1>4, <1>5 DEF ChainMoves

(* What replaced a record before a step of the chain, and is still there, replaces it after. *)
LEMMA StillReplaces ==
    ASSUME ChainStep, NEW b, NEW records \in SUBSET (polledChain \cup BlocksOf(headChain)), Replaces(b, records)
    PROVE  /\ \E r \in records : Number(r) = Number(b) /\ r # b
           /\ Number(b) > checkedHead - MaxReorgDepth
           /\ Number(head') <= checkedHead + MaxLead
  BY LeadIsBounded DEF Replaces

(* Nothing in the page below its new high water mark is a replacement: it is settled. *)
LEMMA SettledIsNotReplaced ==
    ASSUME PositionInv, RangeInv, SteadyPage, ~LightMode, NEW b, Number(b) \in Nat, Number(b) < PageHWM, NEW records
    PROVE  ~Replaces(b, records)
<1>1. /\ chainHead \in Nat /\ checkedHead \in Nat /\ chainHead <= checkedHead /\ toBlock \in Nat
      /\ StableHead(chainHead) \in Nat
  BY FullFacts DEF RangeInv
<1>2. Number(b) < StableHead(chainHead)
  BY <1>1 DEF PageHWM
<1>3. Number(b) < chainHead - CheckpointBlockGap
  BY <1>1, <1>2, HeadAssumption DEF StableHead, NotBelowZero
<1>4. Number(b) < checkedHead - MaxReorgDepth
  BY <1>1, <1>3, HeadAssumption
<1> QED
  BY <1>1, <1>4, HeadAssumption DEF Replaces

LEMMA FullNothingLost ==
    FullInv /\ FullStep => NothingLostBelowHWM'
<1> SUFFICES ASSUME FullInv, FullStep PROVE NothingLostBelowHWM'
  OBVIOUS
<1>1. /\ PositionInv /\ RangeInv /\ ~LightMode /\ NothingLostBelowHWM /\ ScannedInv /\ PageInv
      /\ hwmBlock >= startBlock /\ SettledOrStart(hwmBlock)
  BY DEF FullInv, FullView, FullStep, PositionInv, ScanInv
<1>2. /\ head \in Block /\ settled \in Block /\ Number(settled) \in Nat /\ settled \in BlocksOf(Path(head))
      /\ hwmBlock \in Nat /\ startBlock \in Nat /\ toBlock \in Nat /\ fromBlock \in Nat \cup {-1}
      /\ \A b \in BlocksOf(Path(head)) : b \in Block /\ Number(b) \in Nat
  BY <1>1, FullFacts
<1>3. CASE UNCHANGED <<head, hwmBlock, startBlock>> /\ delivered \subseteq delivered'
  BY <1>1, <1>3 DEF NothingLostBelowHWM
<1>4. CASE SteadyPageDone
  <2>1. /\ pc = "dispatch" /\ pending = {} /\ SteadyPage /\ fromBlock \in Nat
        /\ hwmBlock' = Forward(hwmBlock, PageHWM) /\ UNCHANGED <<head, startBlock, delivered>>
    BY <1>1, <1>4, FullFacts DEF SteadyPageDone, SteadyPage, headVars, nodeVars, historyVars
  <2>2. PageHWM \in Nat /\ PageHWM <= toBlock + 1
    BY <1>1, <2>1, PageHWMSettled
  <2> SUFFICES ASSUME NEW b \in BlocksOf(Path(head)), Number(b) \in startBlock..(hwmBlock' - 1) PROVE b \in delivered
    BY <2>1 DEF NothingLostBelowHWM
  <2>3. Number(b) \in Nat /\ Number(b) >= startBlock /\ (Number(b) < hwmBlock \/ Number(b) < PageHWM)
    BY <1>2, <2>1, <2>2 DEF Forward
  <2>4. CASE Number(b) < hwmBlock
    BY <1>1, <1>2, <2>3, <2>4 DEF NothingLostBelowHWM
  <2>5. CASE Number(b) >= hwmBlock /\ Number(b) < PageHWM
    <3>1. \A records : ~Replaces(b, records)
      BY <1>1, <2>1, <2>3, <2>5, SettledIsNotReplaced
    <3>2. Number(b) \in startBlock..(fromBlock - 1) \/ Number(b) \in fromBlock..toBlock
      BY <1>2, <2>1, <2>2, <2>3, <2>5
    <3> QED
      BY <1>1, <2>1, <2>5, <3>1, <3>2 DEF ScannedInv, PageInv
  <2> QED
    BY <1>2, <2>3, <2>4, <2>5
<1>5. CASE CatchupPageDone
  <2>1. /\ pc = "dispatch" /\ pending = {} /\ catchup /\ fromBlock = hwmBlock
        /\ hwmBlock' = Forward(hwmBlock, toBlock + 1) /\ UNCHANGED <<head, startBlock, delivered>>
    BY <1>1, <1>5 DEF CatchupPageDone, RangeInv, headVars, nodeVars, historyVars
  <2> SUFFICES ASSUME NEW b \in BlocksOf(Path(head)), Number(b) \in startBlock..(hwmBlock' - 1) PROVE b \in delivered
    BY <2>1 DEF NothingLostBelowHWM
  <2>2. Number(b) \in Nat /\ Number(b) >= startBlock /\ (Number(b) < hwmBlock \/ Number(b) <= toBlock)
    BY <1>2, <2>1 DEF Forward
  <2>3. CASE Number(b) < hwmBlock
    BY <1>1, <1>2, <2>2, <2>3 DEF NothingLostBelowHWM
  <2>4. CASE Number(b) >= hwmBlock
    BY <1>1, <1>2, <2>1, <2>2, <2>4 DEF PageInv
  <2> QED
    BY <1>2, <2>2, <2>3, <2>4
<1>6. CASE ChainStep
  <2>1. /\ head' \in Block /\ settled \in BlocksOf(Path(head')) /\ UNCHANGED <<hwmBlock, startBlock, delivered>>
    BY <1>1, <1>6, PositionPreserved
       DEF FullStep, PositionInv, StreamTypeOK, TypeOK, HeadTypeOK, NodeTypeOK, ChainStep, ChainMoves, streamVars,
           markVars, historyVars
  <2> SUFFICES ASSUME NEW b \in BlocksOf(Path(head')), Number(b) \in startBlock..(hwmBlock - 1) PROVE b \in delivered
    BY <2>1 DEF NothingLostBelowHWM
  <2>2. b \in Block /\ Number(b) \in Nat
    BY <2>1, PathOfBlock
  <2>3. Number(b) <= Number(settled)
    BY <1>1, <1>2, <2>2 DEF SettledOrStart
  <2>4. b \in BlocksOf(Path(head))
    BY <1>2, <2>1, <2>3, LowerOnPath, OnPathTransitive
  <2> QED
    BY <1>1, <2>4 DEF NothingLostBelowHWM
<1> QED
  BY <1>3, <1>4, <1>5, <1>6
     DEF FullStep, Next, StreamLoop, vars, streamVars, headVars, nodeVars, markVars, historyVars, PreStartProcessing,
         CaughtUp, CatchupPage, BeginCycle, PlanScan, RangeQuery, RangeQueryFailed, DispatchEvent, ListenersChange,
         StreamStops, PollStep, PollHead, PollLatestBlock, PollHeadNumber

(* The continuity check: a block below the new scan position that was not pushed still replaces *)
(* a record.  Had the snapshot shown it, the scan would go back to it; and what the snapshot    *)
(* does not show is too young to be settled.                                                    *)
LEMMA CheckLeaves ==
    ASSUME FullInv, FullStep, PlanScan, MaxReorgDepth + MaxLead <= CheckpointBlockGap,
           NEW b \in BlocksOf(Path(head)), Number(b) \in startBlock..(fromBlock' - 1), b \notin delivered
    PROVE  /\ \E r \in polledChain' : Number(r) = Number(b) /\ r # b
           /\ Number(b) > highestBlock - MaxReorgDepth
           /\ Number(head) <= highestBlock + MaxLead
<1> DEFINE n == Number(b)
           c == canonicalChain
           from == fromBlock'
<1>1. /\ PositionInv /\ ViewInv /\ RangeInv /\ ScannedInv /\ ~LightMode
      /\ checkedHead <= highestBlock /\ InReach(fromBlock)
  BY DEF FullInv, FullView, FullStep, RangeInv
<1>2. /\ head \in Block /\ settled \in Block /\ Number(head) \in Nat /\ settled \in BlocksOf(Path(head))
      /\ startBlock \in Nat /\ highestBlock \in Nat /\ checkedHead \in Nat
      /\ b \in Block /\ n \in Nat
      /\ \A r \in polledChain : r \in Block /\ Number(r) \in Nat
  BY <1>1, FullFacts
<1>3. /\ fromBlock \in Nat /\ from \in Nat /\ from <= fromBlock
      /\ polledChain' = {r \in InWindow(c) : Number(r) < from}
      /\ InWindow(c) = {r \in polledChain : Number(r) >= Number(c[1])}
      /\ \A r \in Diverging(InWindow(c), c) : from <= Number(r)
  BY <1>1, Rewound
<1>4. /\ Run(c) /\ c # <<>> /\ highestBlock = Number(Tip(c)) /\ highestBlock <= Number(head)
      /\ Number(c[1]) <= NotBelowZero(highestBlock + 1 - CheckpointBlockGap) /\ Seen(Tip(c))
  BY <1>1 DEF ViewInv
<1>5. /\ Number(c[1]) \in Nat /\ Tip(c) \in Block /\ Len(c) \in Nat /\ Len(c) > 0
      /\ \A m \in Number(c[1])..highestBlock : \E v \in BlocksOf(c) : Number(v) = m
  BY <1>4, EndsOfRun
<1>6. n < from /\ n \in startBlock..(fromBlock - 1) /\ n <= highestBlock
  <2>1. n \in startBlock..(from - 1)
    OBVIOUS
  <2> HIDE DEF n, from
  <2>2. n < from /\ n \in startBlock..(fromBlock - 1)
    BY <1>2, <1>3, <2>1
  <2> QED
    BY <1>1, <1>2, <1>3, <2>2 DEF InReach
<1>7. Replaces(b, polledChain)
  BY <1>1, <1>6 DEF ScannedInv
<1>8. /\ n > checkedHead - MaxReorgDepth /\ Number(head) <= checkedHead + MaxLead
      /\ Number(head) <= highestBlock + MaxLead
  BY <1>1, <1>2, <1>7, StreamAssumption DEF Replaces
<1>9. PICK r \in polledChain : Number(r) = n /\ r # b
  BY <1>7 DEF Replaces
<1>10. n >= Number(c[1])
  <2>1. highestBlock + 1 - CheckpointBlockGap <= n
    <3> HIDE DEF n
    <3> QED
      BY <1>2, <1>4, <1>8, HeadAssumption, StreamAssumption
  <2>2. NotBelowZero(highestBlock + 1 - CheckpointBlockGap) <= n
    <3> HIDE DEF n
    <3> QED
      BY <1>2, <2>1 DEF NotBelowZero
  <2>3. NotBelowZero(highestBlock + 1 - CheckpointBlockGap) \in Int
    BY <1>2, HeadAssumption DEF NotBelowZero
  <2> HIDE DEF n
  <2> QED
    BY <1>2, <1>4, <1>5, <2>2, <2>3
<1>11. r \in InWindow(c) /\ r \in polledChain'
  BY <1>3, <1>6, <1>9, <1>10
<1>12. PICK v \in BlocksOf(c) : Number(v) = n
  <2>1. n \in Number(c[1])..highestBlock
    <3> HIDE DEF n
    <3> QED
      BY <1>2, <1>5, <1>6, <1>10
  <2> QED
    BY <1>5, <2>1
<1>13. v = r
  <2> SUFFICES ASSUME v # r PROVE FALSE
    OBVIOUS
  <2>1. r \in Diverging(InWindow(c), c)
    BY <1>9, <1>11, <1>12 DEF Diverging
  <2>2. from <= n
    BY <1>3, <1>9, <2>1
  <2> HIDE DEF n, from
  <2> QED
    BY <1>2, <1>3, <1>6, <2>2
<1>14. v \in BlocksOf(Path(Tip(c)))
  <2>1. PICK i \in 1..Len(c) : v = c[i]
    BY <1>4, <1>12, RunProperties
  <2>2. Len(c) \in 1..Len(c) /\ i \in 1..Len(c)
    BY <1>5
  <2> QED
    BY <1>4, <2>1, <2>2, RunOnPath DEF Tip
<1>15. n > highestBlock - MaxReorgDepth
  <2> SUFFICES ASSUME n + MaxReorgDepth <= highestBlock PROVE FALSE
    BY <1>2, HeadAssumption
  <2>1. v \in BlocksOf(Path(settled))
    BY <1>4, <1>12, <1>14 DEF Seen
  <2>2. v \in BlocksOf(Path(head))
    BY <1>2, <2>1, OnPathTransitive
  <2>3. v = b
    BY <1>2, <1>12, <2>2, OneBlockANumber
  <2> QED
    BY <1>9, <1>13, <2>3
<1> QED
  BY <1>8, <1>9, <1>11, <1>15

LEMMA FullScanned ==
    ASSUME FullInv, FullStep, NoReturn, MaxReorgDepth + MaxLead <= CheckpointBlockGap
    PROVE  ScannedInv'
<1>1. /\ FullView /\ PositionInv /\ RangeInv /\ RecordsInv /\ ~LightMode /\ NothingLostBelowHWM /\ ScannedInv /\ PageInv
  BY DEF FullInv, FullView, FullStep
<1>2. /\ hwmBlock \in Nat /\ startBlock \in Nat /\ toBlock \in Nat /\ fromBlock \in Nat \cup {-1}
      /\ highestBlock \in Nat /\ InReach(fromBlock)
      /\ \A b \in BlocksOf(Path(head)) : b \in Block /\ Number(b) \in Nat
  BY <1>1, FullFacts DEF RangeInv
<1>3. CASE fromBlock' = hwmBlock /\ UNCHANGED <<head, startBlock, delivered>>
  BY <1>1, <1>3 DEF ScannedInv, NothingLostBelowHWM
<1>4. CASE fromBlock' = -1 /\ UNCHANGED startBlock
  BY <1>2, <1>4 DEF ScannedInv
<1>5. CASE UNCHANGED <<head, fromBlock, polledChain, startBlock, checkedHead>> /\ delivered \subseteq delivered'
  BY <1>1, <1>5 DEF ScannedInv, Replaces
<1>6. CASE PlanScan
  <2>1. checkedHead' = highestBlock /\ UNCHANGED <<head, startBlock, delivered>>
    BY <1>6 DEF PlanScan, headVars, nodeVars, historyVars
  <2>2. ASSUME NEW b \in BlocksOf(Path(head)), Number(b) \in startBlock..(fromBlock' - 1), b \notin delivered
        PROVE  Replaces(b, polledChain)'
    BY <1>6, <2>1, <2>2, CheckLeaves DEF Replaces
  <2> QED
    BY <2>1, <2>2 DEF ScannedInv
<1>7. CASE SteadyPageDone
  <2>1. /\ pc = "dispatch" /\ pending = {} /\ fromBlock' = toBlock + 1 /\ fromBlock \in Nat
        /\ polledChain' = polledChain \cup {b \in BlocksOf(headChain) : Number(b) \in fromBlock..toBlock}
        /\ UNCHANGED <<head, startBlock, delivered, checkedHead>>
    BY <1>1, <1>7, FullFacts DEF SteadyPageDone, Advance, headVars, nodeVars, historyVars
  <2> SUFFICES ASSUME NEW b \in BlocksOf(Path(head)), Number(b) \in startBlock..toBlock, b \notin delivered
               PROVE  Replaces(b, polledChain')
    BY <1>2, <2>1 DEF ScannedInv, Replaces
  <2>2. CASE Number(b) < fromBlock
    <3>1. Number(b) \in startBlock..(fromBlock - 1)
      BY <1>2, <2>1, <2>2
    <3>2. Replaces(b, polledChain)
      BY <1>1, <3>1 DEF ScannedInv
    <3> QED
      BY <2>1, <3>2 DEF Replaces
  <2>3. CASE Number(b) >= fromBlock
    <3>1. Number(b) \in fromBlock..toBlock /\ Number(b) \in Nat
      BY <1>2, <2>1, <2>3
    <3>2. Number(b) >= hwmBlock
      BY <1>1, <1>2, <3>1 DEF NothingLostBelowHWM
    <3>3. Replaces(b, BlocksOf(headChain))
      BY <1>1, <2>1, <3>1, <3>2 DEF PageInv
    <3> QED
      BY <2>1, <3>1, <3>3 DEF Replaces
  <2> QED
    BY <1>2, <2>1, <2>2, <2>3
<1>8. CASE ChainStep
  <2>1. UNCHANGED <<fromBlock, polledChain, startBlock, delivered, checkedHead>>
    BY <1>8 DEF ChainStep, streamVars, pollVars, historyVars
  <2>2. head' \in Block
    BY <1>1, PositionPreserved DEF FullStep, PositionInv, StreamTypeOK, TypeOK, HeadTypeOK, NodeTypeOK
  <2>3. ASSUME NEW b \in BlocksOf(Path(head')), Number(b) \in startBlock..(fromBlock - 1), b \notin delivered
        PROVE  /\ \E r \in polledChain : Number(r) = Number(b) /\ r # b
               /\ Number(b) > checkedHead - MaxReorgDepth
               /\ Number(head') <= checkedHead + MaxLead
    <3>1. Number(b) \in Nat /\ Number(b) <= highestBlock
      BY <1>2, <2>2, <2>3, PathOfBlock DEF InReach
    <3>2. Number(b) > Number(settled) => \E r \in polledChain : Number(r) = Number(b)
      BY <1>1, <2>3 DEF RecordsInv
    <3>3. CASE b \in BlocksOf(Path(head))
      <4>1. Replaces(b, polledChain)
        BY <1>1, <2>3, <3>3 DEF ScannedInv
      <4> QED
        BY <1>8, <4>1, StillReplaces
    <3>4. CASE b \notin BlocksOf(Path(head))
      BY <1>1, <1>8, <3>1, <3>2, <3>4, NewBlockReplaces
    <3> QED
      BY <3>3, <3>4
  <2> QED
    BY <2>1, <2>3 DEF ScannedInv, Replaces
<1>9. BeginCycle => fromBlock' = hwmBlock \/ UNCHANGED pollVars
  BY DEF BeginCycle, ResetPoll
<1> QED
  BY <1>3, <1>4, <1>5, <1>6, <1>7, <1>8, <1>9
     DEF FullStep, Next, StreamLoop, vars, streamVars, headVars, nodeVars, pollVars, historyVars, PreStartProcessing,
         CaughtUp, CatchupPage, BeginCycle, RangeQuery, RangeQueryFailed, DispatchEvent, CatchupPageDone,
         ListenersChange, StreamStops, PollStep, PollHead, PollLatestBlock, PollHeadNumber

LEMMA FullPage ==
    ASSUME FullInv, FullStep, NoReturn
    PROVE  PageInv'
<1>1. /\ FullView /\ PositionInv /\ RangeInv /\ ~LightMode /\ PageInv
      /\ catchup /\ pc = "dispatch" => toBlock + 1 <= Number(settled)
  BY DEF FullInv, FullView, FullStep, PositionInv, ScanInv
<1>2. /\ head \in Block /\ settled \in Block /\ Number(settled) \in Nat /\ settled \in BlocksOf(Path(head))
      /\ hwmBlock \in Nat /\ toBlock \in Nat /\ chainHead \in Nat /\ highestBlock \in Nat
      /\ \A b \in BlocksOf(Path(head)) : b \in Block /\ Number(b) \in Nat
      /\ pending \subseteq Block
  BY <1>1, FullFacts
<1>3. CASE UNCHANGED <<head, catchup, fromBlock, toBlock, hwmBlock, pc, headChain, pending, delivered, checkedHead>>
  BY <1>1, <1>3 DEF PageInv, Replaces
<1>4. CASE pc' # "dispatch"
  BY <1>4 DEF PageInv
<1>5. CASE RangeQuery
  <2>1. /\ newLogs' = {b \in BlocksOf(Path(head)) : Number(b) \in fromBlock..toBlock}
        /\ pending' = {b \in newLogs' : Number(b) >= hwmBlock}
        /\ UNCHANGED <<head, fromBlock, toBlock, hwmBlock>>
    BY <1>1, <1>5 DEF RangeQuery, RangeLogs, headVars, nodeVars, markVars, pollVars
  <2> QED
    BY <2>1 DEF PageInv
<1>6. CASE DispatchEvent
  <2>1. /\ delivered' = delivered \cup {Lowest(pending)} /\ pending' = pending \ {Lowest(pending)} /\ pc = "dispatch"
        /\ UNCHANGED <<head, catchup, fromBlock, toBlock, hwmBlock, headChain, checkedHead>>
    BY <1>6 DEF DispatchEvent, headVars, nodeVars
  <2> QED
    BY <1>1, <2>1 DEF PageInv, Replaces
<1>7. CASE ChainStep /\ pc = "dispatch"
  <2>1. UNCHANGED <<catchup, fromBlock, toBlock, hwmBlock, pc, headChain, pending, delivered, checkedHead>>
    BY <1>7 DEF ChainStep, streamVars, markVars, pollVars, pageVars, historyVars
  <2>2. head' \in Block /\ settled \in BlocksOf(Path(head'))
    BY <1>1, <1>7, PositionPreserved
       DEF FullStep, PositionInv, StreamTypeOK, TypeOK, HeadTypeOK, NodeTypeOK, ChainStep, ChainMoves
  <2>3. fromBlock \in Nat /\ toBlock <= highestBlock
    BY <1>1, <1>2, <1>7, FullFacts DEF RangeInv, SteadyPage
  <2>4. ASSUME NEW b \in BlocksOf(Path(head')), Number(b) \in fromBlock..toBlock, Number(b) >= hwmBlock,
               b \notin delivered \cup pending
        PROVE  /\ ~catchup
               /\ \E r \in BlocksOf(headChain) : Number(r) = Number(b) /\ r # b
               /\ Number(b) > checkedHead - MaxReorgDepth
               /\ Number(head') <= checkedHead + MaxLead
    <3>1. Number(b) \in Nat /\ Number(b) <= highestBlock /\ Number(b) <= toBlock
      <4>1. Number(b) \in Nat
        BY <2>2, PathOfBlock
      <4> DEFINE n == Number(b)
      <4>2. n \in Nat /\ n \in fromBlock..toBlock
        BY <2>4, <4>1
      <4> HIDE DEF n
      <4>3. n <= toBlock /\ n <= highestBlock
        BY <1>2, <2>3, <4>2
      <4> QED
        BY <4>1, <4>3 DEF n
    <3>2. CASE b \in BlocksOf(Path(head))
      <4>1. ~catchup /\ Replaces(b, BlocksOf(headChain))
        BY <1>1, <1>7, <2>4, <3>2 DEF PageInv
      <4> QED
        BY <1>7, <4>1, StillReplaces
    <3>3. CASE b \notin BlocksOf(Path(head))
      <4>1. ~catchup
        <5> SUFFICES ASSUME catchup PROVE FALSE
          OBVIOUS
        <5>1. Number(b) <= Number(settled)
          BY <1>1, <1>2, <1>7, <3>1
        <5> QED
          BY <1>2, <2>2, <3>3, <5>1, LowerOnPath, OnPathTransitive
      <4>2. SteadyPage
        BY <1>7, <4>1 DEF SteadyPage
      <4>3. Number(b) > Number(settled) => \E r \in BlocksOf(headChain) : Number(r) = Number(b)
        BY <1>1, <2>4, <4>2, PageCovered
      <4> QED
        BY <1>1, <1>7, <3>1, <3>3, <4>1, <4>3, NewBlockReplaces
    <3> QED
      BY <3>2, <3>3
  <2> QED
    BY <2>1, <2>4 DEF PageInv, Replaces
<1> QED
  BY <1>3, <1>4, <1>5, <1>6, <1>7
     DEF FullStep, Next, StreamLoop, vars, streamVars, headVars, nodeVars, markVars, pollVars, pageVars, historyVars,
         PreStartProcessing, CaughtUp, CatchupPage, BeginCycle, PlanScan, RangeQueryFailed, EndCycle, SteadyPageDone,
         CatchupPageDone, ListenersChange, StreamStops, ChainStep, PollStep, PollHead, PollLatestBlock, PollHeadNumber

(* The full mode on nodes that are not behind one another, while the chain does not get ahead   *)
(* of the window in which the continuity check looks for a re-org.                              *)
WindowCoversReorgs == ~LightMode /\ ~NodesBehind /\ MaxReorgDepth + MaxLead <= CheckpointBlockGap

LEMMA FullInvariant == WindowCoversReorgs => (Spec /\ [][NoReturn]_vars => []FullInv)
<1> SUFFICES ASSUME WindowCoversReorgs PROVE Spec /\ [][NoReturn]_vars => []FullInv
  OBVIOUS
<1>1. Init => FullInv
  <2> SUFFICES ASSUME Init PROVE FullInv
    OBVIOUS
  <2>1. FullView
    BY PositionInitially, RangeInitially DEF FullView, WindowCoversReorgs
  <2>2. startBlock = hwmBlock /\ hwmBlock \in Nat /\ fromBlock = -1 /\ pc = "start"
    BY StreamAssumption DEF Init
  <2> QED
    BY <2>1, <2>2 DEF FullInv, NothingLostBelowHWM, ScannedInv, PageInv
<1>2. FullInv /\ [Next]_vars /\ [NoReturn]_vars => FullInv'
  <2> SUFFICES ASSUME FullInv, [Next]_vars, [NoReturn]_vars PROVE FullInv'
    OBVIOUS
  <2>1. FullStep
    BY DEF FullStep, WindowCoversReorgs
  <2>2. FullView /\ MaxReorgDepth + MaxLead <= CheckpointBlockGap
    BY DEF FullInv, WindowCoversReorgs
  <2>3. NoReturn
    <3>1. CASE UNCHANGED vars
      <4>1. Path(head') = Path(head)
        BY <3>1 DEF vars, headVars, nodeVars
      <4> QED
        BY <4>1 DEF NoReturn
    <3> QED
      BY <3>1
  <2> QED
    BY <2>1, <2>2, <2>3, FullViewPreserved, FullNothingLost, FullScanned, FullPage DEF FullInv
<1> QED
  BY <1>1, <1>2, PTL DEF Spec

(* In full mode, over any number of re-orgs that bring back no block a record or a page is      *)
(* holding, every event of the chain between the listener's first block and its scan position   *)
(* was pushed.                                                                                  *)
THEOREM FullLosesNothing == WindowCoversReorgs => (Spec /\ [][NoReturn]_vars => []NothingLostBelowHWM)
<1>1. FullInv => NothingLostBelowHWM
  BY DEF FullInv
<1> QED
  BY <1>1, FullInvariant, PTL

(* In full mode too the stream then keeps the promise of EventDetection. *)
THEOREM FullImplementsDetection == WindowCoversReorgs => (Spec /\ [][NoReturn]_vars => ImplementsDetection)
<1> SUFFICES ASSUME WindowCoversReorgs PROVE Spec /\ [][NoReturn]_vars => ImplementsDetection
  OBVIOUS
<1>1. Spec /\ [][NoReturn]_vars => []FullInv
  BY FullInvariant
<1>2. ASSUME FullInv PROVE PositionInv /\ SettledPushed
  <2>1. PositionInv /\ NothingLostBelowHWM
    BY <1>2 DEF FullInv, FullView
  <2>2. /\ head \in Block /\ settled \in Block /\ settled \in BlocksOf(Path(head))
        /\ hwmBlock \in Nat /\ startBlock \in Nat
    BY <2>1, FullFacts
  <2>3. ASSUME NEW b \in SettledBelow(hwmBlock), Number(b) >= startBlock PROVE b \in delivered
    <3>1. b \in BlocksOf(Path(settled)) /\ Number(b) < hwmBlock
      BY DEF SettledBelow
    <3>2. b \in BlocksOf(Path(head)) /\ Number(b) \in Nat
      BY <2>2, <3>1, OnPathTransitive, PathOfBlock
    <3>3. Number(b) \in startBlock..(hwmBlock - 1)
      BY <2>2, <2>3, <3>1, <3>2
    <3> QED
      BY <2>1, <3>2, <3>3 DEF NothingLostBelowHWM
  <2> QED
    BY <2>1, <2>3 DEF SettledPushed
<1> QED
  BY <1>1, <1>2, InitiallyDetects, StepDetects, PTL DEF Spec, ImplementsDetection, Detection!Spec
-----------------------------------------------------------------------------
(* Full mode with one re-org: there is no other fork for it to bring back. *)

(* Before the first re-org there is one chain. *)
OneChain ==
    reorgs = 0 => polledChain \cup BlocksOf(headChain) \cup BlocksOf(canonicalChain) \subseteq BlocksOf(Path(head))

LEMMA OneChainPreserved ==
    FullView /\ OneChain /\ FullStep => OneChain'
<1> SUFFICES ASSUME FullView, OneChain, FullStep, reorgs' = 0
             PROVE  polledChain' \cup BlocksOf(headChain') \cup BlocksOf(canonicalChain') \subseteq BlocksOf(Path(head'))
  BY DEF OneChain
<1>1. /\ PositionInv /\ ViewInv /\ HeadInv /\ ~LightMode /\ head \in Block /\ Number(head) \in Nat
      /\ reorgs \in Nat
  BY FullFacts, MaxReorgsAssumption DEF FullView, FullStep, PositionInv, StreamTypeOK, TypeOK, HeadTypeOK, NodeTypeOK
<1>2. CASE reorgs = 0 /\ head' = head /\ canonicalChain' = canonicalChain
            /\ BlocksOf(headChain') \subseteq BlocksOf(headChain) \cup BlocksOf(canonicalChain)
            /\ polledChain' \subseteq polledChain \cup BlocksOf(headChain)
  BY <1>2 DEF OneChain
<1>3. CASE ChainStep
  <2>1. Extend /\ reorgs = 0
    BY <1>1, <1>3 DEF ChainStep, ChainMoves, Extend, Reorg
  <2>2. head' \in Block /\ Parent(head') = head
    BY <2>1 DEF Extend
  <2>3. head \in BlocksOf(Path(head'))
    BY <1>1, <2>2, ParentOnPath
  <2>4. BlocksOf(Path(head)) \subseteq BlocksOf(Path(head'))
    BY <2>2, <2>3, OnPathTransitive
  <2>5. UNCHANGED <<polledChain, headChain, canonicalChain>>
    BY <1>3 DEF ChainStep, ChainMoves, viewVars, streamVars, pollVars, pageVars
  <2> QED
    BY <2>1, <2>4, <2>5 DEF OneChain
<1>4. CASE PollStep
  <2>1. PollLatestBlock /\ UNCHANGED <<polledChain, headChain, head, reorgs>>
    BY <1>1, <1>4
       DEF PollStep, PollHead, PollHeadNumber, PollLatestBlock, nodeVars, streamVars, pollVars, pageVars
  <2>2. BlocksOf(canonicalChain') \subseteq BlocksOf(canonicalChain) \cup BlocksOf(Path(head))
    BY <1>1, <2>1, ViewPolled
  <2> QED
    BY <2>1, <2>2 DEF OneChain
<1>5. CASE PlanScan
  <2>1. headChain' = canonicalChain /\ UNCHANGED <<head, reorgs, canonicalChain>>
    BY <1>1, <1>5 DEF PlanScan, headVars, nodeVars, viewVars
  <2>2. polledChain' \subseteq polledChain
    BY <1>1, <1>5, Rewound DEF FullView
  <2> QED
    BY <1>2, <2>1, <2>2
<1>6. CASE SteadyPageDone \/ CatchupPageDone \/ RangeQueryFailed
  <2>1. headChain' = <<>> /\ UNCHANGED <<head, reorgs, canonicalChain>>
        /\ polledChain' \subseteq polledChain \cup BlocksOf(headChain)
    BY <1>1, <1>6
       DEF SteadyPageDone, CatchupPageDone, RangeQueryFailed, EndCycle, Advance, headVars, nodeVars, viewVars, pollVars
  <2> QED
    BY <1>2, <2>1, EmptyRun
<1>7. CASE UNCHANGED <<head, reorgs, canonicalChain, headChain>> /\ polledChain' \in {{}, polledChain}
  BY <1>2, <1>7
<1> QED
  BY <1>3, <1>4, <1>5, <1>6, <1>7
     DEF FullStep, Next, StreamLoop, vars, headVars, nodeVars, viewVars, streamVars, pollVars, pageVars,
         PreStartProcessing, CaughtUp, CatchupPage, BeginCycle, ResetPoll, RangeQuery, DispatchEvent, ListenersChange,
         StreamStops

(* One re-org is no exception. *)
LEMMA OneReorgReturnsNothing ==
    WindowCoversReorgs /\ MaxReorgs <= 1 => (Spec => [][NoReturn]_vars)
<1> SUFFICES ASSUME WindowCoversReorgs, MaxReorgs <= 1 PROVE Spec => [][NoReturn]_vars
  OBVIOUS
<1> DEFINE I == FullView /\ OneChain
<1>1. Init => I
  <2> SUFFICES ASSUME Init PROVE I
    OBVIOUS
  <2>1. FullView
    BY PositionInitially, RangeInitially DEF FullView, WindowCoversReorgs
  <2>2. polledChain = {} /\ headChain = <<>> /\ BlocksOf(canonicalChain) \subseteq BlocksOf(Path(head))
    BY ViewInitially DEF Init, WindowCoversReorgs
  <2> QED
    BY <2>1, <2>2, EmptyRun DEF OneChain
<1>2. I /\ [Next]_vars => I'
  BY FullViewPreserved, OneChainPreserved DEF FullStep, WindowCoversReorgs
<1>3. I => [NoReturn]_vars
  <2> SUFFICES ASSUME FullView, OneChain, Reorg,
                      NEW b \in BlocksOf(Path(head')) \ BlocksOf(Path(head))
               PROVE  b \notin polledChain \cup BlocksOf(headChain)
    BY DEF NoReturn
  <2>1. reorgs = 0
    BY MaxReorgsAssumption DEF Reorg, FullView, PositionInv, StreamTypeOK, TypeOK, HeadTypeOK, NodeTypeOK
  <2> QED
    BY <2>1 DEF OneChain
<1> QED
  BY <1>1, <1>2, <1>3, PTL DEF Spec

(* In full mode, over one re-org, nothing the scan position has passed is lost: every event of  *)
(* the chain from the listener's first block up to it was pushed.                               *)
THEOREM OneReorgLosesNothing == WindowCoversReorgs /\ MaxReorgs <= 1 => (Spec => []NothingLostBelowHWM)
  BY OneReorgReturnsNothing, FullLosesNothing, PTL

(* In full mode, over one re-org, the stream implements EventDetection. *)
THEOREM OneReorgImplementsDetection == WindowCoversReorgs /\ MaxReorgs <= 1 => (Spec => ImplementsDetection)
  BY OneReorgReturnsNothing, FullImplementsDetection, PTL
=============================================================================
