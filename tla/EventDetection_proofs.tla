------------------------ MODULE EventDetection_proofs ------------------------
(***************************************************************************)
(* What EventDetection promises, in one formula: no event of a block that  *)
(* stays is ever behind the scan position without having been pushed.      *)
(***************************************************************************)
EXTENDS EventDetection, BlockTree_proofs

DetectionTypeOK ==
    /\ settled \in Block
    /\ start \in Nat \cup {-1}
    /\ position \in Nat \cup {-1}
    /\ detected \subseteq Block

(* A listener may start above the settled blocks, but only scans up to them. *)
ScansOnlySettled == position = start \/ position <= Number(settled) + 1

(* Nothing settled is lost: every event of a block that no re-org replaces any more, from the   *)
(* listener's first block up to its scan position, was pushed.                                  *)
NothingSettledIsLost == Behind(position) \subseteq detected

DetectionInv == DetectionTypeOK /\ ScansOnlySettled /\ NothingSettledIsLost

LEMMA DetectionInitially == Init => DetectionInv
<1> SUFFICES ASSUME Init PROVE DetectionInv
  OBVIOUS
<1>1. DetectionTypeOK /\ ScansOnlySettled
  BY DEF Init, DetectionTypeOK, ScansOnlySettled
<1>2. start..(position - 1) = {}
  BY DEF Init
<1> QED
  BY <1>1, <1>2 DEF DetectionInv, NothingSettledIsLost, Behind

(* When more blocks settle, those behind the position are still the same. *)
LEMMA DetectionPreserved == DetectionInv /\ [Next]_detectionVars => DetectionInv'
<1> SUFFICES ASSUME DetectionInv, [Next]_detectionVars PROVE DetectionInv'
  OBVIOUS
<1> USE DEF DetectionInv, DetectionTypeOK
<1>1. CASE Settle
  <2>1. /\ settled' \in Block /\ settled \in BlocksOf(Path(settled'))
        /\ start' = start /\ position' = position /\ detected' = detected
    BY <1>1 DEF Settle
  <2>2. Number(settled) <= Number(settled') /\ Number(settled) \in Nat /\ Number(settled') \in Nat
    BY <2>1, OnPath, PathOfBlock
  <2>3. ScansOnlySettled'
    BY <2>1, <2>2 DEF ScansOnlySettled
  <2>4. ASSUME NEW b \in Behind(position)' PROVE b \in detected
    <3>1. b \in BlocksOf(Path(settled')) /\ b \in EventBlocks /\ Number(b) \in start..(position - 1)
      BY <2>1, <2>4 DEF Behind
    <3>2. b \in Block /\ Number(b) \in Nat
      BY <2>1, <3>1, PathOfBlock
    <3>3. Number(b) <= Number(settled)
      BY <2>2, <3>1, <3>2 DEF ScansOnlySettled
    <3>4. b \in BlocksOf(Path(settled))
      BY <2>1, <3>1, <3>2, <3>3, SharedPath
    <3> QED
      BY <3>1, <3>4 DEF Behind, NothingSettledIsLost
  <2> QED
    BY <2>1, <2>3, <2>4 DEF NothingSettledIsLost
<1>2. CASE Begin
  <2>1. ScansOnlySettled' /\ DetectionTypeOK'
    BY <1>2 DEF Begin, ScansOnlySettled
  <2>2. start' \in Nat /\ position' = start'
    BY <1>2 DEF Begin
  <2>3. \A n \in Nat : n..(n - 1) = {}
    OBVIOUS
  <2>4. start'..(position' - 1) = {}
    BY <2>2, <2>3
  <2>5. Behind(position)' = {}
    BY <2>4 DEF Behind
  <2> QED
    BY <2>1, <2>5 DEF NothingSettledIsLost
<1>3. CASE Detect
  BY <1>3 DEF Detect, ScansOnlySettled, NothingSettledIsLost, Behind
<1>4. CASE Advance
  BY <1>4 DEF Advance, ScansOnlySettled, NothingSettledIsLost, Behind
<1>5. CASE UNCHANGED detectionVars
  BY <1>5 DEF detectionVars, ScansOnlySettled, NothingSettledIsLost, Behind
<1> QED
  BY <1>1, <1>2, <1>3, <1>4, <1>5 DEF Next

(* Whatever implements EventDetection loses no event of a block that stays, for any tree of      *)
(* blocks and any order of re-orgs, pushes and scans.                                           *)
THEOREM DetectionLosesNothing == Spec => []NothingSettledIsLost
<1>1. DetectionInv => NothingSettledIsLost
  BY DEF DetectionInv
<1> QED
  BY <1>1, DetectionInitially, DetectionPreserved, PTL DEF Spec
=============================================================================
