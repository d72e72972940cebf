------------------------- MODULE MonitoredHead_proofs -------------------------
(***************************************************************************)
(* Lemmas about the node and the block listener's view of it, for the      *)
(* modules that run next to them.                                          *)
(***************************************************************************)
EXTENDS MonitoredHead, BlockTree_proofs, FiniteSetTheorems

(* The settled block is on the node's chain, no deeper than a re-org reaches below the node's   *)
(* head, nor below any height that was ever reported.                                           *)
HeadIsSettled ==
    /\ settled \in BlocksOf(Path(head))
    /\ Number(head) - MaxReorgDepth <= Number(settled)
    /\ highestBlock - MaxReorgDepth <= Number(settled)
    /\ currentChainHead - MaxReorgDepth <= Number(settled)

HeadInv == HeadTypeOK /\ HeadIsSettled

-----------------------------------------------------------------------------
(* Types. *)

(* A segment of a sequence of blocks is one too. *)
LEMMA SegmentOfBlocks ==
    ASSUME NEW s \in Seq(Block), NEW m \in Nat, NEW n \in Nat, 1 <= m, n <= Len(s)
    PROVE  SubSeq(s, m, n) \in Seq(Block)
<1>1. \A i \in m..n : s[i] \in Block
  BY LenProperties, ElementOfSeq
<1> QED
  BY <1>1, SubSeqProperties

LEMMA IndicesAreFinite ==
    ASSUME NEW s \in Seq(Block), NEW I, I \subseteq DOMAIN s
    PROVE  IsFiniteSet(I) /\ Cardinality(I) \in 0..Len(s)
<1>1. DOMAIN s = 1..Len(s) /\ Len(s) \in Nat
  BY LenProperties
<1>2. IsFiniteSet(DOMAIN s) /\ Cardinality(DOMAIN s) = Len(s)
  <2>1. IsFiniteSet(1..Len(s)) /\ Cardinality(1..Len(s)) = IF 1 > Len(s) THEN 0 ELSE Len(s) - 1 + 1
    BY <1>1, FS_Interval
  <2> QED
    BY <1>1, <2>1
<1>3. IsFiniteSet(I) /\ Cardinality(I) <= Len(s)
  BY <1>2, FS_Subset
<1> QED
  BY <1>1, <1>3, FS_CardinalityType

LEMMA AnnounceType ==
    ASSUME NEW b \in Block, head \in Block, filterQueue \in Seq(Block), Announce(b)
    PROVE  filterQueue' \in Seq(Block)
<1> DEFINE shared == {i \in DOMAIN Path(b) : i \in DOMAIN Path(head) /\ Path(head)[i] = Path(b)[i]}
<1>1. Path(b) \in Seq(Block) /\ Len(Path(b)) \in Nat
  BY PathOfBlock
<1>2. Cardinality(shared) \in 0..Len(Path(b))
  BY <1>1, IndicesAreFinite
<1> HIDE DEF shared
<1>3. SubSeq(Path(b), Cardinality(shared) + 1, Len(Path(b))) \in Seq(Block)
  BY <1>1, <1>2, SegmentOfBlocks
<1>4. NewlyCanonical(head, b) \in Seq(Block)
  BY <1>3 DEF NewlyCanonical, shared
<1> QED
  BY <1>4, ConcatProperties DEF Announce

LEMMA ChainMovesType == HeadTypeOK /\ ChainMoves => HeadTypeOK'
<1> SUFFICES ASSUME HeadTypeOK, ChainMoves PROVE HeadTypeOK'
  OBVIOUS
<1> USE DEF HeadTypeOK, NodeTypeOK
<1>1. NodeTypeOK'
  <2>1. CASE Extend
    BY <2>1, AnnounceType DEF Extend
  <2>2. CASE Reorg
    BY <2>2, AnnounceType, MaxReorgsAssumption DEF Reorg
  <2> QED
    BY <2>1, <2>2 DEF ChainMoves
<1>2. settled' \in Block
  <2> DEFINE n == NotBelowZero(Number(head') - MaxReorgDepth)
  <2>1. head' \in Block
    BY <1>1
  <2>2. n + 1 \in DOMAIN Path(head')
    <3> DEFINE height == Number(head')
    <3>1. height \in Nat /\ DOMAIN Path(head') = 1..(height + 1)
      BY <2>1, PathOfBlock
    <3>2. n = NotBelowZero(height - MaxReorgDepth)
      OBVIOUS
    <3> HIDE DEF height, n
    <3> QED
      BY <3>1, <3>2, HeadAssumption DEF NotBelowZero
  <2>3. BlockAt(head', n) \in Block
    BY <2>1, <2>2, PathOfBlock DEF BlockAt
  <2> QED
    BY <2>3 DEF ChainMoves
<1> QED
  BY <1>1, <1>2 DEF ChainMoves, viewVars

LEMMA PollHeadType == HeadTypeOK /\ PollHead => HeadTypeOK'
<1> SUFFICES ASSUME HeadTypeOK, PollHead PROVE HeadTypeOK'
  OBVIOUS
<1> USE DEF HeadTypeOK, NodeTypeOK
<1> DEFINE c == canonicalChain
<1>1. /\ c \in Seq(Block) /\ Len(c) \in Nat /\ DOMAIN c = 1..Len(c) /\ \A i \in 1..Len(c) : c[i] \in Block
      /\ head \in Block /\ Number(head) \in Nat /\ Path(head) \in Seq(Block) /\ Len(Path(head)) = Number(head) + 1
  BY LenProperties, ElementOfSeq, PathOfBlock
<1>2. CASE PollHeadNumber
  BY <1>1, <1>2 DEF PollHeadNumber, nodeVars
<1>3. CASE PollLatestBlock
  <2>1. Below(head) \in 0..Len(c) /\ ValidOn(head) \in 0..Len(c)
    BY <1>1, IndicesAreFinite DEF Below, ValidOn
  <2>2. Reconciled(head) \in Seq(Block)
    <3>1. CASE head \in BlocksOf(c)
      BY <3>1 DEF Reconciled
    <3>2. CASE head \notin BlocksOf(c) /\ Below(head) = 0
      BY <1>1, <3>2 DEF Reconciled
    <3>3. CASE head \notin BlocksOf(c) /\ Below(head) > 0 /\ IsParentOf(c[Below(head)], head)
      <4> DEFINE t == Append(SubSeq(c, 1, Below(head)), head)
      <4>1. SubSeq(c, 1, Below(head)) \in Seq(Block)
        BY <1>1, <2>1, SegmentOfBlocks
      <4>2. t \in Seq(Block) /\ Len(t) \in Nat
        BY <1>1, <4>1, AppendProperties, LenProperties
      <4>3. TrimFront(t) \in Seq(Block)
        <5>1. CASE Len(t) > CheckpointBlockGap
          <6>1. Len(t) - CheckpointBlockGap + 1 \in Nat /\ 1 <= Len(t) - CheckpointBlockGap + 1
            BY <4>2, <5>1, HeadAssumption
          <6>2. SubSeq(t, Len(t) - CheckpointBlockGap + 1, Len(t)) \in Seq(Block)
            BY <4>2, <6>1, SegmentOfBlocks
          <6> QED
            BY <5>1, <6>2 DEF TrimFront
        <5>2. CASE ~(Len(t) > CheckpointBlockGap)
          BY <4>2, <5>2 DEF TrimFront
        <5> QED
          BY <5>1, <5>2
      <4> QED
        BY <3>3, <4>3 DEF Reconciled
    <3>4. CASE head \notin BlocksOf(c) /\ Below(head) > 0 /\ ~IsParentOf(c[Below(head)], head)
      <4> DEFINE from == Number(c[1]) + ValidOn(head)
      <4>1. Len(c) > 0
        BY <1>1, <2>1, <3>4
      <4>2. from \in Nat
        <5>1. c[1] \in Block
          BY <1>1, <4>1
        <5>2. Number(c[1]) \in Nat
          BY <5>1, PathOfBlock
        <5> QED
          BY <1>1, <2>1, <5>2
      <4>3. SubSeq(c, 1, ValidOn(head)) \in Seq(Block)
        BY <1>1, <2>1, SegmentOfBlocks
      <4>4. SubSeq(Path(head), from + 1, Number(head) + 1) \in Seq(Block)
        BY <1>1, <4>2, SegmentOfBlocks
      <4>5. Rebuilt(head) \in Seq(Block)
        BY <4>3, <4>4, ConcatProperties DEF Rebuilt
      <4> QED
        BY <3>4, <4>5 DEF Reconciled
    <3> QED
      BY <2>1, <3>1, <3>2, <3>3, <3>4
  <2> QED
    BY <1>1, <1>3, <2>2 DEF PollLatestBlock, nodeVars
<1> QED
  BY <1>2, <1>3 DEF PollHead

-----------------------------------------------------------------------------
(* The settled block. *)

LEMMA HeadInitially == HeadInit => HeadInv
<1> SUFFICES ASSUME HeadInit PROVE HeadInv
  OBVIOUS
<1> DEFINE n == NotBelowZero(Number(head) - MaxReorgDepth)
<1>1. /\ head \in Block /\ Number(head) \in Nat /\ Path(head) \in Seq(Block)
      /\ DOMAIN Path(head) = 1..(Number(head) + 1) /\ Len(Path(head)) = Number(head) + 1
      /\ \A i \in 1..(Number(head) + 1) : Path(head)[i] \in Block /\ Number(Path(head)[i]) = i - 1
  BY PathOfBlock DEF HeadInit, NodeInit
<1>2. n \in Nat /\ n + 1 \in 1..(Number(head) + 1) /\ Number(head) - MaxReorgDepth <= n
  BY <1>1, HeadAssumption DEF NotBelowZero
<1>3. settled = Path(head)[n + 1] /\ highestBlock = Number(head) /\ currentChainHead = 0
  BY <1>1, <1>2 DEF HeadInit, BlockAt
<1>4. settled \in Block /\ Number(settled) = n /\ settled \in BlocksOf(Path(head))
  BY <1>1, <1>2, <1>3 DEF BlocksOf
<1>5. HeadIsSettled
  BY <1>2, <1>3, <1>4, HeadAssumption DEF HeadIsSettled
<1>6. canonicalChain \in Seq(Block)
  <2> DEFINE k == NotBelowZero(Number(head) + 1 - CheckpointBlockGap) + 1
  <2>1. k \in Nat /\ 1 <= k
    BY <1>1, HeadAssumption DEF NotBelowZero
  <2>2. SubSeq(Path(head), k, Number(head) + 1) \in Seq(Block)
    BY <1>1, <2>1, SegmentOfBlocks
  <2>3. <<>> \in Seq(Block)
    BY EmptySeq
  <2> QED
    BY <2>2, <2>3 DEF HeadInit
<1>7. NodeTypeOK
  <2>1. <<>> \in Seq(Block) /\ 0 \in 0..MaxReorgs
    BY EmptySeq, MaxReorgsAssumption
  <2> QED
    BY <2>1 DEF HeadInit, NodeInit, NodeTypeOK
<1> QED
  BY <1>1, <1>3, <1>4, <1>5, <1>6, <1>7 DEF HeadInv, HeadTypeOK, HeadInit

(* The settled block only moves up the chain it is on. *)
LEMMA ChainMovesSettles ==
    HeadInv /\ ChainMoves =>
        HeadInv' /\ Number(settled) <= Number(settled') /\ settled \in BlocksOf(Path(settled'))
<1> SUFFICES ASSUME HeadInv, ChainMoves
             PROVE  HeadInv' /\ Number(settled) <= Number(settled') /\ settled \in BlocksOf(Path(settled'))
  OBVIOUS
<1> DEFINE n == NotBelowZero(Number(head') - MaxReorgDepth)
           newest == BlockAt(head', n)
<1>1. HeadTypeOK'
  BY ChainMovesType DEF HeadInv
<1>2. /\ head' \in Block /\ settled \in Block /\ settled' \in Block
      /\ Number(head') \in Nat /\ Number(settled) \in Nat
      /\ highestBlock \in Nat /\ highestBlock' = highestBlock
      /\ currentChainHead \in Nat /\ currentChainHead' = currentChainHead
  BY <1>1, PathOfBlock DEF HeadInv, HeadTypeOK, NodeTypeOK, ChainMoves, viewVars
<1>3. n \in Nat /\ n + 1 \in 1..(Number(head') + 1) /\ Number(head') - MaxReorgDepth <= n
  BY <1>2, HeadAssumption DEF NotBelowZero
<1>4. newest = Path(head')[n + 1] /\ newest \in Block /\ Number(newest) = n /\ newest \in BlocksOf(Path(head'))
  <2>1. /\ DOMAIN Path(head') = 1..(Number(head') + 1)
        /\ \A i \in 1..(Number(head') + 1) : Path(head')[i] \in Block /\ Number(Path(head')[i]) = i - 1
    BY <1>2, PathOfBlock
  <2>2. Path(head')[n + 1] \in Block /\ Number(Path(head')[n + 1]) = n + 1 - 1 /\ n + 1 - 1 = n
    BY <1>3, <2>1
  <2> QED
    BY <1>3, <2>1, <2>2 DEF BlockAt, BlocksOf
<1>5. settled \in BlocksOf(Path(head')) /\ settled' = IF Number(newest) > Number(settled) THEN newest ELSE settled
  BY DEF ChainMoves
<1>6. /\ settled' \in BlocksOf(Path(head')) /\ Number(settled) <= Number(settled')
      /\ n <= Number(settled')
  BY <1>2, <1>3, <1>4, <1>5
<1>7. settled \in BlocksOf(Path(settled'))
  BY <1>2, <1>5, <1>6, LowerOnPath
<1>8. HeadIsSettled'
  <2>1. /\ highestBlock - MaxReorgDepth <= Number(settled)
        /\ currentChainHead - MaxReorgDepth <= Number(settled)
    BY DEF HeadInv, HeadIsSettled
  <2>2. Number(settled') \in Nat /\ MaxReorgDepth \in Nat
    BY <1>2, PathOfBlock, HeadAssumption
  <2> QED
    BY <1>2, <1>3, <1>6, <2>1, <2>2 DEF HeadIsSettled
<1> QED
  BY <1>1, <1>6, <1>7, <1>8 DEF HeadInv

LEMMA PollHeadSettles == HeadInv /\ PollHead => HeadInv' /\ settled' = settled
<1> SUFFICES ASSUME HeadInv, PollHead PROVE HeadInv' /\ settled' = settled
  OBVIOUS
<1>1. HeadTypeOK'
  BY PollHeadType DEF HeadInv
<1>2. settled' = settled /\ head' = head
  BY DEF PollHead, PollLatestBlock, PollHeadNumber, nodeVars
<1>3. highestBlock' \in {highestBlock, Number(head)} /\ currentChainHead' \in {currentChainHead, Number(head)}
  BY DEF PollHead, PollLatestBlock, PollHeadNumber
<1> QED
  BY <1>1, <1>2, <1>3 DEF HeadInv, HeadIsSettled

LEMMA HeadUnchanged == HeadInv /\ UNCHANGED headVars => HeadInv' /\ settled' = settled
  BY DEF HeadInv, HeadTypeOK, NodeTypeOK, HeadIsSettled, headVars, nodeVars, viewVars

(* What lies checkpointBlockGap below a reported height is settled. *)
LEMMA GapIsSettled ==
    ASSUME settled \in Block, NEW height \in Int, height - MaxReorgDepth <= Number(settled)
    PROVE  /\ NotBelowZero(height - CheckpointBlockGap) \in Nat
           /\ NotBelowZero(height - CheckpointBlockGap) <= Number(settled)
  BY PathOfBlock, HeadAssumption DEF NotBelowZero

-----------------------------------------------------------------------------
(* The in-memory chain, against nodes that are not behind one another. *)

Tip(list) == list[Len(list)]

(* What lies a re-org's depth below b is settled: true of every block that was the head once. *)
Seen(b) ==
    \A c \in BlocksOf(Path(b)) : Number(c) + MaxReorgDepth <= Number(b) => c \in BlocksOf(Path(settled))

(* The list is a run of blocks that ends at the highest block, was once the end of the node's   *)
(* chain, and fills the monitored window.                                                       *)
ViewInv ==
    /\ Run(canonicalChain) /\ canonicalChain # <<>>
    /\ highestBlock = Number(Tip(canonicalChain)) /\ highestBlock <= Number(head)
    /\ Number(canonicalChain[1]) <= NotBelowZero(highestBlock + 1 - CheckpointBlockGap)
    /\ Seen(Tip(canonicalChain))

(* The ends of a run *)
LEMMA EndsOfRun ==
    ASSUME NEW s, Run(s), s # <<>>
    PROVE  /\ s[1] \in Block /\ Number(s[1]) \in Nat /\ s[1] \in BlocksOf(s)
           /\ Tip(s) \in Block /\ Number(Tip(s)) \in Nat /\ Tip(s) \in BlocksOf(s)
           /\ Number(Tip(s)) = Number(s[1]) + Len(s) - 1 /\ Len(s) \in Nat /\ Len(s) > 0
           /\ \A b \in BlocksOf(s) : b \in Block /\ Number(b) \in Number(s[1])..Number(Tip(s))
           /\ \A n \in Number(s[1])..Number(Tip(s)) : \E b \in BlocksOf(s) : Number(b) = n
<1>1. /\ Len(s) \in Nat /\ Len(s) > 0 /\ BlocksOf(s) = {s[i] : i \in 1..Len(s)}
      /\ \A i \in 1..Len(s) : s[i] \in Block /\ Number(s[i]) \in Nat
      /\ \A i \in 1..Len(s) : Number(s[i]) = Number(s[1]) + i - 1
  BY RunProperties
<1>2. 1 \in 1..Len(s) /\ Len(s) \in 1..Len(s)
  BY <1>1
<1>3. /\ s[1] \in Block /\ Number(s[1]) \in Nat /\ s[1] \in BlocksOf(s)
      /\ Tip(s) \in Block /\ Number(Tip(s)) \in Nat /\ Tip(s) \in BlocksOf(s)
      /\ Number(Tip(s)) = Number(s[1]) + Len(s) - 1
  BY <1>1, <1>2 DEF Tip
<1> DEFINE low == Number(s[1])
           high == Number(Tip(s))
           l == Len(s)
<1>6. low \in Nat /\ high \in Nat /\ l \in Nat /\ high = low + l - 1
  BY <1>1, <1>3
<1>4. ASSUME NEW b \in BlocksOf(s) PROVE b \in Block /\ Number(b) \in low..high
  <2>1. PICK i \in 1..Len(s) : b = s[i]
    BY <1>1
  <2>2. Number(s[i]) = low + i - 1 /\ s[i] \in Block
    BY <1>1
  <2>3. i \in 1..l
    OBVIOUS
  <2> HIDE DEF low, high, l
  <2> QED
    BY <1>6, <2>1, <2>2, <2>3
<1>5. ASSUME NEW n \in low..high PROVE \E b \in BlocksOf(s) : Number(b) = n
  <2>1. n - low + 1 \in 1..l /\ low + (n - low + 1) - 1 = n
    <3> HIDE DEF low, high, l
    <3> QED
      BY <1>6
  <2>2. s[n - low + 1] \in BlocksOf(s) /\ Number(s[n - low + 1]) = low + (n - low + 1) - 1
    BY <1>1, <2>1
  <2> QED
    BY <2>1, <2>2
<1> QED
  BY <1>1, <1>3, <1>4, <1>5

(* The head was seen, by itself. *)
LEMMA HeadSeen == HeadInv => Seen(head)
<1> SUFFICES ASSUME HeadInv, NEW c \in BlocksOf(Path(head)), Number(c) + MaxReorgDepth <= Number(head)
             PROVE  c \in BlocksOf(Path(settled))
  BY DEF Seen
<1>1. head \in Block /\ settled \in BlocksOf(Path(head)) /\ Number(head) - MaxReorgDepth <= Number(settled)
  BY DEF HeadInv, HeadTypeOK, NodeTypeOK, HeadIsSettled
<1>2. c \in Block /\ Number(c) \in Nat /\ settled \in Block /\ Number(settled) \in Nat /\ Number(head) \in Nat
  BY <1>1, PathOfBlock
<1>3. Number(c) <= Number(settled)
  BY <1>1, <1>2, HeadAssumption
<1> QED
  BY <1>1, <1>3, LowerOnPath

LEMMA ViewInitially ==
    HeadInit /\ ~LightMode => ViewInv /\ BlocksOf(canonicalChain) \subseteq BlocksOf(Path(head))
<1> SUFFICES ASSUME HeadInit, ~LightMode
             PROVE  ViewInv /\ BlocksOf(canonicalChain) \subseteq BlocksOf(Path(head))
  OBVIOUS
<1> DEFINE p == Path(head)
           k == NotBelowZero(Number(head) + 1 - CheckpointBlockGap) + 1
           l == Number(head) + 1
<1>1. /\ head \in Block /\ Number(head) \in Nat /\ Run(p) /\ Len(p) = l /\ p[l] = head
      /\ \A i \in 1..l : Number(p[i]) = i - 1
  BY PathOfBlock, PathIsRun DEF HeadInit, NodeInit
<1>2. HeadInv
  BY HeadInitially
<1>3. k \in 1..l
  BY <1>1, HeadAssumption DEF NotBelowZero
<1>4. highestBlock = Number(head) /\ canonicalChain = SubSeq(p, k, l)
  BY DEF HeadInit
<1> DEFINE c == SubSeq(p, k, l)
<1> HIDE DEF p, k
<1>5. k \in 1..(Len(p) + 1) /\ l \in (k - 1)..Len(p)
  BY <1>1, <1>3
<1>6. /\ Run(c) /\ Len(c) = l - k + 1 /\ \A i \in 1..(l - k + 1) : c[i] = p[k + i - 1]
      /\ BlocksOf(c) \subseteq BlocksOf(p)
  BY <1>1, <1>5, SegmentOfRun
<1>7. l - k + 1 \in 1..(l - k + 1) /\ 1 \in 1..(l - k + 1) /\ k + (l - k + 1) - 1 = l /\ k + 1 - 1 = k
  BY <1>1, <1>3
<1>8. Tip(c) = head /\ c[1] = p[k]
  <2> HIDE DEF c
  <2> QED
    BY <1>1, <1>6, <1>7 DEF Tip
<1>9. c # <<>>
  <2> HIDE DEF c
  <2> QED
    BY <1>1, <1>3, <1>6, EmptySeq
<1>10. Number(c[1]) <= NotBelowZero(Number(head) + 1 - CheckpointBlockGap)
  <2>1. Number(p[k]) = k - 1
    BY <1>1, <1>3
  <2> HIDE DEF c
  <2> QED
    BY <1>1, <1>8, <2>1, HeadAssumption DEF k, NotBelowZero
<1>11. canonicalChain = c
  BY <1>4
<1> HIDE DEF c
<1>12. Seen(head)
  BY <1>2, HeadSeen
<1>13. Run(canonicalChain) /\ canonicalChain # <<>> /\ Seen(Tip(canonicalChain))
  BY <1>6, <1>8, <1>9, <1>11, <1>12
<1>14. highestBlock = Number(Tip(canonicalChain)) /\ highestBlock <= Number(head)
  <2>1. Tip(canonicalChain) = head
    BY <1>8, <1>11
  <2>2. highestBlock = Number(head) /\ Number(head) \in Nat
    BY <1>1, <1>4
  <2> QED
    BY <2>1, <2>2
<1>15. Number(canonicalChain[1]) <= NotBelowZero(highestBlock + 1 - CheckpointBlockGap)
  BY <1>4, <1>10, <1>11
<1>16. BlocksOf(canonicalChain) \subseteq BlocksOf(Path(head))
  BY <1>6, <1>11 DEF p
<1> QED
  BY <1>13, <1>14, <1>15, <1>16 DEF ViewInv

(* A poll leaves the list at the node's head, and adds nothing but blocks of the node's chain. *)
LEMMA ViewPolled ==
    ASSUME HeadInv, ViewInv, PollLatestBlock
    PROVE  /\ ViewInv' /\ Tip(canonicalChain') = head /\ highestBlock <= highestBlock'
           /\ BlocksOf(canonicalChain') \subseteq BlocksOf(canonicalChain) \cup BlocksOf(Path(head))
<1> DEFINE c == canonicalChain
           new == canonicalChain'
           k == Below(head)
<1>1. /\ head \in Block /\ Number(head) \in Nat /\ highestBlock \in Nat /\ highestBlock <= Number(head)
      /\ Run(c) /\ c # <<>> /\ highestBlock = Number(Tip(c))
      /\ Number(c[1]) <= NotBelowZero(highestBlock + 1 - CheckpointBlockGap)
  BY PathOfBlock DEF HeadInv, HeadTypeOK, NodeTypeOK, ViewInv
<1>2. new = Reconciled(head) /\ highestBlock' = Number(head) /\ UNCHANGED <<head, settled>>
  <2>1. highestBlock' = (IF Number(head) > highestBlock THEN Number(head) ELSE highestBlock)
    BY DEF PollLatestBlock
  <2> QED
    BY <1>1, <2>1 DEF PollLatestBlock, nodeVars
<1>3. k \in 0..Len(c) /\ \A i \in 1..Len(c) : i <= k <=> Number(c[i]) < Number(head)
  BY <1>1, NumberedBelowFirst DEF Below
<1>4. c[1] \in Block /\ Number(c[1]) \in Nat /\ Tip(c) \in BlocksOf(c) /\ Len(c) \in Nat /\ 1 \in 1..Len(c)
      /\ \A b \in BlocksOf(c) : Number(b) \in Number(c[1])..Number(Tip(c))
  BY <1>1, EndsOfRun
<1> DEFINE Fills == Number(new[1]) <= NotBelowZero(Number(head) + 1 - CheckpointBlockGap)
           Adds == BlocksOf(new) \subseteq BlocksOf(c) \cup BlocksOf(Path(head))
<1>5. Number(c[1]) <= NotBelowZero(Number(head) + 1 - CheckpointBlockGap)
  BY <1>1, <1>4, HeadAssumption DEF NotBelowZero
<1>6. head \in BlocksOf(Path(head)) /\ BlocksOf(<<head>>) = {head}
  BY <1>1, PathOfBlock, SingletonRun
<1>7. Run(new) /\ new # <<>> /\ Tip(new) = head /\ Fills /\ Adds
  <2>1. CASE head \in BlocksOf(c)
    <3>1. new = c
      BY <1>2, <2>1 DEF Reconciled
    <3>2. Number(head) = Number(Tip(c))
      BY <1>1, <1>4, <2>1
    <3>3. head = Tip(c)
      BY <1>1, <1>4, <2>1, <3>2, OnePerNumber
    <3> QED
      BY <1>1, <1>5, <3>1, <3>3
  <2>2. CASE head \notin BlocksOf(c) /\ k = 0
    <3>1. new = <<head>>
      BY <1>2, <2>2 DEF Reconciled
    <3>2. Number(head) <= Number(c[1])
      BY <1>1, <1>3, <1>4, <2>2
    <3>3. Run(<<head>>) /\ Len(<<head>>) = 1 /\ <<head>> # <<>> /\ <<head>>[1] = head
      BY <1>1, SingletonRun
    <3>4. Number(head) <= NotBelowZero(Number(head) + 1 - CheckpointBlockGap)
      BY <1>1, <1>4, <1>5, <3>2, HeadAssumption DEF NotBelowZero
    <3> QED
      BY <1>6, <3>1, <3>3, <3>4 DEF Tip
  <2>3. CASE head \notin BlocksOf(c) /\ k > 0 /\ IsParentOf(c[k], head)
    <3> DEFINE W == CheckpointBlockGap
               s == Shortened(Continued(c, k, head), W)
    <3>1. new = s
      <4>1. new = TrimFront(Append(SubSeq(c, 1, k), head))
        BY <1>2, <2>3 DEF Reconciled
      <4>2. TrimFront(Append(SubSeq(c, 1, k), head)) = s
        BY DEF TrimFront, Shortened, Continued
      <4> QED
        BY <4>1, <4>2
    <3>2. k \in 1..Len(c) /\ CheckpointBlockGap \in Nat \ {0}
      BY <1>3, <2>3, HeadAssumption
    <3>3. /\ Run(s) /\ s # <<>> /\ BlocksOf(s) \subseteq BlocksOf(c) \cup {head} /\ head \in BlocksOf(s)
          /\ s[Len(s)] = head
          /\ s[1] = c[1] \/ (Number(s[1]) = Number(head) + 1 - W /\ s[1] \in BlocksOf(Path(head)))
          /\ \A i \in 1..k : c[i] \in BlocksOf(s) \/ Number(c[i]) < Number(s[1])
      <4> HIDE DEF k
      <4> QED
        BY <1>1, <2>3, <3>2, ExtendedRun, Zenon
    <3>4. Number(s[1]) <= NotBelowZero(Number(head) + 1 - CheckpointBlockGap)
      BY <1>1, <1>4, <1>5, <3>2, <3>3 DEF NotBelowZero
    <3> HIDE DEF s
    <3> QED
      BY <1>6, <3>1, <3>3, <3>4 DEF Tip
  <2>4. CASE head \notin BlocksOf(c) /\ k > 0 /\ ~IsParentOf(c[k], head)
    <3>1. new = Rebuilt(head)
      BY <1>2, <2>4 DEF Reconciled
    <3>2. Number(c[1]) <= Number(head)
      BY <1>1, <1>3, <1>4, <2>4
    <3> DEFINE v == Cardinality({i \in DOMAIN c : c[i] \in BlocksOf(Path(head))})
               s == SubSeq(c, 1, v) \o SubSeq(Path(head), Number(c[1]) + v + 1, Number(head) + 1)
    <3>3. /\ Run(s) /\ s # <<>> /\ BlocksOf(s) \subseteq BlocksOf(Path(head))
          /\ Number(s[1]) = Number(c[1]) /\ s[Len(s)] = head
          /\ c[1] \in BlocksOf(Path(head)) => v > 0
      BY <1>1, <3>2, SplicedRun, Zenon
    <3>4. new = s
      BY <3>1 DEF Rebuilt, ValidOn
    <3> HIDE DEF s
    <3> QED
      BY <1>5, <3>3, <3>4 DEF Tip
  <2> QED
    BY <1>3, <2>1, <2>2, <2>3, <2>4
<1>8. Seen(head)' /\ Seen(head)
  BY <1>2, HeadSeen DEF Seen
<1> QED
  BY <1>1, <1>2, <1>7, <1>8 DEF ViewInv, Tip, Seen

(* When the chain moves, the list stays behind it. *)
LEMMA ViewKept ==
    ASSUME HeadInv, ViewInv, ~NodesBehind, ChainMoves
    PROVE  ViewInv' /\ Number(head) <= Number(head')
<1>1. /\ head \in Block /\ head' \in Block /\ Number(head) \in Nat /\ Number(head') \in Nat
      /\ settled \in Block /\ settled' \in Block /\ settled \in BlocksOf(Path(settled'))
      /\ highestBlock \in Nat
  BY ChainMovesSettles, PathOfBlock DEF HeadInv, HeadTypeOK, NodeTypeOK
<1>2. Number(head) <= Number(head')
  <2>1. CASE Extend
    <3>1. Number(head') = Number(head) + 1
      BY <1>1, <2>1, ParentOnPath DEF Extend
    <3> QED
      BY <1>1, <3>1
  <2>2. CASE ~Extend
    BY <1>1, <2>2 DEF ChainMoves
  <2> QED
    BY <2>1, <2>2
<1>3. UNCHANGED <<canonicalChain, highestBlock>>
  BY DEF ChainMoves, viewVars
<1>4. ASSUME NEW b, Seen(b) PROVE Seen(b)'
  <2>1. ASSUME NEW c \in BlocksOf(Path(settled)) PROVE c \in BlocksOf(Path(settled'))
    BY <1>1, OnPathTransitive
  <2> QED
    BY <1>4, <2>1 DEF Seen
<1>5. Seen(Tip(canonicalChain))'
  BY <1>3, <1>4 DEF ViewInv, Seen, Tip
<1> QED
  BY <1>1, <1>2, <1>3, <1>5 DEF ViewInv, Tip
=============================================================================
