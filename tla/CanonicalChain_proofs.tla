----------------------- MODULE CanonicalChain_proofs -----------------------
(***************************************************************************)
(* Theorems about CanonicalChain, for every block tree and configuration.  *)
(***************************************************************************)
EXTENDS CanonicalChain, BlockTree_proofs, FiniteSetTheorems

-----------------------------------------------------------------------------
(* Lemmas about runs of blocks, and what the node announces. *)

(* The blocks of a run from the number of block b on are a segment of it. *)
LEMMA RunFrom ==
    ASSUME NEW s, Run(s), NEW b \in Block
    PROVE  /\ Run(From(s, b))
           /\ BlocksOf(From(s, b)) = {c \in BlocksOf(s) : Number(c) >= Number(b)}
<1> DEFINE before == {i \in DOMAIN s : Number(s[i]) < Number(b)}
           k == Cardinality(before)
           t == SubSeq(s, k + 1, Len(s))
<1>1. /\ s \in Seq(Block) /\ Len(s) \in Nat /\ DOMAIN s = 1..Len(s)
      /\ \A i \in 1..Len(s) : s[i] \in Block /\ Number(s[i]) \in Nat
      /\ \A i \in 1..Len(s) : Number(s[i]) = Number(s[1]) + i - 1
      /\ Number(b) \in Nat
  BY LenProperties, ElementOfSeq, BlockTreeAssumption DEF Run, Contiguous
<1>2. \E n \in 0..Len(s) : before = 1..n
  <2>1. CASE Len(s) = 0
    BY <1>1, <2>1
  <2>2. CASE Len(s) > 0 /\ Number(b) <= Number(s[1])
    <3>1. before = 1..0
      BY <1>1, <2>2
    <3> QED
      BY <1>1, <3>1
  <2>3. CASE Len(s) > 0 /\ Number(b) > Number(s[1]) + Len(s) - 1
    <3>1. before = 1..Len(s)
      BY <1>1, <2>3
    <3> QED
      BY <1>1, <3>1, SMTT(30)
  <2>4. CASE Len(s) > 0 /\ Number(b) > Number(s[1]) /\ Number(b) <= Number(s[1]) + Len(s) - 1
    <3>1. Number(s[1]) \in Nat
      BY <1>1, <2>4
    <3>2. Number(b) - Number(s[1]) \in 0..Len(s)
      BY <1>1, <2>4, <3>1
    <3>3. before = 1..(Number(b) - Number(s[1]))
      BY <1>1, <2>4, <3>1
    <3> QED
      BY <3>2, <3>3
  <2>5. Len(s) > 0 => Number(s[1]) \in Nat
    BY <1>1
  <2> HIDE DEF before
  <2> QED
    BY <1>1, <2>1, <2>2, <2>3, <2>4, <2>5
<1> HIDE DEF before
<1>3. PICK n \in 0..Len(s) : before = 1..n
  BY <1>2
<1>4. k = n
  <2>1. Cardinality(1..n) = n
    BY <1>1, FS_Interval
  <2> QED
    BY <1>3, <2>1
<1> HIDE DEF k
<1>5. /\ Run(t)
      /\ Len(t) = Len(s) - n
      /\ \A i \in 1..(Len(s) - n) : t[i] = s[n + i]
  <2>1. k + 1 \in 1..(Len(s) + 1) /\ Len(s) \in ((k + 1) - 1)..Len(s)
    BY <1>1, <1>4
  <2>2. /\ Run(t)
        /\ Len(t) = Len(s) - (k + 1) + 1
        /\ \A i \in 1..(Len(s) - (k + 1) + 1) : t[i] = s[(k + 1) + i - 1]
    BY <2>1, SegmentOfRun
  <2>3. Len(s) - (k + 1) + 1 = Len(s) - n
    BY <1>1, <1>4
  <2>4. ASSUME NEW i \in 1..(Len(s) - n) PROVE t[i] = s[n + i]
    <3>1. i \in 1..(Len(s) - (k + 1) + 1)
      BY <2>3
    <3>2. t[i] = s[(k + 1) + i - 1]
      BY <2>2, <3>1
    <3>3. (k + 1) + i - 1 = n + i
      BY <1>1, <1>4
    <3> QED
      BY <3>2, <3>3
  <2> QED
    BY <2>2, <2>3, <2>4
<1> HIDE DEF t
<1>6. DOMAIN t = 1..(Len(s) - n)
  BY <1>5, LenProperties DEF Run
<1>7. BlocksOf(t) = {s[i] : i \in (n + 1)..Len(s)}
  <2>1. BlocksOf(t) \subseteq {s[i] : i \in (n + 1)..Len(s)}
    BY <1>1, <1>5, <1>6, SMTT(30) DEF BlocksOf
  <2>2. ASSUME NEW i \in (n + 1)..Len(s) PROVE s[i] \in BlocksOf(t)
    <3>1. i - n \in 1..(Len(s) - n) /\ t[i - n] = s[i]
      BY <1>1, <1>5, <2>2
    <3> QED
      BY <1>6, <3>1 DEF BlocksOf
  <2> QED
    BY <2>1, <2>2
<1>8. \A i \in 1..Len(s) : i \in (n + 1)..Len(s) <=> Number(s[i]) >= Number(b)
  BY <1>1, <1>3 DEF before
<1>9. From(s, b) = t
  BY DEF From, before, k, t
<1>10. {s[i] : i \in (n + 1)..Len(s)} = {c \in BlocksOf(s) : Number(c) >= Number(b)}
  <2>1. \A i \in (n + 1)..Len(s) : i \in 1..Len(s)
    BY <1>1
  <2>2. BlocksOf(s) = {s[i] : i \in 1..Len(s)}
    BY <1>1 DEF BlocksOf
  <2> QED
    BY <1>8, <2>1, <2>2
<1> QED
  BY <1>5, <1>7, <1>9, <1>10

(* The hashes a filter announces when the chain changes form a sequence of blocks. *)
LEMMA NewlyCanonicalType ==
    ASSUME NEW old \in Block, NEW new \in Block
    PROVE  NewlyCanonical(old, new) \in Seq(Block)
<1> DEFINE p == Path(new)
           shared == {i \in DOMAIN Path(new) : i \in DOMAIN Path(old) /\ Path(old)[i] = Path(new)[i]}
           k == Cardinality(shared)
<1>1. p \in Seq(Block) /\ Len(p) \in Nat /\ DOMAIN p = 1..Len(p) /\ \A i \in 1..Len(p) : p[i] \in Block
  BY BlockTreeAssumption, LenProperties, ElementOfSeq
<1>2. k \in Nat
  <2>1. IsFiniteSet(1..Len(p))
    BY <1>1, FS_Interval
  <2>2. shared \in SUBSET (1..Len(p))
    BY <1>1
  <2>3. IsFiniteSet(shared)
    BY <2>1, <2>2, FS_Subset
  <2> QED
    BY <2>3, FS_CardinalityType
<1>3. \A i \in (k + 1)..Len(p) : p[i] \in Block
  BY <1>1, <1>2
<1>4. SubSeq(p, k + 1, Len(p)) \in Seq(Block)
  BY <1>1, <1>2, <1>3, SubSeqProperties
<1> QED
  BY <1>4 DEF NewlyCanonical

-----------------------------------------------------------------------------
(* The inductive invariant: types, the shape of the lists, the height, and which locals are   *)
(* live at which step of the loop.                                                            *)

LoopInv ==
    /\ Run(canonicalChain)
    /\ Run(detached)
    /\ HeadCoversChain
    /\ pc = "height" => canonicalChain = <<>> /\ headBlockInfo = NoBlock
    /\ pc = "trim" => canonicalChain # <<>>
    /\ pc # "trim" => lastElem = 0

SafetyInv == TypeOK /\ LoopInv

(* The variables that reconcileCanonicalChain writes. *)
ReconciledTypeOK ==
    /\ pc \in {"seed", "reconcile", "trim"}
    /\ seedNext \in Nat
    /\ highestBlockSet \in BOOLEAN /\ highestBlock \in Nat /\ headBlockInfo \in BlockOrNil
    /\ canonicalChain \in Seq(Block)
    /\ lastElem \in 0..Len(canonicalChain)
    /\ notifyPos \in BlockOrNil /\ detached \in Seq(Block)

LEMMA InitSafety == Init => SafetyInv
<1> SUFFICES ASSUME Init PROVE SafetyInv
  OBVIOUS
<1>1. TypeOK
  <2>1. <<>> \in Seq(Block) /\ Len(<<>>) = 0
    BY EmptySeq
  <2>2. NodeTypeOK
    <3>1. head \in Block /\ reorgs = 0 /\ nodeFilter = FALSE /\ filterQueue = <<>>
      BY DEF Init, NodeInit
    <3>2. reorgs \in 0..MaxReorgs
      BY <3>1, MaxReorgsAssumption
    <3> QED
      BY <2>1, <3>1, <3>2 DEF NodeTypeOK
  <2>3. lastElem \in 0..Len(canonicalChain) /\ canonicalChain \in Seq(Block)
    BY <2>1 DEF Init
  <2>4. /\ seedNext \in Nat /\ seedEnd \in Nat /\ highestBlock \in Nat /\ nextBlockNumber \in Nat
        /\ headBlockInfo \in BlockOrNil /\ rebuiltFrom \in BlockOrNil /\ notifyPos \in BlockOrNil
        /\ detached \in Seq(Block) /\ batch \in Seq(Block) /\ told \subseteq Block
    BY <2>1 DEF Init, BlockOrNil
  <2> QED
    BY <2>2, <2>3, <2>4 DEF Init, TypeOK
<1>2. LoopInv
  BY EmptyRun DEF Init, LoopInv, HeadCoversChain
<1> QED
  BY <1>1, <1>2 DEF SafetyInv

(* Where a removed notifyPos leads is a run: the block itself, or a segment of the old list. *)
LEMMA DetachedIsRun ==
    ASSUME SafetyInv, NEW kept
    PROVE  Run(DetachedUnlessIn(kept)) /\ Run(DetachedByInit)
<1>1. InList => notifyPos \in Block
  BY DEF SafetyInv, TypeOK, InList, BlockOrNil
<1>2. Run(detached) /\ Run(canonicalChain)
  BY DEF SafetyInv, LoopInv
<1>3. InList => Run(<<notifyPos>>) /\ Run(From(canonicalChain, notifyPos))
  BY <1>1, <1>2, SingletonRun, RunFrom
<1> QED
  BY <1>2, <1>3 DEF DetachedUnlessIn, DetachedByInit

(* What reconcileCanonicalChain does to its caller's variables keeps their types. *)
LEMMA ReturnType ==
    ASSUME SafetyInv, NEW candidate \in BlockOrNil, NEW nowDetached, Run(nowDetached),
           Return(candidate, nowDetached)
    PROVE  /\ pc' \in {"seed", "reconcile"}
           /\ seedNext' \in Nat
           /\ notifyPos' \in BlockOrNil
           /\ Run(detached')
<1>1. seedNext \in Nat /\ notifyPos \in BlockOrNil /\ Run(detached) /\ Run(<<>>)
  BY EmptyRun DEF SafetyInv, LoopInv, TypeOK
<1>2. CASE seeding
  BY <1>1, <1>2 DEF Return, notifyVars
<1>3. CASE ~seeding
  BY <1>1, <1>3 DEF Return, LowestCandidate
<1> QED
  BY <1>2, <1>3

(* checkAndSetHighestBlock keeps the height at or above every block it is given. *)
LEMMA HighestBlockRises ==
    ASSUME SafetyInv, NEW bi \in Block, CheckAndSetHighestBlock(bi)
    PROVE  /\ highestBlock' \in Nat /\ highestBlockSet' \in BOOLEAN /\ headBlockInfo' \in BlockOrNil
           /\ highestBlock' >= highestBlock /\ highestBlock' >= Number(bi)
           /\ headBlockInfo' # NoBlock => Number(headBlockInfo') = highestBlock'
<1>1. highestBlock \in Nat /\ highestBlockSet \in BOOLEAN /\ headBlockInfo \in BlockOrNil
  BY DEF SafetyInv, TypeOK
<1>2. Number(bi) \in Nat /\ bi # NoBlock
  BY BlockTreeAssumption
<1>3. headBlockInfo # NoBlock => Number(headBlockInfo) = highestBlock
  BY DEF SafetyInv, LoopInv, HeadCoversChain
<1>4. highestBlockSet' \in BOOLEAN
  BY <1>1 DEF CheckAndSetHighestBlock
<1>5. highestBlock' \in Nat /\ highestBlock' >= highestBlock /\ highestBlock' >= Number(bi)
  BY <1>1, <1>2 DEF CheckAndSetHighestBlock
<1>6. /\ headBlockInfo' \in BlockOrNil
      /\ headBlockInfo' # NoBlock => Number(headBlockInfo') = highestBlock'
  BY <1>1, <1>2, <1>3 DEF CheckAndSetHighestBlock, BlockOrNil
<1> QED
  BY <1>4, <1>5, <1>6

(* Trimming the front of a non-empty run leaves a non-empty run that ends in the same block. *)
LEMMA TrimFrontRun ==
    ASSUME NEW s, Run(s), s # <<>>
    PROVE  Run(TrimFront(s)) /\ BlocksOf(TrimFront(s)) \subseteq BlocksOf(s)
<1>1. Len(s) \in Nat \ {0} /\ MonitoredHeadLength \in Nat \ {0}
  BY ConfigAssumption, EmptySeq DEF Run
<1>2. CASE Len(s) > MonitoredHeadLength
  <2> DEFINE m == Len(s) - MonitoredHeadLength + 1
  <2>1. m \in 1..(Len(s) + 1) /\ Len(s) \in (m - 1)..Len(s)
    BY <1>1, <1>2
  <2> HIDE DEF m
  <2>2. Run(SubSeq(s, m, Len(s))) /\ BlocksOf(SubSeq(s, m, Len(s))) \subseteq BlocksOf(s)
    BY <2>1, SegmentOfRun
  <2> QED
    BY <1>2, <2>2 DEF TrimFront, m
<1>3. CASE ~(Len(s) > MonitoredHeadLength)
  BY <1>3 DEF TrimFront
<1> QED
  BY <1>2, <1>3

(* reconcileCanonicalChain, on every one of its paths, keeps the invariant. *)
LEMMA ReconcileSafety ==
    ASSUME SafetyInv, pc \in {"seed", "poll", "reconcile"},
           NEW bi \in Block, ReconcileCanonicalChain(bi)
    PROVE  ReconciledTypeOK' /\ LoopInv'
<1> DEFINE ChainOK == /\ Run(canonicalChain')
                      /\ BlocksOf(canonicalChain') \subseteq BlocksOf(canonicalChain) \cup {bi}
           ReturnOK == /\ pc' \in {"seed", "reconcile", "trim"}
                       /\ seedNext' \in Nat
                       /\ notifyPos' \in BlockOrNil
                       /\ Run(detached')
           LocalsOK == /\ lastElem' \in 0..Len(canonicalChain')
                       /\ pc' = "trim" => canonicalChain' # <<>>
                       /\ pc' # "trim" => lastElem' = 0
<1>1. /\ Run(canonicalChain) /\ canonicalChain \in Seq(Block) /\ Len(canonicalChain) \in Nat
      /\ DOMAIN canonicalChain = 1..Len(canonicalChain)
      /\ Run(detached) /\ lastElem = 0
      /\ seedNext \in Nat /\ notifyPos \in BlockOrNil
  BY LenProperties DEF SafetyInv, LoopInv, TypeOK, Run
<1>2. bi \in BlockOrNil /\ NoBlock \in BlockOrNil
  BY DEF BlockOrNil
<1>3. ASSUME Run(canonicalChain') PROVE 0 \in 0..Len(canonicalChain')
  BY <1>3, LenProperties DEF Run
<1>4. ASSUME DuplicateBlock(bi) PROVE ChainOK /\ ReturnOK /\ LocalsOK
  <2>1. Return(NoBlock, detached) /\ canonicalChain' = canonicalChain /\ lastElem' = lastElem
    BY <1>4 DEF DuplicateBlock
  <2>2. pc' \in {"seed", "reconcile"} /\ ReturnOK
    BY <1>1, <1>2, <2>1, ReturnType
  <2> QED
    BY <1>1, <1>3, <2>1, <2>2
<1>5. ASSUME FirstBlock(bi) PROVE ChainOK /\ ReturnOK /\ LocalsOK
  <2>1. Return(bi, DetachedByInit) /\ canonicalChain' = <<bi>> /\ lastElem' = lastElem
    BY <1>5 DEF FirstBlock
  <2>2. pc' \in {"seed", "reconcile"} /\ ReturnOK
    BY <1>1, <1>2, <2>1, ReturnType, DetachedIsRun
  <2>3. ChainOK
    BY <2>1, SingletonRun
  <2> QED
    BY <1>1, <1>3, <2>1, <2>2, <2>3
<1>6. ASSUME BlockFits(bi) PROVE ChainOK /\ ReturnOK /\ LocalsOK
  <2>1. PICK pos \in DOMAIN canonicalChain :
          /\ IsParentOf(canonicalChain[pos], bi)
          /\ LET kept == TrimFront(InsertAfter(pos, bi))
             IN  canonicalChain' = kept /\ Return(bi, DetachedUnlessIn(kept))
          /\ lastElem' = lastElem
    BY <1>6 DEF BlockFits
  <2> DEFINE prefix == SubSeq(canonicalChain, 1, pos)
  <2>2. /\ Run(prefix) /\ Len(prefix) = pos /\ prefix[pos] = canonicalChain[pos]
        /\ BlocksOf(prefix) \subseteq BlocksOf(canonicalChain)
    BY <1>1, <2>1, PrefixOfRun
  <2> HIDE DEF prefix
  <2>3. /\ Run(Append(prefix, bi))
        /\ BlocksOf(Append(prefix, bi)) = BlocksOf(prefix) \cup {bi}
        /\ Len(Append(prefix, bi)) = pos + 1
    BY <2>1, <2>2, RunExtended DEF IsParentOf
  <2>4. Append(prefix, bi) # <<>>
    BY <1>1, <2>1, <2>3, EmptySeq
  <2>5. ChainOK
    BY <2>1, <2>2, <2>3, <2>4, TrimFrontRun DEF prefix, InsertAfter
  <2>6. pc' \in {"seed", "reconcile"} /\ ReturnOK
    BY <1>1, <1>2, <2>1, ReturnType, DetachedIsRun
  <2> QED
    BY <1>1, <1>3, <2>1, <2>5, <2>6
<1>7. ASSUME BlockDoesNotFit(bi) PROVE ChainOK /\ ReturnOK /\ LocalsOK
  <2>1. /\ pc' = "trim" /\ lastElem' = Len(canonicalChain) /\ canonicalChain' = canonicalChain
        /\ notifyPos' = notifyPos /\ detached' = detached /\ seedNext' = seedNext
    BY <1>7 DEF BlockDoesNotFit, notifyVars
  <2>2. canonicalChain # <<>>
    BY <1>1, <1>7, EmptySeq DEF BlockDoesNotFit
  <2> QED
    BY <1>1, <2>1, <2>2
<1>8. ChainOK /\ ReturnOK /\ LocalsOK
  BY <1>4, <1>5, <1>6, <1>7 DEF ReconcileCanonicalChain
<1>9. /\ highestBlock' \in Nat /\ highestBlockSet' \in BOOLEAN /\ headBlockInfo' \in BlockOrNil
      /\ highestBlock' >= highestBlock /\ highestBlock' >= Number(bi)
      /\ headBlockInfo' # NoBlock => Number(headBlockInfo') = highestBlock'
  BY HighestBlockRises DEF ReconcileCanonicalChain
<1>10. HeadCoversChain'
  <2>1. \A b \in BlocksOf(canonicalChain) : Number(b) <= highestBlock /\ Number(b) \in Nat
    BY <1>1, ElementOfSeq, BlockTreeAssumption DEF SafetyInv, LoopInv, HeadCoversChain, BlocksOf
  <2>2. highestBlock \in Nat /\ Number(bi) \in Nat
    BY BlockTreeAssumption DEF SafetyInv, TypeOK
  <2>3. \A b \in BlocksOf(canonicalChain') : Number(b) <= highestBlock'
    BY <1>8, <1>9, <2>1, <2>2
  <2> QED
    BY <1>9, <2>3 DEF HeadCoversChain
<1>11. ReconciledTypeOK'
  BY <1>8, <1>9 DEF ReconciledTypeOK, Run
<1> QED
  BY <1>8, <1>10, <1>11 DEF LoopInv

(* A call of reconcileCanonicalChain from one of its three callers. *)
LEMMA CallerSafety ==
    ASSUME SafetyInv, pc \in {"seed", "poll", "reconcile"},
           NEW bi \in Block, ReconcileCanonicalChain(bi),
           UNCHANGED <<nodeVars, stopped, seeding, seedEnd, filter, gapPotential, told>>,
           batch' \in Seq(Block)
    PROVE  SafetyInv'
<1>1. ReconciledTypeOK' /\ LoopInv'
  BY ReconcileSafety
<1>2. nextBlockNumber' = nextBlockNumber /\ rebuiltFrom' = rebuiltFrom
  BY DEF ReconcileCanonicalChain
<1>3. NodeTypeOK'
  BY DEF SafetyInv, TypeOK, NodeTypeOK, nodeVars
<1>4. TypeOK'
  BY <1>1, <1>2, <1>3 DEF SafetyInv, TypeOK, ReconciledTypeOK
<1> QED
  BY <1>1, <1>4 DEF SafetyInv

(* Every step of the listener, of the node, and the end of the context keep the invariant. *)
LEMMA StepSafety == SafetyInv /\ [Next]_vars => SafetyInv'
<1> SUFFICES ASSUME SafetyInv, [Next]_vars PROVE SafetyInv'
  OBVIOUS
<1>t. /\ canonicalChain \in Seq(Block) /\ Len(canonicalChain) \in Nat /\ Run(canonicalChain)
      /\ DOMAIN canonicalChain = 1..Len(canonicalChain)
      /\ \A i \in 1..Len(canonicalChain) : canonicalChain[i] \in Block /\ Number(canonicalChain[i]) \in Nat
      /\ head \in Block /\ Number(head) \in Nat
      /\ <<>> \in Seq(Block)
  BY LenProperties, ElementOfSeq, BlockTreeAssumption, EmptySeq DEF SafetyInv, LoopInv, TypeOK, NodeTypeOK
<1>n. NodeTypeOK
  BY DEF SafetyInv, TypeOK
<1>1. ASSUME EstablishBlockHeight PROVE SafetyInv'
  <2>1. canonicalChain = <<>> /\ headBlockInfo = NoBlock
    BY <1>1 DEF EstablishBlockHeight, SafetyInv, LoopInv
  <2>2. seedNext' \in Nat /\ seedEnd' \in Nat /\ highestBlock' \in Nat
    BY <1>t, <1>1, ConfigAssumption DEF EstablishBlockHeight, SeedStart
  <2>3. TypeOK'
    BY <1>1, <1>n, <2>2 DEF EstablishBlockHeight, SafetyInv, TypeOK, NodeTypeOK, nodeVars, rebuildVars,
       notifyVars, pollVars
  <2>4. LoopInv'
    BY <1>1, <2>1, EmptyRun DEF EstablishBlockHeight, SafetyInv, LoopInv, HeadCoversChain, rebuildVars, notifyVars
  <2> QED
    BY <2>3, <2>4 DEF SafetyInv
<1>2. ASSUME ExitBeforeBlockHeight PROVE SafetyInv'
  BY <1>2 DEF ExitBeforeBlockHeight, SafetyInv, TypeOK, NodeTypeOK, LoopInv, HeadCoversChain, nodeVars,
     seedVars, heightVars, rebuildVars, notifyVars, pollVars
<1>3. ASSUME SeedBlock PROVE SafetyInv'
  <2>1. GetBlockByNumber(seedNext) \in Block
    BY <1>3, <1>t, BlockAtType DEF SeedBlock, SafetyInv, TypeOK, GetBlockByNumber
  <2>2. batch \in Seq(Block)
    BY DEF SafetyInv, TypeOK
  <2> QED
    BY <1>3, <2>1, <2>2, CallerSafety DEF SeedBlock, pollVars
<1>4. ASSUME SeedingEnds PROVE SafetyInv'
  <2>1. BlocksOf(canonicalChain) \subseteq Block
    BY <1>t DEF BlocksOf
  <2>2. TypeOK'
    BY <1>4, <2>1 DEF SeedingEnds, SafetyInv, TypeOK, NodeTypeOK, nodeVars,
       heightVars, rebuildVars, notifyVars
  <2>3. LoopInv'
    BY <1>4 DEF SeedingEnds, SafetyInv, LoopInv, HeadCoversChain, heightVars, rebuildVars, notifyVars
  <2> QED
    BY <2>2, <2>3 DEF SafetyInv
<1>5. ASSUME FoundLastValidBlock PROVE SafetyInv'
  <2> DEFINE kept == SubSeq(canonicalChain, 1, lastElem)
  <2>1. lastElem \in 1..Len(canonicalChain)
    BY <1>5, <1>t DEF FoundLastValidBlock, SafetyInv, TypeOK
  <2>2. Run(kept) /\ BlocksOf(kept) \subseteq BlocksOf(canonicalChain)
    BY <1>t, <2>1, PrefixOfRun
  <2>3. canonicalChain' = kept /\ detached' = DetachedUnlessIn(kept) /\ lastElem' = 0
        /\ nextBlockNumber' = Number(canonicalChain[lastElem]) + 1 /\ rebuiltFrom' = NoBlock /\ pc' = "rebuild"
    BY <1>5 DEF FoundLastValidBlock, StartRebuildAt
  <2> HIDE DEF kept
  <2>4. Run(canonicalChain') /\ Run(detached')
    BY <2>2, <2>3, DetachedIsRun
  <2>5. 0 \in 0..Len(canonicalChain')
    BY <2>4, LenProperties DEF Run
  <2>6. TypeOK'
    BY <1>5, <1>t, <2>1, <2>3, <2>4, <2>5 DEF FoundLastValidBlock, SafetyInv, TypeOK, NodeTypeOK, Run,
       BlockOrNil, nodeVars, seedVars, heightVars, pollVars
  <2>7. LoopInv'
    BY <1>5, <2>2, <2>3, <2>4 DEF FoundLastValidBlock, SafetyInv, LoopInv, HeadCoversChain, heightVars
  <2> QED
    BY <2>6, <2>7 DEF SafetyInv
<1>6. ASSUME BlockNoLongerValid PROVE SafetyInv'
  <2>1. lastElem' \in 0..Len(canonicalChain)
    BY <1>6, <1>t DEF BlockNoLongerValid, SafetyInv, TypeOK
  <2> QED
    BY <1>6, <2>1 DEF BlockNoLongerValid, SafetyInv, TypeOK, NodeTypeOK, LoopInv, HeadCoversChain, nodeVars,
       seedVars, heightVars, notifyVars, pollVars
<1>7. ASSUME ReinitializeChain PROVE SafetyInv'
  <2>1. canonicalChain # <<>>
    BY <1>7 DEF ReinitializeChain, SafetyInv, LoopInv
  <2>2. Number(canonicalChain[1]) \in Nat
    BY <1>t, <2>1, EmptySeq
  <2>3. Run(<<>>) /\ BlocksOf(<<>>) = {} /\ Len(<<>>) = 0 /\ Run(DetachedByInit)
    BY EmptyRun, EmptySeq, DetachedIsRun
  <2>4. TypeOK'
    BY <1>7, <2>2, <2>3 DEF ReinitializeChain, StartRebuildAt, SafetyInv, TypeOK, NodeTypeOK, Run, BlockOrNil,
       nodeVars, seedVars, heightVars, pollVars
  <2>5. LoopInv'
    BY <1>7, <2>3 DEF ReinitializeChain, StartRebuildAt, SafetyInv, LoopInv, HeadCoversChain, heightVars
  <2> QED
    BY <2>4, <2>5 DEF SafetyInv
<1>8. ASSUME RebuildBlock PROVE SafetyInv'
  <2> DEFINE bi == GetBlockByNumber(nextBlockNumber)
  <2>1. bi \in Block /\ Number(bi) \in Nat
    BY <1>8, <1>t, BlockAtType, BlockTreeAssumption
       DEF RebuildBlock, Continues, SafetyInv, TypeOK, GetBlockByNumber
  <2>2. /\ canonicalChain' = Append(canonicalChain, bi)
        /\ canonicalChain = <<>> \/ Parent(bi) = canonicalChain[Len(canonicalChain)]
        /\ CheckAndSetHighestBlock(bi)
        /\ rebuiltFrom' \in BlockOrNil /\ nextBlockNumber' \in Nat
    BY <1>8, <2>1 DEF RebuildBlock, Continues, FirstRebuilt, SafetyInv, TypeOK, BlockOrNil
  <2> HIDE DEF bi
  <2>3. /\ Run(canonicalChain')
        /\ BlocksOf(canonicalChain') = BlocksOf(canonicalChain) \cup {bi}
        /\ Len(canonicalChain') = Len(canonicalChain) + 1
    BY <1>t, <2>1, <2>2, RunExtended
  <2>4. /\ highestBlock' \in Nat /\ highestBlockSet' \in BOOLEAN /\ headBlockInfo' \in BlockOrNil
        /\ highestBlock' >= highestBlock /\ highestBlock' >= Number(bi)
        /\ headBlockInfo' # NoBlock => Number(headBlockInfo') = highestBlock'
    BY <2>1, <2>2, HighestBlockRises
  <2>5. lastElem = 0 /\ 0 \in 0..Len(canonicalChain')
    BY <1>8, <1>t, <2>3 DEF RebuildBlock, SafetyInv, LoopInv
  <2>6. TypeOK'
    BY <1>8, <2>2, <2>3, <2>4, <2>5 DEF RebuildBlock, SafetyInv, TypeOK, NodeTypeOK, Run,
       nodeVars, seedVars, notifyVars, pollVars
  <2>7. HeadCoversChain'
    <3>1. \A b \in BlocksOf(canonicalChain) : Number(b) \in Nat /\ Number(b) <= highestBlock
      BY <1>t DEF SafetyInv, LoopInv, HeadCoversChain, BlocksOf
    <3>2. highestBlock \in Nat
      BY DEF SafetyInv, TypeOK
    <3>3. \A b \in BlocksOf(canonicalChain') : Number(b) <= highestBlock'
      BY <2>1, <2>3, <2>4, <3>1, <3>2
    <3> QED
      BY <2>4, <3>3 DEF HeadCoversChain
  <2>8. LoopInv'
    BY <1>8, <2>3, <2>5, <2>7 DEF RebuildBlock, SafetyInv, LoopInv, notifyVars
  <2> QED
    BY <2>6, <2>8 DEF SafetyInv
<1>9. ASSUME NEW candidate \in BlockOrNil, pc = "rebuild", ReturnFromRebuild(candidate) PROVE SafetyInv'
  <2>1. Return(candidate, detached) /\ Run(detached)
    BY <1>9 DEF ReturnFromRebuild, SafetyInv, LoopInv
  <2>2. /\ pc' \in {"seed", "reconcile"}
        /\ seedNext' \in Nat
        /\ notifyPos' \in BlockOrNil
        /\ Run(detached')
    BY <1>9, <2>1, ReturnType
  <2>3. TypeOK'
    BY <1>9, <2>2 DEF ReturnFromRebuild, SafetyInv, TypeOK, NodeTypeOK, Run, BlockOrNil,
       nodeVars, heightVars, pollVars
  <2>4. LoopInv'
    BY <1>9, <2>2 DEF ReturnFromRebuild, SafetyInv, LoopInv, HeadCoversChain, heightVars
  <2> QED
    BY <2>3, <2>4 DEF SafetyInv
<1>10. ASSUME RebuildEnds \/ RebuildCancelled PROVE SafetyInv'
  <2>1. rebuiltFrom \in BlockOrNil /\ NoBlock \in BlockOrNil
    BY DEF SafetyInv, TypeOK, BlockOrNil
  <2> QED
    BY <1>9, <1>10, <2>1 DEF RebuildEnds, RebuildCancelled
<1>11. ASSUME PollLatestBlock PROVE SafetyInv'
  <2>1. batch \in Seq(Block)
    BY DEF SafetyInv, TypeOK
  <2> QED
    BY <1>11, <1>t, <2>1, CallerSafety DEF PollLatestBlock, pollVars
<1>12. ASSUME NewBlockFilter PROVE SafetyInv'
  <2>1. TypeOK'
    BY <1>12, <1>t DEF NewBlockFilter, SafetyInv, TypeOK, NodeTypeOK, seedVars, heightVars, rebuildVars, notifyVars
  <2>2. LoopInv'
    BY <1>12 DEF NewBlockFilter, SafetyInv, LoopInv, HeadCoversChain, heightVars, rebuildVars, notifyVars
  <2> QED
    BY <2>1, <2>2 DEF SafetyInv
<1>13. ASSUME GetFilterChanges PROVE SafetyInv'
  <2>1. TypeOK'
    BY <1>13, <1>t DEF GetFilterChanges, SafetyInv, TypeOK, NodeTypeOK, seedVars, heightVars, rebuildVars, notifyVars
  <2>2. LoopInv'
    BY <1>13 DEF GetFilterChanges, SafetyInv, LoopInv, HeadCoversChain, heightVars, rebuildVars, notifyVars
  <2> QED
    BY <2>1, <2>2 DEF SafetyInv
<1>14. ASSUME LoseFilterChanges PROVE SafetyInv'
  <2>1. TypeOK'
    BY <1>14, <1>t DEF LoseFilterChanges, listenerVars, SafetyInv, TypeOK, NodeTypeOK, seedVars, heightVars,
       rebuildVars, notifyVars, pollVars
  <2>2. LoopInv'
    BY <1>14 DEF LoseFilterChanges, listenerVars, SafetyInv, LoopInv, HeadCoversChain, heightVars, rebuildVars, notifyVars
  <2> QED
    BY <2>1, <2>2 DEF SafetyInv
<1>15. ASSUME FilterNotFound PROVE SafetyInv'
  <2>1. TypeOK'
    BY <1>15 DEF FilterNotFound, SafetyInv, TypeOK, NodeTypeOK, nodeVars, seedVars, heightVars, rebuildVars, notifyVars
  <2>2. LoopInv'
    BY <1>15 DEF FilterNotFound, SafetyInv, LoopInv, HeadCoversChain, heightVars, rebuildVars, notifyVars
  <2> QED
    BY <2>1, <2>2 DEF SafetyInv
<1>16. ASSUME ResolveBlockHash PROVE SafetyInv'
  <2>1. Head(batch) \in Block /\ Tail(batch) \in Seq(Block)
    BY <1>16, HeadTailProperties DEF ResolveBlockHash, SafetyInv, TypeOK
  <2> QED
    BY <1>16, <2>1, CallerSafety DEF ResolveBlockHash
<1>17. ASSUME SkipBlockHash PROVE SafetyInv'
  <2>1. Tail(batch) \in Seq(Block)
    BY <1>17, HeadTailProperties DEF SkipBlockHash, SafetyInv, TypeOK
  <2>2. TypeOK'
    BY <1>17, <2>1 DEF SkipBlockHash, SafetyInv, TypeOK, NodeTypeOK, nodeVars, seedVars, heightVars, rebuildVars, notifyVars
  <2>3. LoopInv'
    BY <1>17 DEF SkipBlockHash, SafetyInv, LoopInv, HeadCoversChain, heightVars, rebuildVars, notifyVars
  <2> QED
    BY <2>2, <2>3 DEF SafetyInv
<1>18. ASSUME Dispatch PROVE SafetyInv'
  <2>1. Run(BlockHashes)
    BY <1>t, RunFrom, EmptyRun DEF BlockHashes, InList, SafetyInv, LoopInv, TypeOK, BlockOrNil
  <2>2. BlocksOf(BlockHashes) \subseteq Block
    BY <2>1, LenProperties, ElementOfSeq DEF Run, BlocksOf
  <2>3. told' \subseteq Block
    BY <1>18, <2>2 DEF Dispatch, SafetyInv, TypeOK
  <2>4. TypeOK'
    BY <1>18, <1>t, <2>3 DEF Dispatch, SafetyInv, TypeOK, NodeTypeOK, BlockOrNil, nodeVars, seedVars, heightVars, rebuildVars
  <2>5. LoopInv'
    BY <1>18, EmptyRun DEF Dispatch, SafetyInv, LoopInv, HeadCoversChain, heightVars, rebuildVars
  <2> QED
    BY <2>4, <2>5 DEF SafetyInv
<1>19. ASSUME ListenLoopExits \/ Stop PROVE SafetyInv'
  <2>1. TypeOK'
    BY <1>19 DEF ListenLoopExits, Stop, SafetyInv, TypeOK, NodeTypeOK, nodeVars, seedVars, heightVars, rebuildVars,
       notifyVars, pollVars
  <2>2. LoopInv'
    BY <1>19 DEF ListenLoopExits, Stop, SafetyInv, LoopInv, HeadCoversChain, heightVars, rebuildVars, notifyVars
  <2> QED
    BY <2>1, <2>2 DEF SafetyInv
<1>20. ASSUME NodeStep PROVE SafetyInv'
  <2>1. NodeTypeOK'
    <3>1. ASSUME NEW b \in Block, Announce(b) PROVE filterQueue' \in Seq(Block)
      BY <1>n, <1>t, <3>1, NewlyCanonicalType, ConcatProperties DEF Announce, NodeTypeOK
    <3>2. ASSUME Extend PROVE NodeTypeOK'
      BY <1>n, <3>1, <3>2 DEF Extend, NodeTypeOK
    <3>3. ASSUME Reorg PROVE NodeTypeOK'
      <4>1. reorgs' \in 0..MaxReorgs
        BY <1>n, <3>3, MaxReorgsAssumption DEF Reorg, NodeTypeOK
      <4> QED
        BY <1>n, <3>1, <3>3, <4>1 DEF Reorg, NodeTypeOK
    <3>4. ASSUME LoseFilter PROVE NodeTypeOK'
      BY <1>n, <1>t, <3>4 DEF LoseFilter, NodeTypeOK
    <3> QED
      BY <1>20, <3>2, <3>3, <3>4 DEF NodeStep, NodeNext
  <2>2. TypeOK'
    BY <1>20, <2>1 DEF NodeStep, listenerVars, SafetyInv, TypeOK, seedVars, heightVars, rebuildVars, notifyVars, pollVars
  <2>3. LoopInv'
    BY <1>20 DEF NodeStep, listenerVars, SafetyInv, LoopInv, HeadCoversChain, heightVars, rebuildVars, notifyVars
  <2> QED
    BY <2>2, <2>3 DEF SafetyInv
<1>21. ASSUME UNCHANGED vars PROVE SafetyInv'
  BY <1>21 DEF vars, listenerVars, nodeVars, SafetyInv, TypeOK, NodeTypeOK, LoopInv, HeadCoversChain,
     seedVars, heightVars, rebuildVars, notifyVars, pollVars
<1> QED
  BY <1>1, <1>2, <1>3, <1>4, <1>5, <1>6, <1>7, <1>8, <1>10, <1>11, <1>12, <1>13, <1>14, <1>15, <1>16,
     <1>17, <1>18, <1>19, <1>20, <1>21 DEF Next, ListenLoop, StartUp, Rebuild, Poll

-----------------------------------------------------------------------------
(* Safety in both polling modes. *)

LEMMA SafetyInvariant == Spec => []SafetyInv
<1> QED
  BY InitSafety, StepSafety, PTL DEF Spec

(* The update about to be sent is a segment of the chain or of the list it was taken from. *)
LEMMA SafetyImpliesProperties == SafetyInv => TypeOK /\ ChainIsLinked /\ HeadCoversChain /\ UpdateIsLinked
<1> SUFFICES ASSUME SafetyInv PROVE TypeOK /\ ChainIsLinked /\ HeadCoversChain /\ UpdateIsLinked
  OBVIOUS
<1>1. Run(BlockHashes)
  BY RunFrom, EmptyRun DEF BlockHashes, InList, SafetyInv, LoopInv, TypeOK, BlockOrNil
<1> QED
  BY <1>1 DEF SafetyInv, LoopInv, ChainIsLinked, UpdateIsLinked, Run

(* Type correctness of the listener. *)
THEOREM TypeCorrect == Spec => []TypeOK
<1> QED
  BY SafetyInvariant, SafetyImpliesProperties, PTL

(* The in-memory canonical chain is an unbroken run of one fork at every step of every        *)
(* interleaving of the node's re-orgs with a poll, a trim and a rebuild.                      *)
THEOREM ChainAlwaysLinked == Spec => []ChainIsLinked
<1> QED
  BY SafetyInvariant, SafetyImpliesProperties, PTL

(* highestBlock is at or above every block of the chain, and headBlockInfo is of that height. *)
THEOREM HeadAlwaysCoversChain == Spec => []HeadCoversChain
<1> QED
  BY SafetyInvariant, SafetyImpliesProperties, PTL

(* Every update sent to the consumers is an unbroken run of one fork, in both polling modes.  *)
THEOREM UpdatesAlwaysLinked == Spec => []UpdateIsLinked
<1> QED
  BY SafetyInvariant, SafetyImpliesProperties, PTL

-----------------------------------------------------------------------------
(* In client polling mode a poll reconciles one block, so the element notifyPos points to     *)
(* never leaves the list before the update is sent.                                           *)

(* Blocks of the chain a consumer does not know are at or above the number of block from. *)
KnownBelow(from) ==
    \A b \in BlocksOf(canonicalChain) : b \in told \/ (from # NoBlock /\ Number(b) >= Number(from))

ClientInv ==
    /\ batch = <<>> /\ filter = FALSE
    /\ detached = <<>>
    /\ pc # "reconcile" => notifyPos = NoBlock
    /\ pc \in {"height", "poll", "reconcile", "done"} => ~seeding
    /\ pc = "seed" => seeding
    /\ rebuiltFrom # NoBlock => Number(rebuiltFrom) < nextBlockNumber
    /\ ~stopped /\ ~seeding =>
        /\ pc \in {"poll", "trim"} => BlocksOf(canonicalChain) \subseteq told
        /\ pc = "rebuild" => KnownBelow(rebuiltFrom)
        /\ pc = "reconcile" => KnownBelow(notifyPos)

LEMMA InitClient == Init => ClientInv
<1> SUFFICES ASSUME Init PROVE ClientInv
  OBVIOUS
<1> QED
  BY EmptyRun DEF Init, ClientInv

(* What is known when reconcileCanonicalChain returns to the poll. *)
LEMMA ReturnKnown ==
    ASSUME ClientInv, ~seeding, NEW candidate \in BlockOrNil, Return(candidate, <<>>),
           notifyPos = NoBlock
    PROVE  pc' = "reconcile" /\ notifyPos' = candidate /\ detached' = <<>>
<1> QED
  BY DEF ClientInv, Return, LowestCandidate, BlockOrNil

(* A call of reconcileCanonicalChain in client mode, for a seeded block or the head block. *)
LEMMA ReconcileClient ==
    ASSUME SafetyInv, ClientInv, pc \in {"seed", "poll"}, ~stopped,
           NEW bi \in Block, ReconcileCanonicalChain(bi),
           UNCHANGED <<stopped, seeding, batch, filter, told>>
    PROVE  ClientInv'
<1>1. /\ notifyPos = NoBlock /\ detached = <<>> /\ batch = <<>> /\ filter = FALSE
      /\ ~seeding => pc = "poll" /\ BlocksOf(canonicalChain) \subseteq told
      /\ rebuiltFrom # NoBlock => Number(rebuiltFrom) < nextBlockNumber
  BY DEF ClientInv
<1>2. rebuiltFrom' = rebuiltFrom /\ nextBlockNumber' = nextBlockNumber
  BY DEF ReconcileCanonicalChain
<1>3. ~InList
  BY <1>1 DEF InList
<1>4. bi \in BlockOrNil /\ NoBlock \in BlockOrNil /\ bi # NoBlock /\ Number(bi) \in Nat
  BY BlockTreeAssumption DEF BlockOrNil
<1>5. /\ Run(canonicalChain) /\ canonicalChain \in Seq(Block) /\ Len(canonicalChain) \in Nat
      /\ DOMAIN canonicalChain = 1..Len(canonicalChain)
  BY LenProperties DEF SafetyInv, LoopInv, Run
<1>6. ASSUME NEW candidate \in BlockOrNil, Return(candidate, <<>>),
             BlocksOf(canonicalChain') \subseteq BlocksOf(canonicalChain) \cup {bi},
             candidate = bi \/ bi \in BlocksOf(canonicalChain)
      PROVE  ClientInv'
  <2>1. CASE seeding
    BY <1>1, <1>2, <1>6, <2>1 DEF Return, ClientInv, notifyVars
  <2>2. CASE ~seeding
    <3>1. pc' = "reconcile" /\ notifyPos' = candidate /\ detached' = <<>>
      BY <1>1, <1>6, <2>2, ReturnKnown
    <3>2. KnownBelow(notifyPos)'
      BY <1>1, <1>4, <1>6, <2>2, <3>1 DEF KnownBelow
    <3> QED
      BY <1>1, <1>2, <2>2, <3>1, <3>2 DEF ClientInv
  <2> QED
    BY <2>1, <2>2
<1>7. ASSUME DuplicateBlock(bi) PROVE ClientInv'
  BY <1>1, <1>4, <1>6, <1>7 DEF DuplicateBlock
<1>8. ASSUME FirstBlock(bi) PROVE ClientInv'
  <2>1. canonicalChain' = <<bi>> /\ Return(bi, <<>>)
    BY <1>1, <1>3, <1>8 DEF FirstBlock, DetachedByInit
  <2>2. BlocksOf(<<bi>>) = {bi}
    BY SingletonRun
  <2> QED
    BY <1>4, <1>6, <2>1, <2>2
<1>9. ASSUME BlockFits(bi) PROVE ClientInv'
  <2>1. PICK pos \in DOMAIN canonicalChain :
          /\ IsParentOf(canonicalChain[pos], bi)
          /\ LET kept == TrimFront(InsertAfter(pos, bi))
             IN  canonicalChain' = kept /\ Return(bi, DetachedUnlessIn(kept))
    BY <1>9 DEF BlockFits
  <2> DEFINE prefix == SubSeq(canonicalChain, 1, pos)
  <2>2. /\ Run(prefix) /\ Len(prefix) = pos /\ prefix[pos] = canonicalChain[pos]
        /\ BlocksOf(prefix) \subseteq BlocksOf(canonicalChain)
    BY <1>5, <2>1, PrefixOfRun
  <2> HIDE DEF prefix
  <2>3. /\ Run(Append(prefix, bi))
        /\ BlocksOf(Append(prefix, bi)) = BlocksOf(prefix) \cup {bi}
        /\ Len(Append(prefix, bi)) = pos + 1
    BY <2>1, <2>2, RunExtended DEF IsParentOf
  <2>4. Append(prefix, bi) # <<>>
    BY <1>5, <2>1, <2>3, EmptySeq
  <2>5. BlocksOf(canonicalChain') \subseteq BlocksOf(canonicalChain) \cup {bi}
    BY <2>1, <2>2, <2>3, <2>4, TrimFrontRun DEF prefix, InsertAfter
  <2>6. Return(bi, <<>>)
    BY <1>1, <1>3, <2>1 DEF DetachedUnlessIn
  <2> QED
    BY <1>4, <1>6, <2>5, <2>6
<1>10. ASSUME BlockDoesNotFit(bi) PROVE ClientInv'
  BY <1>1, <1>2, <1>10 DEF BlockDoesNotFit, ClientInv, notifyVars
<1> QED
  BY <1>7, <1>8, <1>9, <1>10 DEF ReconcileCanonicalChain

(* Sending the update makes every block of the chain known. *)
LEMMA DispatchClient ==
    ASSUME SafetyInv, ClientInv, Dispatch
    PROVE  ClientInv'
<1>1. /\ pc = "reconcile" /\ ~seeding /\ pc' = "poll" /\ notifyPos' = NoBlock /\ detached' = <<>>
      /\ batch' = batch /\ filter' = filter /\ seeding' = seeding /\ stopped' = stopped
      /\ rebuiltFrom' = rebuiltFrom /\ nextBlockNumber' = nextBlockNumber
      /\ canonicalChain' = canonicalChain
  BY DEF Dispatch, ClientInv, seedVars, rebuildVars
<1>2. ASSUME ~stopped PROVE BlocksOf(canonicalChain) \subseteq told'
  <2>1. KnownBelow(notifyPos)
    BY <1>1, <1>2 DEF ClientInv
  <2>2. told' = {b \in told : \A c \in BlocksOf(BlockHashes) : Number(b) # Number(c)} \cup BlocksOf(BlockHashes)
    BY <1>2 DEF Dispatch
  <2>3. CASE notifyPos = NoBlock
    <3>1. BlocksOf(BlockHashes) = {}
      BY <2>3, EmptyRun DEF BlockHashes, InList
    <3> QED
      BY <2>1, <2>2, <2>3, <3>1 DEF KnownBelow
  <2>4. CASE notifyPos # NoBlock
    <3>1. BlockHashes = From(canonicalChain, notifyPos) /\ notifyPos \in Block
      BY <2>4 DEF BlockHashes, InList, ClientInv, SafetyInv, TypeOK, BlockOrNil
    <3>2. BlocksOf(BlockHashes) = {c \in BlocksOf(canonicalChain) : Number(c) >= Number(notifyPos)}
      BY <3>1, RunFrom DEF SafetyInv, LoopInv
    <3>3. \A b \in BlocksOf(canonicalChain) : Number(b) \in Nat
      <4>1. canonicalChain \in Seq(Block) /\ DOMAIN canonicalChain = 1..Len(canonicalChain)
        BY LenProperties DEF SafetyInv, TypeOK
      <4> QED
        BY <4>1, ElementOfSeq, BlockTreeAssumption DEF BlocksOf
    <3>4. Number(notifyPos) \in Nat
      BY <3>1, BlockTreeAssumption
    <3> QED
      BY <2>1, <2>2, <3>2, <3>3, <3>4 DEF KnownBelow
  <2> QED
    BY <2>3, <2>4
<1> QED
  BY <1>1, <1>2 DEF ClientInv

LEMMA StepClient ==
    FilterPollingMode = "client" /\ SafetyInv /\ ClientInv /\ [Next]_vars => ClientInv'
<1> SUFFICES ASSUME FilterPollingMode = "client", SafetyInv, ClientInv, [Next]_vars PROVE ClientInv'
  OBVIOUS
<1>t. head \in Block
  BY DEF SafetyInv, TypeOK, NodeTypeOK
<1>1. ASSUME EstablishBlockHeight \/ ExitBeforeBlockHeight PROVE ClientInv'
  BY <1>1 DEF EstablishBlockHeight, ExitBeforeBlockHeight, ClientInv, seedVars, rebuildVars, notifyVars, pollVars
<1>2. ASSUME SeedBlock PROVE ClientInv'
  <2>1. GetBlockByNumber(seedNext) \in Block
    BY <1>2, <1>t, BlockAtType DEF SeedBlock, SafetyInv, TypeOK, GetBlockByNumber
  <2> QED
    BY <1>2, <2>1, ReconcileClient DEF SeedBlock, pollVars
<1>3. ASSUME SeedingEnds PROVE ClientInv'
  BY <1>3 DEF SeedingEnds, ClientInv, rebuildVars, notifyVars
<1>4. ASSUME FoundLastValidBlock PROVE ClientInv'
  <2> DEFINE kept == SubSeq(canonicalChain, 1, lastElem)
  <2>1. BlocksOf(kept) \subseteq BlocksOf(canonicalChain)
    <3>1. /\ Len(canonicalChain) \in Nat /\ Run(canonicalChain)
          /\ lastElem \in 1..Len(canonicalChain)
      BY <1>4, LenProperties DEF FoundLastValidBlock, SafetyInv, LoopInv, TypeOK
    <3> QED
      BY <3>1, PrefixOfRun
  <2>2. /\ canonicalChain' = kept /\ detached' = DetachedUnlessIn(kept) /\ rebuiltFrom' = NoBlock
        /\ pc = "trim" /\ pc' = "rebuild"
    BY <1>4 DEF FoundLastValidBlock, StartRebuildAt
  <2> HIDE DEF kept
  <2>3. notifyPos = NoBlock /\ detached' = <<>>
    BY <2>2 DEF ClientInv, DetachedUnlessIn, InList
  <2>4. ~stopped /\ ~seeding => KnownBelow(rebuiltFrom)'
    BY <1>4, <2>1, <2>2 DEF FoundLastValidBlock, ClientInv, KnownBelow, seedVars, pollVars
  <2> QED
    BY <1>4, <2>2, <2>3, <2>4 DEF FoundLastValidBlock, ClientInv, seedVars, pollVars
<1>5. ASSUME BlockNoLongerValid PROVE ClientInv'
  BY <1>5 DEF BlockNoLongerValid, ClientInv, seedVars, notifyVars, pollVars
<1>6. ASSUME ReinitializeChain PROVE ClientInv'
  <2>1. /\ canonicalChain' = <<>> /\ detached' = DetachedByInit /\ rebuiltFrom' = NoBlock
        /\ pc = "trim" /\ pc' = "rebuild"
    BY <1>6 DEF ReinitializeChain, StartRebuildAt
  <2>2. notifyPos = NoBlock /\ detached' = <<>>
    BY <2>1 DEF ClientInv, DetachedByInit, InList
  <2>3. KnownBelow(rebuiltFrom)'
    BY <2>1, EmptyRun DEF KnownBelow
  <2> QED
    BY <1>6, <2>1, <2>2, <2>3 DEF ReinitializeChain, ClientInv, seedVars, pollVars
<1>7. ASSUME RebuildBlock PROVE ClientInv'
  <2> DEFINE bi == GetBlockByNumber(nextBlockNumber)
  <2>1. bi \in Block /\ Number(bi) = nextBlockNumber /\ bi # NoBlock /\ nextBlockNumber \in Nat
    BY <1>7, <1>t, BlockAtType, BlockTreeAssumption
       DEF RebuildBlock, Continues, SafetyInv, TypeOK, GetBlockByNumber
  <2>2. /\ canonicalChain' = Append(canonicalChain, bi)
        /\ canonicalChain = <<>> \/ Parent(bi) = canonicalChain[Len(canonicalChain)]
        /\ rebuiltFrom' = IF rebuiltFrom = NoBlock THEN bi ELSE rebuiltFrom
        /\ nextBlockNumber' = nextBlockNumber + 1
        /\ pc = "rebuild" /\ pc' = "rebuild"
    BY <1>7 DEF RebuildBlock, Continues, FirstRebuilt
  <2> HIDE DEF bi
  <2>3. BlocksOf(canonicalChain') = BlocksOf(canonicalChain) \cup {bi}
    BY <2>1, <2>2, RunExtended DEF SafetyInv, LoopInv
  <2>4. rebuiltFrom # NoBlock => Number(rebuiltFrom) < nextBlockNumber /\ Number(rebuiltFrom) \in Nat
    BY BlockTreeAssumption DEF ClientInv, SafetyInv, TypeOK, BlockOrNil
  <2>5. rebuiltFrom' # NoBlock /\ Number(rebuiltFrom') < nextBlockNumber'
    BY <2>1, <2>2, <2>4
  <2>6. ASSUME ~stopped, ~seeding PROVE KnownBelow(rebuiltFrom)'
    <3>1. KnownBelow(rebuiltFrom)
      BY <2>2, <2>6 DEF ClientInv
    <3>2. Number(bi) >= Number(rebuiltFrom')
      BY <2>1, <2>2, <2>4
    <3>3. told' = told
      BY <1>7 DEF RebuildBlock, pollVars
    <3> QED
      BY <2>2, <2>3, <2>5, <3>1, <3>2, <3>3 DEF KnownBelow
  <2> QED
    BY <1>7, <2>2, <2>5, <2>6 DEF RebuildBlock, ClientInv, seedVars, notifyVars, pollVars
<1>8. ASSUME NEW candidate \in BlockOrNil, pc = "rebuild", ReturnFromRebuild(candidate),
             candidate = rebuiltFrom \/ stopped
      PROVE  ClientInv'
  <2>1. /\ Return(candidate, <<>>) /\ notifyPos = NoBlock /\ detached = <<>>
        /\ rebuiltFrom' = NoBlock /\ canonicalChain' = canonicalChain
        /\ seeding' = seeding /\ stopped' = stopped /\ told' = told /\ batch' = batch /\ filter' = filter
    BY <1>8 DEF ReturnFromRebuild, ClientInv, pollVars
  <2>2. CASE seeding
    BY <1>8, <2>1, <2>2 DEF Return, ClientInv, notifyVars
  <2>3. CASE ~seeding
    <3>1. pc' = "reconcile" /\ notifyPos' = candidate /\ detached' = <<>>
      BY <1>8, <2>1, <2>3, ReturnKnown
    <3>2. ~stopped => KnownBelow(notifyPos)'
      BY <1>8, <2>1, <2>3, <3>1 DEF ClientInv, KnownBelow
    <3> QED
      BY <2>1, <2>3, <3>1, <3>2 DEF ClientInv
  <2> QED
    BY <2>2, <2>3
<1>9. ASSUME RebuildEnds \/ RebuildCancelled PROVE ClientInv'
  <2>1. rebuiltFrom \in BlockOrNil /\ NoBlock \in BlockOrNil
    BY DEF SafetyInv, TypeOK, BlockOrNil
  <2> QED
    BY <1>8, <1>9, <2>1 DEF RebuildEnds, RebuildCancelled
<1>10. ASSUME PollLatestBlock PROVE ClientInv'
  BY <1>10, <1>t, ReconcileClient DEF PollLatestBlock, pollVars
<1>11. ASSUME NewBlockFilter \/ GetFilterChanges \/ FilterNotFound \/ ResolveBlockHash \/ SkipBlockHash
       PROVE  ClientInv'
  BY <1>11 DEF NewBlockFilter, GetFilterChanges, FilterNotFound, ResolveBlockHash, SkipBlockHash, ClientInv
<1>12. ASSUME Dispatch PROVE ClientInv'
  BY <1>12, DispatchClient
<1>13. ASSUME LoseFilterChanges \/ NodeStep \/ UNCHANGED vars PROVE ClientInv'
  BY <1>13 DEF LoseFilterChanges, NodeStep, vars, listenerVars, ClientInv, KnownBelow, seedVars, rebuildVars,
     notifyVars, pollVars
<1>14. ASSUME ListenLoopExits \/ Stop PROVE ClientInv'
  BY <1>14 DEF ListenLoopExits, Stop, ClientInv, KnownBelow, seedVars, rebuildVars, notifyVars, pollVars
<1> QED
  BY <1>1, <1>2, <1>3, <1>4, <1>5, <1>6, <1>7, <1>9, <1>10, <1>11, <1>12, <1>13, <1>14
     DEF Next, ListenLoop, StartUp, Rebuild, Poll

(* In client filter polling mode no block enters the chain without the consumers being told:  *)
(* after every poll they know every block of it, whatever re-orgs happened meanwhile.         *)
THEOREM ClientConsumersKnowChain ==
    FilterPollingMode = "client" => (Spec => []ConsumersKnowChain)
<1> SUFFICES ASSUME FilterPollingMode = "client" PROVE Spec => []ConsumersKnowChain
  OBVIOUS
<1>1. ClientInv => ConsumersKnowChain
  BY DEF ClientInv, ConsumersKnowChain
<1>2. SafetyInv /\ ClientInv /\ [Next]_vars => ClientInv'
  BY StepClient
<1> QED
  BY <1>1, <1>2, InitClient, SafetyInvariant, PTL DEF Spec
=============================================================================
