-------------------- MODULE ConfirmationReconciler_proofs --------------------
(***************************************************************************)
(* Theorems about ConfirmationReconciler and the ReceiptCache it runs on,  *)
(* for every block tree, in both tracking modes and with every setting of  *)
(* the receipt cache.                                                      *)
(***************************************************************************)
EXTENDS ConfirmationReconciler, BlockTree_proofs, FiniteSetTheorems

-----------------------------------------------------------------------------
(* The inductive invariant. *)

(* The cache is off in light mode, and when it is off nothing is fetched. *)
SettingsInv ==
    /\ mode = "light" => receiptCache = "off"
    /\ receiptCache = "off" => cached = NoBlock /\ toFetch = <<>> /\ fetches = <<>> /\ callbacks = <<>>

(* Whatever height is known, what lies a re-org's depth below it is settled. *)
SettledInv ==
    /\ settled \in BlocksOf(Path(head))
    /\ \A height \in {Number(head), highestBlock, currentChainHead} : height - ReorgDepth <= Number(settled)

(* In full mode the in-memory chain is a run that reaches down to the settled block. *)
ChainInv ==
    mode = "full" =>
        /\ Run(canonicalChain) /\ canonicalChain # <<>>
        /\ Number(canonicalChain[1]) - 1 <= Number(settled)
        /\ receiptCache # "off" => canonicalChain[1] \in BlocksOf(Path(settled))

(* The blocks whose receipts may still get into the cache. *)
Pending ==
    BlocksOf(toFetch)
        \cup {fetches[i].block : i \in {j \in DOMAIN fetches : fetches[j].current}}
        \cup {callbacks[i].receipt : i \in {j \in DOMAIN callbacks : callbacks[j].current}}

(* They are of the in-memory chain, or of blocks it has left behind at its front. *)
CacheInv ==
    receiptCache = "blockReceipts" =>
        \A b \in (Pending \cup {cached}) \ {NoBlock} :
            b \in BlocksOf(canonicalChain) \/ Number(b) < Number(canonicalChain[1])

(* Whatever lies a re-org's depth below a block the node once had on its chain is settled. *)
Seen(b) == \A c \in BlocksOf(Path(b)) : Number(c) + ReorgDepth <= Number(b) => c \in BlocksOf(Path(settled))

(* The blocks the listener, the cache, the caller and the call hold. *)
Remembered ==
    BlocksOf(canonicalChain) \cup BlocksOf(held) \cup BlocksOf(existing) \cup BlocksOf(confirmations)
        \cup BlocksOf(earlyList) \cup BlocksOf(lateList)
        \cup {callbacks[i].receipt : i \in DOMAIN callbacks} \cup {cached, receipt}

SeenInv == \A b \in Remembered \ {NoBlock} : Seen(b)

(* The lists of a call: which of them are there at which of its steps, and that they are runs. *)
ListInv ==
    /\ Run(held) /\ Run(confirmations) /\ Run(earlyList) /\ Run(lateList)
    /\ pc # "returned" => outcome = "none" /\ confirmations = <<>>
    /\ pc \in {"met", "late", "target", "fill"} => earlyList # <<>>
    /\ pc \notin {"met", "late", "target", "fill"} => earlyList = <<>>
    /\ pc = "fill" => lateList # <<>> /\ Number(Last(earlyList)) + 1 < Number(lateList[1])
    /\ pc # "fill" => lateList = <<>>
    /\ pc = "met" => Number(Last(earlyList)) >= Number(earlyList[1]) + target
    /\ pc \in {"compare", "ask", "judge"} => mode = "light"
    /\ pc \in {"block", "met", "late", "target", "fill"} => mode = "full" /\ target > 0
    /\ pc \in {"compare", "block"} => receipt # NoBlock
    /\ pc \in {"ask", "judge"} => expected # NoBlock

(* Unless the caller is told otherwise, the early list is what it handed back. *)
HandedBackInv ==
    /\ pc = "met" => earlyList = SubSeq(existing, 1, Len(earlyList)) /\ Len(earlyList) <= Len(existing)
    /\ pc \in {"met", "late", "target", "fill"} /\ ~newFork /\ ~rebuilt => existing \in {<<>>, earlyList}

(* The block below the late list is one the node had when the lists were made. *)
StepBackInv == pc = "fill" /\ ~steppedBack => Number(lateList[1]) - 1 <= Number(head)

(* What the answer of a light mode node said of the block that was settled then. *)
AnswerInv ==
    /\ expected \in TxBlocks \cup {NoBlock}
    /\ pc \in {"compare", "judge"} =>
        /\ answeredAt \in BlocksOf(Path(settled))
        /\ \A height \in {Number(head), highestBlock, currentChainHead} :
            height <= Number(answeredAt) + MaxReorgDepth + MaxAdvance
    /\ pc = "compare" =>
        (Number(receipt) <= Number(answeredAt) => receipt \in BlocksOf(Path(answeredAt)))
    /\ pc = "judge" => expected \notin BlocksOf(Path(answeredAt))

CallTypeOK ==
    /\ pc \in {"idle", "receipt", "compare", "ask", "judge", "block", "met", "late", "target", "fill", "returned"}
    /\ held \in Seq(Block) /\ existing \in Seq(Block) /\ target \in Nat
    /\ receipt \in BlockOrNil /\ expected \in BlockOrNil /\ answeredAt \in BlockOrNil
    /\ earlyList \in Seq(Block) /\ lateList \in Seq(Block) /\ confirmations \in Seq(Block)
    /\ newFork \in BOOLEAN /\ rebuilt \in BOOLEAN /\ steppedBack \in BOOLEAN
    /\ outcome \in {"none", "error", "panicked", "unconfirmed", "confirmed", "receipt", "nodeBehind", "dropped"}

(* Two gaps cover the depth of a re-org and what the chain grows while an answer is on its way. *)
TwoGapsSuffice == MaxReorgDepth + MaxAdvance <= 2 * CheckpointBlockGap

ListenerInv == CacheTypeOK /\ SettingsInv /\ SettledInv /\ ChainInv /\ CacheInv

(* What is left of the invariant when the chain and the listener are as they were *)
CallInv ==
    /\ CallTypeOK /\ ListInv /\ HandedBackInv
    /\ ConfirmationsAreLinked /\ ReplacedBlocksAreReported /\ PanicsOnlyAfterStepBack

LightInv == AnswerInv /\ (TwoGapsSuffice => LightAnswersAreFinal)

ReconcilerInv == ListenerInv /\ SeenInv /\ CallInv /\ StepBackInv /\ LightInv

-----------------------------------------------------------------------------
(* Lists of blocks. *)

(* The blocks of a run with numbers from m to n. *)
LEMMA BetweenProperties ==
    ASSUME NEW s, Run(s), NEW m \in Int, NEW n \in Int, m <= n + 1
    PROVE  /\ Run(Between(s, m, n))
           /\ BlocksOf(Between(s, m, n)) = {b \in BlocksOf(s) : Number(b) \in m..n}
           /\ (s # <<>> /\ m <= Number(s[1])) =>
                /\ Len(Between(s, m, n)) <= Len(s)
                /\ \A i \in 1..Len(Between(s, m, n)) : Between(s, m, n)[i] = s[i]
                /\ \A i \in 1..Len(s) : i <= Len(Between(s, m, n)) <=> Number(s[i]) <= n
<1> DEFINE k == Cardinality({i \in DOMAIN s : Number(s[i]) < m})
           l == Cardinality({i \in DOMAIN s : Number(s[i]) < n + 1})
           t == Between(s, m, n)
<1>1. /\ s \in Seq(Block) /\ Len(s) \in Nat /\ DOMAIN s = 1..Len(s) /\ BlocksOf(s) = {s[i] : i \in 1..Len(s)}
      /\ \A i \in 1..Len(s) : s[i] \in Block /\ Number(s[i]) \in Nat
      /\ s # <<>> => Len(s) > 0
  BY RunProperties
<1>2. k \in 0..Len(s) /\ \A i \in 1..Len(s) : i <= k <=> Number(s[i]) < m
  BY NumberedBelowFirst
<1>3. l \in 0..Len(s) /\ \A i \in 1..Len(s) : i <= l <=> Number(s[i]) < n + 1
  <2>1. n + 1 \in Int
    OBVIOUS
  <2> QED
    BY <2>1, NumberedBelowFirst
<1>4. t = SubSeq(s, k + 1, l)
  BY DEF Between
<1> HIDE DEF k, l
<1>5. k <= l
  <2> SUFFICES ASSUME k > l PROVE FALSE
    BY <1>2, <1>3
  <2>1. k \in 1..Len(s) /\ ~(k <= l)
    BY <1>1, <1>2, <1>3
  <2>2. Number(s[k]) < m /\ ~(Number(s[k]) < n + 1) /\ Number(s[k]) \in Nat
    BY <1>1, <1>2, <1>3, <2>1
  <2> QED
    BY <2>2
<1>6. k + 1 \in 1..(Len(s) + 1) /\ l \in ((k + 1) - 1)..Len(s)
  BY <1>1, <1>2, <1>3, <1>5
<1>7. /\ Run(t) /\ Len(t) = l - (k + 1) + 1
      /\ \A i \in 1..(l - (k + 1) + 1) : t[i] = s[(k + 1) + i - 1]
  BY <1>4, <1>6, SegmentOfRun
<1> HIDE DEF t
<1>8. Len(t) = l - k /\ \A i \in 1..(l - k) : t[i] = s[k + i]
  <2>1. l - (k + 1) + 1 = l - k
    BY <1>2, <1>3
  <2>2. ASSUME NEW i \in 1..(l - k) PROVE t[i] = s[k + i]
    <3>1. (k + 1) + i - 1 = k + i
      BY <1>2, <1>3
    <3> QED
      BY <1>7, <2>1, <3>1
  <2> QED
    BY <1>7, <2>1, <2>2
<1>9. BlocksOf(t) = {b \in BlocksOf(s) : Number(b) \in m..n}
  <2>1. BlocksOf(t) = {t[i] : i \in 1..(l - k)}
    BY <1>7, <1>8, RunProperties
  <2>2. \A i \in 1..Len(s) : Number(s[i]) \in m..n <=> i \in (k + 1)..l
    BY <1>1, <1>2, <1>3
  <2>3. ASSUME NEW b \in BlocksOf(t) PROVE b \in BlocksOf(s) /\ Number(b) \in m..n
    <3>1. PICK i \in 1..(l - k) : b = s[k + i]
      BY <1>8, <2>1
    <3>2. k + i \in (k + 1)..l /\ k + i \in 1..Len(s)
      BY <1>2, <1>3
    <3> QED
      BY <1>1, <2>2, <3>1, <3>2
  <2>4. ASSUME NEW b \in BlocksOf(s), Number(b) \in m..n PROVE b \in BlocksOf(t)
    <3>1. PICK j \in 1..Len(s) : b = s[j]
      BY <1>1
    <3>2. j \in (k + 1)..l
      BY <2>2, <2>4, <3>1
    <3>3. j - k \in 1..(l - k) /\ k + (j - k) = j
      BY <1>2, <1>3, <3>2
    <3>4. t[j - k] = s[j]
      BY <1>8, <3>3
    <3> QED
      BY <2>1, <3>1, <3>3, <3>4
  <2> QED
    BY <2>3, <2>4
<1>10. ASSUME s # <<>>, m <= Number(s[1])
       PROVE  /\ Len(t) <= Len(s)
              /\ \A i \in 1..Len(t) : t[i] = s[i]
              /\ \A i \in 1..Len(s) : i <= Len(t) <=> Number(s[i]) <= n
  <2>1. k = 0
    <3>1. 1 \in 1..Len(s)
      BY <1>1, <1>10
    <3>2. ~(Number(s[1]) < m)
      BY <1>1, <1>10, <3>1
    <3>3. ~(1 <= k)
      BY <1>2, <3>1, <3>2
    <3> QED
      BY <1>2, <3>3
  <2>2. Len(t) = l
    BY <1>3, <1>8, <2>1
  <2>3. \A i \in 1..Len(s) : Number(s[i]) < n + 1 <=> Number(s[i]) <= n
    BY <1>1
  <2>4. \A i \in 1..l : t[i] = s[i]
    BY <1>3, <1>8, <2>1
  <2> QED
    BY <1>3, <2>2, <2>3, <2>4
<1> QED
  BY <1>7, <1>9, <1>10 DEF t

-----------------------------------------------------------------------------
(* A poll, and the chain it leaves. *)

(* The operators of the instance Full, in plain terms *)
LEMMA FullOperators ==
    /\ \A b : Full!Below(b) = Cardinality({i \in DOMAIN canonicalChain : Number(canonicalChain[i]) < Number(b)})
    /\ \A h : Full!ValidOn(h) = Cardinality({i \in DOMAIN canonicalChain : canonicalChain[i] \in BlocksOf(Path(h))})
    /\ \A a, b : Full!IsParentOf(a, b) <=> IsParentOf(a, b)
    /\ \A s : Full!BlocksOf(s) = BlocksOf(s)
<1>1. \A S : Full!Cardinality(S) = Cardinality(S)
  BY DEF Cardinality, Full!Cardinality, IsFiniteSet, Full!IsFiniteSet
<1> QED
  BY <1>1 DEF Full!Below, Full!ValidOn, Full!IsParentOf, IsParentOf, Full!BlocksOf, BlocksOf

(* handleNewBlock, when the head fits: the list is cut, extended and trimmed. *)
LEMMA ExtendedChain ==
    ASSUME NEW c, Run(c), c # <<>>, NEW k \in 1..Len(c), NEW b \in Block, IsParentOf(c[k], b)
    PROVE  LET new == Full!TrimFront(Append(SubSeq(c, 1, k), b))
           IN  /\ Run(new) /\ new # <<>> /\ BlocksOf(new) \subseteq BlocksOf(c) \cup {b} /\ b \in BlocksOf(new)
               /\ new[1] = c[1] \/ (Number(new[1]) = Number(b) + 1 - MonitoredHeadLength /\ new[1] \in BlocksOf(Path(b)))
               /\ \A i \in 1..k : c[i] \in BlocksOf(new) \/ Number(c[i]) < Number(new[1])
<1>1. MonitoredHeadLength \in Nat \ {0}
  BY CacheAssumption
<1> DEFINE W == MonitoredHeadLength
           new == Shortened(Continued(c, k, b), W)
<1> HIDE DEF W
<1>2. /\ Run(new) /\ new # <<>> /\ BlocksOf(new) \subseteq BlocksOf(c) \cup {b} /\ b \in BlocksOf(new)
      /\ new[Len(new)] = b
      /\ new[1] = c[1] \/ (Number(new[1]) = Number(b) + 1 - W /\ new[1] \in BlocksOf(Path(b)))
      /\ \A i \in 1..k : c[i] \in BlocksOf(new) \/ Number(c[i]) < Number(new[1])
  <2>1. W \in Nat \ {0}
    BY <1>1 DEF W
  <2> QED
    BY <2>1, ExtendedRun, Zenon
<1>3. Full!TrimFront(Append(SubSeq(c, 1, k), b)) = new
  BY DEF Full!TrimFront, Shortened, Continued, W
<1> HIDE DEF new
<1> QED
  BY <1>2, <1>3 DEF W

(* rebuildCanonicalChain: the new list starts where the old one did, and is of the path to the head. *)
LEMMA RebuiltChain ==
    ASSUME Run(canonicalChain), canonicalChain # <<>>, NEW h \in Block, Number(canonicalChain[1]) <= Number(h)
    PROVE  LET new == Full!Rebuilt(h)
           IN  /\ Run(new) /\ new # <<>> /\ BlocksOf(new) \subseteq BlocksOf(Path(h))
               /\ Number(new[1]) = Number(canonicalChain[1])
               /\ canonicalChain[1] \in BlocksOf(Path(h)) => Full!ValidOn(h) > 0
<1>1. Full!ValidOn(h) = Cardinality({i \in DOMAIN canonicalChain : canonicalChain[i] \in BlocksOf(Path(h))})
  BY FullOperators
<1> DEFINE c == canonicalChain
           v == Cardinality({i \in DOMAIN c : c[i] \in BlocksOf(Path(h))})
           new == SubSeq(c, 1, v) \o SubSeq(Path(h), Number(c[1]) + v + 1, Number(h) + 1)
<1>2. /\ Run(new) /\ new # <<>> /\ BlocksOf(new) \subseteq BlocksOf(Path(h))
      /\ Number(new[1]) = Number(c[1]) /\ new[Len(new)] = h
      /\ c[1] \in BlocksOf(Path(h)) => v > 0
  BY SplicedRun, Zenon
<1>3. Full!Rebuilt(h) = new
  BY <1>1 DEF Full!Rebuilt
<1> HIDE DEF new, v
<1> QED
  BY <1>1, <1>2, <1>3 DEF v

LEMMA PollChain ==
    ASSUME Full!HeadTypeOK, Run(canonicalChain), canonicalChain # <<>>, Full!PollLatestBlock
    PROVE  LET old == canonicalChain
               new == canonicalChain'
               bi == head
           IN  /\ Run(new) /\ new # <<>> /\ BlocksOf(new) \subseteq BlocksOf(old) \cup BlocksOf(Path(bi))
               /\ \/ Duplicate(bi) /\ new = old
                  \/ /\ ~Duplicate(bi) /\ FirstBlock(bi) /\ new = <<bi>>
                     /\ Number(bi) <= Number(old[1])
                  \/ /\ ~Duplicate(bi) /\ Fits(bi) /\ bi \in BlocksOf(new)
                     /\ \/ new[1] = old[1]
                        \/ Number(new[1]) = Number(bi) + 1 - MonitoredHeadLength /\ new[1] \in BlocksOf(Path(bi))
                     /\ Number(old[1]) <= Number(new[1])
                     /\ Full!Below(bi) >= Len(old) =>
                            \A b \in BlocksOf(old) : b \in BlocksOf(new) \/ Number(b) < Number(new[1])
                  \/ /\ ~Duplicate(bi) /\ ~FirstBlock(bi) /\ ~Fits(bi)
                     /\ new = Full!Rebuilt(bi) /\ Number(new[1]) = Number(old[1])
                     /\ old[1] \in BlocksOf(Path(bi)) => Full!ValidOn(bi) > 0
<1> DEFINE c == canonicalChain
           new == canonicalChain'
           k == Full!Below(head)
<1>1. head \in Block /\ Number(head) \in Nat /\ head \in BlocksOf(Path(head))
  BY PathOfBlock DEF Full!HeadTypeOK, Full!NodeTypeOK
<1>2. /\ c \in Seq(Block) /\ Len(c) \in Nat /\ Len(c) > 0 /\ BlocksOf(c) = {c[i] : i \in 1..Len(c)}
      /\ \A i \in 1..Len(c) : c[i] \in Block /\ Number(c[i]) \in Nat
  BY RunProperties
<1>3. k \in 0..Len(c) /\ \A i \in 1..Len(c) : i <= k <=> Number(c[i]) < Number(head)
  <2>1. k = Cardinality({i \in DOMAIN c : Number(c[i]) < Number(head)})
    BY FullOperators
  <2> HIDE DEF k, c
  <2> QED
    BY <1>1, <2>1, NumberedBelowFirst DEF c
<1>4. new = Full!Reconciled(head)
  BY DEF Full!PollLatestBlock
<1>5. (Full!IsParentOf(c[k], head) <=> IsParentOf(c[k], head)) /\ Full!BlocksOf(c) = BlocksOf(c)
  BY FullOperators
<1>6. CASE Duplicate(head)
  <2>1. new = c
    BY <1>4, <1>5, <1>6 DEF Duplicate, Full!Reconciled
  <2> QED
    BY <1>6, <2>1
<1>7. CASE ~Duplicate(head) /\ k = 0
  <2>1. new = <<head>>
    BY <1>4, <1>5, <1>7 DEF Duplicate, Full!Reconciled
  <2>2. Run(<<head>>) /\ BlocksOf(<<head>>) = {head} /\ Len(<<head>>) = 1
    BY <1>1, SingletonRun
  <2>3. Number(head) <= Number(c[1])
    <3>1. 1 \in 1..Len(c)
      BY <1>2
    <3>2. ~(Number(c[1]) < Number(head))
      BY <1>3, <1>7, <3>1
    <3> QED
      BY <1>1, <1>2, <3>1, <3>2
  <2>4. <<head>> # <<>>
    OBVIOUS
  <2>5. FirstBlock(head)
    BY <1>7 DEF FirstBlock
  <2> QED
    BY <1>1, <1>7, <2>1, <2>2, <2>3, <2>4, <2>5
<1>8. CASE ~Duplicate(head) /\ k > 0 /\ IsParentOf(c[k], head)
  <2>1. new = Full!TrimFront(Append(SubSeq(c, 1, k), head))
    BY <1>3, <1>4, <1>5, <1>8 DEF Duplicate, Full!Reconciled
  <2>2. k \in 1..Len(c)
    BY <1>3, <1>8
  <2>3. /\ Run(new) /\ new # <<>> /\ BlocksOf(new) \subseteq BlocksOf(c) \cup {head} /\ head \in BlocksOf(new)
        /\ new[1] = c[1] \/ (Number(new[1]) = Number(head) + 1 - MonitoredHeadLength /\ new[1] \in BlocksOf(Path(head)))
        /\ \A i \in 1..k : c[i] \in BlocksOf(new) \/ Number(c[i]) < Number(new[1])
    <3> HIDE DEF k
    <3> QED
      BY <1>1, <1>8, <2>1, <2>2, ExtendedChain
  <2>4. Fits(head)
    BY <1>3, <1>8 DEF Fits, FirstBlock
  <2>5. k >= Len(c) => \A b \in BlocksOf(c) : b \in BlocksOf(new) \/ Number(b) < Number(new[1])
    <3> HIDE DEF k
    <3>1. HAVE k >= Len(c)
    <3>2. k = Len(c)
      BY <1>2, <1>3, <3>1
    <3> QED
      BY <1>2, <2>3, <3>2
  <2>6. Number(c[1]) <= Number(new[1])
    <3> HIDE DEF k
    <3>1. 1 \in 1..Len(c) /\ 1 <= k /\ 1 \in 1..Len(new) /\ Number(c[1]) \in Nat
      BY <1>2, <1>3, <1>8, <2>3, RunProperties
    <3>2. new[1] \in BlocksOf(new)
      BY <2>3, <3>1, RunProperties
    <3>3. CASE new[1] = head
      BY <1>1, <1>3, <3>1, <3>3
    <3>4. CASE new[1] \in BlocksOf(c)
      <4>1. PICK i \in 1..Len(c) : new[1] = c[i]
        BY <1>2, <3>4
      <4>2. Number(c[i]) = Number(c[1]) + i - 1
        BY RunProperties
      <4> QED
        BY <3>1, <4>1, <4>2
    <3> QED
      BY <2>3, <3>2, <3>3, <3>4
  <2> QED
    BY <1>1, <1>8, <2>3, <2>4, <2>5, <2>6
<1>9. CASE ~Duplicate(head) /\ k > 0 /\ ~IsParentOf(c[k], head)
  <2>1. new = Full!Rebuilt(head)
    BY <1>3, <1>4, <1>5, <1>9 DEF Duplicate, Full!Reconciled
  <2>2. Number(c[1]) <= Number(head)
    <3>1. 1 \in 1..Len(c) /\ 1 <= k
      BY <1>2, <1>3, <1>9
    <3>2. Number(c[1]) < Number(head)
      BY <1>3, <3>1
    <3> QED
      BY <1>1, <1>2, <3>1, <3>2
  <2>3. /\ Run(new) /\ new # <<>> /\ BlocksOf(new) \subseteq BlocksOf(Path(head))
        /\ Number(new[1]) = Number(c[1])
        /\ c[1] \in BlocksOf(Path(head)) => Full!ValidOn(head) > 0
    BY <1>1, <2>1, <2>2, RebuiltChain
  <2>4. ~FirstBlock(head) /\ ~Fits(head)
    BY <1>3, <1>9 DEF Fits, FirstBlock
  <2> QED
    BY <1>9, <2>1, <2>3, <2>4
<1> QED
  BY <1>3, <1>6, <1>7, <1>8, <1>9

-----------------------------------------------------------------------------
(* What was seen stays seen. *)

LEMMA ListenerTypes ==
    ASSUME CacheTypeOK
    PROVE  /\ head \in Block /\ settled \in Block /\ Number(head) \in Nat /\ Number(settled) \in Nat
           /\ highestBlock \in Nat /\ currentChainHead \in Nat /\ canonicalChain \in Seq(Block)
           /\ mode \in {"full", "light"} /\ receiptCache \in {"off", "blockReceipts", "txReceipts"}
           /\ cached \in BlockOrNil
           /\ toFetch \in Seq(Block) /\ fetches \in Seq([block : Block, current : BOOLEAN])
           /\ callbacks \in Seq([receipt : BlockOrNil, current : BOOLEAN])
           /\ ReorgDepth \in Nat /\ MaxReorgDepth \in Nat /\ MonitoredHeadLength \in Nat /\ MonitoredHeadLength > 0
           /\ receiptCache # "off" => ReorgDepth < MonitoredHeadLength
           /\ ReorgDepth <= MonitoredHeadLength /\ CheckpointBlockGap \in Nat
           /\ mode = "light" => ReorgDepth = MaxReorgDepth
<1>1. head \in Block /\ settled \in Block /\ highestBlock \in Nat /\ currentChainHead \in Nat /\ canonicalChain \in Seq(Block)
  BY DEF CacheTypeOK, Full!HeadTypeOK, Full!NodeTypeOK
<1>2. Number(head) \in Nat /\ Number(settled) \in Nat
  BY <1>1, PathOfBlock
<1> QED
  BY <1>1, <1>2, CacheAssumption DEF CacheTypeOK, ReorgDepth, DeepReorgs

LEMMA BlocksAreBlocks == ASSUME NEW s \in Seq(Block) PROVE BlocksOf(s) \subseteq Block /\ BlocksOf(s) = {s[i] : i \in 1..Len(s)}
  BY LenProperties, ElementOfSeq DEF BlocksOf

LEMMA RememberedTypes == CacheTypeOK /\ CallTypeOK => Remembered \subseteq BlockOrNil
<1> SUFFICES ASSUME CacheTypeOK, CallTypeOK PROVE Remembered \subseteq BlockOrNil
  OBVIOUS
<1>1. /\ canonicalChain \in Seq(Block) /\ held \in Seq(Block) /\ existing \in Seq(Block)
      /\ confirmations \in Seq(Block) /\ earlyList \in Seq(Block) /\ lateList \in Seq(Block)
      /\ cached \in BlockOrNil /\ receipt \in BlockOrNil
  BY ListenerTypes DEF CallTypeOK
<1>2. \A i \in DOMAIN callbacks : callbacks[i].receipt \in BlockOrNil
  <2>1. callbacks \in Seq([receipt : BlockOrNil, current : BOOLEAN])
    BY ListenerTypes
  <2>2. \A i \in DOMAIN callbacks : callbacks[i] \in [receipt : BlockOrNil, current : BOOLEAN]
    BY <2>1, LenProperties, ElementOfSeq
  <2> QED
    BY <2>2
<1> QED
  BY <1>1, <1>2, BlocksAreBlocks DEF Remembered, BlockOrNil

LEMMA SeenOnHead ==
    ASSUME CacheTypeOK, SettledInv, NEW b \in BlocksOf(Path(head))
    PROVE  Seen(b)
<1>1. head \in Block /\ settled \in Block /\ b \in Block /\ Number(b) \in Nat /\ Number(b) <= Number(head)
      /\ Number(head) \in Nat /\ Number(settled) \in Nat /\ ReorgDepth \in Nat
  BY ListenerTypes, PathOfBlock, OnPath
<1> SUFFICES ASSUME NEW c \in BlocksOf(Path(b)), Number(c) + ReorgDepth <= Number(b) PROVE c \in BlocksOf(Path(settled))
  BY DEF Seen
<1>2. c \in Block /\ Number(c) \in Nat /\ c \in BlocksOf(Path(head))
  BY <1>1, PathOfBlock, OnPathTransitive
<1>3. settled \in BlocksOf(Path(head)) /\ Number(head) - ReorgDepth <= Number(settled)
  BY DEF SettledInv
<1>4. Number(c) <= Number(settled)
  BY <1>1, <1>2, <1>3
<1> QED
  BY <1>1, <1>2, <1>3, <1>4, LowerOnPath

LEMMA SeenStep ==
    ASSUME CacheTypeOK, CallTypeOK, SettledInv, SeenInv,
           settled' \in Block, settled \in BlocksOf(Path(settled')), UNCHANGED configVars,
           Remembered' \ {NoBlock} \subseteq Remembered \cup BlocksOf(Path(head))
    PROVE  SeenInv'
<1>1. \A b \in (Remembered \cup BlocksOf(Path(head))) \ {NoBlock} : Seen(b)
  BY SeenOnHead DEF SeenInv
<1>2. ReorgDepth' = ReorgDepth
  BY DEF ReorgDepth, DeepReorgs, configVars
<1> SUFFICES ASSUME NEW b \in Remembered' \ {NoBlock}, NEW c \in BlocksOf(Path(b)), Number(c) + ReorgDepth <= Number(b)
             PROVE  c \in BlocksOf(Path(settled'))
  BY <1>2 DEF SeenInv, Seen
<1>3. c \in BlocksOf(Path(settled))
  BY <1>1 DEF Seen
<1> QED
  BY <1>3, OnPathTransitive

(* Whatever is on the path to a seen block is seen. *)
LEMMA SeenBelow ==
    ASSUME CacheTypeOK, NEW b \in Block, Seen(b), NEW c \in BlocksOf(Path(b))
    PROVE  Seen(c)
<1>1. c \in Block /\ Number(c) \in Nat /\ Number(b) \in Nat /\ Number(c) <= Number(b) /\ ReorgDepth \in Nat
  BY ListenerTypes, PathOfBlock, OnPath
<1> SUFFICES ASSUME NEW d \in BlocksOf(Path(c)), Number(d) + ReorgDepth <= Number(c) PROVE d \in BlocksOf(Path(settled))
  BY DEF Seen
<1>2. d \in BlocksOf(Path(b)) /\ Number(d) \in Nat
  BY <1>1, OnPathTransitive, PathOfBlock
<1>3. Number(d) + ReorgDepth <= Number(b)
  BY <1>1, <1>2
<1> QED
  BY <1>2, <1>3 DEF Seen

-----------------------------------------------------------------------------
(* The listener and the cache. *)

LEMMA RemovedAt ==
    ASSUME NEW S, NEW s \in Seq(S), NEW i \in DOMAIN s
    PROVE  /\ RemoveAt(s, i) \in Seq(S) /\ Len(RemoveAt(s, i)) = Len(s) - 1
           /\ \A j \in DOMAIN RemoveAt(s, i) : \E k \in DOMAIN s : RemoveAt(s, i)[j] = s[k]
<1> DEFINE a == SubSeq(s, 1, i - 1)
           b == SubSeq(s, i + 1, Len(s))
<1>1. Len(s) \in Nat /\ DOMAIN s = 1..Len(s) /\ (\A j \in 1..Len(s) : s[j] \in S) /\ i \in 1..Len(s)
  BY LenProperties, ElementOfSeq
<1>2. a \in Seq(S) /\ Len(a) = i - 1 /\ \A j \in 1..(i - 1) : a[j] = s[j]
  <2>1. 1 \in Nat /\ i - 1 \in Nat /\ \A j \in 1..(i - 1) : s[j] \in S
    BY <1>1
  <2>2. a \in Seq(S) /\ Len(a) = (IF 1 <= i - 1 THEN (i - 1) - 1 + 1 ELSE 0) /\ \A j \in 1..((i - 1) - 1 + 1) : a[j] = s[1 + j - 1]
    BY <1>1, <2>1, SubSeqProperties
  <2> QED
    BY <1>1, <2>2
<1>3. b \in Seq(S) /\ Len(b) = Len(s) - i /\ \A j \in 1..(Len(s) - i) : b[j] = s[i + j]
  <2>1. i + 1 \in Nat /\ \A j \in (i + 1)..Len(s) : s[j] \in S
    BY <1>1
  <2>2. /\ b \in Seq(S)
        /\ Len(b) = (IF i + 1 <= Len(s) THEN Len(s) - (i + 1) + 1 ELSE 0)
        /\ \A j \in 1..(Len(s) - (i + 1) + 1) : b[j] = s[(i + 1) + j - 1]
    BY <1>1, <2>1, SubSeqProperties
  <2>3. ASSUME NEW j \in 1..(Len(s) - i) PROVE b[j] = s[i + j]
    <3>1. j \in 1..(Len(s) - (i + 1) + 1) /\ (i + 1) + j - 1 = i + j
      BY <1>1
    <3> QED
      BY <2>2, <3>1
  <2> QED
    BY <1>1, <2>2, <2>3
<1>4. RemoveAt(s, i) = a \o b
  BY DEF RemoveAt
<1> HIDE DEF a, b
<1>5. /\ a \o b \in Seq(S) /\ Len(a \o b) = Len(a) + Len(b)
      /\ \A j \in 1..(Len(a) + Len(b)) : (a \o b)[j] = IF j <= Len(a) THEN a[j] ELSE b[j - Len(a)]
  BY <1>2, <1>3, ConcatProperties
<1>6. Len(a \o b) = Len(s) - 1 /\ DOMAIN (a \o b) = 1..(Len(s) - 1)
  <2>1. Len(a \o b) = Len(s) - 1
    BY <1>1, <1>2, <1>3, <1>5
  <2> QED
    BY <1>5, <2>1, LenProperties
<1>7. ASSUME NEW j \in 1..(Len(s) - 1) PROVE \E k \in DOMAIN s : (a \o b)[j] = s[k]
  <2>1. CASE j <= i - 1
    BY <1>1, <1>2, <1>3, <1>5, <2>1
  <2>2. CASE j > i - 1
    <3>1. j - (i - 1) \in 1..(Len(s) - i) /\ i + (j - (i - 1)) = j + 1 /\ j + 1 \in DOMAIN s
      BY <1>1, <2>2
    <3>2. ~(j <= Len(a)) /\ j \in 1..(Len(a) + Len(b))
      BY <1>1, <1>2, <1>3, <2>2
    <3>3. (a \o b)[j] = b[j - (i - 1)]
      BY <1>2, <1>5, <3>2
    <3> QED
      BY <1>3, <3>1, <3>3
  <2>3. j <= i - 1 \/ j > i - 1
    BY <1>1
  <2> QED
    BY <2>1, <2>2, <2>3
<1> QED
  BY <1>4, <1>5, <1>6, <1>7

LEMMA Appended ==
    ASSUME NEW S, NEW s \in Seq(S), NEW e \in S
    PROVE  /\ Append(s, e) \in Seq(S) /\ Len(Append(s, e)) = Len(s) + 1
           /\ \A j \in DOMAIN Append(s, e) : Append(s, e)[j] = e \/ \E k \in DOMAIN s : Append(s, e)[j] = s[k]
<1>1. Append(s, e) \in Seq(S) /\ Len(Append(s, e)) = Len(s) + 1 /\ Append(s, e)[Len(s) + 1] = e
      /\ \A j \in 1..Len(s) : Append(s, e)[j] = s[j]
  BY AppendProperties
<1>2. DOMAIN s = 1..Len(s) /\ Len(s) \in Nat /\ DOMAIN Append(s, e) = 1..(Len(s) + 1)
  BY <1>1, LenProperties
<1> QED
  BY <1>1, <1>2

(* What a fetch yields: nothing, what the cache has, or what the node has. *)
LEMMA FetchedReceiptType ==
    ASSUME ListenerInv, receiptCache # "off", NEW b \in Block
    PROVE  /\ FetchedReceipt(b) \in {NoBlock, cached} \cup BlocksOf(Path(head))
           /\ receiptCache = "blockReceipts" => FetchedReceipt(b) \in {NoBlock, b}
<1>1. head \in Block /\ receiptCache \in {"blockReceipts", "txReceipts"} /\ Number(b) \in Nat
  BY ListenerTypes, PathOfBlock DEF ListenerInv
<1>2. CASE receiptCache = "blockReceipts"
  <2>1. FetchedReceipt(b) \in {NoBlock, b} /\ (FetchedReceipt(b) = b => b = NoBlock \/ BlockAt(head, Number(b)) = b)
    BY <1>2 DEF FetchedReceipt
  <2>2. b # NoBlock
    BY BlockTreeAssumption
  <2>3. BlockAt(head, Number(b)) = b => b \in BlocksOf(Path(head))
    BY <2>2 DEF BlockAt, BlocksOf
  <2> QED
    BY <2>1, <2>2, <2>3
<1>3. CASE receiptCache = "txReceipts"
  <2>1. FetchedReceipt(b) \in {NoBlock, cached, ReceiptOn(head)}
    BY <1>3 DEF FetchedReceipt
  <2>2. ReceiptOn(head) \in {NoBlock} \cup BlocksOf(Path(head))
    BY DEF ReceiptOn
  <2> QED
    BY <1>3, <2>1, <2>2
<1> QED
  BY <1>1, <1>2, <1>3

(* A step of the fetcher or the cache leaves the chain as it is. *)
LEMMA CacheOnly ==
    ASSUME ListenerInv, UNCHANGED <<chainVars, configVars>>,
           cached' \in BlockOrNil, toFetch' \in Seq(Block),
           fetches' \in Seq([block : Block, current : BOOLEAN]), Len(fetches') <= MaxAsyncBlockFetchConcurrency,
           callbacks' \in Seq([receipt : BlockOrNil, current : BOOLEAN]),
           receiptCache = "off" => UNCHANGED cacheVars,
           receiptCache = "blockReceipts" => Pending' \cup {cached'} \subseteq Pending \cup {cached, NoBlock}
    PROVE  ListenerInv'
<1>1. CacheTypeOK'
  BY DEF ListenerInv, CacheTypeOK, chainVars, configVars, Full!HeadTypeOK, Full!NodeTypeOK
<1>2. SettingsInv'
  BY DEF ListenerInv, SettingsInv, configVars, cacheVars
<1>3. SettledInv' /\ ChainInv'
  BY DEF ListenerInv, SettledInv, ChainInv, chainVars, configVars, ReorgDepth, DeepReorgs
<1>4. CacheInv'
  <2>1. UNCHANGED <<canonicalChain, receiptCache>>
    BY DEF chainVars, configVars
  <2> QED
    BY <2>1 DEF ListenerInv, CacheInv
<1> QED
  BY <1>1, <1>2, <1>3, <1>4 DEF ListenerInv

LEMMA RememberedByCache ==
    ASSUME CacheTypeOK, CallTypeOK, SettledInv, SeenInv, UNCHANGED <<chainVars, configVars, callVars>>,
           cached' \in {NoBlock} \cup Remembered \cup BlocksOf(Path(head)),
           \A i \in DOMAIN callbacks' : callbacks'[i].receipt \in Remembered \cup BlocksOf(Path(head))
    PROVE  SeenInv'
<1>1. UNCHANGED <<canonicalChain, held, existing, confirmations, earlyList, lateList, receipt, settled>>
  BY DEF chainVars, callVars, inputVars, listVars, answerVars
<1>2. Remembered' \ {NoBlock} \subseteq Remembered \cup BlocksOf(Path(head))
  BY <1>1 DEF Remembered
<1>3. settled' \in Block /\ settled \in BlocksOf(Path(settled'))
  BY <1>1, ListenerTypes, PathOfBlock
<1> QED
  BY <1>2, <1>3, SeenStep

LEMMA CacheStepSafety ==
    ASSUME ListenerInv, CallTypeOK, SeenInv, CacheStep
    PROVE  ListenerInv' /\ SeenInv' /\ UNCHANGED <<chainVars, configVars, callVars>>
<1> DEFINE Fetch == [block : Block, current : BOOLEAN]
           Callback == [receipt : BlockOrNil, current : BOOLEAN]
<1>1. /\ cached \in BlockOrNil /\ toFetch \in Seq(Block) /\ fetches \in Seq(Fetch) /\ callbacks \in Seq(Callback)
      /\ Len(fetches) \in Nat /\ Len(fetches) <= MaxAsyncBlockFetchConcurrency /\ MaxAsyncBlockFetchConcurrency \in Nat
      /\ head \in Block /\ CacheTypeOK /\ SettledInv
  BY ListenerTypes, LenProperties, CacheAssumption DEF ListenerInv, CacheTypeOK
<1>2. /\ \A i \in DOMAIN fetches : fetches[i] \in Fetch /\ fetches[i].block \in Block
      /\ \A i \in DOMAIN callbacks : callbacks[i] \in Callback /\ callbacks[i].receipt \in Remembered
  <2>1. \A i \in DOMAIN fetches : fetches[i] \in Fetch
    <3> HIDE DEF Fetch
    <3> QED
      BY <1>1, LenProperties, ElementOfSeq
  <2>2. \A i \in DOMAIN callbacks : callbacks[i] \in Callback
    <3> HIDE DEF Callback
    <3> QED
      BY <1>1, LenProperties, ElementOfSeq
  <2>3. \A i \in DOMAIN callbacks : callbacks[i].receipt \in Remembered
    BY DEF Remembered
  <2> QED
    BY <2>1, <2>2, <2>3
<1>3. cached \in Remembered /\ BlocksOf(Path(head)) \subseteq Block
  BY <1>1, PathOfBlock DEF Remembered
<1>4. receiptCache = "off" => cached = NoBlock /\ toFetch = <<>> /\ fetches = <<>> /\ callbacks = <<>>
  BY DEF ListenerInv, SettingsInv
<1>5. CASE RequestReceipts /\ UNCHANGED callVars
  <2> DEFINE request == [block |-> Head(toFetch), current |-> TRUE]
  <2>1. /\ toFetch # <<>> /\ Len(fetches) < MaxAsyncBlockFetchConcurrency
        /\ fetches' = Append(fetches, request) /\ toFetch' = Tail(toFetch)
        /\ UNCHANGED <<chainVars, configVars, cached, callbacks>>
    BY <1>5 DEF RequestReceipts, SlotFree
  <2>2. /\ Head(toFetch) \in BlocksOf(toFetch) /\ Head(toFetch) \in Block
        /\ Tail(toFetch) \in Seq(Block) /\ BlocksOf(Tail(toFetch)) \subseteq BlocksOf(toFetch)
    <3>1. Len(toFetch) > 0 /\ Len(toFetch) \in Nat /\ Head(toFetch) = toFetch[1] /\ BlocksOf(toFetch) = {toFetch[i] : i \in 1..Len(toFetch)}
      BY <1>1, <2>1, EmptySeq, LenProperties, HeadTailProperties, BlocksAreBlocks
    <3>2. Tail(toFetch) \in Seq(Block) /\ Len(Tail(toFetch)) = Len(toFetch) - 1
          /\ \A i \in 1..Len(Tail(toFetch)) : Tail(toFetch)[i] = toFetch[i + 1]
      BY <1>1, <2>1, HeadTailProperties
    <3>3. BlocksOf(Tail(toFetch)) = {Tail(toFetch)[i] : i \in 1..Len(Tail(toFetch))}
      BY <3>2, BlocksAreBlocks
    <3>4. \A i \in 1..Len(Tail(toFetch)) : i + 1 \in 1..Len(toFetch)
      BY <3>1, <3>2
    <3>5. Head(toFetch) \in BlocksOf(toFetch) /\ BlocksOf(toFetch) \subseteq Block
      BY <1>1, <3>1, BlocksAreBlocks
    <3> QED
      BY <3>1, <3>2, <3>3, <3>4, <3>5
  <2>3. request \in Fetch
    BY <2>2
  <2>4. /\ fetches' \in Seq(Fetch) /\ Len(fetches') = Len(fetches) + 1
        /\ \A j \in DOMAIN fetches' : fetches'[j] = request \/ \E k \in DOMAIN fetches : fetches'[j] = fetches[k]
    <3> HIDE DEF Fetch, request
    <3> QED
      BY <1>1, <2>1, <2>3, Appended
  <2>5. Pending' \cup {cached'} \subseteq Pending \cup {cached, NoBlock}
    <3>1. \A j \in DOMAIN fetches' : fetches'[j].current =>
            fetches'[j].block \in BlocksOf(toFetch) \cup {fetches[i].block : i \in {k \in DOMAIN fetches : fetches[k].current}}
      BY <2>2, <2>4
    <3> QED
      BY <2>1, <2>2, <3>1 DEF Pending
  <2>6. receiptCache # "off"
    BY <1>4, <2>1
  <2>7. ListenerInv'
    BY <1>1, <2>1, <2>2, <2>4, <2>5, <2>6, CacheOnly
  <2>8. SeenInv'
    BY <1>1, <1>2, <1>3, <1>5, <2>1, RememberedByCache
  <2> QED
    BY <1>5, <2>1, <2>7, <2>8
<1>6. CASE FetchReturns /\ UNCHANGED callVars
  <2>1. PICK i \in DOMAIN fetches :
          /\ FetchedReceipt(fetches[i].block) # NoBlock
          /\ callbacks' = Append(callbacks, [receipt |-> FetchedReceipt(fetches[i].block), current |-> fetches[i].current])
          /\ fetches' = RemoveAt(fetches, i)
    BY <1>6 DEF FetchReturns, ReturnSlot
  <2>2. UNCHANGED <<chainVars, configVars, cached, toFetch, callVars>>
    BY <1>6 DEF FetchReturns
  <2> DEFINE r == FetchedReceipt(fetches[i].block)
             answer == [receipt |-> r, current |-> fetches[i].current]
  <2>3. receiptCache # "off"
    <3>1. DOMAIN (<<>>) = {}
      BY LenProperties, EmptySeq
    <3> QED
      BY <1>4, <3>1
  <2>4. r \in {cached} \cup BlocksOf(Path(head)) /\ (receiptCache = "blockReceipts" => r = fetches[i].block)
    BY <1>2, <2>1, <2>3, FetchedReceiptType
  <2>5. r \in BlockOrNil /\ answer \in Callback
    BY <1>1, <1>2, <1>3, <2>4 DEF BlockOrNil
  <2>6. /\ callbacks' \in Seq(Callback)
        /\ \A j \in DOMAIN callbacks' : callbacks'[j] = answer \/ \E k \in DOMAIN callbacks : callbacks'[j] = callbacks[k]
    <3>1. callbacks' = Append(callbacks, answer)
      BY <2>1
    <3> HIDE DEF Callback, answer
    <3> QED
      BY <1>1, <2>5, <3>1, Appended
  <2>7. /\ fetches' \in Seq(Fetch) /\ Len(fetches') = Len(fetches) - 1
        /\ \A j \in DOMAIN fetches' : \E k \in DOMAIN fetches : fetches'[j] = fetches[k]
    <3> HIDE DEF Fetch
    <3> QED
      BY <1>1, <2>1, RemovedAt
  <2>8. receiptCache = "blockReceipts" => Pending' \cup {cached'} \subseteq Pending \cup {cached, NoBlock}
    <3> HAVE receiptCache = "blockReceipts"
    <3>1. r = fetches[i].block
      BY <2>4
    <3> DEFINE F == {fetches[j].block : j \in {k \in DOMAIN fetches : fetches[k].current}}
               C == {callbacks[j].receipt : j \in {k \in DOMAIN callbacks : callbacks[k].current}}
    <3>2. \A j \in DOMAIN callbacks' : callbacks'[j].current => callbacks'[j].receipt \in F \cup C
      BY <2>6, <3>1
    <3>3. \A j \in DOMAIN fetches' : fetches'[j].current => fetches'[j].block \in F
      BY <2>7
    <3> QED
      BY <2>2, <3>2, <3>3 DEF Pending
  <2>9. ListenerInv'
    BY <1>1, <2>2, <2>3, <2>6, <2>7, <2>8, CacheOnly
  <2>10. \A j \in DOMAIN callbacks' : callbacks'[j].receipt \in Remembered \cup BlocksOf(Path(head))
    BY <1>2, <1>3, <2>4, <2>6
  <2>11. SeenInv'
    BY <1>1, <1>3, <2>2, <2>10, RememberedByCache
  <2> QED
    BY <2>2, <2>9, <2>11
<1>7. CASE FetchFails /\ UNCHANGED callVars
  <2>1. PICK i \in DOMAIN fetches : fetches' = RemoveAt(fetches, i)
    BY <1>7 DEF FetchFails, ReturnSlot
  <2>2. UNCHANGED <<chainVars, configVars, cached, toFetch, callbacks, callVars>>
    BY <1>7 DEF FetchFails
  <2>3. receiptCache # "off"
    <3>1. DOMAIN (<<>>) = {}
      BY LenProperties, EmptySeq
    <3> QED
      BY <1>4, <3>1
  <2>4. /\ fetches' \in Seq(Fetch) /\ Len(fetches') = Len(fetches) - 1
        /\ \A j \in DOMAIN fetches' : \E k \in DOMAIN fetches : fetches'[j] = fetches[k]
    <3> HIDE DEF Fetch
    <3> QED
      BY <1>1, <2>1, RemovedAt
  <2>5. Pending' \cup {cached'} \subseteq Pending \cup {cached, NoBlock}
    BY <2>2, <2>4 DEF Pending
  <2>6. ListenerInv'
    BY <1>1, <2>2, <2>3, <2>4, <2>5, CacheOnly
  <2>7. SeenInv'
    BY <1>1, <1>2, <1>3, <2>2, RememberedByCache
  <2> QED
    BY <2>2, <2>6, <2>7
<1>8. CASE StoreReceipts /\ UNCHANGED callVars
  <2>1. PICK i \in DOMAIN callbacks :
          /\ cached' = IF callbacks[i].current /\ callbacks[i].receipt # NoBlock THEN callbacks[i].receipt ELSE cached
          /\ callbacks' = RemoveAt(callbacks, i)
    BY <1>8 DEF StoreReceipts
  <2>2. UNCHANGED <<chainVars, configVars, toFetch, fetches, callVars>>
    BY <1>8 DEF StoreReceipts
  <2>3. receiptCache # "off"
    <3>1. DOMAIN (<<>>) = {}
      BY LenProperties, EmptySeq
    <3> QED
      BY <1>4, <3>1
  <2>4. /\ callbacks' \in Seq(Callback)
        /\ \A j \in DOMAIN callbacks' : \E k \in DOMAIN callbacks : callbacks'[j] = callbacks[k]
    <3> HIDE DEF Callback
    <3> QED
      BY <1>1, <2>1, RemovedAt
  <2>5. cached' \in {cached} \cup {callbacks[j].receipt : j \in {k \in DOMAIN callbacks : callbacks[k].current}}
    BY <2>1
  <2>6. cached' \in BlockOrNil /\ cached' \in Remembered
    BY <1>1, <1>2, <1>3, <2>5
  <2>7. Pending' \cup {cached'} \subseteq Pending \cup {cached, NoBlock}
    BY <2>2, <2>4, <2>5 DEF Pending
  <2>8. ListenerInv'
    BY <1>1, <2>2, <2>3, <2>4, <2>6, <2>7, CacheOnly
  <2>9. SeenInv'
    BY <1>1, <1>2, <2>2, <2>4, <2>6, RememberedByCache
  <2> QED
    BY <2>2, <2>8, <2>9
<1>9. CASE Evict /\ UNCHANGED callVars
  <2>1. cached # NoBlock /\ cached' = NoBlock /\ UNCHANGED <<chainVars, configVars, toFetch, fetches, callbacks, callVars>>
    BY <1>9 DEF Evict
  <2>2. Pending' \cup {cached'} \subseteq Pending \cup {cached, NoBlock}
    BY <2>1 DEF Pending
  <2>3. ListenerInv'
    BY <1>1, <1>4, <2>1, <2>2, CacheOnly DEF BlockOrNil
  <2>4. SeenInv'
    BY <1>1, <1>2, <2>1, RememberedByCache
  <2> QED
    BY <2>1, <2>3, <2>4
<1> QED
  BY <1>5, <1>6, <1>7, <1>8, <1>9 DEF CacheStep, Fetcher

LEMMA OutdatedRequests ==
    ASSUME NEW R, NEW s \in Seq(R), \A r \in R : [r EXCEPT !.current = FALSE] \in R
    PROVE  /\ Outdated(s) \in Seq(R) /\ Len(Outdated(s)) = Len(s) /\ DOMAIN Outdated(s) = DOMAIN s
           /\ \A i \in DOMAIN s : Outdated(s)[i] = [s[i] EXCEPT !.current = FALSE]
           /\ s = <<>> => Outdated(s) = <<>>
<1> DEFINE o == Outdated(s)
<1>1. Len(s) \in Nat /\ DOMAIN s = 1..Len(s) /\ \A i \in 1..Len(s) : s[i] \in R
  BY LenProperties, ElementOfSeq
<1>2. o = [i \in 1..Len(s) |-> [s[i] EXCEPT !.current = FALSE]]
  BY <1>1 DEF Outdated
<1>3. o \in [1..Len(s) -> R]
  BY <1>1, <1>2
<1>4. o \in Seq(R) /\ Len(o) = Len(s) /\ DOMAIN o = DOMAIN s
  <2>1. o \in Seq(R)
    BY <1>1, <1>3, SeqDef
  <2>2. DOMAIN o = 1..Len(s)
    BY <1>2
  <2> HIDE DEF o
  <2> QED
    BY <1>1, <2>1, <2>2, LenProperties
<1>5. ASSUME s = <<>> PROVE o = <<>>
  <2>1. Len(o) = 0
    BY <1>4, <1>5, EmptySeq
  <2> HIDE DEF o
  <2> QED
    BY <1>4, <2>1, EmptySeq
<1>6. \A i \in DOMAIN s : o[i] = [s[i] EXCEPT !.current = FALSE]
  BY <1>1, <1>2
<1> QED
  BY <1>4, <1>5, <1>6

LEMMA FullPollSafety ==
    ASSUME ListenerInv, CallTypeOK, SeenInv, PollLatestBlock, UNCHANGED callVars,
           Full!HeadTypeOK', SettledInv', UNCHANGED <<head, reorgs, nodeFilter, filterQueue, settled>>
    PROVE  ListenerInv' /\ SeenInv'
<1> DEFINE c == canonicalChain
           new == canonicalChain'
           Fetch == [block : Block, current : BOOLEAN]
           Callback == [receipt : BlockOrNil, current : BOOLEAN]
<1>1. /\ CacheTypeOK /\ SettledInv /\ SettingsInv /\ ChainInv /\ CacheInv /\ Full!HeadTypeOK
      /\ mode = "full" /\ Full!PollLatestBlock /\ UNCHANGED configVars /\ UNCHANGED <<mode, receiptCache>>
      /\ toFetch' = Requested(head)
      /\ IF Purges(head) THEN ResetReceiptCache ELSE UNCHANGED <<cached, fetches, callbacks>>
  BY DEF ListenerInv, PollLatestBlock, configVars, CacheTypeOK
<1>2. /\ head \in Block /\ settled \in Block /\ Number(head) \in Nat /\ Number(settled) \in Nat
      /\ cached \in BlockOrNil /\ toFetch \in Seq(Block) /\ fetches \in Seq(Fetch) /\ callbacks \in Seq(Callback)
      /\ ReorgDepth \in Nat /\ MonitoredHeadLength \in Nat /\ ReorgDepth <= MonitoredHeadLength
      /\ receiptCache # "off" => ReorgDepth < MonitoredHeadLength
      /\ receiptCache \in {"off", "blockReceipts", "txReceipts"}
  BY <1>1, ListenerTypes
<1>3. /\ Run(c) /\ c # <<>> /\ Number(c[1]) - 1 <= Number(settled)
      /\ receiptCache # "off" => c[1] \in BlocksOf(Path(settled))
  BY <1>1 DEF ChainInv
<1>4. settled \in BlocksOf(Path(head)) /\ Number(head) - ReorgDepth <= Number(settled)
  BY <1>1 DEF SettledInv
<1>5. /\ Run(new) /\ new # <<>> /\ BlocksOf(new) \subseteq BlocksOf(c) \cup BlocksOf(Path(head))
      /\ \/ Duplicate(head) /\ new = c
         \/ /\ ~Duplicate(head) /\ FirstBlock(head) /\ new = <<head>>
            /\ Number(head) <= Number(c[1])
         \/ /\ ~Duplicate(head) /\ Fits(head) /\ head \in BlocksOf(new)
            /\ \/ new[1] = c[1]
               \/ Number(new[1]) = Number(head) + 1 - MonitoredHeadLength /\ new[1] \in BlocksOf(Path(head))
            /\ Number(c[1]) <= Number(new[1])
            /\ Full!Below(head) >= Len(c) =>
                   \A b \in BlocksOf(c) : b \in BlocksOf(new) \/ Number(b) < Number(new[1])
         \/ /\ ~Duplicate(head) /\ ~FirstBlock(head) /\ ~Fits(head)
            /\ new = Full!Rebuilt(head) /\ Number(new[1]) = Number(c[1])
            /\ c[1] \in BlocksOf(Path(head)) => Full!ValidOn(head) > 0
  BY <1>1, <1>3, PollChain
<1>6. /\ c[1] \in Block /\ Number(c[1]) \in Nat /\ c[1] \in BlocksOf(c)
      /\ new[1] \in Block /\ Number(new[1]) \in Nat /\ new[1] \in BlocksOf(new)
      /\ Len(c) \in Nat
  <2>1. ASSUME NEW s, Run(s), s # <<>> PROVE s[1] \in Block /\ Number(s[1]) \in Nat /\ s[1] \in BlocksOf(s) /\ Len(s) \in Nat
    <3>1. 1 \in 1..Len(s)
      BY <2>1, RunProperties
    <3> QED
      BY <2>1, <3>1, RunProperties
  <2> QED
    BY <1>3, <1>5, <2>1
<1>7. ASSUME receiptCache # "off" PROVE c[1] \in BlocksOf(Path(head)) /\ Number(c[1]) <= Number(settled) /\ Number(settled) <= Number(head)
  BY <1>2, <1>3, <1>4, <1>6, <1>7, OnPath, OnPathTransitive
<1>8. Number(new[1]) - 1 <= Number(settled)
  <2>1. CASE new = <<head>> /\ Number(head) <= Number(c[1])
    <3>1. new[1] = head
      BY <2>1
    <3> QED
      BY <1>2, <1>3, <1>6, <2>1, <3>1
  <2>2. CASE Number(new[1]) = Number(head) + 1 - MonitoredHeadLength
    BY <1>2, <1>4, <1>6, <2>2
  <2>3. CASE new = c \/ new[1] = c[1] \/ Number(new[1]) = Number(c[1])
    BY <1>3, <2>3
  <2> HIDE DEF c, new
  <2> QED
    BY <1>5, <2>1, <2>2, <2>3
<1>9. ASSUME receiptCache # "off" PROVE new[1] \in BlocksOf(Path(settled))
  <2>1. CASE FirstBlock(head) /\ new = <<head>> /\ Number(head) <= Number(c[1])
    <3>1. Number(settled) = Number(head)
      BY <1>2, <1>6, <1>7, <1>9, <2>1
    <3>2. settled = head
      <4>1. head \in BlocksOf(Path(head)) /\ settled \in BlocksOf(Path(head))
        BY <1>2, <1>4, PathOfBlock
      <4> QED
        BY <1>2, <3>1, <4>1, OneBlockANumber
    <3>3. new[1] = head
      BY <2>1
    <3> QED
      BY <1>2, <3>2, <3>3, PathOfBlock
  <2>2. CASE Number(new[1]) = Number(head) + 1 - MonitoredHeadLength /\ new[1] \in BlocksOf(Path(head))
    <3>1. Number(new[1]) <= Number(settled)
      BY <1>2, <1>4, <1>6, <1>9, <2>2
    <3> QED
      BY <1>2, <1>4, <2>2, <3>1, LowerOnPath
  <2>3. CASE ~Duplicate(head) /\ ~FirstBlock(head) /\ ~Fits(head) /\ new = Full!Rebuilt(head) /\ Number(new[1]) = Number(c[1])
    <3>1. new[1] \in BlocksOf(Path(head))
      <4>1. Number(c[1]) <= Number(head)
        BY <1>2, <1>6, <1>7, <1>9
      <4>2. BlocksOf(Full!Rebuilt(head)) \subseteq BlocksOf(Path(head))
        BY <1>2, <1>3, <4>1, RebuiltChain
      <4> QED
        BY <1>6, <2>3, <4>2
    <3>2. new[1] = c[1]
      BY <1>2, <1>6, <1>7, <1>9, <2>3, <3>1, OnPath
    <3> QED
      BY <1>3, <1>9, <3>2
  <2>4. CASE new = c \/ new[1] = c[1]
    BY <1>3, <1>9, <2>4
  <2> HIDE DEF c, new
  <2> QED
    BY <1>5, <2>1, <2>2, <2>3, <2>4
<1>10. ChainInv'
  BY <1>1, <1>5, <1>8, <1>9 DEF ChainInv
<1>11. toFetch' \in Seq(Block) /\ BlocksOf(toFetch') \subseteq BlocksOf(new) /\ (receiptCache = "off" \/ Duplicate(head) => toFetch' = <<>>)
  <2>1. <<>> \in Seq(Block) /\ BlocksOf(<<>>) = {}
    BY EmptyRun, EmptySeq
  <2>2. CASE receiptCache = "off" \/ Duplicate(head)
    <3>1. toFetch' = <<>>
      BY <1>1, <2>2 DEF Requested
    <3> QED
      BY <2>1, <3>1
  <2>3. CASE receiptCache # "off" /\ ~Duplicate(head) /\ (FirstBlock(head) \/ Fits(head))
    <3>1. toFetch' = <<head>>
      BY <1>1, <2>3 DEF Requested
    <3>2. <<head>> \in Seq(Block) /\ BlocksOf(<<head>>) = {head}
      BY <1>2, SingletonRun DEF Run
    <3>3. head \in BlocksOf(new)
      BY <1>5, <2>3, <3>2
    <3> QED
      BY <2>3, <3>1, <3>2, <3>3
  <2>4. CASE receiptCache # "off" /\ ~Duplicate(head) /\ ~FirstBlock(head) /\ ~Fits(head)
    <3>1. toFetch' = Refetched(head)
      BY <1>1, <2>4 DEF Requested
    <3>2. Full!ValidOn(head) # 0 /\ new = Full!Rebuilt(head)
      BY <1>5, <1>7, <2>4
    <3>3. new \in Seq(Block)
      BY <1>5, RunProperties
    <3>4. Refetched(head) = <<>> \o new
      BY <3>2 DEF Refetched
    <3>5. <<>> \o new = new
      <4> HIDE DEF new
      <4> QED
        BY <3>3, ConcatEmptySeq
    <3> QED
      BY <2>4, <3>1, <3>3, <3>4, <3>5
  <2> QED
    BY <1>2, <2>2, <2>3, <2>4
<1>12. /\ cached' \in {NoBlock, cached}
       /\ fetches' \in Seq(Fetch) /\ Len(fetches') = Len(fetches)
       /\ callbacks' \in Seq(Callback) /\ DOMAIN callbacks' = DOMAIN callbacks
       /\ \A i \in DOMAIN callbacks : callbacks'[i].receipt = callbacks[i].receipt
       /\ Purges(head) =>
            /\ cached' = NoBlock
            /\ \A i \in DOMAIN fetches' : ~fetches'[i].current
            /\ \A i \in DOMAIN callbacks' : ~callbacks'[i].current
       /\ ~Purges(head) => UNCHANGED <<cached, fetches, callbacks>>
       /\ fetches = <<>> => fetches' = <<>>
       /\ callbacks = <<>> => callbacks' = <<>>
  <2>1. CASE ~Purges(head)
    BY <1>1, <1>2, <2>1
  <2>2. CASE Purges(head)
    <3>1. cached' = NoBlock /\ fetches' = Outdated(fetches) /\ callbacks' = Outdated(callbacks)
      BY <1>1, <2>2 DEF ResetReceiptCache
    <3>2. /\ \A r \in Fetch : [r EXCEPT !.current = FALSE] \in Fetch /\ ~[r EXCEPT !.current = FALSE].current
          /\ \A r \in Callback : [r EXCEPT !.current = FALSE] \in Callback /\ ~[r EXCEPT !.current = FALSE].current
                                 /\ [r EXCEPT !.current = FALSE].receipt = r.receipt
      OBVIOUS
    <3>3. (\A i \in DOMAIN fetches : fetches[i] \in Fetch) /\ (\A i \in DOMAIN callbacks : callbacks[i] \in Callback)
      <4> HIDE DEF Fetch, Callback
      <4> QED
        BY <1>2, LenProperties, ElementOfSeq
    <3>4. /\ fetches' \in Seq(Fetch) /\ Len(fetches') = Len(fetches) /\ DOMAIN fetches' = DOMAIN fetches
          /\ \A i \in DOMAIN fetches : fetches'[i] = [fetches[i] EXCEPT !.current = FALSE]
          /\ fetches = <<>> => fetches' = <<>>
      <4> HIDE DEF Fetch
      <4> QED
        BY <1>2, <3>1, <3>2, OutdatedRequests
    <3>5. /\ callbacks' \in Seq(Callback) /\ DOMAIN callbacks' = DOMAIN callbacks
          /\ \A i \in DOMAIN callbacks : callbacks'[i] = [callbacks[i] EXCEPT !.current = FALSE]
          /\ callbacks = <<>> => callbacks' = <<>>
      <4> HIDE DEF Callback
      <4> QED
        BY <1>2, <3>1, <3>2, OutdatedRequests
    <3>6. \A i \in DOMAIN fetches' : ~fetches'[i].current
      BY <3>2, <3>3, <3>4
    <3>7. \A i \in DOMAIN callbacks : ~callbacks'[i].current /\ callbacks'[i].receipt = callbacks[i].receipt
      BY <3>2, <3>3, <3>5
    <3> HIDE DEF Fetch, Callback
    <3> QED
      BY <2>2, <3>1, <3>4, <3>5, <3>6, <3>7
  <2> QED
    BY <2>1, <2>2
<1>13. SettingsInv'
  BY <1>1, <1>11, <1>12 DEF SettingsInv
<1>14. CacheTypeOK'
  BY <1>1, <1>2, <1>11, <1>12 DEF CacheTypeOK, BlockOrNil
<1>15. CacheInv'
  <2> SUFFICES ASSUME receiptCache = "blockReceipts", NEW b \in (Pending' \cup {cached'}) \ {NoBlock}
               PROVE  b \in BlocksOf(new) \/ Number(b) < Number(new[1])
    BY <1>1 DEF CacheInv
  <2>1. CASE b \in BlocksOf(toFetch')
    BY <1>11, <2>1
  <2>2. CASE b \notin BlocksOf(toFetch') /\ Purges(head)
    BY <1>12, <2>2 DEF Pending
  <2>3. CASE b \notin BlocksOf(toFetch') /\ ~Purges(head)
    <3>1. b \in (Pending \cup {cached}) \ {NoBlock}
      BY <1>12, <2>3 DEF Pending
    <3>2. b \in BlocksOf(c) \/ Number(b) < Number(c[1])
      BY <1>1, <3>1 DEF CacheInv
    <3>3. CASE new = c
      BY <3>2, <3>3
    <3>4. CASE Fits(head) /\ ~Duplicate(head)
      <4>1. Full!Below(head) >= Len(c) /\ ~FirstBlock(head)
        <5>1. ~(Full!Below(head) < Len(c))
          BY <2>3, <3>4 DEF Purges
        <5>2. Full!Below(head) \in Nat
          <6>1. Full!Below(head) = Cardinality({i \in DOMAIN c : Number(c[i]) < Number(head)})
            BY FullOperators
          <6> HIDE DEF c
          <6> QED
            BY <1>2, <1>3, <6>1, NumberedBelowFirst
        <5>3. ~FirstBlock(head)
          BY <3>4 DEF Fits
        <5> QED
          BY <1>6, <5>1, <5>2, <5>3
      <4>2. CASE b \in BlocksOf(c)
        BY <1>5, <3>4, <4>1, <4>2
      <4>3. CASE Number(b) < Number(c[1])
        <5>1. Number(c[1]) <= Number(new[1])
          BY <1>5, <3>4, <4>1
        <5>2. b \in Block
          <6>1. Pending \subseteq BlockOrNil
            <7>1. (\A i \in DOMAIN fetches : fetches[i] \in Fetch) /\ (\A i \in DOMAIN callbacks : callbacks[i] \in Callback)
              <8> HIDE DEF Fetch, Callback
              <8> QED
                BY <1>2, LenProperties, ElementOfSeq
            <7>2. BlocksOf(toFetch) \subseteq Block
              BY <1>2, BlocksAreBlocks
            <7> QED
              BY <7>1, <7>2 DEF Pending, BlockOrNil
          <6> QED
            BY <1>2, <3>1, <6>1 DEF BlockOrNil
        <5>3. Number(b) \in Nat
          BY <5>2, PathOfBlock
        <5> QED
          BY <1>6, <4>3, <5>1, <5>3
      <4> QED
        BY <3>2, <4>2, <4>3
    <3> QED
      BY <1>5, <2>3, <3>3, <3>4 DEF Purges
  <2> QED
    BY <2>1, <2>2, <2>3
<1>16. SeenInv'
  <2>1. UNCHANGED <<held, existing, confirmations, earlyList, lateList, receipt, settled>>
    BY DEF callVars, inputVars, listVars, answerVars
  <2>2. {callbacks'[i].receipt : i \in DOMAIN callbacks'} = {callbacks[i].receipt : i \in DOMAIN callbacks}
    BY <1>12
  <2>3. Remembered' \ {NoBlock} \subseteq Remembered \cup BlocksOf(Path(head))
    BY <1>5, <1>12, <2>1, <2>2 DEF Remembered
  <2>4. settled' \in Block /\ settled \in BlocksOf(Path(settled'))
    BY <1>2, <2>1, PathOfBlock
  <2> QED
    BY <1>1, <2>3, <2>4, SeenStep
<1> QED
  BY <1>10, <1>13, <1>14, <1>15, <1>16 DEF ListenerInv

LEMMA LightPollSafety ==
    ASSUME ListenerInv, CallTypeOK, SeenInv, PollHeadNumber, UNCHANGED callVars,
           Full!HeadTypeOK', SettledInv', UNCHANGED <<head, reorgs, nodeFilter, filterQueue, settled>>
    PROVE  ListenerInv' /\ SeenInv'
<1>1. mode = "light" /\ UNCHANGED <<canonicalChain, configVars, cacheVars>> /\ UNCHANGED <<mode, receiptCache>>
      /\ UNCHANGED <<cached, toFetch, fetches, callbacks>>
  BY DEF PollHeadNumber, Light!PollHeadNumber, configVars, cacheVars
<1>2. CacheTypeOK'
  BY <1>1 DEF ListenerInv, CacheTypeOK
<1>3. SettingsInv' /\ ChainInv'
  BY <1>1 DEF ListenerInv, SettingsInv, ChainInv
<1>4. CacheInv'
  BY <1>1 DEF ListenerInv, CacheInv, Pending
<1>5. SeenInv'
  <2>1. UNCHANGED <<held, existing, confirmations, earlyList, lateList, receipt, settled>>
    BY DEF callVars, inputVars, listVars, answerVars
  <2>2. Remembered' \ {NoBlock} \subseteq Remembered \cup BlocksOf(Path(head))
    BY <1>1, <2>1 DEF Remembered
  <2>3. settled' \in Block /\ settled \in BlocksOf(Path(settled'))
    BY <2>1, ListenerTypes, PathOfBlock DEF ListenerInv
  <2> QED
    BY <1>1, <2>2, <2>3, SeenStep DEF ListenerInv
<1> QED
  BY <1>2, <1>3, <1>4, <1>5 DEF ListenerInv

-----------------------------------------------------------------------------
(* What the call holds, while it waits. *)

LEMMA CallUnchanged ==
    ASSUME CallInv, StepBackInv, LightInv, UNCHANGED callVars, UNCHANGED <<mode, head, settled>>,
           highestBlock' \in {highestBlock, Number(head)}, currentChainHead' \in {currentChainHead, Number(head)}
    PROVE  CallInv' /\ StepBackInv' /\ LightInv'
<1>1. /\ UNCHANGED <<pc, held, existing, target, expected, receipt, earlyList, lateList, newFork, rebuilt,
                     outcome, confirmations, answeredAt, steppedBack>>
      /\ UNCHANGED <<mode, head, settled>>
  BY DEF callVars, inputVars, listVars, answerVars
<1>2. CallTypeOK' /\ ListInv' /\ HandedBackInv'
  BY <1>1 DEF CallInv, CallTypeOK, ListInv, HandedBackInv
<1>3. ConfirmationsAreLinked' /\ ReplacedBlocksAreReported' /\ PanicsOnlyAfterStepBack'
  BY <1>1 DEF CallInv, ConfirmationsAreLinked, ReplacedBlocksAreReported, PanicsOnlyAfterStepBack
<1>4. StepBackInv'
  BY <1>1 DEF StepBackInv
<1>5. AnswerInv'
  BY <1>1 DEF LightInv, AnswerInv
<1>6. TwoGapsSuffice => LightAnswersAreFinal'
  BY <1>1 DEF LightInv, LightAnswersAreFinal
<1> QED
  BY <1>2, <1>3, <1>4, <1>5, <1>6 DEF CallInv, LightInv, TwoGapsSuffice

LEMMA ChainStepSafety ==
    ASSUME ReconcilerInv, pc # "returned", ChainStep, Full!HeadTypeOK', SettledInv',
           settled \in BlocksOf(Path(settled')), Number(settled) <= Number(settled'),
           UNCHANGED <<highestBlock, currentChainHead, canonicalChain>>
    PROVE  ReconcilerInv'
<1>1. /\ UNCHANGED <<mode, receiptCache, cached, toFetch, fetches, callbacks, pc, held, existing, target, expected,
                     receipt, earlyList, lateList, newFork, rebuilt, outcome, confirmations, answeredAt>>
      /\ UNCHANGED <<highestBlock, currentChainHead, canonicalChain>> /\ UNCHANGED configVars
      /\ steppedBack' = (steppedBack \/ (pc \in {"late", "target", "fill"} /\ Number(head') < Number(head)))
      /\ pc \in {"compare", "judge"} => Number(head') <= Number(answeredAt) + MaxReorgDepth + MaxAdvance
  BY DEF ChainStep, configVars, cacheVars, inputVars, listVars, answerVars
<1>2. ListenerInv /\ CallTypeOK /\ SeenInv /\ CacheTypeOK /\ CallInv /\ StepBackInv /\ LightInv
  BY DEF ReconcilerInv, ListenerInv, CallInv
<1>3. settled \in Block /\ Number(settled) \in Nat /\ settled' \in Block /\ Number(settled') \in Nat
      /\ Number(head) \in Nat /\ Number(head') \in Nat
  BY <1>2, ListenerTypes, PathOfBlock DEF Full!HeadTypeOK, Full!NodeTypeOK
<1>4. ListenerInv'
  <2>1. CacheTypeOK' /\ SettingsInv' /\ CacheInv'
    BY <1>1, <1>2 DEF ListenerInv, CacheTypeOK, SettingsInv, CacheInv, Pending
  <2>2. ChainInv'
    <3> SUFFICES ASSUME mode = "full" PROVE ChainInv'
      BY <1>1 DEF ChainInv
    <3>1. /\ Run(canonicalChain) /\ canonicalChain # <<>> /\ Number(canonicalChain[1]) - 1 <= Number(settled)
          /\ receiptCache # "off" => canonicalChain[1] \in BlocksOf(Path(settled))
      BY <1>2 DEF ListenerInv, ChainInv
    <3>2. Number(canonicalChain[1]) \in Nat
      <4>1. 1 \in 1..Len(canonicalChain)
        BY <3>1, RunProperties
      <4> QED
        BY <3>1, <4>1, RunProperties
    <3>3. Number(canonicalChain[1]) - 1 <= Number(settled')
      BY <1>3, <3>1, <3>2
    <3>4. receiptCache # "off" => canonicalChain[1] \in BlocksOf(Path(settled'))
      BY <1>3, <3>1, OnPathTransitive
    <3> QED
      BY <1>1, <3>1, <3>3, <3>4 DEF ChainInv
  <2> QED
    BY <2>1, <2>2 DEF ListenerInv
<1>5. SeenInv'
  <2>1. Remembered' \ {NoBlock} \subseteq Remembered \cup BlocksOf(Path(head))
    BY <1>1 DEF Remembered
  <2> QED
    BY <1>1, <1>2, <1>3, <2>1, SeenStep DEF ListenerInv
<1>6. CallInv'
  <2>1. CallTypeOK' /\ ListInv' /\ HandedBackInv' /\ ConfirmationsAreLinked' /\ ReplacedBlocksAreReported'
    BY <1>1, <1>2 DEF CallInv, CallTypeOK, ListInv, HandedBackInv, ConfirmationsAreLinked, ReplacedBlocksAreReported
  <2>2. PanicsOnlyAfterStepBack'
    BY <1>1, <1>2 DEF CallInv, ListInv, PanicsOnlyAfterStepBack
  <2> QED
    BY <2>1, <2>2 DEF CallInv
<1>7. StepBackInv'
  <2> SUFFICES ASSUME pc = "fill", ~steppedBack' PROVE Number(lateList[1]) - 1 <= Number(head')
    BY <1>1 DEF StepBackInv
  <2>1. ~steppedBack /\ Number(head') >= Number(head)
    <3>1. ~(steppedBack \/ (pc \in {"late", "target", "fill"} /\ Number(head') < Number(head)))
      BY <1>1, Zenon
    <3>2. ~steppedBack /\ ~(Number(head') < Number(head))
      BY <3>1
    <3> QED
      BY <1>3, <3>2
  <2>2. Number(lateList[1]) - 1 <= Number(head)
    BY <1>2, <2>1 DEF StepBackInv
  <2>3. Number(lateList[1]) \in Nat
    <3>1. Run(lateList) /\ lateList # <<>>
      BY <1>2, LenProperties DEF CallInv, ListInv
    <3>2. 1 \in 1..Len(lateList)
      BY <3>1, RunProperties
    <3> QED
      BY <3>1, <3>2, RunProperties
  <2> QED
    BY <1>3, <2>1, <2>2, <2>3
<1>8. LightInv'
  <2>1. AnswerInv'
    <3>1. AnswerInv
      BY <1>2 DEF LightInv
    <3>2. pc \in {"compare", "judge"} => answeredAt \in BlocksOf(Path(settled'))
      BY <1>3, <3>1, OnPathTransitive DEF AnswerInv
    <3> QED
      BY <1>1, <3>1, <3>2 DEF AnswerInv
  <2>2. LightAnswersAreFinal'
    BY <1>1, <1>2 DEF CallInv, ListInv, LightAnswersAreFinal
  <2> QED
    BY <2>1, <2>2 DEF LightInv
<1> QED
  BY <1>4, <1>5, <1>6, <1>7, <1>8 DEF ReconcilerInv

-----------------------------------------------------------------------------
(* The steps of a call: the chain and the listener stay as they are. *)

LEMMA ListenerUnchanged ==
    ASSUME ListenerInv, UNCHANGED <<chainVars, configVars, cacheVars>>
    PROVE  ListenerInv'
<1>1. UNCHANGED <<cached, toFetch, fetches, callbacks>> /\ UNCHANGED <<chainVars, configVars>>
  BY DEF cacheVars
<1>2. Pending' \cup {cached'} \subseteq Pending \cup {cached, NoBlock}
  BY <1>1 DEF Pending
<1>3. /\ cached' \in BlockOrNil /\ toFetch' \in Seq(Block)
      /\ fetches' \in Seq([block : Block, current : BOOLEAN]) /\ Len(fetches') <= MaxAsyncBlockFetchConcurrency
      /\ callbacks' \in Seq([receipt : BlockOrNil, current : BOOLEAN])
  BY <1>1 DEF ListenerInv, CacheTypeOK
<1> QED
  BY <1>1, <1>2, <1>3, CacheOnly

LEMMA CallStepFrame ==
    ASSUME ReconcilerInv, UNCHANGED <<chainVars, configVars, cacheVars>>, CallInv', StepBackInv', LightInv',
           Remembered' \ {NoBlock} \subseteq Remembered \cup BlocksOf(Path(head))
    PROVE  ReconcilerInv'
<1>1. ListenerInv'
  BY ListenerUnchanged DEF ReconcilerInv
<1>2. SeenInv'
  <2>1. CacheTypeOK /\ SettledInv /\ CallTypeOK /\ SeenInv
    BY DEF ReconcilerInv, ListenerInv, CallInv
  <2>2. settled' = settled /\ UNCHANGED configVars
    BY DEF chainVars
  <2>3. settled' \in Block /\ settled \in BlocksOf(Path(settled'))
    BY <2>1, <2>2, ListenerTypes, PathOfBlock
  <2> QED
    BY <2>1, <2>2, <2>3, SeenStep
<1> QED
  BY <1>1, <1>2 DEF ReconcilerInv

(* Facts of the state a call step starts in. *)
LEMMA CallFacts ==
    ASSUME ReconcilerInv
    PROVE  /\ CacheTypeOK /\ SettledInv /\ CallTypeOK /\ ListInv /\ HandedBackInv /\ AnswerInv /\ SettingsInv
           /\ Run(held) /\ Run(earlyList) /\ Run(lateList) /\ Run(confirmations)
           /\ BlocksOf(held) \cup BlocksOf(existing) \cup BlocksOf(confirmations) \cup BlocksOf(earlyList)
                \cup BlocksOf(lateList) \cup BlocksOf(canonicalChain) \cup {receipt, cached} \subseteq Remembered
           /\ BlocksOf(Path(head)) \subseteq Block
           /\ target \in Nat /\ head \in Block /\ settled \in Block
<1>1. CacheTypeOK /\ SettledInv /\ CallTypeOK /\ ListInv /\ HandedBackInv /\ AnswerInv /\ SettingsInv
  BY DEF ReconcilerInv, ListenerInv, CallInv, LightInv
<1>2. head \in Block /\ settled \in Block /\ target \in Nat
  BY <1>1, ListenerTypes DEF CallTypeOK
<1> QED
  BY <1>1, <1>2, PathOfBlock DEF ListInv, Remembered

(* A call returns. *)
LEMMA ReturnSafety ==
    ASSUME ReconcilerInv, UNCHANGED <<chainVars, configVars, cacheVars, held, inputVars, steppedBack>>,
           NEW what \in {"error", "panicked", "unconfirmed", "confirmed", "receipt", "nodeBehind", "dropped"},
           NEW list, Run(list), BlocksOf(list) \subseteq Remembered \cup BlocksOf(Path(head)),
           Returns(what, list),
           receipt' \in Remembered \cup BlocksOf(Path(head)) \cup {NoBlock},
           answeredAt' \in BlockOrNil, newFork' \in BOOLEAN, rebuilt' \in BOOLEAN,
           what = "confirmed" /\ list # <<>> => Len(list) > target,
           \A i \in DOMAIN existing \cap DOMAIN list : existing[i] # list[i] => newFork' \/ rebuilt',
           what = "panicked" => steppedBack,
           TwoGapsSuffice => LightAnswersAreFinal'
    PROVE  ReconcilerInv'
<1>1. /\ pc' = "returned" /\ outcome' = what /\ confirmations' = list /\ earlyList' = <<>> /\ lateList' = <<>>
      /\ UNCHANGED <<held, existing, target, expected, steppedBack, mode>>
  BY DEF Returns, inputVars, configVars
<1>2. <<>> \in Seq(Block) /\ list \in Seq(Block) /\ Run(<<>>) /\ BlocksOf(<<>>) = {} /\ Linked(list)
  BY EmptyRun, EmptySeq DEF Run
<1>3. CallTypeOK'
  <2>1. receipt' \in BlockOrNil
    BY CallFacts, RememberedTypes DEF BlockOrNil
  <2>2. CallTypeOK
    BY CallFacts
  <2> QED
    BY <1>1, <1>2, <2>1, <2>2 DEF CallTypeOK
<1>4. ListInv' /\ HandedBackInv'
  BY <1>1, <1>2, CallFacts DEF ListInv, HandedBackInv
<1>5. ConfirmationsAreLinked' /\ ReplacedBlocksAreReported' /\ PanicsOnlyAfterStepBack'
  BY <1>1, <1>2 DEF ConfirmationsAreLinked, ReplacedBlocksAreReported, PanicsOnlyAfterStepBack
<1>6. StepBackInv'
  BY <1>1 DEF StepBackInv
<1>7. LightInv'
  BY <1>1, CallFacts DEF LightInv, AnswerInv, TwoGapsSuffice
<1>8. Remembered' \ {NoBlock} \subseteq Remembered \cup BlocksOf(Path(head))
  <2>1. UNCHANGED <<canonicalChain, callbacks, cached>>
    BY DEF chainVars, cacheVars
  <2> QED
    BY <1>1, <1>2, <2>1 DEF Remembered
<1> QED
  BY <1>3, <1>4, <1>5, <1>6, <1>7, <1>8, CallStepFrame DEF CallInv

(* A call returns without confirmations. *)
LEMMA EmptyReturnSafety ==
    ASSUME ReconcilerInv, UNCHANGED <<chainVars, configVars, cacheVars, held, inputVars, steppedBack>>,
           NEW what \in {"error", "panicked", "unconfirmed", "confirmed", "receipt", "nodeBehind", "dropped"},
           Returns(what, <<>>),
           receipt' \in Remembered \cup BlocksOf(Path(head)) \cup {NoBlock},
           answeredAt' \in BlockOrNil, newFork' \in BOOLEAN, rebuilt' \in BOOLEAN,
           what = "panicked" => steppedBack,
           TwoGapsSuffice => LightAnswersAreFinal'
    PROVE  ReconcilerInv'
<1>1. Run(<<>>) /\ BlocksOf(<<>>) = {} /\ DOMAIN <<>> = {}
  BY EmptyRun, EmptySeq, LenProperties
<1> QED
  BY <1>1, ReturnSafety

(* A call that returned something else than one of the two answers of LightAnswersAreFinal. *)
LEMMA OtherAnswers == outcome' \notin {"dropped", "confirmed"} => LightAnswersAreFinal'
  BY DEF LightAnswersAreFinal

(* A step that leaves the lists empty and the call open. *)
LEMMA OpenCallSafety ==
    ASSUME ReconcilerInv, UNCHANGED <<chainVars, configVars, cacheVars, earlyList, lateList>>,
           pc \notin {"met", "late", "target", "fill"}, pc' \in {"idle", "receipt", "ask", "compare", "judge", "block"},
           Run(held'), existing' \in Seq(Block), target' \in Nat, receipt' \in BlockOrNil, answeredAt' \in BlockOrNil,
           newFork' \in BOOLEAN, rebuilt' \in BOOLEAN, steppedBack' \in BOOLEAN,
           outcome' = "none", confirmations' = <<>>,
           pc' \in {"compare", "ask", "judge"} => mode = "light",
           pc' = "block" => mode = "full" /\ target' > 0,
           pc' \in {"compare", "block"} => receipt' # NoBlock,
           pc' \in {"ask", "judge"} => expected' # NoBlock,
           AnswerInv',
           (BlocksOf(held') \cup BlocksOf(existing') \cup {receipt'}) \ {NoBlock}
                \subseteq Remembered \cup BlocksOf(Path(head))
    PROVE  ReconcilerInv'
<1>1. earlyList = <<>> /\ lateList = <<>> /\ UNCHANGED <<mode, earlyList, lateList>>
  BY CallFacts DEF ListInv, configVars
<1>2. <<>> \in Seq(Block) /\ Run(<<>>) /\ BlocksOf(<<>>) = {} /\ Linked(<<>>) /\ DOMAIN <<>> = {}
  BY EmptyRun, EmptySeq, LenProperties DEF Run
<1>3. held' \in Seq(Block) /\ expected' \in BlockOrNil
  BY CacheAssumption, BlockTreeAssumption DEF Run, AnswerInv, BlockOrNil
<1>4. CallTypeOK'
  BY <1>1, <1>2, <1>3 DEF CallTypeOK
<1>5. ListInv'
  BY <1>1, <1>2 DEF ListInv
<1>6. HandedBackInv' /\ StepBackInv'
  BY DEF HandedBackInv, StepBackInv
<1>7. ConfirmationsAreLinked' /\ ReplacedBlocksAreReported' /\ PanicsOnlyAfterStepBack'
  BY <1>2 DEF ConfirmationsAreLinked, ReplacedBlocksAreReported, PanicsOnlyAfterStepBack
<1>8. LightInv'
  BY OtherAnswers DEF LightInv
<1>9. Remembered' \ {NoBlock} \subseteq Remembered \cup BlocksOf(Path(head))
  <2>1. UNCHANGED <<canonicalChain, callbacks, cached>>
    BY DEF chainVars, cacheVars
  <2> QED
    BY <1>1, <1>2, <2>1 DEF Remembered
<1> QED
  BY <1>4, <1>5, <1>6, <1>7, <1>8, <1>9, CallStepFrame DEF CallInv

-----------------------------------------------------------------------------
(* The receipt. *)

(* A chain holds the transaction once: that is the block its receipt names. *)
LEMMA ReceiptOnChain ==
    ASSUME NEW h \in Block
    PROVE  /\ ReceiptOn(h) \in {NoBlock} \cup BlocksOf(Path(h))
           /\ \A b \in TxBlocks \cap BlocksOf(Path(h)) : ReceiptOn(h) = b
<1> DEFINE S == TxBlocks \cap BlocksOf(Path(h))
<1>1. IsFiniteSet(S)
  <2>1. Path(h) \in Seq(Block) /\ DOMAIN Path(h) = 1..(Number(h) + 1) /\ Number(h) \in Nat
    BY PathOfBlock
  <2>2. IsFiniteSet(1..(Number(h) + 1))
    <3>1. 1 \in Int /\ Number(h) + 1 \in Int
      BY <2>1
    <3> QED
      BY <3>1, FS_Interval
  <2>3. Path(h) \in Surjection(1..(Number(h) + 1), BlocksOf(Path(h)))
    <3>1. Path(h) \in [1..(Number(h) + 1) -> Block]
      BY <2>1, LenProperties
    <3> QED
      BY <2>1, <3>1 DEF Surjection, BlocksOf
  <2>4. IsFiniteSet(BlocksOf(Path(h)))
    BY <2>2, <2>3, FS_Surjection
  <2> QED
    BY <2>4, FS_Subset
<1>2. Cardinality(S) <= 1
  BY CacheAssumption
<1>3. \A b, c \in S : b = c
  <2> SUFFICES ASSUME NEW b \in S, NEW c \in S, b # c PROVE FALSE
    OBVIOUS
  <2>1. IsFiniteSet({b}) /\ Cardinality({b}) = 1
    BY FS_Singleton
  <2>2. IsFiniteSet({b} \cup {c}) /\ Cardinality({b} \cup {c}) = 2
    BY <2>1, FS_AddElement
  <2>3. {b} \cup {c} \in SUBSET S
    OBVIOUS
  <2>4. Cardinality({b} \cup {c}) <= Cardinality(S) /\ Cardinality(S) \in Nat
    <3> HIDE DEF S
    <3> QED
      BY <1>1, <2>3, FS_Subset, FS_CardinalityType
  <2> QED
    BY <1>2, <2>2, <2>4
<1>4. S # {} => ReceiptOn(h) \in S
  BY DEF ReceiptOn
<1>5. S = {} => ReceiptOn(h) = NoBlock
  BY DEF ReceiptOn
<1> QED
  BY <1>3, <1>4, <1>5

LEMMA CallReconcileSafety == ASSUME ReconcilerInv, CallReconcile PROVE ReconcilerInv'
<1>1. /\ pc = "idle" /\ existing' \in HandedBack /\ target' \in Targets /\ pc' = "receipt"
      /\ UNCHANGED <<chainVars, configVars, cacheVars>>
      /\ UNCHANGED <<held, receipt, earlyList, lateList, newFork, rebuilt, outcome, confirmations, expected,
                     answeredAt, steppedBack>>
  BY DEF CallReconcile, listVars, answerVars
<1>2. existing' \in Seq(Block) /\ BlocksOf(existing') \subseteq BlocksOf(held)
  <2>1. held \in Seq(Block) /\ BlocksOf(held) = {held[i] : i \in DOMAIN held}
    BY CallFacts DEF Run, BlocksOf
  <2>2. CASE existing' = <<>>
    BY <2>2, EmptyRun, EmptySeq
  <2>3. CASE existing' = held
    BY <2>1, <2>3
  <2>4. ASSUME NEW i \in DOMAIN held, existing' = RemoveAt(held, i)
        PROVE  existing' \in Seq(Block) /\ BlocksOf(existing') \subseteq BlocksOf(held)
    <3>1. RemoveAt(held, i) \in Seq(Block) /\ \A j \in DOMAIN RemoveAt(held, i) : \E k \in DOMAIN held : RemoveAt(held, i)[j] = held[k]
      BY <2>1, RemovedAt
    <3> QED
      BY <2>1, <2>4, <3>1 DEF BlocksOf
  <2> QED
    BY <1>1, <2>2, <2>3, <2>4 DEF HandedBack
<1>3. target' \in Nat
  BY <1>1, ReconcilerAssumption
<1>4. /\ CallTypeOK /\ ListInv /\ Run(held) /\ AnswerInv
      /\ BlocksOf(held) \cup {receipt} \subseteq Remembered
  BY CallFacts
<1>5. AnswerInv'
  BY <1>1, <1>4 DEF AnswerInv
<1>6. /\ Run(held') /\ receipt' \in BlockOrNil /\ answeredAt' \in BlockOrNil
      /\ newFork' \in BOOLEAN /\ rebuilt' \in BOOLEAN /\ steppedBack' \in BOOLEAN
  BY <1>1, <1>4 DEF CallTypeOK
<1>7. outcome' = "none" /\ confirmations' = <<>>
  BY <1>1, <1>4 DEF ListInv
<1> QED
  BY <1>1, <1>2, <1>3, <1>4, <1>5, <1>6, <1>7, OpenCallSafety

LEMMA CallTransactionReceiptSafety == ASSUME ReconcilerInv, CallTransactionReceipt PROVE ReconcilerInv'
<1>1. /\ pc = "idle" /\ mode = "light" /\ expected' \in TxBlocks /\ pc' = "ask"
      /\ UNCHANGED <<chainVars, configVars, cacheVars>>
      /\ UNCHANGED <<held, existing, target, receipt, earlyList, lateList, newFork, rebuilt, outcome, confirmations,
                     answeredAt, steppedBack>>
  BY DEF CallTransactionReceipt, listVars, answerVars
<1>2. /\ CallTypeOK /\ ListInv /\ Run(held) /\ AnswerInv
      /\ BlocksOf(held) \cup BlocksOf(existing) \cup {receipt} \subseteq Remembered
  BY CallFacts
<1>3. AnswerInv'
  BY <1>1 DEF AnswerInv
<1>4. /\ Run(held') /\ receipt' \in BlockOrNil /\ answeredAt' \in BlockOrNil /\ existing' \in Seq(Block) /\ target' \in Nat
      /\ newFork' \in BOOLEAN /\ rebuilt' \in BOOLEAN /\ steppedBack' \in BOOLEAN
  BY <1>1, <1>2 DEF CallTypeOK
<1>5. outcome' = "none" /\ confirmations' = <<>>
  BY <1>1, <1>2 DEF ListInv
<1>6. expected' # NoBlock
  BY <1>1, CacheAssumption, BlockTreeAssumption
<1> QED
  BY <1>1, <1>2, <1>3, <1>4, <1>5, <1>6, OpenCallSafety

LEMMA ReturnToCaller == ASSUME ReconcilerInv, Return PROVE ReconcilerInv'
<1>1. /\ pc = "returned" /\ pc' = "idle" /\ held' \in {held, confirmations}
      /\ existing' = <<>> /\ target' = 0 /\ receipt' = NoBlock /\ expected' = NoBlock /\ answeredAt' = NoBlock
      /\ newFork' = FALSE /\ rebuilt' = FALSE /\ outcome' = "none" /\ confirmations' = <<>>
      /\ steppedBack' = FALSE
      /\ UNCHANGED <<chainVars, configVars, cacheVars>> /\ UNCHANGED <<earlyList, lateList>>
  BY DEF Return
<1>2. /\ ListInv /\ Run(held) /\ Run(confirmations)
      /\ BlocksOf(held) \cup BlocksOf(confirmations) \subseteq Remembered
  BY CallFacts
<1>3. AnswerInv'
  BY <1>1 DEF AnswerInv
<1>4. Run(held') /\ BlocksOf(held') \subseteq Remembered
  BY <1>1, <1>2
<1>5. <<>> \in Seq(Block) /\ BlocksOf(<<>>) = {} /\ NoBlock \in BlockOrNil /\ 0 \in Nat
  BY EmptyRun, EmptySeq DEF BlockOrNil
<1> QED
  BY <1>1, <1>3, <1>4, <1>5, OpenCallSafety

LEMMA CallFailsSafety == ASSUME ReconcilerInv, CallFails PROVE ReconcilerInv'
<1>1. /\ Returns("error", <<>>) /\ UNCHANGED <<chainVars, configVars, cacheVars, held, inputVars, steppedBack>>
      /\ UNCHANGED <<receipt, newFork, rebuilt, answeredAt>>
  BY DEF CallFails
<1>2. receipt \in Remembered /\ answeredAt \in BlockOrNil /\ newFork \in BOOLEAN /\ rebuilt \in BOOLEAN
  BY CallFacts DEF CallTypeOK
<1>3. LightAnswersAreFinal'
  BY <1>1, OtherAnswers DEF Returns
<1> QED
  BY <1>1, <1>2, <1>3, EmptyReturnSafety

(* The cache holds a remembered block, the node one of its chain. *)
LEMMA CurrentReceiptType ==
    ASSUME ReconcilerInv
    PROVE  CurrentReceipt \in BlockOrNil /\ CurrentReceipt \in {NoBlock} \cup Remembered \cup BlocksOf(Path(head))
<1>1. ReceiptOn(head) \in {NoBlock} \cup BlocksOf(Path(head)) /\ cached \in Remembered /\ cached \in BlockOrNil
      /\ BlocksOf(Path(head)) \subseteq Block
  BY CallFacts, ReceiptOnChain DEF CacheTypeOK
<1> QED
  BY <1>1 DEF CurrentReceipt, BlockOrNil

(* In light mode no height is further above the settled block than a re-org is deep. *)
LEMMA LightHeights ==
    ASSUME ReconcilerInv, mode = "light"
    PROVE  /\ \A height \in {Number(head), highestBlock, currentChainHead} :
                height \in Nat /\ height <= Number(settled) + MaxReorgDepth + MaxAdvance
           /\ settled \in BlocksOf(Path(head)) /\ settled \in BlocksOf(Path(settled))
           /\ Number(settled) \in Nat /\ MaxReorgDepth \in Nat /\ MaxAdvance \in Nat
           /\ cached = NoBlock
<1>1. /\ Number(head) \in Nat /\ highestBlock \in Nat /\ currentChainHead \in Nat /\ Number(settled) \in Nat
      /\ MaxReorgDepth \in Nat /\ MaxAdvance \in Nat /\ ReorgDepth = MaxReorgDepth
  BY CallFacts, ListenerTypes, ReconcilerAssumption
<1>2. settled \in BlocksOf(Path(head)) /\ \A height \in {Number(head), highestBlock, currentChainHead} : height - ReorgDepth <= Number(settled)
  BY CallFacts DEF SettledInv
<1>3. ASSUME NEW height \in {Number(head), highestBlock, currentChainHead}
      PROVE  height \in Nat /\ height <= Number(settled) + MaxReorgDepth + MaxAdvance
  BY <1>1, <1>2
<1> QED
  BY <1>1, <1>2, <1>3, CallFacts, PathOfBlock DEF SettingsInv

LEMMA GetTransactionReceiptSafety == ASSUME ReconcilerInv, GetTransactionReceipt PROVE ReconcilerInv'
<1>1. /\ pc = "receipt" /\ receipt' = CurrentReceipt /\ answeredAt' = IF mode = "light" THEN settled ELSE NoBlock
      /\ IF receipt' = NoBlock
         THEN Returns(IF target > 0 /\ mode = "full" THEN "error" ELSE "unconfirmed", <<>>)
         ELSE IF target = 0 THEN Returns("confirmed", <<>>)
         ELSE pc' = (IF mode = "full" THEN "block" ELSE "compare") /\ UNCHANGED <<answerVars, earlyList, lateList>>
      /\ UNCHANGED <<chainVars, configVars, cacheVars>> /\ UNCHANGED inputVars
      /\ UNCHANGED <<held, newFork, rebuilt, steppedBack>>
  BY DEF GetTransactionReceipt
<1>2. UNCHANGED <<mode, existing, target, expected, settled, head, highestBlock, currentChainHead>>
  BY <1>1 DEF inputVars, chainVars, configVars
<1>3. /\ CallTypeOK /\ ListInv /\ AnswerInv /\ Run(held) /\ CacheTypeOK
      /\ BlocksOf(held) \cup BlocksOf(existing) \subseteq Remembered
      /\ target \in Nat /\ head \in Block /\ settled \in Block
  BY CallFacts
<1>4. receipt' \in BlockOrNil /\ receipt' \in {NoBlock} \cup Remembered \cup BlocksOf(Path(head))
  BY <1>1, CurrentReceiptType
<1>5. answeredAt' \in BlockOrNil /\ newFork' \in BOOLEAN /\ rebuilt' \in BOOLEAN /\ steppedBack' \in BOOLEAN
  BY <1>1, <1>3 DEF CallTypeOK, BlockOrNil
<1>6. ASSUME mode = "light", receipt' # NoBlock
      PROVE  receipt' \in BlocksOf(Path(head)) /\ (Number(receipt') <= Number(settled) => receipt' \in BlocksOf(Path(settled)))
  <2>1. receipt' = ReceiptOn(head)
    BY <1>1, <1>6, LightHeights DEF CurrentReceipt
  <2>2. receipt' \in BlocksOf(Path(head))
    BY <1>3, <1>6, <2>1, ReceiptOnChain
  <2>3. settled \in BlocksOf(Path(head))
    BY <1>6, LightHeights
  <2> QED
    BY <1>3, <2>2, <2>3, LowerOnPath
<1>7. CASE receipt' = NoBlock
  <2> DEFINE what == IF target > 0 /\ mode = "full" THEN "error" ELSE "unconfirmed"
  <2>1. Returns(what, <<>>) /\ what \in {"error", "unconfirmed"}
    BY <1>1, <1>7
  <2> HIDE DEF what
  <2>2. LightAnswersAreFinal'
    BY <2>1, OtherAnswers DEF Returns
  <2> QED
    BY <1>1, <1>4, <1>5, <2>1, <2>2, EmptyReturnSafety
<1>8. CASE receipt' # NoBlock /\ target = 0
  <2>1. Returns("confirmed", <<>>)
    BY <1>1, <1>8
  <2>2. LightAnswersAreFinal'
    <3> SUFFICES ASSUME mode = "light", target >= MaxReorgDepth + MaxAdvance PROVE receipt' \in BlocksOf(Path(settled))
      BY <1>2, <2>1 DEF LightAnswersAreFinal, Returns
    <3>1. Number(head) <= Number(settled) + MaxReorgDepth + MaxAdvance /\ Number(head) \in Nat /\ Number(settled) \in Nat
          /\ MaxReorgDepth \in Nat /\ MaxAdvance \in Nat
      BY LightHeights
    <3>2. Number(head) <= Number(settled)
      BY <1>8, <3>1
    <3>3. receipt' \in BlocksOf(Path(head)) /\ receipt' \in Block
      BY <1>4, <1>6, <1>8 DEF BlockOrNil
    <3>4. Number(receipt') <= Number(head) /\ Number(receipt') \in Nat
      BY <1>3, <3>3, OnPath, PathOfBlock
    <3> QED
      BY <1>6, <1>8, <3>1, <3>2, <3>4
  <2> QED
    BY <1>1, <1>4, <1>5, <2>1, <2>2, EmptyReturnSafety
<1>9. CASE receipt' # NoBlock /\ target # 0
  <2>1. pc' = (IF mode = "full" THEN "block" ELSE "compare") /\ UNCHANGED <<outcome, confirmations, earlyList, lateList>>
    BY <1>1, <1>9 DEF answerVars
  <2>2. outcome' = "none" /\ confirmations' = <<>>
    BY <1>1, <1>3, <2>1 DEF ListInv
  <2>3. AnswerInv'
    <3>1. CASE mode = "light"
      <4>1. /\ answeredAt' = settled /\ pc' = "compare" /\ expected' \in TxBlocks \cup {NoBlock}
            /\ answeredAt' \in BlocksOf(Path(settled'))
        BY <1>1, <1>2, <1>3, <2>1, <3>1, LightHeights DEF AnswerInv
      <4>2. \A height \in {Number(head'), highestBlock', currentChainHead'} :
                height <= Number(answeredAt') + MaxReorgDepth + MaxAdvance
        BY <1>2, <3>1, <4>1, LightHeights
      <4>3. Number(receipt') <= Number(answeredAt') => receipt' \in BlocksOf(Path(answeredAt'))
        BY <1>6, <1>9, <3>1, <4>1
      <4> QED
        BY <4>1, <4>2, <4>3 DEF AnswerInv
    <3>2. CASE mode = "full"
      BY <1>2, <1>3, <2>1, <3>2 DEF AnswerInv
    <3> QED
      BY <1>3, <3>1, <3>2 DEF CacheTypeOK
  <2>4. target' > 0 /\ target' \in Nat /\ mode \in {"full", "light"}
    BY <1>2, <1>3, <1>9 DEF CacheTypeOK
  <2>5. Run(held') /\ existing' \in Seq(Block)
    BY <1>1, <1>2, <1>3 DEF CallTypeOK
  <2>6. (BlocksOf(held') \cup BlocksOf(existing') \cup {receipt'}) \ {NoBlock} \subseteq Remembered \cup BlocksOf(Path(head))
    BY <1>1, <1>2, <1>3, <1>4
  <2> QED
    BY <1>1, <1>4, <1>5, <1>9, <2>1, <2>2, <2>3, <2>4, <2>5, <2>6, OpenCallSafety
<1> QED
  BY <1>7, <1>8, <1>9

LEMMA CompareWithHeadSafety == ASSUME ReconcilerInv, CompareWithHead PROVE ReconcilerInv'
<1>1. /\ pc = "compare"
      /\ CASE currentChainHead < Number(receipt) -> Returns("error", <<>>)
           [] currentChainHead \in Number(receipt)..(Number(receipt) + target - 1) -> Returns("unconfirmed", <<>>)
           [] currentChainHead >= Number(receipt) + target -> Returns("confirmed", <<>>)
      /\ UNCHANGED <<chainVars, configVars, cacheVars>> /\ UNCHANGED <<inputVars, steppedBack>>
      /\ UNCHANGED <<held, receipt, newFork, rebuilt, answeredAt>>
  BY DEF CompareWithHead
<1>2. UNCHANGED <<mode, target, expected, settled>>
  BY <1>1 DEF inputVars, chainVars, configVars
<1>3. /\ CallTypeOK /\ ListInv /\ AnswerInv /\ target \in Nat /\ settled \in Block /\ currentChainHead \in Nat
      /\ receipt \in Remembered /\ receipt \in Block /\ Number(receipt) \in Nat /\ MaxReorgDepth \in Nat /\ MaxAdvance \in Nat
  <2>1. CallTypeOK /\ ListInv /\ AnswerInv /\ target \in Nat /\ settled \in Block /\ receipt \in Remembered
    BY CallFacts
  <2>2. currentChainHead \in Nat /\ MaxReorgDepth \in Nat /\ MaxAdvance \in Nat
    BY CallFacts, ListenerTypes, ReconcilerAssumption
  <2>3. receipt \in Block
    BY <1>1, <2>1 DEF CallTypeOK, ListInv, BlockOrNil
  <2> QED
    BY <2>1, <2>2, <2>3, PathOfBlock
<1>4. receipt' \in Remembered /\ answeredAt' \in BlockOrNil /\ newFork' \in BOOLEAN /\ rebuilt' \in BOOLEAN
  BY <1>1, <1>3 DEF CallTypeOK
<1>5. CASE currentChainHead >= Number(receipt) + target
  <2>1. Returns("confirmed", <<>>)
    <3>1. ~(currentChainHead < Number(receipt)) /\ currentChainHead \notin Number(receipt)..(Number(receipt) + target - 1)
      BY <1>3, <1>5
    <3> QED
      BY <1>1, <1>5, <3>1
  <2>2. LightAnswersAreFinal'
    <3> SUFFICES ASSUME target >= MaxReorgDepth + MaxAdvance PROVE receipt \in BlocksOf(Path(settled))
      BY <1>1, <1>2, <2>1 DEF LightAnswersAreFinal, Returns
    <3>1. /\ answeredAt \in BlocksOf(Path(settled)) /\ currentChainHead <= Number(answeredAt) + MaxReorgDepth + MaxAdvance
          /\ Number(receipt) <= Number(answeredAt) => receipt \in BlocksOf(Path(answeredAt))
      BY <1>1, <1>3 DEF AnswerInv
    <3>2. answeredAt \in Block /\ Number(answeredAt) \in Nat
      BY <1>3, <3>1, PathOfBlock
    <3>3. Number(receipt) <= Number(answeredAt)
      BY <1>3, <1>5, <3>1, <3>2
    <3> QED
      BY <1>3, <3>1, <3>3, OnPathTransitive
  <2> QED
    BY <1>1, <1>4, <2>1, <2>2, EmptyReturnSafety
<1>6. CASE ~(currentChainHead >= Number(receipt) + target)
  <2>1. PICK what \in {"error", "unconfirmed"} : Returns(what, <<>>)
    <3>1. currentChainHead < Number(receipt) \/ currentChainHead \in Number(receipt)..(Number(receipt) + target - 1)
      BY <1>3, <1>6
    <3> QED
      BY <1>1, <1>6, <3>1
  <2>2. LightAnswersAreFinal'
    BY <2>1, OtherAnswers DEF Returns
  <2> QED
    BY <1>1, <1>4, <2>1, <2>2, EmptyReturnSafety
<1> QED
  BY <1>5, <1>6

LEMMA AskReceiptSafety == ASSUME ReconcilerInv, AskReceipt PROVE ReconcilerInv'
<1>1. /\ pc = "ask" /\ receipt' = ReceiptOn(head) /\ answeredAt' = IF mode = "light" THEN settled ELSE NoBlock
      /\ IF receipt' = expected THEN Returns("receipt", <<>>)
         ELSE pc' = "judge" /\ UNCHANGED <<answerVars, earlyList, lateList>>
      /\ UNCHANGED <<chainVars, configVars, cacheVars>> /\ UNCHANGED inputVars
      /\ UNCHANGED <<held, newFork, rebuilt, steppedBack>>
  BY DEF AskReceipt
<1>2. UNCHANGED <<mode, existing, target, expected, settled, head, highestBlock, currentChainHead>>
  BY <1>1 DEF inputVars, chainVars, configVars
<1>3. /\ CallTypeOK /\ ListInv /\ AnswerInv /\ Run(held) /\ CacheTypeOK
      /\ BlocksOf(held) \cup BlocksOf(existing) \subseteq Remembered
      /\ target \in Nat /\ head \in Block /\ settled \in Block /\ BlocksOf(Path(head)) \subseteq Block
  BY CallFacts
<1>4. receipt' \in BlockOrNil /\ receipt' \in {NoBlock} \cup BlocksOf(Path(head))
  BY <1>1, <1>3, ReceiptOnChain DEF BlockOrNil
<1>5. answeredAt' \in BlockOrNil /\ newFork' \in BOOLEAN /\ rebuilt' \in BOOLEAN /\ steppedBack' \in BOOLEAN
  BY <1>1, <1>3 DEF CallTypeOK, BlockOrNil
<1>6. mode = "light" /\ expected \in TxBlocks /\ expected # NoBlock
  BY <1>1, <1>3 DEF ListInv, AnswerInv
<1>7. CASE receipt' = expected
  <2>1. Returns("receipt", <<>>)
    BY <1>1, <1>7
  <2>2. LightAnswersAreFinal'
    BY <2>1, OtherAnswers DEF Returns
  <2> QED
    BY <1>1, <1>4, <1>5, <2>1, <2>2, EmptyReturnSafety
<1>8. CASE receipt' # expected
  <2>1. pc' = "judge" /\ UNCHANGED <<outcome, confirmations, earlyList, lateList>>
    BY <1>1, <1>8 DEF answerVars
  <2>2. expected \notin BlocksOf(Path(settled))
    <3> SUFFICES ASSUME expected \in BlocksOf(Path(settled)) PROVE FALSE
      OBVIOUS
    <3>1. settled \in BlocksOf(Path(head))
      BY <1>6, LightHeights
    <3>2. expected \in TxBlocks \cap BlocksOf(Path(head))
      BY <1>3, <1>6, <3>1, OnPathTransitive
    <3> QED
      BY <1>1, <1>3, <1>8, <3>2, ReceiptOnChain
  <2>3. AnswerInv'
    <3>1. answeredAt' = settled /\ expected' \in TxBlocks \cup {NoBlock} /\ answeredAt' \in BlocksOf(Path(settled'))
      BY <1>1, <1>2, <1>6, LightHeights
    <3>2. \A height \in {Number(head'), highestBlock', currentChainHead'} :
              height <= Number(answeredAt') + MaxReorgDepth + MaxAdvance
      BY <1>2, <1>6, <3>1, LightHeights
    <3> QED
      BY <1>2, <2>1, <2>2, <3>1, <3>2 DEF AnswerInv
  <2>4. outcome' = "none" /\ confirmations' = <<>>
    BY <1>1, <1>3, <2>1 DEF ListInv
  <2>5. Run(held') /\ existing' \in Seq(Block) /\ target' \in Nat /\ expected' # NoBlock
    BY <1>1, <1>2, <1>3, <1>6 DEF CallTypeOK
  <2>6. (BlocksOf(held') \cup BlocksOf(existing') \cup {receipt'}) \ {NoBlock} \subseteq Remembered \cup BlocksOf(Path(head))
    BY <1>1, <1>2, <1>3, <1>4
  <2> QED
    BY <1>1, <1>4, <1>5, <1>6, <2>1, <2>3, <2>4, <2>5, <2>6, OpenCallSafety
<1> QED
  BY <1>7, <1>8

LEMMA JudgeReceiptSafety == ASSUME ReconcilerInv, JudgeReceipt PROVE ReconcilerInv'
<1> DEFINE what == IF Definitive(expected) THEN "dropped" ELSE "nodeBehind"
<1>1. /\ pc = "judge" /\ Returns(what, <<>>)
      /\ UNCHANGED <<chainVars, configVars, cacheVars>> /\ UNCHANGED <<inputVars, steppedBack>>
      /\ UNCHANGED <<held, receipt, newFork, rebuilt, answeredAt>>
  BY DEF JudgeReceipt
<1>2. UNCHANGED <<mode, target, expected, settled>>
  BY <1>1 DEF inputVars, chainVars, configVars
<1>3. /\ CallTypeOK /\ ListInv /\ AnswerInv /\ settled \in Block /\ highestBlock \in Nat /\ receipt \in Remembered
      /\ MaxReorgDepth \in Nat /\ MaxAdvance \in Nat /\ CheckpointBlockGap \in Nat
  BY CallFacts, ListenerTypes, ReconcilerAssumption
<1>4. receipt' \in Remembered /\ answeredAt' \in BlockOrNil /\ newFork' \in BOOLEAN /\ rebuilt' \in BOOLEAN
  BY <1>1, <1>3 DEF CallTypeOK
<1>5. ASSUME TwoGapsSuffice PROVE LightAnswersAreFinal'
  <2>1. CASE ~Definitive(expected)
    BY <1>1, <2>1, OtherAnswers DEF Returns
  <2>2. CASE Definitive(expected)
    <3>1. /\ answeredAt \in BlocksOf(Path(settled)) /\ highestBlock <= Number(answeredAt) + MaxReorgDepth + MaxAdvance
          /\ expected \notin BlocksOf(Path(answeredAt)) /\ expected \in TxBlocks
      BY <1>1, <1>3 DEF AnswerInv, ListInv
    <3>2. /\ answeredAt \in Block /\ Number(answeredAt) \in Nat /\ Number(answeredAt) <= Number(settled) /\ Number(settled) \in Nat
          /\ expected \in Block /\ Number(expected) \in Nat
      BY <1>3, <3>1, CacheAssumption, PathOfBlock, OnPath
    <3>3. Number(expected) <= Number(answeredAt)
      BY <1>3, <1>5, <2>2, <3>1, <3>2 DEF Definitive, TwoGapsSuffice
    <3>4. expected \notin BlocksOf(Path(settled))
      BY <1>3, <3>1, <3>2, <3>3, LowerOnPath
    <3>5. Number(expected) <= Number(settled)
      BY <3>2, <3>3
    <3>6. outcome' = "dropped"
      BY <1>1, <2>2 DEF Returns
    <3> QED
      BY <1>2, <3>4, <3>5, <3>6 DEF LightAnswersAreFinal
  <2> QED
    BY <2>1, <2>2
<1>6. what \in {"dropped", "nodeBehind"}
  OBVIOUS
<1> HIDE DEF what
<1> QED
  BY <1>1, <1>4, <1>5, <1>6, EmptyReturnSafety


-----------------------------------------------------------------------------
(* The lists. *)

LEMMA FirstAndLast ==
    ASSUME NEW s, Run(s), s # <<>>
    PROVE  /\ s \in Seq(Block) /\ Len(s) \in Nat /\ Len(s) >= 1 /\ DOMAIN s = 1..Len(s)
           /\ s[1] \in Block /\ Number(s[1]) \in Nat /\ s[1] \in BlocksOf(s)
           /\ Last(s) \in Block /\ Number(Last(s)) \in Nat /\ Last(s) = s[Len(s)]
           /\ Number(Last(s)) = Number(s[1]) + Len(s) - 1
           /\ \A i \in 1..Len(s) : s[i] \in Block /\ s[i] \in BlocksOf(s) /\ Number(s[i]) = Number(s[1]) + i - 1
<1>1. /\ s \in Seq(Block) /\ Len(s) \in Nat /\ DOMAIN s = 1..Len(s) /\ Len(s) > 0
      /\ \A i \in 1..Len(s) : s[i] \in Block /\ Number(s[i]) \in Nat
      /\ \A i \in 1..Len(s) : Number(s[i]) = Number(s[1]) + i - 1
      /\ BlocksOf(s) = {s[i] : i \in 1..Len(s)}
  BY RunProperties
<1>2. 1 \in 1..Len(s) /\ Len(s) \in 1..Len(s) /\ Len(s) >= 1
  BY <1>1
<1> QED
  BY <1>1, <1>2 DEF Last

(* A call goes on with its lists. *)
LEMMA ListsSafety ==
    ASSUME ReconcilerInv, UNCHANGED <<chainVars, configVars, cacheVars>>,
           UNCHANGED <<held, existing, target, expected, receipt, answeredAt, steppedBack, outcome, confirmations>>,
           pc \in {"block", "met", "late", "target", "fill"}, pc' \in {"met", "late", "target", "fill"},
           Run(earlyList'), earlyList' # <<>>, Run(lateList'), newFork' \in BOOLEAN, rebuilt' \in BOOLEAN,
           pc' = "fill" => lateList' # <<>> /\ Number(Last(earlyList')) + 1 < Number(lateList'[1]),
           pc' # "fill" => lateList' = <<>>,
           pc' = "met" => Number(Last(earlyList')) >= Number(earlyList'[1]) + target,
           HandedBackInv', StepBackInv',
           BlocksOf(earlyList') \cup BlocksOf(lateList') \subseteq Remembered \cup BlocksOf(Path(head))
    PROVE  ReconcilerInv'
<1>1. /\ CallTypeOK /\ ListInv /\ AnswerInv /\ Run(held) /\ Run(confirmations)
      /\ BlocksOf(held) \cup BlocksOf(existing) \cup BlocksOf(confirmations) \cup {receipt} \subseteq Remembered
  BY CallFacts
<1>2. mode = "full" /\ target > 0 /\ outcome = "none" /\ confirmations = <<>> /\ mode' = mode
  BY <1>1 DEF ListInv, configVars
<1>3. CallTypeOK'
  BY <1>1 DEF CallTypeOK, Run
<1>4. ListInv'
  BY <1>1, <1>2 DEF ListInv
<1>5. ConfirmationsAreLinked' /\ ReplacedBlocksAreReported' /\ PanicsOnlyAfterStepBack'
  <2>1. Linked(<<>>) /\ DOMAIN <<>> = {}
    BY EmptyRun, EmptySeq, LenProperties DEF Run
  <2> QED
    BY <1>2, <2>1 DEF ConfirmationsAreLinked, ReplacedBlocksAreReported, PanicsOnlyAfterStepBack
<1>6. LightInv'
  BY <1>1, <1>2, OtherAnswers DEF LightInv, AnswerInv
<1>7. Remembered' \ {NoBlock} \subseteq Remembered \cup BlocksOf(Path(head))
  <2>1. UNCHANGED <<canonicalChain, callbacks, cached>>
    BY DEF chainVars, cacheVars
  <2> QED
    BY <1>1, <2>1 DEF Remembered
<1> QED
  BY <1>3, <1>4, <1>5, <1>6, <1>7, CallStepFrame DEF CallInv

(* The blocks handed back are cut where they no longer follow. *)
LEMMA LinkedPrefixProperties ==
    ASSUME NEW s \in Seq(Block), s # <<>>
    PROVE  /\ Run(LinkedPrefix(s)) /\ LinkedPrefix(s) # <<>> /\ LinkedPrefix(s)[1] = s[1]
           /\ Len(LinkedPrefix(s)) <= Len(s) /\ LinkedPrefix(s) = SubSeq(s, 1, Len(LinkedPrefix(s)))
           /\ BlocksOf(LinkedPrefix(s)) \subseteq BlocksOf(s)
<1> DEFINE broken == {i \in 2..Len(s) : ~IsParentOf(s[i - 1], s[i])}
           p == LinkedPrefix(s)
<1>1. Len(s) \in Nat /\ Len(s) > 0 /\ DOMAIN s = 1..Len(s) /\ \A i \in 1..Len(s) : s[i] \in Block
  BY LenProperties, ElementOfSeq, EmptySeq
<1>2. PICK k \in 1..Len(s) : p = SubSeq(s, 1, k) /\ \A i \in 2..k : IsParentOf(s[i - 1], s[i])
  <2>1. CASE broken = {}
    <3>1. p = s
      BY <2>1 DEF LinkedPrefix
    <3>2. s = SubSeq(s, 1, Len(s))
      BY SubSeqFull
    <3>3. Len(s) \in 1..Len(s)
      BY <1>1
    <3> QED
      BY <2>1, <3>1, <3>2, <3>3
  <2>2. CASE broken # {}
    <3>1. broken \in SUBSET Nat
      BY <1>1
    <3>2. \E m \in broken : \A n \in broken : m <= n
      <4> HIDE DEF broken
      <4> QED
        BY <2>2, <3>1, LeastNatural
    <3>3. Min(broken) \in broken /\ \A n \in broken : Min(broken) <= n
      <4> HIDE DEF broken
      <4> QED
        BY <3>2 DEF Min
    <3>4. p = SubSeq(s, 1, Min(broken) - 1)
      BY <2>2 DEF LinkedPrefix
    <3> DEFINE m == Min(broken)
    <3> HIDE DEF m
    <3>5. m \in 2..Len(s) /\ \A n \in broken : m <= n
      BY <3>3 DEF m
    <3>6. m - 1 \in 1..Len(s)
      BY <1>1, <3>5
    <3>7. ASSUME NEW i \in 2..(m - 1) PROVE IsParentOf(s[i - 1], s[i])
      <4>1. i \in 2..Len(s) /\ ~(m <= i)
        BY <1>1, <3>5
      <4> QED
        BY <3>5, <4>1
    <3> QED
      BY <3>4, <3>6, <3>7 DEF m
  <2> QED
    BY <2>1, <2>2
<1>3. p \in Seq(Block) /\ Len(p) = k /\ \A i \in 1..k : p[i] = s[i]
  <2>1. 1 \in Int /\ k \in Int /\ \A i \in 1..k : s[i] \in Block
    BY <1>1
  <2>2. /\ SubSeq(s, 1, k) \in Seq(Block)
        /\ Len(SubSeq(s, 1, k)) = (IF 1 <= k THEN k - 1 + 1 ELSE 0)
        /\ \A i \in 1..(k - 1 + 1) : SubSeq(s, 1, k)[i] = s[1 + i - 1]
    BY <2>1, SubSeqProperties
  <2>3. k - 1 + 1 = k /\ 1 <= k /\ \A i \in 1..k : 1 + i - 1 = i
    BY <1>1
  <2> HIDE DEF p
  <2> QED
    BY <1>2, <2>2, <2>3
<1> HIDE DEF p
<1>4. Linked(p)
  <2> SUFFICES ASSUME NEW i \in 2..Len(p) PROVE Parent(p[i]) = p[i - 1]
    BY DEF Linked
  <2>1. i \in 2..k /\ i \in 1..k /\ i - 1 \in 1..k
    BY <1>1, <1>3
  <2> QED
    BY <1>2, <1>3, <2>1 DEF IsParentOf
<1>5. p # <<>> /\ p[1] = s[1] /\ Len(p) <= Len(s) /\ p = SubSeq(s, 1, Len(p))
  BY <1>1, <1>2, <1>3, EmptySeq
<1>6. BlocksOf(p) \subseteq BlocksOf(s)
  <2>1. DOMAIN p = 1..k /\ 1..k \subseteq DOMAIN s
    BY <1>1, <1>3, LenProperties
  <2> QED
    BY <1>3, <2>1 DEF BlocksOf
<1> QED
  BY <1>3, <1>4, <1>5, <1>6, LinkedIsRun DEF p

LEMMA FetchTxBlockSafety == ASSUME ReconcilerInv, FetchTxBlock PROVE ReconcilerInv'
<1>1. /\ pc = "block"
      /\ UNCHANGED <<chainVars, configVars, cacheVars>> /\ UNCHANGED <<inputVars, steppedBack>>
      /\ UNCHANGED <<held, receipt, answeredAt>>
  BY DEF FetchTxBlock
<1>2. PICK txBlock \in {receipt, GetBlockInfoByNumber(Number(receipt))} :
        IF txBlock = NoBlock
        THEN Returns("error", <<>>) /\ UNCHANGED <<newFork, rebuilt>>
        ELSE /\ earlyList' = EarlyList(txBlock)
             /\ newFork' = (existing # <<>> /\ existing[1] # txBlock)
             /\ rebuilt' = (existing # <<>> /\ existing[1] = txBlock /\ LinkedPrefix(existing) # existing)
             /\ pc' = IF Number(Last(earlyList')) >= Number(txBlock) + target THEN "met" ELSE "late"
             /\ UNCHANGED <<answerVars, lateList>>
  BY DEF FetchTxBlock
<1>3. /\ CallTypeOK /\ ListInv /\ receipt \in Remembered /\ head \in Block /\ BlocksOf(Path(head)) \subseteq Block
      /\ BlocksOf(existing) \subseteq Remembered /\ target \in Nat
  BY CallFacts
<1>4. CASE txBlock = NoBlock
  <2>1. Returns("error", <<>>) /\ newFork' \in BOOLEAN /\ rebuilt' \in BOOLEAN /\ receipt' \in Remembered /\ answeredAt' \in BlockOrNil
    BY <1>1, <1>2, <1>3, <1>4 DEF CallTypeOK
  <2>2. LightAnswersAreFinal'
    BY <2>1, OtherAnswers DEF Returns
  <2> QED
    BY <1>1, <2>1, <2>2, EmptyReturnSafety
<1>5. CASE txBlock # NoBlock
  <2> DEFINE early == EarlyList(txBlock)
  <2>1. /\ earlyList' = early /\ UNCHANGED <<outcome, confirmations, lateList>>
        /\ newFork' = (existing # <<>> /\ existing[1] # txBlock)
        /\ rebuilt' = (existing # <<>> /\ existing[1] = txBlock /\ LinkedPrefix(existing) # existing)
        /\ pc' = IF Number(Last(early)) >= Number(txBlock) + target THEN "met" ELSE "late"
        /\ UNCHANGED <<existing, target, expected>>
    BY <1>1, <1>2, <1>5 DEF answerVars, inputVars
  <2>2. txBlock \in Block /\ txBlock \in Remembered \cup BlocksOf(Path(head)) /\ Number(txBlock) \in Nat
    <3>1. receipt \in Block /\ Number(receipt) \in Nat
      BY <1>1, <1>3, PathOfBlock DEF CallTypeOK, ListInv, BlockOrNil
    <3>2. BlockAt(head, Number(receipt)) \in {NoBlock} \cup BlocksOf(Path(head))
      BY DEF BlockAt, BlocksOf
    <3> QED
      BY <1>2, <1>3, <1>5, <3>1, <3>2, PathOfBlock DEF GetBlockInfoByNumber
  <2>3. /\ Run(early) /\ early # <<>> /\ early[1] = txBlock
        /\ BlocksOf(early) \subseteq Remembered \cup BlocksOf(Path(head))
    <3>1. CASE existing # <<>> /\ existing[1] = txBlock
      <4>1. early = LinkedPrefix(existing)
        BY <3>1 DEF EarlyList
      <4>2. existing \in Seq(Block)
        BY <1>3 DEF CallTypeOK
      <4> HIDE DEF early
      <4> QED
        BY <1>3, <3>1, <4>1, <4>2, LinkedPrefixProperties
    <3>2. CASE ~(existing # <<>> /\ existing[1] = txBlock)
      <4>1. early = <<txBlock>>
        BY <3>2 DEF EarlyList
      <4> HIDE DEF early
      <4> QED
        BY <2>2, <4>1, SingletonRun
    <3> QED
      BY <3>1, <3>2
  <2>4. lateList = <<>> /\ Run(<<>>) /\ BlocksOf(<<>>) = {}
    BY <1>1, <1>3, EmptyRun DEF ListInv
  <2>5. HandedBackInv'
    <3>1. ASSUME pc' = "met" PROVE early = SubSeq(existing, 1, Len(early)) /\ Len(early) <= Len(existing)
      <4>1. Number(Last(early)) >= Number(txBlock) + target /\ target > 0
        BY <1>1, <1>3, <2>1, <3>1 DEF ListInv
      <4>2. existing # <<>> /\ existing[1] = txBlock
        <5> SUFFICES ASSUME ~(existing # <<>> /\ existing[1] = txBlock) PROVE FALSE
          OBVIOUS
        <5>1. early = <<txBlock>>
          BY DEF EarlyList
        <5>2. Last(early) = txBlock
          BY <5>1 DEF Last
        <5> HIDE DEF early
        <5> QED
          BY <1>3, <2>2, <4>1, <5>2
      <4>3. early = LinkedPrefix(existing) /\ existing \in Seq(Block)
        BY <1>3, <4>2 DEF EarlyList, CallTypeOK
      <4> HIDE DEF early
      <4> QED
        BY <4>2, <4>3, LinkedPrefixProperties
    <3>2. ASSUME ~newFork', ~rebuilt' PROVE existing \in {<<>>, early}
      <4> SUFFICES ASSUME existing # <<>> PROVE existing = early
        OBVIOUS
      <4>1. existing[1] = txBlock
        BY <2>1, <3>2
      <4>2. LinkedPrefix(existing) = existing
        BY <2>1, <3>2, <4>1
      <4> QED
        BY <4>1, <4>2 DEF EarlyList
    <3> HIDE DEF early
    <3> QED
      BY <2>1, <3>1, <3>2 DEF HandedBackInv
  <2>6. StepBackInv'
    BY <2>1 DEF StepBackInv
  <2>7. newFork' \in BOOLEAN /\ rebuilt' \in BOOLEAN /\ pc' \in {"met", "late"}
    BY <2>1
  <2> HIDE DEF early
  <2>8. pc' = "met" => Number(Last(early)) >= Number(early[1]) + target
    BY <2>1, <2>3
  <2> QED
    BY <1>1, <2>1, <2>3, <2>4, <2>5, <2>6, <2>7, <2>8, ListsSafety
<1> QED
  BY <1>4, <1>5

LEMMA TargetMetSafety == ASSUME ReconcilerInv, TargetMetWithEarlyList PROVE ReconcilerInv'
<1> DEFINE list == SubSeq(earlyList, 1, target + 1)
<1>1. /\ pc = "met"
      /\ UNCHANGED <<chainVars, configVars, cacheVars>> /\ UNCHANGED <<inputVars, steppedBack>>
      /\ UNCHANGED <<held, receipt, answeredAt>>
      /\ \/ Returns("confirmed", list) /\ newFork' = FALSE /\ rebuilt' = FALSE
         \/ pc' = "late" /\ UNCHANGED <<answerVars, listVars>>
  BY DEF TargetMetWithEarlyList
<1>2. /\ CallTypeOK /\ ListInv /\ HandedBackInv /\ Run(earlyList) /\ earlyList # <<>> /\ receipt \in Remembered
      /\ BlocksOf(earlyList) \subseteq Remembered /\ target \in Nat /\ mode = "full"
      /\ UNCHANGED <<existing, target, expected, mode>>
  BY <1>1, CallFacts DEF ListInv, inputVars, configVars
<1>3. CASE Returns("confirmed", list) /\ newFork' = FALSE /\ rebuilt' = FALSE
  <2>1. target + 1 \in 1..Len(earlyList)
    <3>1. Number(Last(earlyList)) >= Number(earlyList[1]) + target
      BY <1>1, <1>2 DEF ListInv
    <3>2. Number(Last(earlyList)) = Number(earlyList[1]) + Len(earlyList) - 1 /\ Number(earlyList[1]) \in Nat /\ Len(earlyList) \in Nat
      BY <1>2, FirstAndLast
    <3> QED
      BY <1>2, <3>1, <3>2
  <2>2. Run(list) /\ Len(list) = target + 1 /\ BlocksOf(list) \subseteq BlocksOf(earlyList)
    BY <1>2, <2>1, PrefixOfRun
  <2>3. \A i \in DOMAIN existing \cap DOMAIN list : existing[i] = list[i]
    <3>1. earlyList = SubSeq(existing, 1, Len(earlyList)) /\ Len(earlyList) <= Len(existing) /\ existing \in Seq(Block)
      BY <1>1, <1>2 DEF HandedBackInv, CallTypeOK
    <3>2. Len(existing) \in Nat /\ Len(earlyList) \in Nat /\ \A i \in 1..Len(existing) : existing[i] \in Block
      BY <1>2, <3>1, LenProperties, ElementOfSeq, RunProperties
    <3>3. \A i \in 1..Len(earlyList) : earlyList[i] = existing[i]
      <4>1. 1 \in Int /\ Len(earlyList) \in Int /\ \A i \in 1..Len(earlyList) : existing[i] \in Block
        BY <3>1, <3>2
      <4>2. \A i \in 1..(Len(earlyList) - 1 + 1) : SubSeq(existing, 1, Len(earlyList))[i] = existing[1 + i - 1]
        BY <4>1, SubSeqProperties
      <4>3. Len(earlyList) - 1 + 1 = Len(earlyList) /\ \A i \in 1..Len(earlyList) : 1 + i - 1 = i
        BY <3>2
      <4> QED
        BY <3>1, <4>2, <4>3
    <3>4. \A i \in 1..(target + 1) : list[i] = earlyList[i] /\ i \in 1..Len(earlyList)
      <4>1. 1 \in 1..(Len(earlyList) + 1) /\ target + 1 \in (1 - 1)..Len(earlyList)
        BY <2>1, <3>2
      <4>2. \A i \in 1..(target + 1 - 1 + 1) : SubSeq(earlyList, 1, target + 1)[i] = earlyList[1 + i - 1]
        BY <1>2, <4>1, SegmentOfRun
      <4>3. target + 1 - 1 + 1 = target + 1 /\ \A i \in 1..(target + 1) : 1 + i - 1 = i /\ i \in 1..Len(earlyList)
        BY <1>2, <2>1, <3>2
      <4> QED
        BY <4>2, <4>3
    <3>5. DOMAIN list = 1..(target + 1)
      BY <2>2, RunProperties
    <3> HIDE DEF list
    <3> QED
      BY <3>3, <3>4, <3>5
  <2>4. LightAnswersAreFinal'
    BY <1>2 DEF LightAnswersAreFinal
  <2>5. BlocksOf(list) \subseteq Remembered \cup BlocksOf(Path(head)) /\ Len(list) > target
        /\ receipt' \in Remembered /\ answeredAt' \in BlockOrNil
    BY <1>1, <1>2, <2>2 DEF CallTypeOK
  <2> HIDE DEF list
  <2> QED
    BY <1>1, <1>3, <2>2, <2>3, <2>4, <2>5, ReturnSafety
<1>4. CASE pc' = "late" /\ UNCHANGED <<answerVars, listVars>>
  <2>1. UNCHANGED <<outcome, confirmations, earlyList, lateList, newFork, rebuilt>>
    BY <1>4 DEF answerVars, listVars
  <2>2. HandedBackInv' /\ StepBackInv'
    BY <1>1, <1>2, <1>4, <2>1 DEF HandedBackInv, StepBackInv
  <2>3. /\ Run(earlyList') /\ earlyList' # <<>> /\ lateList' = <<>> /\ Run(lateList')
        /\ BlocksOf(earlyList') \cup BlocksOf(lateList') \subseteq Remembered
        /\ newFork' \in BOOLEAN /\ rebuilt' \in BOOLEAN
    BY <1>1, <1>2, <2>1, EmptyRun DEF ListInv, CallTypeOK
  <2> QED
    BY <1>1, <1>2, <1>4, <2>1, <2>2, <2>3, ListsSafety
<1> QED
  BY <1>1, <1>3, <1>4

-----------------------------------------------------------------------------
(* The splice. *)

(* A run without its last block. *)
LEMMA FrontOfRun ==
    ASSUME NEW s, Run(s), s # <<>>, Front(s) # <<>>
    PROVE  /\ Run(Front(s)) /\ BlocksOf(Front(s)) \subseteq BlocksOf(s) /\ Front(s) # s
           /\ Number(Last(Front(s))) = Number(Last(s)) - 1 /\ Number(s[1]) < Number(Last(s))
<1> DEFINE n == Len(s) - 1
           t == Front(s)
<1>1. /\ Len(s) \in Nat /\ Len(s) >= 1 /\ Number(s[1]) \in Nat
      /\ Number(Last(s)) = Number(s[1]) + Len(s) - 1 /\ \A i \in 1..Len(s) : Number(s[i]) = Number(s[1]) + i - 1
  BY FirstAndLast
<1>2. t = SubSeq(s, 1, n) /\ n = Len(s) - 1 /\ t # <<>>
  BY DEF Front
<1> HIDE DEF n, t
<1>3. n # 0
  <2>1. SubSeq(s, 1, 0) = <<>>
    <3>1. 0 < 1 /\ 0 \in Int /\ 1 \in Int
      OBVIOUS
    <3> QED
      BY <3>1, SubSeqEmpty
  <2> QED
    BY <1>2, <2>1
<1>3a. Len(s) \in Nat /\ Len(s) >= 1
  BY <1>1
<1>4. n \in 1..Len(s) /\ n = Len(s) - 1
  BY <1>2, <1>3, <1>3a
<1>5. Run(t) /\ Len(t) = n /\ t[n] = s[n] /\ BlocksOf(t) \subseteq BlocksOf(s)
  BY <1>2, <1>4, PrefixOfRun
<1>6. Last(t) = s[n] /\ Number(s[n]) = Number(s[1]) + n - 1
  BY <1>1, <1>4, <1>5 DEF Last
<1>7. t # s
  BY <1>1, <1>4, <1>5
<1>8. Number(Last(t)) = Number(Last(s)) - 1 /\ Number(s[1]) < Number(Last(s))
  BY <1>1, <1>4, <1>6
<1> QED
  BY <1>5, <1>7, <1>8 DEF t

(* The blocks of a run below a number, which is above its first. *)
LEMMA BelowNumber ==
    ASSUME NEW s, Run(s), s # <<>>, NEW k \in Nat, Number(s[1]) < k
    PROVE  LET t == Between(s, 0, k - 1)
           IN  /\ Run(t) /\ t # <<>> /\ t[1] = s[1] /\ BlocksOf(t) \subseteq BlocksOf(s) /\ Len(t) <= Len(s)
               /\ \A i \in 1..Len(t) : t[i] = s[i]
               /\ Number(Last(t)) < k
               /\ Number(Last(t)) + 1 < k => t = s
<1> DEFINE n == k - 1
           t == Between(s, 0, n)
<1>1. /\ s \in Seq(Block) /\ Len(s) \in Nat /\ Len(s) >= 1 /\ DOMAIN s = 1..Len(s) /\ Number(s[1]) \in Nat
      /\ \A i \in 1..Len(s) : Number(s[i]) = Number(s[1]) + i - 1
  BY FirstAndLast
<1>2. n \in Int /\ 0 <= n + 1 /\ n = k - 1 /\ Number(s[1]) <= n /\ 0 <= Number(s[1])
  BY <1>1
<1> HIDE DEF n
<1>3. /\ Run(t) /\ BlocksOf(t) = {b \in BlocksOf(s) : Number(b) \in 0..n}
      /\ Len(t) <= Len(s)
      /\ \A i \in 1..Len(t) : t[i] = s[i]
      /\ \A i \in 1..Len(s) : i <= Len(t) <=> Number(s[i]) <= n
  <2>1. 0 \in Int /\ n \in Int /\ 0 <= n + 1 /\ s # <<>> /\ 0 <= Number(s[1])
    BY <1>2
  <2>2. /\ Run(Between(s, 0, n))
        /\ BlocksOf(Between(s, 0, n)) = {b \in BlocksOf(s) : Number(b) \in 0..n}
        /\ (s # <<>> /\ 0 <= Number(s[1])) =>
                /\ Len(Between(s, 0, n)) <= Len(s)
                /\ \A i \in 1..Len(Between(s, 0, n)) : Between(s, 0, n)[i] = s[i]
                /\ \A i \in 1..Len(s) : i <= Len(Between(s, 0, n)) <=> Number(s[i]) <= n
    BY <2>1, BetweenProperties
  <2> HIDE DEF t
  <2>3. t = Between(s, 0, n)
    BY DEF t
  <2> QED
    BY <2>1, <2>2, <2>3
<1> HIDE DEF t
<1>4. Len(t) \in Nat /\ Len(t) >= 1 /\ t \in Seq(Block) /\ t # <<>>
  <2>1. 1 \in 1..Len(s)
    BY <1>1
  <2>2. 1 <= Len(t) /\ Len(t) \in Nat /\ t \in Seq(Block)
    BY <1>2, <1>3, <2>1, RunProperties
  <2> QED
    BY <2>2, EmptySeq
<1>5. t[1] = s[1] /\ Last(t) \in BlocksOf(t) /\ Number(Last(t)) = Number(t[1]) + Len(t) - 1
  <2>1. 1 \in 1..Len(t) /\ Len(t) \in 1..Len(t)
    BY <1>4
  <2> QED
    BY <1>3, <1>4, <2>1, FirstAndLast
<1>6. Number(Last(t)) < k
  BY <1>2, <1>3, <1>5
<1>7. ASSUME Number(Last(t)) + 1 < k PROVE t = s
  <2>1. ~(Len(t) + 1 \in 1..Len(s))
    <3> DEFINE i == Len(t) + 1
    <3> SUFFICES ASSUME i \in 1..Len(s) PROVE FALSE
      OBVIOUS
    <3>1. Number(s[i]) = Number(s[1]) + i - 1 /\ (i <= Len(t) <=> Number(s[i]) <= n)
      BY <1>1, <1>3
    <3>2. ~(i <= Len(t)) /\ i = Len(t) + 1 /\ i \in Nat
      BY <1>4
    <3> HIDE DEF i
    <3> QED
      BY <1>1, <1>2, <1>4, <1>5, <1>7, <3>1, <3>2
  <2>2. Len(t) = Len(s)
    BY <1>1, <1>3, <1>4, <2>1
  <2> QED
    BY <1>1, <1>3, <1>4, <2>2, SeqEqual
<1>8. BlocksOf(t) \subseteq BlocksOf(s)
  BY <1>3
<1> QED
  BY <1>3, <1>4, <1>5, <1>6, <1>7, <1>8 DEF t, n

(* Two runs are joined, or a gap is left between them to be filled. *)
LEMMA JoinSafety ==
    ASSUME ReconcilerInv, UNCHANGED <<chainVars, configVars, cacheVars, inputVars>>,
           UNCHANGED <<held, receipt, rebuilt, answeredAt, steppedBack>>, pc \in {"late", "target", "fill"},
           NEW early, Run(early), early # <<>>, NEW late, Run(late), late # <<>>, NEW fork \in BOOLEAN,
           Join(early, late, fork),
           Number(Last(early)) < Number(late[1]),
           BlocksOf(early) \cup BlocksOf(late) \subseteq Remembered \cup BlocksOf(Path(head)),
           ~fork /\ ~rebuilt /\ Joins(early, late) =>
                \A i \in DOMAIN existing \cap DOMAIN (early \o late) : existing[i] = (early \o late)[i],
           ~fork /\ ~rebuilt /\ Number(Last(early)) + 1 < Number(late[1]) => existing \in {<<>>, early},
           ~steppedBack /\ Number(early[1]) + 1 < Number(late[1]) => Number(late[1]) - 1 <= Number(head)
    PROVE  ReconcilerInv'
<1>1. /\ CallTypeOK /\ ListInv /\ receipt \in Remembered /\ target \in Nat /\ mode = "full"
      /\ UNCHANGED <<existing, target, expected, mode>> /\ rebuilt \in BOOLEAN /\ answeredAt \in BlockOrNil
  BY CallFacts DEF ListInv, CallTypeOK, inputVars, configVars
<1>2. /\ early \in Seq(Block) /\ Len(early) \in Nat /\ Len(early) >= 1
      /\ early[1] \in Block /\ Number(early[1]) \in Nat /\ Last(early) = early[Len(early)]
      /\ Number(Last(early)) = Number(early[1]) + Len(early) - 1
      /\ late[1] \in Block /\ Number(late[1]) \in Nat
  BY FirstAndLast
<1>3. CASE Joins(early, late)
  <2> DEFINE list == early \o late
             what == IF Len(list) > target THEN "confirmed" ELSE "unconfirmed"
  <2>1. Returns(what, list) /\ newFork' = fork
    BY <1>3 DEF Join
  <2>2. Run(list)
    BY <1>2, <1>3, RunConcatenated DEF Joins, IsParentOf
  <2>3. BlocksOf(list) \subseteq BlocksOf(early) \cup BlocksOf(late)
    <3>1. /\ late \in Seq(Block) /\ Len(late) \in Nat /\ BlocksOf(late) = {late[i] : i \in 1..Len(late)}
          /\ BlocksOf(early) = {early[i] : i \in 1..Len(early)}
          /\ BlocksOf(list) = {list[i] : i \in 1..Len(list)}
      BY <2>2, RunProperties
    <3>2. /\ Len(list) = Len(early) + Len(late)
          /\ \A i \in 1..(Len(early) + Len(late)) : list[i] = IF i <= Len(early) THEN early[i] ELSE late[i - Len(early)]
      BY <1>2, <3>1, ConcatProperties
    <3> HIDE DEF list
    <3>3. ASSUME NEW i \in 1..(Len(early) + Len(late)) PROVE list[i] \in BlocksOf(early) \cup BlocksOf(late)
      <4>1. CASE i <= Len(early)
        BY <1>2, <3>1, <3>2, <4>1
      <4>2. CASE ~(i <= Len(early))
        <5>1. i - Len(early) \in 1..Len(late)
          BY <1>2, <3>1, <4>2
        <5> QED
          BY <3>1, <3>2, <4>2, <5>1
      <4> QED
        BY <4>1, <4>2
    <3> QED
      BY <3>1, <3>2, <3>3
  <2>4. \A i \in DOMAIN existing \cap DOMAIN list : existing[i] # list[i] => newFork' \/ rebuilt'
    <3>1. CASE fork \/ rebuilt
      BY <2>1, <3>1
    <3>2. CASE ~fork /\ ~rebuilt
      BY <1>3, <3>2
    <3> QED
      BY <3>1, <3>2
  <2>5. LightAnswersAreFinal'
    BY <1>1 DEF LightAnswersAreFinal
  <2>6. what \in {"confirmed", "unconfirmed"} /\ (what = "confirmed" => Len(list) > target)
    OBVIOUS
  <2>7. newFork' \in BOOLEAN /\ rebuilt' \in BOOLEAN /\ receipt' \in Remembered /\ answeredAt' \in BlockOrNil
        /\ BlocksOf(list) \subseteq Remembered \cup BlocksOf(Path(head))
    BY <1>1, <2>1, <2>3
  <2> HIDE DEF list, what
  <2> QED
    BY <2>1, <2>2, <2>4, <2>5, <2>6, <2>7, ReturnSafety
<1>4. CASE ~Joins(early, late)
  <2> DEFINE gap == Number(Last(early)) + 1 < Number(late[1])
             kept == IF gap THEN early ELSE Front(early)
  <2>1. /\ newFork' = (fork \/ kept # early)
        /\ IF kept = <<>> THEN Returns("error", <<>>)
           ELSE pc' = "fill" /\ earlyList' = kept /\ lateList' = late /\ UNCHANGED answerVars
    BY <1>4 DEF Join
  <2>2. newFork' \in BOOLEAN /\ rebuilt' \in BOOLEAN /\ receipt' \in Remembered /\ answeredAt' \in BlockOrNil
    BY <1>1, <2>1
  <2>3. CASE kept = <<>>
    <3>1. Returns("error", <<>>)
      BY <2>1, <2>3
    <3>2. LightAnswersAreFinal'
      BY <3>1, OtherAnswers DEF Returns
    <3> QED
      BY <2>2, <3>1, <3>2, EmptyReturnSafety
  <2>4. CASE kept # <<>>
    <3>1. pc' = "fill" /\ earlyList' = kept /\ lateList' = late /\ UNCHANGED <<outcome, confirmations>>
      BY <2>1, <2>4 DEF answerVars
    <3>2. /\ Run(kept) /\ BlocksOf(kept) \subseteq BlocksOf(early) /\ Number(Last(kept)) + 1 < Number(late[1])
          /\ Number(early[1]) + 1 < Number(late[1]) /\ (~gap => kept # early)
      <4>1. CASE gap
        <5>1. kept = early
          BY <4>1
        <5> HIDE DEF kept
        <5> QED
          BY <1>2, <4>1, <5>1
      <4>2. CASE ~gap
        <5>1. kept = Front(early)
          BY <4>2
        <5> HIDE DEF kept
        <5>2. /\ Run(kept) /\ BlocksOf(kept) \subseteq BlocksOf(early) /\ kept # early
              /\ Number(Last(kept)) = Number(Last(early)) - 1 /\ Number(early[1]) < Number(Last(early))
          BY <2>4, <5>1, FrontOfRun
        <5> QED
          BY <1>2, <5>2
      <4> QED
        BY <4>1, <4>2
    <3>3. HandedBackInv'
      <4>1. ASSUME ~newFork', ~rebuilt PROVE existing \in {<<>>, kept}
        <5>1. ~fork /\ kept = early
          BY <2>1, <4>1
        <5>2. gap
          BY <3>2, <5>1
        <5> QED
          BY <4>1, <5>1, <5>2
      <4> HIDE DEF kept
      <4> QED
        BY <1>1, <3>1, <4>1 DEF HandedBackInv
    <3>4. StepBackInv'
      <4>1. head' = head
        BY DEF chainVars
      <4> QED
        BY <3>1, <3>2, <4>1 DEF StepBackInv
    <3> HIDE DEF kept
    <3>5. /\ Run(earlyList') /\ earlyList' # <<>> /\ Run(lateList')
          /\ lateList' # <<>> /\ Number(Last(earlyList')) + 1 < Number(lateList'[1])
          /\ BlocksOf(earlyList') \cup BlocksOf(lateList') \subseteq Remembered \cup BlocksOf(Path(head))
      BY <2>4, <3>1, <3>2
    <3> QED
      BY <1>1, <2>2, <3>1, <3>3, <3>4, <3>5, ListsSafety
  <2> QED
    BY <2>3, <2>4
<1> QED
  BY <1>3, <1>4

LEMMA SpliceSafety ==
    ASSUME ReconcilerInv, UNCHANGED <<chainVars, configVars, cacheVars, inputVars>>,
           UNCHANGED <<held, receipt, answeredAt, steppedBack>>, pc \in {"late", "target"},
           NEW late, Run(late), late # <<>>, Splice(late),
           Number(earlyList[1]) < Number(late[1]),
           BlocksOf(late) \subseteq Remembered \cup BlocksOf(Path(head)),
           ~steppedBack /\ Number(earlyList[1]) + 1 < Number(late[1]) => Number(late[1]) - 1 <= Number(head)
    PROVE  ReconcilerInv'
<1> DEFINE early == Between(earlyList, 0, Number(late[1]) - 1)
           fork == newFork \/ OverlapDiffers(earlyList, late)
<1>1. Join(early, late, fork) /\ rebuilt' = rebuilt
  BY DEF Splice
<1>2. /\ Run(earlyList) /\ earlyList # <<>> /\ BlocksOf(earlyList) \subseteq Remembered /\ newFork \in BOOLEAN
      /\ HandedBackInv
  BY CallFacts DEF ListInv, CallTypeOK
<1>3. /\ earlyList \in Seq(Block) /\ Len(earlyList) \in Nat /\ DOMAIN earlyList = 1..Len(earlyList)
      /\ Number(earlyList[1]) \in Nat
      /\ \A i \in 1..Len(earlyList) : Number(earlyList[i]) = Number(earlyList[1]) + i - 1
      /\ late \in Seq(Block) /\ Len(late) \in Nat /\ DOMAIN late = 1..Len(late) /\ Number(late[1]) \in Nat
      /\ \A i \in 1..Len(late) : Number(late[i]) = Number(late[1]) + i - 1
  BY <1>2, FirstAndLast
<1>4. /\ Run(early) /\ early # <<>> /\ early[1] = earlyList[1] /\ BlocksOf(early) \subseteq BlocksOf(earlyList)
      /\ Len(early) <= Len(earlyList)
      /\ \A i \in 1..Len(early) : early[i] = earlyList[i]
      /\ Number(Last(early)) < Number(late[1])
      /\ Number(Last(early)) + 1 < Number(late[1]) => early = earlyList
  BY <1>2, <1>3, BelowNumber
<1> HIDE DEF early
<1>6. /\ Len(early) \in Nat /\ early \in Seq(Block) /\ DOMAIN early = 1..Len(early)
      /\ Number(Last(early)) = Number(earlyList[1]) + Len(early) - 1
  BY <1>4, FirstAndLast
<1>8. ASSUME ~fork, ~rebuilt PROVE ~newFork /\ ~OverlapDiffers(earlyList, late) /\ existing \in {<<>>, earlyList}
  <2>1. ~newFork /\ ~OverlapDiffers(earlyList, late)
    BY <1>8
  <2> QED
    BY <1>2, <1>8, <2>1 DEF HandedBackInv
<1>9. ASSUME ~fork, ~rebuilt, Joins(early, late)
      PROVE  \A i \in DOMAIN existing \cap DOMAIN (early \o late) : existing[i] = (early \o late)[i]
  <2> DEFINE list == early \o late
  <2> SUFFICES ASSUME NEW i \in DOMAIN existing \cap DOMAIN list PROVE existing[i] = list[i]
    OBVIOUS
  <2>1. existing = earlyList
    <3>1. DOMAIN <<>> = {}
      BY EmptyRun, EmptySeq, LenProperties
    <3> QED
      BY <1>8, <1>9, <3>1
  <2>2. /\ Len(list) = Len(early) + Len(late) /\ list \in Seq(Block)
        /\ \A j \in 1..(Len(early) + Len(late)) : list[j] = IF j <= Len(early) THEN early[j] ELSE late[j - Len(early)]
    BY <1>3, <1>6, ConcatProperties
  <2>3. DOMAIN list = 1..(Len(early) + Len(late))
    <3> HIDE DEF list
    <3> QED
      BY <2>2, LenProperties
  <2> HIDE DEF list
  <2>4. i \in 1..Len(earlyList) /\ i \in 1..(Len(early) + Len(late))
    BY <1>3, <2>1, <2>3
  <2>5. CASE i <= Len(early)
    <3>1. i \in 1..Len(early)
      BY <1>3, <2>4, <2>5
    <3> QED
      BY <1>4, <2>1, <2>2, <2>4, <2>5, <3>1
  <2>6. CASE ~(i <= Len(early))
    <3> DEFINE j == i - Len(early)
    <3>1. j \in 1..Len(late) /\ i = j + Len(early) /\ j \in Int
      BY <1>3, <1>6, <2>4, <2>6
    <3>2. list[i] = late[j]
      BY <2>2, <2>4, <2>6
    <3> HIDE DEF j
    <3>3. Number(late[1]) = Number(earlyList[1]) + Len(early)
      <4>1. Number(Last(early)) + 1 = Number(late[1])
        BY <1>9 DEF Joins, IsParentOf
      <4> QED
        BY <1>3, <1>6, <4>1
    <3>4. Number(earlyList[i]) = Number(late[j])
      <4>1. Number(earlyList[i]) = Number(earlyList[1]) + i - 1 /\ Number(late[j]) = Number(late[1]) + j - 1
        BY <1>3, <2>4, <3>1
      <4> QED
        BY <1>3, <1>6, <2>4, <3>1, <3>3, <4>1
    <3>5. earlyList[i] = late[j]
      BY <1>3, <1>8, <1>9, <2>4, <3>1, <3>4 DEF OverlapDiffers
    <3> QED
      BY <2>1, <3>2, <3>5
  <2> QED
    BY <2>5, <2>6
<1>10. ASSUME ~fork, ~rebuilt, Number(Last(early)) + 1 < Number(late[1]) PROVE existing \in {<<>>, early}
  BY <1>4, <1>8, <1>10
<1>11. fork \in BOOLEAN
  BY <1>2 DEF OverlapDiffers
<1> HIDE DEF fork
<1>12. BlocksOf(early) \cup BlocksOf(late) \subseteq Remembered \cup BlocksOf(Path(head))
  BY <1>2, <1>4
<1> QED
  BY <1>1, <1>4, <1>9, <1>10, <1>11, <1>12, JoinSafety

-----------------------------------------------------------------------------
(* The steps that build the lists, and the steps of a call together. *)

(* A call gives up. *)
LEMMA GivenUpSafety ==
    ASSUME ReconcilerInv, UNCHANGED <<chainVars, configVars, cacheVars, held, inputVars, steppedBack>>,
           UNCHANGED <<receipt, answeredAt, newFork, rebuilt>>,
           NEW what \in {"error", "panicked"}, Returns(what, <<>>), what = "panicked" => steppedBack
    PROVE  ReconcilerInv'
<1>1. receipt' \in Remembered /\ answeredAt' \in BlockOrNil /\ newFork' \in BOOLEAN /\ rebuilt' \in BOOLEAN
  BY CallFacts DEF CallTypeOK
<1>2. LightAnswersAreFinal'
  BY OtherAnswers DEF Returns
<1> QED
  BY <1>1, <1>2, EmptyReturnSafety

(* The blocks of the in-memory chain above a number start right above it, or at the front of the *)
(* chain: nothing of the chain is missing between them.                                          *)
LEMMA BetweenStarts ==
    ASSUME NEW s, Run(s), NEW m \in Nat, NEW n \in Int, m <= n + 1, Between(s, m, n) # <<>>
    PROVE  LET t == Between(s, m, n)
           IN  /\ Run(t) /\ BlocksOf(t) \subseteq BlocksOf(s) /\ Number(t[1]) \in Nat /\ m <= Number(t[1])
               /\ m < Number(t[1]) => Number(t[1]) = Number(s[1])
<1> DEFINE t == Between(s, m, n)
<1>1. Run(t) /\ BlocksOf(t) = {b \in BlocksOf(s) : Number(b) \in m..n}
  <2>1. m \in Int
    OBVIOUS
  <2>2. Run(Between(s, m, n)) /\ BlocksOf(Between(s, m, n)) = {b \in BlocksOf(s) : Number(b) \in m..n}
    BY <2>1, BetweenProperties
  <2> QED
    BY <2>2
<1> HIDE DEF t
<1>2. t # <<>>
  BY DEF t
<1>3. /\ t[1] \in BlocksOf(t) /\ Number(t[1]) \in Nat /\ Len(t) \in Nat
      /\ \A i \in 1..Len(t) : Number(t[i]) = Number(t[1]) + i - 1
  BY <1>1, <1>2, FirstAndLast
<1>4. t[1] \in BlocksOf(s) /\ Number(t[1]) \in m..n
  BY <1>1, <1>3
<1>5. /\ Len(s) \in Nat /\ BlocksOf(s) = {s[i] : i \in 1..Len(s)} /\ BlocksOf(t) = {t[i] : i \in 1..Len(t)}
      /\ \A i \in 1..Len(s) : Number(s[i]) \in Nat /\ Number(s[i]) = Number(s[1]) + i - 1
  BY <1>1, RunProperties
<1>6. PICK j \in 1..Len(s) : t[1] = s[j]
  BY <1>4, <1>5
<1>7. ASSUME m < Number(t[1]) PROVE Number(t[1]) = Number(s[1])
  <2>1. CASE j = 1
    BY <1>6, <2>1
  <2>2. CASE j # 1
    <3>1. j - 1 \in 1..Len(s) /\ j \in Nat /\ 1 \in 1..Len(s)
      BY <1>5, <2>2
    <3>2. Number(s[j - 1]) = Number(s[1]) + (j - 1) - 1 /\ Number(s[j]) = Number(s[1]) + j - 1
          /\ Number(s[1]) \in Nat /\ Number(s[j - 1]) \in Nat
      BY <1>5, <3>1
    <3>3. Number(s[j - 1]) = Number(t[1]) - 1
      BY <1>6, <3>1, <3>2
    <3>4. Number(s[j - 1]) \in m..n
      BY <1>3, <1>4, <1>7, <3>2, <3>3
    <3>5. s[j - 1] \in BlocksOf(t)
      BY <1>1, <1>5, <3>1, <3>4
    <3>6. PICK i \in 1..Len(t) : s[j - 1] = t[i]
      BY <1>5, <3>5
    <3>7. Number(t[i]) = Number(t[1]) + i - 1
      BY <1>3
    <3> QED
      BY <1>3, <3>3, <3>6, <3>7
  <2> QED
    BY <2>1, <2>2
<1>8. BlocksOf(t) \subseteq BlocksOf(s) /\ m <= Number(t[1])
  BY <1>1, <1>3, <1>4
<1> QED
  BY <1>1, <1>3, <1>7, <1>8 DEF t

LEMMA BuildLateListSafety == ASSUME ReconcilerInv, BuildLateList PROVE ReconcilerInv'
<1> DEFINE txNumber == Number(earlyList[1])
           late == Between(canonicalChain, txNumber + 1, txNumber + target)
<1>1. /\ pc = "late"
      /\ UNCHANGED <<chainVars, configVars, cacheVars, inputVars>> /\ UNCHANGED <<held, receipt, answeredAt, steppedBack>>
      /\ \/ Returns("error", <<>>) /\ UNCHANGED <<newFork, rebuilt>>
         \/ late # <<>> /\ Splice(late)
         \/ pc' = "target" /\ UNCHANGED <<answerVars, listVars>>
  BY DEF BuildLateList
<1>2. /\ CallTypeOK /\ ListInv /\ HandedBackInv /\ Run(earlyList) /\ earlyList # <<>>
      /\ BlocksOf(earlyList) \subseteq Remembered /\ BlocksOf(canonicalChain) \subseteq Remembered
      /\ target \in Nat /\ mode = "full" /\ UNCHANGED <<existing, target, expected, mode>>
      /\ ChainInv /\ SettledInv /\ CacheTypeOK
  BY <1>1, CallFacts DEF ListInv, inputVars, configVars, ReconcilerInv, ListenerInv
<1>3. CASE Returns("error", <<>>) /\ UNCHANGED <<newFork, rebuilt>>
  BY <1>1, <1>3, GivenUpSafety
<1>4. CASE late # <<>> /\ Splice(late)
  <2>1. txNumber \in Nat /\ txNumber + 1 \in Nat /\ txNumber + target \in Int /\ txNumber + 1 <= txNumber + target + 1
    BY <1>2, FirstAndLast
  <2>2. Run(canonicalChain) /\ canonicalChain # <<>> /\ Number(canonicalChain[1]) - 1 <= Number(settled)
    BY <1>2 DEF ChainInv
  <2>3. /\ Number(settled) <= Number(head) /\ Number(settled) \in Nat /\ Number(head) \in Nat
        /\ Number(canonicalChain[1]) \in Nat
    BY <1>2, <2>2, ListenerTypes, OnPath, FirstAndLast DEF SettledInv
  <2> HIDE DEF txNumber
  <2>4. /\ Run(late) /\ BlocksOf(late) \subseteq BlocksOf(canonicalChain)
        /\ Number(late[1]) \in Nat /\ txNumber + 1 <= Number(late[1])
        /\ txNumber + 1 < Number(late[1]) => Number(late[1]) = Number(canonicalChain[1])
    BY <1>4, <2>1, <2>2, BetweenStarts
  <2> HIDE DEF late
  <2>5. txNumber + 1 < Number(late[1]) => Number(late[1]) - 1 <= Number(head)
    BY <2>2, <2>3, <2>4
  <2>6. txNumber < Number(late[1])
    BY <2>1, <2>4
  <2>7. BlocksOf(late) \subseteq Remembered \cup BlocksOf(Path(head))
    BY <1>2, <2>4
  <2> QED
    BY <1>1, <1>4, <2>4, <2>5, <2>6, <2>7, SpliceSafety DEF txNumber
<1>5. CASE pc' = "target" /\ UNCHANGED <<answerVars, listVars>>
  <2>1. UNCHANGED <<outcome, confirmations, earlyList, lateList, newFork, rebuilt>>
    BY <1>5 DEF answerVars, listVars
  <2>2. HandedBackInv' /\ StepBackInv'
    BY <1>1, <1>2, <1>5, <2>1 DEF HandedBackInv, StepBackInv
  <2>3. /\ Run(earlyList') /\ earlyList' # <<>> /\ lateList' = <<>> /\ Run(lateList')
        /\ BlocksOf(earlyList') \cup BlocksOf(lateList') \subseteq Remembered
        /\ newFork' \in BOOLEAN /\ rebuilt' \in BOOLEAN
    BY <1>1, <1>2, <2>1, EmptyRun DEF ListInv, CallTypeOK
  <2> QED
    BY <1>1, <1>2, <1>5, <2>1, <2>2, <2>3, ListsSafety
<1> QED
  BY <1>1, <1>3, <1>4, <1>5

LEMMA FetchTargetBlockSafety == ASSUME ReconcilerInv, FetchTargetBlock PROVE ReconcilerInv'
<1> DEFINE n == Number(earlyList[1]) + target
           block == BlockAt(head, n)
<1>1. /\ pc = "target"
      /\ UNCHANGED <<chainVars, configVars, cacheVars, inputVars>> /\ UNCHANGED <<held, receipt, answeredAt, steppedBack>>
      /\ IF block = NoBlock THEN Returns("error", <<>>) /\ UNCHANGED <<newFork, rebuilt>> ELSE Splice(<<block>>)
  BY DEF FetchTargetBlock, GetBlockInfoByNumber, BlockNotAvailable
<1>2. ListInv /\ Run(earlyList) /\ earlyList # <<>> /\ target \in Nat /\ target > 0 /\ head \in Block
  BY <1>1, CallFacts DEF ListInv
<1>3. CASE block = NoBlock
  <2>1. Returns("error", <<>>) /\ UNCHANGED <<newFork, rebuilt>>
    BY <1>1, <1>3
  <2> QED
    BY <1>1, <2>1, GivenUpSafety
<1>4. CASE block # NoBlock
  <2>1. Number(earlyList[1]) \in Nat /\ n = Number(earlyList[1]) + target /\ n \in Nat
    BY <1>2, FirstAndLast
  <2>2. Splice(<<block>>)
    BY <1>1, <1>4
  <2> HIDE DEF n
  <2>3. block \in Block /\ Number(block) = n
    BY <1>2, <1>4, <2>1, BlockAtType
  <2>4. block \in BlocksOf(Path(head))
    BY <1>2, <1>4 DEF BlockAt, BlocksOf
  <2> HIDE DEF block
  <2>5. Number(block) <= Number(head) /\ Number(head) \in Nat
    BY <1>2, <2>3, <2>4, OnPath, PathOfBlock
  <2>6. Run(<<block>>) /\ BlocksOf(<<block>>) = {block} /\ <<block>>[1] = block /\ <<block>> # <<>>
    BY <2>3, SingletonRun
  <2>7. Number(earlyList[1]) < Number(<<block>>[1]) /\ Number(<<block>>[1]) - 1 <= Number(head)
    BY <1>2, <2>1, <2>3, <2>5, <2>6
  <2>8. BlocksOf(<<block>>) \subseteq Remembered \cup BlocksOf(Path(head))
    BY <2>4, <2>6
  <2> QED
    BY <1>1, <2>2, <2>6, <2>7, <2>8, SpliceSafety
<1> QED
  BY <1>3, <1>4

LEMMA FillOneGapSafety == ASSUME ReconcilerInv, FillOneGap PROVE ReconcilerInv'
<1> DEFINE n == Number(lateList[1]) - 1
           block == BlockAt(head, n)
           late == <<block>> \o lateList
<1>1. /\ pc = "fill"
      /\ UNCHANGED <<chainVars, configVars, cacheVars, inputVars>>
      /\ UNCHANGED <<held, receipt, rebuilt, answeredAt, steppedBack>>
      /\ \/ block = NoBlock /\ Returns("panicked", <<>>) /\ UNCHANGED newFork
         \/ Returns("error", <<>>) /\ UNCHANGED newFork
         \/ block # NoBlock /\ Fills(block) /\ Join(earlyList, late, newFork)
  BY DEF FillOneGap, GetBlockInfoByNumber
<1>2. /\ ListInv /\ CallTypeOK /\ HandedBackInv /\ Run(earlyList) /\ earlyList # <<>> /\ Run(lateList) /\ lateList # <<>>
      /\ Number(Last(earlyList)) + 1 < Number(lateList[1]) /\ head \in Block
      /\ BlocksOf(earlyList) \cup BlocksOf(lateList) \subseteq Remembered /\ StepBackInv
  BY <1>1, CallFacts DEF ListInv, ReconcilerInv
<1>3. /\ Number(earlyList[1]) \in Nat /\ Number(Last(earlyList)) \in Nat /\ Number(lateList[1]) \in Nat
      /\ Len(earlyList) \in Nat /\ Len(earlyList) >= 1
      /\ Number(Last(earlyList)) = Number(earlyList[1]) + Len(earlyList) - 1
  BY <1>2, FirstAndLast
<1>4. n \in Nat /\ n = Number(lateList[1]) - 1 /\ Number(Last(earlyList)) < n
  BY <1>2, <1>3
<1> HIDE DEF n
<1>5. CASE block = NoBlock /\ Returns("panicked", <<>>) /\ UNCHANGED newFork
  <2>1. steppedBack \in BOOLEAN /\ Number(head) \in Nat
    BY <1>2, PathOfBlock DEF CallTypeOK
  <2>2. steppedBack
    <3> SUFFICES ASSUME ~steppedBack PROVE FALSE
      BY <2>1
    <3>1. n <= Number(head)
      BY <1>1, <1>2, <1>4 DEF StepBackInv
    <3>2. n + 1 \in 1..(Number(head) + 1)
      BY <1>4, <2>1, <3>1
    <3>3. block \in Block
      BY <1>2, <3>2, PathOfBlock DEF BlockAt
    <3> QED
      BY <1>5, <3>3, BlockTreeAssumption
  <2> HIDE DEF block
  <2> QED
    BY <1>1, <1>5, <2>2, GivenUpSafety
<1>6. CASE Returns("error", <<>>) /\ UNCHANGED newFork
  BY <1>1, <1>6, GivenUpSafety
<1>7. CASE block # NoBlock /\ Fills(block) /\ Join(earlyList, late, newFork)
  <2>1. block \in Block /\ Number(block) = n
    BY <1>2, <1>4, <1>7, BlockAtType
  <2>2. block \in BlocksOf(Path(head))
    BY <1>2, <1>7 DEF BlockAt, BlocksOf
  <2>3. Parent(lateList[1]) = block
    BY <1>7 DEF Fills, IsParentOf
  <2> HIDE DEF block
  <2>4. Run(<<block>>) /\ BlocksOf(<<block>>) = {block} /\ <<block>> # <<>> /\ Len(<<block>>) = 1 /\ <<block>>[1] = block
    BY <2>1, SingletonRun
  <2>5. Run(late)
    BY <1>2, <2>3, <2>4, RunConcatenated
  <2>6. /\ Len(late) = 1 + Len(lateList) /\ Len(lateList) \in Nat /\ lateList \in Seq(Block)
        /\ late[1] = block /\ \A i \in 1..Len(lateList) : late[1 + i] = lateList[i]
    <3>1. lateList \in Seq(Block) /\ <<block>> \in Seq(Block) /\ Len(lateList) \in Nat
      BY <1>2, <2>4, RunProperties
    <3>2. /\ Len(late) = Len(<<block>>) + Len(lateList)
          /\ \A i \in 1..(Len(<<block>>) + Len(lateList)) :
                late[i] = IF i <= Len(<<block>>) THEN <<block>>[i] ELSE lateList[i - Len(<<block>>)]
      BY <3>1, ConcatProperties
    <3> HIDE DEF late
    <3>3. late[1] = block
      BY <2>4, <3>1, <3>2
    <3>4. ASSUME NEW i \in 1..Len(lateList) PROVE late[1 + i] = lateList[i]
      <4>1. 1 + i \in 1..(1 + Len(lateList)) /\ ~(1 + i <= 1) /\ (1 + i) - 1 = i
        BY <3>1
      <4> QED
        BY <2>4, <3>2, <4>1
    <3> QED
      BY <2>4, <3>1, <3>2, <3>3, <3>4
  <2>7. late # <<>> /\ BlocksOf(late) \subseteq {block} \cup BlocksOf(lateList)
    <3> HIDE DEF late
    <3>1. /\ BlocksOf(late) = {late[i] : i \in 1..(1 + Len(lateList))}
          /\ BlocksOf(lateList) = {lateList[i] : i \in 1..Len(lateList)}
      BY <1>2, <2>5, <2>6, RunProperties
    <3>2. ASSUME NEW i \in 1..(1 + Len(lateList)) PROVE late[i] \in {block} \cup BlocksOf(lateList)
      <4>1. CASE i = 1
        BY <2>6, <4>1
      <4>2. CASE i # 1
        <5>1. i - 1 \in 1..Len(lateList) /\ 1 + (i - 1) = i
          BY <2>6, <4>2
        <5> QED
          BY <2>6, <3>1, <5>1
      <4> QED
        BY <4>1, <4>2
    <3>3. late # <<>>
      <4>1. Len(late) # 0
        BY <2>6
      <4> QED
        BY <4>1, EmptySeq
    <3> QED
      BY <3>1, <3>2, <3>3
  <2> HIDE DEF late
  <2>8. Number(late[1]) = n /\ Number(Last(earlyList)) < Number(late[1])
    BY <1>4, <2>1, <2>6
  <2>9. BlocksOf(earlyList) \cup BlocksOf(late) \subseteq Remembered \cup BlocksOf(Path(head))
    BY <1>2, <2>2, <2>7
  <2>10. newFork \in BOOLEAN /\ (~newFork /\ ~rebuilt => existing \in {<<>>, earlyList})
    BY <1>1, <1>2 DEF CallTypeOK, HandedBackInv
  <2>11. ASSUME ~newFork, ~rebuilt
         PROVE  \A i \in DOMAIN existing \cap DOMAIN (earlyList \o late) : existing[i] = (earlyList \o late)[i]
    <3>1. existing \in {<<>>, earlyList}
      BY <2>10, <2>11
    <3>2. DOMAIN <<>> = {}
      BY EmptyRun, EmptySeq, LenProperties
    <3>3. DOMAIN earlyList = 1..Len(earlyList) /\ earlyList \in Seq(Block) /\ late \in Seq(Block) /\ Len(late) \in Nat
      BY <1>2, <2>5, RunProperties
    <3>4. \A i \in 1..(Len(earlyList) + Len(late)) :
            (earlyList \o late)[i] = IF i <= Len(earlyList) THEN earlyList[i] ELSE late[i - Len(earlyList)]
      BY <3>3, ConcatProperties
    <3>5. ASSUME NEW i \in 1..Len(earlyList) PROVE earlyList[i] = (earlyList \o late)[i]
      <4>1. i \in 1..(Len(earlyList) + Len(late)) /\ i <= Len(earlyList)
        BY <1>3, <3>3
      <4> QED
        BY <3>4, <4>1
    <3> QED
      BY <3>1, <3>2, <3>3, <3>5
  <2>12. Number(late[1]) - 1 <= Number(head)
    <3>1. n <= Number(head) /\ Number(head) \in Nat
      BY <1>2, <2>1, <2>2, OnPath, PathOfBlock
    <3> QED
      BY <1>4, <2>8, <3>1
  <2> QED
    BY <1>1, <1>2, <1>7, <2>5, <2>7, <2>8, <2>9, <2>10, <2>11, <2>12, JoinSafety
<1> QED
  BY <1>1, <1>5, <1>6, <1>7

LEMMA CallStepSafety ==
    ASSUME ReconcilerInv, CallReconcile \/ CallTransactionReceipt \/ CallStep PROVE ReconcilerInv'
<1>1. CASE CallReconcile
  BY <1>1, CallReconcileSafety
<1>2. CASE CallTransactionReceipt
  BY <1>2, CallTransactionReceiptSafety
<1>3. CASE GetTransactionReceipt
  BY <1>3, GetTransactionReceiptSafety
<1>4. CASE CompareWithHead
  BY <1>4, CompareWithHeadSafety
<1>5. CASE AskReceipt
  BY <1>5, AskReceiptSafety
<1>6. CASE JudgeReceipt
  BY <1>6, JudgeReceiptSafety
<1>7. CASE FetchTxBlock
  BY <1>7, FetchTxBlockSafety
<1>8. CASE TargetMetWithEarlyList
  BY <1>8, TargetMetSafety
<1>9. CASE BuildLateList
  BY <1>9, BuildLateListSafety
<1>10. CASE FetchTargetBlock
  BY <1>10, FetchTargetBlockSafety
<1>11. CASE FillOneGap
  BY <1>11, FillOneGapSafety
<1>12. CASE CallFails
  BY <1>12, CallFailsSafety
<1>13. CASE Return
  BY <1>13, ReturnToCaller
<1> QED
  BY <1>1, <1>2, <1>3, <1>4, <1>5, <1>6, <1>7, <1>8, <1>9, <1>10, <1>11, <1>12, <1>13 DEF CallStep

-----------------------------------------------------------------------------
(* The chain, in the terms of MonitoredHead_proofs.  The parameters of its instances satisfy its *)
(* assumptions, and the steps and operators of ReceiptCache's instances are theirs.              *)

FullFacts == INSTANCE MonitoredHead_proofs WITH
    ChainTrackingMode <- "full", CheckpointBlockGap <- MonitoredHeadLength
DeepFacts == INSTANCE MonitoredHead_proofs WITH
    ChainTrackingMode <- "full", CheckpointBlockGap <- MonitoredHeadLength, MaxReorgDepth <- MonitoredHeadLength
LightFacts == INSTANCE MonitoredHead_proofs WITH ChainTrackingMode <- "light"

LEMMA InstanceAssumptions ==
    /\ FullFacts!BlockTreeAssumption /\ FullFacts!MaxReorgsAssumption /\ FullFacts!HeadAssumption
    /\ DeepFacts!BlockTreeAssumption /\ DeepFacts!MaxReorgsAssumption /\ DeepFacts!HeadAssumption
    /\ LightFacts!BlockTreeAssumption /\ LightFacts!MaxReorgsAssumption /\ LightFacts!HeadAssumption
<1>1. /\ MonitoredHeadLength \in Nat \ {0} /\ MaxReorgDepth \in 0..(MonitoredHeadLength - 1)
      /\ CheckpointBlockGap \in Nat \ {0} /\ MaxReorgDepth <= CheckpointBlockGap
      /\ MaxReorgs \in Nat /\ NodesBehind \in BOOLEAN
  BY CacheAssumption
<1>2. FullFacts!BlockTreeAssumption /\ DeepFacts!BlockTreeAssumption /\ LightFacts!BlockTreeAssumption
  BY BlockTreeAssumption
  DEF FullFacts!BlockTreeAssumption, DeepFacts!BlockTreeAssumption, LightFacts!BlockTreeAssumption,
      BlockTreeAssumption, BlockOrNil, FullFacts!BlockOrNil, DeepFacts!BlockOrNil, LightFacts!BlockOrNil
<1>3. FullFacts!MaxReorgsAssumption /\ DeepFacts!MaxReorgsAssumption /\ LightFacts!MaxReorgsAssumption
  BY <1>1
  DEF FullFacts!MaxReorgsAssumption, DeepFacts!MaxReorgsAssumption, LightFacts!MaxReorgsAssumption
<1>4. FullFacts!HeadAssumption /\ DeepFacts!HeadAssumption /\ LightFacts!HeadAssumption
  BY <1>1 DEF FullFacts!HeadAssumption, DeepFacts!HeadAssumption, LightFacts!HeadAssumption
<1> QED
  BY <1>2, <1>3, <1>4

LEMMA SameCardinality ==
    ASSUME NEW S
    PROVE  /\ Full!Cardinality(S) = Cardinality(S) /\ FullFacts!Cardinality(S) = Cardinality(S)
           /\ Deep!Cardinality(S) = Cardinality(S) /\ DeepFacts!Cardinality(S) = Cardinality(S)
  BY DEF Cardinality, Full!Cardinality, FullFacts!Cardinality, Deep!Cardinality, DeepFacts!Cardinality,
         IsFiniteSet, Full!IsFiniteSet, FullFacts!IsFiniteSet, Deep!IsFiniteSet, DeepFacts!IsFiniteSet

LEMMA SameTypes ==
    /\ Full!HeadTypeOK = FullFacts!HeadTypeOK
    /\ Full!HeadTypeOK = DeepFacts!HeadTypeOK
    /\ Full!HeadTypeOK = LightFacts!HeadTypeOK
    /\ Full!HeadTypeOK' = FullFacts!HeadTypeOK'
    /\ Full!HeadTypeOK' = DeepFacts!HeadTypeOK'
    /\ Full!HeadTypeOK' = LightFacts!HeadTypeOK'
  BY DEF Full!HeadTypeOK, FullFacts!HeadTypeOK, DeepFacts!HeadTypeOK, LightFacts!HeadTypeOK,
         Full!NodeTypeOK, FullFacts!NodeTypeOK, DeepFacts!NodeTypeOK, LightFacts!NodeTypeOK

LEMMA SameMoves == (Full!ChainMoves => FullFacts!ChainMoves) /\ (Deep!ChainMoves => DeepFacts!ChainMoves)
<1>1. Full!ChainMoves => FullFacts!ChainMoves
  BY SameCardinality
  DEF Full!ChainMoves, FullFacts!ChainMoves, Full!Extend, FullFacts!Extend, Full!Reorg, FullFacts!Reorg,
      Full!Announce, FullFacts!Announce, Full!NewlyCanonical, FullFacts!NewlyCanonical,
      Full!BlocksOf, FullFacts!BlocksOf, Full!BlockAt, FullFacts!BlockAt,
      Full!NotBelowZero, FullFacts!NotBelowZero, Full!viewVars, FullFacts!viewVars
<1>2. Deep!ChainMoves => DeepFacts!ChainMoves
  BY SameCardinality
  DEF Deep!ChainMoves, DeepFacts!ChainMoves, Deep!Extend, DeepFacts!Extend, Deep!Reorg, DeepFacts!Reorg,
      Deep!Announce, DeepFacts!Announce, Deep!NewlyCanonical, DeepFacts!NewlyCanonical,
      Deep!BlocksOf, DeepFacts!BlocksOf, Deep!BlockAt, DeepFacts!BlockAt,
      Deep!NotBelowZero, DeepFacts!NotBelowZero, Deep!viewVars, DeepFacts!viewVars
<1> QED
  BY <1>1, <1>2

LEMMA SameInit ==
    (Full!HeadInit => FullFacts!HeadInit) /\ (Deep!HeadInit => DeepFacts!HeadInit) /\ (Light!HeadInit => LightFacts!HeadInit)
  BY DEF Full!HeadInit, FullFacts!HeadInit, Full!NodeInit, FullFacts!NodeInit, Full!LightMode, FullFacts!LightMode,
         Full!BlockAt, FullFacts!BlockAt, Full!NotBelowZero, FullFacts!NotBelowZero,
         Deep!HeadInit, DeepFacts!HeadInit, Deep!NodeInit, DeepFacts!NodeInit, Deep!LightMode, DeepFacts!LightMode,
         Deep!BlockAt, DeepFacts!BlockAt, Deep!NotBelowZero, DeepFacts!NotBelowZero,
         Light!HeadInit, LightFacts!HeadInit, Light!NodeInit, LightFacts!NodeInit, Light!LightMode, LightFacts!LightMode,
         Light!BlockAt, LightFacts!BlockAt, Light!NotBelowZero, LightFacts!NotBelowZero

LEMMA SamePoll == (Full!PollLatestBlock => FullFacts!PollHead) /\ (Light!PollHeadNumber => LightFacts!PollHead)
<1>1. Full!PollLatestBlock => FullFacts!PollLatestBlock
  BY SameCardinality
  DEF Full!PollLatestBlock, FullFacts!PollLatestBlock, Full!LightMode, FullFacts!LightMode,
      Full!Reconciled, FullFacts!Reconciled, Full!Below, FullFacts!Below, Full!ValidOn, FullFacts!ValidOn,
      Full!Rebuilt, FullFacts!Rebuilt, Full!TrimFront, FullFacts!TrimFront, Full!BlocksOf, FullFacts!BlocksOf,
      Full!IsParentOf, FullFacts!IsParentOf, Full!nodeVars, FullFacts!nodeVars
<1>2. Light!PollHeadNumber => LightFacts!PollHeadNumber
  BY DEF Light!PollHeadNumber, LightFacts!PollHeadNumber, Light!LightMode, LightFacts!LightMode,
         Light!AcceptsHead, LightFacts!AcceptsHead, Light!nodeVars, LightFacts!nodeVars
<1> QED
  BY <1>1, <1>2 DEF FullFacts!PollHead, LightFacts!PollHead

LEMMA SameSettled ==
    /\ ~DeepReorgs => (SettledInv <=> FullFacts!HeadIsSettled) /\ (SettledInv <=> LightFacts!HeadIsSettled)
    /\ DeepReorgs => (SettledInv <=> DeepFacts!HeadIsSettled)
    /\ ~DeepReorgs' => (SettledInv' <=> FullFacts!HeadIsSettled')
    /\ DeepReorgs' => (SettledInv' <=> DeepFacts!HeadIsSettled')
  BY DEF SettledInv, ReorgDepth, BlocksOf, FullFacts!HeadIsSettled, FullFacts!BlocksOf,
         LightFacts!HeadIsSettled, LightFacts!BlocksOf, DeepFacts!HeadIsSettled, DeepFacts!BlocksOf

(* The head and the settled block. *)
LEMMA HeadInitially == CacheInit => Full!HeadTypeOK /\ SettledInv
<1> SUFFICES ASSUME CacheInit PROVE Full!HeadTypeOK /\ SettledInv
  OBVIOUS
<1>1. CASE mode = "full" /\ Full!HeadInit /\ receiptCache \in {"blockReceipts", "txReceipts"}
  <2>1. FullFacts!HeadInv
    BY <1>1, InstanceAssumptions, SameInit, FullFacts!HeadInitially
  <2>2. Full!HeadTypeOK /\ FullFacts!HeadIsSettled
    BY <2>1, SameTypes DEF FullFacts!HeadInv
  <2>3. ~DeepReorgs
    BY <1>1 DEF DeepReorgs
  <2> QED
    BY <2>2, <2>3, SameSettled
<1>2. CASE mode = "full" /\ Deep!HeadInit /\ receiptCache = "off"
  <2>1. DeepFacts!HeadInv
    BY <1>2, InstanceAssumptions, SameInit, DeepFacts!HeadInitially
  <2>2. Full!HeadTypeOK /\ DeepFacts!HeadIsSettled
    BY <2>1, SameTypes DEF DeepFacts!HeadInv
  <2>3. DeepReorgs
    BY <1>2 DEF DeepReorgs
  <2> QED
    BY <2>2, <2>3, SameSettled
<1>3. CASE mode = "light" /\ Light!HeadInit /\ receiptCache = "off"
  <2>1. LightFacts!HeadInv
    BY <1>3, InstanceAssumptions, SameInit, LightFacts!HeadInitially
  <2>2. Full!HeadTypeOK /\ LightFacts!HeadIsSettled
    BY <2>1, SameTypes DEF LightFacts!HeadInv
  <2>3. ~DeepReorgs
    BY <1>3 DEF DeepReorgs
  <2> QED
    BY <2>2, <2>3, SameSettled
<1> QED
  BY <1>1, <1>2, <1>3 DEF CacheInit

LEMMA ChainMovesSettles ==
    ASSUME Full!HeadTypeOK, SettledInv, ChainMoves, UNCHANGED configVars
    PROVE  /\ Full!HeadTypeOK' /\ SettledInv'
           /\ settled \in BlocksOf(Path(settled')) /\ Number(settled) <= Number(settled')
           /\ UNCHANGED <<highestBlock, currentChainHead, canonicalChain>>
<1>1. DeepReorgs' = DeepReorgs
  BY DEF DeepReorgs, configVars
<1>2. CASE ~DeepReorgs
  <2>1. FullFacts!HeadInv /\ FullFacts!ChainMoves
    BY <1>2, SameTypes, SameSettled, SameMoves DEF ChainMoves, FullFacts!HeadInv
  <2>2. FullFacts!HeadInv' /\ Number(settled) <= Number(settled') /\ settled \in FullFacts!BlocksOf(Path(settled'))
    BY <2>1, InstanceAssumptions, FullFacts!ChainMovesSettles
  <2>3. Full!HeadTypeOK' /\ FullFacts!HeadIsSettled'
    BY <2>2, SameTypes DEF FullFacts!HeadInv
  <2>4. SettledInv'
    BY <1>1, <1>2, <2>3, SameSettled
  <2> QED
    BY <2>1, <2>2, <2>3, <2>4 DEF FullFacts!BlocksOf, BlocksOf, FullFacts!ChainMoves, FullFacts!viewVars
<1>3. CASE DeepReorgs
  <2>1. DeepFacts!HeadInv /\ DeepFacts!ChainMoves
    BY <1>3, SameTypes, SameSettled, SameMoves DEF ChainMoves, DeepFacts!HeadInv
  <2>2. DeepFacts!HeadInv' /\ Number(settled) <= Number(settled') /\ settled \in DeepFacts!BlocksOf(Path(settled'))
    BY <2>1, InstanceAssumptions, DeepFacts!ChainMovesSettles
  <2>3. Full!HeadTypeOK' /\ DeepFacts!HeadIsSettled'
    BY <2>2, SameTypes DEF DeepFacts!HeadInv
  <2>4. SettledInv'
    BY <1>1, <1>3, <2>3, SameSettled
  <2> QED
    BY <2>1, <2>2, <2>3, <2>4 DEF DeepFacts!BlocksOf, BlocksOf, DeepFacts!ChainMoves, DeepFacts!viewVars
<1> QED
  BY <1>2, <1>3

LEMMA PollSettles ==
    ASSUME Full!HeadTypeOK, SettledInv, Full!PollLatestBlock \/ Light!PollHeadNumber, UNCHANGED configVars
    PROVE  /\ Full!HeadTypeOK' /\ SettledInv'
           /\ UNCHANGED <<head, reorgs, nodeFilter, filterQueue, settled>>
           /\ Light!PollHeadNumber => UNCHANGED canonicalChain
<1>1. /\ UNCHANGED <<head, reorgs, nodeFilter, filterQueue, settled>>
      /\ highestBlock' \in {highestBlock, Number(head)} /\ currentChainHead' \in {currentChainHead, Number(head)}
      /\ Light!PollHeadNumber => UNCHANGED canonicalChain
  BY DEF Full!PollLatestBlock, Full!nodeVars, Light!PollHeadNumber, Light!nodeVars
<1>2. Full!HeadTypeOK'
  <2>1. CASE Full!PollLatestBlock
    <3>1. FullFacts!HeadTypeOK'
      BY <2>1, InstanceAssumptions, SameTypes, SamePoll, FullFacts!PollHeadType
    <3> QED
      BY <3>1, SameTypes
  <2>2. CASE Light!PollHeadNumber
    <3>1. LightFacts!HeadTypeOK'
      BY <2>2, InstanceAssumptions, SameTypes, SamePoll, LightFacts!PollHeadType
    <3> QED
      BY <3>1, SameTypes
  <2> QED
    BY <2>1, <2>2
<1>3. ReorgDepth' = ReorgDepth
  BY DEF ReorgDepth, DeepReorgs, configVars
<1>4. SettledInv'
  BY <1>1, <1>3 DEF SettledInv
<1> QED
  BY <1>1, <1>2, <1>4

-----------------------------------------------------------------------------
(* The invariant. *)

(* seedMonitoredHead *)
LEMMA SeededChain ==
    ASSUME NEW h \in Block, NEW W \in Nat \ {0}, NEW s \in BlocksOf(Path(h)),
           NEW front, front = (IF Number(h) + 1 - W < 0 THEN 0 ELSE Number(h) + 1 - W),
           front - 1 <= Number(s)
    PROVE  LET c == SubSeq(Path(h), front + 1, Number(h) + 1)
           IN  /\ Run(c) /\ c # <<>> /\ Number(c[1]) - 1 <= Number(s) /\ BlocksOf(c) \subseteq BlocksOf(Path(h))
               /\ front <= Number(s) => c[1] \in BlocksOf(Path(s))
<1> DEFINE p == Path(h)
           n == Number(h) + 1
           c == SubSeq(p, front + 1, n)
<1>1. /\ Number(h) \in Nat /\ n = Number(h) + 1 /\ n \in Nat
      /\ front \in Nat /\ front <= Number(h) /\ s \in Block /\ Number(s) \in Nat
  <2>1. Number(h) \in Nat /\ s \in Block
    BY PathOfBlock
  <2>2. Number(s) \in Nat
    BY <2>1, PathOfBlock
  <2> QED
    BY <2>1, <2>2
<1>2. Run(p) /\ Len(p) = n /\ \A i \in 1..n : p[i] \in Block /\ Number(p[i]) = i - 1
  BY PathOfBlock, PathIsRun
<1> HIDE DEF n
<1>3. front + 1 \in 1..(Len(p) + 1) /\ n \in ((front + 1) - 1)..Len(p)
  BY <1>1, <1>2
<1>4. /\ Run(c) /\ Len(c) = n - (front + 1) + 1 /\ BlocksOf(c) \subseteq BlocksOf(p)
      /\ \A i \in 1..(n - (front + 1) + 1) : c[i] = p[(front + 1) + i - 1]
  <2> DEFINE m == front + 1
  <2>1. m \in 1..(Len(p) + 1) /\ n \in (m - 1)..Len(p)
    BY <1>3
  <2> HIDE DEF m, p
  <2>2. /\ Run(SubSeq(p, m, n)) /\ Len(SubSeq(p, m, n)) = n - m + 1
        /\ BlocksOf(SubSeq(p, m, n)) \subseteq BlocksOf(p)
        /\ \A i \in 1..(n - m + 1) : SubSeq(p, m, n)[i] = p[m + i - 1]
    BY <1>2, <2>1, SegmentOfRun
  <2> QED
    BY <2>2 DEF m
<1> HIDE DEF c
<1>5. Len(c) >= 1 /\ c[1] = p[front + 1] /\ Number(c[1]) = front
  <2>1. 1 \in 1..(n - (front + 1) + 1) /\ (front + 1) + 1 - 1 = front + 1 /\ front + 1 \in 1..n
        /\ front + 1 - 1 = front
    BY <1>1
  <2> QED
    BY <1>1, <1>2, <1>4, <2>1
<1>6. c # <<>>
  <2>1. Len(c) # 0
    BY <1>1, <1>5
  <2> QED
    BY <2>1, EmptySeq
<1>7. c[1] \in BlocksOf(p)
  BY <1>4, <1>6, FirstAndLast
<1>8. ASSUME front <= Number(s) PROVE c[1] \in BlocksOf(Path(s))
  BY <1>5, <1>7, <1>8, LowerOnPath
<1> QED
  BY <1>4, <1>5, <1>6, <1>8 DEF c, n

LEMMA ListenerInitially == CacheInit => ListenerInv
<1> SUFFICES ASSUME CacheInit PROVE ListenerInv
  OBVIOUS
<1>1. /\ Full!HeadTypeOK /\ SettledInv /\ mode \in {"full", "light"}
      /\ receiptCache \in {"off", "blockReceipts", "txReceipts"} /\ (mode = "light" => receiptCache = "off")
      /\ cached = NoBlock /\ fetches = <<>> /\ callbacks = <<>>
      /\ toFetch = IF receiptCache = "off" THEN <<>> ELSE canonicalChain
  BY HeadInitially DEF CacheInit
<1>2. CacheTypeOK
  <2>1. canonicalChain \in Seq(Block)
    BY <1>1 DEF Full!HeadTypeOK
  <2>2. <<>> \in Seq(Block) /\ Len(<<>>) = 0 /\ <<>> \in Seq([block : Block, current : BOOLEAN])
        /\ <<>> \in Seq([receipt : BlockOrNil, current : BOOLEAN])
    BY EmptySeq
  <2>3. 0 <= MaxAsyncBlockFetchConcurrency
    BY CacheAssumption
  <2> QED
    BY <1>1, <2>1, <2>2, <2>3 DEF CacheTypeOK, BlockOrNil
<1>3. SettingsInv
  BY <1>1 DEF SettingsInv
<1>4. ChainInv
  <2> SUFFICES ASSUME mode = "full"
               PROVE  /\ Run(canonicalChain) /\ canonicalChain # <<>>
                      /\ Number(canonicalChain[1]) - 1 <= Number(settled)
                      /\ receiptCache # "off" => canonicalChain[1] \in BlocksOf(Path(settled))
    BY DEF ChainInv
  <2> DEFINE W == MonitoredHeadLength
             front == IF Number(head) + 1 - W < 0 THEN 0 ELSE Number(head) + 1 - W
  <2>1. /\ head \in Block /\ settled \in Block /\ Number(head) \in Nat /\ Number(settled) \in Nat
        /\ settled \in BlocksOf(Path(head)) /\ Number(head) - ReorgDepth <= Number(settled)
        /\ ReorgDepth \in Nat /\ ReorgDepth <= W /\ (receiptCache # "off" => ReorgDepth < W) /\ W \in Nat /\ W > 0
    BY <1>1, <1>2, ListenerTypes DEF SettledInv
  <2>2. canonicalChain = SubSeq(Path(head), front + 1, Number(head) + 1)
    <3>1. CASE Full!HeadInit
      BY <3>1 DEF Full!HeadInit, Full!LightMode, Full!NotBelowZero
    <3>2. CASE Deep!HeadInit
      BY <3>2 DEF Deep!HeadInit, Deep!LightMode, Deep!NotBelowZero
    <3> QED
      BY <3>1, <3>2 DEF CacheInit
  <2>3. front - 1 <= Number(settled) /\ (receiptCache # "off" => front <= Number(settled))
    BY <2>1
  <2>4. W \in Nat \ {0} /\ front = IF Number(head) + 1 - W < 0 THEN 0 ELSE Number(head) + 1 - W
    BY <2>1
  <2> HIDE DEF front, W
  <2> DEFINE c == SubSeq(Path(head), front + 1, Number(head) + 1)
  <2>5. /\ Run(c) /\ c # <<>> /\ Number(c[1]) - 1 <= Number(settled)
        /\ front <= Number(settled) => c[1] \in BlocksOf(Path(settled))
    BY <2>1, <2>3, <2>4, SeededChain
  <2> HIDE DEF c
  <2>6. canonicalChain = c
    BY <2>2 DEF c
  <2> QED
    BY <2>3, <2>5, <2>6
<1>5. CacheInv
  <2> SUFFICES ASSUME receiptCache = "blockReceipts" PROVE Pending \cup {cached} \subseteq BlocksOf(canonicalChain) \cup {NoBlock}
    BY DEF CacheInv
  <2>1. DOMAIN <<>> = {}
    BY EmptyRun, EmptySeq, LenProperties
  <2> QED
    BY <1>1, <2>1 DEF Pending
<1> QED
  BY <1>1, <1>2, <1>3, <1>4, <1>5 DEF ListenerInv

LEMMA Initially == Init => ReconcilerInv
<1> SUFFICES ASSUME Init PROVE ReconcilerInv
  OBVIOUS
<1>1. ListenerInv
  BY ListenerInitially DEF Init
<1>2. /\ pc = "idle" /\ held = <<>> /\ existing = <<>> /\ target = 0
      /\ receipt = NoBlock /\ expected = NoBlock /\ answeredAt = NoBlock
      /\ earlyList = <<>> /\ lateList = <<>> /\ newFork = FALSE /\ rebuilt = FALSE
      /\ outcome = "none" /\ confirmations = <<>> /\ steppedBack = FALSE
      /\ cached = NoBlock /\ callbacks = <<>>
  BY DEF Init, CacheInit
<1>3. <<>> \in Seq(Block) /\ Run(<<>>) /\ BlocksOf(<<>>) = {} /\ Linked(<<>>) /\ DOMAIN <<>> = {}
  BY EmptyRun, EmptySeq, LenProperties DEF Run
<1>4. CallInv
  <2>1. CallTypeOK
    BY <1>2, <1>3 DEF CallTypeOK, BlockOrNil
  <2>2. ListInv /\ HandedBackInv
    BY <1>2, <1>3 DEF ListInv, HandedBackInv
  <2>3. ConfirmationsAreLinked /\ ReplacedBlocksAreReported /\ PanicsOnlyAfterStepBack
    BY <1>2, <1>3 DEF ConfirmationsAreLinked, ReplacedBlocksAreReported, PanicsOnlyAfterStepBack
  <2> QED
    BY <2>1, <2>2, <2>3 DEF CallInv
<1>5. StepBackInv /\ LightInv
  BY <1>2 DEF StepBackInv, LightInv, AnswerInv, LightAnswersAreFinal
<1>6. SeenInv
  <2>1. Remembered \subseteq BlocksOf(canonicalChain) \cup {NoBlock}
    BY <1>2, <1>3 DEF Remembered
  <2>2. CASE mode = "full"
    <3>1. BlocksOf(canonicalChain) \subseteq BlocksOf(Path(head))
      <4>1. /\ head \in Block /\ Number(head) \in Nat /\ MonitoredHeadLength \in Nat \ {0}
            /\ CacheTypeOK
        BY <1>1, ListenerTypes DEF ListenerInv
      <4> DEFINE front == IF Number(head) + 1 - MonitoredHeadLength < 0 THEN 0 ELSE Number(head) + 1 - MonitoredHeadLength
      <4>2. canonicalChain = SubSeq(Path(head), front + 1, Number(head) + 1)
        <5>1. CASE Full!HeadInit
          BY <5>1 DEF Full!HeadInit, Full!LightMode, Full!NotBelowZero
        <5>2. CASE Deep!HeadInit
          BY <5>2 DEF Deep!HeadInit, Deep!LightMode, Deep!NotBelowZero
        <5> QED
          BY <2>2, <5>1, <5>2 DEF Init, CacheInit
      <4>3. head \in BlocksOf(Path(head))
        BY <4>1, PathOfBlock
      <4>4. front - 1 <= Number(head)
            /\ front = IF Number(head) + 1 - MonitoredHeadLength < 0 THEN 0 ELSE Number(head) + 1 - MonitoredHeadLength
        BY <4>1
      <4> HIDE DEF front
      <4> QED
        BY <4>1, <4>2, <4>3, <4>4, SeededChain
    <3> QED
      BY <1>1, <2>1, <3>1, SeenOnHead DEF SeenInv, ListenerInv
  <2>3. CASE mode = "light"
    <3>1. canonicalChain = <<>>
      BY <2>3 DEF Init, CacheInit, Light!HeadInit, Light!LightMode
    <3> QED
      BY <1>3, <2>1, <3>1 DEF SeenInv
  <2> QED
    BY <1>1, <2>2, <2>3, ListenerTypes DEF ListenerInv
<1> QED
  BY <1>1, <1>4, <1>5, <1>6 DEF ReconcilerInv

(* Every step. *)
LEMMA StepSafety == ReconcilerInv /\ [Next]_vars => ReconcilerInv'
<1> SUFFICES ASSUME ReconcilerInv, [Next]_vars PROVE ReconcilerInv'
  OBVIOUS
<1>1. /\ ListenerInv /\ SeenInv /\ CallInv /\ StepBackInv /\ LightInv /\ CallTypeOK /\ SettledInv
      /\ Full!HeadTypeOK
  BY DEF ReconcilerInv, CallInv, ListenerInv, CacheTypeOK
<1>2. CASE CallReconcile \/ CallTransactionReceipt \/ CallStep
  BY <1>2, CallStepSafety
<1>3. CASE pc # "returned" /\ ChainStep
  <2>1. ChainMoves /\ UNCHANGED configVars
    BY <1>3 DEF ChainStep
  <2> QED
    BY <1>1, <1>3, <2>1, ChainMovesSettles, ChainStepSafety
<1>4. CASE PollStep
  <2>1. UNCHANGED callVars /\ UNCHANGED configVars /\ (Full!PollLatestBlock \/ Light!PollHeadNumber)
    BY <1>4 DEF PollStep, PollLatestBlock, PollHeadNumber
  <2>2. Full!HeadTypeOK' /\ SettledInv' /\ UNCHANGED <<head, reorgs, nodeFilter, filterQueue, settled>>
    BY <1>1, <2>1, PollSettles
  <2>3. ListenerInv' /\ SeenInv'
    <3>1. CASE PollLatestBlock
      BY <1>1, <2>1, <2>2, <3>1, FullPollSafety
    <3>2. CASE PollHeadNumber
      BY <1>1, <2>1, <2>2, <3>2, LightPollSafety
    <3> QED
      BY <1>4, <3>1, <3>2 DEF PollStep
  <2>4. highestBlock' \in {highestBlock, Number(head)} /\ currentChainHead' \in {currentChainHead, Number(head)}
    BY <2>1 DEF Full!PollLatestBlock, Full!nodeVars, Light!PollHeadNumber, Light!nodeVars
  <2>5. UNCHANGED <<mode, head, settled>>
    BY <2>1, <2>2 DEF configVars
  <2>6. CallInv' /\ StepBackInv' /\ LightInv'
    BY <1>1, <2>1, <2>4, <2>5, CallUnchanged
  <2> QED
    BY <2>3, <2>6 DEF ReconcilerInv
<1>5. CASE CacheStep
  <2>1. ListenerInv' /\ SeenInv' /\ UNCHANGED <<chainVars, configVars, callVars>>
    BY <1>1, <1>5, CacheStepSafety
  <2>2. UNCHANGED <<mode, head, settled, highestBlock, currentChainHead>> /\ UNCHANGED callVars
    BY <2>1 DEF chainVars, configVars
  <2>3. CallInv' /\ StepBackInv' /\ LightInv'
    BY <1>1, <2>2, CallUnchanged
  <2> QED
    BY <2>1, <2>3 DEF ReconcilerInv
<1>6. CASE UNCHANGED vars
  <2>1. UNCHANGED <<chainVars, configVars, cacheVars>> /\ UNCHANGED callVars
    BY <1>6 DEF vars
  <2>2. UNCHANGED <<mode, head, settled, highestBlock, currentChainHead>>
    BY <2>1 DEF chainVars, configVars
  <2>3. CallInv' /\ StepBackInv' /\ LightInv'
    BY <1>1, <2>1, <2>2, CallUnchanged
  <2>4. Remembered' \ {NoBlock} \subseteq Remembered \cup BlocksOf(Path(head))
    <3>1. UNCHANGED <<canonicalChain, callbacks, cached, held, existing, confirmations, earlyList, lateList, receipt>>
      BY <2>1 DEF chainVars, cacheVars, callVars, inputVars, listVars, answerVars
    <3> QED
      BY <3>1 DEF Remembered
  <2> QED
    BY <2>1, <2>3, <2>4, CallStepFrame
<1> QED
  BY <1>2, <1>3, <1>4, <1>5, <1>6 DEF Next, Elsewhere

(* What the listener, the receipt cache and a call hold is consistent, whatever the node does to *)
(* its chain between the steps of the call.                                                      *)
THEOREM ReconcilerInvariant == Spec => []ReconcilerInv
<1>1. Init => ReconcilerInv
  BY Initially
<1>2. ReconcilerInv /\ [Next]_vars => ReconcilerInv'
  BY StepSafety
<1> QED
  BY <1>1, <1>2, PTL DEF Spec

-----------------------------------------------------------------------------
(* The properties. *)

(* Type correctness: in particular no more fetches are in flight than the throttle has slots     *)
(* (block_receipt_fetcher.go).                                                                   *)
THEOREM ReconcilerTypes == Spec => []TypeOK
<1>1. ReconcilerInv => TypeOK
  BY DEF ReconcilerInv, ListenerInv, CallInv, CallTypeOK, TypeOK
<1> QED
  BY <1>1, ReconcilerInvariant, PTL

LEMMA CacheIsCanonical == ReconcilerInv => CachedReceiptIsCanonical
<1> SUFFICES ASSUME ReconcilerInv, receiptCache = "blockReceipts", NEW b \in BlocksOf(canonicalChain),
                    cached # NoBlock, Number(b) = Number(cached)
             PROVE  b = cached
  BY DEF CachedReceiptIsCanonical
<1>1. ListenerInv /\ ChainInv /\ CacheInv /\ mode = "full"
  BY ListenerTypes DEF ReconcilerInv, ListenerInv, SettingsInv
<1>2. Run(canonicalChain) /\ canonicalChain # <<>>
  BY <1>1 DEF ChainInv
<1>3. cached \in BlocksOf(canonicalChain) \/ Number(cached) < Number(canonicalChain[1])
  BY <1>1 DEF CacheInv
<1>4. Number(b) >= Number(canonicalChain[1]) /\ Number(b) \in Nat /\ Number(canonicalChain[1]) \in Nat
  <2>1. /\ BlocksOf(canonicalChain) = {canonicalChain[i] : i \in 1..Len(canonicalChain)}
        /\ Len(canonicalChain) \in Nat /\ Number(canonicalChain[1]) \in Nat
        /\ \A i \in 1..Len(canonicalChain) : Number(canonicalChain[i]) = Number(canonicalChain[1]) + i - 1
    BY <1>2, RunProperties, FirstAndLast
  <2>2. PICK i \in 1..Len(canonicalChain) : b = canonicalChain[i]
    BY <2>1
  <2>3. Number(b) = Number(canonicalChain[1]) + i - 1
    BY <2>1, <2>2
  <2> QED
    BY <2>1, <2>3
<1> QED
  BY <1>2, <1>3, <1>4, OnePerNumber

(* With eth_getBlockReceipts the receipt cache never holds a receipt of a block the in-memory    *)
(* chain has replaced: the purge and the generations of block_receipt_fetcher.go keep it so for  *)
(* every order of requests, answers, callbacks and re-orgs.                                      *)
THEOREM CachedReceiptsAreCanonical == Spec => []CachedReceiptIsCanonical
  BY CacheIsCanonical, ReconcilerInvariant, PTL

(* The confirmations a call returns are one run of blocks of a single fork, and a confirmed list *)
(* is as long as the caller asked for (toSingleLinkedList, confirmation_reconciler.go).          *)
THEOREM AnswersAreLinked == Spec => []ConfirmationsAreLinked
<1>1. ReconcilerInv => ConfirmationsAreLinked
  BY DEF ReconcilerInv, CallInv
<1> QED
  BY <1>1, ReconcilerInvariant, PTL

LEMMA FinalFirstBlock == ReconcilerInv => ConfirmedIsFinal
<1> SUFFICES ASSUME ReconcilerInv, outcome = "confirmed", confirmations # <<>>, target >= ReorgDepth
             PROVE  confirmations[1] \in BlocksOf(Path(settled))
  BY DEF ConfirmedIsFinal
<1>1. /\ Run(confirmations) /\ BlocksOf(confirmations) \subseteq Remembered /\ target \in Nat
      /\ CacheTypeOK /\ SeenInv /\ ConfirmationsAreLinked
  BY CallFacts DEF ReconcilerInv, CallInv
<1>2. Len(confirmations) > target /\ ReorgDepth \in Nat
  BY <1>1, ListenerTypes DEF ConfirmationsAreLinked
<1> DEFINE n == Len(confirmations)
           first == confirmations[1]
           top == Last(confirmations)
<1>3. /\ n \in Nat /\ n >= 1 /\ first \in Block /\ Number(first) \in Nat /\ top = confirmations[n]
      /\ Number(top) = Number(first) + n - 1 /\ top \in Block /\ Number(top) \in Nat
      /\ confirmations[n] \in BlocksOf(confirmations)
  <2>1. Len(confirmations) \in 1..Len(confirmations)
    BY <1>1, FirstAndLast
  <2> QED
    BY <1>1, <2>1, FirstAndLast
<1>4. first \in BlocksOf(Path(top))
  <2>1. n \in 1..Len(confirmations) /\ 1 \in 1..n
    BY <1>3
  <2> QED
    BY <1>1, <1>3, <2>1, RunOnPath
<1>5. n > target
  BY <1>2
<1>6. Seen(top)
  BY <1>1, <1>3, BlockTreeAssumption DEF SeenInv
<1> HIDE DEF n, first, top
<1>7. Number(first) + ReorgDepth <= Number(top)
  BY <1>1, <1>2, <1>3, <1>5
<1>8. first \in BlocksOf(Path(settled))
  BY <1>4, <1>6, <1>7 DEF Seen
<1> QED
  BY <1>8 DEF first

(* A list confirmed by at least as many blocks as a re-org is deep starts at a block that is     *)
(* never replaced, wherever its blocks came from (confirmation_reconciler.go).                   *)
THEOREM ConfirmedBlocksAreFinal == Spec => []ConfirmedIsFinal
  BY FinalFirstBlock, ReconcilerInvariant, PTL

(* A caller whose confirmations were replaced is told so: by NewFork, or by Rebuilt (newSplice,  *)
(* createPreSpliceEarlyList).                                                                    *)
THEOREM ReplacementsAreReported == Spec => []ReplacedBlocksAreReported
<1>1. ReconcilerInv => ReplacedBlocksAreReported
  BY DEF ReconcilerInv, CallInv
<1> QED
  BY <1>1, ReconcilerInvariant, PTL

(* fillOneGap finds no block only after the node's chain became shorter during the call          *)
(* (confirmation_reconciler.go:249).                                                             *)
THEOREM PanicsNeedAStepBack == Spec => []PanicsOnlyAfterStepBack
<1>1. ReconcilerInv => PanicsOnlyAfterStepBack
  BY DEF ReconcilerInv, CallInv
<1> QED
  BY <1>1, ReconcilerInvariant, PTL

(* Light mode: the answers of a node that may be behind are final where the code says they are,  *)
(* provided that two gaps cover the depth of a re-org and the blocks the chain may gain while    *)
(* the answer is on its way (receiptDefinitive, get_receipt.go).                                 *)
THEOREM LightModeAnswersAreFinal == TwoGapsSuffice /\ Spec => []LightAnswersAreFinal
<1>1. TwoGapsSuffice /\ ReconcilerInv => LightAnswersAreFinal
  BY DEF ReconcilerInv, LightInv
<1> SUFFICES ASSUME TwoGapsSuffice PROVE Spec => []LightAnswersAreFinal
  OBVIOUS
<1> QED
  BY <1>1, ReconcilerInvariant, PTL
=============================================================================
