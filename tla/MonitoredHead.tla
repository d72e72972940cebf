---------------------------- MODULE MonitoredHead ----------------------------
(***************************************************************************)
(* The block listener as the event streams see it: the highest block       *)
(* (GetHighestBlock) and, in full chain tracking mode, the in-memory       *)
(* canonical chain (SnapshotMonitoredHeadChain).                           *)
(*                                                                         *)
(* One poll of the listener is one step here.  reconcileCanonicalChain     *)
(* holds canonicalChainLock from end to end, so a reader never sees a      *)
(* rebuild half done; a node that changes during a poll is the subject of  *)
(* CanonicalChain, which shows the chain is repaired by later polls.       *)
(***************************************************************************)
EXTENDS EVMNode

CONSTANTS
    ChainTrackingMode,      \* "full" or "light"
    CheckpointBlockGap,     \* events.checkpointBlockGap, also the MonitoredHeadLength
    MaxReorgDepth,          \* environment: how many blocks at the head a re-org may replace
    NodesBehind             \* environment: requests may reach a node behind the others

ASSUME HeadAssumption ==
    /\ ChainTrackingMode \in {"full", "light"}
    /\ CheckpointBlockGap \in Nat \ {0}
    /\ MaxReorgDepth \in 0..CheckpointBlockGap  \* "below which re-orgs are not expected"
    /\ NodesBehind \in BOOLEAN

LightMode == ChainTrackingMode = "light"

VARIABLES
    settled,            \* the newest block no re-org replaces any more
    highestBlock,
    currentChainHead,   \* light mode
    canonicalChain      \* full mode: the blocks of the list, front to back

viewVars == <<highestBlock, currentChainHead, canonicalChain>>
headVars == <<nodeVars, settled, viewVars>>

NotBelowZero(n) == IF n < 0 THEN 0 ELSE n

(* establishBlockHeightWithRetry, and seedMonitoredHead when it finds every block *)
HeadInit ==
    /\ NodeInit
    /\ settled = BlockAt(head, NotBelowZero(Number(head) - MaxReorgDepth))
    /\ highestBlock = Number(head)
    /\ currentChainHead = 0
    /\ canonicalChain =
        IF LightMode THEN <<>>
        ELSE SubSeq(Path(head), NotBelowZero(Number(head) + 1 - CheckpointBlockGap) + 1, Number(head) + 1)

(* A block is mined or the chain replaced, at most MaxReorgDepth blocks deep. *)
ChainMoves ==
    /\ Extend \/ (Reorg /\ (NodesBehind \/ Number(head') >= Number(head)))
    /\ settled \in BlocksOf(Path(head'))
    /\ LET newest == BlockAt(head', NotBelowZero(Number(head') - MaxReorgDepth))
       IN  settled' = IF Number(newest) > Number(settled) THEN newest ELSE settled
    /\ UNCHANGED viewVars

-----------------------------------------------------------------------------
(* Full mode: latestBlockPoller.poll, start to end on a node that does not change meanwhile. *)

(* handleNewBlock trims the front of the list. *)
TrimFront(chain) ==
    IF Len(chain) > CheckpointBlockGap
    THEN SubSeq(chain, Len(chain) - CheckpointBlockGap + 1, Len(chain)) ELSE chain

(* How many blocks of the list have a lower number than bi *)
Below(bi) == Cardinality({i \in DOMAIN canonicalChain : Number(canonicalChain[i]) < Number(bi)})

(* How many blocks of the list trimToLastValidBlock keeps, verifying them from the end *)
ValidOn(h) == Cardinality({i \in DOMAIN canonicalChain : canonicalChain[i] \in BlocksOf(Path(h))})

(* rebuildCanonicalChain: the list is continued from its last valid block, or from where it began. *)
Rebuilt(h) ==
    LET from == Number(canonicalChain[1]) + ValidOn(h)
    IN  SubSeq(canonicalChain, 1, ValidOn(h)) \o SubSeq(Path(h), from + 1, Number(h) + 1)

(* reconcileCanonicalChain *)
Reconciled(bi) ==
    CASE bi \in BlocksOf(canonicalChain) -> canonicalChain
      [] bi \notin BlocksOf(canonicalChain) /\ Below(bi) = 0 -> <<bi>>
      [] bi \notin BlocksOf(canonicalChain) /\ Below(bi) > 0 ->
            IF IsParentOf(canonicalChain[Below(bi)], bi)
            THEN TrimFront(Append(SubSeq(canonicalChain, 1, Below(bi)), bi))
            ELSE Rebuilt(bi)

PollLatestBlock ==
    /\ ~LightMode
    /\ canonicalChain' = Reconciled(head)
    /\ highestBlock' = IF Number(head) > highestBlock THEN Number(head) ELSE highestBlock
    /\ UNCHANGED <<nodeVars, settled, currentChainHead>>

-----------------------------------------------------------------------------
(* Light mode: headNumberPoller.poll. *)

(* acceptHeadBlockNumber ignores a reading below the head, unless it is so far below that the  *)
(* chain must have been reset.                                                                *)
AcceptsHead(n) == n > currentChainHead \/ currentChainHead - n > CheckpointBlockGap

PollHeadNumber ==
    /\ LightMode
    /\ AcceptsHead(Number(head))
    /\ currentChainHead' = Number(head)
    /\ highestBlock' = Number(head)
    /\ UNCHANGED <<nodeVars, settled, canonicalChain>>

PollHead == PollLatestBlock \/ PollHeadNumber

HeadTypeOK ==
    /\ NodeTypeOK
    /\ settled \in Block
    /\ highestBlock \in Nat
    /\ currentChainHead \in Nat
    /\ canonicalChain \in Seq(Block)
=============================================================================
