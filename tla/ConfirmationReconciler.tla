----------------------- MODULE ConfirmationReconciler -----------------------
(***************************************************************************)
(* Confirming a transaction: ReconcileConfirmationsForTransaction          *)
(* (confirmation_reconciler.go, blocklistener_blockquery.go) and, in light *)
(* mode, the receipt a caller asks for to decide whether a transaction it  *)
(* saw was dropped (TransactionReceipt, get_receipt.go).                   *)
(*                                                                         *)
(* One call at a time runs next to the polls, the receipt cache and a node *)
(* that moves: every JSON/RPC query and every use of the in-memory chain   *)
(* is a step.  The blocks a caller hands back are those of an earlier      *)
(* answer, or those with one missing.                                      *)
(***************************************************************************)
EXTENDS ReceiptCache

CONSTANTS
    Targets,        \* the targetConfirmationCounts asked for
    HandBackWith,   \* bound: the receipt cache settings with which earlier confirmations are handed back
    MaxAdvance      \* environment: blocks the chain grows while an answer is on its way

ASSUME ReconcilerAssumption ==
    /\ Targets \subseteq Nat
    /\ HandBackWith \subseteq {"off", "blockReceipts", "txReceipts"}
    /\ MaxAdvance \in Nat

VARIABLES
    pc,             \* what the call does next
    held,           \* the confirmations the caller holds: those of its last answer
    existing,       \* existingConfirmations
    target,         \* targetConfirmationCount
    receipt,        \* the block the receipt names
    earlyList, lateList,
    newFork, rebuilt,
    outcome,        \* what the call returned
    confirmations,  \* the confirmations it returned
    expected,       \* TransactionReceipt: the block the caller saw the transaction in
    answeredAt,     \* history: settled, when a light mode node answered the receipt
    steppedBack     \* history: the node's chain became shorter while the lists were built

listVars  == <<earlyList, lateList, newFork, rebuilt>>
inputVars == <<existing, target, expected>>
answerVars == <<outcome, confirmations>>
callVars  == <<pc, held, inputVars, receipt, listVars, answerVars, answeredAt, steppedBack>>
vars == <<chainVars, configVars, cacheVars, callVars>>

Init ==
    /\ CacheInit
    /\ pc = "idle"
    /\ held = <<>> /\ existing = <<>> /\ target = 0
    /\ receipt = NoBlock /\ expected = NoBlock /\ answeredAt = NoBlock
    /\ earlyList = <<>> /\ lateList = <<>> /\ newFork = FALSE /\ rebuilt = FALSE
    /\ outcome = "none" /\ confirmations = <<>>
    /\ steppedBack = FALSE

(* What the node has at a number *)
GetBlockInfoByNumber(n) == BlockAt(head, n)

(* The call returns: with an error, or with the confirmations. *)
Returns(what, list) ==
    /\ pc' = "returned"
    /\ outcome' = what
    /\ confirmations' = list
    /\ earlyList' = <<>> /\ lateList' = <<>>

-----------------------------------------------------------------------------
(* The calls. *)

(* Those an earlier call returned, whole or with one missing. *)
HandedBack == {<<>>, held} \cup {RemoveAt(held, i) : i \in DOMAIN held}

CallReconcile ==
    /\ pc = "idle"
    /\ existing' \in HandedBack
    /\ target' \in Targets
    /\ pc' = "receipt"
    /\ UNCHANGED <<chainVars, configVars, cacheVars, held, receipt, listVars, answerVars,
                   expected, answeredAt, steppedBack>>

CallTransactionReceipt ==
    /\ pc = "idle" /\ mode = "light"
    /\ expected' \in TxBlocks
    /\ pc' = "ask"
    /\ UNCHANGED <<chainVars, configVars, cacheVars, held, existing, target, receipt, listVars, answerVars,
                   answeredAt, steppedBack>>

(* The caller keeps the confirmations for its next call. *)
Return ==
    /\ pc = "returned"
    /\ pc' = "idle"
    /\ held' = IF confirmations # <<>> /\ receiptCache \in HandBackWith THEN confirmations ELSE held
    /\ existing' = <<>> /\ target' = 0 /\ receipt' = NoBlock /\ expected' = NoBlock /\ answeredAt' = NoBlock
    /\ newFork' = FALSE /\ rebuilt' = FALSE /\ outcome' = "none" /\ confirmations' = <<>>
    /\ steppedBack' = FALSE
    /\ UNCHANGED <<chainVars, configVars, cacheVars, earlyList, lateList>>

(* An RPC of the call fails. *)
CallFails ==
    /\ pc \in {"receipt", "ask", "block", "target", "fill"}
    /\ Returns("error", <<>>)
    /\ UNCHANGED <<chainVars, configVars, cacheVars, held, inputVars, receipt, newFork, rebuilt,
                   answeredAt, steppedBack>>

-----------------------------------------------------------------------------
(* The receipt. *)

(* GetTransactionReceipt: from the cache, or the node *)
CurrentReceipt == IF cached # NoBlock THEN cached ELSE ReceiptOn(head)

(* No receipt, in one of the tracking modes; without a target the receipt is enough. *)
GetTransactionReceipt ==
    /\ pc = "receipt"
    /\ receipt' = CurrentReceipt
    /\ answeredAt' = IF mode = "light" THEN settled ELSE NoBlock
    /\ IF receipt' = NoBlock
       THEN Returns(IF target > 0 /\ mode = "full" THEN "error" ELSE "unconfirmed", <<>>)
       ELSE IF target = 0 THEN Returns("confirmed", <<>>)
       ELSE /\ pc' = IF mode = "full" THEN "block" ELSE "compare"
            /\ UNCHANGED <<answerVars, earlyList, lateList>>
    /\ UNCHANGED <<chainVars, configVars, cacheVars, held, inputVars, newFork, rebuilt, steppedBack>>

(* Light mode: the number of the head is all there is to compare with. *)
CompareWithHead ==
    /\ pc = "compare"
    /\ CASE currentChainHead < Number(receipt) -> Returns("error", <<>>)
         [] currentChainHead \in Number(receipt)..(Number(receipt) + target - 1) -> Returns("unconfirmed", <<>>)
         [] currentChainHead >= Number(receipt) + target -> Returns("confirmed", <<>>)
    /\ UNCHANGED <<chainVars, configVars, cacheVars, held, inputVars, receipt, newFork, rebuilt,
                   answeredAt, steppedBack>>

(* Mutant: one gap behind the head is trusted. *)
DefinitiveAtOneGap(block) == highestBlock >= Number(block) + CheckpointBlockGap

(* receiptDefinitive *)
Definitive(block) == highestBlock >= Number(block) + 2 * CheckpointBlockGap

(* TransactionReceipt: the node answers. *)
AskReceipt ==
    /\ pc = "ask"
    /\ receipt' = ReceiptOn(head)
    /\ answeredAt' = IF mode = "light" THEN settled ELSE NoBlock
    /\ IF receipt' = expected
       THEN Returns("receipt", <<>>)
       ELSE pc' = "judge" /\ UNCHANGED <<answerVars, earlyList, lateList>>
    /\ UNCHANGED <<chainVars, configVars, cacheVars, held, inputVars, newFork, rebuilt, steppedBack>>

(* TransactionReceipt: an answer that disagrees is held back until it is definitive. *)
JudgeReceipt ==
    /\ pc = "judge"
    /\ Returns(IF Definitive(expected) THEN "dropped" ELSE "nodeBehind", <<>>)
    /\ UNCHANGED <<chainVars, configVars, cacheVars, held, inputVars, receipt, newFork, rebuilt,
                   answeredAt, steppedBack>>

-----------------------------------------------------------------------------
(* Full mode: the early list. *)

(* The blocks handed back that still follow the transaction's block *)
LinkedPrefix(list) ==
    LET broken == {i \in 2..Len(list) : ~IsParentOf(list[i - 1], list[i])}
    IN  IF broken = {} THEN list ELSE SubSeq(list, 1, Min(broken) - 1)

(* createPreSpliceEarlyList *)
EarlyList(txBlock) ==
    IF existing # <<>> /\ existing[1] = txBlock THEN LinkedPrefix(existing) ELSE <<txBlock>>

(* getReceiptAndBlock: the block cached under the receipt's number, which must be the receipt's, *)
(* or whatever the node has at that number now.                                                  *)
FetchTxBlock ==
    /\ pc = "block"
    /\ \E txBlock \in {receipt, GetBlockInfoByNumber(Number(receipt))} :
        IF txBlock = NoBlock
        THEN Returns("error", <<>>) /\ UNCHANGED <<newFork, rebuilt>>
        ELSE /\ earlyList' = EarlyList(txBlock)
             /\ newFork' = (existing # <<>> /\ existing[1] # txBlock)
             /\ rebuilt' = (existing # <<>> /\ existing[1] = txBlock /\ LinkedPrefix(existing) # existing)
             /\ pc' = IF Number(Last(earlyList')) >= Number(txBlock) + target THEN "met" ELSE "late"
             /\ UNCHANGED <<answerVars, lateList>>
    /\ UNCHANGED <<chainVars, configVars, cacheVars, held, inputVars, receipt, answeredAt, steppedBack>>

(* The first block of the in-memory chain above a number, or nil *)
FirstAbove(n) ==
    LET above == {i \in DOMAIN canonicalChain : Number(canonicalChain[i]) > n}
    IN  IF above = {} THEN NoBlock ELSE canonicalChain[Min(above)]

(* handleTargetCountMetWithEarlyList: under the read lock *)
TargetMetWithEarlyList ==
    /\ pc = "met" /\ Unlocked
    /\ LET next == FirstAbove(Number(Last(earlyList)))
       IN  IF next # NoBlock /\ IsParentOf(Last(earlyList), next)
           THEN /\ Returns("confirmed", SubSeq(earlyList, 1, target + 1))
                /\ newFork' = FALSE /\ rebuilt' = FALSE
           ELSE pc' = "late" /\ UNCHANGED <<answerVars, listVars>>
    /\ UNCHANGED <<chainVars, configVars, cacheVars, held, inputVars, receipt, answeredAt, steppedBack>>

-----------------------------------------------------------------------------
(* Full mode: the late list, and the splice. *)

(* Mutant: a difference in the overlap is not reported. *)
OverlapIgnored(early, late) == FALSE

(* newSplice: the early list has another block than the late list at some number. *)
OverlapDiffers(early, late) ==
    \E i \in DOMAIN early, j \in DOMAIN late : Number(early[i]) = Number(late[j]) /\ early[i] # late[j]

(* Mutant: the first late block only has to follow in number. *)
JoinsByNumber(early, late) == Number(Last(early)) + 1 = Number(late[1])

(* toSingleLinkedList *)
Joins(early, late) == IsParentOf(Last(early), late[1])

(* buildConfirmationList, between two queries: the lists are joined.  Or, when there is no gap *)
(* between them, the early list loses its last block, and the gap that makes is filled.        *)
Join(early, late, fork) ==
    IF Joins(early, late)
    THEN /\ Returns(IF Len(early \o late) > target THEN "confirmed" ELSE "unconfirmed", early \o late)
         /\ newFork' = fork
    ELSE LET kept == IF Number(Last(early)) + 1 < Number(late[1]) THEN early ELSE Front(early)
         IN  /\ newFork' = (fork \/ kept # early)
             /\ IF kept = <<>> THEN Returns("error", <<>>)
                ELSE pc' = "fill" /\ earlyList' = kept /\ lateList' = late /\ UNCHANGED answerVars

(* The blocks of a list that are numbered m to n: the list is in the order of the numbers. *)
Between(list, m, n) ==
    LET NumberedBelow(k) == Cardinality({i \in DOMAIN list : Number(list[i]) < k})
    IN  SubSeq(list, NumberedBelow(m) + 1, NumberedBelow(n + 1))

(* newSplice: the early list ends before the late list begins. *)
Splice(late) ==
    /\ Join(Between(earlyList, 0, Number(late[1]) - 1), late, newFork \/ OverlapDiffers(earlyList, late))
    /\ UNCHANGED rebuilt

(* buildConfirmationQueueUsingInMemoryPartialChain: under the read lock *)
BuildLateList ==
    /\ pc = "late" /\ Unlocked
    /\ LET txNumber == Number(earlyList[1])
           late == Between(canonicalChain, txNumber + 1, txNumber + target)
       IN  IF canonicalChain = <<>> \/ Number(Last(canonicalChain)) < txNumber
           THEN Returns("error", <<>>) /\ UNCHANGED <<newFork, rebuilt>>
           ELSE IF late # <<>> THEN Splice(late)
           ELSE pc' = "target" /\ UNCHANGED <<answerVars, listVars>>
    /\ UNCHANGED <<chainVars, configVars, cacheVars, held, inputVars, receipt, answeredAt, steppedBack>>

(* Mutant: newSplice is given a nil block. *)
SpliceOfNil == Returns("panicked", <<>>)

BlockNotAvailable == Returns("error", <<>>)

(* createLateList: the target block itself is asked for. *)
FetchTargetBlock ==
    /\ pc = "target"
    /\ LET block == GetBlockInfoByNumber(Number(earlyList[1]) + target)
       IN  IF block = NoBlock
           THEN BlockNotAvailable /\ UNCHANGED <<newFork, rebuilt>>
           ELSE Splice(<<block>>)
    /\ UNCHANGED <<chainVars, configVars, cacheVars, held, inputVars, receipt, answeredAt, steppedBack>>

(* Mutant: the block fetched is not compared with the one above it. *)
FillsUnchecked(block) == TRUE

Fills(block) == IsParentOf(block, lateList[1])

(* fillOneGap: from the late end *)
FillOneGap ==
    /\ pc = "fill"
    /\ LET block == GetBlockInfoByNumber(Number(lateList[1]) - 1)
       IN  CASE block = NoBlock -> Returns("panicked", <<>>) /\ UNCHANGED newFork
             [] block # NoBlock /\ ~Fills(block) -> Returns("error", <<>>) /\ UNCHANGED newFork
             [] block # NoBlock /\ Fills(block) -> Join(earlyList, <<block>> \o lateList, newFork)
    /\ UNCHANGED <<chainVars, configVars, cacheVars, held, inputVars, receipt, rebuilt, answeredAt, steppedBack>>

-----------------------------------------------------------------------------
(* The chain moves, at most MaxAdvance blocks while an answer of a light mode node is on its way. *)
ChainStep ==
    /\ ChainMoves
    /\ pc \in {"compare", "judge"} => Number(head') <= Number(answeredAt) + MaxReorgDepth + MaxAdvance
    /\ steppedBack' = (steppedBack \/ (pc \in {"late", "target", "fill"} /\ Number(head') < Number(head)))
    /\ UNCHANGED <<configVars, cacheVars, pc, held, inputVars, receipt, listVars, answerVars, answeredAt>>

PollStep == (PollLatestBlock \/ PollHeadNumber) /\ UNCHANGED callVars

CacheStep == (Fetcher \/ Evict) /\ UNCHANGED callVars

CallStep == GetTransactionReceipt \/ CompareWithHead \/ AskReceipt \/ JudgeReceipt \/ FetchTxBlock
                \/ TargetMetWithEarlyList \/ BuildLateList \/ FetchTargetBlock \/ FillOneGap
                \/ CallFails \/ Return

(* The rest of the system; it waits while the caller looks at its answer, which it could not change. *)
Elsewhere == pc # "returned" /\ (ChainStep \/ PollStep \/ CacheStep)

Next == CallReconcile \/ CallTransactionReceipt \/ CallStep \/ Elsewhere

Spec == Init /\ [][Next]_vars

(* A query is answered or fails, and the lock is fair to a call that waits for it. *)
LiveSpec ==
    /\ Spec
    /\ WF_vars(Fetcher /\ UNCHANGED callVars)
    /\ WF_vars(CallStep) /\ SF_vars(TargetMetWithEarlyList) /\ SF_vars(BuildLateList)
-----------------------------------------------------------------------------
(* Properties. *)

TypeOK ==
    /\ CacheTypeOK
    /\ pc \in {"idle", "receipt", "compare", "ask", "judge", "block", "met", "late", "target", "fill", "returned"}
    /\ held \in Seq(Block) /\ existing \in Seq(Block) /\ target \in Nat
    /\ receipt \in BlockOrNil /\ expected \in BlockOrNil /\ answeredAt \in BlockOrNil
    /\ earlyList \in Seq(Block) /\ lateList \in Seq(Block) /\ confirmations \in Seq(Block)
    /\ newFork \in BOOLEAN /\ rebuilt \in BOOLEAN /\ steppedBack \in BOOLEAN
    /\ outcome \in {"none", "error", "panicked", "unconfirmed", "confirmed", "receipt", "nodeBehind", "dropped"}

(* "a contiguous, linked list" (confirmation_reconciler.go:127): the confirmations returned are *)
(* one run of blocks of a single fork, although they come from an earlier answer, from the      *)
(* in-memory chain and from queries the node answered at different times; and a confirmed list  *)
(* holds the target number of blocks on top of its first.                                       *)
ConfirmationsAreLinked ==
    /\ Linked(confirmations)
    /\ outcome = "confirmed" /\ confirmations # <<>> => Len(confirmations) > target

(* The point of counting confirmations: when at least as many are asked for as a re-org is      *)
(* deep, the first block of a confirmed list (full mode) is never replaced again, whichever of  *)
(* its blocks were remembered by the caller, held in memory or fetched.                         *)
ConfirmedIsFinal ==
    outcome = "confirmed" /\ confirmations # <<>> /\ target >= ReorgDepth =>
        confirmations[1] \in BlocksOf(Path(settled))

(* "report whether any fork was detected" (confirmation_reconciler.go:128): when a block the    *)
(* caller handed back is replaced in the answer, the caller is told.                            *)
ReplacedBlocksAreReported ==
    \A i \in DOMAIN existing \cap DOMAIN confirmations :
        existing[i] # confirmations[i] => newFork \/ rebuilt

(* Light mode (get_receipt.go:230-236): "the answer is only definitive once every node is       *)
(* expected to be D past that block".  A caller told that its transaction is in no block, or in *)
(* another one, will never see it in its block again, although the height is read after the     *)
(* receipt was answered; nor is a receipt ever withdrawn that was confirmed by as many blocks   *)
(* as a re-org is deep and the chain may have grown meanwhile.                                  *)
LightAnswersAreFinal ==
    mode = "light" =>
        /\ outcome = "dropped" =>
            Number(expected) <= Number(settled) /\ expected \notin BlocksOf(Path(settled))
        /\ outcome = "confirmed" /\ target >= MaxReorgDepth + MaxAdvance /\ receipt # NoBlock =>
            receipt \in BlocksOf(Path(settled))

(* A block that the node does not have yet is an error of the call.  fillOneGap calls a method  *)
(* of the block it fetched without asking whether there was one                                 *)
(* (confirmation_reconciler.go:249-255): the call panics, but only when the node's chain became *)
(* shorter while the lists were built.                                                          *)
PanicsOnlyAfterStepBack == outcome = "panicked" => steppedBack

(* Every call returns: the lists come together or are given up, and the lock it waits for is    *)
(* released, because a fetch always returns its slot to the poll that holds the lock.           *)
CallsReturn == pc # "idle" ~> pc = "idle"

(* "Fetch the block containing the transaction first so that we can use it to build the         *)
(* confirmation list" (confirmation_reconciler.go:104): the list starts at the block of the     *)
(* receipt that is returned with it.                                                            *)
ListStartsAtReceipt == confirmations # <<>> => confirmations[1] = receipt
=============================================================================
