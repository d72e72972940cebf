---------------------------- MODULE ReceiptCache ----------------------------
(***************************************************************************)
(* The receipt fetcher and the receipt cache of the block listener         *)
(* (block_receipt_fetcher.go), fed by its polls.  One transaction is       *)
(* followed: the cache holds its receipt, or does not.  A receipt is the   *)
(* block it names; which block of a chain holds the transaction is given.  *)
(*                                                                         *)
(* A poll holds canonicalChainLock while it requests the receipts of the   *)
(* blocks it added, each of which needs a slot of the throttle; a fetch    *)
(* returns its slot before its callback stores the receipts.  The chain is *)
(* that of MonitoredHead, in the tracking mode picked at the start.        *)
(***************************************************************************)
EXTENDS BlockTree, SequencesExt

CONSTANTS
    MaxReorgs,                      \* bound: see EVMNode
    MonitoredHeadLength,            \* blocks kept in memory in full mode
    CheckpointBlockGap,             \* events.checkpointBlockGap in light mode
    MaxReorgDepth, NodesBehind,     \* environment: see MonitoredHead
    TxBlocks,                       \* the blocks that hold the transaction
    MaxAsyncBlockFetchConcurrency,  \* slots of the throttle
    MaxCallbacks                    \* bound: callbacks waiting to run

(* A chain holds a transaction once. *)
ASSUME CacheAssumption ==
    /\ TxBlocks \subseteq Block
    /\ \A b \in Block : Cardinality(TxBlocks \cap BlocksOf(Path(b))) <= 1
    /\ MonitoredHeadLength \in Nat \ {0} /\ MaxReorgDepth \in 0..(MonitoredHeadLength - 1)
    /\ CheckpointBlockGap \in Nat \ {0} /\ MaxReorgDepth <= CheckpointBlockGap
    /\ MaxAsyncBlockFetchConcurrency \in Nat \ {0}      \* NewBlockListener
    /\ MaxCallbacks \in Nat \ {0}
    /\ MaxReorgs \in Nat /\ NodesBehind \in BOOLEAN

VARIABLES
    head, reorgs, nodeFilter, filterQueue,                          \* see EVMNode
    settled, highestBlock, currentChainHead, canonicalChain,        \* see MonitoredHead
    mode,                   \* "full" or "light"
    receiptCache,           \* "off", or how it is filled: "blockReceipts" (useGetBlockReceipts) or "txReceipts"
    cached,                 \* the receipt in txReceiptCache, or nil
    toFetch,                \* the blocks the poll in progress has still to request receipts for
    fetches,                \* requests that hold a slot: [block, current]
    callbacks               \* fetches that returned their slot: [receipt, current]

(* Full mode without a receipt cache is run against re-orgs as deep as the window is long. *)
Full  == INSTANCE MonitoredHead WITH ChainTrackingMode <- "full", CheckpointBlockGap <- MonitoredHeadLength
Deep  == INSTANCE MonitoredHead WITH ChainTrackingMode <- "full", CheckpointBlockGap <- MonitoredHeadLength,
                                     MaxReorgDepth <- MonitoredHeadLength
Light == INSTANCE MonitoredHead WITH ChainTrackingMode <- "light"

chainVars == <<head, reorgs, nodeFilter, filterQueue, settled, highestBlock, currentChainHead, canonicalChain>>
configVars == <<mode, receiptCache>>
cacheVars == <<cached, toFetch, fetches, callbacks>>

(* The receipts of the blocks seeded in full mode are requested like those of a poll. *)
CacheInit ==
    /\ \/ mode = "full" /\ Full!HeadInit /\ receiptCache \in {"blockReceipts", "txReceipts"}
       \/ mode = "full" /\ Deep!HeadInit /\ receiptCache = "off"
       \/ mode = "light" /\ Light!HeadInit /\ receiptCache = "off"
    /\ cached = NoBlock
    /\ toFetch = IF receiptCache = "off" THEN <<>> ELSE canonicalChain
    /\ fetches = <<>> /\ callbacks = <<>>

(* eth_getTransactionReceipt on a node whose head is h *)
ReceiptOn(h) ==
    IF TxBlocks \cap BlocksOf(Path(h)) = {} THEN NoBlock
    ELSE CHOOSE b \in TxBlocks \cap BlocksOf(Path(h)) : TRUE

(* A block is mined or the chain replaced. *)
DeepReorgs == mode = "full" /\ receiptCache = "off"
ChainMoves == IF DeepReorgs THEN Deep!ChainMoves ELSE Full!ChainMoves
ReorgDepth == IF DeepReorgs THEN MonitoredHeadLength ELSE MaxReorgDepth

(* canonicalChainLock is free. *)
Unlocked == toFetch = <<>>

-----------------------------------------------------------------------------
(* A full mode poll, up to the requests it makes. *)

Duplicate(bi) == bi \in BlocksOf(canonicalChain)
FirstBlock(bi) == Full!Below(bi) = 0
Fits(bi) == ~FirstBlock(bi) /\ IsParentOf(canonicalChain[Full!Below(bi)], bi)

(* handleNewBlock and rebuildCanonicalChain: when a block was removed from the end of the chain *)
Purges(bi) == ~Duplicate(bi) /\ (~Fits(bi) \/ Full!Below(bi) < Len(canonicalChain))

(* refetchReceiptsForCanonicalChain runs on the list that trimToLastValidBlock leaves, which is *)
(* the whole list when no block of it is valid; then the blocks of the rebuild follow.          *)
Refetched(bi) == (IF Full!ValidOn(bi) = 0 THEN canonicalChain ELSE <<>>) \o Full!Rebuilt(bi)

(* fetchAndCacheBlockReceipts requests these, in this order. *)
Requested(bi) ==
    CASE receiptCache = "off" \/ Duplicate(bi) -> <<>>
      [] receiptCache # "off" /\ ~Duplicate(bi) /\ (FirstBlock(bi) \/ Fits(bi)) -> <<bi>>
      [] receiptCache # "off" /\ ~Duplicate(bi) /\ ~FirstBlock(bi) /\ ~Fits(bi) -> Refetched(bi)

(* What was requested before a reset belongs to an old generation. *)
Outdated(requests) == [i \in DOMAIN requests |-> [requests[i] EXCEPT !.current = FALSE]]

(* Mutant: the cache is purged, but its generation stays. *)
PurgeOnly == cached' = NoBlock /\ UNCHANGED <<fetches, callbacks>>

(* resetReceiptCache *)
ResetReceiptCache ==
    /\ cached' = NoBlock
    /\ fetches' = Outdated(fetches)
    /\ callbacks' = Outdated(callbacks)

PollLatestBlock ==
    /\ mode = "full" /\ Unlocked
    /\ Full!PollLatestBlock
    /\ toFetch' = Requested(head)
    /\ IF Purges(head) THEN ResetReceiptCache ELSE UNCHANGED <<cached, fetches, callbacks>>
    /\ UNCHANGED configVars

(* Light mode keeps no chain, and requests no receipts. *)
PollHeadNumber ==
    /\ mode = "light"
    /\ Light!PollHeadNumber
    /\ UNCHANGED <<configVars, cacheVars>>

-----------------------------------------------------------------------------
(* Fetching. *)

(* Mutant: one request too many. *)
SlotFreeOffByOne == Len(fetches) <= MaxAsyncBlockFetchConcurrency

SlotFree == Len(fetches) < MaxAsyncBlockFetchConcurrency

(* FetchBlockReceiptsAsync: waits for a slot of the throttle. *)
RequestReceipts ==
    /\ toFetch # <<>> /\ SlotFree
    /\ fetches' = Append(fetches, [block |-> Head(toFetch), current |-> TRUE])
    /\ toFetch' = Tail(toFetch)
    /\ UNCHANGED <<chainVars, configVars, cached, callbacks>>

(* blockReceiptRequest.run: by number, with the hashes checked; or by the hash of the block, *)
(* each receipt on its own, from the cache or the node.                                      *)
FetchedReceipt(block) ==
    CASE receiptCache = "blockReceipts" ->
            IF BlockAt(head, Number(block)) = block /\ block \in TxBlocks THEN block ELSE NoBlock
      [] receiptCache = "txReceipts" ->
            IF block \notin TxBlocks THEN NoBlock
            ELSE IF cached # NoBlock THEN cached ELSE ReceiptOn(head)

(* Mutant: the slot is not returned. *)
KeepSlot(i) == UNCHANGED fetches

(* The slot is returned before the callback is called. *)
ReturnSlot(i) == fetches' = RemoveAt(fetches, i)

(* The receipt is answered. *)
FetchReturns ==
    /\ Len(callbacks) < MaxCallbacks
    /\ \E i \in DOMAIN fetches :
        /\ FetchedReceipt(fetches[i].block) # NoBlock
        /\ callbacks' = Append(callbacks,
                [receipt |-> FetchedReceipt(fetches[i].block), current |-> fetches[i].current])
        /\ ReturnSlot(i)
    /\ UNCHANGED <<chainVars, configVars, cached, toFetch>>

(* An RPC fails, the block is not there, a hash differs, or the block does not hold the *)
(* transaction: the callback has nothing to store.                                      *)
FetchFails ==
    /\ \E i \in DOMAIN fetches : ReturnSlot(i)
    /\ UNCHANGED <<chainVars, configVars, cached, toFetch, callbacks>>

(* storeReceiptsInCache *)
StoreReceipts ==
    /\ \E i \in DOMAIN callbacks :
        /\ cached' = IF callbacks[i].current /\ callbacks[i].receipt # NoBlock
                     THEN callbacks[i].receipt ELSE cached
        /\ callbacks' = RemoveAt(callbacks, i)
    /\ UNCHANGED <<chainVars, configVars, toFetch, fetches>>

(* The entry makes room for other transactions. *)
Evict ==
    /\ cached # NoBlock
    /\ cached' = NoBlock
    /\ UNCHANGED <<chainVars, configVars, toFetch, fetches, callbacks>>

Fetcher == RequestReceipts \/ FetchReturns \/ FetchFails \/ StoreReceipts

CacheTypeOK ==
    /\ mode \in {"full", "light"} /\ receiptCache \in {"off", "blockReceipts", "txReceipts"}
    /\ Full!HeadTypeOK
    /\ cached \in BlockOrNil
    /\ toFetch \in Seq(Block)
    /\ fetches \in Seq([block : Block, current : BOOLEAN])
    /\ Len(fetches) <= MaxAsyncBlockFetchConcurrency
    /\ callbacks \in Seq([receipt : BlockOrNil, current : BOOLEAN])

(* "Purging avoids serving stale receipts", and the generations keep fetches in flight "so they *)
(* cannot repopulate the cache with orphaned data" (block_receipt_fetcher.go:113-116): with     *)
(* eth_getBlockReceipts, no receipt in the cache names a block that the in-memory chain has     *)
(* replaced, whatever re-orgs come between a request, its answer and its callback.  It needs a  *)
(* window longer than any re-org is deep.                                                       *)
CachedReceiptIsCanonical ==
    receiptCache = "blockReceipts" /\ Unlocked =>
        \A b \in BlocksOf(canonicalChain) : cached # NoBlock /\ Number(b) = Number(cached) => b = cached
=============================================================================
