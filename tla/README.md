# TLA+ models of FireFly EVMConnect

EVMConnect connects the FireFly transaction manager (FFTM) to an EVM JSON/RPC node, or to several
behind a load balancer. Most of its requests are stateless. Its state, and everything that is hard
to test in it, is in one background loop that follows the head of the chain, in the loops that look
for events on that chain while it is being re-organized, and in the confirmation calls that combine
what these loops remember with what the node answers now. These modules model those parts, TLC
checks them on small instances, and TLAPS proves the safety of the chain tracking, the event streams,
the confirmations with the receipt cache, and the stream registry, for every block tree and every setting.

Paths below are relative to the repository; `BL` is `pkg/ethblocklistener/blocklistener.go`,
`PO` `pkg/ethblocklistener/blocklistener_pollers.go`, `BQ` `pkg/ethblocklistener/blocklistener_blockquery.go`,
`CR` `pkg/ethblocklistener/confirmation_reconciler.go`, `RF` `pkg/ethblocklistener/block_receipt_fetcher.go`,
`ES` `internal/ethereum/event_stream.go`, `GL` `internal/ethereum/event_stream_getlogs.go`,
`EL` `internal/ethereum/event_listener.go`, `EA` `internal/ethereum/event_actions.go`,
`GR` `internal/ethereum/get_receipt.go`.

## The parts of the system

| Component | State it keeps | Operations | Module |
|---|---|---|---|
| Canonical chain tracking, full mode (`BL`, `PO`) | the list of monitored blocks, highest block, head info, block filter, `gapPotential` | establish height, seed, poll (latest block or block filter), reconcile, trim, rebuild, dispatch | `CanonicalChain` |
| Head tracking, light mode (`BL`, `PO`) | `highestBlock`, `currentChainHead` | `headNumberPoller.poll`, `acceptHeadBlockNumber` | `MonitoredHead` |
| Lead group with `eth_getLogs` (`GL`, `ES`) | poll position, hashes of polled blocks, delivered blocks, scan positions, head position | lead group catchup, steady state cycle, re-org rewind, re-scan, dispatch | `GetLogsStream` |
| Lead group with a filter (`ES`) | the node's filter, reset flag, scan positions, head position | start-up, group rebuild, create / re-create filter, first fetch, changes, fall back to catchup | `FilterStream` |
| Event listeners (`EL`, `ES`, `EA`) | per listener: scan position, catchup flag, removed; the shared page size | add, start, individual catchup, rejoin, remove, downscale | `Listeners` |
| Stream registry and block consumers (`EA`, `BL`) | `eventStreams`, `consumers` | stream start / stopped, add consumer, dispatch | `ConsumerDispatch` |
| Confirmation reconciler (`CR`, `BQ`), receipt queries of light mode (`GR`) | none of its own; what the caller hands back | splice an early and a late list, fill gaps, judge a receipt | `ConfirmationReconciler` |
| Block receipt fetcher and receipt cache (`RF`) | cache, generation, throttle | request, fetch, store, purge, refetch | `ReceiptCache` |
| JSON/RPC client routing and WebSocket | connection state | connect, close, route a call | not modelled |
| Enrichment and decoding, rest of the query API, configuration, metrics, retry delay, command line | none that outlives a request, or nothing read back | | see below |

How they interact:

- The *block listener* is one goroutine (`listenLoop`). It is the only writer of the chain and of
  the height; readers take `canonicalChainLock`. It pushes each update on a channel per consumer,
  and requests the receipts of the blocks it adds, which needs slots of a throttle, under that lock.
- Each *event stream* is a goroutine (`streamLoop`) that reads `GetHighestBlock` and, in full mode,
  `SnapshotMonitoredHeadChain`, queries the node, and pushes events on the channel FFTM drains.
  Between the height, the snapshot, the query and each push the chain and the listener move on.
- A *listener* that starts far behind has a goroutine of its own (`listenerCatchupLoop`) until it
  is close enough to join the lead group. `es.mux`, `hwmMux` and the atomic `headBlock` connect them.
- A *confirmation call* reads the in-memory chain, the receipt cache and the node, one after the
  other, and is handed the blocks an earlier call returned.
- *FFTM* reads each listener's scan position as an inactivity checkpoint, and restarts from it.

What makes it hard: the node can change between any two calls; the nodes behind a load balancer
answer from different heights; responses and filters get lost; a full channel holds a loop up for
any time; a list element is kept across steps that may remove it; receipts arrive after the block
they are of was replaced; and the repair after a re-org works on records of what was seen earlier.
`PROJECT.json` lists these hazards at their lines.

The properties that make each part correct:

- chain tracking: the chain is one run of one fork; the height covers it; consumers are told every
  block of it; it converges on the node's fork when the node stops moving;
- event detection: nothing below the position a restart resumes from is lost; every event is pushed
  in the end; a block version is pushed once; an event flagged stable is of a block that stays;
- listeners: no listener scans past the lead group, none is forgotten between catchup and group,
  none stays in catchup for ever;
- consumers: a registered consumer is told, no stopped stream holds up another, one loop per stream;
- confirmations: a list that is reported is a run of one fork that starts at the transaction's block,
  a confirmed block stays, a replaced one is reported, and every call returns.

## Modules

`EVMNode` is the environment. Everything else is built on it:

    BlockTree ── EVMNode ─┬─ CanonicalChain
                          └─ MonitoredHead ─┬─ GetLogsStream ───────────┐
                                            ├─ Listeners ─ FilterStream ┴─> EventDetection (abstract)
                                            └─ ReceiptCache ─ ConfirmationReconciler   (INSTANCE, per mode)
    ConsumerDispatch

| Module | Models |
|---|---|
| `BlockTree` | blocks and `IsParentOf`. A block *is* its hash: two blocks with one number are two forks. The tree is any set with `Number`, `Parent` and `Path` that satisfies its assumption |
| `EVMNode` | external: the node's head, its re-orgs, its block filter. `MaxReorgs` is a bound |
| `CanonicalChain` | the listen loop in full mode, composed with `EVMNode` |
| `MonitoredHead` | the block listener as the other components see it, both modes, composed with `EVMNode` |
| `EventDetection` | abstract: what an event stream promises of one listener, whatever its polling mode |
| `GetLogsStream` | an event stream with `filterPollingMode: client`, composed with `MonitoredHead` |
| `Listeners` | the listeners of a stream, their catchup loops and the API calls about them |
| `FilterStream` | an event stream with `filterPollingMode: server`, composed with `Listeners` |
| `ReceiptCache` | receipt fetcher and cache, composed with the polls of `MonitoredHead` in either mode |
| `ConfirmationReconciler` | confirmation and receipt calls, composed with `ReceiptCache` |
| `ConsumerDispatch` | starting and stopping streams, and the consumers they register, next to the dispatch |
| `BlockTree_proofs`, `MonitoredHead_proofs`, `EventDetection_proofs`, `CanonicalChain_proofs`, `GetLogsStream_proofs`, `FilterStream_proofs`, `ConfirmationReconciler_proofs`, `ConsumerDispatch_proofs` | lemmas and theorems |
| `MC*` | small instances for TLC |

### CanonicalChain

`pc` says what the loop does next; every JSON/RPC call is a step, together with the code that runs
on its answer up to the next call, so a re-org may fall between any two of them.

| `pc` | Code | Actions |
|---|---|---|
| `height` | `establishBlockHeightWithRetry` | `EstablishBlockHeight`, `ExitBeforeBlockHeight` |
| `seed` | `seedMonitoredHead` | `SeedBlock`, `SeedingEnds` |
| `poll` | one iteration of `listenLoop` | `PollLatestBlock` (client); `NewBlockFilter`, `GetFilterChanges`, `LoseFilterChanges`, `FilterNotFound` (server); `ListenLoopExits` |
| `reconcile` | `reconcileAndDispatch` over the batch | `ResolveBlockHash`, `SkipBlockHash`, `Dispatch` |
| `trim` | `trimToLastValidBlock`, from the end of the list | `FoundLastValidBlock`, `BlockNoLongerValid`, `ReinitializeChain` |
| `rebuild` | `rebuildCanonicalChain`, one block at a time | `RebuildBlock`, `RebuildEnds`, `RebuildCancelled` |

`reconcileCanonicalChain` and `handleNewBlock` make no call, so they are the operator
`ReconcileCanonicalChain`, a disjunction of their four outcomes. `canonicalChain` is the
`container/list` as a sequence. `notifyPos` is a list *element* in the code, which may leave the
list while the rest of a batch is reconciled; `detached` is what following `Next` from it then
yields: itself alone after `Remove`, the old tail after `Init`. `told` is a history variable: what
a consumer knows that started from the seeded chain and applied each update by number.
A call that fails and is retried changes nothing and is a stuttering step. `Stop` cancels the
context at any time, and each step has the outcome the code has then.

### MonitoredHead and GetLogsStream

`MonitoredHead` makes a poll one step on a node that does not change meanwhile. That is a
simplification of the full mode poll: `canonicalChainLock` is held through a reconcile, so a
reader never sees one half done, but what the poll leaves behind when the node moves *during* it is
in `CanonicalChain` only. `settled` is the newest block no re-org replaces: re-orgs are at most
`MaxReorgDepth` blocks deep, and `checkpointBlockGap` is configured at least as large (`GL` 258,
"below which re-orgs are not expected"). The events' `checkpointBlockGap` and the listener's
`MonitoredHeadLength` are one setting (`internal/ethereum/ethereum.go`).

In `GetLogsStream` every block version carries one event the listener wants, so a set of blocks
stands for a set of events. One cycle is several steps: `BeginCycle` (the height, the reset of the
poll position, the fall back to catchup), `PlanScan` (snapshot, `checkReorgRewind`, ceiling),
`RangeQuery` or `RangeQueryFailed`, a `DispatchEvent` per event, `SteadyPageDone` (high water mark,
head position, `advance` / `advanceRescan`). Lead group catchup is `CaughtUp`, `CatchupPage`, and
`CatchupPageDone`. The lead group is one listener; `ListenersChange` is another one that joins or
leaves, which the loop sees as a change of `updateCount`. `StreamStops` cancels the stream.

### Listeners and FilterStream

Each listener has a `status`, the `catchup` flag (not in the lead group), a scan position, and the
state of its catchup loop. The loop has four steps with everything else in between: look whether it
is ready or removed (`CatchupRemoved`, `CatchupCompletes`, `CatchupNotReady`), read its range below
the ceiling (`CatchupRange`), query it (`CatchupQuery`, `CatchupQueryFailed` with `Downscaled`), push
and move (`CatchupDispatch`). `addEventListener` and `startEventListener` each take `es.mux`, and it
is free in between, so an API call is two steps (`AddEventListener`, `StartAdded`), and the stream's own start-up
(`EstablishHeadBlock`, `StartInitial`, `AllStarted`) may start a listener the call has yet to start.
`updated` is "`es.updateCount` differs from the count the lead group was built at".

`FilterStream` adds the lead group, with `pc` as in the code: `catchup` / `query` /
`catchupDispatch` for `leadGroupCatchup`, and `steady` / `filter` / `logs` / `dispatch` for a cycle of
`leadGroupSteadyState`. The node holds the log filter and queues what became canonical since it was
read last; it may drop it (`FilterLost`), a response may be lost with its logs (`GetFilterLogsFails`),
and an event that cannot be enriched makes the stream ask for a new filter (`EnrichFails`). The events
of one listener, the `Subject`, are followed; the others move the group, its lowest position and the
shared page size around it. `lostLogs` is history: logs that were lost with a response, which the code
cannot know of (`ES` 427).

### EventDetection

The abstract specification has four steps. `Settle`: more of the chain is final. `Begin`: the
listener is added. `Detect`: events are pushed, any of them and any number of times. `Advance`: the
scan position moves forwards, not above the first block that may still be replaced, and only if every
settled event below it has been pushed. That is what a checkpoint relies on, and it says nothing about filters, pages,
windows or records. `GetLogsStream` and `FilterStream` implement it (`ImplementsDetection`): the position is
`hwmBlock`, `start` is where the listener began, and what was detected is what was pushed (with a
filter: or lost with a response, the one loss the code accepts).

### ReceiptCache and ConfirmationReconciler

One transaction is followed. It is in one block of the main chain and in another block of a fork; a
receipt is the block it names. `ReceiptCache` runs the polls of `MonitoredHead` in the mode picked at
the start (an `INSTANCE` per mode), and `toFetch`: the blocks a poll has still to request receipts
for while it holds `canonicalChainLock` (`Unlocked` is "the lock is free"). A request needs a slot,
an answer returns the slot before its callback stores the receipt, and a purge makes what is in flight
outdated (`ResetReceiptCache`, the generation). Both ways of fetching are modelled
(`eth_getBlockReceipts`, or one call per transaction, by hash and possibly answered from the cache).

`ReconcileConfirmationsForTransaction` is `pc`: `receipt` → `block` (`FetchTxBlock`, builds the
early list) → `met` (enough confirmations are known, check that they are still there) → `late` (under
the read lock: the part of the in-memory chain) → `target` (nothing in memory, ask for one block) →
`fill` (`FillOneGap`, one query per step). `Join` is `buildConfirmationList` between two queries. In
light mode the number of the head is all there is to compare (`CompareWithHead`), and
`TransactionReceipt` (`AskReceipt`, `JudgeReceipt`) decides whether a receipt that disagrees with what the
caller saw is definitive. The caller hands back the blocks of an earlier answer, whole or with one
missing.

### ConsumerDispatch

FFTM's call for each stream is a process (`call[s]`): `EventStreamStart` takes `c.mux` and holds it
while an initial listener waits for the block height (`waitHeight`), the stream is registered and its
loop started (`register`), and `AddConsumer` waits for the listener (`waitStarted`);
`EventStreamStopped` takes it twice (`check`, `delete`) and waits for the loop (`waitLoop`). FFTM
makes one call at a time per stream, may call in error (a running stream started, a live one
stopped), and may cancel a context at any time. An incarnation of a stream has a number, because a
restart uses the same ID for a new context and channel. The listen loop starts with the first call
that needs it; `snapshot` is what `dispatchToConsumers` still has to visit, in the arbitrary order
of the map, and each visit is the `select` over the channel, the listener's context and the
consumer's. What an update says is left to `CanonicalChain`; here it is a number.

## The runs

`Fork` has two values, so each block has up to two children. `MCBlock` is the complete tree;
`MCForkedBlock` has a main chain and single forks off it. In every cfg `CHECK_DEADLOCK` is
off because the loops really stop (the context is cancelled) and the bounded chain stops growing.
The largest runs have about a million distinct states and take two to three minutes.

| Run | Shows | Bounds |
|---|---|---|
| `chain_client` | client polling: the safety properties and `ChainCatchesUp` | complete tree to block 3, two replacements by any chain, window 2. Two replacements let a chain go away and come back during a rebuild; window 2 makes every trim and rebuild shape occur |
| `chain_server` | block filter polling: batches with blocks of both forks, lost filters and responses, unresolvable hashes | block 3, one replacement, window 4, so that no batch outgrows the window; forks are symmetric (the run has no liveness) |
| `chain_overrun` | *violated*: a batch larger than the window | window 2, no re-org needed |
| `getlogs_full` | full mode: nothing lost, everything pushed, `EventDetection` implemented, in catchup and steady state | block 5, gap 2, re-org depth 1, one re-org to a chain at least as high, start at block 0 or 2, page and threshold 2, one listener change, at most one block between two continuity checks |
| `getlogs_light` | light mode: nothing lost, pushed once, head position stable, `EventDetection` implemented | block 4, gap 1, depth 1, two replacements, nodes behind the others; start at block 0, or at block 3, above the stable threshold |
| `getlogs_stall` | *violated*: the full mode run without the bound on the lead | block 5, gap 2, no listener change |
| `getlogs_detected_stable` | *violated*: `DetectedStable` on an event that was re-orged away | block 5, gap 1 |
| `filter_stream` | filter polling with two listeners: nobody is forgotten, nobody scans above the stable threshold, `EventDetection` implemented, a listener in catchup rejoins | block 4, gap 1, depth 1, one re-org, light mode nodes behind the others; one listener is there at start-up, the other is added and may be removed; page and threshold 2, so that catchup takes pages and the group falls back to it; the event is at block 1 on both forks, where it is re-orged and settles within the bound |
| `confirmations` | lists linked, confirmed blocks final, replaced blocks reported, light mode answers final, the cache never stale, every call returns | block 4, window 2, gap 1, two replacements, one throttle slot, one waiting callback; targets 0 (receipt only) and 2; modes and cache settings are picked at the start; full mode without cache has re-orgs as deep as the window |
| `confirmations_receipt` | *violated*: the list starts at a block other than the receipt's | the same, target 2 |
| `consumers_calls` | calls return, dispatches end, one loop per stream, a stream in its first run is told everything | two streams, two starts each, two updates: enough for a restart of one stream while the other is being told |
| `consumers_restart` | *violated*: the same for restarted streams | the same |

Pages and thresholds are small enough that the lead group of the getlogs runs takes a page of two blocks
in catchup, reaches the steady state, and falls back to catchup when the chain outruns it. Within these
heights a catchup takes one page; several in a row are left to the theorems, which hold for every page
size and height. The height of each tree leaves room for a settled block, a re-orged one, and blocks
mined after both. In `filter_stream` the page is already as small as light mode allows, so the run shows
that a failed query does not take it below that, and the theorem of `TypeOK` covers a page that shrinks.

`HandBackWith` bounds `confirmations`: earlier answers are handed back with the cache off only, where
re-orgs are deepest; a list does not depend on the cache. `MaxAdvance` is an assumption about the
environment: the chain grows at most one block while the answer of a light mode node is on its way.
`TransactionReceipt` reads the height after that answer, so with an unlimited delay "definitive" would
be about a height the node had not seen when it answered. In the run two gaps are just enough:
`MaxReorgDepth + MaxAdvance` is 2, and so are two gaps and the target.

The passing full mode run of `GetLogsStream` has three environment assumptions, all about how far
the chain moves before the stream looks again, and the code has no check for any of them:
`MaxReorgDepth + MaxLead <= CheckpointBlockGap`, one re-org only, and no shorter chain. With a
larger `MaxLead` the records are pruned before they are compared (`getlogs_stall`). With two re-orgs
the chain may go away for a query and be back for the next snapshot, so that the recorded hash
matches although other logs were read (hazard at `GL` 130; with `MaxReorgs = 2` TLC finds
`NothingLostBelowHWM` violated in just this way). It is not the number of re-orgs that matters, but
whether one brings back a fork that is on record: the theorem about this mode replaces "one re-org
only" by `NoReturn`, see below.

Every property also has a mutant: a version of one mapped definition with a plausible bug, next to
that definition in the module, under which TLC finds the property violated in the same cfg.

### What the violated runs say about the code

- `chain_overrun`: a poll that returns more new blocks than `MonitoredHeadLength` trims the front of
  the list, and with it the element `notifyPos` points to. `list.Remove` clears its links, so the
  update holds that one hash, not "all hashes from the point of change in the chain onwards"
  (`PO` 98).
- `getlogs_stall`: `checkReorgRewind` prunes the records below the window before it compares the
  rest. If the stream is held up (a full events channel is enough) while a polled block is re-orged
  and the chain grows past the window, the mismatch is never seen; the events of the new fork are
  not pushed and the scan position passes them. The doc comment (`GL` 192-194) says divergence is
  detected on later cycles "as long as it occurs within the checkpointBlockGap"; here the re-org is
  one block deep and the gap is two.
- `getlogs_detected_stable`: the height used for `DetectedStable` is read when an event is pushed,
  its logs were fetched before. A page held up on the channel while its block is replaced and the
  head moves on is pushed as stable, which `ES` 596-598 explains as "so no re-org can remove it".
- `consumers_restart`: a dispatch that finds the context of a consumer done deletes the map entry of
  its ID. If the stream was stopped and started again after the snapshot was taken, that entry is the
  new registration, and the stream is told of no block from then on (`BL` 125: "To feed new block
  information to any registered consumers").
- `confirmations_receipt`: the receipt and the block of its number are two queries (`BQ` 47). The
  hash is compared with a cached block only, so after a re-org in between, the list starts at a block
  the receipt does not name, although `CR` 104 says it is "the block containing the transaction".

Two more disagreements were met, and shaped properties of passing runs:

- In light mode a listener that starts above the stable threshold, at the latest block for
  instance, takes the lead group's position there (`GL` 333: the high water mark of a page is never
  below the poll position). `EL` 236-238 says that position is "at/below the stable threshold" in light
  mode. `GetLogsStream!HeadBlockIsStable` names this as its one exception; without it TLC finds the
  position above a block that may be replaced in eight steps.
- `fillOneGap` calls a method of a block it did not check for nil (`CR` 249-255). It panics when the
  node's chain becomes shorter while the lists are built, and `PanicsOnlyAfterStepBack` says never
  otherwise.

## Fairness

`CanonicalChain!LiveSpec`: weak fairness of the listen loop. It is a goroutine that is always
scheduled, every wait in it has a timeout, and a node that is asked again and again answers in the
end. `GetLogsStream!LiveSpec`: weak fairness of the listener's poll and of the stream loop (two
goroutines; FFTM drains the events channel), and strong fairness of `RangeQuery`, because a failed
query is retried for ever and the loop alternates between asking and failing. Nothing is assumed
of the environment: the chain may move at any time or never, listeners need not change, and a
context need not be cancelled (the liveness properties hold trivially once it is).

`FilterStream!LiveSpec`: weak fairness of the step that establishes the head position (the stream's
goroutine, whose first step waits for the block height only) and of the Subject's catchup loop (a goroutine of its own),
strong fairness of its query. `ListenersRejoin` needs no fairness of the lead group: the loop chases
a group that may go on moving or stop.

`ConfirmationReconciler!LiveSpec`: weak fairness of the call and of the fetcher (a request has a
timeout), and strong fairness of the two steps that take the read lock: `sync.RWMutex` does not
starve a reader, but the polls may take the lock any number of times.

`ConsumerDispatch!LiveSpec`: weak fairness of each call, each stream loop and the listen loop, and of
a send to a consumer whose context is live, because FFTM drains those channels. A cancelled stream
is *not* drained, and a call that waits is never helped by an error (`StartFails` has no fairness).

In light mode nothing is promised while the only node that answers stays behind the highest head
seen (`EventsDetected` says so): it refuses the pages above its head, as the mode requires.

## What is proved

For every block tree that satisfies `BlockTreeAssumption`, and every setting
that satisfies the `ASSUME`s of the modules:

| Module | Theorem | Property |
|---|---|---|
| `CanonicalChain_proofs` | `TypeCorrect` | `TypeOK` |
| | `ChainAlwaysLinked` | `ChainIsLinked` |
| | `HeadAlwaysCoversChain` | `HeadCoversChain` |
| | `UpdatesAlwaysLinked` | `UpdateIsLinked` |
| | `ClientConsumersKnowChain` | `ConsumersKnowChain`, for `FilterPollingMode = "client"` |
| `GetLogsStream_proofs` | `TypeCorrect` | `TypeOK` |
| | `HeadBlockAlwaysStable` | `HeadBlockIsStable`, both modes |
| | `LightLosesNothing` | `NothingLostBelowHWM`, light mode |
| | `LightNeverRedelivers` | `NoRedelivery` |
| | `LightImplementsDetection` | `ImplementsDetection`, light mode |
| | `FullLosesNothing` | `NothingLostBelowHWM`, full mode, under `WindowCoversReorgs` and `[][NoReturn]_vars` |
| | `FullImplementsDetection` | `ImplementsDetection`, full mode, under the same |
| | `OneReorgLosesNothing`, `OneReorgImplementsDetection` | the same two under `WindowCoversReorgs` and `MaxReorgs <= 1`, with no other hypothesis |
| `FilterStream_proofs` | `TypeCorrect` | `TypeOK` |
| | `NobodyIsEverForgotten` | `NobodyIsForgotten` |
| | `HeadBlockAlwaysStable` | `HeadBlockIsStable`, both modes |
| | `StreamImplementsDetection` | `ImplementsDetection`, both modes |
| `ConfirmationReconciler_proofs` | `ReconcilerTypes` | `TypeOK` |
| | `CachedReceiptsAreCanonical` | `CachedReceiptIsCanonical` |
| | `AnswersAreLinked` | `ConfirmationsAreLinked` |
| | `ConfirmedBlocksAreFinal` | `ConfirmedIsFinal` |
| | `ReplacementsAreReported` | `ReplacedBlocksAreReported` |
| | `PanicsNeedAStepBack` | `PanicsOnlyAfterStepBack` |
| | `LightModeAnswersAreFinal` | `LightAnswersAreFinal`, when `MaxReorgDepth + MaxAdvance <= 2 * CheckpointBlockGap` |
| `ConsumerDispatch_proofs` | `AtMostOneLoop` | `OneLoopPerStream` |
| | `TypeCorrect` | `TypeOK` |
| | `FirstRunIsAlwaysTold` | `FirstRunIsToldEverything` |
| `EventDetection_proofs` | `DetectionLosesNothing` | the consequence of `EventDetection`: no settled event between the first block and the position is missing |

The assumptions are those of the code's own checks (positive window, page larger than the unstable
window in light mode, threshold not below the page), one of the environment (`MaxReorgDepth` is at
most the gap, and below the window while receipts are cached), and one of the tree: each path starts
at genesis and follows the parents.

`BlockTree_proofs` has what all the proofs need of paths and lists. That the path of a block on a
path is the beginning of that path (`PathBegins`), that a linked list is numbered consecutively
(`LinkedIsRun`), that each block of a *run* is on the path to those above it (`RunOnPath`), and that a
run that is cut, continued and trimmed, or spliced with a path, is a run again (`ExtendedRun`,
`SplicedRun`, the two repairs of `reconcileCanonicalChain`) are
facts one would prove by induction along the list. They are proved from the least or the greatest
index where they fail, which the well-foundedness of the naturals provides (`LeastNatural`,
`GreatestNatural`).

**CanonicalChain.** `ChainIsLinked` and `UpdateIsLinked` are not inductive. `SafetyInv` is
`TypeOK /\ LoopInv`, where `LoopInv` says:

- the chain, and the run `detached` that a removed `notifyPos` leads to, are *runs*: linked **and**
  numbered consecutively. `From` and `AddAfter` cut a list by number, so that what they cut off is
  linked needs the numbers;
- `HeadCoversChain`, which is inductive together with the next point;
- before the height is established there is no chain and no head info; a chain that is being verified
  is not empty (`ReinitializeChain` reads its first block); `lastElem` is 0 outside the verification.

`ClientInv` adds, for client polling, what consumers know at each point of a poll: between polls, and
while the list is verified from its end, every block of the chain has been told; during a rebuild
every block below `rebuiltFrom`, and in the reconcile every block below `notifyPos`, has been told
(`KnownBelow`), and the update holds the rest. It needs that nothing is pending between polls, and that
`detached` stays empty: in this mode a poll reconciles one block, so nothing can remove the element
the update starts from. With a filter that fails (`chain_overrun`), and the passing run of that mode
keeps batches within the window.

**The two streams.** `MonitoredHead_proofs` shows that `settled` is on the node's chain, only moves
along it, and that the stable threshold of any height the listener ever held is at most its number
(`GapIsSettled`). From it follow the positions (`PositionInv`): the height read at the start of a
cycle, the pages and the head position are all behind `settled`, and a listener's scan position is too,
unless it never left where it started. Then *what is behind a position is pushed*
(`BehindIsKnown` in `FilterStream`, `LightInv` in `GetLogsStream`), which needs what a page in hand holds: every
settled event between the position and the end of the page is in the page, or was pushed before. For
the filter this is `FilterCollects`: while the filter stands and no reset is due, every event of the node's
chain from the position on was pushed, is in the page, or is in the node's queue. It holds through a
re-org because the filter collects what becomes canonical (`NewBlocksAreAnnounced`), and through a failed
enrichment because `resetRequired` is set. `NobodyIsForgotten` needs that a listener that is absent has
no part in anything. For `EventDetection` each step is mapped: a chain step to `Settle`, an add to
`Begin`, a push to `Detect`, a page that is done to `Advance`, all others to a stutter.

**GetLogsStream in full mode.** Here events *may* be missing behind the poll position, as long as the
next continuity check will find out. The two hypotheses say when it does. `WindowCoversReorgs`: nodes
that are not behind one another, and `MaxReorgDepth + MaxLead <= CheckpointBlockGap`; that it is needed
shows in `getlogs_stall`. `NoReturn`: no re-org brings back a block that the poll has on record or the page in
hand has in its snapshot. It is a property of the environment, the only way around it is the hazard at
`GL` 130, and a single re-org always has it (`OneReorgReturnsNothing`, by the invariant `OneChain`).
`FullInv` consists of

- `ViewInv`: the in-memory chain is a run that fills the window and ends at the highest block, and its end was
  once the node's head, so what lies a re-org's depth below it is settled (`Seen`; `ViewPolled` and
  `ViewKept` of `MonitoredHead_proofs`);
- `RangeInv` and `RecordsInv`: every block between the settled one and the poll position has a record, and
  every block of a page above the settled one is in the page's snapshot. This is what the ceiling of the scan is for
  (`steadyStateScanCeiling`);
- `ScannedInv` and `PageInv`: a block of the node's chain behind the poll position (or in the page) was
  pushed (or is about to be), or it `Replaces` the one on record at its height: it is less than a re-org's depth
  below the height of the last check, and the chain has grown by at most `MaxLead` since;
- the property itself, `NothingLostBelowHWM`.

The step that decides is the check (`CheckLeaves`). The bound on the window keeps the record of a replaced
block from being pruned. If the snapshot shows the new block, the scan goes back to it; if it still shows
the old one, the new block is too young to be settled, and is left for the next check. The high water mark
of a page never passes a replaced block, because the stable threshold is below all of them
(`SettledIsNotReplaced`).

**ConfirmationReconciler, ReceiptCache.** One invariant, `ReconcilerInv`, gives all seven properties.
Its parts:

- `ListenerInv`: the in-memory chain is a run that reaches down to `settled`, and with a receipt cache
  it begins on the settled chain (`ChainInv`: this is where the window has to be longer than a re-org is
  deep); and `CacheInv`, the argument of the cache: whatever may still get into it, being requested, in
  flight or answered but of the *current* generation, is a block of the in-memory chain, or is below its
  front. A poll that removes a block purges and outdates everything, one that does not only adds.
- `SeenInv`, the argument of finality: every block that is remembered anywhere (by the chain, the cache,
  a callback, the caller or the lists of a call) was once on the node's chain, so what lies a
  re-org's depth below it is settled. It is stated without history, survives every re-org because `settled` only moves up
  its own chain, and says of a list of `target + 1` linked blocks that the first is settled.
- `CallInv`: which lists exist at which step of a call, that they are runs, that a gap between them is
  a real gap; and `HandedBackInv`: as long as nothing was reported, the early list *is* what the caller
  handed back. `ReplacedBlocksAreReported` needs it because `newSplice` compares the overlap with the
  list at that time, not with what was handed back.
- `StepBackInv`: the block that is fetched next is not above the node's head, unless its chain became
  shorter; the front of the in-memory chain may be above the head, but then by one block only.
- `LightInv`: what the answer of a light mode node said of the block that was settled then
  (`AnswerInv`), how far the heights may be ahead of it, and the property itself. The hypothesis of
  `LightModeAnswersAreFinal` is needed for "dropped" only: the two gaps of `receiptDefinitive` have to cover
  a re-org and what the chain grows by while the answer is on its way.

The proof is modular in the same way: `ChainMovesSettles` and `PollSettles` take over what
`MonitoredHead_proofs` shows of each of the three instances of `MonitoredHead`, one lemma says what a
poll leaves of the chain (`PollChain`), and one per step says the rest.

**ConsumerDispatch.** `LoopInv` says that a loop is of the newest incarnation of its stream, that the
stream is in the registry or an `EventStreamStopped` waits for that very loop, and that no
`EventStreamStart` of it is past its check of the registry. `ToldInv` says that a stream in its first
run is registered and was told every update that is not just being dispatched with the stream still to
come. Only `ConsumerClosed` could break it, and the head of the snapshot cannot be an older incarnation of a stream that has
one; for a restarted stream exactly this step fails (`consumers_restart`).

Each invariant has one lemma or step per action and one step per conjunct the action can disturb.

## What is only model-checked

- All liveness (`ChainCatchesUp`, `EventsDetected`, `CallsReturn`, `DispatchesEnd`, `ListenersRejoin`):
  fairness and ENABLED are outside TLAPS here.
- That the full mode of `GetLogsStream` needs its two hypotheses: `getlogs_stall` for the window, and for
  `NoReturn` two re-orgs instead of one in the cfg of `getlogs_full`, which is not kept as a run of its own.
- `ConsumersKnowChain` with a block filter, where it depends on the size of the batches.

## What is not modelled, and why

- In `CanonicalChain`: light mode, adding and removing consumers, the timing of retries, the new-heads
  WebSocket tap (it only makes a poll earlier). The receipts it requests are in `ReceiptCache`.
- In `MonitoredHead`: a poll during which the node moves (see there), so the stale receipt of a poll that
  resolves one block of a re-org deeper than the window (`BL` 475, `RF` 179) is left out with it.
- In `ConsumerDispatch`: `RemoveConsumer` (nothing in the connector calls it), consumers without a
  stream (`NewBlockListener`), the listeners' own goroutines, a block height that was never obtained because the
  connector shuts down (`BL` 341).
- In `GetLogsStream`: several listeners with positions of their own (they are in `FilterStream`), a
  backfill of the chain that failed part-way (`GL` 158), page downscaling, the order of logs inside a
  block. Logs that match no listener are left out.
- In `Listeners` and `FilterStream`: a second catchup loop of one listener (`ES` 176), since each has the
  state of one; adding the ID of a removed listener again while its old loop still
  pushes, the data race on `es.listeners` between an add and a stop (`EA` 90), logs flagged
  `removed: true` (the code treats them like others), the exit of the stream with the removal of its
  filter, the second read of the height within `leadGroupSteadyState` (made one step later than in the code), and the checkpoint of an
  inactive listener with what FFTM does with it (`EL` 158), which is not in this repository.
- In `ReceiptCache`: that with one receipt call per transaction the cache may hold a receipt of a block that was
  replaced and came back (`RF` 98); no property is claimed of the cache in that mode.
- In `ConfirmationReconciler`: confirmations handed back that no call ever returned.
- JSON/RPC routing and the WebSocket: one goroutine at a time opens or closes it, and the callers only see
  calls that fail or are lost. Decoding and serialisation, the stateless query and transaction requests,
  metrics, configuration, retry delays and the command line: they keep no state between
  requests, or nothing that is read back.

## Left for later

1. An abstract specification of the monitored head (a linked run that follows the node), implemented by
   `CanonicalChain`, and through it a proved link to `MonitoredHead`.
2. `ConsumersKnowChain` for block filters with a bound on the batch, as a theorem.
3. A backfill that fails part-way, and a restart from a checkpoint, in `GetLogsStream`.
