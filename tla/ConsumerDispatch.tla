-------------------------- MODULE ConsumerDispatch --------------------------
(***************************************************************************)
(* The registry of event streams (internal/ethereum, EventStreamStart and  *)
(* EventStreamStopped under c.mux) and the block consumers they register   *)
(* with the block listener (pkg/ethblocklistener, AddConsumer and          *)
(* dispatchToConsumers under consumerMux).                                 *)
(*                                                                         *)
(* FFTM may start a stream again, with the same ID and a new context, once *)
(* it was stopped: each incarnation has a number.  FFTM makes one call at  *)
(* a time per stream, and calls for different streams at any time.  A step *)
(* is what runs under one lock, or up to the next wait.                    *)
(***************************************************************************)
EXTENDS Integers, Sequences, FiniteSets, SequencesExt

CONSTANTS
    Stream,         \* stream IDs, which are also the consumer IDs
    NoStream,
    MaxStarts,      \* bound: incarnations of a stream
    MaxUpdates      \* bound: updates the listener dispatches

ASSUME ConsumerAssumption ==
    /\ NoStream \notin Stream /\ IsFiniteSet(Stream)
    /\ MaxStarts \in Nat /\ MaxUpdates \in Nat

VARIABLES
    mux,            \* the stream whose EventStreamStart holds c.mux, or NoStream
    call,           \* what FFTM's call for a stream does next
    eventStreams,   \* c.eventStreams: the incarnation registered, or 0
    starts,         \* the newest incarnation of each stream
    cancelled,      \* the context of the newest incarnation is done
    running,        \* FFTM: EventStreamStart returned for the newest incarnation
    streamLoops,    \* the stream loop goroutines that are alive
    listener,       \* where the listen loop is
    started,        \* startDone is closed
    stopped,        \* bl.ctx is done
    consumers,      \* bl.consumers: the incarnation registered under each ID, or 0
    snapshot,       \* dispatchToConsumers: the consumers still to be told, in order
    update,         \* updates dispatched so far
    firstUpdate,    \* history: the first update a registered stream must be told
    told            \* history: the updates the newest incarnation was told

callVars     == <<mux, call, eventStreams, starts, cancelled, running, streamLoops>>
listenerVars == <<listener, started, stopped, snapshot, update>>
vars == <<callVars, listenerVars, consumers, firstUpdate, told>>

Init ==
    /\ mux = NoStream
    /\ call = [s \in Stream |-> "none"]
    /\ eventStreams = [s \in Stream |-> 0]
    /\ starts = [s \in Stream |-> 0]
    /\ cancelled = [s \in Stream |-> FALSE]
    /\ running = [s \in Stream |-> FALSE]
    /\ streamLoops = {}
    /\ listener = "none" /\ started = FALSE /\ stopped = FALSE
    /\ consumers = [s \in Stream |-> 0]
    /\ snapshot = <<>> /\ update = 0
    /\ firstUpdate = [s \in Stream |-> 0]
    /\ told = [s \in Stream |-> {}]

(* The context of incarnation i of stream s is done. *)
ContextDone(s, i) == i < starts[s] \/ cancelled[s]

(* checkAndStartListenerLoop *)
CheckAndStartListenerLoop == listener' = IF listener = "none" THEN "height" ELSE listener

-----------------------------------------------------------------------------
(* EventStreamStart *)

(* FFTM calls it, for a stream that is not running or, in error, for one that is. *)
CallStart(s) ==
    /\ call[s] = "none" /\ starts[s] < MaxStarts
    /\ call' = [call EXCEPT ![s] = "start"]
    /\ UNCHANGED <<mux, eventStreams, starts, cancelled, running, streamLoops, listenerVars,
                   consumers, firstUpdate, told>>

AlreadyStarted(s) == eventStreams[s] # 0

StartRefused(s) ==
    /\ call[s] = "start" /\ mux = NoStream
    /\ AlreadyStarted(s)
    /\ call' = [call EXCEPT ![s] = "none"]
    /\ UNCHANGED <<mux, eventStreams, starts, cancelled, running, streamLoops, listenerVars,
                   consumers, firstUpdate, told>>

(* c.mux is taken, and held until the call returns.  A listener that starts at the latest   *)
(* block waits for the block height in addEventListener.                                    *)
StartAccepted(s) ==
    /\ call[s] = "start" /\ mux = NoStream
    /\ ~AlreadyStarted(s)
    /\ mux' = s
    /\ starts' = [starts EXCEPT ![s] = @ + 1]
    /\ cancelled' = [cancelled EXCEPT ![s] = FALSE]
    /\ told' = [told EXCEPT ![s] = {}]
    /\ \/ call' = [call EXCEPT ![s] = "waitHeight"] /\ CheckAndStartListenerLoop
       \/ call' = [call EXCEPT ![s] = "register"] /\ UNCHANGED listener
    /\ UNCHANGED <<eventStreams, running, streamLoops, started, stopped, snapshot, update,
                   consumers, firstUpdate>>

(* waitForBlockHeightInit *)
HeightObtained(s) ==
    /\ call[s] = "waitHeight"
    /\ listener \notin {"none", "height"}
    /\ call' = [call EXCEPT ![s] = "register"]
    /\ UNCHANGED <<mux, eventStreams, starts, cancelled, running, streamLoops, listenerVars,
                   consumers, firstUpdate, told>>

(* An initial listener cannot be added: its options are invalid, or the context is done. *)
StartFails(s) ==
    /\ call[s] \in {"waitHeight", "register"}
    /\ call' = [call EXCEPT ![s] = "none"]
    /\ mux' = NoStream
    /\ UNCHANGED <<eventStreams, starts, cancelled, running, streamLoops, listenerVars,
                   consumers, firstUpdate, told>>

(* The stream is in the registry, its loop is started, and AddConsumer is called. *)
StreamRegistered(s) ==
    /\ call[s] = "register"
    /\ eventStreams' = [eventStreams EXCEPT ![s] = starts[s]]
    /\ streamLoops' = streamLoops \cup {<<s, starts[s]>>}
    /\ CheckAndStartListenerLoop
    /\ call' = [call EXCEPT ![s] = "waitStarted"]
    /\ UNCHANGED <<mux, starts, cancelled, running, started, stopped, snapshot, update,
                   consumers, firstUpdate, told>>

(* Mutant: only the start of the listener is waited for. *)
WaitForStartOnly(s) == started

(* waitUntilStarted *)
WaitUntilStarted(s) == started \/ stopped \/ cancelled[s]

(* The rest of AddConsumer, and the return of EventStreamStart *)
ConsumerAdded(s) ==
    /\ call[s] = "waitStarted"
    /\ WaitUntilStarted(s)
    /\ consumers' = [consumers EXCEPT ![s] = starts[s]]
    /\ firstUpdate' = [firstUpdate EXCEPT ![s] = update + 1]
    /\ running' = [running EXCEPT ![s] = TRUE]
    /\ call' = [call EXCEPT ![s] = "none"]
    /\ mux' = NoStream
    /\ UNCHANGED <<eventStreams, starts, cancelled, streamLoops, listenerVars, told>>

-----------------------------------------------------------------------------
(* The end of a stream. *)

(* FFTM cancels the context it gave to EventStreamStart. *)
CancelContext(s) ==
    /\ starts[s] > 0 /\ ~cancelled[s]
    /\ cancelled' = [cancelled EXCEPT ![s] = TRUE]
    /\ UNCHANGED <<mux, call, eventStreams, starts, running, streamLoops, listenerVars,
                   consumers, firstUpdate, told>>

StreamLoopExits(s) ==
    /\ \E i \in 1..starts[s] :
        /\ ContextDone(s, i)
        /\ <<s, i>> \in streamLoops
        /\ streamLoops' = streamLoops \ {<<s, i>>}
    /\ UNCHANGED <<mux, call, eventStreams, starts, cancelled, running, listenerVars,
                   consumers, firstUpdate, told>>

CallStopped(s) ==
    /\ call[s] = "none" /\ running[s]
    /\ call' = [call EXCEPT ![s] = "check"]
    /\ UNCHANGED <<mux, eventStreams, starts, cancelled, running, streamLoops, listenerVars,
                   consumers, firstUpdate, told>>

(* EventStreamStopped looks at the registry, and at the context of what it found. *)
StoppedChecks(s) ==
    /\ call[s] = "check" /\ mux = NoStream
    /\ call' = [call EXCEPT ![s] = IF eventStreams[s] # 0 /\ cancelled[s] THEN "delete" ELSE "none"]
    /\ UNCHANGED <<mux, eventStreams, starts, cancelled, running, streamLoops, listenerVars,
                   consumers, firstUpdate, told>>

StreamDeleted(s) ==
    /\ call[s] = "delete" /\ mux = NoStream
    /\ eventStreams' = [eventStreams EXCEPT ![s] = 0]
    /\ call' = [call EXCEPT ![s] = "waitLoop"]
    /\ UNCHANGED <<mux, starts, cancelled, running, streamLoops, listenerVars, consumers,
                   firstUpdate, told>>

(* Mutant: the wait for the loop is left out. *)
NotWaitingForLoop(s) == TRUE

StreamLoopDone(s) == <<s, starts[s]>> \notin streamLoops

StoppedReturns(s) ==
    /\ call[s] = "waitLoop"
    /\ StreamLoopDone(s)
    /\ running' = [running EXCEPT ![s] = FALSE]
    /\ call' = [call EXCEPT ![s] = "none"]
    /\ UNCHANGED <<mux, eventStreams, starts, cancelled, streamLoops, listenerVars, consumers,
                   firstUpdate, told>>

-----------------------------------------------------------------------------
(* The listen loop. *)

(* establishBlockHeightWithRetry ends: with the height, or because bl.ctx is done. *)
HeightEstablished ==
    /\ listener = "height"
    /\ listener' = "starting"
    /\ UNCHANGED <<callVars, started, stopped, snapshot, update, consumers, firstUpdate, told>>

(* markStarted, before the loop or with the first block filter *)
MarkStarted ==
    /\ listener = "starting"
    /\ started' = TRUE
    /\ listener' = "poll"
    /\ UNCHANGED <<callVars, stopped, snapshot, update, consumers, firstUpdate, told>>

(* The loop exits, perhaps before a block filter was ever established. *)
ListenLoopExits ==
    /\ listener \in {"starting", "poll"} /\ stopped
    /\ listener' = "done"
    /\ UNCHANGED <<callVars, started, stopped, snapshot, update, consumers, firstUpdate, told>>

(* Mutant: IDs that were deleted are still visited. *)
SnapshotOfAllIDs == SetToSeqs({<<s, consumers[s]>> : s \in Stream})

(* snapshotConsumers: the order of the map is arbitrary. *)
SnapshotConsumers == SetToSeqs({<<s, consumers[s]>> : s \in {t \in Stream : consumers[t] # 0}})

(* A poll found something to tell the consumers. *)
PollDispatches ==
    /\ listener = "poll"
    /\ update < MaxUpdates
    /\ update' = update + 1
    /\ snapshot' \in SnapshotConsumers
    /\ listener' = "dispatch"
    /\ UNCHANGED <<callVars, started, stopped, consumers, firstUpdate, told>>

(* Mutant: one consumer that does not take the update ends the dispatch. *)
NoneAreLeft == <<>>

(* The consumers after the one being told *)
RestOfSnapshot == Tail(snapshot)

(* c.Updates <- update: FFTM takes it, or has room for it. *)
UpdateSent ==
    /\ listener = "dispatch" /\ snapshot # <<>>
    /\ LET s == Head(snapshot)[1]
       IN  told' = IF Head(snapshot)[2] = starts[s] THEN [told EXCEPT ![s] = @ \cup {update}] ELSE told
    /\ snapshot' = Tail(snapshot)
    /\ UNCHANGED <<callVars, listener, started, stopped, update, consumers, firstUpdate>>

(* Mutant: the dispatch does not watch the contexts of the consumers. *)
NotWatched(s, i) == FALSE

(* c.Ctx.Done() *)
ConsumerContextDone(s, i) == ContextDone(s, i)

(* The consumer is closed, so the one registered under its ID is deleted. *)
ConsumerClosed ==
    /\ listener = "dispatch" /\ snapshot # <<>>
    /\ LET s == Head(snapshot)[1]
       IN  /\ ConsumerContextDone(s, Head(snapshot)[2])
           /\ consumers' = [consumers EXCEPT ![s] = 0]
    /\ snapshot' = RestOfSnapshot
    /\ UNCHANGED <<callVars, listener, started, stopped, update, firstUpdate, told>>

(* bl.ctx.Done() *)
DispatchAbandoned ==
    /\ listener = "dispatch" /\ snapshot # <<>>
    /\ stopped
    /\ snapshot' = RestOfSnapshot
    /\ UNCHANGED <<callVars, listener, started, stopped, update, consumers, firstUpdate, told>>

DispatchEnds ==
    /\ listener = "dispatch" /\ snapshot = <<>>
    /\ listener' = "poll"
    /\ UNCHANGED <<callVars, started, stopped, snapshot, update, consumers, firstUpdate, told>>

(* A signal cancels the context of the connector. *)
Stop ==
    /\ ~stopped
    /\ stopped' = TRUE
    /\ UNCHANGED <<callVars, listener, started, snapshot, update, consumers, firstUpdate, told>>

-----------------------------------------------------------------------------
(* The calls and the listen loop next to each other. *)

(* The connector's side of FFTM's call for a stream *)
CallProceeds(s) ==
    \/ StartRefused(s) \/ StartAccepted(s) \/ HeightObtained(s)
    \/ StreamRegistered(s) \/ ConsumerAdded(s)
    \/ StoppedChecks(s) \/ StreamDeleted(s) \/ StoppedReturns(s)

FFTM(s) == CallStart(s) \/ CallStopped(s) \/ CancelContext(s)

ListenLoop ==
    \/ HeightEstablished \/ MarkStarted \/ ListenLoopExits
    \/ ConsumerClosed \/ DispatchAbandoned \/ DispatchEnds

Next ==
    \/ \E s \in Stream : CallProceeds(s) \/ StartFails(s) \/ StreamLoopExits(s) \/ FFTM(s)
    \/ ListenLoop \/ PollDispatches \/ UpdateSent \/ Stop

Spec == Init /\ [][Next]_vars

(* FFTM drains the channel of a stream until it cancels its context. *)
DrainedUpdateSent == UpdateSent /\ ~ContextDone(Head(snapshot)[1], Head(snapshot)[2])

(* Goroutines are scheduled, a mutex that is free is handed to who waits for it, and the node *)
(* answers in the end.  FFTM need not call anything, polls need not find anything, and a call *)
(* that waits need not fail.                                                                  *)
LiveSpec ==
    /\ Spec
    /\ \A s \in Stream : WF_vars(CallProceeds(s)) /\ WF_vars(StreamLoopExits(s))
    /\ WF_vars(ListenLoop) /\ WF_vars(DrainedUpdateSent)
-----------------------------------------------------------------------------
(* Properties. *)

TypeOK ==
    /\ mux \in Stream \cup {NoStream}
    /\ call \in [Stream -> {"none", "start", "waitHeight", "register", "waitStarted",
                            "check", "delete", "waitLoop"}]
    /\ eventStreams \in [Stream -> 0..MaxStarts] /\ starts \in [Stream -> 0..MaxStarts]
    /\ cancelled \in [Stream -> BOOLEAN] /\ running \in [Stream -> BOOLEAN]
    /\ streamLoops \subseteq Stream \X (1..MaxStarts)
    /\ listener \in {"none", "height", "starting", "poll", "dispatch", "done"}
    /\ started \in BOOLEAN /\ stopped \in BOOLEAN
    /\ consumers \in [Stream -> 0..MaxStarts]
    /\ snapshot \in Seq(Stream \X (1..MaxStarts))
    /\ update \in 0..MaxUpdates
    /\ firstUpdate \in [Stream -> Nat]
    /\ told \in [Stream -> SUBSET (1..MaxUpdates)]

(* The updates the newest incarnation of s was to be told by now, and was not *)
Missed(s) ==
    {n \in firstUpdate[s]..update : n \notin told[s]}
        \ (IF <<s, starts[s]>> \in ToSet(snapshot) THEN {update} ELSE {})

(* "To feed new block information to any registered consumers" (blocklistener.go:125): from its *)
(* registration until its context is done, a stream is told every update, whoever else is slow, *)
(* is closed, or joins in the middle of a dispatch.                                             *)
RunningIsToldEverything ==
    \A s \in Stream : running[s] /\ ~cancelled[s] /\ ~stopped => Missed(s) = {}

(* The same for streams that were never started before. *)
FirstRunIsToldEverything ==
    \A s \in Stream : running[s] /\ ~cancelled[s] /\ ~stopped /\ starts[s] = 1 => Missed(s) = {}

(* Two loops of one stream would push every event twice: a stream is removed from the registry *)
(* before its loop has ended (event_actions.go:88), and must still not be started next to it.  *)
OneLoopPerStream ==
    \A s \in Stream : \A l, m \in streamLoops : l[1] = s /\ m[1] = s => l = m

(* EventStreamStart holds c.mux while it waits for the block listener, and EventStreamStopped *)
(* waits for the stream loop: every call returns, also when the connector stops before the    *)
(* listener was ever started.                                                                 *)
CallsReturn == \A s \in Stream : (call[s] # "none") ~> (call[s] = "none")

(* A dispatch blocks the listen loop, and the chain with it, on each consumer in turn: it ends, *)
(* although FFTM does not drain the channel of a stream it has cancelled.                       *)
DispatchesEnd == (listener = "dispatch") ~> (listener # "dispatch")
=============================================================================
