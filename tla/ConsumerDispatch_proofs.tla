----------------------- MODULE ConsumerDispatch_proofs -----------------------
(***************************************************************************)
(* There is never more than one loop for a stream, and a stream that runs  *)
(* for the first time is told every update, however FFTM's calls for any   *)
(* number of streams and the listen loop interleave.                       *)
(***************************************************************************)
EXTENDS ConsumerDispatch, SequenceTheorems, FiniteSetTheorems, TLAPS

(* The part of the types the argument needs. *)
CallTypeOK ==
    /\ DOMAIN call = Stream /\ DOMAIN eventStreams = Stream
    /\ starts \in [Stream -> Nat]
    /\ \A s \in Stream : call[s] \in {"waitHeight", "register"} => starts[s] # 0

(* A loop belongs to the newest incarnation of its stream, and the stream is in the registry *)
(* until an EventStreamStopped waits for that loop.  No EventStreamStart is past its check.  *)
LoopsKnown ==
    \A l \in streamLoops :
        \E s \in Stream :
            /\ l = <<s, starts[s]>>
            /\ eventStreams[s] # 0 \/ call[s] = "waitLoop"
            /\ call[s] \notin {"waitHeight", "register"}

LoopInv == CallTypeOK /\ LoopsKnown

LEMMA InitLoopInv == Init => LoopInv
<1> QED
  BY DEF Init, LoopInv, CallTypeOK, LoopsKnown

LEMMA OneLoop == LoopInv => OneLoopPerStream
<1> SUFFICES ASSUME LoopsKnown, NEW s \in Stream, NEW l \in streamLoops, NEW m \in streamLoops,
                    l[1] = s, m[1] = s
             PROVE  l = m
  BY DEF LoopInv, OneLoopPerStream
<1>1. l = <<s, starts[s]>>
  BY DEF LoopsKnown
<1>2. m = <<s, starts[s]>>
  BY DEF LoopsKnown
<1> QED
  BY <1>1, <1>2

(* A step that changes the call of one stream, and nothing else the invariant is about. *)
LEMMA OnlyCallChanges ==
    ASSUME LoopInv, NEW s \in Stream, NEW next,
           call' = [call EXCEPT ![s] = next],
           UNCHANGED <<eventStreams, starts, streamLoops>>,
           next \in {"waitHeight", "register"} => call[s] \in {"waitHeight", "register"},
           eventStreams[s] # 0 \/ call[s] # "waitLoop" \/ next = "waitLoop"
    PROVE  LoopInv'
<1>1. CallTypeOK'
  BY DEF LoopInv, CallTypeOK
<1>2. LoopsKnown'
  <2> SUFFICES ASSUME NEW l \in streamLoops
               PROVE  \E t \in Stream :
                        /\ l = <<t, starts[t]>>
                        /\ eventStreams[t] # 0 \/ call'[t] = "waitLoop"
                        /\ call'[t] \notin {"waitHeight", "register"}
    BY DEF LoopsKnown
  <2>1. PICK t \in Stream : /\ l = <<t, starts[t]>>
                            /\ eventStreams[t] # 0 \/ call[t] = "waitLoop"
                            /\ call[t] \notin {"waitHeight", "register"}
    BY DEF LoopInv, LoopsKnown
  <2>2. eventStreams[t] # 0 \/ call'[t] = "waitLoop"
    BY <2>1 DEF LoopInv, CallTypeOK
  <2>3. call'[t] \notin {"waitHeight", "register"}
    BY <2>1 DEF LoopInv, CallTypeOK
  <2> QED
    BY <2>1, <2>2, <2>3
<1> QED
  BY <1>1, <1>2 DEF LoopInv

LEMMA StartAcceptedKeepsLoopInv ==
    ASSUME LoopInv, NEW s \in Stream, StartAccepted(s)
    PROVE  LoopInv'
<1>1. PICK next \in {"waitHeight", "register"} : call' = [call EXCEPT ![s] = next]
  BY DEF StartAccepted
<1>2. /\ call[s] = "start" /\ eventStreams[s] = 0
      /\ starts' = [starts EXCEPT ![s] = @ + 1]
      /\ UNCHANGED <<eventStreams, streamLoops>>
  BY DEF StartAccepted, AlreadyStarted
<1>3. CallTypeOK'
  <2>1. starts' \in [Stream -> Nat] /\ starts'[s] # 0
    BY <1>2 DEF LoopInv, CallTypeOK
  <2> QED
    BY <1>1, <1>2, <2>1 DEF LoopInv, CallTypeOK
<1>4. LoopsKnown'
  <2> SUFFICES ASSUME NEW l \in streamLoops
               PROVE  \E t \in Stream :
                        /\ l = <<t, starts'[t]>>
                        /\ eventStreams[t] # 0 \/ call'[t] = "waitLoop"
                        /\ call'[t] \notin {"waitHeight", "register"}
    BY <1>2 DEF LoopsKnown
  <2>1. PICK t \in Stream : /\ l = <<t, starts[t]>>
                            /\ eventStreams[t] # 0 \/ call[t] = "waitLoop"
                            /\ call[t] \notin {"waitHeight", "register"}
    BY DEF LoopInv, LoopsKnown
  <2>2. t # s
    BY <1>2, <2>1
  <2>3. starts'[t] = starts[t] /\ call'[t] = call[t]
    BY <1>1, <1>2, <2>2 DEF LoopInv, CallTypeOK
  <2> QED
    BY <2>1, <2>3
<1> QED
  BY <1>3, <1>4 DEF LoopInv

LEMMA StreamRegisteredKeepsLoopInv ==
    ASSUME LoopInv, NEW s \in Stream, StreamRegistered(s)
    PROVE  LoopInv'
<1>1. /\ call[s] = "register" /\ call' = [call EXCEPT ![s] = "waitStarted"]
      /\ eventStreams' = [eventStreams EXCEPT ![s] = starts[s]]
      /\ streamLoops' = streamLoops \cup {<<s, starts[s]>>}
      /\ UNCHANGED starts
  BY DEF StreamRegistered
<1>2. starts[s] # 0
  BY <1>1 DEF LoopInv, CallTypeOK
<1>3. CallTypeOK'
  BY <1>1 DEF LoopInv, CallTypeOK
<1>4. eventStreams'[s] # 0 /\ call'[s] = "waitStarted"
  BY <1>1, <1>2 DEF LoopInv, CallTypeOK
<1>5. LoopsKnown'
  <2> SUFFICES ASSUME NEW l \in streamLoops'
               PROVE  \E t \in Stream :
                        /\ l = <<t, starts[t]>>
                        /\ eventStreams'[t] # 0 \/ call'[t] = "waitLoop"
                        /\ call'[t] \notin {"waitHeight", "register"}
    BY <1>1 DEF LoopsKnown
  <2>1. CASE l = <<s, starts[s]>>
    BY <1>4, <2>1
  <2>2. CASE l \in streamLoops
    <3>1. PICK t \in Stream : /\ l = <<t, starts[t]>>
                              /\ eventStreams[t] # 0 \/ call[t] = "waitLoop"
                              /\ call[t] \notin {"waitHeight", "register"}
      BY <2>2 DEF LoopInv, LoopsKnown
    <3>2. t # s
      BY <1>1, <3>1
    <3>3. eventStreams'[t] = eventStreams[t] /\ call'[t] = call[t]
      BY <1>1, <3>2 DEF LoopInv, CallTypeOK
    <3> QED
      BY <3>1, <3>3
  <2> QED
    BY <1>1, <2>1, <2>2
<1> QED
  BY <1>3, <1>5 DEF LoopInv

LEMMA StreamDeletedKeepsLoopInv ==
    ASSUME LoopInv, NEW s \in Stream, StreamDeleted(s)
    PROVE  LoopInv'
<1>1. /\ call' = [call EXCEPT ![s] = "waitLoop"]
      /\ eventStreams' = [eventStreams EXCEPT ![s] = 0]
      /\ UNCHANGED <<streamLoops, starts>>
  BY DEF StreamDeleted
<1>2. CallTypeOK'
  BY <1>1 DEF LoopInv, CallTypeOK
<1>3. LoopsKnown'
  <2> SUFFICES ASSUME NEW l \in streamLoops
               PROVE  \E t \in Stream :
                        /\ l = <<t, starts[t]>>
                        /\ eventStreams'[t] # 0 \/ call'[t] = "waitLoop"
                        /\ call'[t] \notin {"waitHeight", "register"}
    BY <1>1 DEF LoopsKnown
  <2>1. PICK t \in Stream : /\ l = <<t, starts[t]>>
                            /\ eventStreams[t] # 0 \/ call[t] = "waitLoop"
                            /\ call[t] \notin {"waitHeight", "register"}
    BY DEF LoopInv, LoopsKnown
  <2>2. CASE t = s
    BY <1>1, <2>1, <2>2 DEF LoopInv, CallTypeOK
  <2>3. CASE t # s
    BY <1>1, <2>1, <2>3 DEF LoopInv, CallTypeOK
  <2> QED
    BY <2>2, <2>3
<1> QED
  BY <1>2, <1>3 DEF LoopInv

LEMMA StoppedReturnsKeepsLoopInv ==
    ASSUME LoopInv, NEW s \in Stream, StoppedReturns(s)
    PROVE  LoopInv'
<1>1. /\ <<s, starts[s]>> \notin streamLoops
      /\ call' = [call EXCEPT ![s] = "none"]
      /\ UNCHANGED <<eventStreams, streamLoops, starts>>
  BY DEF StoppedReturns, StreamLoopDone
<1>2. CallTypeOK'
  BY <1>1 DEF LoopInv, CallTypeOK
<1>3. LoopsKnown'
  <2> SUFFICES ASSUME NEW l \in streamLoops
               PROVE  \E t \in Stream :
                        /\ l = <<t, starts[t]>>
                        /\ eventStreams[t] # 0 \/ call'[t] = "waitLoop"
                        /\ call'[t] \notin {"waitHeight", "register"}
    BY <1>1 DEF LoopsKnown
  <2>1. PICK t \in Stream : /\ l = <<t, starts[t]>>
                            /\ eventStreams[t] # 0 \/ call[t] = "waitLoop"
                            /\ call[t] \notin {"waitHeight", "register"}
    BY DEF LoopInv, LoopsKnown
  <2>2. t # s
    BY <1>1, <2>1
  <2> QED
    BY <1>1, <2>1, <2>2 DEF LoopInv, CallTypeOK
<1> QED
  BY <1>2, <1>3 DEF LoopInv

LEMMA StreamLoopExitsKeepsLoopInv ==
    ASSUME LoopInv, NEW s \in Stream, StreamLoopExits(s)
    PROVE  LoopInv'
<1>1. streamLoops' \subseteq streamLoops /\ UNCHANGED <<call, eventStreams, starts>>
  BY DEF StreamLoopExits
<1> QED
  BY <1>1 DEF LoopInv, CallTypeOK, LoopsKnown

LEMMA NextKeepsLoopInv == LoopInv /\ [Next]_vars => LoopInv'
<1> SUFFICES ASSUME LoopInv, [Next]_vars PROVE LoopInv'
  OBVIOUS
<1>1. ASSUME UNCHANGED <<call, eventStreams, starts, streamLoops>> PROVE LoopInv'
  BY <1>1 DEF LoopInv, CallTypeOK, LoopsKnown
<1>2. ASSUME NEW s \in Stream, CallProceeds(s) PROVE LoopInv'
  <2>1. CASE StartRefused(s)
    BY <2>1, OnlyCallChanges DEF StartRefused
  <2>2. CASE StartAccepted(s)
    BY <2>2, StartAcceptedKeepsLoopInv
  <2>3. CASE HeightObtained(s)
    BY <2>3, OnlyCallChanges DEF HeightObtained, listenerVars
  <2>4. CASE StreamRegistered(s)
    BY <2>4, StreamRegisteredKeepsLoopInv
  <2>5. CASE ConsumerAdded(s)
    BY <2>5, OnlyCallChanges DEF ConsumerAdded
  <2>6. CASE StoppedChecks(s)
    <3> DEFINE next == IF eventStreams[s] # 0 /\ cancelled[s] THEN "delete" ELSE "none"
    <3>1. call' = [call EXCEPT ![s] = next] /\ call[s] = "check"
      BY <2>6 DEF StoppedChecks
    <3>2. next \notin {"waitHeight", "register"}
      OBVIOUS
    <3>3. UNCHANGED <<eventStreams, starts, streamLoops>>
      BY <2>6 DEF StoppedChecks
    <3> HIDE DEF next
    <3> QED
      BY <3>1, <3>2, <3>3, OnlyCallChanges
  <2>7. CASE StreamDeleted(s)
    BY <2>7, StreamDeletedKeepsLoopInv
  <2>8. CASE StoppedReturns(s)
    BY <2>8, StoppedReturnsKeepsLoopInv
  <2> QED
    BY <1>2, <2>1, <2>2, <2>3, <2>4, <2>5, <2>6, <2>7, <2>8 DEF CallProceeds
<1>3. ASSUME NEW s \in Stream, StartFails(s) PROVE LoopInv'
  BY <1>3, OnlyCallChanges DEF StartFails
<1>4. ASSUME NEW s \in Stream, StreamLoopExits(s) PROVE LoopInv'
  BY <1>4, StreamLoopExitsKeepsLoopInv
<1>5. ASSUME NEW s \in Stream, FFTM(s) PROVE LoopInv'
  <2>1. CASE CallStart(s)
    BY <2>1, OnlyCallChanges DEF CallStart
  <2>2. CASE CallStopped(s)
    BY <2>2, OnlyCallChanges DEF CallStopped
  <2>3. CASE CancelContext(s)
    BY <2>3, <1>1 DEF CancelContext
  <2> QED
    BY <1>5, <2>1, <2>2, <2>3 DEF FFTM
<1>6. CASE ListenLoop \/ PollDispatches \/ UpdateSent \/ Stop \/ UNCHANGED vars
  <2>1. UNCHANGED callVars
    BY <1>6 DEF ListenLoop, HeightEstablished, MarkStarted, ListenLoopExits, ConsumerClosed,
                DispatchAbandoned, DispatchEnds, PollDispatches, UpdateSent, Stop, vars
  <2> QED
    BY <1>1, <2>1 DEF callVars
<1> QED
  BY <1>2, <1>3, <1>4, <1>5, <1>6 DEF Next

(* EventStreamStart's check of the registry, and EventStreamStopped's wait, are enough: a stream *)
(* is never run by two loops, for any number of streams and restarts.                            *)
THEOREM AtMostOneLoop == Spec => []OneLoopPerStream
<1>1. Init => LoopInv
  BY InitLoopInv
<1>2. LoopInv /\ [Next]_vars => LoopInv'
  BY NextKeepsLoopInv
<1>3. LoopInv => OneLoopPerStream
  BY OneLoop
<1> QED
  BY <1>1, <1>2, <1>3, PTL DEF Spec
-----------------------------------------------------------------------------
(* Sequences. *)

(* The first element of a sequence, and the rest of it *)
LEMMA HeadAndTail ==
    ASSUME NEW S, NEW q \in Seq(S), q # <<>>
    PROVE  /\ Head(q) \in S /\ Tail(q) \in Seq(S)
           /\ \A e \in ToSet(q) : e = Head(q) \/ e \in ToSet(Tail(q))
<1>1. /\ Head(q) \in S /\ Tail(q) \in Seq(S) /\ Len(q) \in Nat /\ Len(q) # 0
      /\ Len(Tail(q)) = Len(q) - 1
      /\ \A i \in 1..Len(Tail(q)) : Tail(q)[i] = q[i + 1]
      /\ Head(q) = q[1]
  BY HeadTailProperties, LenProperties, EmptySeq
<1>2. DOMAIN q = 1..Len(q) /\ DOMAIN Tail(q) = 1..Len(Tail(q))
  BY <1>1, LenProperties
<1>3. ASSUME NEW i \in 1..Len(q) PROVE q[i] = Head(q) \/ q[i] \in ToSet(Tail(q))
  <2>1. CASE i = 1
    BY <1>1, <2>1
  <2>2. CASE i # 1
    <3>1. i - 1 \in 1..Len(Tail(q)) /\ (i - 1) + 1 = i
      BY <1>1, <2>2
    <3>2. Tail(q)[i - 1] = q[i]
      BY <1>1, <3>1
    <3> QED
      BY <1>2, <3>1, <3>2 DEF ToSet
  <2> QED
    BY <2>1, <2>2
<1> QED
  BY <1>1, <1>2, <1>3 DEF ToSet

(* An order of a finite set holds all its elements. *)
LEMMA OrderOfSet ==
    ASSUME NEW S, IsFiniteSet(S), NEW q \in SetToSeqs(S)
    PROVE  q \in Seq(S) /\ ToSet(q) = S
<1> DEFINE n == Cardinality(S)
<1>1. n \in Nat /\ q \in [1..n -> S] /\ \A i, j \in 1..n : i # j => q[i] # q[j]
  BY FS_CardinalityType DEF SetToSeqs
<1>2. q \in Injection(1..n, S)
  BY <1>1 DEF Injection, IsInjective
<1>3. Cardinality(1..n) = n
  <2>1. Cardinality(1..n) = IF 1 > n THEN 0 ELSE n - 1 + 1
    BY <1>1, FS_Interval
  <2> QED
    BY <1>1, <2>1
<1>4. q \in Surjection(1..n, S)
  BY <1>2, <1>3, FS_Injection
<1>5. q \in Seq(S)
  BY <1>1
<1> QED
  BY <1>1, <1>4, <1>5 DEF Surjection, ToSet
-----------------------------------------------------------------------------
(* Types. *)

(* What the types rest on: an incarnation has a number before anything is done for it, and the *)
(* consumers are only told something during a dispatch.                                        *)
CallStages ==
    \A s \in Stream :
        /\ call[s] = "start" => starts[s] < MaxStarts
        /\ call[s] \in {"waitHeight", "register", "waitStarted"} => starts[s] # 0
        /\ running[s] => starts[s] # 0

DispatchStages ==
    /\ listener = "dispatch" => update # 0
    /\ snapshot # <<>> => listener = "dispatch"

TypeInv == TypeOK /\ CallStages /\ DispatchStages

CallTypes ==
    /\ mux \in Stream \cup {NoStream}
    /\ call \in [Stream -> {"none", "start", "waitHeight", "register", "waitStarted",
                            "check", "delete", "waitLoop"}]
    /\ eventStreams \in [Stream -> 0..MaxStarts] /\ starts \in [Stream -> 0..MaxStarts]
    /\ cancelled \in [Stream -> BOOLEAN] /\ running \in [Stream -> BOOLEAN]
    /\ streamLoops \subseteq Stream \X (1..MaxStarts)

ListenerTypes ==
    /\ listener \in {"none", "height", "starting", "poll", "dispatch", "done"}
    /\ started \in BOOLEAN /\ stopped \in BOOLEAN
    /\ snapshot \in Seq(Stream \X (1..MaxStarts))
    /\ update \in 0..MaxUpdates

ConsumerTypes ==
    /\ consumers \in [Stream -> 0..MaxStarts]
    /\ firstUpdate \in [Stream -> Nat]
    /\ told \in [Stream -> SUBSET (1..MaxUpdates)]

LEMMA TypesInParts == TypeOK <=> CallTypes /\ ListenerTypes /\ ConsumerTypes
BY DEF TypeOK, CallTypes, ListenerTypes, ConsumerTypes

LEMMA InitTypeInv == Init => TypeInv
<1> SUFFICES ASSUME Init PROVE TypeInv
  OBVIOUS
<1>1. CallTypes
  BY ConsumerAssumption DEF Init, CallTypes
<1>2. ListenerTypes
  <2>1. snapshot \in Seq(Stream \X (1..MaxStarts))
    BY EmptySeq DEF Init
  <2>2. update \in 0..MaxUpdates
    BY ConsumerAssumption DEF Init
  <2> QED
    BY <2>1, <2>2 DEF Init, ListenerTypes
<1>3. ConsumerTypes
  BY ConsumerAssumption DEF Init, ConsumerTypes
<1>4. CallStages /\ DispatchStages
  BY DEF Init, CallStages, DispatchStages
<1> QED
  BY <1>1, <1>2, <1>3, <1>4, TypesInParts DEF TypeInv

LEMMA CallKeepsTypeInv ==
    ASSUME TypeInv, NEW s \in Stream,
           CallProceeds(s) \/ StartFails(s) \/ StreamLoopExits(s) \/ FFTM(s)
    PROVE  TypeInv'
<1> USE ConsumerAssumption
<1>0. CallTypes /\ ListenerTypes /\ ConsumerTypes /\ CallStages /\ DispatchStages
  BY TypesInParts DEF TypeInv
<1>a. ASSUME CallTypes', ListenerTypes', ConsumerTypes', CallStages', DispatchStages' PROVE TypeInv'
  BY <1>a DEF TypeInv, TypeOK, CallTypes, ListenerTypes, ConsumerTypes
<1>l. ASSUME UNCHANGED listenerVars PROVE ListenerTypes' /\ DispatchStages'
  BY <1>0, <1>l DEF ListenerTypes, DispatchStages, listenerVars
<1>c. ASSUME UNCHANGED <<consumers, firstUpdate, told>> PROVE ConsumerTypes'
  BY <1>0, <1>c DEF ConsumerTypes
<1>s. ASSUME CheckAndStartListenerLoop \/ UNCHANGED listener,
             UNCHANGED <<started, stopped, snapshot, update>>
      PROVE  ListenerTypes' /\ DispatchStages'
  BY <1>0, <1>s DEF ListenerTypes, DispatchStages, CheckAndStartListenerLoop
<1>1. CASE StartRefused(s)
  <2>1. CallTypes' /\ CallStages'
    BY <1>0, <1>1 DEF StartRefused, CallTypes, CallStages
  <2> QED
    BY <2>1, <1>1, <1>a, <1>l, <1>c DEF StartRefused
<1>2. CASE StartAccepted(s)
  <2>1. starts[s] \in 0..MaxStarts /\ starts[s] < MaxStarts
    BY <1>0, <1>2 DEF StartAccepted, CallTypes, CallStages
  <2>2. starts' = [starts EXCEPT ![s] = starts[s] + 1] /\ starts[s] + 1 \in 1..MaxStarts
    BY <1>2, <2>1 DEF StartAccepted
  <2>3. PICK next \in {"waitHeight", "register"} : call' = [call EXCEPT ![s] = next]
    BY <1>2 DEF StartAccepted
  <2>4. CallTypes'
    BY <1>0, <1>2, <2>2, <2>3 DEF StartAccepted, CallTypes
  <2>5. CallStages'
    BY <1>0, <1>2, <2>2, <2>3 DEF StartAccepted, CallTypes, CallStages
  <2>6. ConsumerTypes'
    BY <1>0, <1>2 DEF StartAccepted, ConsumerTypes
  <2> QED
    BY <2>4, <2>5, <2>6, <1>2, <1>a, <1>s DEF StartAccepted
<1>3. CASE HeightObtained(s)
  <2>1. CallTypes' /\ CallStages'
    BY <1>0, <1>3 DEF HeightObtained, CallTypes, CallStages
  <2> QED
    BY <2>1, <1>3, <1>a, <1>l, <1>c DEF HeightObtained
<1>4. CASE StreamRegistered(s)
  <2>1. starts[s] \in 1..MaxStarts
    BY <1>0, <1>4 DEF StreamRegistered, CallTypes, CallStages
  <2>2. CallTypes'
    BY <1>0, <1>4, <2>1 DEF StreamRegistered, CallTypes
  <2>3. CallStages'
    BY <1>0, <1>4, <2>1 DEF StreamRegistered, CallTypes, CallStages
  <2> QED
    BY <2>2, <2>3, <1>4, <1>a, <1>s, <1>c DEF StreamRegistered
<1>5. CASE ConsumerAdded(s)
  <2>1. CallTypes'
    BY <1>0, <1>5 DEF ConsumerAdded, CallTypes
  <2>2. CallStages'
    BY <1>0, <1>5 DEF ConsumerAdded, CallTypes, CallStages
  <2>3. ConsumerTypes'
    BY <1>0, <1>5 DEF ConsumerAdded, CallTypes, ListenerTypes, ConsumerTypes
  <2> QED
    BY <2>1, <2>2, <2>3, <1>5, <1>a, <1>l DEF ConsumerAdded
<1>6. CASE StoppedChecks(s)
  <2>1. PICK next \in {"delete", "none"} : call' = [call EXCEPT ![s] = next]
    BY <1>6 DEF StoppedChecks
  <2>2. CallTypes' /\ CallStages'
    BY <1>0, <1>6, <2>1 DEF StoppedChecks, CallTypes, CallStages
  <2> QED
    BY <2>2, <1>6, <1>a, <1>l, <1>c DEF StoppedChecks
<1>7. CASE StreamDeleted(s)
  <2>1. CallTypes' /\ CallStages'
    BY <1>0, <1>7 DEF StreamDeleted, CallTypes, CallStages
  <2> QED
    BY <2>1, <1>7, <1>a, <1>l, <1>c DEF StreamDeleted
<1>8. CASE StoppedReturns(s)
  <2>1. CallTypes' /\ CallStages'
    BY <1>0, <1>8 DEF StoppedReturns, CallTypes, CallStages
  <2> QED
    BY <2>1, <1>8, <1>a, <1>l, <1>c DEF StoppedReturns
<1>9. CASE StartFails(s)
  <2>1. CallTypes' /\ CallStages'
    BY <1>0, <1>9 DEF StartFails, CallTypes, CallStages
  <2> QED
    BY <2>1, <1>9, <1>a, <1>l, <1>c DEF StartFails
<1>10. CASE StreamLoopExits(s)
  <2>1. CallTypes' /\ CallStages'
    BY <1>0, <1>10 DEF StreamLoopExits, CallTypes, CallStages
  <2> QED
    BY <2>1, <1>10, <1>a, <1>l, <1>c DEF StreamLoopExits
<1>11. CASE CallStart(s)
  <2>1. CallTypes' /\ CallStages'
    BY <1>0, <1>11 DEF CallStart, CallTypes, CallStages
  <2> QED
    BY <2>1, <1>11, <1>a, <1>l, <1>c DEF CallStart
<1>12. CASE CallStopped(s)
  <2>1. CallTypes' /\ CallStages'
    BY <1>0, <1>12 DEF CallStopped, CallTypes, CallStages
  <2> QED
    BY <2>1, <1>12, <1>a, <1>l, <1>c DEF CallStopped
<1>13. CASE CancelContext(s)
  <2>1. CallTypes' /\ CallStages'
    BY <1>0, <1>13 DEF CancelContext, CallTypes, CallStages
  <2> QED
    BY <2>1, <1>13, <1>a, <1>l, <1>c DEF CancelContext
<1> QED
  BY <1>1, <1>2, <1>3, <1>4, <1>5, <1>6, <1>7, <1>8, <1>9, <1>10, <1>11, <1>12, <1>13
  DEF CallProceeds, FFTM

(* The consumers a dispatch begins with *)
LEMMA DispatchOrder ==
    ASSUME TypeInv, PollDispatches
    PROVE  /\ snapshot' \in Seq(Stream \X (1..MaxStarts))
           /\ \A s \in Stream : consumers[s] # 0 => <<s, consumers[s]>> \in ToSet(snapshot')
<1> DEFINE R == {t \in Stream : consumers[t] # 0}
           S == {<<s, consumers[s]>> : s \in R}
<1>1. IsFiniteSet(R)
  BY ConsumerAssumption, FS_Subset
<1>2. IsFiniteSet(S)
  <2> DEFINE f == [s \in R |-> <<s, consumers[s]>>]
  <2>1. f \in Surjection(R, S)
    BY DEF Surjection
  <2> QED
    BY <1>1, <2>1, FS_Surjection
<1>3. snapshot' \in SetToSeqs(S)
  BY DEF PollDispatches, SnapshotConsumers
<1>4. snapshot' \in Seq(S) /\ ToSet(snapshot') = S
  BY <1>2, <1>3, OrderOfSet
<1>5. S \subseteq Stream \X (1..MaxStarts)
  BY TypesInParts DEF TypeInv, ConsumerTypes
<1> QED
  BY <1>4, <1>5, SeqMonotonic

(* The consumer being told, and the consumers after it *)
LEMMA SnapshotParts ==
    ASSUME TypeInv, snapshot # <<>>
    PROVE  /\ Head(snapshot) \in Stream \X (1..MaxStarts)
           /\ Tail(snapshot) \in Seq(Stream \X (1..MaxStarts))
           /\ \A e \in ToSet(snapshot) : e = Head(snapshot) \/ e \in ToSet(Tail(snapshot))
<1>1. snapshot \in Seq(Stream \X (1..MaxStarts))
  BY TypesInParts DEF TypeInv, ListenerTypes
<1> QED
  BY <1>1, HeadAndTail

LEMMA ListenLoopKeepsTypeInv ==
    ASSUME TypeInv, ListenLoop \/ PollDispatches \/ UpdateSent \/ Stop
    PROVE  TypeInv'
<1>0. CallTypes /\ ListenerTypes /\ ConsumerTypes /\ CallStages /\ DispatchStages
  BY TypesInParts DEF TypeInv
<1>1. UNCHANGED callVars
  BY DEF ListenLoop, HeightEstablished, MarkStarted, ListenLoopExits, ConsumerClosed,
         DispatchAbandoned, DispatchEnds, PollDispatches, UpdateSent, Stop
<1>2. CallTypes' /\ CallStages'
  BY <1>0, <1>1 DEF CallTypes, CallStages, callVars
<1>a. ASSUME ListenerTypes', ConsumerTypes', DispatchStages' PROVE TypeInv'
  BY <1>2, <1>a DEF TypeInv, TypeOK, CallTypes, ListenerTypes, ConsumerTypes
<1>c. ASSUME UNCHANGED <<consumers, firstUpdate, told>> PROVE ConsumerTypes'
  BY <1>0, <1>c DEF ConsumerTypes
<1>t. ASSUME listener = "dispatch", snapshot # <<>>, snapshot' = Tail(snapshot),
             UNCHANGED <<listener, started, update>>, stopped' = stopped
      PROVE  ListenerTypes' /\ DispatchStages'
  BY <1>0, <1>t, SnapshotParts DEF ListenerTypes, DispatchStages
<1>3. CASE HeightEstablished \/ MarkStarted \/ ListenLoopExits \/ DispatchEnds \/ Stop
  <2>1. ListenerTypes'
    BY <1>0, <1>3 DEF ListenerTypes, HeightEstablished, MarkStarted, ListenLoopExits, DispatchEnds, Stop
  <2>2. DispatchStages'
    BY <1>0, <1>3 DEF DispatchStages, HeightEstablished, MarkStarted, ListenLoopExits, DispatchEnds, Stop
  <2>3. ConsumerTypes'
    BY <1>3, <1>c DEF HeightEstablished, MarkStarted, ListenLoopExits, DispatchEnds, Stop
  <2> QED
    BY <1>a, <2>1, <2>2, <2>3
<1>4. CASE ConsumerClosed
  <2>1. ListenerTypes' /\ DispatchStages'
    BY <1>4, <1>t DEF ConsumerClosed, RestOfSnapshot
  <2>2. ConsumerTypes'
    <3>1. 0 \in 0..MaxStarts
      BY ConsumerAssumption
    <3> QED
      BY <1>0, <1>4, <3>1 DEF ConsumerTypes, ConsumerClosed
  <2> QED
    BY <1>a, <2>1, <2>2
<1>5. CASE DispatchAbandoned
  <2>1. ListenerTypes' /\ DispatchStages' /\ ConsumerTypes'
    BY <1>5, <1>t, <1>c DEF DispatchAbandoned, RestOfSnapshot
  <2> QED
    BY <1>a, <2>1
<1>6. CASE PollDispatches
  <2>1. update' \in 0..MaxUpdates /\ update' # 0
    BY <1>0, <1>6, ConsumerAssumption DEF PollDispatches, ListenerTypes
  <2>2. ListenerTypes' /\ DispatchStages'
    BY <1>0, <1>6, <2>1, DispatchOrder DEF PollDispatches, ListenerTypes, DispatchStages
  <2> QED
    BY <1>6, <1>a, <1>c, <2>2 DEF PollDispatches
<1>7. CASE UpdateSent
  <2>1. ListenerTypes' /\ DispatchStages'
    BY <1>7, <1>t DEF UpdateSent
  <2>2. update \in 1..MaxUpdates
    BY <1>0, <1>7, ConsumerAssumption DEF UpdateSent, ListenerTypes, DispatchStages
  <2>3. ConsumerTypes'
    BY <1>0, <1>7, <2>2 DEF ConsumerTypes, UpdateSent
  <2> QED
    BY <1>a, <2>1, <2>3
<1> QED
  BY <1>3, <1>4, <1>5, <1>6, <1>7 DEF ListenLoop

LEMMA NextKeepsTypeInv == TypeInv /\ [Next]_vars => TypeInv'
<1> SUFFICES ASSUME TypeInv, [Next]_vars PROVE TypeInv'
  OBVIOUS
<1>1. CASE UNCHANGED vars
  BY <1>1 DEF vars, callVars, listenerVars, TypeInv, TypeOK, CallStages, DispatchStages
<1> QED
  BY <1>1, CallKeepsTypeInv, ListenLoopKeepsTypeInv DEF Next

(* The registry, the calls and the listen loop keep their types; a consumer is only told something *)
(* during a dispatch, and an update always has a number by then.                                  *)
THEOREM TypeCorrect == Spec => []TypeOK
<1>1. Init => TypeInv
  BY InitTypeInv
<1>2. TypeInv /\ [Next]_vars => TypeInv'
  BY NextKeepsTypeInv
<1>3. TypeInv => TypeOK
  BY DEF TypeInv
<1> QED
  BY <1>1, <1>2, <1>3, PTL DEF Spec
-----------------------------------------------------------------------------
(* The first run of a stream. *)

FirstRun(s) == running[s] /\ ~cancelled[s] /\ ~stopped /\ starts[s] = 1

(* A stream in its first run is registered, and was told every update that is not just being   *)
(* dispatched, with the stream still to come.                                                  *)
Told(s) ==
    FirstRun(s) =>
        /\ consumers[s] = 1
        /\ \A n \in firstUpdate[s]..update :
              n \in told[s] \/ (n = update /\ <<s, 1>> \in ToSet(snapshot))

ToldInv == TypeInv /\ \A s \in Stream : Told(s)

LEMMA ToldSuffices == ToldInv => FirstRunIsToldEverything
<1> SUFFICES ASSUME ToldInv, NEW s \in Stream, FirstRun(s) PROVE Missed(s) = {}
  BY DEF FirstRunIsToldEverything, FirstRun
<1> QED
  BY DEF ToldInv, Told, FirstRun, Missed

(* A call for one stream leaves what the others were told alone. *)
LEMMA CallKeepsTold ==
    ASSUME ToldInv, NEW s \in Stream,
           CallProceeds(s) \/ StartFails(s) \/ StreamLoopExits(s) \/ FFTM(s),
           NEW t \in Stream
    PROVE  Told(t)'
<1>1. TypeInv /\ Told(t) /\ CallTypes /\ ListenerTypes /\ ConsumerTypes /\ CallStages
  BY TypesInParts DEF ToldInv, TypeInv
<1>2. ASSUME UNCHANGED <<starts, cancelled, running, listenerVars, consumers, firstUpdate, told>>
      PROVE  Told(t)'
  BY <1>1, <1>2 DEF Told, FirstRun, listenerVars
<1>3. CASE StartRefused(s) \/ HeightObtained(s) \/ StartFails(s) \/ StreamLoopExits(s)
           \/ StoppedChecks(s) \/ StreamDeleted(s) \/ CallStart(s) \/ CallStopped(s)
  BY <1>2, <1>3 DEF StartRefused, HeightObtained, StartFails, StreamLoopExits, StoppedChecks,
                    StreamDeleted, CallStart, CallStopped
<1>4. CASE StartAccepted(s)
  <2>1. /\ starts' = [starts EXCEPT ![s] = @ + 1]
        /\ cancelled' = [cancelled EXCEPT ![s] = FALSE]
        /\ told' = [told EXCEPT ![s] = {}]
        /\ UNCHANGED <<running, stopped, snapshot, update, consumers, firstUpdate>>
    BY <1>4 DEF StartAccepted
  <2>2. CASE t = s
    <3>1. starts'[t] = 1 => starts[t] = 0
      BY <1>1, <2>1, <2>2 DEF CallTypes
    <3>2. ~FirstRun(t)'
      BY <1>1, <2>1, <3>1 DEF FirstRun, CallStages
    <3> QED
      BY <3>2 DEF Told
  <2>3. CASE t # s
    BY <1>1, <2>1, <2>3 DEF Told, FirstRun, CallTypes, ConsumerTypes
  <2> QED
    BY <2>2, <2>3
<1>5. CASE StreamRegistered(s)
  BY <1>1, <1>5 DEF StreamRegistered, Told, FirstRun
<1>6. CASE ConsumerAdded(s)
  <2>1. /\ consumers' = [consumers EXCEPT ![s] = starts[s]]
        /\ firstUpdate' = [firstUpdate EXCEPT ![s] = update + 1]
        /\ running' = [running EXCEPT ![s] = TRUE]
        /\ UNCHANGED <<starts, cancelled, told, stopped, snapshot, update>>
    BY <1>6 DEF ConsumerAdded, listenerVars
  <2>2. CASE t = s
    <3>1. firstUpdate'[t]..update' = {}
      BY <1>1, <2>1, <2>2 DEF ListenerTypes, ConsumerTypes
    <3> QED
      BY <1>1, <2>1, <2>2, <3>1 DEF Told, FirstRun, ConsumerTypes
  <2>3. CASE t # s
    BY <1>1, <2>1, <2>3 DEF Told, FirstRun, CallTypes, ConsumerTypes
  <2> QED
    BY <2>2, <2>3
<1>7. CASE StoppedReturns(s)
  BY <1>1, <1>7 DEF StoppedReturns, Told, FirstRun, CallTypes, listenerVars
<1>8. CASE CancelContext(s)
  BY <1>1, <1>8 DEF CancelContext, Told, FirstRun, CallTypes, listenerVars
<1> QED
  BY <1>3, <1>4, <1>5, <1>6, <1>7, <1>8 DEF CallProceeds, FFTM

(* Of the consumers of a dispatch only the first is told or closed, and one whose context is *)
(* not done is not closed.                                                                   *)
LEMMA ListenLoopKeepsTold ==
    ASSUME ToldInv, ListenLoop \/ PollDispatches \/ UpdateSent \/ Stop, NEW t \in Stream
    PROVE  Told(t)'
<1>1. TypeInv /\ Told(t) /\ CallTypes /\ ListenerTypes /\ ConsumerTypes /\ DispatchStages
  BY TypesInParts DEF ToldInv, TypeInv
<1>2. UNCHANGED <<starts, cancelled, running, firstUpdate>>
  BY DEF ListenLoop, HeightEstablished, MarkStarted, ListenLoopExits, ConsumerClosed, callVars,
         DispatchAbandoned, DispatchEnds, PollDispatches, UpdateSent, Stop
<1>3. CASE HeightEstablished \/ MarkStarted \/ ListenLoopExits \/ DispatchEnds
  BY <1>1, <1>2, <1>3 DEF HeightEstablished, MarkStarted, ListenLoopExits, DispatchEnds, Told, FirstRun
<1>4. CASE Stop
  BY <1>4 DEF Stop, Told, FirstRun
<1>5. CASE ConsumerClosed
  <2> SUFFICES ASSUME FirstRun(t)'
               PROVE  /\ consumers'[t] = 1
                      /\ \A n \in firstUpdate'[t]..update' :
                            n \in told'[t] \/ (n = update' /\ <<t, 1>> \in ToSet(snapshot'))
    BY DEF Told
  <2>1. /\ snapshot # <<>> /\ snapshot' = Tail(snapshot)
        /\ ContextDone(Head(snapshot)[1], Head(snapshot)[2])
        /\ consumers' = [consumers EXCEPT ![Head(snapshot)[1]] = 0]
        /\ UNCHANGED <<stopped, update, told>>
    BY <1>5 DEF ConsumerClosed, RestOfSnapshot, ConsumerContextDone
  <2>2. FirstRun(t)
    BY <1>2, <2>1 DEF FirstRun
  <2>3. Head(snapshot)[1] # t
    BY <1>1, <2>1, <2>2, SnapshotParts DEF FirstRun, ContextDone
  <2>4. <<t, 1>> \in ToSet(snapshot) => <<t, 1>> \in ToSet(Tail(snapshot))
    BY <1>1, <2>1, <2>3, SnapshotParts
  <2> QED
    BY <1>1, <1>2, <2>1, <2>2, <2>3, <2>4 DEF Told, ConsumerTypes
<1>6. CASE DispatchAbandoned
  BY <1>6 DEF DispatchAbandoned, Told, FirstRun
<1>7. CASE PollDispatches
  <2> SUFFICES ASSUME FirstRun(t)'
               PROVE  /\ consumers'[t] = 1
                      /\ \A n \in firstUpdate'[t]..update' :
                            n \in told'[t] \/ (n = update' /\ <<t, 1>> \in ToSet(snapshot'))
    BY DEF Told
  <2>1. update' = update + 1 /\ listener = "poll" /\ UNCHANGED <<stopped, consumers, told>>
    BY <1>7 DEF PollDispatches
  <2>2. FirstRun(t) /\ snapshot = <<>>
    BY <1>1, <1>2, <2>1 DEF FirstRun, DispatchStages
  <2>3. consumers[t] = 1 /\ \A n \in firstUpdate[t]..update : n \in told[t]
    <3>1. \A e : e \notin ToSet(snapshot)
      BY <2>2 DEF ToSet
    <3> QED
      BY <1>1, <2>2, <3>1 DEF Told
  <2>4. <<t, 1>> \in ToSet(snapshot')
    BY <1>1, <1>7, <2>3, DispatchOrder
  <2>5. ASSUME NEW n \in firstUpdate[t]..(update + 1), n # update + 1 PROVE n \in told[t]
    <3>1. n \in firstUpdate[t]..update
      BY <1>1, <2>5 DEF ListenerTypes, ConsumerTypes
    <3> QED
      BY <2>3, <3>1
  <2> QED
    BY <1>2, <2>1, <2>3, <2>4, <2>5
<1>8. CASE UpdateSent
  <2> SUFFICES ASSUME FirstRun(t)'
               PROVE  /\ consumers'[t] = 1
                      /\ \A n \in firstUpdate'[t]..update' :
                            n \in told'[t] \/ (n = update' /\ <<t, 1>> \in ToSet(snapshot'))
    BY DEF Told
  <2> DEFINE s == Head(snapshot)[1]
  <2>1. /\ snapshot # <<>> /\ snapshot' = Tail(snapshot)
        /\ told' = IF Head(snapshot)[2] = starts[s] THEN [told EXCEPT ![s] = @ \cup {update}] ELSE told
        /\ UNCHANGED <<stopped, update, consumers>>
    BY <1>8 DEF UpdateSent
  <2>2. FirstRun(t)
    BY <1>2, <2>1 DEF FirstRun
  <2>3. told[t] \subseteq told'[t]
    BY <1>1, <2>1 DEF ConsumerTypes
  <2>4. <<t, 1>> \in ToSet(snapshot) => update \in told'[t] \/ <<t, 1>> \in ToSet(Tail(snapshot))
    <3>1. CASE Head(snapshot) = <<t, 1>>
      BY <1>1, <2>1, <2>2, <3>1 DEF FirstRun, ConsumerTypes
    <3>2. CASE Head(snapshot) # <<t, 1>>
      BY <1>1, <2>1, <3>2, SnapshotParts
    <3> QED
      BY <3>1, <3>2
  <2> QED
    BY <1>1, <1>2, <2>1, <2>2, <2>3, <2>4 DEF Told
<1> QED
  BY <1>3, <1>4, <1>5, <1>6, <1>7, <1>8 DEF ListenLoop

LEMMA NextKeepsToldInv == ToldInv /\ [Next]_vars => ToldInv'
<1> SUFFICES ASSUME ToldInv, [Next]_vars PROVE ToldInv'
  OBVIOUS
<1>1. TypeInv'
  BY NextKeepsTypeInv DEF ToldInv
<1>2. ASSUME NEW t \in Stream PROVE Told(t)'
  <2>1. CASE UNCHANGED vars
    BY <2>1 DEF ToldInv, Told, FirstRun, vars, callVars, listenerVars
  <2> QED
    BY <2>1, CallKeepsTold, ListenLoopKeepsTold DEF Next
<1> QED
  BY <1>1, <1>2 DEF ToldInv

(* A stream that runs for the first time is told every update from its registration on, however *)
(* many other streams come, go or are slow: a dispatch never passes a registered consumer by.   *)
THEOREM FirstRunIsAlwaysTold == Spec => []FirstRunIsToldEverything
<1>1. Init => ToldInv
  BY InitTypeInv DEF Init, ToldInv, Told, FirstRun
<1>2. ToldInv /\ [Next]_vars => ToldInv'
  BY NextKeepsToldInv
<1>3. ToldInv => FirstRunIsToldEverything
  BY ToldSuffices
<1> QED
  BY <1>1, <1>2, <1>3, PTL DEF Spec
=============================================================================
