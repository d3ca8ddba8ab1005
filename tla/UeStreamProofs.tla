--------------------------- MODULE UeStreamProofs ---------------------------
(***************************************************************************)
(* Proofs about UeStream, for any number of chunks and whether or not the  *)
(* runtime may stall or a spawn fail.                                      *)
(*                                                                         *)
(* The lemmas on the stream are those of TextStreamProofs, about the       *)
(* instance TS that UeStream is made of.                                   *)
(***************************************************************************)
EXTENDS UeStream, FiniteSetTheorems, SequenceTheorems, TLAPS

-----------------------------------------------------------------------------
(* A step of the worker, the host or the runtime is one of TextStream.     *)

\* The actions that leave the stream alone.
Aside ==
    \/ StartCall \/ CheckFirst \/ BuildSucceeds \/ BuildFails \/ InputsFail
    \/ CheckCancel \/ PollTimesOut \/ EmitToken \/ EmitError \/ DropSession \/ EmitDone
    \/ StreamCancel \/ StreamFree \/ StreamFreeReturns

LEMMA AsideKeepsStream == Aside \/ UNCHANGED vars => UNCHANGED streamVars
BY DEF Aside, StartCall, StartInvalid, SpawnThread, SpawnFails, CheckFirst, BuildSucceeds,
   BuildFails, InputsFail, CheckCancel, PollTimesOut, EmitToken, EmitError, DropSession,
   EmitDone, StreamCancel, StreamFree, StreamFreeReturns, vars

LEMMA StreamStep == [Next]_vars => [TS!Next]_(TS!vars)
<1> SUFFICES ASSUME [Next]_vars PROVE [TS!Next]_(TS!vars)
  OBVIOUS
<1>1. CASE Aside \/ UNCHANGED vars
  BY <1>1, AsideKeepsStream
     DEF streamVars, TS!vars, TS!consumerVars, TS!nativeVars
<1>2. CASE CallStart \/ StartReturns \/ StartFails
  BY <1>2 DEF CallStart, StartReturns, StartFails, TS!Next
<1>3. CASE PollChunk \/ PollFinal \/ PollError
  BY <1>3 DEF PollChunk, PollFinal, PollError, TS!Next
<1>4. CASE BeginDrop \/ ContinueDrop
  BY <1>4 DEF BeginDrop, ContinueDrop, TS!Next
<1>5. CASE Runtime \/ RuntimeStalls
  BY <1>5 DEF Runtime, RuntimeStalls, TS!Next
<1> QED
  BY <1>1, <1>2, <1>3, <1>4, <1>5 DEF Next, WorkerStep, Aside, Finished

-----------------------------------------------------------------------------
(* The stream.                                                             *)

Shapes == {<<>>, <<"Chunk">>, <<"Chunk", "Final">>, <<"Final">>, <<"Error">>}

\* What the head and the tail of the events of one chunk can be.
LEMMA ShapeCases ==
    ASSUME NEW p \in Shapes, p # <<>>
    PROVE  /\ Head(p) \in TS!StreamEvents
           /\ Tail(p) \in Shapes
           /\ Head(p) \in TS!TerminalEvents => Tail(p) = <<>> /\ p # <<"Chunk">>
           /\ Tail(p) # <<>> => p # <<"Chunk">>
           /\ Tail(p) # <<"Chunk">>
<1>1. CASE p = <<"Chunk", "Final">>
  <2>1. Head(p) = "Chunk" /\ Tail(p) = <<"Final">>
    BY <1>1
  <2> QED
    BY <1>1, <2>1 DEF Shapes, TS!StreamEvents, TS!TerminalEvents
<1>2. CASE p \in {<<"Chunk">>, <<"Final">>, <<"Error">>}
  <2>1. PICK e \in {"Chunk", "Final", "Error"} : p = <<e>>
    BY <1>2
  <2>2. Head(p) = e /\ Tail(p) = <<>>
    BY <2>1
  <2> QED
    BY <2>1, <2>2 DEF Shapes, TS!StreamEvents, TS!TerminalEvents
<1> QED
  BY <1>1, <1>2 DEF Shapes

LEMMA EventsShape ==
    ASSUME NEW c \in TS!Chunks
    PROVE  /\ TS!Events(c) \in Shapes
           /\ TS!Events(c) # <<>> /\ TS!Events(c) # <<"Chunk">> => c.final \/ c.error
BY DEF TS!Events, Shapes, TS!Chunks

LEMMA StreamTakeType ==
    ASSUME TS!TypeOK, TS!TakeEvent
    PROVE  /\ events' \in Seq(TS!StreamEvents) /\ last' \in TS!StreamEvents /\ terminal' \in BOOLEAN
           /\ Len(events') = Len(events) - 1
           /\ \A i \in 1..Len(events') : events'[i] = events[i + 1]
           /\ Head(events) = events[1] /\ 1 \in 1..Len(events)
BY HeadTailProperties, LenProperties DEF TS!TypeOK, TS!TakeEvent

LEMMA StreamTypeInit == TS!Init => TS!TypeOK
<1>1. <<>> \in Seq(TS!StreamEvents)
  BY EmptySeq
<1>2. 0 \in 0..MaxChunks
  BY ConstantsAssumption DEF ConstantsAssumption
<1> QED
  BY <1>1, <1>2 DEF TS!Init, TS!TypeOK

LEMMA StreamTypeNext == TS!TypeOK /\ [TS!Next]_(TS!vars) => TS!TypeOK'
<1> SUFFICES ASSUME TS!TypeOK, [TS!Next]_(TS!vars) PROVE TS!TypeOK'
  OBVIOUS
<1> USE DEF TS!TypeOK
<1>1. CASE TS!StartStream \/ TS!StartReturns \/ TS!StartFails \/ TS!CallNext \/ TS!DropStream
  BY <1>1 DEF TS!StartStream, TS!StartReturns, TS!StartFails, TS!CallNext, TS!DropStream, TS!nativeVars
<1>2. CASE TS!Poll \/ TS!NextReturns \/ TS!DrainReceive
  BY <1>2, StreamTakeType DEF TS!Poll, TS!NextReturns, TS!DrainReceive, TS!nativeVars
<1>3. CASE TS!DrainTimesOut \/ TS!FreeState
  BY <1>3, EmptySeq DEF TS!DrainTimesOut, TS!FreeState, TS!nativeVars
<1>4. ASSUME NEW c \in TS!Chunks, TS!InvokeCallback(c) PROVE TS!TypeOK'
  BY <1>4, EventsShape, ConstantsAssumption
     DEF TS!InvokeCallback, TS!consumerVars, Shapes, ConstantsAssumption
<1>5. CASE TS!PublishEvent
  <2>1. pending \in Shapes /\ pending # <<>>
    BY <1>5 DEF TS!PublishEvent, Shapes
  <2>2. Head(pending) \in TS!StreamEvents /\ Tail(pending) \in Shapes
    BY <2>1, ShapeCases
  <2>3. events' \in Seq(TS!StreamEvents)
    BY <1>5, <2>2, AppendProperties DEF TS!PublishEvent
  <2> QED
    BY <1>5, <2>2, <2>3 DEF TS!PublishEvent, TS!consumerVars, Shapes
<1>6. CASE TS!SendReturns \/ TS!CallbackReturns \/ TS!NativeStalls
  BY <1>6 DEF TS!SendReturns, TS!CallbackReturns, TS!NativeStalls, TS!consumerVars
<1>7. CASE UNCHANGED TS!vars
  BY <1>7 DEF TS!vars, TS!consumerVars, TS!nativeVars
<1> QED
  BY <1>1, <1>2, <1>3, <1>4, <1>5, <1>6, <1>7 DEF TS!Next, TS!DropStep, TS!NativeStep

LEMMA StreamOwnerNext == TS!IInv /\ [TS!Next]_(TS!vars) => TS!OwnerInv'
<1> SUFFICES ASSUME TS!IInv, [TS!Next]_(TS!vars) PROVE TS!OwnerInv'
  OBVIOUS
<1> USE DEF TS!IInv, TS!OwnerInv, TS!FreedOrLeaked
<1>0. TS!EndInv /\ TS!TypeOK
  OBVIOUS
<1>1. CASE TS!StartStream \/ TS!StartReturns \/ TS!StartFails \/ TS!CallNext
  BY <1>1, <1>0 DEF TS!StartStream, TS!StartReturns, TS!StartFails, TS!CallNext, TS!nativeVars
<1>7. CASE TS!DropStream
  <2>1. terminal' \/ cancelled'
    BY <1>0, <1>7 DEF TS!DropStream, TS!TypeOK
  <2> QED
    BY <1>7, <2>1 DEF TS!DropStream, TS!nativeVars
<1>2. CASE TS!Poll \/ TS!NextReturns \/ TS!DrainReceive
  BY <1>2 DEF TS!Poll, TS!NextReturns, TS!DrainReceive, TS!TakeEvent, TS!nativeVars
<1>3. CASE TS!DrainTimesOut \/ TS!FreeState
  BY <1>3 DEF TS!DrainTimesOut, TS!FreeState, TS!nativeVars
<1>4. ASSUME NEW c \in TS!Chunks, TS!InvokeCallback(c) PROVE TS!OwnerInv'
  BY <1>4 DEF TS!InvokeCallback, TS!consumerVars
<1>5. CASE TS!PublishEvent \/ TS!SendReturns \/ TS!CallbackReturns \/ TS!NativeStalls
  BY <1>5 DEF TS!PublishEvent, TS!SendReturns, TS!CallbackReturns, TS!NativeStalls, TS!consumerVars
<1>6. CASE UNCHANGED TS!vars
  BY <1>6 DEF TS!vars, TS!consumerVars, TS!nativeVars
<1> QED
  BY <1>1, <1>2, <1>3, <1>4, <1>5, <1>6, <1>7 DEF TS!Next, TS!DropStep, TS!NativeStep

\* Taking an event keeps the end last, and an end taken leaves nothing.
LEMMA StreamEndTake ==
    ASSUME TS!TypeOK, TS!EndInv, TS!TakeEvent, UNCHANGED TS!nativeVars
    PROVE  TS!EndInv'
<1>1. \A i \in 1..Len(events') : events'[i] = events[i + 1] /\ i + 1 \in 1..Len(events)
  BY StreamTakeType, LenProperties DEF TS!TypeOK
<1>2. \A i \in 1..Len(events') : events'[i] \in TS!TerminalEvents =>
         i = Len(events') /\ pending = <<>> /\ native = "finished"
  BY <1>1, StreamTakeType, LenProperties DEF TS!EndInv, TS!TypeOK
<1>3. native \notin {"idle", "refused"}
  BY DEF TS!EndInv, TS!TakeEvent
<1>4. TS!TerminalIsLast'
  <2> SUFFICES ASSUME terminal' PROVE events' = <<>> /\ pending = <<>> /\ native = "finished"
    BY DEF TS!TerminalIsLast, TS!nativeVars
  <2>1. ~terminal
    BY DEF TS!EndInv, TS!TerminalIsLast, TS!TakeEvent
  <2>2. events[1] \in TS!TerminalEvents /\ 1 \in 1..Len(events)
    BY <2>1, StreamTakeType DEF TS!TakeEvent
  <2>3. Len(events) = 1 /\ pending = <<>> /\ native = "finished"
    BY <2>2 DEF TS!EndInv
  <2>4. events' = <<>>
    BY <2>3, StreamTakeType, EmptySeq, LenProperties
  <2> QED
    BY <2>3, <2>4
<1> QED
  BY <1>2, <1>3, <1>4 DEF TS!EndInv, TS!nativeVars

LEMMA StreamEndNext == TS!IInv /\ [TS!Next]_(TS!vars) => TS!EndInv'
<1> SUFFICES ASSUME TS!IInv, [TS!Next]_(TS!vars) PROVE TS!EndInv'
  OBVIOUS
<1>0. TS!TypeOK /\ TS!OwnerInv /\ TS!EndInv
  BY DEF TS!IInv
<1>1. CASE TS!StartStream
  BY <1>0, <1>1 DEF TS!StartStream, TS!OwnerInv, TS!EndInv, TS!TerminalIsLast, TS!TypeOK
<1>2. CASE TS!StartReturns \/ TS!StartFails \/ TS!CallNext \/ TS!DropStream
  BY <1>0, <1>2 DEF TS!StartReturns, TS!StartFails, TS!CallNext, TS!DropStream, TS!nativeVars, TS!EndInv,
     TS!TerminalIsLast
<1>3. CASE TS!Poll \/ TS!NextReturns \/ TS!DrainReceive
  BY <1>0, <1>3, StreamEndTake DEF TS!Poll, TS!NextReturns, TS!DrainReceive
<1>4. CASE TS!DrainTimesOut \/ TS!FreeState
  BY <1>0, <1>4 DEF TS!DrainTimesOut, TS!FreeState, TS!nativeVars, TS!EndInv, TS!TerminalIsLast
<1>5. ASSUME NEW c \in TS!Chunks, TS!InvokeCallback(c) PROVE TS!EndInv'
  BY <1>0, <1>5, EventsShape DEF TS!InvokeCallback, TS!consumerVars, TS!EndInv, TS!TerminalIsLast
<1>6. CASE TS!PublishEvent
  <2>1. pending \in Shapes /\ pending # <<>> /\ callback = "running"
    BY <1>0, <1>6 DEF TS!PublishEvent, Shapes, TS!TypeOK
  <2>2. /\ Head(pending) \in TS!TerminalEvents => Tail(pending) = <<>> /\ native = "finished"
        /\ Tail(pending) # <<>> => native = "finished"
    BY <1>0, <2>1, ShapeCases DEF TS!EndInv
  <2>3. \A i \in 1..Len(events) : events[i] \notin TS!TerminalEvents
    BY <1>0, <2>1 DEF TS!EndInv
  <2>4. ~terminal
    BY <1>0, <2>1 DEF TS!EndInv, TS!TerminalIsLast
  <2>5. native \notin {"idle", "refused"}
    BY <1>0, <2>1 DEF TS!EndInv
  <2>6. \A i \in 1..Len(events') : events'[i] \in TS!TerminalEvents =>
           i = Len(events') /\ Tail(pending) = <<>> /\ native = "finished"
    <3>1. CASE events' = events
      BY <2>3, <3>1
    <3>2. CASE events' = Append(events, Head(pending))
      <4>1. Head(pending) \in TS!StreamEvents
        BY <2>1, ShapeCases
      <4> QED
        BY <1>0, <2>2, <2>3, <3>2, <4>1, AppendProperties, LenProperties DEF TS!TypeOK
    <3> QED
      BY <1>6, <3>1, <3>2 DEF TS!PublishEvent
  <2> QED
    BY <1>6, <2>2, <2>4, <2>5, <2>6 DEF TS!PublishEvent, TS!EndInv, TS!TerminalIsLast, TS!consumerVars
<1>7. CASE TS!SendReturns \/ TS!CallbackReturns \/ TS!NativeStalls
  BY <1>0, <1>7 DEF TS!SendReturns, TS!CallbackReturns, TS!NativeStalls, TS!consumerVars, TS!EndInv,
     TS!TerminalIsLast
<1>8. CASE UNCHANGED TS!vars
  BY <1>0, <1>8 DEF TS!vars, TS!consumerVars, TS!nativeVars, TS!EndInv, TS!TerminalIsLast
<1> QED
  BY <1>1, <1>2, <1>3, <1>4, <1>5, <1>6, <1>7, <1>8 DEF TS!Next, TS!DropStep, TS!NativeStep

LEMMA StreamInit == TS!Init => TS!IInv
BY StreamTypeInit DEF TS!IInv, TS!Init, TS!OwnerInv, TS!EndInv, TS!TerminalIsLast, TS!FreedOrLeaked

LEMMA StreamNext == TS!IInv /\ [Next]_vars => TS!IInv'
<1> SUFFICES ASSUME TS!IInv, [Next]_vars PROVE TS!IInv'
  OBVIOUS
<1>1. [TS!Next]_(TS!vars)
  BY StreamStep
<1> QED
  BY <1>1, StreamTypeNext, StreamOwnerNext, StreamEndNext DEF TS!IInv

-----------------------------------------------------------------------------
(* What the steps do to the callbacks and the channel.                     *)

Callbacks == {"token", "error", "done"}

LEMMA EmitAppends ==
    ASSUME TypeOK, NEW e \in Callbacks, Emit(e)
    PROVE  /\ trace' \in Seq(Callbacks)
           /\ Len(trace) \in Nat /\ Len(trace') = Len(trace) + 1
           /\ \A i \in 1..Len(trace) : trace'[i] = trace[i]
           /\ trace'[Len(trace) + 1] = e
BY AppendProperties, LenProperties DEF TypeOK, Emit, Callbacks

LEMMA LengthsAreNat ==
    ASSUME TypeOK
    PROVE  /\ Len(trace) \in Nat /\ Body \in Int /\ (pc # "ended" => Body = Len(trace))
           /\ Len(events) \in Nat /\ ChunksIn \in Int
           /\ events = <<>> => ChunksIn = 0
<1>1. Len(trace) \in Nat /\ Len(events) \in Nat
  BY LenProperties DEF TypeOK, TS!TypeOK
<1>2. events = <<>> => Len(events) = 0
  OBVIOUS
<1> QED
  BY <1>1, <1>2 DEF Body, ChunksIn

\* An event that comes in behind others: they are text.
LEMMA ChannelGets ==
    ASSUME TypeOK, NEW e \in TS!StreamEvents, events' = Append(events, e),
           \A i \in 1..Len(events) : events[i] \notin TS!TerminalEvents
    PROVE  ChunksIn' = ChunksIn + (IF e = "Chunk" THEN 1 ELSE 0)
<1>1. /\ Len(events) \in Nat /\ Len(events') = Len(events) + 1
      /\ events' # <<>> /\ events'[Len(events')] = e
  BY AppendProperties, LenProperties DEF TypeOK, TS!TypeOK
<1>2. ChunksIn = Len(events)
  <2>1. events # <<>> => Len(events) \in 1..Len(events)
    BY <1>1, EmptySeq DEF TypeOK, TS!TypeOK
  <2> QED
    BY <2>1 DEF ChunksIn
<1>3. e \in TS!TerminalEvents <=> e # "Chunk"
  BY DEF TS!StreamEvents, TS!TerminalEvents
<1>4. ChunksIn' = IF e \in TS!TerminalEvents THEN Len(events') - 1 ELSE Len(events')
  BY <1>1 DEF ChunksIn
<1> QED
  BY <1>1, <1>2, <1>3, <1>4

\* An event that is taken: text goes, and an end was the only one.
LEMMA ChannelGives ==
    ASSUME TypeOK, TS!EndInv, TS!TakeEvent
    PROVE  /\ Head(events) = "Chunk" => ChunksIn = ChunksIn' + 1
           /\ Head(events) \in TS!TerminalEvents => ChunksIn = 0
<1>1. /\ Len(events) \in Nat /\ events # <<>> /\ Len(events) >= 1
      /\ Len(events') = Len(events) - 1
      /\ \A i \in 1..Len(events') : events'[i] = events[i + 1]
      /\ Head(events) = events[1] /\ 1 \in 1..Len(events)
      /\ events' \in Seq(TS!StreamEvents)
  BY StreamTakeType, LenProperties DEF TypeOK, TS!TypeOK, TS!TakeEvent
<1>2. CASE Head(events) \in TS!TerminalEvents
  <2>1. Len(events) = 1 /\ Head(events) # "Chunk"
    BY <1>1, <1>2 DEF TS!EndInv, TS!TerminalEvents
  <2> QED
    BY <1>1, <1>2, <2>1 DEF ChunksIn
<1>3. CASE Head(events) \notin TS!TerminalEvents /\ Len(events) = 1
  <2>1. events' = <<>>
    BY <1>1, <1>3, EmptySeq
  <2> QED
    BY <1>1, <1>3, <2>1 DEF ChunksIn
<1>4. CASE Head(events) \notin TS!TerminalEvents /\ Len(events) > 1
  <2>1. events' # <<>> /\ Len(events') \in 1..Len(events') /\ Len(events') + 1 = Len(events)
    BY <1>1, <1>4
  <2>2. events'[Len(events')] = events[Len(events)]
    BY <1>1, <2>1
  <2> QED
    BY <1>1, <1>4, <2>1, <2>2 DEF ChunksIn
<1> QED
  BY <1>1, <1>2, <1>3, <1>4

\* A step of the runtime sends a chunk, sends the end, or sends nothing.
LEMMA RuntimeSends ==
    ASSUME TypeOK, TS!OwnerInv, TS!EndInv, Runtime
    PROVE  /\ UNCHANGED <<stream, terminal, pc, handle, cancel, code, trace, late>>
           /\ sent' = sent \/ sent' = sent + 1
           /\ stream = "none" \/ terminal => sent' = sent
           /\ stream = "none" => events' = events
           /\ stream \in {"starting", "open"} => sent' - sent = ChunksIn' - ChunksIn
<1>1. UNCHANGED <<stream, terminal, pc, handle, cancel, code, trace, late>>
  BY DEF Runtime, TS!NativeStep, TS!InvokeCallback, TS!PublishEvent, TS!SendReturns,
     TS!CallbackReturns, TS!consumerVars, hostVars
<1>2. sent \in Nat /\ ChunksIn \in Int
  BY LengthsAreNat DEF TypeOK
<1>3. CASE TS!PublishEvent
  <2>1. callback = "running" /\ pending \in Shapes /\ pending # <<>>
    BY <1>3 DEF TS!PublishEvent, TypeOK, TS!TypeOK, Shapes
  <2>2. /\ Head(pending) \in TS!StreamEvents
        /\ events' = IF TS!Receiving THEN Append(events, Head(pending)) ELSE events
        /\ sent' = IF Head(pending) = "Chunk" THEN sent + 1 ELSE sent
    BY <1>3, <2>1, ShapeCases DEF TS!PublishEvent, Runtime
  <2>3. stream # "none" /\ ~terminal /\ \A i \in 1..Len(events) : events[i] \notin TS!TerminalEvents
    BY <2>1 DEF TS!OwnerInv, TS!EndInv, TS!TerminalIsLast
  <2>4. stream \in {"starting", "open"} => events' = Append(events, Head(pending))
    BY <2>2 DEF TS!Receiving
  <2>5. ASSUME stream \in {"starting", "open"}
        PROVE  ChunksIn' = ChunksIn + (IF Head(pending) = "Chunk" THEN 1 ELSE 0)
    BY <2>2, <2>3, <2>4, <2>5, ChannelGets
  <2> QED
    BY <1>1, <1>2, <2>2, <2>3, <2>5
<1>4. CASE TS!SendReturns \/ TS!CallbackReturns \/ \E c \in TS!Chunks : TS!InvokeCallback(c)
  <2>1. ~(callback = "running" /\ pending # <<>>)
    BY <1>4 DEF TS!SendReturns, TS!CallbackReturns, TS!InvokeCallback
  <2>2. sent' = sent /\ events' = events
    BY <1>4, <2>1 DEF Runtime, TS!SendReturns, TS!CallbackReturns, TS!InvokeCallback
  <2>3. ChunksIn' = ChunksIn
    BY <2>2 DEF ChunksIn
  <2> QED
    BY <1>1, <1>2, <2>2, <2>3
<1> QED
  BY <1>3, <1>4 DEF Runtime, TS!NativeStep

-----------------------------------------------------------------------------
(* The types.                                                              *)

LEMMA TypeInit == Init => TypeOK
<1> SUFFICES ASSUME Init PROVE TypeOK
  OBVIOUS
<1>1. TS!TypeOK
  BY StreamTypeInit DEF Init
<1>2. trace \in Seq({"token", "error", "done"})
  BY EmptySeq DEF Init
<1> QED
  BY <1>1, <1>2 DEF Init, TypeOK

LEMMA TypeNext == TypeOK /\ [Next]_vars => TypeOK'
<1> SUFFICES ASSUME TypeOK, [Next]_vars PROVE TypeOK'
  OBVIOUS
<1>1. TS!TypeOK'
  BY StreamStep, StreamTypeNext DEF TypeOK
<1> USE <1>1 DEF TypeOK, hostVars, EndWith
<1>2. CASE StartCall \/ CheckFirst \/ BuildSucceeds \/ BuildFails \/ InputsFail
  BY <1>2 DEF StartCall, StartInvalid, SpawnThread, SpawnFails, CheckFirst, BuildSucceeds,
     BuildFails, InputsFail
<1>3. CASE CallStart \/ StartReturns \/ StartFails
  BY <1>3 DEF CallStart, StartReturns, StartFails
<1>4. CASE CheckCancel \/ PollTimesOut \/ PollChunk \/ PollFinal \/ PollError
  BY <1>4 DEF CheckCancel, PollTimesOut, PollChunk, PollFinal, PollError
<1>5. CASE EmitToken \/ EmitError \/ EmitDone
  <2>1. trace' \in Seq({"token", "error", "done"})
    BY <1>5, EmitAppends DEF EmitToken, EmitError, EmitDone, Callbacks
  <2> QED
    BY <1>5, <2>1 DEF EmitToken, EmitError, EmitDone
<1>6. CASE BeginDrop \/ ContinueDrop \/ DropSession
  BY <1>6 DEF BeginDrop, ContinueDrop, DropSession
<1>7. CASE StreamCancel \/ StreamFree \/ StreamFreeReturns
  BY <1>7 DEF StreamCancel, StreamFree, StreamFreeReturns
<1>8. CASE Runtime \/ RuntimeStalls
  BY <1>8 DEF Runtime, RuntimeStalls
<1>9. CASE UNCHANGED vars \/ Finished
  BY <1>9 DEF vars, Finished
<1> QED
  BY <1>2, <1>3, <1>4, <1>5, <1>6, <1>7, <1>8, <1>9 DEF Next, WorkerStep

-----------------------------------------------------------------------------
(* The worker and its stream; late tokens.                                 *)

LEMMA StageNext == TypeOK /\ StageInv /\ [Next]_vars => StageInv'
<1> SUFFICES ASSUME TypeOK, StageInv, [Next]_vars PROVE StageInv'
  OBVIOUS
<1> USE DEF StageInv, hostVars, EndWith
<1>1. CASE Aside \/ UNCHANGED vars
  <2>1. stream' = stream
    BY <1>1, AsideKeepsStream DEF streamVars
  <2> QED
    BY <1>1, <2>1 DEF Aside, StartCall, StartInvalid, SpawnThread, SpawnFails, CheckFirst,
       BuildSucceeds, BuildFails, InputsFail, CheckCancel, PollTimesOut, EmitToken, EmitError,
       DropSession, EmitDone, StreamCancel, StreamFree, StreamFreeReturns, vars
<1>2. CASE CallStart \/ StartReturns \/ StartFails
  BY <1>2 DEF CallStart, StartReturns, StartFails, TS!StartStream, TS!StartReturns, TS!StartFails
<1>3. CASE PollChunk \/ PollFinal \/ PollError
  BY <1>3 DEF PollChunk, PollFinal, PollError, TS!Poll
<1>4. CASE BeginDrop \/ ContinueDrop
  BY <1>4 DEF BeginDrop, ContinueDrop
<1>5. CASE Runtime
  BY <1>5 DEF Runtime, TS!NativeStep, TS!InvokeCallback, TS!PublishEvent, TS!SendReturns,
     TS!CallbackReturns, TS!consumerVars
<1>6. CASE RuntimeStalls
  BY <1>6 DEF RuntimeStalls, TS!NativeStalls, TS!consumerVars
<1> QED
  BY <1>1, <1>2, <1>3, <1>4, <1>5, <1>6 DEF Next, WorkerStep, Aside, Finished

LEMMA LateNext == TypeOK /\ LateInv /\ [Next]_vars => LateInv'
<1> SUFFICES ASSUME TypeOK, LateInv, [Next]_vars PROVE LateInv'
  OBVIOUS
<1> USE DEF LateInv, hostVars, EndWith
<1>1. CASE StartCall \/ CheckFirst \/ BuildSucceeds \/ BuildFails \/ InputsFail
  BY <1>1 DEF StartCall, StartInvalid, SpawnThread, SpawnFails, CheckFirst, BuildSucceeds,
     BuildFails, InputsFail
<1>2. CASE CallStart \/ StartReturns \/ StartFails
  BY <1>2 DEF CallStart, StartReturns, StartFails
<1>3. CASE CheckCancel \/ PollTimesOut \/ PollChunk \/ PollFinal \/ PollError
  BY <1>3 DEF CheckCancel, PollTimesOut, PollChunk, PollFinal, PollError
<1>4. CASE EmitToken
  <2>1. late = 0 /\ late' = IF cancel THEN 1 ELSE 0
    BY <1>4 DEF EmitToken
  <2> QED
    BY <1>4, <2>1 DEF EmitToken
<1>5. CASE EmitError \/ EmitDone \/ BeginDrop \/ ContinueDrop \/ DropSession
  BY <1>5 DEF EmitError, EmitDone, BeginDrop, ContinueDrop, DropSession
<1>6. CASE StreamCancel \/ StreamFree \/ StreamFreeReturns
  BY <1>6 DEF StreamCancel, StreamFree, StreamFreeReturns, TypeOK
<1>7. CASE Runtime \/ RuntimeStalls
  BY <1>7 DEF Runtime, RuntimeStalls
<1>8. CASE UNCHANGED vars \/ Finished
  BY <1>8 DEF vars, Finished
<1> QED
  BY <1>1, <1>2, <1>3, <1>4, <1>5, <1>6, <1>7, <1>8 DEF Next, WorkerStep

-----------------------------------------------------------------------------
(* What the host is told.                                                  *)

\* The worker goes on without a callback, and not to its end.
LEMMA TraceQuiet ==
    ASSUME TypeOK, TraceInv, trace' = trace,
           pc \notin {"failing", "dropping", "announcing", "ended"},
           \/ pc' \notin {"failing", "dropping", "announcing", "ended"}
           \/ pc' = "failing" /\ code' \notin {"OK", "CANCELLED"}
           \/ pc' \in {"dropping", "announcing"} /\ code' \in {"OK", "CANCELLED"}
    PROVE  TraceInv'
<1>1. Body = Len(trace) /\ Body' = Len(trace)
  BY DEF Body
<1>2. \A i \in 1..Len(trace) : trace[i] = "token"
  BY <1>1 DEF TraceInv
<1> QED
  BY <1>1, <1>2 DEF TraceInv

\* It ends without one.
LEMMA TraceKept ==
    ASSUME TraceInv, trace' = trace, code' = code,
           pc' = pc \/ (pc = "dropping" /\ pc' = "announcing")
    PROVE  TraceInv'
<1>1. Body' = Body
  BY DEF Body
<1> QED
  BY <1>1 DEF TraceInv

LEMMA TraceNext == TypeOK /\ TraceInv /\ [Next]_vars => TraceInv'
<1> SUFFICES ASSUME TypeOK, TraceInv, [Next]_vars PROVE TraceInv'
  OBVIOUS
<1> USE DEF hostVars, EndWith
<1>1. CASE StartCall \/ CheckFirst \/ BuildSucceeds \/ BuildFails \/ InputsFail
  BY <1>1, TraceQuiet DEF StartCall, StartInvalid, SpawnThread, SpawnFails, CheckFirst,
     BuildSucceeds, BuildFails, InputsFail
<1>2. CASE CallStart \/ StartReturns \/ StartFails
  BY <1>2, TraceQuiet DEF CallStart, StartReturns, StartFails
<1>3. CASE CheckCancel \/ PollTimesOut \/ PollChunk \/ PollFinal \/ PollError
  BY <1>3, TraceQuiet DEF CheckCancel, PollTimesOut, PollChunk, PollFinal, PollError
<1>4. CASE EmitToken
  <2>1. /\ Len(trace) \in Nat /\ Len(trace') = Len(trace) + 1
        /\ \A i \in 1..Len(trace) : trace'[i] = trace[i]
        /\ trace'[Len(trace) + 1] = "token"
    BY <1>4, EmitAppends DEF EmitToken, Callbacks
  <2>2. \A i \in 1..Len(trace) : trace[i] = "token"
    BY <1>4 DEF EmitToken, TraceInv, Body
  <2>3. pc' = "checking" /\ Body' = Len(trace')
    BY <1>4 DEF EmitToken, Body
  <2>4. \A i \in 1..Len(trace') : trace'[i] = "token"
    BY <2>1, <2>2
  <2> QED
    BY <2>3, <2>4 DEF TraceInv
<1>5. CASE EmitError
  <2>1. /\ Len(trace) \in Nat /\ Len(trace') = Len(trace) + 1
        /\ \A i \in 1..Len(trace) : trace'[i] = trace[i]
        /\ trace'[Len(trace) + 1] = "error"
    BY <1>5, EmitAppends DEF EmitError, Callbacks
  <2>2. /\ \A i \in 1..Len(trace) : trace[i] = "token"
        /\ code \notin {"OK", "CANCELLED"}
    BY <1>5 DEF EmitError, TraceInv, Body
  <2>3. pc' \in {"dropping", "announcing"} /\ code' = code /\ Body' = Len(trace')
    BY <1>5 DEF EmitError, Body
  <2>4. Body' >= 1 /\ trace'[Body'] = "error" /\ \A i \in 1..Body' : i = Body' \/ trace'[i] = "token"
    BY <2>1, <2>2, <2>3
  <2> QED
    BY <2>2, <2>3, <2>4 DEF TraceInv
<1>6. CASE EmitDone
  <2>1. /\ Len(trace) \in Nat /\ Len(trace') = Len(trace) + 1
        /\ \A i \in 1..Len(trace) : trace'[i] = trace[i]
        /\ trace'[Len(trace) + 1] = "done" /\ trace' # <<>>
    BY <1>6, EmitAppends, EmptySeq DEF EmitDone, Callbacks
  <2>2. pc = "announcing" /\ pc' = "ended" /\ code' = code /\ Body = Len(trace)
    BY <1>6 DEF EmitDone, Body
  <2>3. Body' = Len(trace)
    BY <2>1, <2>2 DEF Body
  <2>4. \A i \in 1..Len(trace) : trace'[i] = trace[i]
    BY <2>1
  <2>5. /\ code \notin {"OK", "CANCELLED"} => Len(trace) >= 1 /\ trace[Len(trace)] = "error"
        /\ \A i \in 1..Len(trace) :
              (code \notin {"OK", "CANCELLED"} /\ i = Len(trace)) \/ trace[i] = "token"
    BY <2>2 DEF TraceInv
  <2>6. code \notin {"OK", "CANCELLED"} => Len(trace) >= 1 /\ trace'[Len(trace)] = "error"
    BY <2>1, <2>5
  <2> QED
    BY <2>1, <2>2, <2>3, <2>4, <2>5, <2>6 DEF TraceInv
<1>7. CASE BeginDrop \/ ContinueDrop \/ DropSession
  BY <1>7, TraceKept DEF BeginDrop, ContinueDrop, DropSession
<1>8. CASE StreamCancel \/ StreamFree \/ StreamFreeReturns \/ Runtime \/ RuntimeStalls
  BY <1>8, TraceKept DEF StreamCancel, StreamFree, StreamFreeReturns, Runtime, RuntimeStalls
<1>9. CASE UNCHANGED vars \/ Finished
  BY <1>9, TraceKept DEF vars, Finished
<1> QED
  BY <1>1, <1>2, <1>3, <1>4, <1>5, <1>6, <1>7, <1>8, <1>9 DEF Next, WorkerStep

-----------------------------------------------------------------------------
(* Every chunk is somewhere.                                               *)

\* The labels before run_stream, or the start call, knows how it ends.
Early == {"idle", "running", "building", "starting", "checking", "receiving", "token"}

LEMMA SentNext ==
    TypeOK /\ TS!OwnerInv /\ TS!EndInv /\ StageInv /\ SentInv /\ [Next]_vars => SentInv'
<1> SUFFICES ASSUME TypeOK, TS!OwnerInv, TS!EndInv, StageInv, SentInv, [Next]_vars
             PROVE  SentInv'
  OBVIOUS
<1> USE DEF hostVars, EndWith
<1>0. /\ Len(trace) \in Nat /\ Body \in Int /\ (pc # "ended" => Body = Len(trace))
      /\ ChunksIn \in Int /\ sent \in Nat
      /\ stream = "none" => sent = 0
      /\ pc \in Early =>
            code = "none" /\ sent = Len(trace) + ChunksIn + (IF pc = "token" THEN 1 ELSE 0)
      /\ code = "OK" => terminal /\ sent = Body /\ pc \in {"dropping", "announcing", "ended"}
  BY LengthsAreNat DEF SentInv, Early, TypeOK
<1>1. CASE StartCall \/ CheckFirst \/ BuildSucceeds \/ BuildFails \/ InputsFail \/ CheckCancel
           \/ PollTimesOut \/ StreamCancel \/ StreamFree
  <2>1. UNCHANGED <<stream, events, terminal, trace, sent>>
    BY <1>1, AsideKeepsStream
       DEF Aside, streamVars, StartCall, StartInvalid, SpawnThread, SpawnFails, CheckFirst,
       BuildSucceeds, BuildFails, InputsFail, CheckCancel, PollTimesOut, StreamCancel, StreamFree
  <2>2. /\ pc' \in Early => code' = code /\ (pc' = "token" <=> pc = "token") /\ pc \in Early
        /\ code' = "OK" => code = "OK" /\ pc' = pc
    BY <1>0, <1>1
       DEF Early, StartCall, StartInvalid, SpawnThread, SpawnFails, CheckFirst, BuildSucceeds,
       BuildFails, InputsFail, CheckCancel, PollTimesOut, StreamCancel, StreamFree
  <2>3. ChunksIn' = ChunksIn
    BY <2>1 DEF ChunksIn
  <2>4. pc' = pc => Body' = Body
    BY <2>1 DEF Body
  <2> QED
    BY <1>0, <2>1, <2>2, <2>3, <2>4 DEF SentInv, Early
<1>2. CASE CallStart \/ StartReturns \/ StartFails
  <2>1. /\ UNCHANGED <<events, terminal, trace, sent>> /\ pc = "starting"
        /\ stream' # "none" /\ pc' # "token" /\ (pc' # "failing" => pc' \in Early /\ code' = code)
        /\ code' # "OK" /\ (pc' \in Early \/ pc' = "failing")
    BY <1>0, <1>2 DEF CallStart, StartReturns, StartFails, TS!StartStream, TS!StartReturns,
       TS!StartFails, Early
  <2>2. ChunksIn' = ChunksIn
    BY <2>1 DEF ChunksIn
  <2> QED
    BY <1>0, <2>1, <2>2 DEF SentInv, Early
<1>3. CASE PollChunk \/ PollFinal \/ PollError
  <2>1. /\ TS!TakeEvent /\ UNCHANGED <<stream, trace, sent>> /\ pc = "receiving" /\ stream = "open"
        /\ terminal' = (terminal \/ Head(events) \in TS!TerminalEvents)
    BY <1>3 DEF PollChunk, PollFinal, PollError, TS!Poll, TS!TakeEvent
  <2>2. sent = Len(trace) + ChunksIn /\ code = "none"
    BY <1>0, <2>1 DEF Early
  <2>3. CASE PollChunk
    <3>1. pc' = "token" /\ code' = code /\ ChunksIn = ChunksIn' + 1 /\ ChunksIn' \in Int
      <4>1. ChunksIn = ChunksIn' + 1
        BY <2>1, <2>3, ChannelGives DEF PollChunk
      <4>2. Len(events') \in Nat
        BY <2>1, StreamTakeType, LenProperties DEF TypeOK
      <4> QED
        BY <2>3, <4>1, <4>2 DEF PollChunk, ChunksIn
    <3>2. stream' # "none" /\ code' # "OK"
      BY <2>1, <2>2, <3>1
    <3> QED
      BY <1>0, <2>1, <2>2, <3>1, <3>2 DEF SentInv
  <2>4. CASE PollFinal \/ PollError
    <3>1. ChunksIn = 0 /\ terminal' /\ pc' \in {"dropping", "failing"}
      BY <2>1, <2>4, ChannelGives DEF PollFinal, PollError, TS!TerminalEvents
    <3>2. stream' # "none" /\ Body' = Len(trace) /\ (code' = "OK" => pc' = "dropping")
      BY <2>1, <2>4, <3>1 DEF Body, PollFinal, PollError
    <3> QED
      BY <1>0, <2>1, <2>2, <3>1, <3>2 DEF SentInv
  <2> QED
    BY <1>3, <2>3, <2>4
<1>4. CASE EmitToken
  <2>1. /\ UNCHANGED <<stream, events, terminal, sent, code>> /\ pc = "token" /\ pc' = "checking"
        /\ Len(trace') = Len(trace) + 1
    BY <1>4, EmitAppends, AsideKeepsStream DEF EmitToken, Aside, streamVars, Callbacks
  <2>2. ChunksIn' = ChunksIn
    BY <2>1 DEF ChunksIn
  <2>3. code' = "none" /\ sent' = Len(trace') + ChunksIn'
    BY <1>0, <2>1, <2>2 DEF Early
  <2> QED
    BY <1>0, <2>1, <2>3 DEF SentInv
<1>5. CASE EmitError
  <2>1. /\ UNCHANGED <<stream, terminal, sent, code>> /\ pc = "failing"
        /\ pc' \in {"dropping", "announcing"}
    BY <1>5, AsideKeepsStream DEF EmitError, Aside, streamVars
  <2>2. code' # "OK"
    BY <1>0, <2>1
  <2> QED
    BY <1>0, <2>1, <2>2 DEF SentInv
<1>6. CASE EmitDone
  <2>1. /\ UNCHANGED <<stream, terminal, sent, code>> /\ pc = "announcing" /\ pc' = "ended"
        /\ Len(trace') = Len(trace) + 1
    BY <1>6, EmitAppends, AsideKeepsStream DEF EmitDone, Aside, streamVars, Callbacks
  <2>2. Body' = Body
    BY <1>0, <2>1 DEF Body
  <2> QED
    BY <1>0, <2>1, <2>2 DEF SentInv
<1>7. CASE BeginDrop \/ ContinueDrop \/ DropSession
  <2>1. /\ UNCHANGED <<trace, sent, code>> /\ (terminal => terminal')
        /\ pc = "dropping" /\ pc' \in {"dropping", "announcing"}
        /\ stream' = "none" => stream = "none"
    BY <1>7 DEF BeginDrop, ContinueDrop, DropSession, TS!DropStream, TS!DropStep, TS!DrainReceive,
       TS!DrainTimesOut, TS!FreeState, TS!TakeEvent, streamVars
  <2>2. Body' = Body
    BY <2>1 DEF Body
  <2> QED
    BY <1>0, <2>1, <2>2 DEF SentInv
<1>8. CASE Runtime
  <2>1. /\ UNCHANGED <<stream, terminal, pc, code, trace>>
        /\ sent' = sent \/ sent' = sent + 1
        /\ stream = "none" \/ terminal => sent' = sent
        /\ stream = "none" => events' = events
        /\ stream \in {"starting", "open"} => sent' - sent = ChunksIn' - ChunksIn
    BY <1>8, RuntimeSends
  <2>2. Body' = Body
    BY <2>1 DEF Body
  <2>3. ChunksIn' \in Int
    <3>1. TypeOK'
      BY TypeNext
    <3>2. Len(events') \in Nat
      BY <3>1, LenProperties DEF TypeOK, TS!TypeOK
    <3> QED
      BY <3>2 DEF ChunksIn
  <2>4. ASSUME pc \in Early PROVE sent' - sent = ChunksIn' - ChunksIn
    <3>1. stream \in {"none", "starting", "open"}
      BY <2>4 DEF StageInv, Early
    <3>2. CASE stream = "none"
      <4>1. ChunksIn' = ChunksIn /\ sent' = sent
        BY <2>1, <3>2 DEF ChunksIn
      <4> QED
        BY <1>0, <4>1
    <3> QED
      BY <2>1, <3>1, <3>2
  <2>5. pc' \in Early =>
            code' = "none" /\ sent' = Len(trace') + ChunksIn' + (IF pc' = "token" THEN 1 ELSE 0)
    BY <1>0, <2>1, <2>3, <2>4
  <2> QED
    BY <1>0, <2>1, <2>2, <2>5 DEF SentInv, Early
<1>9. CASE RuntimeStalls \/ StreamFreeReturns \/ UNCHANGED vars \/ Finished
  <2>1. UNCHANGED <<stream, events, terminal, pc, code, trace, sent>>
    BY <1>9 DEF RuntimeStalls, TS!NativeStalls, TS!consumerVars, StreamFreeReturns, streamVars,
       vars, Finished
  <2>2. ChunksIn' = ChunksIn /\ Body' = Body
    BY <2>1 DEF ChunksIn, Body
  <2> QED
    BY <1>0, <2>1, <2>2 DEF SentInv, Early
<1> QED
  BY <1>1, <1>2, <1>3, <1>4, <1>5, <1>6, <1>7, <1>8, <1>9 DEF Next, WorkerStep

-----------------------------------------------------------------------------
\* run_stream, its stream and its host: where the stream is, what the host
\* has been told and where each chunk of text is fit together at any point.
THEOREM Invariant == Spec => []IInv
<1>1. Init => IInv
  <2> SUFFICES ASSUME Init PROVE IInv
    OBVIOUS
  <2>1. TypeOK /\ TS!OwnerInv /\ TS!EndInv
    BY TypeInit, StreamInit DEF Init, TS!IInv
  <2>2. StageInv /\ LateInv
    BY DEF Init, TS!Init, StageInv, LateInv
  <2>3. trace = <<>> /\ Len(trace) = 0 /\ pc = "idle" /\ Body = 0 /\ ChunksIn = 0
    BY DEF Init, TS!Init, Body, ChunksIn
  <2>4. TraceInv /\ SentInv
    BY <2>3 DEF Init, TS!Init, TraceInv, SentInv
  <2> QED
    BY <2>1, <2>2, <2>4 DEF IInv
<1>2. IInv /\ [Next]_vars => IInv'
  <2> SUFFICES ASSUME IInv, [Next]_vars PROVE IInv'
    OBVIOUS
  <2>1. TypeOK /\ TS!IInv /\ TS!OwnerInv /\ TS!EndInv /\ StageInv /\ LateInv /\ TraceInv /\ SentInv
    BY DEF IInv, TS!IInv, TypeOK
  <2>2. TypeOK' /\ StageInv' /\ LateInv' /\ TraceInv' /\ SentInv'
    BY <2>1, TypeNext, StageNext, LateNext, TraceNext, SentNext
  <2>3. TS!OwnerInv' /\ TS!EndInv'
    BY <2>1, StreamNext DEF TS!IInv
  <2> QED
    BY <2>2, <2>3 DEF IInv
<1> QED
  BY <1>1, <1>2, PTL DEF Spec

\* Of how many callbacks are tokens when on_done has been called.
LEMMA TokensCounted ==
    ASSUME IInv, pc = "ended"
    PROVE  /\ Len(trace) \in Nat /\ Len(trace) >= 1
           /\ code \in {"OK", "CANCELLED"} => Tokens = Len(trace) - 1
           /\ code \notin {"OK", "CANCELLED"} =>
                 Tokens = Len(trace) - 2 /\ trace[Len(trace) - 1] = "error"
<1>1. /\ Len(trace) \in Nat /\ Len(trace) >= 1 /\ DOMAIN trace = 1..Len(trace)
      /\ trace[Len(trace)] = "done" /\ Body = Len(trace) - 1
  <2>1. trace \in Seq(Callbacks) /\ trace # <<>> /\ trace[Len(trace)] = "done"
    BY DEF IInv, TypeOK, TraceInv, Callbacks
  <2> QED
    BY <2>1, LenProperties, EmptySeq DEF Body
<1>2. CASE code \in {"OK", "CANCELLED"}
  <2>1. \A i \in 1..(Len(trace) - 1) : trace[i] = "token"
    BY <1>1, <1>2 DEF IInv, TraceInv
  <2>2. {i \in DOMAIN trace : trace[i] = "token"} = 1..(Len(trace) - 1)
    BY <1>1, <2>1
  <2>3. Cardinality(1..(Len(trace) - 1)) = Len(trace) - 1
    BY <1>1, FS_Interval
  <2> QED
    BY <1>1, <1>2, <2>2, <2>3 DEF Tokens
<1>3. CASE code \notin {"OK", "CANCELLED"}
  <2>1. /\ Body >= 1 /\ trace[Body] = "error"
        /\ \A i \in 1..Body : i = Body \/ trace[i] = "token"
    BY <1>3 DEF IInv, TraceInv
  <2>2. /\ Len(trace) >= 2 /\ trace[Len(trace) - 1] = "error"
        /\ \A i \in 1..(Len(trace) - 2) : trace[i] = "token"
    <3>1. Len(trace) \in Nat /\ Body = Len(trace) - 1
      BY <1>1
    <3>2. Len(trace) - 1 >= 1 /\ trace[Len(trace) - 1] = "error"
      BY <2>1, <3>1
    <3>3. ASSUME NEW i \in 1..(Len(trace) - 2) PROVE trace[i] = "token"
      BY <2>1, <3>1
    <3> QED
      BY <3>1, <3>2, <3>3
  <2>3. ASSUME NEW i \in 1..Len(trace), trace[i] = "token" PROVE i \in 1..(Len(trace) - 2)
    BY <1>1, <2>2, <2>3
  <2>4. {i \in DOMAIN trace : trace[i] = "token"} = 1..(Len(trace) - 2)
    BY <1>1, <2>2, <2>3
  <2>5. Len(trace) - 2 \in Nat
    BY <1>1, <2>2
  <2>6. Cardinality(1..(Len(trace) - 2)) = Len(trace) - 2
    BY <2>5, FS_Interval
  <2> QED
    BY <1>1, <1>3, <2>2, <2>4, <2>6 DEF Tokens
<1> QED
  BY <1>1, <1>2, <1>3

\* The code of on_done (emit_done) agrees with the callbacks before it, and
\* OK says that every chunk the runtime has sent reached the host.
THEOREM CodeIsTrue == Spec => []DoneAgrees
<1>1. IInv => DoneAgrees
  <2> SUFFICES ASSUME IInv, pc = "ended" PROVE
        /\ code = "OK" => Tokens = sent /\ Len(trace) = sent + 1
        /\ code = "CANCELLED" => cancel /\ Len(trace) = Tokens + 1
        /\ code \notin {"OK", "CANCELLED"} =>
              Len(trace) = Tokens + 2 /\ trace[Len(trace) - 1] = "error"
    BY DEF DoneAgrees
  <2>1. code = "OK" => sent = Len(trace) - 1
    BY DEF IInv, SentInv, Body
  <2>2. code = "CANCELLED" => cancel
    BY DEF IInv, LateInv
  <2>3. sent \in Nat
    BY DEF IInv, TypeOK
  <2> QED
    BY <2>1, <2>2, <2>3, TokensCounted
<1> QED
  BY <1>1, Invariant, PTL

\* run_stream's loop looks at the flag between any two tokens.
THEOREM AtMostOneLate == Spec => []OneLateToken
<1>1. IInv => OneLateToken
  BY DEF IInv, LateInv, OneLateToken, TypeOK
<1> QED
  BY <1>1, Invariant, PTL

\* stream_free joins the thread that makes the callbacks.
THEOREM SilentAfterFree == Spec => NoCallbackAfterFree
<1>1. IInv /\ [Next]_vars => [handle = "freed" => trace' = trace]_vars
  <2> SUFFICES ASSUME IInv, Next, handle = "freed" PROVE trace' = trace
    OBVIOUS
  <2>1. pc = "ended"
    BY DEF IInv, StageInv
  <2> QED
    BY <2>1
       DEF Next, StartCall, StartInvalid, SpawnThread, SpawnFails, WorkerStep, CheckFirst,
       BuildSucceeds, BuildFails, InputsFail, CallStart, StartReturns, StartFails, CheckCancel,
       PollTimesOut, PollChunk, PollFinal, PollError, EmitToken, EmitError, BeginDrop,
       ContinueDrop, DropSession, EmitDone, StreamCancel, StreamFree, StreamFreeReturns,
       Runtime, RuntimeStalls, Finished, vars
<1> QED
  BY <1>1, Invariant, PTL DEF Spec, NoCallbackAfterFree

\* What run_stream does with its stream is what TextStream says a consumer
\* does, fairness apart; so what is proved of TextStream's steps holds here.
THEOREM UsesStream == Spec => TS!Init /\ [][TS!Next]_(TS!vars)
<1>1. Init => TS!Init
  BY DEF Init
<1>2. [Next]_vars => [TS!Next]_(TS!vars)
  BY StreamStep
<1> QED
  BY <1>1, <1>2, PTL DEF Spec

\* The stream the FFI reads ends with its terminal event, and what the drop
\* of run_stream's locals leaves of it is freed or leaked on purpose.
THEOREM StreamIsSettled == Spec => [](TS!TerminalIsLast /\ TS!FreedOrLeaked)
<1>1. IInv => TS!TerminalIsLast /\ TS!FreedOrLeaked
  BY DEF IInv, TS!OwnerInv, TS!EndInv
<1> QED
  BY <1>1, Invariant, PTL

=============================================================================
