-------------------------- MODULE TextStreamProofs --------------------------
(***************************************************************************)
(* Proofs about TextStream, for any number of chunks and whether or not    *)
(* the runtime may stall.                                                  *)
(***************************************************************************)
EXTENDS TextStream, SequenceTheorems, TLAPS

Shapes == {<<>>, <<"Chunk">>, <<"Chunk", "Final">>, <<"Final">>, <<"Error">>}

\* What the head and the tail of the events of one chunk can be.
LEMMA ShapeCases ==
    ASSUME NEW p \in Shapes, p # <<>>
    PROVE  /\ Head(p) \in StreamEvents
           /\ Tail(p) \in Shapes
           /\ Head(p) \in TerminalEvents => Tail(p) = <<>> /\ p # <<"Chunk">>
           /\ Tail(p) # <<>> => p # <<"Chunk">>
           /\ Tail(p) # <<"Chunk">>
<1>1. CASE p = <<"Chunk", "Final">>
  <2>1. Head(p) = "Chunk" /\ Tail(p) = <<"Final">>
    BY <1>1
  <2> QED
    BY <1>1, <2>1 DEF Shapes, StreamEvents, TerminalEvents
<1>2. CASE p \in {<<"Chunk">>, <<"Final">>, <<"Error">>}
  <2>1. PICK e \in {"Chunk", "Final", "Error"} : p = <<e>>
    BY <1>2
  <2>2. Head(p) = e /\ Tail(p) = <<>>
    BY <2>1
  <2> QED
    BY <2>1, <2>2 DEF Shapes, StreamEvents, TerminalEvents
<1> QED
  BY <1>1, <1>2 DEF Shapes

LEMMA EventsShape ==
    ASSUME NEW c \in Chunks
    PROVE  /\ Events(c) \in Shapes
           /\ Events(c) # <<>> /\ Events(c) # <<"Chunk">> => c.final \/ c.error
BY DEF Events, Shapes, Chunks

LEMMA TakeType ==
    ASSUME TypeOK, TakeEvent
    PROVE  /\ events' \in Seq(StreamEvents) /\ last' \in StreamEvents /\ terminal' \in BOOLEAN
           /\ Len(events') = Len(events) - 1
           /\ \A i \in 1..Len(events') : events'[i] = events[i + 1]
           /\ Head(events) = events[1] /\ 1 \in 1..Len(events)
BY HeadTailProperties, LenProperties DEF TypeOK, TakeEvent

LEMMA TypeInit == Init => TypeOK
<1>1. <<>> \in Seq(StreamEvents)
  BY EmptySeq
<1>2. 0 \in 0..MaxChunks
  BY ConstantsAssumption DEF ConstantsAssumption
<1> QED
  BY <1>1, <1>2 DEF Init, TypeOK

LEMMA TypeNext == TypeOK /\ [Next]_vars => TypeOK'
<1> SUFFICES ASSUME TypeOK, [Next]_vars PROVE TypeOK'
  OBVIOUS
<1> USE DEF TypeOK
<1>1. CASE StartStream \/ StartReturns \/ StartFails \/ CallNext \/ DropStream
  BY <1>1 DEF StartStream, StartReturns, StartFails, CallNext, DropStream, nativeVars
<1>2. CASE Poll \/ NextReturns \/ DrainReceive
  BY <1>2, TakeType DEF Poll, NextReturns, DrainReceive, nativeVars
<1>3. CASE DrainTimesOut \/ FreeState
  BY <1>3, EmptySeq DEF DrainTimesOut, FreeState, nativeVars
<1>4. ASSUME NEW c \in Chunks, InvokeCallback(c) PROVE TypeOK'
  BY <1>4, EventsShape, ConstantsAssumption
     DEF InvokeCallback, consumerVars, Shapes, ConstantsAssumption
<1>5. CASE PublishEvent
  <2>1. pending \in Shapes /\ pending # <<>>
    BY <1>5 DEF PublishEvent, Shapes
  <2>2. Head(pending) \in StreamEvents /\ Tail(pending) \in Shapes
    BY <2>1, ShapeCases
  <2>3. events' \in Seq(StreamEvents)
    BY <1>5, <2>2, AppendProperties DEF PublishEvent
  <2> QED
    BY <1>5, <2>2, <2>3 DEF PublishEvent, consumerVars, Shapes
<1>6. CASE SendReturns \/ CallbackReturns \/ NativeStalls
  BY <1>6 DEF SendReturns, CallbackReturns, NativeStalls, consumerVars
<1>7. CASE UNCHANGED vars
  BY <1>7 DEF vars, consumerVars, nativeVars
<1> QED
  BY <1>1, <1>2, <1>3, <1>4, <1>5, <1>6, <1>7 DEF Next, DropStep, NativeStep

-----------------------------------------------------------------------------
LEMMA OwnerNext == IInv /\ [Next]_vars => OwnerInv'
<1> SUFFICES ASSUME IInv, [Next]_vars PROVE OwnerInv'
  OBVIOUS
<1> USE DEF IInv, OwnerInv, FreedOrLeaked
<1>0. EndInv /\ TypeOK
  OBVIOUS
<1>1. CASE StartStream \/ StartReturns \/ StartFails \/ CallNext
  BY <1>1, <1>0 DEF StartStream, StartReturns, StartFails, CallNext, nativeVars
<1>7. CASE DropStream
  <2>1. terminal' \/ cancelled'
    BY <1>0, <1>7 DEF DropStream, TypeOK
  <2> QED
    BY <1>7, <2>1 DEF DropStream, nativeVars
<1>2. CASE Poll \/ NextReturns \/ DrainReceive
  BY <1>2 DEF Poll, NextReturns, DrainReceive, TakeEvent, nativeVars
<1>3. CASE DrainTimesOut \/ FreeState
  BY <1>3 DEF DrainTimesOut, FreeState, nativeVars
<1>4. ASSUME NEW c \in Chunks, InvokeCallback(c) PROVE OwnerInv'
  BY <1>4 DEF InvokeCallback, consumerVars
<1>5. CASE PublishEvent \/ SendReturns \/ CallbackReturns \/ NativeStalls
  BY <1>5 DEF PublishEvent, SendReturns, CallbackReturns, NativeStalls, consumerVars
<1>6. CASE UNCHANGED vars
  BY <1>6 DEF vars, consumerVars, nativeVars
<1> QED
  BY <1>1, <1>2, <1>3, <1>4, <1>5, <1>6, <1>7 DEF Next, DropStep, NativeStep

\* Taking an event keeps the end last, and an end taken leaves nothing.
LEMMA EndTake ==
    ASSUME TypeOK, EndInv, TakeEvent, UNCHANGED nativeVars
    PROVE  EndInv'
<1>1. \A i \in 1..Len(events') : events'[i] = events[i + 1] /\ i + 1 \in 1..Len(events)
  BY TakeType, LenProperties DEF TypeOK
<1>2. \A i \in 1..Len(events') : events'[i] \in TerminalEvents =>
         i = Len(events') /\ pending = <<>> /\ native = "finished"
  BY <1>1, TakeType, LenProperties DEF EndInv, TypeOK
<1>3. native \notin {"idle", "refused"}
  BY DEF EndInv, TakeEvent
<1>4. TerminalIsLast'
  <2> SUFFICES ASSUME terminal' PROVE events' = <<>> /\ pending = <<>> /\ native = "finished"
    BY DEF TerminalIsLast, nativeVars
  <2>1. ~terminal
    BY DEF EndInv, TerminalIsLast, TakeEvent
  <2>2. events[1] \in TerminalEvents /\ 1 \in 1..Len(events)
    BY <2>1, TakeType DEF TakeEvent
  <2>3. Len(events) = 1 /\ pending = <<>> /\ native = "finished"
    BY <2>2 DEF EndInv
  <2>4. events' = <<>>
    BY <2>3, TakeType, EmptySeq, LenProperties
  <2> QED
    BY <2>3, <2>4
<1> QED
  BY <1>2, <1>3, <1>4 DEF EndInv, nativeVars

LEMMA EndNext == IInv /\ [Next]_vars => EndInv'
<1> SUFFICES ASSUME IInv, [Next]_vars PROVE EndInv'
  OBVIOUS
<1>0. TypeOK /\ OwnerInv /\ EndInv
  BY DEF IInv
<1>1. CASE StartStream
  BY <1>0, <1>1 DEF StartStream, OwnerInv, EndInv, TerminalIsLast, TypeOK
<1>2. CASE StartReturns \/ StartFails \/ CallNext \/ DropStream
  BY <1>0, <1>2 DEF StartReturns, StartFails, CallNext, DropStream, nativeVars, EndInv,
     TerminalIsLast
<1>3. CASE Poll \/ NextReturns \/ DrainReceive
  BY <1>0, <1>3, EndTake DEF Poll, NextReturns, DrainReceive
<1>4. CASE DrainTimesOut \/ FreeState
  BY <1>0, <1>4 DEF DrainTimesOut, FreeState, nativeVars, EndInv, TerminalIsLast
<1>5. ASSUME NEW c \in Chunks, InvokeCallback(c) PROVE EndInv'
  BY <1>0, <1>5, EventsShape DEF InvokeCallback, consumerVars, EndInv, TerminalIsLast
<1>6. CASE PublishEvent
  <2>1. pending \in Shapes /\ pending # <<>> /\ callback = "running"
    BY <1>0, <1>6 DEF PublishEvent, Shapes, TypeOK
  <2>2. /\ Head(pending) \in TerminalEvents => Tail(pending) = <<>> /\ native = "finished"
        /\ Tail(pending) # <<>> => native = "finished"
    BY <1>0, <2>1, ShapeCases DEF EndInv
  <2>3. \A i \in 1..Len(events) : events[i] \notin TerminalEvents
    BY <1>0, <2>1 DEF EndInv
  <2>4. ~terminal
    BY <1>0, <2>1 DEF EndInv, TerminalIsLast
  <2>5. native \notin {"idle", "refused"}
    BY <1>0, <2>1 DEF EndInv
  <2>6. \A i \in 1..Len(events') : events'[i] \in TerminalEvents =>
           i = Len(events') /\ Tail(pending) = <<>> /\ native = "finished"
    <3>1. CASE events' = events
      BY <2>3, <3>1
    <3>2. CASE events' = Append(events, Head(pending))
      <4>1. Head(pending) \in StreamEvents
        BY <2>1, ShapeCases
      <4> QED
        BY <1>0, <2>2, <2>3, <3>2, <4>1, AppendProperties, LenProperties DEF TypeOK
    <3> QED
      BY <1>6, <3>1, <3>2 DEF PublishEvent
  <2> QED
    BY <1>6, <2>2, <2>4, <2>5, <2>6 DEF PublishEvent, EndInv, TerminalIsLast, consumerVars
<1>7. CASE SendReturns \/ CallbackReturns \/ NativeStalls
  BY <1>0, <1>7 DEF SendReturns, CallbackReturns, NativeStalls, consumerVars, EndInv,
     TerminalIsLast
<1>8. CASE UNCHANGED vars
  BY <1>0, <1>8 DEF vars, consumerVars, nativeVars, EndInv, TerminalIsLast
<1> QED
  BY <1>1, <1>2, <1>3, <1>4, <1>5, <1>6, <1>7, <1>8 DEF Next, DropStep, NativeStep

-----------------------------------------------------------------------------
\* The inductive invariant: types, the owner of the state, and the end.
THEOREM Invariant == Spec => []IInv
<1>1. Init => IInv
  BY TypeInit DEF IInv, Init, OwnerInv, EndInv, TerminalIsLast, FreedOrLeaked
<1>2. IInv /\ [Next]_vars => IInv'
  BY TypeNext, OwnerNext, EndNext DEF IInv
<1> QED
  BY <1>1, <1>2, PTL DEF Spec

\* Every variable of the stream keeps its type.
THEOREM TypeCorrect == Spec => []TypeOK
<1>1. IInv => TypeOK
  BY DEF IInv
<1> QED
  BY <1>1, Invariant, PTL

\* Once the consumer has seen the end, nothing is left and nothing comes.
THEOREM EndIsLast == Spec => []TerminalIsLast
<1>1. IInv => TerminalIsLast
  BY DEF IInv, EndInv
<1> QED
  BY <1>1, Invariant, PTL

\* The callback begins no send on a state that the drop, or a start that
\* failed, has freed.
THEOREM SendsOnLiveState == Spec => []NoSendOnFreedState
<1>1. IInv => NoSendOnFreedState
  BY DEF IInv, OwnerInv, EndInv, TerminalIsLast, FreedOrLeaked, NoSendOnFreedState, TypeOK
<1> QED
  BY <1>1, Invariant, PTL

\* A dropped stream's state is freed after its end, or leaked.
THEOREM StateIsSettled == Spec => []FreedOrLeaked
<1>1. IInv => FreedOrLeaked
  BY DEF IInv, OwnerInv
<1> QED
  BY <1>1, Invariant, PTL

=============================================================================
