------------------------ MODULE UeConversationProofs ------------------------
(***************************************************************************)
(* Proofs about UeConversation, for any set of requests, any bound on the  *)
(* queue, and whether or not spawning a thread may fail.                   *)
(***************************************************************************)
EXTENDS UeConversation, SequenceTheorems, TLAPS

-----------------------------------------------------------------------------
(* Types.                                                                  *)

\* What emit_conversation_response makes of a response is callbacks only.
LEMMA ResponsesType == Responses \subseteq Seq(Callbacks)
<1>1. <<"response">> \in Seq(Callbacks)
  BY DEF Callbacks
<1>2. <<"text", "response">> \in Seq(Callbacks)
  BY DEF Callbacks
<1>3. <<"tool_calls", "response">> \in Seq(Callbacks)
  BY DEF Callbacks
<1>4. <<"text", "tool_calls", "response">> \in Seq(Callbacks)
  BY DEF Callbacks
<1> QED
  BY <1>1, <1>2, <1>3, <1>4 DEF Responses

LEMMA TypeInit == Init => TypeOK
<1>1. <<>> \in Seq(Commands) /\ <<>> \in Seq(Callbacks) /\ <<>> \in Seq(Callbacks \cup {"done"})
  BY EmptySeq
<1> QED
  BY <1>1 DEF Init, TypeOK, Codes

LEMMA TypeWorkerStep ==
    ASSUME TypeOK, QueueInv, WorkerStep
    PROVE  TypeOK'
<1> USE DEF TypeOK, Goto, Emit, workerVars, threadVars
<1>0. worker \in {"emitting", "replying"} => current \in Requests
  BY DEF QueueInv, Serving
<1>1. CASE BuildSucceeds
  BY <1>1 DEF BuildSucceeds
<1>2. CASE BuildFails
  BY <1>2 DEF BuildFails
<1>3. CASE TakeMessage
  BY <1>3 DEF TakeMessage, Commands
<1>4. CASE TakeCancel
  BY <1>4 DEF TakeCancel
<1>5. CASE TakeShutdown
  BY <1>5 DEF TakeShutdown, Commands
<1>6. CASE DropState
  BY <1>6 DEF DropState
<1>7. CASE CheckBefore
  BY <1>7 DEF CheckBefore, Codes
<1>8. CASE NativeReturns
  <2>1. outbox' \in Seq(Callbacks)
    <3>1. <<"error">> \in Seq(Callbacks)
      BY DEF Callbacks
    <3> QED
      BY <1>8, <3>1, ResponsesType DEF NativeReturns
  <2> QED
    BY <1>8, <2>1 DEF NativeReturns, Codes
<1>9. CASE NativePanics
  BY <1>9 DEF NativePanics, Callbacks, Codes
<1>10. CASE CheckAfter
  BY <1>10, EmptySeq DEF CheckAfter, Codes
<1>11. CASE EmitNext
  BY <1>11, <1>0 DEF EmitNext
<1>12. CASE SendReply
  BY <1>12, <1>0 DEF SendReply
<1> QED
  BY <1>1, <1>2, <1>3, <1>4, <1>5, <1>6, <1>7, <1>8, <1>9, <1>10, <1>11, <1>12 DEF WorkerStep

LEMMA TypeConversationCall ==
    ASSUME TypeOK, ConversationCall
    PROVE  TypeOK'
<1> USE DEF TypeOK, Goto, Emit, workerVars, threadVars
<1>1. CASE CreateStart
  BY <1>1 DEF CreateStart
<1>2. CASE CreateSpawnFails
  BY <1>2 DEF CreateSpawnFails
<1>3. CASE CreateReturns
  BY <1>3 DEF CreateReturns
<1>4. CASE ConversationCancel
  BY <1>4 DEF ConversationCancel, Commands
<1>5. CASE ConversationFree
  BY <1>5 DEF ConversationFree, Commands
<1>6. CASE SendShutdown
  BY <1>6 DEF SendShutdown, Commands
<1>7. CASE ConversationFreeReturns
  BY <1>7 DEF ConversationFreeReturns
<1> QED
  BY <1>1, <1>2, <1>3, <1>4, <1>5, <1>6, <1>7 DEF ConversationCall

LEMMA TypeRequestCall ==
    ASSUME TypeOK, NEW r \in Requests, RequestCall(r)
    PROVE  TypeOK'
<1> USE DEF TypeOK, Goto, Emit, workerVars, threadVars
<1>1. CASE StartInvalid(r)
  BY <1>1 DEF StartInvalid, Codes
<1>2. CASE StartClaim(r)
  BY <1>2 DEF StartClaim
<1>3. CASE StartBusy(r)
  BY <1>3 DEF StartBusy, Codes
<1>4. CASE StreamCancel(r)
  BY <1>4 DEF StreamCancel
<1>5. CASE StreamFree(r)
  BY <1>5 DEF StreamFree
<1>6. CASE StreamFreeReturns(r)
  BY <1>6 DEF StreamFreeReturns
<1> QED
  BY <1>1, <1>2, <1>3, <1>4, <1>5, <1>6 DEF RequestCall

LEMMA TypeRequestStep ==
    ASSUME TypeOK, NEW r \in Requests, RequestStep(r)
    PROVE  TypeOK'
<1> USE DEF TypeOK, Goto, Emit, workerVars, threadVars
<1>1. CASE SpawnThread(r)
  BY <1>1 DEF SpawnThread
<1>2. CASE SpawnFails(r)
  BY <1>2 DEF SpawnFails, Codes
<1>3. CASE RejectError(r)
  BY <1>3 DEF RejectError, Callbacks
<1>4. CASE SendCommand(r)
  BY <1>4 DEF SendCommand, Commands
<1>5. CASE SendFails(r)
  BY <1>5 DEF SendFails, Codes
<1>6. CASE SendError(r)
  BY <1>6 DEF SendError, Callbacks
<1>7. CASE ReceiveReply(r)
  BY <1>7 DEF ReceiveReply, Codes
<1>8. CASE ReleaseBusy(r)
  BY <1>8 DEF ReleaseBusy
<1>9. CASE EmitDone(r)
  BY <1>9 DEF EmitDone, Callbacks
<1> QED
  BY <1>1, <1>2, <1>3, <1>4, <1>5, <1>6, <1>7, <1>8, <1>9 DEF RequestStep

-----------------------------------------------------------------------------
(* What each group of steps leaves alone.                                  *)

LEMMA WorkerStepFrame ==
    WorkerStep => UNCHANGED <<conv, busy, pc, handle, cancel, code>>
BY DEF WorkerStep, BuildSucceeds, BuildFails, TakeMessage, TakeCancel, TakeShutdown, DropState, CheckBefore, NativeReturns, NativePanics, CheckAfter, EmitNext, SendReply, threadVars, workerVars

LEMMA ConversationCallFrame ==
    ConversationCall => UNCHANGED <<current, outbox, verdict, reply, busy, pc, handle, cancel, code, trace>>
BY DEF ConversationCall, CreateStart, CreateSpawnFails, CreateReturns, ConversationCancel, ConversationFree, SendShutdown, ConversationFreeReturns, threadVars, workerVars

LEMMA RequestCallFrame ==
    ASSUME NEW r \in Requests, RequestCall(r)
    PROVE  UNCHANGED <<conv, worker, current, outbox, verdict, queue, reply, trace>>
BY DEF RequestCall, StartInvalid, StartClaim, StartBusy, StreamCancel, StreamFree, StreamFreeReturns, workerVars

LEMMA RequestStepFrame ==
    ASSUME NEW r \in Requests, RequestStep(r)
    PROVE  UNCHANGED <<conv, worker, current, outbox, verdict, reply, cancel>>
BY DEF RequestStep, SpawnThread, SpawnFails, RejectError, SendCommand, SendFails, SendError, ReceiveReply, ReleaseBusy, EmitDone, workerVars

LEMMA FinishedFrame == Finished => UNCHANGED vars
BY DEF Finished

-----------------------------------------------------------------------------
(* A stream handle outlives the thread it joins.                           *)

LEMMA HandleWorkerStep ==
    ASSUME TypeOK, HandleInv, WorkerStep
    PROVE  HandleInv'
BY WorkerStepFrame DEF TypeOK, HandleInv

LEMMA HandleConversationCall ==
    ASSUME TypeOK, HandleInv, ConversationCall
    PROVE  HandleInv'
BY ConversationCallFrame DEF TypeOK, HandleInv

LEMMA HandleRequestCall ==
    ASSUME TypeOK, HandleInv, NEW r \in Requests, RequestCall(r)
    PROVE  HandleInv'
<1> USE DEF TypeOK, HandleInv, Goto, Emit
<1>1. CASE StartInvalid(r)
  BY <1>1 DEF StartInvalid
<1>2. CASE StartClaim(r)
  BY <1>2 DEF StartClaim
<1>3. CASE StartBusy(r)
  BY <1>3 DEF StartBusy
<1>4. CASE StreamCancel(r)
  BY <1>4 DEF StreamCancel
<1>5. CASE StreamFree(r)
  BY <1>5 DEF StreamFree
<1>6. CASE StreamFreeReturns(r)
  BY <1>6 DEF StreamFreeReturns
<1> QED
  BY <1>1, <1>2, <1>3, <1>4, <1>5, <1>6 DEF RequestCall

LEMMA HandleRequestStep ==
    ASSUME TypeOK, HandleInv, NEW r \in Requests, RequestStep(r)
    PROVE  HandleInv'
<1> USE DEF TypeOK, HandleInv, Goto, Emit
<1>1. CASE SpawnThread(r)
  BY <1>1 DEF SpawnThread
<1>2. CASE SpawnFails(r)
  BY <1>2 DEF SpawnFails
<1>3. CASE RejectError(r)
  BY <1>3 DEF RejectError
<1>4. CASE SendCommand(r)
  BY <1>4 DEF SendCommand
<1>5. CASE SendFails(r)
  BY <1>5 DEF SendFails
<1>6. CASE SendError(r)
  BY <1>6 DEF SendError
<1>7. CASE ReceiveReply(r)
  BY <1>7 DEF ReceiveReply
<1>8. CASE ReleaseBusy(r)
  BY <1>8 DEF ReleaseBusy
<1>9. CASE EmitDone(r)
  BY <1>9 DEF EmitDone
<1> QED
  BY <1>1, <1>2, <1>3, <1>4, <1>5, <1>6, <1>7, <1>8, <1>9 DEF RequestStep

-----------------------------------------------------------------------------
(* busy admits one request at a time.                                      *)

LEMMA BusyWorkerStep ==
    ASSUME TypeOK, HandleInv, BusyInv, WorkerStep
    PROVE  BusyInv'
BY WorkerStepFrame DEF BusyInv, OneRequestAtATime, BusyHeld, InProgress, SpawnFailed

LEMMA BusyConversationCall ==
    ASSUME TypeOK, HandleInv, BusyInv, ConversationCall
    PROVE  BusyInv'
BY ConversationCallFrame DEF BusyInv, OneRequestAtATime, BusyHeld, InProgress, SpawnFailed

LEMMA BusyRequestCall ==
    ASSUME TypeOK, HandleInv, BusyInv, NEW r \in Requests, RequestCall(r)
    PROVE  BusyInv'
<1> USE DEF TypeOK, HandleInv, BusyInv, OneRequestAtATime, BusyHeld, InProgress,
            SpawnFailed, Goto, Emit
<1>1. CASE StartInvalid(r)
  BY <1>1 DEF StartInvalid
<1>2. CASE StartClaim(r)
  BY <1>2 DEF StartClaim
<1>3. CASE StartBusy(r)
  BY <1>3 DEF StartBusy
<1>4. CASE StreamCancel(r)
  BY <1>4 DEF StreamCancel
<1>5. CASE StreamFree(r)
  BY <1>5 DEF StreamFree
<1>6. CASE StreamFreeReturns(r)
  BY <1>6 DEF StreamFreeReturns
<1> QED
  BY <1>1, <1>2, <1>3, <1>4, <1>5, <1>6 DEF RequestCall

LEMMA BusyRequestStep ==
    ASSUME TypeOK, HandleInv, BusyInv, NEW r \in Requests, RequestStep(r)
    PROVE  BusyInv'
<1> USE DEF TypeOK, HandleInv, BusyInv, OneRequestAtATime, BusyHeld, InProgress,
            SpawnFailed, Goto, Emit
<1>1. CASE SpawnThread(r)
  BY <1>1 DEF SpawnThread
<1>2. CASE SpawnFails(r)
  BY <1>2 DEF SpawnFails
<1>3. CASE RejectError(r)
  BY <1>3 DEF RejectError
<1>4. CASE SendCommand(r)
  BY <1>4 DEF SendCommand
<1>5. CASE SendFails(r)
  BY <1>5 DEF SendFails
<1>6. CASE SendError(r)
  BY <1>6 DEF SendError
<1>7. CASE ReceiveReply(r)
  BY <1>7 DEF ReceiveReply
<1>8. CASE ReleaseBusy(r)
  BY <1>8 DEF ReleaseBusy
<1>9. CASE EmitDone(r)
  BY <1>9 DEF EmitDone
<1> QED
  BY <1>1, <1>2, <1>3, <1>4, <1>5, <1>6, <1>7, <1>8, <1>9 DEF RequestStep

-----------------------------------------------------------------------------
(* A command is in one place, and its thread waits.                        *)

LEMMA AppendCases ==
    ASSUME NEW S, NEW q \in Seq(S), NEW x \in S
    PROVE  /\ Len(q) \in Nat
           /\ Len(Append(q, x)) = Len(q) + 1
           /\ Append(q, x)[Len(q) + 1] = x
           /\ \A i \in 1..Len(q) : Append(q, x)[i] = q[i]
           /\ \A i \in 1..(Len(q) + 1) : i \in 1..Len(q) \/ i = Len(q) + 1
BY AppendProperties, LenProperties

LEMMA QueueWorkerStep ==
    ASSUME TypeOK, QueueInv, WorkerStep
    PROVE  QueueInv'
<1> USE DEF TypeOK, QueueInv, ServedRequestWaits, Queued, Serving, Commands, Goto, Emit,
            workerVars, threadVars
<1> USE ConstantsAssumption DEF ConstantsAssumption
<1>1. CASE BuildSucceeds
  BY <1>1 DEF BuildSucceeds
<1>2. CASE BuildFails
  BY <1>2 DEF BuildFails
<1>3. CASE TakeMessage
  BY <1>3 DEF TakeMessage
<1>4. CASE TakeCancel
  BY <1>4 DEF TakeCancel
<1>5. CASE TakeShutdown
  <2>1. queue' = <<>> /\ Len(queue') = 0 /\ UNCHANGED <<current, pc>>
    BY <1>5, EmptySeq DEF TakeShutdown
  <2>2. current \notin Requests /\ worker' \notin Serving
    BY <1>5 DEF TakeShutdown
  <2>3. ASSUME NEW r \in Requests, reply'[r] # reply[r]
        PROVE  pc[r] = "waiting"
    BY <1>5, <2>3 DEF TakeShutdown
  <2> QED
    BY <2>1, <2>2, <2>3
<1>6. CASE DropState
  BY <1>6 DEF DropState
<1>7. CASE CheckBefore
  BY <1>7 DEF CheckBefore
<1>8. CASE NativeReturns
  BY <1>8 DEF NativeReturns
<1>9. CASE NativePanics
  BY <1>9 DEF NativePanics
<1>10. CASE CheckAfter
  BY <1>10 DEF CheckAfter
<1>11. CASE EmitNext
  BY <1>11 DEF EmitNext
<1>12. CASE SendReply
  BY <1>12 DEF SendReply
<1> QED
  BY <1>1, <1>2, <1>3, <1>4, <1>5, <1>6, <1>7, <1>8, <1>9, <1>10, <1>11, <1>12 DEF WorkerStep

LEMMA QueueConversationCall ==
    ASSUME TypeOK, QueueInv, ConvInv, ConversationCall
    PROVE  QueueInv'
<1>0. conv = "none" => worker = "none"
  BY DEF ConvInv
<1> USE DEF TypeOK, QueueInv, ServedRequestWaits, Queued, Serving, Commands, Goto, Emit,
            workerVars, threadVars
<1> USE ConstantsAssumption DEF ConstantsAssumption
<1>1. CASE CreateStart
  BY <1>0, <1>1 DEF CreateStart
<1>2. CASE CreateSpawnFails
  BY <1>2 DEF CreateSpawnFails
<1>3. CASE CreateReturns
  BY <1>3 DEF CreateReturns
<1>4. CASE ConversationCancel
  BY <1>4 DEF ConversationCancel
<1>5. CASE ConversationFree
  BY <1>5 DEF ConversationFree
<1>6. CASE SendShutdown
  BY <1>6 DEF SendShutdown
<1>7. CASE ConversationFreeReturns
  BY <1>7 DEF ConversationFreeReturns
<1> QED
  BY <1>1, <1>2, <1>3, <1>4, <1>5, <1>6, <1>7 DEF ConversationCall

LEMMA QueueRequestCall ==
    ASSUME TypeOK, QueueInv, NEW r \in Requests, RequestCall(r)
    PROVE  QueueInv'
<1> USE DEF TypeOK, QueueInv, ServedRequestWaits, Queued, Serving, Commands, Goto, Emit,
            workerVars, threadVars
<1>1. CASE StartInvalid(r)
  BY <1>1 DEF StartInvalid
<1>2. CASE StartClaim(r)
  BY <1>2 DEF StartClaim
<1>3. CASE StartBusy(r)
  BY <1>3 DEF StartBusy
<1>4. CASE StreamCancel(r)
  BY <1>4 DEF StreamCancel
<1>5. CASE StreamFree(r)
  BY <1>5 DEF StreamFree
<1>6. CASE StreamFreeReturns(r)
  BY <1>6 DEF StreamFreeReturns
<1> QED
  BY <1>1, <1>2, <1>3, <1>4, <1>5, <1>6 DEF RequestCall

LEMMA QueueRequestStep ==
    ASSUME TypeOK, QueueInv, NEW r \in Requests, RequestStep(r)
    PROVE  QueueInv'
<1> USE DEF TypeOK, QueueInv, ServedRequestWaits, Queued, Serving, Commands, Goto, Emit,
            workerVars, threadVars
<1>1. CASE SpawnThread(r)
  BY <1>1 DEF SpawnThread
<1>2. CASE SpawnFails(r)
  BY <1>2 DEF SpawnFails
<1>3. CASE RejectError(r)
  BY <1>3 DEF RejectError
<1>4. CASE SendCommand(r)
  <2>1. ~Queued(r) /\ current # r /\ reply[r] = "none"
    BY <1>4 DEF SendCommand
  <2>2. /\ queue' = Append(queue, r)
        /\ pc' = [pc EXCEPT ![r] = "waiting"]
        /\ UNCHANGED <<current, worker, reply>>
    BY <1>4 DEF SendCommand
  <2>3. /\ Len(queue) \in Nat
        /\ Len(queue') = Len(queue) + 1
        /\ queue'[Len(queue) + 1] = r
        /\ \A i \in 1..Len(queue) : queue'[i] = queue[i]
        /\ \A i \in 1..Len(queue') : i \in 1..Len(queue) \/ i = Len(queue) + 1
    BY <2>2, AppendCases
  <2>5. ServedRequestWaits'
    BY <2>1, <2>2, <2>3
  <2>6. \A i, j \in 1..Len(queue') : queue'[i] = queue'[j] /\ queue'[i] \in Requests => i = j
    <3>1. \A i \in 1..Len(queue) : queue[i] # r
      BY <2>1
    <3>2. SUFFICES ASSUME NEW i \in 1..Len(queue'), NEW j \in 1..Len(queue'),
                          queue'[i] = queue'[j], queue'[i] \in Requests
                   PROVE  i = j
      OBVIOUS
    <3>3. CASE i \in 1..Len(queue) /\ j \in 1..Len(queue)
      <4>1. queue[i] = queue[j] /\ queue[i] \in Requests
        BY <2>3, <3>2, <3>3
      <4> QED
        BY <3>3, <4>1
    <3>4. CASE i \notin 1..Len(queue)
      <4>1. i = Len(queue) + 1 /\ queue'[j] = r
        BY <2>3, <3>2, <3>4
      <4> QED
        BY <2>3, <3>1, <4>1
    <3>5. CASE j \notin 1..Len(queue)
      <4>1. j = Len(queue) + 1 /\ queue'[i] = r
        BY <2>3, <3>2, <3>5
      <4> QED
        BY <2>3, <3>1, <4>1
    <3> QED
      BY <3>3, <3>4, <3>5
  <2>7. \A i \in 1..Len(queue') : queue'[i] \in Requests => queue'[i] # current'
    BY <2>1, <2>2, <2>3
  <2> QED
    BY <2>1, <2>2, <2>5, <2>6, <2>7
<1>5. CASE SendFails(r)
  BY <1>5 DEF SendFails
<1>6. CASE SendError(r)
  BY <1>6 DEF SendError
<1>7. CASE ReceiveReply(r)
  BY <1>7 DEF ReceiveReply
<1>8. CASE ReleaseBusy(r)
  BY <1>8 DEF ReleaseBusy
<1>9. CASE EmitDone(r)
  BY <1>9 DEF EmitDone
<1> QED
  BY <1>1, <1>2, <1>3, <1>4, <1>5, <1>6, <1>7, <1>8, <1>9 DEF RequestStep

-----------------------------------------------------------------------------
(* The worker ends for a reason.                                           *)

LEMMA ConvWorkerStep ==
    ASSUME TypeOK, QueueInv, ConvInv, WorkerStep
    PROVE  ConvInv'
<1> USE DEF TypeOK, ConvInv, QueueInv, InProgress, Serving, Commands, Goto, Emit, workerVars, threadVars
<1> USE ConstantsAssumption DEF ConstantsAssumption
<1>1. CASE BuildSucceeds
  BY <1>1 DEF BuildSucceeds
<1>2. CASE BuildFails
  BY <1>2 DEF BuildFails
<1>3. CASE TakeMessage
  BY <1>3 DEF TakeMessage
<1>4. CASE TakeCancel
  BY <1>4 DEF TakeCancel
<1>5. CASE TakeShutdown
  BY <1>5 DEF TakeShutdown
<1>6. CASE DropState
  BY <1>6 DEF DropState
<1>7. CASE CheckBefore
  BY <1>7 DEF CheckBefore
<1>8. CASE NativeReturns
  BY <1>8 DEF NativeReturns
<1>9. CASE NativePanics
  BY <1>9 DEF NativePanics
<1>10. CASE CheckAfter
  BY <1>10 DEF CheckAfter
<1>11. CASE EmitNext
  BY <1>11 DEF EmitNext
<1>12. CASE SendReply
  BY <1>12 DEF SendReply, Codes
<1> QED
  BY <1>1, <1>2, <1>3, <1>4, <1>5, <1>6, <1>7, <1>8, <1>9, <1>10, <1>11, <1>12 DEF WorkerStep

LEMMA ConvConversationCall ==
    ASSUME TypeOK, QueueInv, ConvInv, ConversationCall
    PROVE  ConvInv'
<1> USE DEF TypeOK, ConvInv, QueueInv, InProgress, Serving, Commands, Goto, Emit, workerVars, threadVars
<1> USE ConstantsAssumption DEF ConstantsAssumption
<1>1. CASE CreateStart
  BY <1>1 DEF CreateStart
<1>2. CASE CreateSpawnFails
  BY <1>2 DEF CreateSpawnFails
<1>3. CASE CreateReturns
  BY <1>3 DEF CreateReturns
<1>4. CASE ConversationCancel
  BY <1>4 DEF ConversationCancel
<1>5. CASE ConversationFree
  BY <1>5 DEF ConversationFree
<1>6. CASE SendShutdown
  BY <1>6 DEF SendShutdown
<1>7. CASE ConversationFreeReturns
  BY <1>7 DEF ConversationFreeReturns
<1> QED
  BY <1>1, <1>2, <1>3, <1>4, <1>5, <1>6, <1>7 DEF ConversationCall

LEMMA ConvRequestCall ==
    ASSUME TypeOK, QueueInv, ConvInv, NEW r \in Requests, RequestCall(r)
    PROVE  ConvInv'
<1> USE DEF TypeOK, ConvInv, InProgress, Goto, workerVars
<1>1. CASE StartInvalid(r)
  BY <1>1 DEF StartInvalid
<1>2. CASE StartClaim(r)
  BY <1>2 DEF StartClaim
<1>3. CASE StartBusy(r)
  BY <1>3 DEF StartBusy
<1>4. CASE StreamCancel(r)
  BY <1>4 DEF StreamCancel
<1>5. CASE StreamFree(r)
  BY <1>5 DEF StreamFree
<1>6. CASE StreamFreeReturns(r)
  BY <1>6 DEF StreamFreeReturns
<1> QED
  BY <1>1, <1>2, <1>3, <1>4, <1>5, <1>6 DEF RequestCall

LEMMA ConvRequestStep ==
    ASSUME TypeOK, QueueInv, ConvInv, NEW r \in Requests, RequestStep(r)
    PROVE  ConvInv'
<1> USE DEF TypeOK, ConvInv, QueueInv, InProgress, Serving, Commands, Goto, Emit, workerVars, threadVars
<1> USE ConstantsAssumption DEF ConstantsAssumption
<1>1. CASE SpawnThread(r)
  BY <1>1 DEF SpawnThread
<1>2. CASE SpawnFails(r)
  BY <1>2 DEF SpawnFails
<1>3. CASE RejectError(r)
  BY <1>3 DEF RejectError
<1>4. CASE SendCommand(r)
  BY <1>4 DEF SendCommand, ReceiverOpen
<1>5. CASE SendFails(r)
  BY <1>5 DEF SendFails
<1>6. CASE SendError(r)
  BY <1>6 DEF SendError
<1>7. CASE ReceiveReply(r)
  BY <1>7 DEF ReceiveReply
<1>8. CASE ReleaseBusy(r)
  BY <1>8 DEF ReleaseBusy
<1>9. CASE EmitDone(r)
  BY <1>9 DEF EmitDone
<1> QED
  BY <1>1, <1>2, <1>3, <1>4, <1>5, <1>6, <1>7, <1>8, <1>9 DEF RequestStep

-----------------------------------------------------------------------------
(* The inductive invariant, and what follows from it.                      *)

LEMMA InvInit == Init => IInv
<1>1. ASSUME Init PROVE HandleInv /\ BusyInv /\ QueueInv /\ ConvInv
  <2>. USE <1>1 DEF Init
  <2>1. queue = <<>> /\ Len(queue) = 0
    BY EmptySeq
  <2>2. HandleInv
    BY DEF HandleInv
  <2>3. BusyInv
    BY DEF BusyInv, OneRequestAtATime, BusyHeld, InProgress, SpawnFailed
  <2>4. QueueInv
    BY <2>1, ConstantsAssumption
       DEF QueueInv, ServedRequestWaits, Queued, Serving, ConstantsAssumption
  <2>5. ConvInv
    BY <2>1 DEF ConvInv, InProgress
  <2> QED
    BY <2>2, <2>3, <2>4, <2>5
<1> QED
  BY <1>1, TypeInit DEF IInv

LEMMA InvNext == IInv /\ [Next]_vars => IInv'
<1> SUFFICES ASSUME IInv, [Next]_vars PROVE IInv'
  OBVIOUS
<1>0. TypeOK /\ HandleInv /\ BusyInv /\ QueueInv /\ ConvInv
  BY DEF IInv
<1>1. CASE WorkerStep
  BY <1>0, <1>1, TypeWorkerStep, HandleWorkerStep, BusyWorkerStep, QueueWorkerStep,
     ConvWorkerStep DEF IInv
<1>2. CASE ConversationCall
  BY <1>0, <1>2, TypeConversationCall, HandleConversationCall, BusyConversationCall,
     QueueConversationCall, ConvConversationCall DEF IInv
<1>3. ASSUME NEW r \in Requests, RequestCall(r) PROVE IInv'
  BY <1>0, <1>3, TypeRequestCall, HandleRequestCall, BusyRequestCall, QueueRequestCall,
     ConvRequestCall DEF IInv
<1>4. ASSUME NEW r \in Requests, RequestStep(r) PROVE IInv'
  BY <1>0, <1>4, TypeRequestStep, HandleRequestStep, BusyRequestStep, QueueRequestStep,
     ConvRequestStep DEF IInv
<1>5. CASE UNCHANGED vars
  BY <1>0, <1>5 DEF vars, workerVars, threadVars, IInv, TypeOK, HandleInv, BusyInv, QueueInv,
     ConvInv, OneRequestAtATime, BusyHeld, ServedRequestWaits, Queued, InProgress, SpawnFailed
<1> QED
  BY <1>1, <1>2, <1>3, <1>4, <1>5, FinishedFrame DEF Next

\* The invariant holds in every reachable state.
THEOREM Invariant == Spec => []IInv
BY InvInit, InvNext, PTL DEF Spec

\* Every variable keeps to its type.
THEOREM TypeCorrect == Spec => []TypeOK
<1>1. IInv => TypeOK
  BY DEF IInv
<1> QED
  BY <1>1, Invariant, PTL

\* However many calls of start there are, the compare_exchange on busy lets
\* one at most in until it stores busy = false.
THEOREM MutualExclusion == Spec => []OneRequestAtATime
<1>1. IInv => OneRequestAtATime
  BY DEF IInv, BusyInv
<1> QED
  BY <1>1, Invariant, PTL

\* busy is never left set but by a failed spawn, and never clear while a
\* request is in progress.
THEOREM BusyIsHeld == Spec => []BusyHeld
<1>1. IInv => BusyHeld
  BY DEF IInv, BusyInv
<1> QED
  BY <1>1, Invariant, PTL

\* The worker holds no request but of a thread that waits for its answer.
THEOREM ServedWaits == Spec => []ServedRequestWaits
<1>1. IInv => ServedRequestWaits
  BY DEF IInv, QueueInv
<1> QED
  BY <1>1, Invariant, PTL

\* A callback of r comes from r's own call or thread, at one of three
\* points, or from the worker while r's thread waits for it.
LEMMA CallbackSource ==
    ASSUME IInv, [Next]_vars, NEW r \in Requests, trace'[r] # trace[r]
    PROVE  \/ /\ pc[r] \in {"rejecting", "failing", "announcing"}
              /\ \/ trace' = [trace EXCEPT ![r] = Append(@, "error")]
                 \/ trace' = [trace EXCEPT ![r] = Append(@, "done")]
           \/ EmitNext /\ current = r /\ worker = "emitting" /\ pc[r] = "waiting"
<1>0. TypeOK /\ QueueInv
  BY DEF IInv
<1>1. CASE WorkerStep
  <2>1. trace' = trace \/ EmitNext
    BY <1>1 DEF WorkerStep, BuildSucceeds, BuildFails, TakeMessage, TakeCancel, TakeShutdown,
       DropState, CheckBefore, NativeReturns, NativePanics, CheckAfter, SendReply
  <2>2. EmitNext /\ current = r /\ worker = "emitting"
    BY <1>0, <2>1 DEF EmitNext, Emit, TypeOK
  <2> QED
    BY <1>0, <2>2 DEF QueueInv, ServedRequestWaits
<1>2. CASE ConversationCall
  BY <1>2, ConversationCallFrame
<1>3. ASSUME NEW s \in Requests, RequestCall(s) PROVE FALSE
  BY <1>3, RequestCallFrame
<1>4. ASSUME NEW s \in Requests, RequestStep(s)
      PROVE  /\ pc[r] \in {"rejecting", "failing", "announcing"}
             /\ \/ trace' = [trace EXCEPT ![r] = Append(@, "error")]
                \/ trace' = [trace EXCEPT ![r] = Append(@, "done")]
  <2>1. trace' = trace \/ RejectError(s) \/ SendError(s) \/ EmitDone(s)
    BY <1>4 DEF RequestStep, SpawnThread, SpawnFails, SendCommand, SendFails, ReceiveReply,
       ReleaseBusy
  <2> QED
    BY <1>0, <2>1 DEF RejectError, SendError, EmitDone, Emit, TypeOK
<1>5. CASE UNCHANGED vars
  BY <1>5 DEF vars
<1> QED
  BY <1>1, <1>2, <1>3, <1>4, <1>5, FinishedFrame DEF Next

\* stream_free joined the thread, so no callback of r is made after it.
THEOREM SilentAfterStreamFree == Spec => NoCallbackAfterStreamFree
<1>1. IInv /\ [Next]_vars =>
         [\A r \in Requests : handle[r] = "freed" => trace'[r] = trace[r]]_vars
  <2> SUFFICES ASSUME IInv, [Next]_vars, NEW r \in Requests, handle[r] = "freed"
               PROVE  trace'[r] = trace[r]
    OBVIOUS
  <2>1. pc[r] = "ended"
    BY DEF IInv, HandleInv
  <2> QED
    BY <2>1, CallbackSource
<1> QED
  BY <1>1, Invariant, PTL DEF Spec, NoCallbackAfterStreamFree

\* conversation_free joined the worker, so no part of a response comes
\* after it: what is left to come is a thread's on_error or on_done.
THEOREM NoResponseAfterFree == Spec => NoResponseAfterConversationFree
<1> DEFINE Last(r) == trace'[r][Len(trace'[r])]
<1>1. IInv /\ [Next]_vars =>
         [conv = "freed" => \A r \in Requests :
             trace'[r] # trace[r] => Last(r) \in {"error", "done"}]_vars
  <2> SUFFICES ASSUME IInv, [Next]_vars, conv = "freed", NEW r \in Requests,
                      trace'[r] # trace[r]
               PROVE  Last(r) \in {"error", "done"}
    OBVIOUS
  <2>1. worker # "emitting"
    BY DEF IInv, ConvInv
  <2>2. trace'[r] = Append(trace[r], "error") \/ trace'[r] = Append(trace[r], "done")
    BY <2>1, CallbackSource DEF IInv, TypeOK
  <2>3. trace[r] \in Seq(Callbacks \cup {"done"})
    BY DEF IInv, TypeOK
  <2> QED
    BY <2>2, <2>3, AppendProperties DEF Callbacks
<1> QED
  BY <1>1, Invariant, PTL DEF Spec, NoResponseAfterConversationFree

-----------------------------------------------------------------------------
(* The callbacks and the codes fit together.                               *)

LEMMA AnswerFrame ==
    ASSUME NEW r \in Requests, AnswerOf(r),
           pc'[r] = pc[r], code'[r] = code[r], trace'[r] = trace[r], reply'[r] = reply[r],
           current = r <=> current' = r,
           current = r => UNCHANGED <<worker, outbox, verdict>>,
           conv \in {"joining", "freed"} => conv' \in {"joining", "freed"}
    PROVE  AnswerOf(r)'
BY DEF AnswerOf, Answered

LEMMA AnswerConversationCall ==
    ASSUME IInv, AnswerInv, ConversationCall
    PROVE  AnswerInv'
<1>1. current \in Requests => worker' = worker
  <2>1. CASE CreateStart
    <3>1. worker = "none"
      BY <2>1 DEF CreateStart, IInv, ConvInv
    <3> QED
      BY <3>1 DEF IInv, QueueInv, Serving
  <2>2. CASE ~CreateStart
    BY <2>2 DEF ConversationCall, CreateSpawnFails, CreateReturns, ConversationCancel,
       ConversationFree, SendShutdown, ConversationFreeReturns, workerVars
  <2> QED
    BY <2>1, <2>2
<1>2. conv \in {"joining", "freed"} => conv' \in {"joining", "freed"}
  BY DEF ConversationCall, CreateStart, CreateSpawnFails, CreateReturns, ConversationCancel,
     ConversationFree, SendShutdown, ConversationFreeReturns
<1> QED
  BY <1>1, <1>2, ConversationCallFrame, AnswerFrame DEF AnswerInv

LEMMA AnswerRequestCall ==
    ASSUME IInv, AnswerInv, NEW r \in Requests, RequestCall(r)
    PROVE  AnswerInv'
<1> SUFFICES ASSUME NEW q \in Requests PROVE AnswerOf(q)'
  BY DEF AnswerInv
<1>0. TypeOK /\ AnswerOf(q) /\ (pc[q] = "idle" => current # q)
  BY DEF IInv, AnswerInv, QueueInv, ServedRequestWaits
<1>1. CASE pc[r] = "idle" /\ q = r
  <2>1. pc'[r] \in {"rejecting", "claimed", "idle"} /\ UNCHANGED <<conv, current, trace, reply>>
    BY <1>0, <1>1, RequestCallFrame
       DEF RequestCall, StartInvalid, StartClaim, StartBusy, StreamCancel, StreamFree,
           StreamFreeReturns, TypeOK, Goto
  <2>2. pc'[r] = "rejecting" => code'[r] \in {"INVALID", "BUSY"}
    BY <1>0, <1>1
       DEF RequestCall, StartInvalid, StartClaim, StartBusy, StreamCancel, StreamFree,
           StreamFreeReturns, TypeOK, Goto
  <2> QED
    BY <1>0, <1>1, <2>1, <2>2 DEF AnswerOf
<1>2. CASE ~(pc[r] = "idle" /\ q = r)
  <2>1. pc'[q] = pc[q] /\ code'[q] = code[q]
    BY <1>0, <1>2
       DEF RequestCall, StartInvalid, StartClaim, StartBusy, StreamCancel, StreamFree,
           StreamFreeReturns, TypeOK, Goto
  <2> QED
    BY <1>0, <2>1, RequestCallFrame, AnswerFrame
<1> QED
  BY <1>1, <1>2

LEMMA AnswerRequestStep ==
    ASSUME IInv, AnswerInv, NEW r \in Requests, RequestStep(r)
    PROVE  AnswerInv'
<1> SUFFICES ASSUME NEW q \in Requests PROVE AnswerOf(q)'
  BY DEF AnswerInv
<1>0. /\ TypeOK /\ AnswerOf(q) /\ AnswerOf(r)
      /\ current = r => pc[r] = "waiting" /\ reply[r] = "none"
      /\ pc[r] = "running" => reply[r] = "none"
      /\ reply[r] = "dropped" => conv \in {"joining", "freed"}
  BY DEF IInv, AnswerInv, QueueInv, ConvInv, ServedRequestWaits
<1>a. CASE q # r
  <2>1. pc'[q] = pc[q] /\ code'[q] = code[q] /\ trace'[q] = trace[q]
    BY <1>0, <1>a
       DEF RequestStep, SpawnThread, SpawnFails, RejectError, SendCommand, SendFails, SendError,
           ReceiveReply, ReleaseBusy, EmitDone, TypeOK, Goto, Emit
  <2> QED
    BY <1>0, <2>1, RequestStepFrame, AnswerFrame
<1>b. ASSUME q = r PROVE AnswerOf(r)'
  <2>. UNCHANGED <<conv, worker, current, outbox, verdict, reply>>
    BY RequestStepFrame
  <2>. USE <1>0 DEF TypeOK, Goto, Emit
  <2>1. CASE SpawnThread(r)
    BY <2>1 DEF SpawnThread, AnswerOf, Answered, Replied, Callbacks
  <2>2. CASE SpawnFails(r)
    BY <2>2 DEF SpawnFails, AnswerOf, Answered, Replied, Callbacks
  <2>3. CASE RejectError(r)
    BY <2>3 DEF RejectError, AnswerOf, Answered, Replied, Callbacks
  <2>4. CASE SendCommand(r)
    BY <2>4 DEF SendCommand, AnswerOf, Answered, Replied, Callbacks
  <2>5. CASE SendFails(r)
    BY <2>5 DEF SendFails, AnswerOf, Answered, Replied, Callbacks
  <2>6. CASE SendError(r)
    BY <2>6 DEF SendError, AnswerOf, Answered, Replied, Callbacks
  <2>7. CASE ReceiveReply(r)
    BY <2>7 DEF ReceiveReply, AnswerOf, Answered, Replied, Callbacks
  <2>8. CASE ReleaseBusy(r)
    BY <2>8 DEF ReleaseBusy, AnswerOf, Answered, Replied, Callbacks
  <2>9. CASE EmitDone(r)
    <3>1. /\ pc'[r] = "ended" /\ code'[r] = code[r] /\ trace'[r] = Append(trace[r], "done")
          /\ trace[r] \in Seq(Callbacks) /\ Answered(trace[r], code[r]) /\ current # r
      BY <2>9 DEF EmitDone, AnswerOf
    <3>2. ASSUME code[r] = "STREAM_FAILED", trace'[r] = <<"done">>
          PROVE  conv \in {"joining", "freed"}
      <4>1. Len(trace[r]) + 1 = 1 /\ Len(trace[r]) \in Nat
        BY <3>1, <3>2, AppendProperties, LenProperties
      <4>2. trace[r] = <<>>
        BY <3>1, <4>1, EmptySeq
      <4> QED
        BY <3>1, <3>2, <4>2 DEF Answered, Replied
    <3> QED
      BY <3>1, <3>2 DEF AnswerOf
  <2> QED
    BY <2>1, <2>2, <2>3, <2>4, <2>5, <2>6, <2>7, <2>8, <2>9 DEF RequestStep
<1> QED
  BY <1>a, <1>b

\* A fresh response is owed in full, in order.
LEMMA ResponseOwed == \A o \in Responses : Owed(<<>>, o, "OK")
<1>1. Owed(<<>>, <<"response">>, "OK")
  BY DEF Owed, Service!Rank
<1>2. Owed(<<>>, <<"text", "response">>, "OK")
  BY DEF Owed, Service!Rank
<1>3. Owed(<<>>, <<"tool_calls", "response">>, "OK")
  BY DEF Owed, Service!Rank
<1>4. Owed(<<>>, <<"text", "tool_calls", "response">>, "OK")
  BY DEF Owed, Service!Rank
<1> QED
  BY <1>1, <1>2, <1>3, <1>4 DEF Responses

\* Making the first callback owed leaves the rest owed, or the end reached.
LEMMA OwedNext ==
    ASSUME NEW t \in Seq(Callbacks), NEW o \in Seq(Callbacks), NEW c, Owed(t, o, c), o # <<>>
    PROVE  /\ Tail(o) # <<>> => Owed(Append(t, Head(o)), Tail(o), c)
           /\ Tail(o) = <<>> => Replied(Append(t, Head(o)), c)
<1> DEFINE u == Append(t, Head(o))
           p == Tail(o)
<1>1. /\ Len(t) \in Nat /\ Len(o) \in Nat \ {0}
      /\ Len(u) = Len(t) + 1 /\ u[Len(t) + 1] = o[1]
      /\ \A i \in 1..Len(t) : u[i] = t[i]
  BY EmptySeq, LenProperties, AppendProperties, HeadTailProperties
<1>2. Len(p) = Len(o) - 1 /\ \A j \in 1..Len(p) : p[j] = o[j + 1]
  BY <1>1, HeadTailProperties
<1>3. CASE t = <<>> /\ o = <<"error">> /\ c \in {"STREAM_FAILED", "PANIC"}
  <2>1. u = <<"error">> /\ p = <<>>
    BY <1>3
  <2> QED
    BY <1>3, <2>1 DEF Replied
<1>4. CASE /\ c = "OK" /\ o[Len(o)] = "response"
           /\ \A j \in 1..Len(o) :
                 /\ o[j] \in DOMAIN Service!Rank
                 /\ \A k \in 1..Len(o) : j < k => Service!Rank[o[j]] < Service!Rank[o[k]]
                 /\ \A i \in 1..Len(t) : /\ t[i] \in DOMAIN Service!Rank
                                         /\ Service!Rank[t[i]] < Service!Rank[o[j]]
  <2>1. CASE p = <<>>
    <3>1. Len(o) = 1
      <4>1. Len(p) = 0
        BY <2>1, EmptySeq
      <4>2. Len(o) \in Nat /\ Len(p) = Len(o) - 1
        BY <1>1, <1>2
      <4> HIDE DEF p
      <4> QED
        BY <4>1, <4>2
    <3> QED
      BY <1>1, <1>4, <2>1, <3>1 DEF Replied
  <2>2. CASE p # <<>>
    <3>1. Len(o) > 1 /\ p[Len(p)] = "response"
      BY <1>1, <1>2, <1>4, <2>2, HeadTailProperties
    <3>2. ASSUME NEW j \in 1..Len(p)
          PROVE  /\ p[j] \in DOMAIN Service!Rank
                 /\ \A k \in 1..Len(p) : j < k => Service!Rank[p[j]] < Service!Rank[p[k]]
                 /\ \A i \in 1..Len(u) : /\ u[i] \in DOMAIN Service!Rank
                                         /\ Service!Rank[u[i]] < Service!Rank[p[j]]
      <4>1. j + 1 \in 1..Len(o) /\ 1 \in 1..Len(o) /\ p[j] = o[j + 1]
        BY <1>1, <1>2
      <4>2. \A k \in 1..Len(p) : j < k => k + 1 \in 1..Len(o) /\ j + 1 < k + 1 /\ p[k] = o[k + 1]
        BY <1>1, <1>2
      <4>3. ASSUME NEW i \in 1..Len(u)
            PROVE  u[i] \in DOMAIN Service!Rank /\ Service!Rank[u[i]] < Service!Rank[p[j]]
        <5>1. CASE i = Len(t) + 1
          BY <1>1, <1>4, <4>1, <5>1
        <5>2. CASE i # Len(t) + 1
          <6>1. i \in 1..Len(t) /\ u[i] = t[i]
            BY <1>1, <5>2
          <6> QED
            BY <1>4, <4>1, <6>1
        <5> QED
          BY <5>1, <5>2
      <4> QED
        BY <1>4, <4>1, <4>2, <4>3
    <3> QED
      BY <1>4, <2>2, <3>1, <3>2 DEF Owed
  <2> QED
    BY <2>1, <2>2
<1> QED
  BY <1>3, <1>4 DEF Owed

LEMMA AnswerWorkerStep ==
    ASSUME IInv, AnswerInv, WorkerStep
    PROVE  AnswerInv'
<1> SUFFICES ASSUME NEW q \in Requests PROVE AnswerOf(q)'
  BY DEF AnswerInv
<1>0. /\ TypeOK /\ AnswerOf(q)
      /\ worker \in Serving <=> current \in Requests
      /\ current = q => pc[q] = "waiting" /\ reply[q] = "none"
      /\ Queued(q) => pc[q] = "waiting" /\ reply[q] = "none" /\ current # q
  BY DEF IInv, AnswerInv, QueueInv, ServedRequestWaits, Queued
<1>f. UNCHANGED <<conv, busy, pc, handle, cancel, code>>
  BY WorkerStepFrame
<1>1. CASE BuildSucceeds \/ BuildFails \/ TakeCancel \/ DropState
  <2>1. current \notin Requests /\ UNCHANGED <<current, trace, reply>>
    BY <1>0, <1>1 DEF BuildSucceeds, BuildFails, TakeCancel, DropState, Serving, workerVars
  <2> QED
    BY <1>0, <1>f, <2>1, AnswerFrame
<1>2. CASE TakeMessage
  <2>1. /\ current \notin Requests /\ UNCHANGED <<trace, reply>>
        /\ worker' = "checking" /\ current' = Head(queue)
    BY <1>0, <1>2 DEF TakeMessage, Serving
  <2>2. CASE current' = q
    <3>1. Queued(q)
      <4>1. queue \in Seq(Commands) /\ queue # <<>> /\ queue[1] = q
        BY <1>0, <1>2, <2>1, <2>2 DEF TakeMessage, TypeOK
      <4>2. 1 \in 1..Len(queue)
        BY <4>1, EmptySeq
      <4> QED
        BY <4>1, <4>2 DEF Queued
    <3> QED
      BY <1>0, <1>f, <2>1, <2>2, <3>1 DEF AnswerOf
  <2>3. CASE current' # q
    BY <1>0, <1>f, <2>1, <2>3, AnswerFrame
  <2> QED
    BY <2>2, <2>3
<1>3. CASE TakeShutdown
  <2>1. /\ current \notin Requests /\ UNCHANGED <<current, trace>>
        /\ reply'[q] = IF Queued(q) THEN "dropped" ELSE reply[q]
    BY <1>0, <1>3 DEF TakeShutdown, Serving, Queued
  <2>2. CASE Queued(q)
    BY <1>0, <1>f, <2>1, <2>2 DEF AnswerOf
  <2>3. CASE ~Queued(q)
    BY <1>0, <1>f, <2>1, <2>3, AnswerFrame
  <2> QED
    BY <2>2, <2>3
<1>4. CASE CheckBefore \/ NativeReturns \/ NativePanics \/ CheckAfter
  <2>0. UNCHANGED <<current, trace, reply>>
    BY <1>4 DEF CheckBefore, NativeReturns, NativePanics, CheckAfter
  <2>1. CASE current # q
    BY <1>0, <1>f, <2>0, <2>1, AnswerFrame
  <2>2. CASE current = q
    <3>. USE <1>0, <1>f, <2>0, <2>2
    <3>0. trace[q] = <<>>
      BY <1>4 DEF AnswerOf, CheckBefore, NativeReturns, NativePanics, CheckAfter
    <3>1. CASE CheckBefore
      <4>1. worker' = "native" \/ (worker' = "replying" /\ verdict' = "CANCELLED")
        BY <3>1 DEF CheckBefore
      <4> QED
        BY <3>0, <4>1 DEF AnswerOf, Replied
    <3>2. CASE NativeReturns
      <4>1. worker' = "returned"
        BY <3>2 DEF NativeReturns
      <4>2. Owed(<<>>, outbox', verdict')
        <5>1. CASE outbox' = <<"error">> /\ verdict' = "STREAM_FAILED"
          BY <5>1 DEF Owed
        <5> QED
          BY <3>2, <5>1, ResponseOwed DEF NativeReturns
      <4> QED
        BY <3>0, <4>1, <4>2 DEF AnswerOf
    <3>3. CASE NativePanics
      <4>1. worker' = "emitting" /\ Owed(<<>>, outbox', verdict')
        BY <3>3 DEF NativePanics, Owed
      <4> QED
        BY <3>0, <4>1 DEF AnswerOf
    <3>4. CASE CheckAfter
      <4>1. CASE cancel[current]
        <5>1. worker' = "replying" /\ verdict' = "CANCELLED"
          BY <3>4, <4>1 DEF CheckAfter
        <5> QED
          BY <3>0, <5>1 DEF AnswerOf, Replied
      <4>2. CASE ~cancel[current]
        <5>1. worker = "returned" /\ worker' = "emitting" /\ UNCHANGED <<outbox, verdict>>
          BY <3>4, <4>2 DEF CheckAfter
        <5> QED
          BY <3>0, <5>1 DEF AnswerOf
      <4> QED
        BY <4>1, <4>2
    <3> QED
      BY <1>4, <3>1, <3>2, <3>3, <3>4
  <2> QED
    BY <2>1, <2>2
<1>5. CASE EmitNext
  <2>0. UNCHANGED <<current, verdict, reply>>
    BY <1>5 DEF EmitNext
  <2>1. CASE current # q
    <3>1. trace'[q] = trace[q]
      BY <1>0, <1>5, <2>1 DEF EmitNext, Emit, TypeOK
    <3> QED
      BY <1>0, <1>f, <2>0, <2>1, <3>1, AnswerFrame
  <2>2. CASE current = q
    <3>1. /\ trace[q] \in Seq(Callbacks) /\ outbox \in Seq(Callbacks) /\ outbox # <<>>
          /\ Owed(trace[q], outbox, verdict)
          /\ trace'[q] = Append(trace[q], Head(outbox)) /\ outbox' = Tail(outbox)
          /\ worker' = IF Tail(outbox) = <<>> THEN "replying" ELSE "emitting"
      BY <1>0, <1>5, <2>2 DEF EmitNext, Emit, TypeOK, AnswerOf
    <3>2. trace'[q] \in Seq(Callbacks)
      BY <3>1, HeadTailProperties, AppendProperties
    <3>3. /\ worker' = "emitting" => Owed(trace'[q], outbox', verdict)
          /\ worker' = "replying" => Replied(trace'[q], verdict)
      BY <3>1, OwedNext
    <3> QED
      BY <1>0, <1>f, <2>0, <2>2, <3>1, <3>2, <3>3 DEF AnswerOf
  <2> QED
    BY <2>1, <2>2
<1>6. CASE SendReply
  <2>0. /\ worker = "replying" /\ worker' = "receiving" /\ current' = NoRequest
        /\ trace' = trace /\ reply' = [reply EXCEPT ![current] = verdict]
        /\ NoRequest \notin Requests
    BY <1>6, ConstantsAssumption DEF SendReply, ConstantsAssumption
  <2>1. CASE current # q
    BY <1>0, <1>f, <2>0, <2>1, AnswerFrame DEF TypeOK
  <2>2. CASE current = q
    <3>1. reply'[q] = verdict /\ verdict \in Codes /\ Replied(trace[q], verdict)
      BY <1>0, <2>0, <2>2 DEF TypeOK, AnswerOf
    <3> QED
      BY <1>0, <1>f, <2>0, <2>2, <3>1 DEF AnswerOf, Codes
  <2> QED
    BY <2>1, <2>2
<1> QED
  BY <1>1, <1>2, <1>3, <1>4, <1>5, <1>6 DEF WorkerStep

LEMMA AnswerInit == Init => AnswerInv
<1> SUFFICES ASSUME Init, NEW r \in Requests PROVE AnswerOf(r)
  BY DEF AnswerInv
<1>1. <<>> \in Seq(Callbacks) /\ r # NoRequest
  BY EmptySeq, ConstantsAssumption DEF ConstantsAssumption
<1> QED
  BY <1>1 DEF Init, AnswerOf

LEMMA AnswerNext == IInv /\ AnswerInv /\ [Next]_vars => AnswerInv'
<1> SUFFICES ASSUME IInv, AnswerInv, [Next]_vars PROVE AnswerInv'
  OBVIOUS
<1>1. CASE UNCHANGED vars
  BY <1>1, AnswerFrame DEF vars, workerVars, threadVars, AnswerInv
<1> QED
  BY <1>1, AnswerWorkerStep, AnswerConversationCall, AnswerRequestCall, AnswerRequestStep,
     FinishedFrame DEF Next

THEOREM AnswerInvariant == Spec => []AnswerInv
BY Invariant, AnswerInit, AnswerNext, PTL DEF Spec

\* A request whose code is STREAM_FAILED was told so by on_error, unless
\* its command was dropped by the worker of a conversation being freed.
THEOREM SilentFailure == Spec => []SilentFailureOnlyAfterFree
<1>1. IInv /\ AnswerInv => SilentFailureOnlyAfterFree
  <2> SUFFICES ASSUME IInv, AnswerInv, NEW r \in Requests,
                      trace[r] = <<"done">>, code[r] = "STREAM_FAILED"
               PROVE  conv \in {"joining", "freed"}
    BY DEF SilentFailureOnlyAfterFree
  <2>1. <<"done">> \notin Seq(Callbacks)
    <3>1. <<"done">>[1] = "done" /\ 1 \in 1..Len(<<"done">>)
      OBVIOUS
    <3> QED
      BY <3>1, ElementOfSeq DEF Callbacks
  <2>2. AnswerOf(r)
    BY DEF AnswerInv
  <2> QED
    BY <2>1, <2>2 DEF AnswerOf
<1> QED
  BY <1>1, Invariant, AnswerInvariant, PTL

\* A cancel stored before the worker's second check silences the response.
THEOREM CancelSilences == Spec => CancelWins
<1>1. IInv /\ [Next]_vars => [\A r \in Requests : Silenced(r) => Silenced(r)']_vars
  <2> SUFFICES ASSUME IInv, [Next]_vars, NEW r \in Requests, Silenced(r)
               PROVE  Silenced(r)'
    OBVIOUS
  <2>0. TypeOK
    BY DEF IInv
  <2>1. cancel'[r]
    <3>1. CASE \E q \in Requests : RequestCall(q)
      BY <2>0, <3>1 DEF RequestCall, StartInvalid, StartClaim, StartBusy, StreamCancel,
         StreamFree, StreamFreeReturns, TypeOK, Silenced
    <3>2. CASE UNCHANGED cancel
      BY <3>2 DEF Silenced
    <3> QED
      BY <3>1, <3>2, WorkerStepFrame, ConversationCallFrame, RequestStepFrame, FinishedFrame
         DEF Next, vars, threadVars
  <2>2. \A i \in 1..Len(trace'[r]) : trace'[r][i] \in {"error", "done"}
    <3>1. CASE trace'[r] = trace[r]
      BY <3>1 DEF Silenced
    <3>2. CASE trace'[r] # trace[r]
      <4>1. \E e \in {"error", "done"} : trace'[r] = Append(trace[r], e)
        <5>1. CASE EmitNext /\ current = r /\ worker = "emitting" /\ pc[r] = "waiting"
          <6>1. outbox = <<"error">>
            BY <5>1 DEF Silenced
          <6> QED
            BY <2>0, <5>1, <6>1 DEF EmitNext, Emit, TypeOK
        <5> QED
          BY <2>0, <3>2, <5>1, CallbackSource DEF TypeOK
      <4>2. trace[r] \in Seq(Callbacks \cup {"done"})
        BY <2>0 DEF TypeOK
      <4> QED
        BY <4>1, <4>2, AppendCases DEF Silenced, Callbacks
    <3> QED
      BY <3>1, <3>2
  <2>3. current' = r /\ worker' = "emitting" => outbox' = <<"error">>
    <3>1. CASE WorkerStep
      <4>1. CASE NativePanics
        BY <4>1 DEF NativePanics
      <4>2. CASE CheckAfter
        BY <4>2 DEF CheckAfter, Silenced
      <4>3. CASE EmitNext
        <5> SUFFICES ASSUME current' = r, worker' = "emitting" PROVE FALSE
          OBVIOUS
        <5>1. outbox = <<"error">> /\ Tail(outbox) # <<>>
          BY <4>3 DEF EmitNext, Silenced
        <5>2. Tail(<<"error">>) = <<>>
          OBVIOUS
        <5> QED
          BY <5>1, <5>2
      <4>4. CASE ~(NativePanics \/ CheckAfter \/ EmitNext)
        BY <3>1, <4>4 DEF WorkerStep, BuildSucceeds, BuildFails, TakeMessage, TakeCancel,
           TakeShutdown, DropState, CheckBefore, NativeReturns, SendReply, workerVars
      <4> QED
        BY <4>1, <4>2, <4>3, <4>4
    <3>2. CASE ConversationCall
      BY <3>2, ConversationCallFrame DEF ConversationCall, CreateStart, CreateSpawnFails,
         CreateReturns, ConversationCancel, ConversationFree, SendShutdown,
         ConversationFreeReturns, workerVars, Silenced
    <3>3. CASE UNCHANGED <<worker, current, outbox>>
      BY <3>3 DEF Silenced
    <3> QED
      BY <3>1, <3>2, <3>3, RequestCallFrame, RequestStepFrame, FinishedFrame
         DEF Next, vars, workerVars
  <2> QED
    BY <2>1, <2>2, <2>3 DEF Silenced
<1> QED
  BY <1>1, Invariant, PTL DEF Spec, CancelWins

-----------------------------------------------------------------------------
(* UeConversation implements ConversationService: its safety part.         *)

LEMMA StatusMoves ==
    ASSUME TypeOK, NEW r \in Requests, NEW l, pc' = [pc EXCEPT ![r] = l]
    PROVE  serviceStatus' = [serviceStatus EXCEPT ![r] = StatusAt(l)]
BY DEF serviceStatus, TypeOK

\* on_done is the only step that shows the host a code.
LEMMA ResultStays ==
    ASSUME TypeOK, NEW r \in Requests, pc[r] # "ended", pc'[r] # "ended",
           \A s \in Requests \ {r} : pc'[s] = pc[s] /\ code'[s] = code[s]
    PROVE  serviceResult' = serviceResult
BY DEF serviceResult, TypeOK

LEMMA StatusOf ==
    ASSUME NEW r \in Requests
    PROVE  serviceStatus[r] = StatusAt(pc[r])
BY DEF serviceStatus

LEMMA ServiceInit == Init => Service!Init
BY DEF Init, Service!Init, serviceStatus, serviceResult, StatusAt

LEMMA ServiceFrame ==
    UNCHANGED <<pc, code, trace>> => UNCHANGED Service!vars
BY DEF Service!vars, serviceStatus, serviceResult

LEMMA ServiceRequestCall ==
    ASSUME IInv, NEW r \in Requests, RequestCall(r)
    PROVE  Service!Next \/ UNCHANGED Service!vars
<1>0. TypeOK /\ trace' = trace
  BY RequestCallFrame DEF IInv
<1>1. CASE StartInvalid(r) \/ StartBusy(r)
  <2>1. /\ pc[r] = "idle" /\ pc' = [pc EXCEPT ![r] = "rejecting"]
        /\ \A s \in Requests \ {r} : pc'[s] = pc[s] /\ code'[s] = code[s]
        /\ pc'[r] = "rejecting"
    BY <1>0, <1>1 DEF StartInvalid, StartBusy, Goto, TypeOK
  <2>2. serviceStatus[r] = "new"
    BY <2>1 DEF serviceStatus, StatusAt
  <2>3. serviceStatus' = [serviceStatus EXCEPT ![r] = "refused"]
    BY <1>0, <2>1, StatusMoves DEF StatusAt
  <2>4. serviceResult' = serviceResult
    BY <1>0, <2>1, ResultStays
  <2> QED
    BY <1>0, <2>2, <2>3, <2>4 DEF Service!Next, Service!Refuse, Service!Become
<1>2. CASE StartClaim(r)
  <2>1. /\ pc[r] = "idle" /\ ~busy /\ pc' = [pc EXCEPT ![r] = "claimed"] /\ code' = code
        /\ \A s \in Requests \ {r} : pc'[s] = pc[s]
        /\ pc'[r] = "claimed"
    BY <1>0, <1>2 DEF StartClaim, Goto, TypeOK
  <2>2. serviceStatus[r] = "new"
    BY <2>1 DEF serviceStatus, StatusAt
  <2>3. serviceStatus' = [serviceStatus EXCEPT ![r] = "serving"]
    BY <1>0, <2>1, StatusMoves DEF StatusAt
  <2>4. serviceResult' = serviceResult
    BY <1>0, <2>1, ResultStays
  <2>5. ASSUME NEW s \in Requests PROVE serviceStatus[s] # "serving"
    <3>1. pc[s] \notin {"claimed", "running", "failing", "waiting", "finishing"}
      BY <2>1 DEF IInv, BusyInv, BusyHeld, InProgress
    <3> QED
      BY <1>0, <3>1 DEF serviceStatus, StatusAt, TypeOK
  <2> QED
    BY <1>0, <2>2, <2>3, <2>4, <2>5 DEF Service!Next, Service!Accept, Service!Become
<1>3. CASE StreamCancel(r) \/ StreamFree(r) \/ StreamFreeReturns(r)
  BY <1>3, ServiceFrame DEF StreamCancel, StreamFree, StreamFreeReturns
<1> QED
  BY <1>1, <1>2, <1>3 DEF RequestCall

LEMMA ServiceRequestStep ==
    ASSUME IInv, AnswerInv, NEW r \in Requests, RequestStep(r)
    PROVE  Service!Next \/ UNCHANGED Service!vars
<1>0. TypeOK /\ AnswerOf(r)
  BY DEF IInv, AnswerInv
<1> DEFINE Moves(l, m) == /\ pc[r] = l /\ pc' = [pc EXCEPT ![r] = m] /\ pc'[r] = m
                          /\ \A s \in Requests \ {r} : pc'[s] = pc[s] /\ code'[s] = code[s]
\* The steps inside "serving".
<1>1. CASE SpawnThread(r) \/ SendCommand(r) \/ SendFails(r) \/ ReceiveReply(r)
  <2>1. PICK l, m \in {"claimed", "running", "failing", "waiting", "finishing"} :
           Moves(l, m) /\ trace' = trace
    BY <1>0, <1>1 DEF SpawnThread, SendCommand, SendFails, ReceiveReply, Goto, TypeOK
  <2>2. serviceStatus[r] = "serving" /\ serviceStatus' = [serviceStatus EXCEPT ![r] = "serving"]
    BY <1>0, <2>1, StatusMoves DEF serviceStatus, StatusAt
  <2>3. serviceStatus' = serviceStatus
    BY <2>2 DEF serviceStatus
  <2>4. serviceResult' = serviceResult
    BY <1>0, <2>1, ResultStays
  <2> QED
    BY <2>1, <2>3, <2>4 DEF Service!vars
<1>2. CASE SpawnFails(r)
  <2>1. Moves("claimed", "rejecting") /\ trace' = trace /\ trace[r] = <<>>
    BY <1>0, <1>2 DEF SpawnFails, Goto, TypeOK, AnswerOf
  <2>2. serviceStatus[r] = "serving" /\ serviceStatus' = [serviceStatus EXCEPT ![r] = "refused"]
    BY <1>0, <2>1, StatusMoves DEF serviceStatus, StatusAt
  <2>3. serviceResult' = serviceResult
    BY <1>0, <2>1, ResultStays
  <2> QED
    BY <2>1, <2>2, <2>3
       DEF Service!Next, Service!Progress, Service!Abandon, Service!Become
<1>3. CASE RejectError(r)
  <2>1. Moves("rejecting", "announcing") /\ trace' = [trace EXCEPT ![r] = Append(@, "error")]
    BY <1>0, <1>3 DEF RejectError, Goto, Emit, TypeOK
  <2>2. serviceStatus[r] = "refused" /\ serviceStatus' = [serviceStatus EXCEPT ![r] = "ending"]
    BY <1>0, <2>1, StatusMoves DEF serviceStatus, StatusAt
  <2>3. serviceResult' = serviceResult
    BY <1>0, <2>1, ResultStays
  <2> QED
    BY <2>1, <2>2, <2>3
       DEF Service!Next, Service!Progress, Service!RefuseError, Service!Become, Service!Make
<1>4. CASE SendError(r)
  <2>1. /\ Moves("failing", "finishing") /\ trace' = [trace EXCEPT ![r] = Append(@, "error")]
        /\ trace[r] = <<>>
    BY <1>0, <1>4 DEF SendError, Goto, Emit, TypeOK, AnswerOf
  <2>2. serviceStatus[r] = "serving" /\ serviceStatus' = [serviceStatus EXCEPT ![r] = "serving"]
    BY <1>0, <2>1, StatusMoves DEF serviceStatus, StatusAt
  <2>3. serviceStatus' = serviceStatus
    BY <2>2 DEF serviceStatus
  <2>4. serviceResult' = serviceResult
    BY <1>0, <2>1, ResultStays
  <2> QED
    BY <2>1, <2>2, <2>3, <2>4
       DEF Service!Next, Service!Progress, Service!Fail, Service!Make
<1>5. CASE ReleaseBusy(r)
  <2>1. Moves("finishing", "announcing") /\ trace' = trace /\ Answered(trace[r], code[r])
    BY <1>0, <1>5 DEF ReleaseBusy, Goto, TypeOK, AnswerOf
  <2>2. serviceStatus[r] = "serving" /\ serviceStatus' = [serviceStatus EXCEPT ![r] = "ending"]
    BY <1>0, <2>1, StatusMoves DEF serviceStatus, StatusAt
  <2>3. serviceResult' = serviceResult
    BY <1>0, <2>1, ResultStays
  <2>4. Service!Complete(trace[r])
    BY <2>1 DEF Answered, Replied, Service!Complete
  <2> QED
    BY <2>1, <2>2, <2>3, <2>4
       DEF Service!Next, Service!Progress, Service!Release, Service!Become
<1>6. CASE EmitDone(r)
  <2>1. /\ Moves("announcing", "ended") /\ trace' = [trace EXCEPT ![r] = Append(@, "done")]
        /\ code' = code /\ Answered(trace[r], code[r])
    BY <1>0, <1>6 DEF EmitDone, Goto, Emit, TypeOK, AnswerOf
  <2>2. serviceStatus[r] = "ending" /\ serviceStatus' = [serviceStatus EXCEPT ![r] = "closed"]
    BY <1>0, <2>1, StatusMoves DEF serviceStatus, StatusAt
  <2>3. serviceResult' = [serviceResult EXCEPT ![r] = code[r]]
    BY <1>0, <2>1 DEF serviceResult, TypeOK
  <2>4. code[r] \in Service!CodesAfter(trace[r])
    BY <2>1 DEF Answered, Replied, Service!CodesAfter
  <2> QED
    BY <2>1, <2>2, <2>3, <2>4
       DEF Service!Next, Service!Progress, Service!Close, Service!Become, Service!Make
<1> QED
  BY <1>1, <1>2, <1>3, <1>4, <1>5, <1>6 DEF RequestStep

LEMMA ServiceWorkerStep ==
    ASSUME IInv, AnswerInv, WorkerStep
    PROVE  Service!Next \/ UNCHANGED Service!vars
<1>0. TypeOK /\ QueueInv /\ UNCHANGED <<pc, code>>
  BY WorkerStepFrame DEF IInv
<1>1. CASE trace' = trace
  BY <1>0, <1>1, ServiceFrame
<1>2. CASE EmitNext
  <2>1. /\ worker = "emitting" /\ outbox # <<>> /\ outbox \in Seq(Callbacks)
        /\ current \in Requests
        /\ trace' = [trace EXCEPT ![current] = Append(@, Head(outbox))]
    BY <1>0, <1>2 DEF EmitNext, Emit, TypeOK, QueueInv, Serving
  <2>2. Owed(trace[current], outbox, verdict)
    BY <2>1 DEF AnswerInv, AnswerOf
  <2>3. serviceStatus[current] = "serving"
    BY <1>0, <2>1 DEF QueueInv, ServedRequestWaits, serviceStatus, StatusAt
  <2>4. UNCHANGED <<serviceStatus, serviceResult>>
    BY <1>0 DEF serviceStatus, serviceResult
  <2>5. Head(outbox) = outbox[1] /\ 1 \in 1..Len(outbox)
    BY <2>1, HeadTailProperties, LenProperties
  <2>6. CASE trace[current] = <<>> /\ outbox = <<"error">>
    <3>1. Head(outbox) = "error"
      BY <2>5, <2>6
    <3>2. Service!Fail(current)
      BY <2>1, <2>3, <2>4, <2>6, <3>1 DEF Service!Fail, Service!Make
    <3> QED
      BY <2>1, <3>2 DEF Service!Next, Service!Progress
  <2>7. CASE ~(trace[current] = <<>> /\ outbox = <<"error">>)
    <3>1. /\ outbox[1] \in DOMAIN Service!Rank
          /\ \A i \in 1..Len(trace[current]) :
                /\ trace[current][i] \in DOMAIN Service!Rank
                /\ Service!Rank[trace[current][i]] < Service!Rank[outbox[1]]
      BY <2>2, <2>5, <2>7 DEF Owed
    <3>2. \A i \in 1..Len(trace[current]) : trace[current][i] # "error"
      BY <3>1 DEF Service!Rank
    <3>3. Service!Deliver(current)
      BY <2>1, <2>3, <2>4, <2>5, <3>1, <3>2 DEF Service!Deliver, Service!Make
    <3> QED
      BY <2>1, <3>3 DEF Service!Next, Service!Progress
  <2> QED
    BY <2>6, <2>7
<1> QED
  BY <1>1, <1>2 DEF WorkerStep, BuildSucceeds, BuildFails, TakeMessage, TakeCancel, TakeShutdown,
     DropState, CheckBefore, NativeReturns, NativePanics, CheckAfter, SendReply

LEMMA ServiceNext == IInv /\ AnswerInv /\ [Next]_vars => [Service!Next]_Service!vars
<1> SUFFICES ASSUME IInv, AnswerInv, [Next]_vars
             PROVE  Service!Next \/ UNCHANGED Service!vars
  OBVIOUS
<1>1. CASE ConversationCall
  BY <1>1, ConversationCallFrame, ServiceFrame
<1>2. CASE UNCHANGED vars
  BY <1>2, ServiceFrame DEF vars, threadVars
<1> QED
  BY <1>1, <1>2, ServiceWorkerStep, ServiceRequestCall, ServiceRequestStep, FinishedFrame DEF Next

\* Whatever the threads, the channel and the flag do, the host sees what
\* ConversationService allows: each call refused or served alone, its
\* callbacks in order, one on_done, and a code that agrees with them.
THEOREM Refinement == Spec => Service!Safety
BY Invariant, AnswerInvariant, ServiceInit, ServiceNext, PTL DEF Spec, Service!Safety

=============================================================================
