------------------------- MODULE TokioRuntimeProofs -------------------------
(***************************************************************************)
(* Proofs about TokioRuntime, for any tasks, any number of requests and of *)
(* chunks, and whether or not a call may panic or a stream stall.          *)
(*                                                                         *)
(* The sum that bounds the requests is of no account: TypeInv is TypeOK    *)
(* without that bound.                                                     *)
(***************************************************************************)
EXTENDS TokioRuntime, SequenceTheorems, TLAPS

AnyRequests == [op : Ops, task : Tasks, call : Nat, id : Nat]

TypeInv ==
    /\ engine \in {"none", "building", "live", "dropped", "failed"}
    /\ worker \in {"none", "building", "receiving", "calling", "streaming", "stalled",
                   "closing", "exited"}
    /\ requests \in Seq(AnyRequests)
    /\ current \subseteq AnyRequests
    /\ table \subseteq Nat \ {0}
    /\ nextId \in Nat \ {0}
    /\ pc \in [Tasks -> {"idle", "creating", "holding", "awaiting", "starting"}]
    /\ calls \in [Tasks -> Nat]
    /\ id \in [Tasks -> Nat]
    /\ answer \in [Tasks -> {"none", "ok", "error", "gone"}]

-----------------------------------------------------------------------------
(* The channel.                                                            *)

LEMMA SendRequest ==
    ASSUME TypeInv, NEW r \in AnyRequests, requests' = Append(requests, r)
    PROVE  /\ requests' \in Seq(AnyRequests)
           /\ Queued' = Queued \cup {r}
           /\ OrderInv /\ UNCHANGED <<worker, current>> /\ (\A q \in Pending : Before(q, r))
                => OrderInv'
<1>1. /\ requests' \in Seq(AnyRequests)
      /\ Len(requests') = Len(requests) + 1 /\ Len(requests) \in Nat
      /\ \A k \in 1..Len(requests) : requests'[k] = requests[k]
      /\ requests'[Len(requests) + 1] = r
  BY AppendProperties, LenProperties DEF TypeInv
<1>2. Queued' = Queued \cup {r}
  BY <1>1 DEF Queued
<1>3. ASSUME OrderInv, UNCHANGED <<worker, current>>, \A q \in Pending : Before(q, r)
      PROVE  OrderInv'
  <2>1. ASSUME NEW j \in 1..Len(requests'), NEW k \in 1..Len(requests'), j < k
        PROVE  Before(requests'[j], requests'[k])
    <3>1. j \in 1..Len(requests)
      BY <1>1, <2>1
    <3>2. requests[j] \in Pending
      BY <3>1 DEF Pending, Queued
    <3>3. CASE k = Len(requests) + 1
      BY <1>1, <1>3, <3>1, <3>2, <3>3
    <3>4. CASE k \in 1..Len(requests)
      BY <1>1, <1>3, <2>1, <3>1, <3>4 DEF OrderInv
    <3> QED
      BY <1>1, <3>3, <3>4
  <2>2. ASSUME worker = "calling", NEW q \in current, NEW p \in Queued' PROVE Before(q, p)
    <3>1. q \in Pending
      BY <2>2 DEF Pending
    <3> QED
      BY <1>2, <1>3, <2>2, <3>1 DEF OrderInv
  <2> QED
    BY <1>3, <2>1, <2>2 DEF OrderInv, Before
<1> QED
  BY <1>1, <1>2, <1>3

LEMMA TakeHead ==
    ASSUME TypeInv, requests # <<>>, requests' = Tail(requests), current' = {Head(requests)}
    PROVE  /\ requests' \in Seq(AnyRequests) /\ Head(requests) \in AnyRequests
           /\ Head(requests) \in Queued
           /\ Queued' \cup current' = Queued
           /\ OrderInv => OrderInv'
<1>1. /\ requests' \in Seq(AnyRequests) /\ Head(requests) \in AnyRequests
      /\ Len(requests) \in Nat /\ Len(requests') = Len(requests) - 1 /\ 1 \in 1..Len(requests)
      /\ Head(requests) = requests[1]
      /\ \A k \in 1..Len(requests') : requests'[k] = requests[k + 1]
  BY HeadTailProperties, LenProperties DEF TypeInv
<1>2. ASSUME NEW k \in 1..Len(requests')
      PROVE  k + 1 \in 1..Len(requests) /\ 1 < k + 1 /\ requests'[k] = requests[k + 1]
  BY <1>1
<1>3. Queued' \cup current' \subseteq Queued
  BY <1>1, <1>2 DEF Queued
<1>4. ASSUME NEW j \in 1..Len(requests) PROVE requests[j] \in Queued' \cup current'
  <2>1. CASE j = 1
    BY <1>1, <2>1
  <2>2. CASE j # 1
    <3>1. j - 1 \in 1..Len(requests') /\ requests'[j - 1] = requests[j]
      BY <1>1, <2>2
    <3> QED
      BY <3>1 DEF Queued
  <2> QED
    BY <2>1, <2>2
<1>5. ASSUME OrderInv PROVE OrderInv'
  <2>1. ASSUME NEW j \in 1..Len(requests'), NEW k \in 1..Len(requests'), j < k
        PROVE  Before(requests'[j], requests'[k])
    <3>1. j + 1 < k + 1
      BY <2>1, <1>1
    <3> QED
      BY <1>2, <1>5, <3>1 DEF OrderInv
  <2>2. ASSUME NEW q \in current', NEW p \in Queued' PROVE Before(q, p)
    <3>1. PICK k \in 1..Len(requests') : p = requests'[k]
      BY <2>2 DEF Queued
    <3> QED
      BY <1>1, <1>2, <1>5, <2>2, <3>1 DEF OrderInv
  <2> QED
    BY <2>1, <2>2 DEF OrderInv, Before
<1> QED
  BY <1>1, <1>3, <1>4, <1>5 DEF Queued

LEMMA NoQueue == requests = <<>> => Queued = {}
BY DEF Queued

\* What a call puts into the channel.
LEMMA SendType ==
    ASSUME TypeInv, NEW t \in Tasks, NEW op \in Ops, Send(t, op)
    PROVE  /\ calls' \in [Tasks -> Nat] /\ calls'[t] = calls[t] + 1
           /\ \A u \in Tasks \ {t} : calls'[u] = calls[u] /\ answer'[u] = answer[u]
           /\ answer' \in [Tasks -> {"none", "ok", "error", "gone"}] /\ answer'[t] = "none"
           /\ [op |-> op, task |-> t, call |-> calls'[t], id |-> id[t]] \in AnyRequests
           /\ requests' = Append(requests, [op |-> op, task |-> t, call |-> calls'[t], id |-> id[t]])
BY DEF TypeInv, Send, AnyRequests

LEMMA RespondType ==
    ASSUME TypeInv, NEW q \in AnyRequests, NEW a \in {"ok", "error"}, Respond(q, a)
    PROVE  /\ answer' \in [Tasks -> {"none", "ok", "error", "gone"}]
           /\ \A t \in Tasks : answer'[t] = IF t = q.task /\ Wanted(q) THEN a ELSE answer[t]
BY DEF TypeInv, Respond, AnyRequests

-----------------------------------------------------------------------------
LEMMA TypeInit == Init => TypeInv
BY EmptySeq DEF Init, TypeInv

LEMMA TypeNext == TypeInv /\ [Next]_vars => TypeInv'
<1> SUFFICES ASSUME TypeInv, [Next]_vars PROVE TypeInv'
  OBVIOUS
<1>1. CASE EngineCall
  BY <1>1 DEF TypeInv, EngineCall, NewEngine, SpawnFails, NewReturns, DropEngine, workerVars, taskVars
<1>2. CASE BuildSucceeds \/ BuildFails \/ LoopEnds \/ ClearTable \/ DropNative \/ StreamStalls
  BY <1>2 DEF TypeInv, BuildSucceeds, BuildFails, LoopEnds, ClearTable, DropNative, StreamStalls,
              taskVars
<1>3. CASE TakeRequest
  <2>1. requests' \in Seq(AnyRequests) /\ Head(requests) \in AnyRequests
    BY <1>3, TakeHead DEF TakeRequest
  <2> QED
    BY <1>3, <2>1 DEF TypeInv, TakeRequest, taskVars
<1>4. CASE HandleCreate
  <2>1. PICK q \in current :
           /\ nextId' = nextId + 1
           /\ \/ Respond(q, "ok") /\ id' = IF Wanted(q) THEN [id EXCEPT ![q.task] = nextId] ELSE id
              \/ Respond(q, "error") /\ id' = id
    BY <1>4 DEF HandleCreate
  <2>2. q \in AnyRequests
    BY DEF TypeInv
  <2>3. answer' \in [Tasks -> {"none", "ok", "error", "gone"}]
    BY <2>1, <2>2, RespondType
  <2>4. id' \in [Tasks -> Nat] /\ nextId' \in Nat \ {0}
    BY <2>1 DEF TypeInv
  <2> QED
    BY <1>4, <2>3, <2>4 DEF TypeInv, HandleCreate
<1>5. CASE HandleGenerate \/ StreamFails \/ StreamBegins
  <2>1. PICK q \in current, a \in {"ok", "error"} : Respond(q, a)
    BY <1>5 DEF HandleGenerate, StreamFails, StreamBegins
  <2>2. answer' \in [Tasks -> {"none", "ok", "error", "gone"}]
    BY <2>1, RespondType DEF TypeInv
  <2> QED
    BY <1>5, <2>2 DEF TypeInv, HandleGenerate, StreamFails, StreamBegins
<1>6. CASE HandleDelete \/ StreamEvent
  BY <1>6 DEF TypeInv, HandleDelete, StreamEvent, taskVars
<1>7. CASE Panic
  BY <1>7, EmptySeq DEF TypeInv, Panic
<1>8. ASSUME NEW t \in Tasks, CallCreate(t) \/ CallGenerate(t) \/ CallStream(t) PROVE TypeInv'
  <2>1. PICK op \in Ops : Send(t, op)
    BY <1>8 DEF CallCreate, CallGenerate, CallStream, Ops
  <2>2. requests' \in Seq(AnyRequests)
    BY <2>1, SendType, SendRequest
  <2> QED
    BY <1>8, <2>1, <2>2, SendType
    DEF TypeInv, CallCreate, CallGenerate, CallStream, workerVars
<1>9. ASSUME NEW t \in Tasks, AwaitReturns(t) \/ AwaitCancelled(t) PROVE TypeInv'
  <2>1. pc' \in [Tasks -> {"idle", "creating", "holding", "awaiting", "starting"}]
    BY <1>9 DEF TypeInv, AwaitReturns, AwaitCancelled
  <2>2. answer' \in [Tasks -> {"none", "ok", "error", "gone"}]
    BY <1>9 DEF TypeInv, AwaitReturns, AwaitCancelled
  <2>3. id' \in [Tasks -> Nat]
    <3>1. CASE AwaitReturns(t)
      BY <3>1 DEF AwaitReturns, TypeInv
    <3>2. CASE AwaitCancelled(t)
      BY <3>2 DEF AwaitCancelled, TypeInv
    <3> QED
      BY <1>9, <3>1, <3>2
  <2>4. UNCHANGED <<engine, workerVars, requests, calls>>
    BY <1>9 DEF AwaitReturns, AwaitCancelled
  <2> QED
    BY <2>1, <2>2, <2>3, <2>4 DEF TypeInv, workerVars
<1>10. ASSUME NEW t \in Tasks, DropHandle(t) PROVE TypeInv'
  <2>1. [op |-> "delete", task |-> t, call |-> 0, id |-> id[t]] \in AnyRequests
    BY DEF AnyRequests, TypeInv, Ops
  <2>2. requests' \in Seq(AnyRequests)
    BY <1>10, <2>1, SendRequest DEF DropHandle, TypeInv
  <2> QED
    BY <1>10, <2>2 DEF TypeInv, DropHandle, workerVars
<1>11. ASSUME NEW t \in Tasks, ReadEvent(t) \/ ReadNone(t) \/ DropStream(t) PROVE TypeInv'
  BY <1>11 DEF TypeInv, ReadEvent, ReadNone, DropStream, workerVars
<1>12. CASE UNCHANGED vars
  BY <1>12 DEF TypeInv, vars, workerVars, taskVars
<1> QED
  BY <1>1, <1>2, <1>3, <1>4, <1>5, <1>6, <1>7, <1>8, <1>9, <1>10, <1>11, <1>12
  DEF Next, WorkerStep, TaskStep, Finished

-----------------------------------------------------------------------------
LEMMA WorkerInit == Init => WorkerInv
BY DEF Init, WorkerInv

LEMMA WorkerNext == TypeInv /\ WorkerInv /\ [Next]_vars => WorkerInv'
<1> SUFFICES ASSUME TypeInv, WorkerInv, [Next]_vars PROVE WorkerInv'
  OBVIOUS
<1>1. CASE EngineCall
  BY <1>1 DEF TypeInv, WorkerInv, EngineCall, NewEngine, SpawnFails, NewReturns, DropEngine,
              workerVars, taskVars
<1>2. CASE BuildSucceeds \/ BuildFails \/ LoopEnds \/ ClearTable \/ DropNative \/ StreamStalls
  BY <1>2 DEF WorkerInv, BuildSucceeds, BuildFails, LoopEnds, ClearTable, DropNative, StreamStalls
<1>3. CASE TakeRequest
  BY <1>3 DEF WorkerInv, TakeRequest
<1>4. CASE HandleCreate
  BY <1>4 DEF WorkerInv, HandleCreate
<1>5. CASE HandleGenerate \/ StreamFails \/ HandleDelete \/ Panic
  BY <1>5 DEF WorkerInv, HandleGenerate, StreamFails, HandleDelete, Panic
<1>6. CASE StreamBegins
  BY <1>6 DEF WorkerInv, StreamBegins
<1>7. CASE StreamEvent
  BY <1>7 DEF WorkerInv, StreamEvent
<1>8. ASSUME NEW t \in Tasks, TaskStep(t) PROVE UNCHANGED <<engine, workerVars>>
  BY <1>8 DEF TaskStep, CallCreate, CallGenerate, CallStream, AwaitReturns, AwaitCancelled,
              DropHandle, ReadEvent, ReadNone, DropStream
<1>9. CASE UNCHANGED vars
  BY <1>9 DEF WorkerInv, vars, workerVars
<1> QED
  BY <1>1, <1>2, <1>3, <1>4, <1>5, <1>6, <1>7, <1>8, <1>9
  DEF Next, WorkerStep, Finished, WorkerInv, workerVars

-----------------------------------------------------------------------------
LEMMA OrderInit == Init => OrderInv
BY DEF Init, OrderInv

\* What a task sends comes after everything it and others have sent.
LEMMA SendOrder ==
    ASSUME TypeInv, PendingInv, NEW t \in Tasks, NEW op \in Ops, Send(t, op), NEW q \in Pending
    PROVE  Before(q, [op |-> op, task |-> t, call |-> calls'[t], id |-> id[t]])
<1>1. q \in AnyRequests
  <2>1. requests \in Seq(AnyRequests) /\ current \subseteq AnyRequests
    BY DEF TypeInv
  <2>2. \A k \in 1..Len(requests) : requests[k] \in AnyRequests
    BY <2>1, ElementOfSeq
  <2> QED
    BY <2>1, <2>2 DEF Pending, Queued
<1>2. Sound(q)
  BY DEF PendingInv
<1> DEFINE r == [op |-> op, task |-> t, call |-> calls'[t], id |-> id[t]]
<1>3. q.op = "delete" => r.id # q.id
  BY <1>2 DEF Sound
<1>4. q.op # "delete" /\ q.task = t => q.call < calls'[t]
  <2>1. calls'[t] = calls[t] + 1 /\ calls[t] \in Nat /\ q.call \in Nat
    BY <1>1, SendType DEF AnyRequests, TypeInv
  <2> QED
    BY <1>2, <2>1 DEF Sound
<1> QED
  BY <1>3, <1>4 DEF Before

LEMMA OrderNext == TypeInv /\ PendingInv /\ OrderInv /\ [Next]_vars => OrderInv'
<1> SUFFICES ASSUME TypeInv, PendingInv, OrderInv, [Next]_vars PROVE OrderInv'
  OBVIOUS
<1>0. ASSUME requests' = requests, worker' # "calling" \/ UNCHANGED <<worker, current>>
      PROVE  OrderInv'
  BY <1>0 DEF OrderInv, Before, Queued
<1>1. CASE EngineCall
  BY <1>0, <1>1 DEF EngineCall, NewEngine, SpawnFails, NewReturns, DropEngine, workerVars
<1>2. CASE BuildSucceeds \/ BuildFails \/ LoopEnds \/ ClearTable \/ DropNative \/ StreamStalls
  BY <1>0, <1>2 DEF BuildSucceeds, BuildFails, LoopEnds, ClearTable, DropNative, StreamStalls
<1>3. CASE TakeRequest
  BY <1>3, TakeHead DEF TakeRequest
<1>4. CASE HandleCreate \/ HandleGenerate \/ StreamFails \/ HandleDelete \/ StreamBegins \/ StreamEvent
  BY <1>0, <1>4 DEF HandleCreate, HandleGenerate, StreamFails, HandleDelete, StreamBegins, StreamEvent
<1>5. CASE Panic
  BY <1>5 DEF Panic, OrderInv
<1>6. ASSUME NEW t \in Tasks, CallCreate(t) \/ CallGenerate(t) \/ CallStream(t) PROVE OrderInv'
  <2>1. PICK op \in Ops : Send(t, op)
    BY <1>6 DEF CallCreate, CallGenerate, CallStream, Ops
  <2>2. UNCHANGED <<worker, current>>
    BY <1>6 DEF CallCreate, CallGenerate, CallStream, workerVars
  <2> QED
    BY <2>1, <2>2, SendOrder, SendType, SendRequest
<1>7. ASSUME NEW t \in Tasks, DropHandle(t) PROVE OrderInv'
  <2> DEFINE r == [op |-> "delete", task |-> t, call |-> 0, id |-> id[t]]
  <2>1. r \in AnyRequests
    BY DEF AnyRequests, TypeInv, Ops
  <2>2. UNCHANGED <<worker, current>>
    BY <1>7 DEF DropHandle, workerVars
  <2>3. \A q \in Pending : Before(q, r)
    BY DEF Before, PendingInv, Sound
  <2>4. requests' = Append(requests, r) \/ requests' = requests
    BY <1>7 DEF DropHandle
  <2> QED
    BY <1>0, <2>1, <2>2, <2>3, <2>4, SendRequest
<1>8. ASSUME NEW t \in Tasks,
             AwaitReturns(t) \/ AwaitCancelled(t) \/ ReadEvent(t) \/ ReadNone(t) \/ DropStream(t)
      PROVE  OrderInv'
  BY <1>0, <1>8 DEF AwaitReturns, AwaitCancelled, ReadEvent, ReadNone, DropStream, workerVars
<1>9. CASE UNCHANGED vars
  BY <1>0, <1>9 DEF vars, workerVars
<1> QED
  BY <1>1, <1>2, <1>3, <1>4, <1>5, <1>6, <1>7, <1>8, <1>9 DEF Next, WorkerStep, TaskStep, Finished

-----------------------------------------------------------------------------
LEMMA HandleInit == Init => HandleInv
BY DEF Init, HandleInv, Holds

\* The answer to a create finds its task waiting for it, without an id.
LEMMA AnswersCreate ==
    ASSUME TypeInv, HandleInv, PendingInv, worker = "calling", NEW q \in current,
           Wanted(q), q.op = "create"
    PROVE  pc[q.task] = "creating" /\ answer[q.task] = "none" /\ id[q.task] = 0
<1>1. q \in AnyRequests /\ Sound(q)
  BY DEF TypeInv, PendingInv, Pending
<1>2. pc[q.task] = "creating" /\ answer[q.task] = "none"
  BY <1>1 DEF Wanted, Sound, Awaits
<1> QED
  BY <1>1, <1>2 DEF HandleInv, AnyRequests

\* The answer to anything else does not.
LEMMA AnswersOther ==
    ASSUME TypeInv, PendingInv, worker = "calling", NEW q \in current,
           Wanted(q), q.op # "create", q.op # "delete"
    PROVE  pc[q.task] # "creating"
<1>1. q \in AnyRequests /\ Sound(q)
  BY DEF TypeInv, PendingInv, Pending
<1> QED
  BY <1>1 DEF Wanted, Sound

LEMMA HandleNext ==
    TypeInv /\ WorkerInv /\ HandleInv /\ PendingInv /\ [Next]_vars => HandleInv'
<1> SUFFICES ASSUME TypeInv, WorkerInv, HandleInv, PendingInv, [Next]_vars PROVE HandleInv'
  OBVIOUS
<1>0. ASSUME UNCHANGED <<pc, id, answer, nextId>>, Serving' => Serving /\ table' = table
      PROVE  HandleInv'
  BY <1>0 DEF HandleInv, Holds
<1>1. CASE EngineCall
  BY <1>0, <1>1 DEF EngineCall, NewEngine, SpawnFails, NewReturns, DropEngine, workerVars,
                    taskVars, Serving, WorkerInv
<1>2. CASE BuildSucceeds \/ BuildFails \/ LoopEnds \/ ClearTable \/ DropNative \/ StreamStalls
  BY <1>0, <1>2 DEF BuildSucceeds, BuildFails, LoopEnds, ClearTable, DropNative, StreamStalls,
                    Serving, taskVars
<1>3. CASE TakeRequest \/ StreamEvent
  BY <1>0, <1>3 DEF TakeRequest, StreamEvent, Serving, taskVars
<1>4. CASE HandleCreate
  <2>1. PICK q \in current :
           /\ q.op = "create" /\ nextId' = nextId + 1
           /\ \/ /\ table' = table \cup {nextId} /\ Respond(q, "ok")
                 /\ id' = IF Wanted(q) THEN [id EXCEPT ![q.task] = nextId] ELSE id
              \/ table' = table /\ id' = id /\ Respond(q, "error")
    BY <1>4 DEF HandleCreate
  <2>2. worker = "calling" /\ worker' = "receiving" /\ UNCHANGED pc
    BY <1>4 DEF HandleCreate
  <2>3. q \in AnyRequests /\ q.task \in Tasks
    BY DEF TypeInv, AnyRequests
  <2>4. Wanted(q) => pc[q.task] = "creating" /\ answer[q.task] = "none" /\ id[q.task] = 0
    BY <2>1, <2>2, AnswersCreate
  <2>5. nextId \in Nat /\ nextId # 0 /\ nextId < nextId' /\ \A t \in Tasks : id[t] \in Nat /\ id[t] < nextId
    BY <2>1 DEF TypeInv, HandleInv
  <2>6. CASE id' = id /\ table \subseteq table' /\ \A t \in Tasks : pc[t] = "creating" =>
               (answer'[t] = "ok" <=> answer[t] = "ok")
    <3>1. \A t \in Tasks : id'[t] < nextId'
      BY <2>1, <2>5, <2>6
    <3>2. \A t \in Tasks : id'[t] # 0 => id'[t] \in table'
      BY <2>2, <2>6 DEF HandleInv, Serving
    <3> QED
      BY <2>2, <2>6, <3>1, <3>2 DEF HandleInv, Holds
  <2>7. CASE Wanted(q) /\ Respond(q, "ok") /\ table' = table \cup {nextId}
               /\ id' = [id EXCEPT ![q.task] = nextId]
    <3>1. \A t \in Tasks : answer'[t] = IF t = q.task THEN "ok" ELSE answer[t]
      BY <2>3, <2>7, RespondType
    <3>2. \A t \in Tasks : id'[t] = IF t = q.task THEN nextId ELSE id[t]
      BY <2>7 DEF TypeInv
    <3> QED
      <4>1. \A t \in Tasks : id'[t] < nextId'
        BY <2>1, <2>5, <3>2
      <4>2. \A t \in Tasks : id'[t] # 0 => id'[t] \in table'
        BY <2>2, <2>7, <3>2 DEF HandleInv, Serving
      <4>3. \A t, u \in Tasks : id'[t] = id'[u] /\ id'[t] # 0 => t = u
        BY <2>5, <3>2 DEF HandleInv
      <4>4. \A t \in Tasks :
               /\ pc'[t] = "idle" => id'[t] = 0
               /\ pc'[t] = "creating" => (id'[t] # 0 <=> answer'[t] = "ok")
               /\ Holds(t)' => id'[t] # 0
        BY <2>2, <2>4, <2>5, <2>7, <3>1, <3>2 DEF HandleInv, Holds
      <4> QED
        BY <4>1, <4>2, <4>3, <4>4 DEF HandleInv
  <2>8. CASE ~Wanted(q)
    <3>1. answer' = answer /\ id' = id
      BY <2>1, <2>8 DEF Respond
    <3> QED
      BY <2>1, <2>6, <3>1
  <2>9. CASE Wanted(q) /\ Respond(q, "error") /\ table' = table /\ id' = id
    <3>1. \A t \in Tasks : answer'[t] = IF t = q.task THEN "error" ELSE answer[t]
      BY <2>3, <2>9, RespondType
    <3> QED
      BY <2>4, <2>6, <2>9, <3>1
  <2> QED
    BY <2>1, <2>7, <2>8, <2>9
<1>5. CASE HandleGenerate \/ StreamFails \/ StreamBegins
  <2>1. PICK q \in current, a \in {"ok", "error"} : q.op \in {"generate", "stream"} /\ Respond(q, a)
    BY <1>5 DEF HandleGenerate, StreamFails, StreamBegins
  <2>2. worker = "calling" /\ worker' \in {"receiving", "streaming"}
        /\ UNCHANGED <<pc, id, nextId, table>>
    BY <1>5 DEF HandleGenerate, StreamFails, StreamBegins
  <2>3. Wanted(q) => pc[q.task] # "creating"
    BY <2>1, <2>2, AnswersOther
  <2>4. \A t \in Tasks : pc[t] = "creating" => answer'[t] = answer[t]
    BY <2>1, <2>3, RespondType DEF TypeInv
  <2> QED
    BY <2>2, <2>4 DEF HandleInv, Holds, Serving
<1>6. CASE HandleDelete
  <2>1. PICK q \in current : q.op = "delete" /\ table' = table \ {q.id}
    BY <1>6 DEF HandleDelete
  <2>2. worker = "calling" /\ worker' = "receiving" /\ UNCHANGED <<pc, id, answer, nextId>>
    BY <1>6 DEF HandleDelete, taskVars
  <2>3. \A t \in Tasks : id[t] # q.id
    BY <2>1, <2>2 DEF PendingInv, Pending, Sound
  <2> QED
    BY <2>1, <2>2, <2>3 DEF HandleInv, Holds, Serving
<1>7. CASE Panic
  <2>1. worker' = "closing" /\ UNCHANGED <<pc, id, nextId>>
    BY <1>7 DEF Panic
  <2>2. \A t \in Tasks : answer'[t] = "ok" <=> answer[t] = "ok"
    BY <1>7 DEF Panic
  <2> QED
    BY <2>1, <2>2 DEF HandleInv, Holds, Serving
<1>8. ASSUME NEW t \in Tasks, CallCreate(t) PROVE HandleInv'
  <2>1. Send(t, "create") /\ "create" \in Ops
    BY <1>8 DEF CallCreate, Ops
  <2>2. pc[t] = "idle" /\ UNCHANGED <<id, table, worker, nextId>>
    BY <1>8 DEF CallCreate, workerVars
  <2>3. pc'[t] = "creating" /\ \A u \in Tasks \ {t} : pc'[u] = pc[u]
    BY <1>8 DEF CallCreate, TypeInv
  <2>4. answer'[t] = "none" /\ \A u \in Tasks \ {t} : answer'[u] = answer[u]
    BY <2>1, SendType
  <2> QED
    BY <2>2, <2>3, <2>4 DEF HandleInv, Holds, Serving
<1>9. ASSUME NEW t \in Tasks, CallGenerate(t) \/ CallStream(t) PROVE HandleInv'
  <2>1. PICK op \in Ops : Send(t, op)
    BY <1>9 DEF CallGenerate, CallStream, Ops
  <2>2. pc[t] = "holding" /\ UNCHANGED <<id, table, worker, nextId>>
    BY <1>9 DEF CallGenerate, CallStream, workerVars
  <2>3. pc'[t] \in {"awaiting", "starting"} /\ \A u \in Tasks \ {t} : pc'[u] = pc[u]
    BY <1>9 DEF CallGenerate, CallStream, TypeInv
  <2> QED
    BY <2>1, <2>2, <2>3, SendType DEF HandleInv, Holds, Serving
<1>10. ASSUME NEW t \in Tasks, AwaitReturns(t) PROVE HandleInv'
  <2>1. UNCHANGED <<id, answer, table, worker, nextId>>
    BY <1>10 DEF AwaitReturns, workerVars
  <2>2. /\ \A u \in Tasks \ {t} : pc'[u] = pc[u]
        /\ pc'[t] = IF pc[t] = "creating" /\ answer[t] # "ok" THEN "idle" ELSE "holding"
    BY <1>10 DEF AwaitReturns, TypeInv
  <2>3. Awaits(t)
    BY <1>10 DEF AwaitReturns
  <2> QED
    BY <2>1, <2>2, <2>3 DEF HandleInv, Holds, Serving, Awaits
<1>11. ASSUME NEW t \in Tasks, AwaitCancelled(t) PROVE HandleInv'
  <2>1. UNCHANGED <<table, worker, nextId>> /\ Awaits(t)
    BY <1>11 DEF AwaitCancelled, workerVars
  <2>2. \A u \in Tasks \ {t} : pc'[u] = pc[u] /\ id'[u] = id[u] /\ answer'[u] = answer[u]
    BY <1>11 DEF AwaitCancelled, TypeInv
  <2>3. IF pc[t] = "creating" THEN pc'[t] = "idle" /\ id'[t] = 0
                              ELSE pc'[t] = "holding" /\ id'[t] = id[t]
    BY <1>11 DEF AwaitCancelled, TypeInv
  <2> QED
    <3>1. nextId \in Nat /\ 0 < nextId
      BY DEF TypeInv
    <3>2. \A u \in Tasks : id'[u] \in {0, id[u]}
      BY <2>2, <2>3
    <3>3. \A u, v \in Tasks : id'[u] = id'[v] /\ id'[u] # 0 => u = v
      BY <3>2 DEF HandleInv
    <3>4. \A u \in Tasks : id'[u] < nextId' /\ (Serving' /\ id'[u] # 0 => id'[u] \in table')
      BY <2>1, <3>1, <3>2 DEF HandleInv, Serving
    <3>5. \A u \in Tasks :
             /\ pc'[u] = "idle" => id'[u] = 0
             /\ pc'[u] = "creating" => (id'[u] # 0 <=> answer'[u] = "ok")
             /\ Holds(u)' => id'[u] # 0
      BY <2>1, <2>2, <2>3 DEF HandleInv, Holds, Awaits
    <3> QED
      BY <3>3, <3>4, <3>5 DEF HandleInv
<1>12. ASSUME NEW t \in Tasks, DropHandle(t) PROVE HandleInv'
  BY <1>12 DEF DropHandle, HandleInv, Holds, Serving, TypeInv, workerVars
<1>13. ASSUME NEW t \in Tasks, ReadEvent(t) \/ ReadNone(t) \/ DropStream(t) PROVE HandleInv'
  BY <1>0, <1>13 DEF ReadEvent, ReadNone, DropStream, workerVars, Serving
<1>14. CASE UNCHANGED vars
  BY <1>0, <1>14 DEF vars, workerVars, taskVars, Serving
<1> QED
  BY <1>1, <1>2, <1>3, <1>4, <1>5, <1>6, <1>7, <1>8, <1>9, <1>10, <1>11, <1>12, <1>13, <1>14
  DEF Next, WorkerStep, TaskStep, Finished

-----------------------------------------------------------------------------
LEMMA PendingType == TypeInv => Pending \subseteq AnyRequests
<1> SUFFICES ASSUME TypeInv PROVE Pending \subseteq AnyRequests
  OBVIOUS
<1>1. requests \in Seq(AnyRequests) /\ current \subseteq AnyRequests
  BY DEF TypeInv
<1>2. \A k \in 1..Len(requests) : requests[k] \in AnyRequests
  BY <1>1, ElementOfSeq
<1> QED
  BY <1>1, <1>2 DEF Pending, Queued

LEMMA PendingInit == Init => PendingInv
<1> SUFFICES ASSUME Init PROVE PendingInv
  OBVIOUS
<1>1. Queued = {} /\ worker # "calling"
  BY NoQueue DEF Init
<1> QED
  BY <1>1 DEF PendingInv, Pending

\* A task sends a request for the session it has, if it is not for a new one.
LEMMA SendPending ==
    ASSUME TypeInv, HandleInv, PendingInv, NEW t \in Tasks, NEW op \in {"create", "generate", "stream"},
           Send(t, op), UNCHANGED <<worker, current, table, nextId, id>>,
           pc[t] = IF op = "create" THEN "idle" ELSE "holding",
           pc' = [pc EXCEPT ![t] = CASE op = "create" -> "creating"
                                     [] op = "generate" -> "awaiting"
                                     [] op = "stream" -> "starting"]
    PROVE  PendingInv'
<1> DEFINE r == [op |-> op, task |-> t, call |-> calls'[t], id |-> id[t]]
<1>1. r \in AnyRequests /\ requests' = Append(requests, r)
  BY SendType DEF Ops
<1>2. Pending' = Pending \cup {r}
  BY <1>1, SendRequest DEF Pending
<1>3. /\ calls'[t] = calls[t] + 1 /\ calls[t] \in Nat /\ answer'[t] = "none"
      /\ \A u \in Tasks \ {t} : calls'[u] = calls[u] /\ answer'[u] = answer[u] /\ pc'[u] = pc[u]
  BY SendType DEF Ops, TypeInv
<1>4. pc'[t] = CASE op = "create" -> "creating" [] op = "generate" -> "awaiting" [] op = "stream" -> "starting"
  BY DEF TypeInv
<1>5. ASSUME NEW q, q = r PROVE Sound(q)'
  <2>1. id[t] < nextId /\ (op # "create" => id[t] # 0 /\ (Serving => id[t] \in table))
    BY DEF HandleInv, Holds
  <2> QED
    BY <1>3, <1>4, <1>5, <2>1 DEF Sound, Serving
<1>6. ASSUME NEW q \in Pending PROVE Sound(q)'
  <2>1. Sound(q) /\ q.task \in Tasks /\ q.call \in Nat
    BY PendingType DEF PendingInv, AnyRequests
  <2>2. CASE q.task = t
    <3>1. q.op # "delete" => q.call < calls'[t]
      BY <1>3, <2>1, <2>2 DEF Sound
    <3> QED
      BY <1>3, <2>1, <2>2, <3>1 DEF Sound, Serving
  <2>3. CASE q.task # t
    BY <1>3, <2>1, <2>3 DEF Sound, Serving, Awaits
  <2> QED
    BY <2>2, <2>3
<1> QED
  BY <1>2, <1>5, <1>6 DEF PendingInv

\* Once the request taken is answered, what it has been told concerns
\* nothing that is still to be served.
LEMMA AnsweredPending ==
    ASSUME TypeInv, PendingInv, OrderInv, worker = "calling", worker' # "calling",
           UNCHANGED <<requests, pc, calls>>,
           NEW q \in current, q.op # "delete", NEW a \in {"ok", "error"}, Respond(q, a),
           \A t \in Tasks : id'[t] = id[t] \/ id'[t] = nextId,
           table \subseteq table', nextId' \in {nextId, nextId + 1}
    PROVE  PendingInv'
<1>1. Pending' = Queued /\ Queued \subseteq Pending /\ current \subseteq Pending
  BY DEF Pending, Queued
<1>2. q \in AnyRequests /\ nextId \in Nat
  BY DEF TypeInv
<1>3. ASSUME NEW r \in Queued PROVE Sound(r)'
  <2>1. r \in AnyRequests /\ Sound(r) /\ Sound(q) /\ Before(q, r)
    BY <1>1, PendingType DEF PendingInv, OrderInv
  <2>2. r.task \in Tasks /\ r.call \in Nat /\ q.call \in Nat /\ r.id \in Nat
    BY <1>2, <2>1 DEF AnyRequests
  <2>3. r.op # "delete" /\ r.call = calls[r.task] => answer'[r.task] = answer[r.task]
    <3>1. CASE r.op # "delete" /\ r.call = calls[r.task] /\ r.task = q.task
      <4>1. q.call < r.call
        BY <2>1, <3>1 DEF Before
      <4>2. ~Wanted(q)
        BY <2>2, <3>1, <4>1 DEF Wanted
      <4> QED
        BY <4>2 DEF Respond
    <3>2. CASE r.task # q.task
      BY <1>2, <2>2, <3>2, RespondType
    <3> QED
      BY <3>1, <3>2
  <2>4. r.id < nextId'
    BY <1>2, <2>1, <2>2 DEF Sound
  <2>5. \A t \in Tasks : r.op = "delete" => id'[t] # r.id
    BY <1>2, <2>1, <2>2 DEF Sound
  <2> QED
    BY <2>1, <2>3, <2>4, <2>5 DEF Sound, Serving, Awaits
<1> QED
  BY <1>1, <1>3 DEF PendingInv

LEMMA PendingNext ==
    TypeInv /\ WorkerInv /\ HandleInv /\ PendingInv /\ OrderInv /\ [Next]_vars => PendingInv'
<1> SUFFICES ASSUME TypeInv, WorkerInv, HandleInv, PendingInv, OrderInv, [Next]_vars
             PROVE PendingInv'
  OBVIOUS
<1>0. ASSUME UNCHANGED <<pc, calls, id, answer, nextId>>, Pending' \subseteq Pending,
             Serving' => Serving /\ table' = table
      PROVE  PendingInv'
  BY <1>0 DEF PendingInv, Sound, Awaits
<1>1. CASE EngineCall
  BY <1>0, <1>1 DEF EngineCall, NewEngine, SpawnFails, NewReturns, DropEngine, workerVars,
                    taskVars, Serving, WorkerInv, Pending, Queued
<1>2. CASE BuildSucceeds \/ BuildFails \/ LoopEnds \/ ClearTable \/ DropNative \/ StreamStalls
  BY <1>0, <1>2 DEF BuildSucceeds, BuildFails, LoopEnds, ClearTable, DropNative, StreamStalls,
                    Serving, taskVars, Pending, Queued
<1>3. CASE TakeRequest
  <2>1. Pending' \subseteq Pending
    BY <1>3, TakeHead DEF TakeRequest, Pending
  <2> QED
    BY <1>0, <1>3, <2>1 DEF TakeRequest, Serving, taskVars
<1>4. CASE StreamEvent
  BY <1>0, <1>4 DEF StreamEvent, Serving, taskVars, Pending, Queued
<1>5. CASE HandleCreate
  <2>1. PICK q \in current, a \in {"ok", "error"} :
           /\ q.op = "create" /\ nextId' = nextId + 1 /\ Respond(q, a) /\ table \subseteq table'
           /\ id' = id \/ id' = [id EXCEPT ![q.task] = nextId]
    BY <1>5 DEF HandleCreate
  <2>2. \A t \in Tasks : id'[t] = id[t] \/ id'[t] = nextId
    BY <2>1 DEF TypeInv
  <2>3. worker = "calling" /\ worker' # "calling" /\ UNCHANGED <<requests, pc, calls>>
    BY <1>5 DEF HandleCreate
  <2> QED
    BY <2>1, <2>2, <2>3, AnsweredPending
<1>6. CASE HandleGenerate \/ StreamFails \/ StreamBegins
  <2>1. PICK q \in current, a \in {"ok", "error"} : q.op \in {"generate", "stream"} /\ Respond(q, a)
    BY <1>6 DEF HandleGenerate, StreamFails, StreamBegins
  <2>2. worker = "calling" /\ worker' # "calling" /\ UNCHANGED <<requests, pc, calls, id, table, nextId>>
    BY <1>6 DEF HandleGenerate, StreamFails, StreamBegins
  <2> QED
    BY <2>1, <2>2, AnsweredPending
<1>7. CASE HandleDelete
  <2>1. PICK q \in current : q.op = "delete" /\ table' = table \ {q.id}
    BY <1>7 DEF HandleDelete
  <2>2. worker = "calling" /\ worker' = "receiving" /\ UNCHANGED <<requests, pc, calls, id, answer, nextId>>
    BY <1>7 DEF HandleDelete, taskVars
  <2>3. Pending' = Queued /\ Queued \subseteq Pending
    BY <2>2 DEF Pending, Queued
  <2>4. ASSUME NEW r \in Queued PROVE Sound(r)'
    <3>1. Sound(r) /\ r.id # q.id
      BY <2>1, <2>2, <2>3, <2>4 DEF PendingInv, OrderInv, Before
    <3> QED
      BY <2>1, <2>2, <3>1 DEF Sound, Serving, Awaits
  <2> QED
    BY <2>3, <2>4 DEF PendingInv
<1>8. CASE Panic
  <2>1. requests' = <<>> /\ worker' = "closing"
    BY <1>8 DEF Panic
  <2>2. Pending' = {}
    BY <2>1 DEF Pending, Queued
  <2> QED
    BY <2>2 DEF PendingInv
<1>9. ASSUME NEW t \in Tasks, CallCreate(t) \/ CallGenerate(t) \/ CallStream(t) PROVE PendingInv'
  <2>1. UNCHANGED <<worker, current, table, nextId, id>>
    BY <1>9 DEF CallCreate, CallGenerate, CallStream, workerVars
  <2>2. CASE CallCreate(t)
    BY <2>1, <2>2, SendPending DEF CallCreate
  <2>3. CASE CallGenerate(t)
    BY <2>1, <2>3, SendPending DEF CallGenerate
  <2>4. CASE CallStream(t)
    BY <2>1, <2>4, SendPending DEF CallStream
  <2> QED
    BY <1>9, <2>2, <2>3, <2>4
<1>10. ASSUME NEW t \in Tasks, AwaitReturns(t) PROVE PendingInv'
  <2>1. UNCHANGED <<id, answer, calls, table, worker, current, requests, nextId>>
        /\ answer[t] # "none" /\ Awaits(t)
    BY <1>10 DEF AwaitReturns, workerVars
  <2>2. /\ \A u \in Tasks \ {t} : pc'[u] = pc[u]
        /\ pc'[t] \in {"idle", "holding"}
    BY <1>10 DEF AwaitReturns, TypeInv
  <2>3. Pending' = Pending
    BY <2>1 DEF Pending, Queued
  <2>4. ASSUME NEW q \in Pending PROVE Sound(q)'
    <3>1. Sound(q) /\ q.task \in Tasks
      BY PendingType DEF PendingInv, AnyRequests
    <3>2. CASE q.task = t
      <4>1. q.op # "delete" => q.call # calls[t]
        BY <2>1, <3>1, <3>2 DEF Sound
      <4> QED
        BY <2>1, <3>1, <3>2, <4>1 DEF Sound, Serving
    <3>3. CASE q.task # t
      BY <2>1, <2>2, <3>1, <3>3 DEF Sound, Serving, Awaits
    <3> QED
      BY <3>2, <3>3
  <2> QED
    BY <2>3, <2>4 DEF PendingInv
<1>11. ASSUME NEW t \in Tasks, AwaitCancelled(t) PROVE PendingInv'
  <2>1. UNCHANGED <<calls, table, worker, current, requests, nextId>> /\ Awaits(t)
    BY <1>11 DEF AwaitCancelled, workerVars
  <2>2. /\ \A u \in Tasks \ {t} : pc'[u] = pc[u] /\ id'[u] = id[u] /\ answer'[u] = answer[u]
        /\ id'[t] \in {0, id[t]}
        /\ pc'[t] = IF pc[t] = "creating" THEN "idle" ELSE "holding"
    BY <1>11 DEF AwaitCancelled, TypeInv
  <2>3. Pending' = Pending
    BY <2>1 DEF Pending, Queued
  <2>4. ASSUME NEW q \in Pending PROVE Sound(q)'
    <3>1. Sound(q) /\ q.task \in Tasks
      BY PendingType DEF PendingInv, AnyRequests
    <3>2. \A u \in Tasks : q.op = "delete" => id'[u] # q.id
      BY <2>2, <3>1 DEF Sound
    <3>3. CASE q.task = t
      BY <2>1, <2>2, <3>1, <3>2, <3>3 DEF Sound, Serving, Awaits
    <3>4. CASE q.task # t
      BY <2>1, <2>2, <3>1, <3>2, <3>4 DEF Sound, Serving, Awaits
    <3> QED
      BY <3>3, <3>4
  <2> QED
    BY <2>3, <2>4 DEF PendingInv
<1>12. ASSUME NEW t \in Tasks, DropHandle(t) PROVE PendingInv'
  <2> DEFINE r == [op |-> "delete", task |-> t, call |-> 0, id |-> id[t]]
  <2>1. UNCHANGED <<calls, answer, table, worker, current, nextId>> /\ pc[t] = "holding"
    BY <1>12 DEF DropHandle, workerVars
  <2>2. /\ \A u \in Tasks \ {t} : pc'[u] = pc[u] /\ id'[u] = id[u]
        /\ id'[t] = 0 /\ pc'[t] = "idle"
    BY <1>12 DEF DropHandle, TypeInv
  <2>3. r \in AnyRequests
    BY DEF AnyRequests, TypeInv, Ops
  <2>4. Pending' \subseteq Pending \cup {r}
    <3>1. requests' = Append(requests, r) \/ requests' = requests
      BY <1>12 DEF DropHandle
    <3> QED
      BY <2>1, <2>3, <3>1, SendRequest DEF Pending, Queued
  <2>5. ASSUME NEW q, q = r PROVE Sound(q)'
    <3>1. id[t] # 0 /\ id[t] < nextId
      BY <2>1 DEF HandleInv, Holds
    <3>2. \A u \in Tasks : id'[u] # id[t]
      BY <2>2, <3>1 DEF HandleInv
    <3> QED
      BY <2>1, <2>5, <3>1, <3>2 DEF Sound
  <2>6. ASSUME NEW q \in Pending PROVE Sound(q)'
    <3>1. Sound(q) /\ q.task \in Tasks
      BY PendingType DEF PendingInv, AnyRequests
    <3>2. \A u \in Tasks : q.op = "delete" => id'[u] # q.id
      BY <2>2, <3>1 DEF Sound
    <3>3. CASE q.task = t
      BY <2>1, <2>2, <3>1, <3>2, <3>3 DEF Sound, Serving, Awaits
    <3>4. CASE q.task # t
      BY <2>1, <2>2, <3>1, <3>2, <3>4 DEF Sound, Serving, Awaits
    <3> QED
      BY <3>3, <3>4
  <2> QED
    BY <2>4, <2>5, <2>6 DEF PendingInv
<1>13. ASSUME NEW t \in Tasks, ReadEvent(t) \/ ReadNone(t) \/ DropStream(t) PROVE PendingInv'
  BY <1>0, <1>13 DEF ReadEvent, ReadNone, DropStream, workerVars, Serving, Pending, Queued
<1>14. CASE UNCHANGED vars
  BY <1>0, <1>14 DEF vars, workerVars, taskVars, Serving, Pending, Queued
<1> QED
  BY <1>1, <1>2, <1>3, <1>4, <1>5, <1>6, <1>7, <1>8, <1>9, <1>10, <1>11, <1>12, <1>13, <1>14
  DEF Next, WorkerStep, TaskStep, Finished

-----------------------------------------------------------------------------
LEMMA OrphansInit == Init => OnlyOrphansStay
BY DEF Init, OnlyOrphansStay

LEMMA DeletingIs == \A i : Deleting(i) <=> \E q \in current \cup Queued : q.op = "delete" /\ q.id = i
BY DEF Deleting, Queued

LEMMA OrphansNext ==
    TypeInv /\ WorkerInv /\ HandleInv /\ PendingInv /\ OnlyOrphansStay /\ [Next]_vars
        => OnlyOrphansStay'
<1> SUFFICES ASSUME TypeInv, WorkerInv, HandleInv, PendingInv, OnlyOrphansStay, [Next]_vars,
                    Serving', NEW i \in table'
             PROVE  (\E t \in Tasks : id'[t] = i) \/ Deleting(i)' \/ i \in orphans'
  BY DEF OnlyOrphansStay, Serving
<1> DEFINE Known == (\E t \in Tasks : id[t] = i) \/ Deleting(i) \/ i \in orphans
<1>0. ASSUME Serving, i \in table PROVE Known
  BY <1>0 DEF OnlyOrphansStay, Serving
<1>1. CASE EngineCall
  BY <1>0, <1>1 DEF EngineCall, NewEngine, SpawnFails, NewReturns, DropEngine, workerVars,
                    taskVars, Serving, WorkerInv, Deleting
<1>2. CASE BuildSucceeds \/ BuildFails \/ LoopEnds \/ ClearTable \/ DropNative \/ StreamStalls
  BY <1>0, <1>2 DEF BuildSucceeds, BuildFails, LoopEnds, ClearTable, DropNative, StreamStalls,
                    Serving, taskVars, Deleting
<1>3. CASE TakeRequest
  <2>1. Queued' \cup current' = Queued /\ current = {}
    BY <1>3, TakeHead DEF TakeRequest, WorkerInv
  <2>2. Deleting(i) => Deleting(i)'
    BY <2>1 DEF Deleting, Queued
  <2> QED
    BY <1>0, <1>3, <2>2 DEF TakeRequest, Serving, taskVars
<1>4. CASE StreamEvent
  <2>1. \A q \in current : q.op = "stream"
    BY <1>4 DEF StreamEvent, WorkerInv
  <2>2. Deleting(i) => Deleting(i)'
    BY <1>4, <2>1 DEF StreamEvent, Deleting
  <2> QED
    BY <1>0, <1>4, <2>2 DEF StreamEvent, Serving
<1>5. CASE HandleCreate
  <2>1. PICK q \in current :
           /\ q.op = "create"
           /\ \/ /\ table' = table \cup {nextId}
                 /\ id' = IF Wanted(q) THEN [id EXCEPT ![q.task] = nextId] ELSE id
                 /\ orphans' = IF Wanted(q) THEN orphans ELSE orphans \cup {nextId}
              \/ UNCHANGED <<table, id, orphans>>
    BY <1>5 DEF HandleCreate
  <2>2. worker = "calling" /\ requests' = requests /\ q.task \in Tasks
    BY <1>5 DEF HandleCreate, TypeInv, AnyRequests
  <2>3. Deleting(i) => Deleting(i)'
    BY <1>5, <2>1 DEF HandleCreate, Deleting, WorkerInv
  <2>4. Wanted(q) => id[q.task] = 0
    BY <2>1, <2>2, AnswersCreate
  <2>5. i # 0
    BY <2>1 DEF TypeInv
  <2>6. CASE i = nextId /\ table' = table \cup {nextId}
    <3>1. CASE Wanted(q) /\ id' = [id EXCEPT ![q.task] = nextId]
      <4>1. id'[q.task] = i
        BY <2>2, <2>6, <3>1 DEF TypeInv
      <4> QED
        BY <2>2, <4>1
    <3>2. CASE ~Wanted(q) /\ orphans' = orphans \cup {nextId}
      BY <2>6, <3>2
    <3>3. CASE UNCHANGED <<table, id, orphans>>
      BY <1>0, <2>2, <2>3, <3>3 DEF Serving
    <3> QED
      BY <2>1, <3>1, <3>2, <3>3
  <2>7. CASE i \in table
    <3>1. Known
      BY <1>0, <2>2, <2>7 DEF Serving
    <3>2. \A t \in Tasks : id[t] = i => id'[t] = i
      BY <2>1, <2>4, <2>5 DEF TypeInv
    <3> QED
      BY <2>1, <2>3, <3>1, <3>2
  <2> QED
    BY <2>1, <2>6, <2>7
<1>6. CASE HandleGenerate \/ StreamFails \/ StreamBegins
  <2>1. PICK q \in current : q.op # "delete"
    BY <1>6 DEF HandleGenerate, StreamFails, StreamBegins
  <2>2. Deleting(i) => Deleting(i)'
    BY <1>6, <2>1 DEF HandleGenerate, StreamFails, StreamBegins, Deleting, WorkerInv
  <2> QED
    BY <1>0, <1>6, <2>2 DEF HandleGenerate, StreamFails, StreamBegins, Serving
<1>7. CASE HandleDelete
  <2>1. PICK q \in current : q.op = "delete" /\ table' = table \ {q.id} /\ orphans' = orphans \ {q.id}
    BY <1>7 DEF HandleDelete
  <2>2. i # q.id /\ i \in table /\ worker = "calling"
    BY <1>7, <2>1 DEF HandleDelete
  <2>3. Deleting(i) => Deleting(i)'
    BY <1>7, <2>1, <2>2 DEF HandleDelete, Deleting, WorkerInv
  <2> QED
    BY <1>0, <1>7, <2>1, <2>2, <2>3 DEF HandleDelete, Serving, taskVars
<1>8. CASE Panic
  BY <1>8 DEF Panic, Serving
<1>9. ASSUME NEW t \in Tasks, CallCreate(t) \/ CallGenerate(t) \/ CallStream(t)
      PROVE  (\E u \in Tasks : id'[u] = i) \/ Deleting(i)' \/ i \in orphans'
  <2>1. PICK op \in Ops : Send(t, op)
    BY <1>9 DEF CallCreate, CallGenerate, CallStream, Ops
  <2>2. UNCHANGED <<workerVars, id, orphans>>
    BY <1>9 DEF CallCreate, CallGenerate, CallStream
  <2>3. Queued \subseteq Queued'
    BY <2>1, SendType, SendRequest
  <2>4. Deleting(i) => Deleting(i)'
    BY <2>2, <2>3 DEF workerVars, Deleting, Queued
  <2> QED
    BY <1>0, <2>2, <2>4 DEF workerVars, Serving
<1>10. ASSUME NEW t \in Tasks,
              AwaitReturns(t) \/ ReadEvent(t) \/ ReadNone(t) \/ DropStream(t)
       PROVE  (\E u \in Tasks : id'[u] = i) \/ Deleting(i)' \/ i \in orphans'
  <2>1. UNCHANGED <<worker, table, id, orphans, requests, current>>
    BY <1>10 DEF AwaitReturns, ReadEvent, ReadNone, DropStream, workerVars
  <2> QED
    BY <1>0, <2>1 DEF Deleting, Serving
<1>11. ASSUME NEW t \in Tasks, AwaitCancelled(t)
       PROVE  (\E u \in Tasks : id'[u] = i) \/ Deleting(i)' \/ i \in orphans'
  <2>1. UNCHANGED <<worker, table, requests, current>> /\ orphans \subseteq orphans'
    BY <1>11 DEF AwaitCancelled, workerVars
  <2>2. i # 0
    BY <2>1 DEF TypeInv
  <2>3. \A u \in Tasks : id[u] = i => id'[u] = i \/ i \in orphans'
    <3>1. \A u \in Tasks \ {t} : id'[u] = id[u]
      BY <1>11 DEF AwaitCancelled, TypeInv
    <3>2. id'[t] = id[t] \/ (pc[t] = "creating" /\ (answer[t] = "ok" => id[t] \in orphans'))
      BY <1>11 DEF AwaitCancelled, TypeInv
    <3> QED
      BY <2>2, <3>1, <3>2 DEF HandleInv
  <2> QED
    BY <1>0, <2>1, <2>3 DEF Deleting, Serving
<1>12. ASSUME NEW t \in Tasks, DropHandle(t)
       PROVE  (\E u \in Tasks : id'[u] = i) \/ Deleting(i)' \/ i \in orphans'
  <2> DEFINE r == [op |-> "delete", task |-> t, call |-> 0, id |-> id[t]]
  <2>1. UNCHANGED <<worker, table, current, orphans>>
    BY <1>12 DEF DropHandle, workerVars
  <2>2. r \in AnyRequests
    BY DEF AnyRequests, TypeInv, Ops
  <2>3. worker # "none"
    BY <2>1 DEF WorkerInv
  <2>4. Queued' = Queued \cup {r}
    BY <1>12, <2>1, <2>2, <2>3, SendRequest DEF DropHandle, WorkerReceives, Serving
  <2>5. Deleting(i) => Deleting(i)'
    BY <2>1, <2>4 DEF Deleting, Queued
  <2>6. id[t] = i => Deleting(i)'
    <3>1. r \in Queued' /\ r.op = "delete" /\ r.id = id[t]
      BY <2>4
    <3> QED
      BY <3>1, DeletingIs DEF Deleting, Queued
  <2>7. \A u \in Tasks \ {t} : id'[u] = id[u]
    BY <1>12 DEF DropHandle, TypeInv
  <2> QED
    BY <1>0, <2>1, <2>5, <2>6, <2>7 DEF Serving
<1>13. CASE UNCHANGED vars
  BY <1>0, <1>13 DEF vars, workerVars, taskVars, Serving, Deleting
<1> QED
  BY <1>1, <1>2, <1>3, <1>4, <1>5, <1>6, <1>7, <1>8, <1>9, <1>10, <1>11, <1>12, <1>13
  DEF Next, WorkerStep, TaskStep, Finished

-----------------------------------------------------------------------------
Inductive == TypeInv /\ IInv

\* What the worker, the channel and the tasks know of the sessions fits
\* together at every step, whichever futures and handles are dropped when.
THEOREM Invariant == Spec => []Inductive
<1>1. Init => Inductive
  BY TypeInit, WorkerInit, HandleInit, PendingInit, OrderInit, OrphansInit DEF Inductive, IInv
<1>2. Inductive /\ [Next]_vars => Inductive'
  BY TypeNext, WorkerNext, HandleNext, PendingNext, OrderNext, OrphansNext DEF Inductive, IInv
<1> QED
  BY <1>1, <1>2, PTL DEF Spec

\* "unknown async session" is an answer nobody gets: a deletion is the last
\* request that names its id (the drops of the handles, 174 and 221).
THEOREM SessionIsFound == Spec => []NeverUnknown
<1>1. Inductive => NeverUnknown
  <2> SUFFICES ASSUME Inductive PROVE NeverUnknown
    OBVIOUS
  <2>1. HandleInv /\ PendingInv
    BY DEF Inductive, IInv
  <2>2. ASSUME worker = "calling", NEW q \in current, q.op \in {"generate", "stream"} PROVE q.id \in table
    <3>1. Sound(q)
      BY <2>1, <2>2 DEF PendingInv, Pending
    <3> QED
      BY <2>2, <3>1 DEF Sound, Serving
  <2> QED
    BY <2>1, <2>2 DEF NeverUnknown, HandleInv, Serving
<1> QED
  BY <1>1, Invariant, PTL

\* Whatever ends the worker, a panic too, the sessions made on the engine
\* are deleted before it (the Drop of WorkerState).
THEOREM EngineLivesLongest == Spec => []EngineOutlivesSessions
<1>1. Inductive => EngineOutlivesSessions
  BY DEF Inductive, IInv, WorkerInv, EngineOutlivesSessions
<1> QED
  BY <1>1, Invariant, PTL

\* The only sessions that outstay their owners are those whose create
\* future was dropped.
THEOREM OthersAreDeleted == Spec => []OnlyOrphansStay
<1>1. Inductive => OnlyOrphansStay
  BY DEF Inductive, IInv
<1> QED
  BY <1>1, Invariant, PTL

=============================================================================
