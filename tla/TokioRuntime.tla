---------------------------- MODULE TokioRuntime ----------------------------
(***************************************************************************)
(* litert-lm-edge/src/tokio_runtime.rs: one TokioEngine, the worker thread *)
(* that owns the native engine with the sessions made on it, the channel   *)
(* of EngineRequest between them, and the async tasks that hold handles.   *)
(*                                                                         *)
(* TokioSession and TokioConversation differ in the vector their native    *)
(* object is kept in and in what a call may do: one table stands for both  *)
(* vectors (the ids come from one counter), and "generate" for every call  *)
(* that waits for one result. Each task makes handles one after another;   *)
(* it may drop a future at any await, and a stream outlives its handle.    *)
(***************************************************************************)
EXTENDS Naturals, Sequences, FiniteSets
LOCAL INSTANCE Functions

CONSTANTS
    Tasks,
    MaxCalls,      \* bound: requests with an answer, of all tasks together
    MaxChunks,     \* bound: chunks of a stream before its end
    MayPanic,      \* TRUE when a call may panic (a tool's definition or handler)
    MayStall       \* TRUE when the runtime may stop answering in a stream

ASSUME ConstantsAssumption ==
    /\ MaxCalls \in Nat /\ MaxChunks \in Nat
    /\ MayPanic \in BOOLEAN /\ MayStall \in BOOLEAN

Ops == {"create", "generate", "stream", "delete"}

\* An EngineRequest. call tells the oneshot channel it carries from those
\* of the task's other requests; 0 when it has none.
Requests == [op : Ops, task : Tasks, call : 0..MaxCalls, id : Nat]

VARIABLES
    engine,     \* the TokioEngine handle
    native,     \* the Engine the worker owns
    worker,     \* what the worker thread is at
    requests,   \* the std::sync::mpsc channel, oldest first
    current,    \* the requests the worker has taken: one, or none
    table,      \* WorkerState::sessions and ::conversations, by id
    nextId,     \* WorkerState::next_id
    chunks,     \* chunks of the stream the worker is in
    pc,         \* pc[t]: what task t is at
    calls,      \* calls[t]: requests with an answer t has sent
    id,         \* id[t]: the id in t's handle, or in the answer for it
    answer,     \* answer[t]: the oneshot of the call t awaits
    reader,     \* reader[t]: the call whose TokioTextStream t has, or 0
    events,     \* events[t]: the unbounded channel of that stream
    orphans     \* history: ids that were answered to nobody

workerVars == <<native, worker, current, table, nextId, chunks>>
taskVars == <<pc, calls, id, answer, reader, events>>
vars == <<engine, workerVars, requests, taskVars, orphans>>

Init ==
    /\ engine = "none"
    /\ native = "none"
    /\ worker = "none"
    /\ requests = <<>>
    /\ current = {}
    /\ table = {}
    /\ nextId = 1
    /\ chunks = 0
    /\ pc = [t \in Tasks |-> "idle"]
    /\ calls = [t \in Tasks |-> 0]
    /\ id = [t \in Tasks |-> 0]
    /\ answer = [t \in Tasks |-> "none"]
    /\ reader = [t \in Tasks |-> 0]
    /\ events = [t \in Tasks |-> <<>>]
    /\ orphans = {}

\* t has a TokioSession (or TokioConversation), and with it a Sender.
Holds(t) == pc[t] \in {"holding", "awaiting", "starting"}

\* t awaits an answer.
Awaits(t) == pc[t] \in {"creating", "awaiting", "starting"}

NoSenders == engine \in {"dropped", "failed"} /\ \A t \in Tasks : ~Holds(t)

\* The future or the stream that wants the answer, or the events, of q.
Wanted(q) == Awaits(q.task) /\ calls[q.task] = q.call
Listened(q) == reader[q.task] = q.call \/ (pc[q.task] = "starting" /\ calls[q.task] = q.call)

\* respond_to.send: the answer to nobody is dropped.
Respond(q, a) == answer' = IF Wanted(q) THEN [answer EXCEPT ![q.task] = a] ELSE answer

\* The worker is still there to receive; otherwise send is WorkerStopped,
\* which a call returns at once and a drop ignores.
WorkerReceives == worker \notin {"none", "closing", "exited"}

Send(t, op) ==
    /\ WorkerReceives
    /\ SumFunction(calls) < MaxCalls
    /\ calls' = [calls EXCEPT ![t] = @ + 1]
    /\ answer' = [answer EXCEPT ![t] = "none"]
    /\ requests' = Append(requests, [op |-> op, task |-> t, call |-> calls'[t], id |-> id[t]])

-----------------------------------------------------------------------------
(* Faulty variants of operations below, used by no behaviour of Spec.      *)

\* A deletion is served before the requests sent before it.
DropHandleOvertakes(t) ==
    /\ pc[t] = "holding"
    /\ pc' = [pc EXCEPT ![t] = "idle"]
    /\ id' = [id EXCEPT ![t] = 0]
    /\ requests' = IF WorkerReceives
                   THEN <<[op |-> "delete", task |-> t, call |-> 0, id |-> id[t]]>> \o requests
                   ELSE requests
    /\ UNCHANGED <<engine, workerVars, calls, answer, reader, events, orphans>>

\* Dropping a handle tells the worker nothing.
DropHandleSilently(t) ==
    /\ pc[t] = "holding"
    /\ pc' = [pc EXCEPT ![t] = "idle"]
    /\ id' = [id EXCEPT ![t] = 0]
    /\ UNCHANGED <<engine, workerVars, requests, calls, answer, reader, events, orphans>>

\* The fields are dropped in the order engine, sessions, conversations.
DropEngineFirst ==
    /\ worker = "closing"
    /\ native = "live"
    /\ native' = "deleted"
    /\ worker' = "exited"
    /\ UNCHANGED <<engine, requests, current, table, nextId, chunks, taskVars, orphans>>

\* The worker keeps the sending half of a stream that has ended.
FedForEver(t) == worker # "exited"

\* allocate_id without the increment.
HandleCreateReusesId ==
    /\ worker = "calling"
    /\ \E q \in current :
          /\ q.op = "create"
          /\ table' = table \cup {nextId}
          /\ Respond(q, "ok")
          /\ id' = IF Wanted(q) THEN [id EXCEPT ![q.task] = nextId] ELSE id
          /\ orphans' = IF Wanted(q) THEN orphans ELSE orphans \cup {nextId}
    /\ worker' = "receiving"
    /\ current' = {}
    /\ UNCHANGED <<engine, native, nextId, chunks, requests, pc, calls, reader, events>>

\* The worker waits for every session to be deleted by its handle.
LoopEndsWhenEmpty ==
    /\ worker = "receiving"
    /\ requests = <<>>
    /\ NoSenders
    /\ table = {}
    /\ worker' = "closing"
    /\ UNCHANGED <<engine, native, current, table, nextId, chunks, requests, taskVars, orphans>>

\* The worker keeps the waiting oneshots when it unwinds.
PanicKeepsAnswers ==
    /\ MayPanic
    /\ worker = "calling"
    /\ \E q \in current : q.op \in {"create", "generate"}
    /\ worker' = "closing"
    /\ requests' = <<>>
    /\ current' = {}
    /\ UNCHANGED <<engine, native, table, nextId, chunks, taskVars, orphans>>

-----------------------------------------------------------------------------
(* TokioEngine.                                                            *)

\* new spawns the worker, which builds the engine, and awaits its word.
NewEngine ==
    /\ engine = "none"
    /\ engine' = "building"
    /\ worker' = "building"
    /\ UNCHANGED <<native, current, table, nextId, chunks, requests, taskVars, orphans>>

\* Builder::spawn returns an error.
SpawnFails ==
    /\ engine = "none"
    /\ engine' = "failed"
    /\ UNCHANGED <<workerVars, requests, taskVars, orphans>>

BuildSucceeds ==
    /\ worker = "building"
    /\ worker' = "receiving"
    /\ native' = "live"
    /\ UNCHANGED <<engine, current, table, nextId, chunks, requests, taskVars, orphans>>

BuildFails ==
    /\ worker = "building"
    /\ worker' = "exited"
    /\ UNCHANGED <<engine, native, current, table, nextId, chunks, requests, taskVars, orphans>>

\* The initialized oneshot: Ok, Err, or dropped by a build that panicked.
NewReturns ==
    /\ engine = "building"
    /\ worker # "building"
    /\ engine' = IF native = "live" THEN "live" ELSE "failed"
    /\ UNCHANGED <<workerVars, requests, taskVars, orphans>>

\* The handle is dropped, or the future of new before it is ready. A
\* creating future borrows the handle.
DropEngine ==
    /\ engine \in {"building", "live"}
    /\ \A t \in Tasks : pc[t] # "creating"
    /\ engine' = "dropped"
    /\ UNCHANGED <<workerVars, requests, taskVars, orphans>>

-----------------------------------------------------------------------------
(* The tasks.                                                              *)

CallCreate(t) ==
    /\ pc[t] = "idle"
    /\ engine = "live"
    /\ Send(t, "create")
    /\ pc' = [pc EXCEPT ![t] = "creating"]
    /\ UNCHANGED <<engine, workerVars, id, reader, events, orphans>>

CallGenerate(t) ==
    /\ pc[t] = "holding"
    /\ Send(t, "generate")
    /\ pc' = [pc EXCEPT ![t] = "awaiting"]
    /\ UNCHANGED <<engine, workerVars, id, reader, events, orphans>>

CallStream(t) ==
    /\ pc[t] = "holding"
    /\ reader[t] = 0
    /\ Send(t, "stream")
    /\ pc' = [pc EXCEPT ![t] = "starting"]
    /\ UNCHANGED <<engine, workerVars, id, reader, events, orphans>>

\* The await is over: "gone" is the oneshot dropped, WorkerStopped.
AwaitReturns(t) ==
    /\ Awaits(t)
    /\ answer[t] # "none"
    /\ pc' = [pc EXCEPT ![t] = IF @ = "creating" /\ answer[t] # "ok" THEN "idle" ELSE "holding"]
    /\ reader' = [reader EXCEPT ![t] =
                     IF pc[t] = "starting" /\ answer[t] = "ok" THEN calls[t] ELSE @]
    /\ events' = [events EXCEPT ![t] =
                     IF pc[t] = "starting" /\ answer[t] # "ok" THEN <<>> ELSE @]
    /\ UNCHANGED <<engine, workerVars, requests, calls, id, answer, orphans>>

\* The future is dropped instead: nobody deletes a session it would have
\* named, and the worker serves a request that is still in the channel.
AwaitCancelled(t) ==
    /\ Awaits(t)
    /\ pc' = [pc EXCEPT ![t] = IF @ = "creating" THEN "idle" ELSE "holding"]
    /\ id' = [id EXCEPT ![t] = IF pc[t] = "creating" THEN 0 ELSE @]
    /\ orphans' = IF pc[t] = "creating" /\ answer[t] = "ok" THEN orphans \cup {id[t]} ELSE orphans
    /\ events' = [events EXCEPT ![t] = IF pc[t] = "starting" THEN <<>> ELSE @]
    /\ answer' = [answer EXCEPT ![t] = "none"]
    /\ UNCHANGED <<engine, workerVars, requests, calls, reader>>

\* Drop of TokioSession, TokioConversation.
DropHandle(t) ==
    /\ pc[t] = "holding"
    /\ pc' = [pc EXCEPT ![t] = "idle"]
    /\ id' = [id EXCEPT ![t] = 0]
    /\ requests' = IF WorkerReceives
                   THEN Append(requests, [op |-> "delete", task |-> t, call |-> 0, id |-> id[t]])
                   ELSE requests
    /\ UNCHANGED <<engine, workerVars, calls, answer, reader, events, orphans>>

\* The worker still has the sending half of t's stream.
Fed(t) ==
    worker \in {"streaming", "stalled"} /\ \E q \in current : q.task = t /\ q.call = reader[t]

\* TokioTextStream::next gives an event.
ReadEvent(t) ==
    /\ reader[t] # 0
    /\ events[t] # <<>>
    /\ events' = [events EXCEPT ![t] = Tail(@)]
    /\ UNCHANGED <<engine, workerVars, requests, pc, calls, id, answer, reader, orphans>>

\* It gives None: the worker is past the stream. The loop of the README
\* reads on after an Error and ends here.
ReadNone(t) ==
    /\ reader[t] # 0
    /\ events[t] = <<>>
    /\ ~Fed(t)
    /\ reader' = [reader EXCEPT ![t] = 0]
    /\ UNCHANGED <<engine, workerVars, requests, pc, calls, id, answer, events, orphans>>

DropStream(t) ==
    /\ reader[t] # 0
    /\ reader' = [reader EXCEPT ![t] = 0]
    /\ events' = [events EXCEPT ![t] = <<>>]
    /\ UNCHANGED <<engine, workerVars, requests, pc, calls, id, answer, orphans>>

-----------------------------------------------------------------------------
(* worker_loop and WorkerState::handle.                                    *)

TakeRequest ==
    /\ worker = "receiving"
    /\ requests # <<>>
    /\ current' = {Head(requests)}
    /\ requests' = Tail(requests)
    /\ worker' = "calling"
    /\ UNCHANGED <<engine, native, table, nextId, chunks, taskVars, orphans>>

\* create_session: the id is used up whether or not the engine succeeds.
HandleCreate ==
    /\ worker = "calling"
    /\ \E q \in current :
          /\ q.op = "create"
          /\ nextId' = nextId + 1
          /\ \/ /\ table' = table \cup {nextId}
                /\ Respond(q, "ok")
                /\ id' = IF Wanted(q) THEN [id EXCEPT ![q.task] = nextId] ELSE id
                /\ orphans' = IF Wanted(q) THEN orphans ELSE orphans \cup {nextId}
             \/ /\ Respond(q, "error")
                /\ UNCHANGED <<table, id, orphans>>
    /\ worker' = "receiving"
    /\ current' = {}
    /\ UNCHANGED <<engine, native, chunks, requests, pc, calls, reader, events>>

\* session_mut(id) is None: an error, or the call's own result.
HandleGenerate ==
    /\ worker = "calling"
    /\ \E q \in current :
          /\ q.op = "generate"
          /\ \E a \in {"ok", "error"} :
                /\ q.id \notin table => a = "error"
                /\ Respond(q, a)
    /\ worker' = "receiving"
    /\ current' = {}
    /\ UNCHANGED <<engine, native, table, nextId, chunks, requests, pc, calls, id, reader, events,
                   orphans>>

HandleDelete ==
    /\ worker = "calling"
    /\ \E q \in current :
          /\ q.op = "delete"
          /\ table' = table \ {q.id}
          /\ orphans' = orphans \ {q.id}
    /\ worker' = "receiving"
    /\ current' = {}
    /\ UNCHANGED <<engine, native, nextId, chunks, requests, taskVars>>

\* session_stream up to its respond_to.send.
StreamFails ==
    /\ worker = "calling"
    /\ \E q \in current : q.op = "stream" /\ Respond(q, "error")
    /\ worker' = "receiving"
    /\ current' = {}
    /\ UNCHANGED <<engine, native, table, nextId, chunks, requests, pc, calls, id, reader, events,
                   orphans>>

StreamBegins ==
    /\ worker = "calling"
    /\ \E q \in current : q.op = "stream" /\ q.id \in table /\ Respond(q, "ok")
    /\ worker' = "streaming"
    /\ chunks' = 0
    /\ UNCHANGED <<engine, native, current, table, nextId, requests, pc, calls, id, reader, events,
                   orphans>>

\* An event of the stream is passed on: after the end, or when nobody
\* listens, the loop is left (and the TextStream dropped).
StreamEvent ==
    /\ worker = "streaming"
    /\ \E q \in current, e \in {"Chunk", "Final", "Error"} :
          /\ e = "Chunk" => chunks < MaxChunks
          /\ chunks' = IF e = "Chunk" THEN chunks + 1 ELSE chunks
          /\ IF Listened(q)
               THEN events' = [events EXCEPT ![q.task] = Append(@, e)]
               ELSE UNCHANGED events
          /\ IF e # "Chunk" \/ ~Listened(q)
               THEN worker' = "receiving" /\ current' = {}
               ELSE UNCHANGED <<worker, current>>
    /\ UNCHANGED <<engine, native, requests, table, nextId, pc, calls, id, answer, reader, orphans>>

\* The stream's next blocks without a deadline.
StreamStalls ==
    /\ MayStall
    /\ worker = "streaming"
    /\ worker' = "stalled"
    /\ UNCHANGED <<engine, native, current, table, nextId, chunks, requests, taskVars, orphans>>

\* A call panics and nobody catches it: a tool's definition, read before the
\* native conversation is made, or its handler, run by a message. The channel
\* is dropped, and with it every oneshot in it and the one of the call.
Panic ==
    /\ MayPanic
    /\ worker = "calling"
    /\ \E q \in current : q.op \in {"create", "generate"}
    /\ worker' = "closing"
    /\ requests' = <<>>
    /\ current' = {}
    /\ answer' = [t \in Tasks |-> IF Awaits(t) /\ answer[t] = "none" THEN "gone" ELSE answer[t]]
    /\ UNCHANGED <<engine, native, table, nextId, chunks, pc, calls, id, reader, events, orphans>>

\* No Sender is left: the loop ends.
LoopEnds ==
    /\ worker = "receiving"
    /\ requests = <<>>
    /\ NoSenders
    /\ worker' = "closing"
    /\ UNCHANGED <<engine, native, current, table, nextId, chunks, requests, taskVars, orphans>>

\* Drop of WorkerState clears both vectors; the engine, its field, follows.
ClearTable ==
    /\ worker = "closing"
    /\ table # {}
    /\ table' = {}
    /\ orphans' = {}
    /\ UNCHANGED <<engine, native, worker, current, nextId, chunks, requests, taskVars>>

DropNative ==
    /\ worker = "closing"
    /\ table = {}
    /\ native' = "deleted"
    /\ worker' = "exited"
    /\ UNCHANGED <<engine, current, table, nextId, chunks, requests, taskVars, orphans>>

-----------------------------------------------------------------------------
WorkerStep ==
    \/ BuildSucceeds \/ BuildFails
    \/ TakeRequest \/ HandleCreate \/ HandleGenerate \/ HandleDelete
    \/ StreamFails \/ StreamBegins \/ StreamEvent
    \/ LoopEnds \/ ClearTable \/ DropNative

EngineCall == NewEngine \/ SpawnFails \/ NewReturns \/ DropEngine

TaskStep(t) ==
    \/ CallCreate(t) \/ CallGenerate(t) \/ CallStream(t)
    \/ AwaitReturns(t) \/ AwaitCancelled(t)
    \/ DropHandle(t) \/ ReadEvent(t) \/ ReadNone(t) \/ DropStream(t)

\* Every handle is dropped, and the worker is gone or stuck in a stream.
Finished ==
    /\ worker \in {"none", "exited", "stalled"}
    /\ NoSenders
    /\ UNCHANGED vars

Next ==
    \/ WorkerStep \/ StreamStalls \/ Panic
    \/ EngineCall
    \/ \E t \in Tasks : TaskStep(t)
    \/ Finished

\* The worker runs, native calls return, and Tokio polls what is ready.
Fairness ==
    /\ WF_vars(WorkerStep)
    /\ WF_vars(NewReturns)
    /\ \A t \in Tasks : WF_vars(AwaitReturns(t)) /\ WF_vars(ReadEvent(t) \/ ReadNone(t))

Spec == Init /\ [][Next]_vars /\ Fairness

-----------------------------------------------------------------------------
TypeOK ==
    /\ engine \in {"none", "building", "live", "dropped", "failed"}
    /\ native \in {"none", "live", "deleted"}
    /\ worker \in {"none", "building", "receiving", "calling", "streaming", "stalled",
                   "closing", "exited"}
    /\ requests \in Seq(Requests)
    /\ current \subseteq Requests /\ Cardinality(current) <= 1
    /\ table \subseteq 1..(nextId - 1)
    /\ nextId \in Nat \ {0}
    /\ chunks \in 0..MaxChunks
    /\ pc \in [Tasks -> {"idle", "creating", "holding", "awaiting", "starting"}]
    /\ calls \in [Tasks -> 0..MaxCalls]
    /\ id \in [Tasks -> Nat]
    /\ answer \in [Tasks -> {"none", "ok", "error", "gone"}]
    /\ reader \in [Tasks -> 0..MaxCalls]
    /\ events \in [Tasks -> Seq({"Chunk", "Final", "Error"})]
    /\ orphans \subseteq Nat

\* A handle names a session of its own, as long as the worker serves it,
\* and a call finds the session it is for: "unknown async session" is an
\* answer nobody gets, even for a call whose future was dropped just before
\* the handle was.
NeverUnknown ==
    /\ \A t \in Tasks : Holds(t) =>
          /\ worker \notin {"closing", "exited"} => id[t] \in table
          /\ \A u \in Tasks \ {t} : Holds(u) => id[u] # id[t]
    /\ \A q \in current : worker = "calling" /\ q.op \in {"generate", "stream"} => q.id \in table

\* The native engine is deleted after every session made on it.
EngineOutlivesSessions == native = "deleted" => table = {}

\* A session stays in the table only for its handle or the task about to
\* have it, until its deletion is served, or because the future that asked
\* for it was dropped: then nobody can delete it before the engine goes.
Deleting(i) ==
    \E q \in current \cup {requests[k] : k \in 1..Len(requests)} : q.op = "delete" /\ q.id = i

OnlyOrphansStay ==
    worker \notin {"closing", "exited"} =>
        \A i \in table : (\E t \in Tasks : id[t] = i) \/ Deleting(i) \/ i \in orphans

\* Every await ends, also when the worker panics, unless it is stuck in a
\* stream of anyone.
AwaitsEnd == \A t \in Tasks : Awaits(t) ~> ~Awaits(t) \/ worker = "stalled"

\* A task that reads its stream on comes to its end, also after an Error.
StreamEnds == \A t \in Tasks : reader[t] # 0 ~> reader[t] = 0 \/ worker = "stalled"

\* When the last handle is dropped the worker ends, and with it everything
\* it owns, the orphans too.
WorkerEnds ==
    NoSenders ~> (worker \in {"none", "exited"} /\ native # "live" /\ table = {})
                 \/ worker = "stalled"

-----------------------------------------------------------------------------
(* The inductive invariant the proofs use: these, with OnlyOrphansStay.    *)

Queued == {requests[k] : k \in 1..Len(requests)}

\* The requests not yet answered.
Pending == Queued \cup (IF worker = "calling" THEN current ELSE {})

Serving == worker \notin {"closing", "exited"}

\* The worker's own: an engine only goes after its sessions, and what is
\* taken is one request, a stream's if it takes long.
WorkerInv ==
    /\ engine = "none" => worker = "none" /\ native = "none"
    /\ worker \in {"none", "building"} => native = "none" /\ table = {}
    /\ native = "deleted" => worker = "exited"
    /\ worker = "exited" => table = {}
    /\ worker \notin {"calling", "streaming", "stalled"} => current = {}
    /\ worker \in {"streaming", "stalled"} => \A q \in current : q.op = "stream"
    /\ \A q, r \in current : q = r

\* A task has an id from the answer to create until its handle is dropped,
\* nobody else has it, and its session is there.
HandleInv ==
    /\ \A t \in Tasks :
          /\ pc[t] = "idle" => id[t] = 0
          /\ pc[t] = "creating" => (id[t] # 0 <=> answer[t] = "ok")
          /\ Holds(t) => id[t] # 0
          /\ id[t] < nextId
          /\ Serving /\ id[t] # 0 => id[t] \in table
    /\ \A t, u \in Tasks : id[t] = id[u] /\ id[t] # 0 => t = u

\* A deletion is of a session nobody names any more; a call finds its own.
\* The last request of a task is the one it waits for, if it waits.
Sound(q) ==
    /\ q.id < nextId
    /\ q.op = "delete" => q.id # 0 /\ \A t \in Tasks : id[t] # q.id
    /\ q.op \in {"generate", "stream"} => q.id # 0 /\ (Serving => q.id \in table)
    /\ q.op # "delete" => q.call <= calls[q.task]
    /\ q.op # "delete" /\ q.call = calls[q.task] =>
          /\ Awaits(q.task) => answer[q.task] = "none"
          /\ IF q.op = "create" THEN pc[q.task] \in {"idle", "creating"}
                                ELSE pc[q.task] # "creating"

PendingInv == \A q \in Pending : Sound(q)

\* q is served before r: a deletion is the last request that names its id.
Before(q, r) ==
    /\ q.op = "delete" => r.id # q.id
    /\ q.op # "delete" /\ r.op # "delete" /\ q.task = r.task => q.call < r.call

OrderInv ==
    /\ \A j, k \in 1..Len(requests) : j < k => Before(requests[j], requests[k])
    /\ worker = "calling" => \A q \in current, r \in Queued : Before(q, r)

IInv == WorkerInv /\ HandleInv /\ PendingInv /\ OrderInv /\ OnlyOrphansStay

=============================================================================
