--------------------------- MODULE UeConversation ---------------------------
(***************************************************************************)
(* The conversation half of the Unreal Engine FFI                          *)
(* (litert-lm-edge-ue-ffi/src/lib.rs): one conversation handle, the worker *)
(* thread that owns the native conversation, and one thread per accepted   *)
(* request that carries it to the worker and reports its end to the host.  *)
(*                                                                         *)
(* The host is any number of threads of the game engine. It may call       *)
(* start, cancel and free at any time an owner of the handles may: never   *)
(* on a handle it has passed to free, and never free from a callback that  *)
(* runs on the thread free would join.                                     *)
(*                                                                         *)
(* The atomic flag ConversationHandleInner::cancel is stored by            *)
(* conversation_cancel and by start and loaded by nobody, so it has no     *)
(* variable here.                                                          *)
(***************************************************************************)
EXTENDS Naturals, Sequences

CONSTANTS
    Requests,       \* the calls of send_message_start / continue_tools_start
    NoRequest,      \* "the worker serves nobody"
    QueueBound,     \* bound: the host sends no Cancel to a queue this long
    SpawnMayFail    \* TRUE when std::thread::spawn may panic (no OS thread)

Commands == Requests \cup {"Cancel", "Shutdown"}

ASSUME ConstantsAssumption ==
    /\ NoRequest \notin Requests
    /\ {"Cancel", "Shutdown"} \cap Requests = {}
    /\ QueueBound \in Nat
    /\ SpawnMayFail \in BOOLEAN

\* The status codes of lib.rs; INVALID stands for the four the argument
\* checks return (NULL_ARGUMENT, INVALID_UTF8, EMPTY_ARGUMENT, INVALID_JSON).
Codes == {"OK", "CANCELLED", "INVALID", "BUSY", "STREAM_FAILED", "PANIC"}

\* The host's callbacks other than on_done.
Callbacks == {"text", "tool_calls", "response", "error"}

VARIABLES
    conv,      \* the conversation handle, as its owner sees it
    worker,    \* what the conversation worker thread is at
    queue,     \* the mpsc channel of ConversationCommand, oldest first
    current,   \* the request run_conversation_message is serving
    outbox,    \* the callbacks the worker still makes for current
    verdict,   \* the code the worker will send for current
    reply,     \* reply[r]: what done_rx of r's thread has to receive
    busy,      \* ConversationHandleInner::busy
    pc,        \* pc[r]: r's start call, then its request thread
    handle,    \* handle[r]: the stream handle start returned for r
    cancel,    \* cancel[r]: StreamHandleInner::cancel
    code,      \* code[r]: the status on_done reports for r
    trace      \* trace[r]: the callbacks the host has received for r

workerVars == <<worker, current, outbox, verdict>>
threadVars == <<pc, handle, cancel, code>>
vars == <<conv, workerVars, queue, reply, busy, threadVars, trace>>

-----------------------------------------------------------------------------
Init ==
    /\ conv = "none"
    /\ worker = "none"
    /\ queue = <<>>
    /\ current = NoRequest
    /\ outbox = <<>>
    /\ verdict = "OK"
    /\ reply = [r \in Requests |-> "none"]
    /\ busy = FALSE
    /\ pc = [r \in Requests |-> "idle"]
    /\ handle = [r \in Requests |-> "none"]
    /\ cancel = [r \in Requests |-> FALSE]
    /\ code = [r \in Requests |-> "none"]
    /\ trace = [r \in Requests |-> <<>>]

\* The worker still owns the Receiver: a send succeeds.
ReceiverOpen == worker \notin {"none", "closing", "exited"}

\* emit_error, emit_text, ... and emit_done: the host sees callback e of r.
Emit(r, e) == trace' = [trace EXCEPT ![r] = Append(@, e)]

Goto(r, label) == pc' = [pc EXCEPT ![r] = label]

-----------------------------------------------------------------------------
(* Faulty variants of operations below. No behaviour of Spec uses them:    *)
(* each replaces its original when a property is tried against the fault.  *)

\* busy tested by nobody.
StartClaimUnguarded(r) ==
    /\ pc[r] = "idle"
    /\ conv = "live"
    /\ busy' = TRUE
    /\ Goto(r, "claimed")
    /\ UNCHANGED <<conv, workerVars, queue, reply, handle, cancel, code, trace>>

\* The thread ends without storing busy = false.
ReleaseBusyForgotten(r) ==
    /\ pc[r] = "finishing"
    /\ Goto(r, "announcing")
    /\ UNCHANGED <<conv, workerVars, queue, reply, busy, handle, cancel, code, trace>>

\* stream_free and conversation_free without the join.
StreamFreeDetaches(r) ==
    /\ handle[r] = "joining"
    /\ handle' = [handle EXCEPT ![r] = "freed"]
    /\ UNCHANGED <<conv, workerVars, queue, reply, busy, pc, cancel, code, trace>>

ConversationFreeDetaches ==
    /\ conv = "joining"
    /\ conv' = "freed"
    /\ UNCHANGED <<workerVars, queue, reply, busy, threadVars, trace>>

\* conversation_free counts on the Sender being dropped.
SendShutdownForgotten ==
    /\ conv = "freeing"
    /\ conv' = "joining"
    /\ UNCHANGED <<workerVars, queue, reply, busy, threadVars, trace>>

\* The done senders outlive the dropped commands.
TakeShutdownKeepsSenders ==
    /\ worker = "receiving"
    /\ queue # <<>>
    /\ Head(queue) = "Shutdown"
    /\ worker' = "closing"
    /\ queue' = <<>>
    /\ UNCHANGED <<conv, current, outbox, verdict, reply, busy, threadVars, trace>>

\* A request cancelled before the native call ends with STATUS_OK.
CheckBeforeOk ==
    /\ worker = "checking"
    /\ IF cancel[current]
         THEN worker' = "replying" /\ verdict' = "OK"
         ELSE worker' = "native" /\ UNCHANGED verdict
    /\ UNCHANGED <<conv, current, outbox, queue, reply, busy, threadVars, trace>>

\* A native error reported by its code alone.
NativeReturnsSilently ==
    /\ worker = "native"
    /\ worker' = "replying"
    /\ verdict' = "STREAM_FAILED"
    /\ UNCHANGED <<conv, current, outbox, queue, reply, busy, threadVars, trace>>

\* stream_cancel is not loaded again after the native call.
CheckAfterSkipped ==
    /\ worker = "returned"
    /\ worker' = "emitting"
    /\ UNCHANGED <<conv, current, outbox, verdict, queue, reply, busy, threadVars, trace>>

-----------------------------------------------------------------------------
(* litert_lm_edge_ue_conversation_create: the calling thread spawns the    *)
(* worker and blocks on initialized_rx.                                    *)

CreateStart ==
    /\ conv = "none"
    /\ conv' = "creating"
    /\ worker' = "building"
    /\ UNCHANGED <<current, outbox, verdict, queue, reply, busy, threadVars, trace>>

\* The spawn panics: the create boundary reports STATUS_PANIC.
CreateSpawnFails ==
    /\ SpawnMayFail
    /\ conv = "none"
    /\ conv' = "failed"
    /\ UNCHANGED <<workerVars, queue, reply, busy, threadVars, trace>>

\* build_conversation_state succeeds and Ok(()) is sent: the loop begins.
BuildSucceeds ==
    /\ worker = "building"
    /\ worker' = "receiving"
    /\ UNCHANGED <<conv, current, outbox, verdict, queue, reply, busy, threadVars, trace>>

\* It returns an error, or panics and drops initialized_tx: the thread ends.
BuildFails ==
    /\ worker = "building"
    /\ worker' = "exited"
    /\ UNCHANGED <<conv, current, outbox, verdict, queue, reply, busy, threadVars, trace>>

\* initialized_rx.recv returns Ok(()) or an error (or disconnected).
CreateReturns ==
    /\ conv = "creating"
    /\ worker \in {"receiving", "exited"}
    /\ conv' = IF worker = "receiving" THEN "live" ELSE "failed"
    /\ UNCHANGED <<workerVars, queue, reply, busy, threadVars, trace>>

-----------------------------------------------------------------------------
(* send_message_start and continue_tools_start, which differ only in how   *)
(* they parse their arguments: the part on the caller's thread.            *)

\* A null handle or a bad argument: conversation_ffi_boundary's Err arm.
StartInvalid(r) ==
    /\ pc[r] = "idle"
    /\ Goto(r, "rejecting")
    /\ code' = [code EXCEPT ![r] = "INVALID"]
    /\ UNCHANGED <<conv, workerVars, queue, reply, busy, handle, cancel, trace>>

\* busy.compare_exchange(false, true) succeeds.
StartClaim(r) ==
    /\ pc[r] = "idle"
    /\ conv = "live"
    /\ ~busy
    /\ busy' = TRUE
    /\ Goto(r, "claimed")
    /\ UNCHANGED <<conv, workerVars, queue, reply, handle, cancel, code, trace>>

\* compare_exchange fails.
StartBusy(r) ==
    /\ pc[r] = "idle"
    /\ conv = "live"
    /\ busy
    /\ Goto(r, "rejecting")
    /\ code' = [code EXCEPT ![r] = "BUSY"]
    /\ UNCHANGED <<conv, workerVars, queue, reply, busy, handle, cancel, trace>>

\* thread::spawn, and Box::into_raw(handle) returned to the host.
SpawnThread(r) ==
    /\ pc[r] = "claimed"
    /\ Goto(r, "running")
    /\ handle' = [handle EXCEPT ![r] = "live"]
    /\ UNCHANGED <<conv, workerVars, queue, reply, busy, cancel, code, trace>>

\* thread::spawn panics and conversation_ffi_boundary catches it. The flag
\* taken by StartClaim stays set: only the thread would have reset it.
SpawnFails(r) ==
    /\ SpawnMayFail
    /\ pc[r] = "claimed"
    /\ Goto(r, "rejecting")
    /\ code' = [code EXCEPT ![r] = "PANIC"]
    /\ UNCHANGED <<conv, workerVars, queue, reply, busy, handle, cancel, trace>>

\* callbacks.emit_error of the rejecting paths; emit_done follows.
RejectError(r) ==
    /\ pc[r] = "rejecting"
    /\ Emit(r, "error")
    /\ Goto(r, "announcing")
    /\ UNCHANGED <<conv, workerVars, queue, reply, busy, handle, cancel, code>>

-----------------------------------------------------------------------------
(* The request thread spawned by start_conversation_request.               *)

\* sender.send(SendMessage { .. }) to a living Receiver.
SendCommand(r) ==
    /\ pc[r] = "running"
    /\ ReceiverOpen
    /\ queue' = Append(queue, r)
    /\ Goto(r, "waiting")
    /\ UNCHANGED <<conv, workerVars, reply, busy, handle, cancel, code, trace>>

\* send fails because the worker has gone: emit_error is due.
SendFails(r) ==
    /\ pc[r] = "running"
    /\ ~ReceiverOpen
    /\ Goto(r, "failing")
    /\ code' = [code EXCEPT ![r] = "STREAM_FAILED"]
    /\ UNCHANGED <<conv, workerVars, queue, reply, busy, handle, cancel, trace>>

SendError(r) ==
    /\ pc[r] = "failing"
    /\ Emit(r, "error")
    /\ Goto(r, "finishing")
    /\ UNCHANGED <<conv, workerVars, queue, reply, busy, handle, cancel, code>>

\* done_rx.recv().unwrap_or(STATUS_STREAM_FAILED): "dropped" is the error,
\* of a command the worker discarded unread; no emit_error goes with it.
ReceiveReply(r) ==
    /\ pc[r] = "waiting"
    /\ reply[r] # "none"
    /\ code' = [code EXCEPT ![r] = IF reply[r] = "dropped" THEN "STREAM_FAILED" ELSE reply[r]]
    /\ Goto(r, "finishing")
    /\ UNCHANGED <<conv, workerVars, queue, reply, busy, handle, cancel, trace>>

\* busy_for_worker.store(false) comes before emit_done.
ReleaseBusy(r) ==
    /\ pc[r] = "finishing"
    /\ busy' = FALSE
    /\ Goto(r, "announcing")
    /\ UNCHANGED <<conv, workerVars, queue, reply, handle, cancel, code, trace>>

\* callbacks.emit_done(code), the last thing the thread (or the call) does.
EmitDone(r) ==
    /\ pc[r] = "announcing"
    /\ Emit(r, "done")
    /\ Goto(r, "ended")
    /\ UNCHANGED <<conv, workerVars, queue, reply, busy, handle, cancel, code>>

-----------------------------------------------------------------------------
(* The host's calls on the handles.                                        *)

StreamCancel(r) ==
    /\ handle[r] = "live"
    /\ cancel' = [cancel EXCEPT ![r] = TRUE]
    /\ UNCHANGED <<conv, workerVars, queue, reply, busy, pc, handle, code, trace>>

\* stream_free cancels, then joins the request thread.
StreamFree(r) ==
    /\ handle[r] = "live"
    /\ handle' = [handle EXCEPT ![r] = "joining"]
    /\ cancel' = [cancel EXCEPT ![r] = TRUE]
    /\ UNCHANGED <<conv, workerVars, queue, reply, busy, pc, code, trace>>

StreamFreeReturns(r) ==
    /\ handle[r] = "joining"
    /\ pc[r] = "ended"
    /\ handle' = [handle EXCEPT ![r] = "freed"]
    /\ UNCHANGED <<conv, workerVars, queue, reply, busy, pc, cancel, code, trace>>

ConversationCancel ==
    /\ conv = "live"
    /\ Len(queue) < QueueBound
    /\ queue' = Append(queue, "Cancel")
    /\ UNCHANGED <<conv, workerVars, reply, busy, threadVars, trace>>

\* conversation_free calls conversation_cancel, sends Shutdown, joins.
ConversationFree ==
    /\ conv = "live"
    /\ conv' = "freeing"
    /\ queue' = Append(queue, "Cancel")
    /\ UNCHANGED <<workerVars, reply, busy, threadVars, trace>>

SendShutdown ==
    /\ conv = "freeing"
    /\ conv' = "joining"
    /\ queue' = Append(queue, "Shutdown")
    /\ UNCHANGED <<workerVars, reply, busy, threadVars, trace>>

ConversationFreeReturns ==
    /\ conv = "joining"
    /\ worker = "exited"
    /\ conv' = "freed"
    /\ UNCHANGED <<workerVars, queue, reply, busy, threadVars, trace>>

-----------------------------------------------------------------------------
(* conversation_worker_loop and run_conversation_message.                  *)

TakeMessage ==
    /\ worker = "receiving"
    /\ queue # <<>>
    /\ Head(queue) \in Requests
    /\ current' = Head(queue)
    /\ queue' = Tail(queue)
    /\ worker' = "checking"
    /\ UNCHANGED <<conv, outbox, verdict, reply, busy, threadVars, trace>>

\* cancel_process on a conversation that serves nothing at that moment.
TakeCancel ==
    /\ worker = "receiving"
    /\ queue # <<>>
    /\ Head(queue) = "Cancel"
    /\ queue' = Tail(queue)
    /\ UNCHANGED <<conv, workerVars, reply, busy, threadVars, trace>>

\* Shutdown breaks the loop: the Receiver is dropped with every command in
\* it, and with each command the done sender its thread waits on.
TakeShutdown ==
    /\ worker = "receiving"
    /\ queue # <<>>
    /\ Head(queue) = "Shutdown"
    /\ worker' = "closing"
    /\ queue' = <<>>
    /\ reply' = [r \in Requests |->
                    IF \E i \in 1..Len(queue) : queue[i] = r THEN "dropped" ELSE reply[r]]
    /\ UNCHANGED <<conv, current, outbox, verdict, busy, threadVars, trace>>

\* ConversationState is dropped (conversation, then engine); thread ends.
DropState ==
    /\ worker = "closing"
    /\ worker' = "exited"
    /\ UNCHANGED <<conv, current, outbox, verdict, queue, reply, busy, threadVars, trace>>

\* The load of stream_cancel before the native call.
CheckBefore ==
    /\ worker = "checking"
    /\ IF cancel[current]
         THEN worker' = "replying" /\ verdict' = "CANCELLED"
         ELSE worker' = "native" /\ UNCHANGED verdict
    /\ UNCHANGED <<conv, current, outbox, queue, reply, busy, threadVars, trace>>

\* emit_conversation_response: text unless empty, tool calls unless absent
\* or null, and always the response itself.
Responses == {<<"response">>, <<"text", "response">>, <<"tool_calls", "response">>,
              <<"text", "tool_calls", "response">>}

\* send_message_raw returns a response or an error.
NativeReturns ==
    /\ worker = "native"
    /\ worker' = "returned"
    /\ \/ outbox' \in Responses /\ verdict' = "OK"
       \/ outbox' = <<"error">> /\ verdict' = "STREAM_FAILED"
    /\ UNCHANGED <<conv, current, queue, reply, busy, threadVars, trace>>

\* It panics: catch_unwind in the loop, past the second check.
NativePanics ==
    /\ worker = "native"
    /\ worker' = "emitting"
    /\ outbox' = <<"error">>
    /\ verdict' = "PANIC"
    /\ UNCHANGED <<conv, current, queue, reply, busy, threadVars, trace>>

\* The load of stream_cancel after it: a cancelled response is discarded.
CheckAfter ==
    /\ worker = "returned"
    /\ IF cancel[current]
         THEN worker' = "replying" /\ outbox' = <<>> /\ verdict' = "CANCELLED"
         ELSE worker' = "emitting" /\ UNCHANGED <<outbox, verdict>>
    /\ UNCHANGED <<conv, current, queue, reply, busy, threadVars, trace>>

EmitNext ==
    /\ worker = "emitting"
    /\ outbox # <<>>
    /\ Emit(current, Head(outbox))
    /\ outbox' = Tail(outbox)
    /\ worker' = IF Tail(outbox) = <<>> THEN "replying" ELSE "emitting"
    /\ UNCHANGED <<conv, current, verdict, queue, reply, busy, threadVars>>

\* done.send(code)
SendReply ==
    /\ worker = "replying"
    /\ reply' = [reply EXCEPT ![current] = verdict]
    /\ current' = NoRequest
    /\ worker' = "receiving"
    /\ UNCHANGED <<conv, outbox, verdict, queue, busy, threadVars, trace>>

-----------------------------------------------------------------------------
WorkerStep ==
    \/ BuildSucceeds \/ BuildFails
    \/ TakeMessage \/ TakeCancel \/ TakeShutdown \/ DropState
    \/ CheckBefore \/ NativeReturns \/ NativePanics \/ CheckAfter
    \/ EmitNext \/ SendReply

\* The steps of r's start call after its first, and of r's request thread.
RequestStep(r) ==
    \/ SpawnThread(r) \/ SpawnFails(r) \/ RejectError(r)
    \/ SendCommand(r) \/ SendFails(r) \/ SendError(r)
    \/ ReceiveReply(r) \/ ReleaseBusy(r) \/ EmitDone(r)

\* The host's calls on the conversation handle, and their returns.
ConversationCall ==
    \/ CreateStart \/ CreateSpawnFails \/ CreateReturns
    \/ ConversationCancel
    \/ ConversationFree \/ SendShutdown \/ ConversationFreeReturns

\* The host's calls that begin r and that use the stream handle of r.
RequestCall(r) ==
    \/ StartInvalid(r) \/ StartClaim(r) \/ StartBusy(r)
    \/ StreamCancel(r) \/ StreamFree(r) \/ StreamFreeReturns(r)

\* Everything was called and freed: the only state the system may stop in.
Finished ==
    /\ conv \in {"freed", "failed"}
    /\ \A r \in Requests : pc[r] \in {"idle", "ended"} /\ handle[r] \in {"none", "freed"}
    /\ UNCHANGED vars

Next ==
    \/ WorkerStep
    \/ ConversationCall
    \/ \E r \in Requests : RequestCall(r) \/ RequestStep(r)
    \/ Finished

\* Threads are scheduled and the native calls return; the host owes nothing.
Fairness ==
    /\ WF_vars(WorkerStep)
    /\ \A r \in Requests : WF_vars(RequestStep(r))
    /\ WF_vars(CreateReturns) /\ WF_vars(SendShutdown) /\ WF_vars(ConversationFreeReturns)
    /\ \A r \in Requests : WF_vars(StreamFreeReturns(r))

Spec == Init /\ [][Next]_vars /\ Fairness

-----------------------------------------------------------------------------
TypeOK ==
    /\ conv \in {"none", "creating", "failed", "live", "freeing", "joining", "freed"}
    /\ worker \in {"none", "building", "receiving", "checking", "native", "returned",
                   "emitting", "replying", "closing", "exited"}
    /\ queue \in Seq(Commands)
    /\ current \in Requests \cup {NoRequest}
    /\ outbox \in Seq(Callbacks)
    /\ verdict \in Codes
    /\ reply \in [Requests -> Codes \cup {"none", "dropped"}]
    /\ busy \in BOOLEAN
    /\ pc \in [Requests -> {"idle", "claimed", "rejecting", "running", "failing", "waiting",
                            "finishing", "announcing", "ended"}]
    /\ handle \in [Requests -> {"none", "live", "joining", "freed"}]
    /\ cancel \in [Requests -> BOOLEAN]
    /\ code \in [Requests -> Codes \cup {"none"}]
    /\ trace \in [Requests -> Seq(Callbacks \cup {"done"})]

-----------------------------------------------------------------------------
(* What must hold.                                                         *)

\* r has won the compare_exchange and has not stored busy = false yet.
InProgress(r) == pc[r] \in {"claimed", "running", "failing", "waiting", "finishing"}

Queued(r) == \E i \in 1..Len(queue) : queue[i] = r

\* However many host threads call start at once, one request at most is
\* between the compare_exchange on busy and the store that ends it.
OneRequestAtATime ==
    \A r, s \in Requests : InProgress(r) /\ InProgress(s) => r = s

\* busy is set exactly while a request is in progress, or for good once a
\* request's thread could not be spawned.
SpawnFailed(r) == code[r] = "PANIC" /\ handle[r] = "none"

BusyHeld ==
    busy <=> \E r \in Requests : InProgress(r) \/ SpawnFailed(r)

\* A request in the channel or on the worker has its own thread waiting on
\* done_rx. It is why joining that thread is enough to silence the worker.
ServedRequestWaits ==
    \A r \in Requests : Queued(r) \/ current = r => pc[r] = "waiting" /\ reply[r] = "none"

\* A request ends with STREAM_FAILED and no on_error before it only when
\* the conversation was being freed: its command was dropped unread.
SilentFailureOnlyAfterFree ==
    \A r \in Requests :
        trace[r] = <<"done">> /\ code[r] = "STREAM_FAILED" => conv \in {"joining", "freed"}

\* Once stream_free(r) has returned the host's user_data for r may go: no
\* callback is made for r any more, by r's thread or by the worker.
NoCallbackAfterStreamFree ==
    [][\A r \in Requests : handle[r] = "freed" => trace'[r] = trace[r]]_vars

\* Once conversation_free has returned, requests whose own threads still
\* run may get on_error and on_done, and nothing of a response.
NoResponseAfterConversationFree ==
    [][conv = "freed" => \A r \in Requests :
          trace'[r] # trace[r] => trace'[r][Len(trace'[r])] \in {"error", "done"}]_vars

\* A cancel stored before the worker has passed its second check for r
\* wins: from then on the host never sees any part of a response of r.
Silenced(r) ==
    /\ cancel[r]
    /\ \A i \in 1..Len(trace[r]) : trace[r][i] \in {"error", "done"}
    /\ current = r /\ worker = "emitting" => outbox = <<"error">>

CancelWins == [][\A r \in Requests : Silenced(r) => Silenced(r)']_vars

\* Every start call gets its on_done, whatever is cancelled or freed.
EveryStartIsAnswered == \A r \in Requests : pc[r] # "idle" ~> pc[r] = "ended"

\* Neither free blocks its caller for ever.
FreesReturn ==
    /\ conv = "freeing" ~> conv = "freed"
    /\ \A r \in Requests : handle[r] = "joining" ~> handle[r] = "freed"

\* The threads, the channel and the flag together keep the promise of
\* ConversationService.
StatusAt(label) ==
    CASE label = "idle" -> "new"
      [] label = "rejecting" -> "refused"
      [] label = "announcing" -> "ending"
      [] label = "ended" -> "closed"
      [] OTHER -> "serving"

serviceStatus == [r \in Requests |-> StatusAt(pc[r])]

serviceResult == [r \in Requests |-> IF pc[r] = "ended" THEN code[r] ELSE "none"]

Service == INSTANCE ConversationService WITH status <- serviceStatus, result <- serviceResult

ImplementsService == Service!Spec

-----------------------------------------------------------------------------
(* The inductive invariant the proofs use: TypeOK and these.               *)

Serving == {"checking", "native", "returned", "emitting", "replying"}

\* How a stream handle follows the thread it joins.
HandleInv ==
    \A r \in Requests :
        /\ pc[r] \in {"idle", "claimed"} => handle[r] = "none" /\ code[r] = "none"
        /\ pc[r] \in {"running", "failing", "waiting", "finishing"} => handle[r] # "none"
        /\ handle[r] = "freed" => pc[r] = "ended"

\* A lost flag is never won again, so it has no owner beside the loser.
BusyInv ==
    /\ OneRequestAtATime
    /\ BusyHeld
    /\ \A r, s \in Requests : SpawnFailed(r) => ~InProgress(s)

\* A command is in one place: once in the channel, or on the worker.
QueueInv ==
    /\ ServedRequestWaits
    /\ \A i, j \in 1..Len(queue) : queue[i] = queue[j] /\ queue[i] \in Requests => i = j
    /\ \A i \in 1..Len(queue) : queue[i] \in Requests => queue[i] # current
    /\ \A r \in Requests : pc[r] \in {"idle", "claimed", "running"} => reply[r] = "none"
    /\ current \in Requests <=> worker \in Serving

\* The worker ends only when its creation failed or Shutdown was sent.
ConvInv ==
    /\ conv = "none" => worker = "none"
    /\ conv = "failed" => worker \in {"none", "exited"}
    /\ conv = "creating" => worker \in {"building", "receiving", "exited"}
    /\ conv \in {"live", "freeing"} => worker \in {"receiving"} \cup Serving
    /\ conv = "joining" => worker \in {"receiving", "closing", "exited"} \cup Serving
    /\ conv = "freed" => worker = "exited"
    /\ (\E i \in 1..Len(queue) : queue[i] = "Shutdown") => conv = "joining"
    /\ worker \in {"none", "building", "closing", "exited"} => queue = <<>>
    /\ conv = "creating" => queue = <<>>
    /\ \A r \in Requests : InProgress(r) => conv \notin {"none", "creating", "failed"}
    /\ \A r \in Requests : reply[r] = "dropped" => conv \in {"joining", "freed"}

\* The callbacks o still to come after t, when c is to be sent for them.
Owed(t, o, c) ==
    \/ c \in {"STREAM_FAILED", "PANIC"} /\ t = <<>> /\ o = <<"error">>
    \/ /\ c = "OK"
       /\ o # <<>> /\ o[Len(o)] = "response"
       /\ \A j \in 1..Len(o) :
             /\ o[j] \in DOMAIN Service!Rank
             /\ \A k \in 1..Len(o) : j < k => Service!Rank[o[j]] < Service!Rank[o[k]]
             /\ \A i \in 1..Len(t) : /\ t[i] \in DOMAIN Service!Rank
                                     /\ Service!Rank[t[i]] < Service!Rank[o[j]]

\* The codes the worker sends, and those on_done reports, for callbacks t.
Replied(t, c) ==
    \/ c = "CANCELLED" /\ t = <<>>
    \/ c \in {"STREAM_FAILED", "PANIC"} /\ t = <<"error">>
    \/ c = "OK" /\ t # <<>> /\ t[Len(t)] = "response"

Answered(t, c) ==
    \/ Replied(t, c)
    \/ c \in {"INVALID", "BUSY"} /\ t = <<"error">>
    \/ c = "STREAM_FAILED" /\ t = <<>> /\ conv \in {"joining", "freed"}

\* What the host has seen of r and what it is still owed fit together.
AnswerOf(r) ==
    /\ pc[r] \in {"idle", "claimed", "rejecting", "running", "failing"} => trace[r] = <<>>
    /\ pc[r] = "rejecting" => code[r] \in {"INVALID", "BUSY", "PANIC"}
    /\ pc[r] = "failing" => code[r] = "STREAM_FAILED"
    /\ pc[r] = "waiting" /\ reply[r] \in {"none", "dropped"} /\ current # r => trace[r] = <<>>
    /\ current = r /\ worker \in {"checking", "native", "returned"} => trace[r] = <<>>
    /\ current = r /\ worker \in {"returned", "emitting"} => Owed(trace[r], outbox, verdict)
    /\ current = r /\ worker = "replying" => Replied(trace[r], verdict)
    /\ pc[r] = "waiting" /\ reply[r] \notin {"none", "dropped"} => Replied(trace[r], reply[r])
    /\ pc[r] \in {"finishing", "announcing"} => Answered(trace[r], code[r])
    /\ pc[r] # "ended" => trace[r] \in Seq(Callbacks)
    /\ pc[r] = "ended" /\ code[r] = "STREAM_FAILED" /\ trace[r] = <<"done">> =>
          conv \in {"joining", "freed"}

AnswerInv == \A r \in Requests : AnswerOf(r)

IInv == TypeOK /\ HandleInv /\ BusyInv /\ QueueInv /\ ConvInv

=============================================================================
