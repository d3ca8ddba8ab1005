------------------------------ MODULE UeStream ------------------------------
(***************************************************************************)
(* The one-shot streams of the Unreal Engine FFI                           *)
(* (litert-lm-edge-ue-ffi/src/lib.rs): stream_text_start and               *)
(* stream_multimodal_start spawn a worker that builds an engine and a      *)
(* session of its own, reads a TextStream and reports to the host.         *)
(* Requests share nothing, so one is enough; TextStream is the module of   *)
(* that name, and the worker is the consumer its comments speak of.        *)
(*                                                                         *)
(* The host may call cancel and free while it has the handle, and does not *)
(* call free from a callback, which runs on the thread free joins.         *)
(***************************************************************************)
EXTENDS Naturals, Sequences, FiniteSets

CONSTANTS
    MaxChunks, NativeMayStall,   \* see TextStream
    SpawnMayFail                 \* TRUE when std::thread::spawn may panic

ASSUME ConstantsAssumption ==
    MaxChunks \in Nat /\ NativeMayStall \in BOOLEAN /\ SpawnMayFail \in BOOLEAN

VARIABLES
    stream, terminal, last, state, events, cancelled,   \* TextStream's
    native, callback, pending, chunks,
    pc,        \* the start call, then run_stream on the worker thread
    handle,    \* the StreamHandleInner, as the host sees it
    cancel,    \* StreamHandleInner::cancel
    code,      \* the status on_done reports
    trace,     \* the callbacks the host has received
    sent,      \* history: the chunks of text the runtime has sent
    late       \* history: the tokens the host got after its cancel

streamVars == <<stream, terminal, last, state, events, cancelled,
                native, callback, pending, chunks>>
hostVars == <<handle, cancel>>
vars == <<streamVars, pc, hostVars, code, trace, sent, late>>

TS == INSTANCE TextStream

-----------------------------------------------------------------------------
Init ==
    /\ TS!Init
    /\ pc = "idle"
    /\ handle = "none"
    /\ cancel = FALSE
    /\ code = "none"
    /\ trace = <<>>
    /\ sent = 0
    /\ late = 0

Emit(e) == trace' = Append(trace, e)

\* run_stream, or the start call, is to end with the code c.
EndWith(c, label) == code' = c /\ pc' = label

-----------------------------------------------------------------------------
(* Faulty variants of operations below, used by no behaviour of Spec.      *)

\* The flag is looked at only when no event came for 50 ms.
EmitTokenSkipsCheck ==
    /\ pc = "token"
    /\ Emit("token")
    /\ pc' = "receiving"
    /\ late' = IF cancel THEN late + 1 ELSE late
    /\ UNCHANGED <<streamVars, hostVars, code, sent>>

\* An error of the stream is reported by its code alone.
PollErrorSilently ==
    /\ pc = "receiving"
    /\ TS!Poll
    /\ Head(events) = "Error"
    /\ EndWith("STREAM_FAILED", "dropping")
    /\ UNCHANGED <<hostVars, trace, sent, late>>

\* The last chunk and the end of the stream are taken at once.
PollChunkAtEnd ==
    /\ pc = "receiving"
    /\ TS!Poll
    /\ Head(events) = "Chunk"
    /\ pc' = IF events = <<"Chunk", "Final">> THEN "checking" ELSE "token"
    /\ UNCHANGED <<hostVars, code, trace, sent, late>>

\* stream_free without the join.
StreamFreeDetaches ==
    /\ handle = "joining"
    /\ handle' = "freed"
    /\ UNCHANGED <<streamVars, pc, cancel, code, trace, sent, late>>

\* stream_free only joins: it forgets to set the flag.
StreamFreeJoins ==
    /\ handle = "live"
    /\ handle' = "joining"
    /\ UNCHANGED <<streamVars, pc, cancel, code, trace, sent, late>>

\* The worker does not wait for the stream's drop.
DropSessionEarly ==
    /\ pc = "dropping"
    /\ pc' = "announcing"
    /\ UNCHANGED <<streamVars, hostVars, code, trace, sent, late>>

\* recv_timeout without the cancel check after a timeout.
PollTimesOutRetries ==
    /\ pc = "receiving"
    /\ events = <<>>
    /\ UNCHANGED vars

-----------------------------------------------------------------------------
(* The start call on the host's thread.                                    *)

StartInvalid ==
    /\ pc = "idle"
    /\ EndWith("INVALID", "failing")
    /\ UNCHANGED <<streamVars, hostVars, trace, sent, late>>

SpawnThread ==
    /\ pc = "idle"
    /\ pc' = "running"
    /\ handle' = "live"
    /\ UNCHANGED <<streamVars, cancel, code, trace, sent, late>>

\* thread::spawn panics; ffi_boundary reports it.
SpawnFails ==
    /\ SpawnMayFail
    /\ pc = "idle"
    /\ EndWith("PANIC", "failing")
    /\ UNCHANGED <<streamVars, hostVars, trace, sent, late>>

-----------------------------------------------------------------------------
(* run_stream on the worker thread.                                        *)

\* The load of cancel before anything is built.
CheckFirst ==
    /\ pc = "running"
    /\ IF cancel THEN EndWith("CANCELLED", "announcing") ELSE pc' = "building" /\ UNCHANGED code
    /\ UNCHANGED <<streamVars, hostVars, trace, sent, late>>

\* build_engine and create_session
BuildSucceeds ==
    /\ pc = "building"
    /\ pc' = "starting"
    /\ UNCHANGED <<streamVars, hostVars, code, trace, sent, late>>

\* Either fails, or panics and is caught on the worker.
BuildFails ==
    /\ pc = "building"
    /\ \E c \in {"START_FAILED", "PANIC"} : EndWith(c, "failing")
    /\ UNCHANGED <<streamVars, hostVars, trace, sent, late>>

\* An image or audio file cannot be read: generate_content_stream returns the
\* error before it calls the runtime.
InputsFail ==
    /\ pc = "starting"
    /\ stream = "none"
    /\ EndWith("START_FAILED", "failing")
    /\ UNCHANGED <<streamVars, hostVars, trace, sent, late>>

CallStart ==
    /\ pc = "starting"
    /\ TS!StartStream
    /\ UNCHANGED <<pc, hostVars, code, trace, sent, late>>

StartReturns ==
    /\ pc = "starting"
    /\ TS!StartReturns
    /\ pc' = "checking"
    /\ UNCHANGED <<hostVars, code, trace, sent, late>>

StartFails ==
    /\ pc = "starting"
    /\ TS!StartFails
    /\ EndWith("START_FAILED", "failing")
    /\ UNCHANGED <<hostVars, trace, sent, late>>

\* The load of cancel at the head of the loop.
CheckCancel ==
    /\ pc = "checking"
    /\ IF cancel THEN EndWith("CANCELLED", "dropping") ELSE pc' = "receiving" /\ UNCHANGED code
    /\ UNCHANGED <<streamVars, hostVars, trace, sent, late>>

\* recv_timeout(50 ms) returns Ok(None). Its Err arm needs a channel without
\* a sender, and the sender lives as long as the stream (TextStream's state).
PollTimesOut ==
    /\ pc = "receiving"
    /\ events = <<>>
    /\ pc' = "checking"
    /\ UNCHANGED <<streamVars, hostVars, code, trace, sent, late>>

PollChunk ==
    /\ pc = "receiving"
    /\ TS!Poll
    /\ Head(events) = "Chunk"
    /\ pc' = "token"
    /\ UNCHANGED <<hostVars, code, trace, sent, late>>

PollFinal ==
    /\ pc = "receiving"
    /\ TS!Poll
    /\ Head(events) = "Final"
    /\ EndWith("OK", "dropping")
    /\ UNCHANGED <<hostVars, trace, sent, late>>

PollError ==
    /\ pc = "receiving"
    /\ TS!Poll
    /\ Head(events) = "Error"
    /\ EndWith("STREAM_FAILED", "failing")
    /\ UNCHANGED <<hostVars, trace, sent, late>>

EmitToken ==
    /\ pc = "token"
    /\ Emit("token")
    /\ pc' = "checking"
    /\ late' = IF cancel THEN late + 1 ELSE late
    /\ UNCHANGED <<streamVars, hostVars, code, sent>>

\* emit_error, wherever run_stream or the start call fails; a stream that
\* was started is still there and is dropped after it.
EmitError ==
    /\ pc = "failing"
    /\ Emit("error")
    /\ pc' = IF stream = "open" THEN "dropping" ELSE "announcing"
    /\ UNCHANGED <<streamVars, hostVars, code, sent, late>>

\* run_stream returns and its locals are dropped: the stream, which may
\* take 30 seconds, then the session and the engine.
BeginDrop ==
    /\ pc = "dropping"
    /\ TS!DropStream
    /\ UNCHANGED <<pc, hostVars, code, trace, sent, late>>

ContinueDrop ==
    /\ pc = "dropping"
    /\ TS!DropStep
    /\ UNCHANGED <<pc, hostVars, code, trace, sent, late>>

DropSession ==
    /\ pc = "dropping"
    /\ stream = "dropped"
    /\ pc' = "announcing"
    /\ UNCHANGED <<streamVars, hostVars, code, trace, sent, late>>

\* emit_done(code), last of all.
EmitDone ==
    /\ pc = "announcing"
    /\ Emit("done")
    /\ pc' = "ended"
    /\ UNCHANGED <<streamVars, hostVars, code, sent, late>>

-----------------------------------------------------------------------------
(* The host's calls on the handle, and the runtime.                        *)

StreamCancel ==
    /\ handle = "live"
    /\ cancel' = TRUE
    /\ UNCHANGED <<streamVars, pc, handle, code, trace, sent, late>>

StreamFree ==
    /\ handle = "live"
    /\ handle' = "joining"
    /\ cancel' = TRUE
    /\ UNCHANGED <<streamVars, pc, code, trace, sent, late>>

StreamFreeReturns ==
    /\ handle = "joining"
    /\ pc = "ended"
    /\ handle' = "freed"
    /\ UNCHANGED <<streamVars, pc, cancel, code, trace, sent, late>>

Runtime ==
    /\ TS!NativeStep
    /\ sent' = IF callback = "running" /\ pending # <<>> /\ Head(pending) = "Chunk"
                 THEN sent + 1 ELSE sent
    /\ UNCHANGED <<pc, hostVars, code, trace, late>>

RuntimeStalls ==
    /\ TS!NativeStalls
    /\ UNCHANGED <<pc, hostVars, code, trace, sent, late>>

-----------------------------------------------------------------------------
StartCall == StartInvalid \/ SpawnThread \/ SpawnFails

WorkerStep ==
    \/ CheckFirst \/ BuildSucceeds \/ BuildFails
    \/ InputsFail \/ CallStart \/ StartReturns \/ StartFails
    \/ CheckCancel \/ PollTimesOut \/ PollChunk \/ PollFinal \/ PollError
    \/ EmitToken \/ EmitError
    \/ BeginDrop \/ ContinueDrop \/ DropSession \/ EmitDone

\* The call has ended and the handle, if any, is freed.
Finished ==
    /\ pc = "ended"
    /\ handle \in {"none", "freed"}
    /\ UNCHANGED vars

Next ==
    \/ StartCall \/ WorkerStep
    \/ StreamCancel \/ StreamFree \/ StreamFreeReturns
    \/ Runtime \/ RuntimeStalls
    \/ Finished

\* Threads are scheduled, and a runtime that has not stalled goes on.
Fairness ==
    /\ WF_vars(WorkerStep)
    /\ WF_vars(StreamFreeReturns)
    /\ WF_vars(Runtime)

Spec == Init /\ [][Next]_vars /\ Fairness

-----------------------------------------------------------------------------
TypeOK ==
    /\ TS!TypeOK
    /\ pc \in {"idle", "running", "building", "starting", "checking", "receiving", "token",
               "failing", "dropping", "announcing", "ended"}
    /\ handle \in {"none", "live", "joining", "freed"}
    /\ cancel \in BOOLEAN
    /\ code \in {"none", "OK", "CANCELLED", "INVALID", "START_FAILED", "STREAM_FAILED", "PANIC"}
    /\ trace \in Seq({"token", "error", "done"})
    /\ sent \in Nat
    /\ late \in Nat

Tokens == Cardinality({i \in DOMAIN trace : trace[i] = "token"})

\* When on_done is called its code agrees with what the host was told: OK
\* when every chunk of text reached it, CANCELLED only if it had asked for
\* that, and any other code exactly when on_error came just before.
DoneAgrees ==
    pc = "ended" =>
        /\ code = "OK" => Tokens = sent /\ Len(trace) = sent + 1
        /\ code = "CANCELLED" => cancel /\ Len(trace) = Tokens + 1
        /\ code \notin {"OK", "CANCELLED"} =>
              Len(trace) = Tokens + 2 /\ trace[Len(trace) - 1] = "error"

\* The host gets one token at most after stream_cancel: the one the worker
\* had taken when the flag was set, or took before it looked at it.
OneLateToken == late <= 1

\* Once stream_free has returned, no callback is made.
NoCallbackAfterFree == [][handle = "freed" => trace' = trace]_vars

\* A start call gets its on_done, unless the runtime has stalled and nobody
\* cancelled: run_stream has no deadline of its own.
StartIsAnswered ==
    pc # "idle" ~> pc = "ended" \/ (native = "stalled" /\ ~cancel)

\* stream_free returns, even when the runtime has stalled.
FreeReturns == handle = "joining" ~> handle = "freed"

\* The worker uses its stream as TextStream expects of a consumer, and is
\* never done with the call before the stream is dropped: what TextStream
\* promises holds of every stream the FFI makes.
UsesTextStream == TS!Spec
-----------------------------------------------------------------------------
(* The inductive invariant the proofs use: TypeOK, TextStream's IInv and   *)
(* these.                                                                  *)

\* The callbacks before on_done, and how many chunks the channel has.
Body == IF pc = "ended" THEN Len(trace) - 1 ELSE Len(trace)

ChunksIn ==
    IF events # <<>> /\ events[Len(events)] \in TS!TerminalEvents
      THEN Len(events) - 1 ELSE Len(events)

\* Where the worker is with its stream.
StageInv ==
    /\ pc \in {"idle", "running", "building"} => stream = "none"
    /\ pc = "starting" => stream \in {"none", "starting"}
    /\ pc \in {"checking", "receiving", "token"} => stream = "open"
    /\ handle = "freed" => pc = "ended"

\* A token is late only if the worker takes it to its next look at the flag.
LateInv ==
    /\ handle \in {"joining", "freed"} \/ code = "CANCELLED" => cancel
    /\ late # 0 => late = 1 /\ cancel /\ pc \in {"checking", "dropping", "announcing", "ended"}

\* Tokens, then perhaps one error, then the end.
TraceInv ==
    LET failed == pc \in {"dropping", "announcing", "ended"} /\ code \notin {"OK", "CANCELLED"}
    IN  /\ pc = "ended" => trace # <<>> /\ trace[Len(trace)] = "done"
        /\ pc = "failing" => code \notin {"OK", "CANCELLED"}
        /\ failed => Body >= 1 /\ trace[Body] = "error"
        /\ \A i \in 1..Body : (failed /\ i = Body) \/ trace[i] = "token"

\* A chunk of text is in the channel, in the worker's hand or with the host.
SentInv ==
    /\ stream = "none" => sent = 0
    /\ pc \in {"idle", "running", "building", "starting", "checking", "receiving", "token"} =>
          code = "none" /\ sent = Len(trace) + ChunksIn + (IF pc = "token" THEN 1 ELSE 0)
    /\ code = "OK" => terminal /\ sent = Body /\ pc \in {"dropping", "announcing", "ended"}

IInv == TypeOK /\ TS!OwnerInv /\ TS!EndInv /\ StageInv /\ LateInv /\ TraceInv /\ SentInv

=============================================================================
