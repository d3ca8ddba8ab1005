----------------------------- MODULE TextStream -----------------------------
(***************************************************************************)
(* litert-lm-edge/src/stream.rs: a TextStream on the consumer's thread, a  *)
(* thread of the native runtime that calls stream_callback, the channel    *)
(* between them, and StreamState, the heap cell whose pointer the runtime  *)
(* holds: the consumer's drop must decide when that cell may be freed.     *)
(*                                                                         *)
(* External: the runtime. It calls the callback one chunk at a time, not   *)
(* after a chunk that is final or an error, and not at all when starting   *)
(* returned an error code; it may also stop calling for good.              *)
(***************************************************************************)
EXTENDS Naturals, Sequences

CONSTANTS
    MaxChunks,       \* bound: chunks before a terminal one
    NativeMayStall   \* TRUE when the runtime may never call back again

ASSUME ConstantsAssumption == MaxChunks \in Nat /\ NativeMayStall \in BOOLEAN

\* StreamEvent, without its text.
StreamEvents == {"Chunk", "Final", "Error"}

TerminalEvents == {"Final", "Error"}

\* What a callback is given: a null chunk is the one with nothing in it.
Chunks == [text : BOOLEAN, final : BOOLEAN, error : BOOLEAN]

VARIABLES
    stream,      \* the TextStream: where its owner is with it
    terminal,    \* TextStream::terminal_received
    last,        \* the event the owner looked at last
    state,       \* the StreamState behind callback_data
    events,      \* the channel of StreamEvent, oldest first
    cancelled,   \* litert_lm_session_cancel_process was called
    native,      \* what the runtime does with the stream
    callback,    \* what the running stream_callback is at
    pending,     \* the events it has still to send
    chunks       \* chunks that were not terminal, so far

consumerVars == <<stream, terminal, last, state, cancelled>>
nativeVars == <<native, callback, pending, chunks>>
vars == <<consumerVars, events, nativeVars>>

-----------------------------------------------------------------------------
Init ==
    /\ stream = "none"
    /\ terminal = FALSE
    /\ last = "none"
    /\ state = "none"
    /\ events = <<>>
    /\ cancelled = FALSE
    /\ native = "idle"
    /\ callback = "none"
    /\ pending = <<>>
    /\ chunks = 0

-----------------------------------------------------------------------------
(* Faulty variants of dispatch_stream_event, used by no behaviour of Spec. *)

\* The end is sent first.
EventsEndFirst(c) ==
    IF c.error
      THEN <<"Error">>
      ELSE (IF c.final THEN <<"Final">> ELSE <<>>) \o (IF c.text THEN <<"Chunk">> ELSE <<>>)

\* The end is sent only with text.
EventsEndNeedsText(c) ==
    CASE c.error -> <<"Error">>
      [] ~c.error /\ c.text /\ c.final -> <<"Chunk", "Final">>
      [] ~c.error /\ c.text /\ ~c.final -> <<"Chunk">>
      [] OTHER -> <<>>

-----------------------------------------------------------------------------
\* dispatch_stream_event: an error hides the rest of its chunk; text goes
\* before the end, since the consumer may free the state at the end.
Events(c) ==
    CASE c.error -> <<"Error">>
      [] ~c.error /\ c.text /\ c.final -> <<"Chunk", "Final">>
      [] ~c.error /\ c.text /\ ~c.final -> <<"Chunk">>
      [] ~c.error /\ ~c.text /\ c.final -> <<"Final">>
      [] OTHER -> <<>>

\* The receiver has not been dropped with the TextStream.
Receiving == stream \in {"starting", "open", "blocked", "draining"}

\* An event is taken from the channel and mark_terminal looks at it.
TakeEvent ==
    /\ events # <<>>
    /\ events' = Tail(events)
    /\ last' = Head(events)
    /\ terminal' = (terminal \/ Head(events) \in TerminalEvents)

-----------------------------------------------------------------------------
(* Faulty variants of operations below, used by no behaviour of Spec.      *)

\* The drain's failure is ignored.
DrainTimesOutFrees ==
    /\ stream = "draining"
    /\ ~terminal
    /\ stream' = "dropped"
    /\ state' = "freed"
    /\ events' = <<>>
    /\ UNCHANGED <<terminal, last, cancelled, nativeVars>>

\* The drain has no deadline.
DrainNeverTimesOut == FALSE /\ UNCHANGED vars

-----------------------------------------------------------------------------
(* The consumer.                                                           *)

\* start_text_stream allocates the state and calls the runtime, whose
\* thread may call back before the call has returned.
StartStream ==
    /\ stream = "none"
    /\ stream' = "starting"
    /\ state' = "allocated"
    /\ native' \in {"generating", "refused"}
    /\ UNCHANGED <<terminal, last, events, cancelled, callback, pending, chunks>>

StartReturns ==
    /\ stream = "starting"
    /\ native # "refused"
    /\ stream' = "open"
    /\ UNCHANGED <<terminal, last, state, events, cancelled, nativeVars>>

\* code != 0: the state is dropped at once.
StartFails ==
    /\ stream = "starting"
    /\ native = "refused"
    /\ stream' = "failed"
    /\ state' = "freed"
    /\ UNCHANGED <<terminal, last, events, cancelled, nativeVars>>

\* recv_timeout and try_recv with an event there; without one they return
\* Ok(None) and change nothing.
Poll ==
    /\ stream = "open"
    /\ TakeEvent
    /\ UNCHANGED <<stream, state, cancelled, nativeVars>>

\* Iterator::next: recv blocks. The README's loop leaves on Final only.
CallNext ==
    /\ stream = "open"
    /\ last # "Final"
    /\ stream' = "blocked"
    /\ UNCHANGED <<terminal, last, state, events, cancelled, nativeVars>>

NextReturns ==
    /\ stream = "blocked"
    /\ TakeEvent
    /\ stream' = "open"
    /\ UNCHANGED <<state, cancelled, nativeVars>>

\* Drop::drop begins: a stream that has not ended is cancelled.
DropStream ==
    /\ stream = "open"
    /\ stream' = "draining"
    /\ cancelled' = ~terminal
    /\ UNCHANGED <<terminal, last, state, events, nativeVars>>

\* drain_until_terminal
DrainReceive ==
    /\ stream = "draining"
    /\ ~terminal
    /\ TakeEvent
    /\ UNCHANGED <<stream, state, cancelled, nativeVars>>

\* The 30 seconds are over, perhaps with events left: the state is leaked.
DrainTimesOut ==
    /\ stream = "draining"
    /\ ~terminal
    /\ stream' = "dropped"
    /\ state' = "leaked"
    /\ events' = <<>>
    /\ UNCHANGED <<terminal, last, cancelled, nativeVars>>

\* Box::from_raw and drop of the state, then of the receiver.
FreeState ==
    /\ stream = "draining"
    /\ terminal
    /\ stream' = "dropped"
    /\ state' = "freed"
    /\ events' = <<>>
    /\ UNCHANGED <<terminal, last, cancelled, nativeVars>>

-----------------------------------------------------------------------------
(* The runtime's thread, inside and outside stream_callback.               *)

InvokeCallback(c) ==
    /\ native = "generating"
    /\ callback = "none"
    /\ callback' = "running"
    /\ pending' = Events(c)
    /\ IF c.final \/ c.error
         THEN native' = "finished" /\ UNCHANGED chunks
         ELSE chunks < MaxChunks /\ chunks' = chunks + 1 /\ UNCHANGED native
    /\ UNCHANGED <<consumerVars, events>>

\* (*state).sender.send publishes its event: from here on the consumer can
\* have it. With the receiver gone the send fails and the event is lost.
PublishEvent ==
    /\ callback = "running"
    /\ pending # <<>>
    /\ events' = IF Receiving THEN Append(events, Head(pending)) ELSE events
    /\ pending' = Tail(pending)
    /\ callback' = "sending"
    /\ UNCHANGED <<consumerVars, native, chunks>>

\* send wakes a blocked receiver, through the channel, and returns.
SendReturns ==
    /\ callback = "sending"
    /\ callback' = "running"
    /\ UNCHANGED <<consumerVars, events, native, pending, chunks>>

CallbackReturns ==
    /\ callback = "running"
    /\ pending = <<>>
    /\ callback' = "none"
    /\ UNCHANGED <<consumerVars, events, native, pending, chunks>>

NativeStalls ==
    /\ NativeMayStall
    /\ native = "generating"
    /\ callback = "none"
    /\ native' = "stalled"
    /\ UNCHANGED <<consumerVars, events, callback, pending, chunks>>

-----------------------------------------------------------------------------
NativeStep ==
    \/ \E c \in Chunks : InvokeCallback(c)
    \/ PublishEvent \/ SendReturns \/ CallbackReturns

DropStep == DrainReceive \/ DrainTimesOut \/ FreeState

Next ==
    \/ StartStream \/ StartReturns \/ StartFails
    \/ Poll \/ CallNext \/ NextReturns
    \/ DropStream \/ DropStep
    \/ NativeStep \/ NativeStalls

\* A runtime that has not stalled goes on; the drain meets its deadline; a
\* blocked receiver is woken. The owner may keep the stream for ever.
Fairness ==
    /\ WF_vars(NativeStep)
    /\ WF_vars(StartReturns \/ StartFails)
    /\ WF_vars(NextReturns)
    /\ WF_vars(DropStep)

Spec == Init /\ [][Next]_vars /\ Fairness

-----------------------------------------------------------------------------
TypeOK ==
    /\ stream \in {"none", "starting", "open", "blocked", "draining", "dropped", "failed"}
    /\ terminal \in BOOLEAN
    /\ last \in StreamEvents \cup {"none"}
    /\ state \in {"none", "allocated", "freed", "leaked"}
    /\ events \in Seq(StreamEvents)
    /\ cancelled \in BOOLEAN
    /\ native \in {"idle", "refused", "generating", "finished", "stalled"}
    /\ callback \in {"none", "running", "sending"}
    /\ pending \in {<<>>, <<"Chunk">>, <<"Chunk", "Final">>, <<"Final">>, <<"Error">>}
    /\ chunks \in 0..MaxChunks

\* The callback begins no send through callback_data once its StreamState
\* is freed, whenever the consumer drops the stream.
NoSendOnFreedState == pending # <<>> \/ native = "generating" => state # "freed"

\* terminal_received is the proof the drop relies on: nothing is in the
\* channel, and nothing is on its way to it, once it is set.
TerminalIsLast ==
    terminal => events = <<>> /\ pending = <<>> /\ native = "finished"

\* The drop frees the state if it saw the end and leaks it otherwise, and
\* then only after it asked the runtime to stop.
FreedOrLeaked ==
    stream = "dropped" =>
        \/ state = "freed" /\ terminal
        \/ state = "leaked" /\ ~terminal /\ cancelled

\* Dropping a stream returns even when the runtime never answers.
DropReturns == stream = "draining" ~> stream = "dropped"

\* next returns while no end was received, if the runtime goes on.
NextReturnsBeforeEnd ==
    stream = "blocked" /\ ~terminal ~> stream = "open" \/ native = "stalled"

\* The README's loop, "for event in stream" that leaves on Final and goes
\* on after Error, is never blocked for good by a runtime that goes on.
ReadmeLoopGoesOn ==
    stream = "blocked" ~> stream = "open" \/ native = "stalled"

\* The state is not freed while "a foreign background thread may use it":
\* while a send that was begun on it has not returned.
StateOutlivesSend == callback = "sending" => state # "freed"

-----------------------------------------------------------------------------
(* The inductive invariant the proofs use: TypeOK and these.               *)

\* Who owns the state at each stage of the stream.
OwnerInv ==
    /\ stream = "none" => state = "none" /\ native = "idle"
    /\ stream = "starting" => state = "allocated" /\ native # "idle"
    /\ stream \in {"open", "blocked", "draining"} =>
          state = "allocated" /\ native \notin {"idle", "refused"}
    /\ stream = "failed" => state = "freed" /\ native = "refused"
    /\ stream = "dropped" => native \notin {"idle", "refused"}
    /\ stream = "draining" => terminal \/ cancelled
    /\ FreedOrLeaked

\* An end is sent last, by the last callback, and taken last.
EndInv ==
    /\ native \in {"idle", "refused"} => callback = "none" /\ events = <<>>
    /\ callback = "none" => pending = <<>>
    /\ pending # <<>> /\ pending # <<"Chunk">> => native = "finished"
    /\ \A i \in 1..Len(events) : events[i] \in TerminalEvents =>
          i = Len(events) /\ pending = <<>> /\ native = "finished"
    /\ TerminalIsLast

IInv == TypeOK /\ OwnerInv /\ EndInv

=============================================================================
