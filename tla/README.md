# Verification of litert-lm-edge-rs

TLA+ models of what is hard in this repository - its threads, channels and
callbacks, the files its processes share, the native objects it owns and the
loop of tool calls -, the TLC runs that check them on small instances, and
TLAPS proofs of what matters most for every value of the constants. Every
definition is translated from the source; the field `map` of
[PROJECT.json](PROJECT.json) names the lines of each. Line numbers below are of
the files under `src/`.

- [1. The system](#1-the-system)
- [2. The modules](#2-the-modules)
- [3. The runs](#3-the-runs)
- [4. Fairness](#4-fairness)
- [5. The proofs](#5-the-proofs)
- [6. Findings](#6-findings)
- [7. What is not modelled](#7-what-is-not-modelled)
- [8. Plan](#8-plan)

## 1. The system

The workspace wraps Google's LiteRT-LM, a C library that runs language models,
in three crates:

    host (game engine threads)          async tasks        sync callers
           |  C functions, callbacks         |                  |
    litert-lm-edge-ue-ffi             TokioEngine        Engine, Session,
      worker + request threads          worker thread      Conversation
           \_____________________________|__________________/
                          TextStream (callback -> channel)
    litert-lm-edge                       |
    -------------------------------------+---------------------------
    litert-lm-edge-sys        native runtime, with threads of its own
                              (found, fetched and linked by build.rs)

### Inventory

| Component | Source | State it keeps | Operations |
|---|---|---|---|
| Unreal FFI, conversations | `litert-lm-edge-ue-ffi/src/lib.rs` | a handle with a `Sender`, the `busy` and `cancel` flags and a join handle; a worker thread that owns engine and conversation; a request thread, stream handle and `done` channel per request | create, `send_message_start`, `continue_tools_start`, conversation cancel/free, stream cancel/free; the worker's loop |
| Unreal FFI, one-shot streams | same | a stream handle with a cancel flag and a join handle; on the worker thread an engine, a session and a TextStream | `stream_text_start`, `stream_multimodal_start`, cancel, free; `run_stream` |
| TextStream | `litert-lm-edge/src/stream.rs` | receiver, `terminal_received`, the heap cell `StreamState` whose address the native runtime holds | start, `next`, `recv_timeout`, `try_recv`, drop with drain; `stream_callback` |
| Tokio runtime | `litert-lm-edge/src/tokio_runtime.rs` | request channel; worker with engine, sessions, conversations and `next_id`; oneshot and stream channels of the tasks | `TokioEngine`, `TokioSession`, `TokioConversation`, `TokioTextStream`; `worker_loop` |
| Runtime provisioning | `litert-lm-edge-sys/build.rs` | a cache directory shared by every build of the machine, with a version marker | look, clear, download, unpack and rename, mark, copy |
| Conversation and tools | `conversation.rs`, `tool.rs` | the registry of handlers, the message of the round, the results collected | `send_message_raw`: rounds of tool calls up to a limit; `tool_results_message_json` of the FFI |
| Messages | `message.rs` | none | `Message` and `Content` from and to JSON, `parse_tool_calls` |
| Model download | `model_download.rs` | the destination file and its `.partial`, shared by every process that fetches the model | look, fetch, verify, rename |
| Engine, Session, inputs, embedding | `lib.rs`, `input.rs`, `embedding.rs`, parts of `conversation.rs` | native objects, deleted by `Drop`: handles, settings, configs, inputs, answers | builders, constructors, `generate_content`, `compute_embedding`, batches |
| FFI argument parsing | `litert-lm-edge-ue-ffi/src/lib.rs` | none | C strings and JSON to typed requests |
| Native bindings, errors, header, examples, scripts | `litert-lm-edge-sys/src`, `error.rs`, the rest | none | declarations, text, packaging |

The components meet in four places: the FFI's worker is the consumer of one
TextStream; the Tokio worker reads the TextStreams of all tasks, one at a time;
every owner of a stream, session or conversation must go before the engine it
was made on; and everything is called back from threads of the native runtime.

### What is hard in it, and what makes each part correct

- **Conversations.** Any number of host threads start, cancel and free while a
  worker and the request threads run. One `compare_exchange` on `busy` keeps
  requests apart, the flag is given back before `on_done`, the commands behind a
  `Shutdown` are dropped with the channel, and a request thread outlives
  `conversation_free`. Correct means: one request at a time; every start call
  is closed by exactly one `on_done` whose code agrees with the callbacks
  before it; nothing is called back after a free has returned; a cancel that
  comes before the worker's last look discards the whole response; no free
  blocks for ever.
- **One-shot streams.** The host cancels and frees while tokens arrive, and the
  stream may end in any way at any point. Correct means: `on_done` tells the
  truth about the tokens delivered, at most one token follows a cancel, free
  returns even when the runtime hangs, and the locals of `run_stream` go in an
  order the TextStream's drop can live with.
- **TextStream.** Rust frees a cell a foreign thread writes through. Correct
  means: the end is the last event; the cell is freed only after the end and
  leaked otherwise; the drop returns; `next` returns as long as there is
  something to wait for.
- **Tokio runtime.** Futures may be dropped at any await, a drop sends a message
  that nobody answers, a tool's definition or handler may panic the worker, and one
  stream blocks everyone. Correct means: a handle always names its own session,
  sessions never outlive the engine they borrow by a transmuted lifetime, what
  nobody holds any more is deleted, and every await ends.
- **Runtime provisioning.** Builds of several profiles or checkouts overlap on
  one directory and may be killed. Correct means: a build links its own
  release's libraries, of one release and complete.
- **Model download.** Calls of several threads or processes write, hash and
  rename the same `.partial`, each by its name; any of them may be cut short.
  Correct means: `Ok` stands for a verified model that stays, a mismatch is not a
  remnant of an earlier call, and calls that overlap leave the model whole if
  none is cut short.
- **The loop of tool calls.** Tools have effects, and the send, a tool or the limit
  may end the call in any round. Correct means: what is sent back answers the last
  response, call by call; a tool is run once for a call, and its result is
  sent unless the call fails in that very round; the limit counts rounds; `Ok`
  is no response that still asks for tools.
- **Native objects.** Every method makes several, any constructor, conversion or
  getter may fail in between, and some are owned by nobody for a moment, or by
  a container, or live on one another by a transmuted lifetime. Correct means:
  nothing leaks, nothing is deleted twice or passed on when it is gone.

`PROJECT.json` lists every hazard at its line with the properties aimed at it.

## 2. The modules

| Module | Models | Used by |
|---|---|---|
| `ConversationService` | what the conversation FFI promises, without threads | `UeConversation` (`INSTANCE ... WITH`) |
| `UeConversation` | the conversation FFI | its run, `UeConversationProofs` |
| `TextStream` | `stream.rs` and the runtime's callback thread | `UeStream` (`INSTANCE`), `TextStreamProofs` |
| `UeStream` | `run_stream` and the host's calls, composed with `TextStream` | its run, `UeStreamProofs` |
| `TokioRuntime` | `tokio_runtime.rs` | its run, `TokioRuntimeProofs` |
| `RuntimeCache` | `build.rs` | `MCRuntimeCache`, `RuntimeCacheProofs` |
| `ModelDownload` | `model_download.rs` and the file system under it | `MCModelDownload`, `ModelDownloadProofs` |
| `Messages` | `message.rs` and `parse_tool_calls`, as operators | `ToolLoop` |
| `ToolLoop` | `send_message_raw` with `tool.rs`, and the FFI's tool results | `MCToolLoop`, `ToolLoopProofs` |
| `NativeObjects` | the native objects of `lib.rs`, `input.rs`, `conversation.rs`, `embedding.rs` and the FFI's `ConversationState` | its run, `NativeObjectsProofs` |
| `MC...` | instances for TLC: symmetry, the responses of `ToolLoop` | runs |
| `...Proofs` | theorems, checked by TLAPS | |

Each component module ends its list of helpers with *faulty variants*: an
operation as a plausible bug would have it. No behaviour of `Spec` uses them.
Put in the place of the original, each makes TLC report one property violated;
`mutants` in `PROJECT.json` says which.

### UeConversation

`conv` is the handle as its owner sees it and `worker` the program counter of
`run_conversation_worker`; `queue` is the mpsc channel; `pc[r]` follows start
call `r` and then its request thread; `reply[r]` is its `done` channel, which is
`"dropped"` once the sender went with an unread command. An action stands for
the code between two points where another thread can be noticed: the
`compare_exchange` (`StartClaim`, `StartBusy`, 472), the spawn (485), the send
(496), the receive (`ReceiveReply`), the store that ends `busy` (502), and
`on_done`. On the worker: the two loads of the cancel flag around the native call
(`CheckBefore`, `CheckAfter`), each callback (`EmitNext`), the reply. A response is
the subsequence of text, tool calls and response that the code emits.
Argument checks are one outcome `INVALID`, as their effect is one and the same.

The host is bound by two rules of the header's ownership: no call on a handle
passed to free, and no free from a callback that runs on the thread it joins.

### TextStream, UeStream

The publication of an event (`PublishEvent`) and the return of `Sender::send`
(`SendReturns`) are two steps, as the consumer can act in between. The runtime is
external: it calls back one chunk at a time, not after the end, and may stop
for good (`NativeMayStall`). `UeStream` is the consumer: it instantiates
`TextStream` and conjoins each of its actions with a step of `run_stream`; the
other steps leave the stream alone. `UsesTextStream` is `TextStream!Spec`, fairness
included, so what that module promises holds of every stream the FFI makes.

### TokioRuntime

One table stands for the vectors of sessions and of conversations: they take
their ids from one counter and are treated alike. `generate` stands for every
call with one answer. Only a conversation's requests can panic, in a tool's definition
when it is created or in a tool's handler when it sends; the model lets any
`create` and `generate` do so. A future dropped at an await (`AwaitCancelled`) leaves
its request in the channel. `ClearTable` and `DropNative` are the worker's `Drop`,
in its order, also when it unwinds.

### RuntimeCache

`files` maps each name in the directory to the release it came from (the marker:
to the release it names), `owner` tells directories made one after another
apart, as a build may hold one open (`opened`) that is no longer at the path.
`remove_dir_all` is as many steps as there are entries; the rename is one step
that fails when the path is taken. Downloads and staging carry the process id
in their paths and are one step. `Kill` is the end of a build at any point,
by an interrupt or by a panic on an I/O error. `raced` is a history variable: two
builds have been under way at once.

### ModelDownload

Names and files are apart: `destination` and `partial` say which file has the
name, `content` which of a file's blocks are the model's. `file[d]` is what call
`d` has open, which it goes on writing or hashing whatever becomes of the name.
`CreatePartial` truncates the `.partial` there is, `OpenPartial` and
`RenamePartial` go by the name again, and each may find another file there, or
none. Hashing is block by block, of what each holds at the time. `Abort` is an
error, a panic of `on_progress` or a kill: nothing cleans up after it. A wrong
body and a wrong file placed at the destination are inputs. `raced` is a history
variable: two calls have been under way at once.

### ToolLoop, Messages

A call is `Start`ed with a message, options and the tools registered; an action is
a round's send with its response (`SendOnce`), a send that fails before the
native call (`SendRefused`) or in and after it (`SendFails`), one tool of the
round (`RunTool`, `ToolFails`), the message made of the results (`AnswerTools`) or
the end of the rounds (`LimitReached`). `log` is what the native conversation has
been given and has answered, `ran` (history) the tools that have run. A result is
*reported* when its message is in `log`: whether the native library keeps it when
it then returns null is its own affair. `ContinueTools` is the host's other way: it
runs the tools itself and sends their results as one message, with automatic
calling off.

The limit counts rounds: one message and one response each, whatever the number
of tools. README.md of the repository calls it the limit of "25 recurring tool
calls" in one place (854), which reads as if single calls were counted; its
"recursion limit" (938) and the text of README.zh-CN.md (668) are about rounds, as
the code is.

In `Messages` a field has a string, the empty string, null, another value, or is
absent, and an object may have fields besides the known ones (`more`). `FromJson`
and `ToJson` are then what the code makes of each: a text, an image, an audio or a
tool response keeps the fields of its type alone, everything else is `Raw` as
it came; `id` is an `Option` and `arguments` a `Value` by default null, and both are
written in any case, as a tool response's `response` is; fields of the message that
it has no place for are in `raw`, which is not written; one entry that is no tool
call empties the list. `Replies` is a constant, any set of such messages: for TLC,
`MCReplies` varies one part of a plain message at a time (every item of content
there is, any values of two channels, every list of names, every form of a
call), since no conversion looks at two parts.

### NativeObjects

A method is written as the sequence of its steps, one operator per function of
the code: enter a scope, make an object and who owns it from then on, convert a
string, pass objects on, move a result out, leave. `Next` runs such a sequence: a
scope's owners are dropped last first when it is left; a step that can fail may
leave every scope there is (`Fail`, the `?`), the error passing through the callers.
`loose` are objects only a raw pointer is left of (the sampler); an answer of a
batch belongs to its container (`Element`), and the temporary of a tail
expression is dropped after the locals, as in edition 2021. A local whose value is
moved out stays in its scope, with nothing left to drop. The client keeps
handles and calls any method of them in any order; a borrow keeps it from dropping
an engine too early, except in the FFI's `ConversationState`, where the order of two
fields does.

## 3. The runs

`tlc -config X.cfg M` inside this directory; the passing runs take from a
second to about four minutes.

| Run | Instance | Distinct states | Shows |
|---|---|---|---|
| `ue_conversation` | 2 requests, queue bound 1, spawn may fail | 176,595 | exclusion, silence after free, cancel, silent failures; every start is answered, frees return, `ConversationService` is implemented |
| `text_stream` | 3 chunks, stalls | 1,169 | ownership of the state, order of the end, drop and next |
| `text_stream_readme` | 1 chunk, no stall | violation | finding 1 |
| `text_stream_free` | 1 chunk, no stall | violation | finding 2 |
| `ue_stream` | 3 chunks, stalls, spawn may fail | 13,971 | the code of `on_done`, late tokens, free, use of TextStream |
| `tokio_runtime` | 2 tasks, 4 calls, 1 chunk, panic and stall | 186,172 | ids, lifetimes, leaks, the end of awaits |
| `runtime_cache` | 3 builds, 2 releases, 2 libraries, kills (symmetric) | 469,609 | unmixed cache, own release |
| `runtime_cache_readme` | 2 builds of 2 releases, no kill | violation | finding 3 |
| `model_download` | 3 calls, 2 blocks, any files there before (symmetric) | 130,149 | what `Ok` and a mismatch mean, a whole model stays, overlap heals |
| `model_download_readme` | 2 calls, 2 blocks | violation | finding 4 |
| `tool_loop` | 2 names, limits 0, 1 and 3, 2 tool calls in a response, `MCReplies` | 434,052 | what is sent answers what was asked, effects are reported, the limit, `Ok`, messages read and written again |
| `native_objects` | 3 handles, 2 inputs, 2 requests of a batch | 1,072,613 | no leak, no double deletion, live arguments, live parents |

Why the bounds are enough:

- *Requests* never interact but through `busy`, the queue and the worker, which
  serve one of them. Two show a pair that competes, one that is refused and one
  that comes after another's end. The safety properties are proved for any set.
- *QueueBound* limits only the host's `Cancel` commands, which change nothing when
  taken: one before, one behind a request are the cases.
- *MaxChunks*: a stream that is over, that has one event in flight, one in the
  channel and one just taken needs three. The proofs cover any number.
- *MaxCalls* = 4 calls of two tasks: create and use on both, or create, use,
  cancel and create again on one. A session leaked by a cancelled create, its
  neighbour's use and the end of both fit. Each request has at most one deletion
  besides, so the channel is bounded too.
- *Builds*: two race, the third comes after them and meets what they left; two
  releases are the least that can be confused, two libraries the least that can be
  incomplete, one of them required and one not.

- *Downloads*: two overlap, the third comes after them and meets what they left;
  two blocks are the least that can be half written, half hashed or half
  right. The proofs cover any number of both.
- *Limits* 0 (nothing is sent), 1 (the first round is the last) and 3 (a middle
  round); two tool calls, so that one can run before the other fails; two names,
  each registered or not, so that an unknown one can follow a known one.
- *Inputs* and *requests of a batch*: two, so that one can fail when another has been
  made. Three handles: an engine and two borrowers of it. Of a row of settings
  of the same kind the model has one where nothing can fail between them.

The runs with a liveness property use no symmetry. `CHECK_DEADLOCK FALSE` is used
for `TextStream` alone, whose owner may hold a stream for ever; elsewhere the only
state to stop in is a named action `Finished`.

## 4. Fairness

- Threads of the program (`WorkerStep`, `RequestStep`, the returns of `join` and
  `recv`) are weakly fair: the operating system schedules them, and no step of
  theirs waits for a lock others take in turns. Native calls other than a stream
  return.
- The runtime's thread is weakly fair *unless it has stalled*, a choice it may
  make at any time: the liveness properties of streams say so in their
  conclusions. The drain's deadline (30 s) and the poll's (50 ms) are actions that
  may happen at any time and must not be put off for ever.
- Tokio polls a task that can go on (`AwaitReturns`, `ReadEvent`, `ReadNone`).
- Nothing is asked of the host, of a caller or of a task: it may never call,
  cancel, free or drop. Nothing is asked of a build or a download, nor of the
  sequential modules: their runs state no liveness.

## 5. The proofs

TLAPS checks them for every set of requests, number of chunks, set of builds,
releases and libraries, number of downloads and blocks, set of tasks and of
names of tools, number of handles, inputs and requests of a batch, and all limits,
from the named assumptions on the constants that
the modules state (distinct names, naturals, Booleans).

**UeConversation** (`UeConversationProofs`). `Invariant` proves `IInv`:

- `BusyInv`: one request between claim and release; `busy` is set exactly while
  there is one, or for good after a failed spawn. Exclusion alone is not
  inductive: a second claim is excluded by the flag, so the flag must be known
  to be set.
- `QueueInv`: a command is in one place, once in the channel or on the worker,
  and its thread waits with an empty `done` channel. It gives
  `ServedRequestWaits`, the reason why joining the *request thread* silences the
  *worker*: `NoCallbackAfterStreamFree` follows from it and `HandleInv`.
- `ConvInv`: the worker ends only through a failed creation or a `Shutdown`, so a
  dropped reply means a free is under way (`SilentFailure`), and after the
  free's join the worker is gone (`NoResponseAfterFree`).

`AnswerInvariant` adds `AnswerInv`: what a request has been shown, what is still
in the outbox, and the code it will report fit together at each point. From
both, `Refinement` proves that every behaviour is one of
`ConversationService!Safety` (initial states and steps, under the refinement
mapping of `StatusAt`), and `CancelSilences` that an early cancel discards the
whole response.

**TextStream** (`TextStreamProofs`). `IInv` is `TypeOK`, `OwnerInv` (who owns the cell
at each stage) and `EndInv` (a terminal event is the last of the channel, sent by
the last callback with nothing after it). `terminal_received` is only as good as
that order: `EndIsLast`, `SendsOnLiveState` and `StateIsSettled` follow.

**RuntimeCache** (`RuntimeCacheProofs`). `NeverMixed` holds for any overlap and any
kills: a directory comes into being whole, by the rename, and afterwards only
loses names. `LoneInvariant` is about builds that only follow one another: what
the one under way has learnt of the cache stays true (`AloneInv`), and the cache is
whole but for the one that clears it unless somebody was killed (`WholeInv`).
`LoneStep` reduces each action to the build's own part. `MarkerTrue` and
`LoneBuildLinksOwn` follow.

**UeStream** (`UeStreamProofs`). `UsesStream` is the safety half of the composition:
each step of `UeStream` is a step of `TextStream`, or leaves the stream alone. The
prover does not take theorems through an instance, so the lemmas on the stream are
proved once more for `TS`. To them `IInv` adds:

- `SentInv`: every chunk the runtime has sent is in the channel, in the worker's hand
  or with the host. It needs the stream's `EndInv`: once the end has been taken
  nothing is in the channel and nothing is sent, so an `OK` decided then is still
  true when `on_done` is called, after a drop of up to 30 seconds.
- `TraceInv`: the callbacks are tokens, then one error if the code is one of
  failure, then the end. Together they are `CodeIsTrue`.
- `LateInv`: a token given after the cancel sends the worker to its next look at
  the flag, which is set for good (`AtMostOneLate`); `StageInv`: the handle is
  freed when the worker has ended (`SilentAfterFree`).

**TokioRuntime** (`TokioRuntimeProofs`). That no request finds its session gone is
not inductive: it depends on what is behind what in the channel. `IInv`:

- `HandleInv`: an id is with one task at most, below `next_id`, and while the worker
  serves its session is in the table.
- `PendingInv`, `OrderInv`: a deletion is of an id nobody names any more, and is the
  last request in the channel that names it; the calls of a task come in their
  order, so an answer is the one its task waits for, whatever futures were dropped.
- `WorkerInv`: the worker takes one request, and deletes the engine after the table
  is empty (`EngineLivesLongest`). `OnlyOrphansStay` is a part itself.

`TypeInv` is `TypeOK` without the bounds on the calls of a task, which come from a
sum over all tasks and only keep the run finite.

**ModelDownload** (`ModelDownloadProofs`). `IInv` is `NameInv` (a file has one name at
most, and nobody writes to one that was placed), `AloneInv` (what the single call
under way has learnt of its file is so; a destination made by a call is whole,
as long as no two have overlapped) and `HealInv`: as long as no call is cut short
or given a wrong body, each wrong block of a file at either name is still to be
written by a call that has it open. The last is the strengthening that makes
`OverlapHeals` inductive, as what is at the destination may be incomplete in
between. `LoneOk`, `LoneMismatch` and `LoneKeeps` follow from the others.

**ToolLoop** (`ToolLoopProofs`). `IInv` adds to the properties `RoundsInv` (messages and
responses alternate, the rounds left count them, every response so far has asked
for tools) and `PendingInv` (results collected and calls to come are, in this order,
the calls of the last response). `AnswersFollowCalls`, `LimitCountsRounds` and
`OkAsksForNothing` follow. `EffectsAreReported` and `AnswersReplay` are about
sequences of any length that are flattened, filtered and mapped. Their values come
from recursive functions, so the lemmas do without induction: of the lengths at
which such a function would be wrong one is the least, and the step from the one
before it shows that it is right there. `EffectsAreReported` needs in the invariant
that what has run but was not sent are the results collected in this round;
`EffectsAreReported` says for each end of a call what may be missing: nothing
after `Ok` or after a failure of the native call, all results of the last
response at the limit and when their message was never handed over, some first
ones when a tool fails. `AnswersReplay` takes a message apart into its parts: each
item and each tool call is typed by a second reading as by the first
(`ItemAgain`, `CallAgain`), and comes back as it was just if nothing in it is dropped
or filled in; `ContentsAgain`, `CallsAgain` and `ChannelsAgain` carry this to the parts,
`MessageAgain` to the whole. Nothing is assumed of `Replies` but that they are JSON
messages over `Names`.

**NativeObjects** (`NativeObjectsProofs`). Two arguments meet. One is about the text of
the methods, the other about the objects.

- A *shape* is what the text knows at a step: the object the method is called on,
  how many functions are entered, which kinds each has got, whether a raw pointer or
  a list under construction is among them. `Does(s, a, b)` says when step `s` is
  right after shape `a`, and that `b` comes of it: it passes on only what is named,
  fails only while nothing is owned by nobody, makes one borrower and one engine at
  most, and moves out all that borrows or is borrowed from. `Fine` is that of a
  sequence of steps, and `MethodFine` proves it of every method, batches of any
  length included.
- `Safe` is `ObjectsInv` with the variables as parameters: everything alive is owned
  by the handles, the scopes, a raw pointer or its container, by one of them and
  once; what borrows is deleted before its parent (`FrameOk`: its place in the scopes
  comes first in the order of drops); a handle's borrowers have their parent among
  the handles, those of a scope have it wherever they can borrow from.
- `ObjectsInv` is not inductive by itself: a failure could come while the sampler has
  no owner, and leave it behind; a move could take a conversation away from an engine
  that stays in the scope; a session could be made where no engine can be named.
  What rules that out is that the steps left are the rest of a method: `Fits(a, ...)`
  says that what is alive is as shape `a` has it, `Runs` that the steps left are
  `Fine` after such a shape.
  `Inductive` is `Safe`, and `Runs` or (after a failure) `Unwinds`: nothing but scopes to
  leave, and no raw pointer.

A lemma for each action (`CallKeeps`, `MakeKeeps`, `MoveKeeps`, `DropKeeps`, ...) takes
`Inductive` to `Inductive`. The order of drops is kept by lemmas on places: whatever an
action does to the innermost scope, what stays keeps its order and what is new comes
last, or, a temporary, first. `NothingIsLeaked`, `AllDeletedOnce`, `ArgumentsAreLive` and
`ParentsAreLive` follow: `Deleters` counts handles, places and pointers, of which one
at most has the object. Nothing is assumed but the assumption on the constants.
TLC has checked `ObjectsInv` on the run's instance.

**Only model-checked**: all liveness (fairness and ENABLED are beyond the prover)
and with it the fairness halves of `ImplementsService` and `UsesTextStream`. Every
invariant and every action property of a passing run is a theorem.

## 6. Findings

Each is the counterexample of a run named `violation`; `PROJECT.json` quotes the
lines.

1. `ReadmeLoopGoesOn`: the README's `for event in stream` leaves on `Final` only.
   After an `Error` the next `next()` never returns, since the stream itself
   keeps a sender alive.
2. `StateOutlivesSend`: the drop frees `StreamState`, and with it the `Sender`, once it
   has *received* the end; the callback may still be inside `send` on it.
3. `LinksOwn`: of two overlapping builds of different releases that share a
   cache, the one that loses the rename keeps the other's copy as "equivalent",
   writes its own marker on it, and links it, as every later build does.
4. `MovesOnlyVerified`: the README says the downloader verifies before it moves
   the file. Of two overlapping downloads the one truncates the `.partial` the
   other has verified, and the other moves it into place and returns `Ok`. The
   first still fills the file it has open (`RaceHeals`); if it is cut short, every
   later call is refused with `ChecksumMismatch`.

Two behaviours the models contain, and no document contradicts:

- `start_conversation_request` sets `busy` before `thread::spawn` and only the spawned
  thread resets it. If the spawn panics the conversation refuses every later
  call as busy; `BusyHeld` names this case.
- A build that found the cache unusable clears it later without another look,
  and may clear the complete runtime another build has installed since.

## 7. What is not modelled

- The FFI's parsing of arguments is one outcome `INVALID`, but for the tool results
  of `continue_tools_start`: each check is a pure function of the arguments, made
  before anything has been started.
- The values of settings and options, prompts, vectors, tool arguments and results
  and the schema of tools: data the properties do not tell apart. `KnownModel`
  is a table of names and checksums, `EmbeddingTask` one of prefixes.
- `cancel_process` of a session or conversation outside a stream: a plain call of the
  native library on a `&mut` handle, so never during another call on it.
- The choice of runtime by the `system` feature and a vendored directory, and the
  generation of bindings, in `build.rs`: straight-line, without shared state.
- `error.rs` (an enumeration and its text), `fallback.rs` and the C header
  (generated), examples, release scripts and workflows: no behaviour of their own.
- The native runtime is external: its calls return or stall, and its callbacks
  come as `TextStream` says. What it does with a session deleted during its own
  stream is not in the repository.
- Memory: Rust's ownership rules what the safe code does. The models look at
  the places where raw pointers and transmuted lifetimes step outside it.
- `next_id` saturating at 2^64, and weak memory: `busy` and the flags are single
  atomics whose effects the channels and joins order.

## 8. Plan

Done, in this order: `ConversationService` and `UeConversation` with proofs,
`TextStream` with proofs, `UeStream`, `TokioRuntime`, `RuntimeCache` with proofs,
`ModelDownload` with proofs, `NativeObjects`, `Messages` and `ToolLoop` with proofs,
the proofs of `TokioRuntime` and `UeStream`, of `EffectsReported` and `ReplaysAsSaid`, and
of `NativeObjects`.

What is left: the FFI's parsing of arguments as operators, checked against the C
header's table of required fields, and lemmas on `FlattenSeq` in one place
(`ToolLoopProofs` and `NativeObjectsProofs` both state them).
