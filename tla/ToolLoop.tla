------------------------------ MODULE ToolLoop ------------------------------
(***************************************************************************)
(* conversation.rs and tool.rs: the calls of one client on a conversation, *)
(* and the loop of tool calls inside each. The client sends a message of   *)
(* its own, or the results of tools it has run itself, as the host of the  *)
(* Unreal FFI does (continue_tools_start).                                 *)
(*                                                                         *)
(* The native conversation is external: it answers with any response, with *)
(* null or with what is no JSON. A tool's handler returns, fails or panics.*)
(***************************************************************************)
EXTENDS Messages

CONSTANTS
    Names,         \* names a tool may have, or the model may ask for
    Replies,       \* responses the native conversation may give, in JSON
    Limits,        \* values of recurring_tool_call_limit the client uses
    MaxCalls       \* bound: results in one message of the client

ASSUME ConstantsAssumption ==
    /\ Limits \subseteq Nat /\ MaxCalls \in Nat
    /\ "malformed" \notin Names /\ Replies \subseteq JsonMessages(Names)

VARIABLES
    tools,         \* the names registered
    pc,            \* what the call is at, "idle" between calls
    automatic,     \* its automatic_tool_calling
    limit,         \* its recurring_tool_call_limit
    left,          \* the rounds left of it
    current,       \* the message of the next round
    calls,         \* tool calls of the last response still to be run
    responses,     \* the names whose results the next message will have
    log,           \* what this call has sent and got, in order
    ran,           \* history: the names whose handlers have returned
    outcome,       \* what the last call returned
    answer         \* the response it returned with Ok

vars == <<tools, pc, automatic, limit, left, current, calls, responses, log, ran, outcome, answer>>

NoAnswer == JsonMessage("model", Absent, Absent, Absent)

UserMessage == [sent |-> "user", names |-> <<>>]
ToolMessage(names) == [sent |-> "tool", names |-> names]
Response(names) == [sent |-> "response", names |-> names]

\* What the loop reads of a response: the names of its tool calls.
NamesOf(reply) ==
    LET typed == ParseToolCalls(reply.tool_calls) IN [i \in DOMAIN typed |-> typed[i].name]

\* What the host may give as tool results: a name is missing or is none.
ResultLists == UNION {[1..n -> Names \cup {"malformed"}] : n \in 0..MaxCalls}

Init ==
    /\ tools \in SUBSET Names
    /\ pc = "idle" /\ automatic = FALSE /\ limit = 0 /\ left = 0
    /\ current = UserMessage /\ calls = <<>> /\ responses = <<>>
    /\ log = <<>> /\ ran = <<>>
    /\ outcome = "none" /\ answer = NoAnswer

Return(result) ==
    /\ pc' = "idle"
    /\ outcome' = result

-----------------------------------------------------------------------------
(* Faulty variants of operations below, used by no behaviour of Spec.      *)

\* The results are collected over all rounds.
TakeCallsKeeps(names) == calls' = names /\ UNCHANGED responses

\* The last response is returned when the rounds are used up.
LimitReachedOk ==
    /\ pc = "round" /\ left = 0
    /\ Return("ok")
    /\ UNCHANGED <<tools, automatic, limit, left, current, calls, responses, log, ran, answer>>

\* A tool that fails is passed over.
ToolFailsSkipped ==
    /\ pc = "tools" /\ calls # <<>>
    /\ calls' = Tail(calls)
    /\ UNCHANGED <<tools, pc, automatic, limit, left, current, responses, log, ran, outcome, answer>>

\* The rounds are counted from 0 to the limit.
RoundsOfPlusOne(n) == n + 1

-----------------------------------------------------------------------------
(* The client *)

RoundsOf(n) == n

Start(message, auto, n) ==
    /\ pc = "idle"
    /\ pc' = "round"
    /\ automatic' = auto /\ limit' = n /\ left' = RoundsOf(n) /\ current' = message
    /\ calls' = <<>> /\ responses' = <<>> /\ log' = <<>> /\ ran' = <<>>
    /\ outcome' = "none" /\ answer' = NoAnswer
    /\ UNCHANGED tools

\* send_message and send_message_raw, with options of the client's choice.
Send ==
    \E auto \in BOOLEAN, n \in Limits :
        \E message \in {UserMessage} \cup {ToolMessage(s) : s \in UNION {[1..k -> Names] : k \in 0..MaxCalls}} :
            Start(message, auto, n)

\* continue_tools_start: tool_results_message_json reads the host's list. One
\* result without a name and nothing is sent.
ContinueTools ==
    /\ pc = "idle"
    /\ \E results \in ResultLists, n \in Limits \ {0} :
         IF Contains(results, "malformed")
           THEN /\ Return("refused")
                /\ UNCHANGED <<tools, automatic, limit, left, current, calls, responses,
                               log, ran, answer>>
           ELSE Start(ToolMessage(results), FALSE, n)

-----------------------------------------------------------------------------
(* send_message_raw *)

TakeCalls(names) == calls' = names /\ responses' = <<>>

\* A round: the message goes to the native conversation, and the response
\* is the answer, or its tools are to be run.
SendOnce ==
    /\ pc = "round" /\ left > 0
    /\ left' = left - 1
    /\ \E reply \in Replies :
         LET names == NamesOf(reply) IN
         /\ log' = log \o <<current, Response(names)>>
         /\ IF ~automatic \/ names = <<>>
              THEN Return("ok") /\ answer' = reply /\ UNCHANGED <<calls, responses>>
              ELSE pc' = "tools" /\ TakeCalls(names) /\ UNCHANGED <<outcome, answer>>
    /\ UNCHANGED <<tools, automatic, limit, current, ran>>

\* `?` before the native call: the message, or the context, is no C string,
\* or the optional arguments cannot be had. The message stays here.
SendRefused ==
    /\ pc = "round" /\ left > 0
    /\ Return("not sent")
    /\ UNCHANGED <<tools, automatic, limit, left, current, calls, responses, log, ran, answer>>

\* The native conversation has been given the message, and gives back null,
\* or a response without text, or one that is no JSON: `?`.
SendFails ==
    /\ pc = "round" /\ left > 0
    /\ Return("send failed")
    /\ log' = Append(log, current)
    /\ UNCHANGED <<tools, automatic, limit, left, current, calls, responses, ran, answer>>

LimitReached ==
    /\ pc = "round" /\ left = 0
    /\ Return("limit")
    /\ UNCHANGED <<tools, automatic, limit, left, current, calls, responses, log, ran, answer>>

\* tool_response_message runs the tools one after the other.
RunTool ==
    /\ pc = "tools" /\ calls # <<>>
    /\ Head(calls) \in tools
    /\ ran' = Append(ran, Head(calls))
    /\ responses' = Append(responses, Head(calls))
    /\ calls' = Tail(calls)
    /\ UNCHANGED <<tools, pc, automatic, limit, left, current, log, outcome, answer>>

\* ToolRegistry::call finds no tool of the name, or the handler fails or
\* panics, having done what it had done by then: the round's other results
\* go with it.
ToolFails ==
    /\ pc = "tools" /\ calls # <<>>
    /\ Return("tool failed")
    /\ UNCHANGED <<tools, automatic, limit, left, current, calls, responses, log, ran, answer>>

AnswerTools ==
    /\ pc = "tools" /\ calls = <<>>
    /\ current' = ToolMessage(responses)
    /\ pc' = "round"
    /\ UNCHANGED <<tools, automatic, limit, left, calls, responses, log, ran, outcome, answer>>

Next ==
    \/ Send \/ ContinueTools
    \/ SendOnce \/ SendRefused \/ SendFails \/ LimitReached \/ RunTool \/ ToolFails \/ AnswerTools

Spec == Init /\ [][Next]_vars

-----------------------------------------------------------------------------
\* The tool calls of the last response: every message sent but one that
\* failed is followed by its response.
LastCalls == IF Len(log) < 2 THEN <<>> ELSE log[2 * (Len(log) \div 2)].names

\* The names whose results the loop has sent, entry by entry.
Results(entries) ==
    [i \in DOMAIN entries |-> IF i > 1 /\ entries[i].sent = "tool" THEN entries[i].names ELSE <<>>]

Reported == FlattenSeq(Results(log))

\* What the loop sends back answers the response right before it: every call,
\* in its order, and no call of an earlier round.
AnswersInOrder ==
    \A i \in DOMAIN log \ {1} : log[i].sent = "tool" =>
        log[i - 1].sent = "response" /\ log[i].names = log[i - 1].names

\* A tool has effects, so it is run once for a call and its result is handed
\* to the native conversation, once. What a call of the client may lose are
\* results of the last response alone: of some first calls in it if a tool
\* has failed; of all of them at the limit, and when their message cannot be
\* handed over. Once handed over, nothing is lost on this side.
EffectsReported ==
    LET unsent == SubSeq(ran, Len(Reported) + 1, Len(ran)) IN
    /\ IsPrefix(Reported, ran)
    /\ IsPrefix(unsent, LastCalls)
    /\ outcome \in {"ok", "send failed"} => unsent = <<>>
    /\ outcome \in {"limit", "not sent"} => unsent = LastCalls

\* The limit is one of rounds, whatever the number of tools in each: the
\* error says that as many messages were sent, each answered by tool calls.
LimitIsRounds ==
    outcome = "limit" =>
        /\ Len(log) = 2 * limit
        /\ \A i \in DOMAIN log : log[i].sent = "response" => log[i].names # <<>>

\* An automatic call never hands out as its result a response that asks for
\* tools, so the conversation is ready for the next message. A list with one
\* entry that cannot be read asks for none.
OkIsFinal ==
    outcome = "ok" /\ automatic =>
        LastCalls = <<>>
            /\ (answer.tool_calls.items # <<>> =>
                  \E i \in DOMAIN answer.tool_calls.items : ~Readable(answer.tool_calls.items[i]))

\* What a Message has without the JSON it came from.
Typed(message) ==
    [role |-> message.role, contents |-> message.contents,
     channels |-> message.channels, tool_calls |-> message.tool_calls]

\* An item comes back as it was: it is kept raw, or has all that its type
\* writes and nothing else.
Kept(item) ==
    \/ item.type = "other"
    \/ item.type \in {"text", "image", "audio"} /\ item.key \notin Strings
    \/ item.type \in {"text", "image", "audio"} /\ item.response = "absent" /\ ~item.more
    \/ item.type = "tool_response" /\ item.key \in Strings /\ item.response # "absent" /\ ~item.more

\* The messages that the typed form holds in full: a role of the four, no
\* fields besides the four parts, no part that is empty or has the wrong
\* form, only strings in the channels, and every tool call with its id and
\* its arguments.
Replayable(json) ==
    /\ json.role \in Roles /\ ~json.more
    /\ json.content \notin {Unreadable, Array(<<>>)}
    /\ \A i \in DOMAIN json.content.items : Kept(json.content.items[i])
    /\ json.channels \notin {Unreadable, Object(<<>>)}
    /\ \A name \in DOMAIN json.channels.items : json.channels.items[name] \in Strings
    /\ json.tool_calls \notin {Unreadable, Array(<<>>)}
    /\ \A i \in DOMAIN json.tool_calls.items :
         LET call == json.tool_calls.items[i]
         IN  Readable(call) /\ call.id # "absent" /\ call.arguments # "absent"

\* The typed message of an answer, put into the initial messages of another
\* conversation, is read there as it was read here: what is lost is lost at
\* the first reading. It is the JSON the answer was just if that is
\* Replayable: otherwise something is gone, or is null that was not there.
ReplaysAsSaid ==
    LET replay == ToJson(FromJson(answer)) IN
    /\ Typed(FromJson(replay)) = Typed(FromJson(answer))
    /\ replay = answer <=> Replayable(answer)

-----------------------------------------------------------------------------
(* The inductive invariant the proofs use.                                 *)

\* Messages sent and responses alternate; the rounds left count what has
\* been sent, and every response so far has asked for tools.
RoundsInv ==
    /\ \A i \in DOMAIN log : log[i].sent = "response" <=> i % 2 = 0
    /\ pc # "idle" =>
          /\ outcome = "none"
          /\ left <= limit /\ Len(log) = 2 * (limit - left)
          /\ \A i \in DOMAIN log : log[i].sent = "response" => log[i].names # <<>>

\* The results collected, the calls to come and the next message are those
\* of the last response.
PendingInv ==
    /\ pc = "tools" => log # <<>> /\ responses \o calls = LastCalls
    /\ pc = "round" /\ log # <<>> => current = ToolMessage(LastCalls)

\* What has been run is what has been reported, and the results collected or
\* those of the next message.
ReportedInv ==
    /\ pc = "tools" => ran = Reported \o responses
    /\ pc = "round" => ran = Reported \o LastCalls

LoopInv == RoundsInv /\ PendingInv /\ AnswersInOrder /\ LimitIsRounds /\ OkIsFinal

EffectsInv == ReportedInv /\ EffectsReported

IInv == LoopInv /\ EffectsInv

=============================================================================
