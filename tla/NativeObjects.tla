--------------------------- MODULE NativeObjects ---------------------------
(***************************************************************************)
(* The objects of the native library and who deletes them: lib.rs,         *)
(* embedding.rs, conversation.rs, input.rs and build_conversation_state.   *)
(*                                                                         *)
(* A method is the sequence of its steps that make, pass on or read native *)
(* objects. A function is a scope: what it owns is dropped last first when *)
(* it returns, or when a step of it, or of a function it calls, fails. The *)
(* handles of the client, who is one thread, are the engines, sessions and *)
(* conversations it has got.                                               *)
(*                                                                         *)
(* Not here: the objects of a running stream (TextStream), the tables of   *)
(* the tokio worker (TokioRuntime).                                        *)
(***************************************************************************)
EXTENDS Naturals, FiniteSets, SequencesExt

CONSTANTS
    MaxHandles,    \* bound: handles the client keeps at a time
    MaxInputs,     \* bound: inputs of one request
    MaxRequests    \* bound: requests of a batch, and answers to it

ASSUME ConstantsAssumption ==
    MaxHandles \in Nat /\ MaxInputs \in Nat /\ MaxRequests \in Nat

VARIABLES
    alive,         \* the native objects there are
    handles,       \* what the client owns: each an owner
    frame,         \* the scopes of the call under way, innermost last
    loose,         \* objects only a raw pointer is left of
    self,          \* the object the method is called on
    todo           \* the steps left of it

vars == <<alive, handles, frame, loose, self, todo>>

-----------------------------------------------------------------------------
(* Objects, owners and scopes. An owner is the sequence of what it         *)
(* deletes, in that order; a scope is the sequence of its owners.          *)

NoObject == [kind |-> "none", id |-> 0, of |-> 0]

Ids(objects) == {o.id : o \in objects}

\* An address that is free.
Fresh == CHOOSE n \in 1..(Cardinality(alive) + 1) : n \notin Ids(alive)

ScopeObjects(scope) == UNION {ToSet(scope[i]) : i \in DOMAIN scope}

FrameObjects == UNION {ScopeObjects(frame[i]) : i \in DOMAIN frame}

HandleObjects == UNION {ToSet(h) : h \in handles}

\* Owned by the container it was made in, and deleted with it.
Element(o) == o.kind = "embedding response" /\ o.of # 0

\* What the code of the method can name.
InReach ==
    FrameObjects \cup loose \cup {self}
        \cup {o \in alive : Element(o) /\ o.of \in Ids(FrameObjects)}

\* The local that holds objects of this kind, if there is one.
OwnerOf(scope, kind) ==
    LET Holds(w) == \E i \in DOMAIN w : w[i].kind = kind
    IN  IF \E w \in ToSet(scope) : Holds(w) THEN CHOOSE w \in ToSet(scope) : Holds(w) ELSE <<>>

-----------------------------------------------------------------------------
(* Steps: args are the kinds of objects passed to the native call.         *)

StepOf(do, kind, of, args, keep, count) ==
    [do |-> do, kind |-> kind, of |-> of, args |-> args, keep |-> keep, count |-> count]

Call(args) == StepOf("call", "none", "none", args, <<>>, 0)      \* cannot fail
Try(args) == StepOf("try", "none", "none", args, <<>>, 0)        \* may fail
Enter == StepOf("enter", "none", "none", {}, <<>>, 0)
Move(kinds) == StepOf("move", "none", "none", {}, kinds, 0)      \* Ok(..) to the caller
Leave == StepOf("leave", "none", "none", {}, <<>>, 0)
Make(kind, args) == StepOf("own", kind, "none", args, <<>>, 0)
MakeOn(kind, of, args) == StepOf("own", kind, of, args, <<>>, 0)
MakeTemp(kind, args, count) == StepOf("temp", kind, "none", args, <<>>, count)
NewList == StepOf("list", "none", "none", {}, <<>>, 0)
Push(kind) == StepOf("push", kind, "none", {}, <<>>, 0)
MakeRaw(kind) == StepOf("raw", kind, "none", {}, <<>>, 0)
DeleteRaw(kind) == StepOf("delete", kind, "none", {kind}, <<>>, 0)

Times(n, steps) == FlattenSeq([i \in 1..n |-> steps])

-----------------------------------------------------------------------------
(* Faulty variants of operations below, used by no behaviour of Spec.      *)

\* The sampler's values are checked once its object is made.
SamplerStepsChecked ==
    <<MakeRaw("sampler params"), Call({"sampler params"}), Try({}),
      Call({"sampler params", "session config"}), DeleteRaw("sampler params")>>

\* The sampler is deleted before the config has copied it.
SamplerStepsEarly ==
    <<MakeRaw("sampler params"), Call({"sampler params"}), DeleteRaw("sampler params"),
      Call({"sampler params", "session config"})>>

\* ConversationState with its fields the other way round.
StateFieldsSwapped == <<"engine", "conversation">>

\* The answers of a batch are wrapped like the answer to a single request.
ElementOwnersEach(container, elements) == <<<<container>>>> \o [i \in DOMAIN elements |-> <<elements[i]>>]

-----------------------------------------------------------------------------
(* input.rs: OwnedInputs::new reads a file, or not, and copies it.         *)

InputSteps(n) ==
    <<Enter, NewList>> \o Times(n, <<Try({}), Push("input data")>>)
        \o <<Move(<<"input data">>), Leave>>

\* The array passed on, which may be empty.
InputArgs(n) == IF n = 0 THEN {} ELSE {"input data"}

(* lib.rs *)

\* A path or a name is turned into a C string, unless it has a NUL or is no
\* UTF-8.
ToCString == Try({})

\* EngineBuilder::build: the settings are set in place, the two paths are
\* converted between the setters.
EngineSteps ==
    LET settings == {"engine settings"} IN
    <<Enter, ToCString, Make("engine settings", {}), Call(settings), ToCString, Call(settings),
      ToCString, Call(settings), Make("engine", settings), Move(<<"engine">>), Leave>>

\* The config copies the values, and the params are deleted at once; no
\* owner has them in between.
SamplerSteps ==
    <<MakeRaw("sampler params"), Call({"sampler params"}),
      Call({"sampler params", "session config"}), DeleteRaw("sampler params")>>

\* RawSessionConfig::new: no object for the default.
SessionConfigs ==
    LET New(more) == <<Enter, Make("session config", {}), Call({"session config"})>> \o more
                        \o <<Move(<<"session config">>), Leave>>
    IN  {<<>>, New(<<>>), New(SamplerSteps)}

\* The object is passed on if there is one.
ConfigArgs(config) == IF config = <<>> THEN {} ELSE {"session config"}

CreateSession(config) ==
    <<Enter>> \o config
        \o <<MakeOn("session", "engine", {"engine"} \cup ConfigArgs(config)),
             Move(<<"session">>), Leave>>

\* Responses::text_at(0): there may be no candidate, no text or no UTF-8.
TextAt == Try({"responses"})

GenerateContent(n) ==
    <<Enter>> \o InputSteps(n)
        \o <<Make("responses", {"session"} \cup InputArgs(n)), TextAt, Leave>>

(* conversation.rs *)

RawConversationConfig == Make("conversation config", {})

\* Conversation::new: each part of the config that is text is converted
\* just before it is set.
NewConversation(config) ==
    LET parts == {"conversation config"} IN
    <<Enter>> \o config
        \o <<RawConversationConfig, Call(parts \cup ConfigArgs(config)),
             ToCString, Call(parts), ToCString, Call(parts), ToCString, Call(parts),
             MakeOn("conversation", "engine", parts \cup {"engine"}),
             Move(<<"conversation">>), Leave>>

\* RawConversationOptionalArgs::new; nothing fails once the object is there.
OptionalArgs == <<Make("optional args", {}), Call({"optional args"})>>

\* RawJsonResponse::to_value: no string, no UTF-8 or no JSON.
ToValue == Try({"json response"})

\* send_once_raw: the tools of the loop around it own nothing native.
SendOnce ==
    <<Enter, ToCString>> \o OptionalArgs
        \o <<Make("json response", {"conversation", "optional args"}), ToValue, Leave>>

(* embedding.rs *)

EmbeddingEngineSteps ==
    LET settings == {"embedding settings"} IN
    <<Enter, ToCString, Make("embedding settings", {}), Call(settings)>>
        \o Times(4, <<ToCString, Call(settings)>>)
        \o <<Make("embedding engine", settings), Move(<<"embedding engine">>), Leave>>

\* RawEmbeddingOptions::new: no object for the default.
EmbeddingOptions ==
    {<<>>, <<Enter, Make("embedding options", {}), Call({"embedding options"}),
             Move(<<"embedding options">>), Leave>>}

OptionArgs(options) == IF options = <<>> THEN {} ELSE {"embedding options"}

\* response_values
ResponseValues == <<Try({"embedding response"})>>

\* The answer is a temporary of the last expression: it goes after the
\* locals.
ComputeEmbedding(n, options) ==
    <<Enter>> \o InputSteps(n) \o options
        \o <<MakeTemp("embedding response",
                      {"embedding engine"} \cup InputArgs(n) \cup OptionArgs(options), 0)>>
        \o ResponseValues \o <<Leave>>

\* OwnedEmbeddingResponses::to_vec: the answers are read one by one, out of
\* a container that owns them.
ToVec(answers) == Times(answers, <<Try({"embedding responses"})>> \o ResponseValues)

\* Every request has its list of inputs, in an order of their deletion that
\* is of no account.
ComputeBatch(lists, answers, options) ==
    <<Enter>> \o FlattenSeq([i \in DOMAIN lists |-> InputSteps(lists[i])]) \o options
        \o <<MakeTemp("embedding responses",
                      {"embedding engine"} \cup (UNION {InputArgs(lists[i]) : i \in DOMAIN lists})
                        \cup OptionArgs(options),
                      answers)>>
        \o ToVec(answers) \o <<Leave>>

(* litert-lm-edge-ue-ffi *)

\* The fields of ConversationState, in the order they are dropped in.
StateFields == <<"conversation", "engine">>

\* The engine is a local until the two are put together; the lifetime of
\* the conversation is transmuted, so nothing but the order ties them.
BuildState(config) ==
    <<Enter>> \o EngineSteps \o NewConversation(config) \o <<Move(StateFields), Leave>>

-----------------------------------------------------------------------------
Init ==
    /\ alive = {} /\ handles = {} /\ frame = <<>> /\ loose = {}
    /\ self = NoObject /\ todo = <<>>

Idle == todo = <<>>

Inputs == 0..MaxInputs

SingleRequests == {ComputeEmbedding(n, o) : n \in Inputs, o \in EmbeddingOptions}

Batches == {ComputeBatch(l, a, o) : l \in SeqOf(Inputs, MaxRequests), a \in 0..MaxRequests,
                                    o \in EmbeddingOptions}

\* The methods of an object of this kind, and what the client can call
\* without one. The engine of a ConversationState is out of its reach.
Methods(kind) ==
    CASE kind = "none" -> {EngineSteps, EmbeddingEngineSteps} \cup {BuildState(c) : c \in SessionConfigs}
      [] kind = "engine" -> {CreateSession(c) : c \in SessionConfigs}
                                \cup {NewConversation(c) : c \in SessionConfigs}
      [] kind = "session" -> {GenerateContent(n) : n \in Inputs}
      [] kind = "conversation" -> {SendOnce}
      [] kind = "embedding engine" -> SingleRequests \cup Batches

\* A method that gives the client something new ends with a move.
Yields(steps) == steps[Len(steps) - 1].do = "move"

Begin ==
    /\ Idle
    /\ \E o \in {Head(h) : h \in handles} \cup {NoObject} : \E steps \in Methods(o.kind) :
          /\ Yields(steps) => Cardinality(handles) < MaxHandles
          /\ self' = o
          /\ todo' = steps
    /\ UNCHANGED <<alive, handles, frame, loose>>

\* The client drops a handle nothing it has borrows from.
DropHandle ==
    /\ Idle
    /\ \E h \in handles :
          /\ \A g \in handles \ {h}, i \in DOMAIN h : h[i].id \notin {o.of : o \in ToSet(g)}
          /\ handles' = handles \ {h}
          /\ frame' = <<<<h>>>>
    /\ todo' = <<Leave>>
    /\ UNCHANGED <<alive, loose, self>>

-----------------------------------------------------------------------------
At(do) == todo # <<>> /\ Head(todo).do = do

Advance == todo' = Tail(todo)

Scope == Last(frame)

InScope(scope) == frame' = Append(Front(frame), scope)

CallNative ==
    /\ At("call") \/ At("try")
    /\ Advance
    /\ UNCHANGED <<alive, handles, frame, loose, self>>

EnterScope ==
    /\ At("enter")
    /\ frame' = Append(frame, <<>>)
    /\ Advance
    /\ UNCHANGED <<alive, handles, loose, self>>

ElementOwners(container, elements) == <<<<container>>>>

\* A native constructor returns an object, and with a container its
\* elements. A temporary is dropped after the locals, so it comes first.
MakeObject ==
    /\ At("own") \/ At("temp") \/ At("push") \/ At("raw")
    /\ LET s == Head(todo)
           parent == IF s.of = "none" THEN 0
                       ELSE (CHOOSE p \in InReach : p.kind = s.of).id
           o == [kind |-> s.kind, id |-> Fresh, of |-> parent]
           free == (1..(Cardinality(alive) + s.count + 1)) \ (Ids(alive) \cup {o.id})
           ids == CHOOSE f \in [1..s.count -> free] : IsInjective(f)
           elements == [i \in 1..s.count |->
                          [kind |-> "embedding response", id |-> ids[i], of |-> o.id]]
       IN  /\ alive' = alive \cup {o} \cup ToSet(elements)
           /\ CASE s.do = "own" -> InScope(Append(Scope, <<o>>)) /\ UNCHANGED loose
                [] s.do = "temp" -> InScope(ElementOwners(o, elements) \o Scope) /\ UNCHANGED loose
                [] s.do = "push" -> InScope(Append(Front(Scope), Append(Last(Scope), o)))
                                        /\ UNCHANGED loose
                [] s.do = "raw" -> loose' = loose \cup {o} /\ UNCHANGED frame
    /\ Advance
    /\ UNCHANGED <<handles, self>>

OpenList ==
    /\ At("list")
    /\ InScope(Append(Scope, <<>>))
    /\ Advance
    /\ UNCHANGED <<alive, handles, loose, self>>

\* The owner's destructor; a container takes its elements with it.
Delete(o) == alive' = alive \ ({o} \cup {e \in alive : Element(e) /\ e.of = o.id})

DeleteLoose ==
    /\ At("delete")
    /\ \E o \in loose :
          /\ o.kind = Head(todo).kind
          /\ Delete(o)
          /\ loose' = loose \ {o}
    /\ Advance
    /\ UNCHANGED <<handles, frame, self>>

\* The value returned belongs to the caller, the client in the end. Nothing
\* is left to drop of the locals it is made of.
MoveOut ==
    /\ At("move")
    /\ LET keep == Head(todo).keep
           moved == [i \in DOMAIN keep |-> OwnerOf(Scope, keep[i])]
           kept == FlattenSeq(moved)
           rest == [i \in DOMAIN Scope |-> IF Scope[i] \in ToSet(moved) THEN <<>> ELSE Scope[i]]
       IN  IF Len(frame) = 1
             THEN /\ handles' = handles \cup {kept}
                  /\ frame' = <<rest>>
             ELSE /\ frame' = Append(Append(Front(Front(frame)),
                                            Append(Last(Front(frame)), kept)), rest)
                  /\ UNCHANGED handles
    /\ Advance
    /\ UNCHANGED <<alive, loose, self>>

\* The locals go last first, each with all it owns.
DropLocal ==
    /\ At("leave")
    /\ Scope # <<>>
    /\ LET owner == Last(Scope) IN
          IF owner = <<>>
            THEN InScope(Front(Scope)) /\ UNCHANGED alive
            ELSE InScope(Append(Front(Scope), Tail(owner))) /\ Delete(Head(owner))
    /\ UNCHANGED <<handles, loose, self, todo>>

LeaveScope ==
    /\ At("leave")
    /\ Scope = <<>>
    /\ frame' = Front(frame)
    /\ Advance
    /\ self' = IF Len(todo) = 1 THEN NoObject ELSE self
    /\ loose' = IF Len(todo) = 1 THEN {} ELSE loose
    /\ UNCHANGED <<alive, handles>>

\* A constructor returns null, a getter null or no UTF-8, a conversion
\* fails: `?` leaves every scope there is.
Fail ==
    /\ At("try") \/ At("own") \/ At("temp") \/ At("push") \/ At("raw")
    /\ todo' = [i \in DOMAIN frame |-> Leave]
    /\ UNCHANGED <<alive, handles, frame, loose, self>>

Next ==
    \/ Begin \/ DropHandle
    \/ CallNative \/ EnterScope \/ MakeObject \/ OpenList \/ DeleteLoose
    \/ MoveOut \/ DropLocal \/ LeaveScope \/ Fail

Spec == Init /\ [][Next]_vars

-----------------------------------------------------------------------------
\* Between two calls the client's handles own all there is: no path through
\* a method, whichever step of it fails, leaves an object behind.
NothingLeaks == Idle => alive = HandleObjects

\* How many will delete o: the owners that are to do it, the raw pointer
\* and, for an answer of a batch, its container.
Deleters(o) ==
    LET places == UNION {UNION {{<<i, j, k>> : k \in DOMAIN frame[i][j]} :
                                j \in DOMAIN frame[i]} : i \in DOMAIN frame}
    IN
    Cardinality({h \in handles : o \in ToSet(h)})
    + Cardinality({p \in places : frame[p[1]][p[2]][p[3]] = o})
    + Cardinality({o} \cap loose)
    + (IF Element(o) THEN 1 ELSE 0)

\* What somebody will delete is still there, and nobody else deletes it.
DeletedOnce ==
    /\ HandleObjects \cup FrameObjects \cup loose \subseteq alive
    /\ \A o \in alive : Deleters(o) <= 1

\* Every native call gets live objects, of each kind it is to be given.
ArgumentsLive ==
    ~Idle => \A k \in Head(todo).args : \E o \in InReach \cap alive : o.kind = k

\* A session or conversation is never there without its engine, also where
\* only the order of two fields says so, and no answer without the batch's.
ParentsLive == \A o \in alive : o.of # 0 => \E p \in alive : p.id = o.of

-----------------------------------------------------------------------------
(* The inductive invariant of the proofs, what the steps left still need   *)
(* apart.                                                                  *)

\* An engine is what sessions and conversations borrow from.
Children == {"session", "conversation"}

\* What the client gets a handle of comes first in it.
Heads == {"engine", "session", "conversation", "embedding engine"}

\* In a handle everything is there once, what borrows before its parent.
HandlesInv ==
    /\ \A h \in handles : h # <<>> /\ h[1].kind \in Heads
    /\ \A h \in handles : \A i, j \in DOMAIN h :
          (h[i] = h[j] => i = j) /\ (h[i].of = h[j].id => i < j)
    /\ \A h, g \in handles : h # g => ToSet(h) \cap ToSet(g) = {}

\* The k-th object of the j-th local of scope i is deleted before the z-th
\* of the y-th of scope x.
Before(i, j, k, x, y, z) == x < i \/ (x = i /\ (y < j \/ (y = j /\ k < z)))

\* In the scopes as well.
FrameOk(scopes) ==
    \A i \in DOMAIN scopes : \A j \in DOMAIN scopes[i] : \A k \in DOMAIN scopes[i][j] :
        \A x \in DOMAIN scopes : \A y \in DOMAIN scopes[x] : \A z \in DOMAIN scopes[x][y] :
            /\ scopes[i][j][k] = scopes[x][y][z] => i = x /\ j = y /\ k = z
            /\ scopes[i][j][k].of = scopes[x][y][z].id => Before(i, j, k, x, y, z)

\* Everything has one kind of owner.
OwnersInv ==
    /\ \A o, q \in alive : o.id = q.id => o = q
    /\ alive = HandleObjects \cup FrameObjects \cup loose \cup {o \in alive : Element(o)}
    /\ \A o \in HandleObjects \cup FrameObjects \cup loose : ~Element(o)
    /\ HandleObjects \cap FrameObjects = {}
    /\ loose \cap (HandleObjects \cup FrameObjects) = {}

\* What borrows has its parent where it can be borrowed from.
ParentsInv ==
    \A o \in alive : o.of # 0 =>
        \E p \in alive :
            /\ p.id = o.of
            /\ p \notin loose
            /\ o \in HandleObjects => p \in HandleObjects
            /\ Element(o) => p \in FrameObjects /\ p.kind = "embedding responses"
            /\ ~Element(o) => o.kind \in Children /\ p.kind = "engine"

SelfInv == self # NoObject => self \in HandleObjects /\ ~Idle

ObjectsInv == HandlesInv /\ FrameOk(frame) /\ OwnersInv /\ ParentsInv /\ SelfInv

=============================================================================
