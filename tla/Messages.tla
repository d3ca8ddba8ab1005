------------------------------ MODULE Messages ------------------------------
(***************************************************************************)
(* message.rs and parse_tool_calls: what of a message in JSON the typed    *)
(* Message holds, and what it is in JSON again. A field has a string, an   *)
(* empty one or null, or another value, or it is absent; what the strings  *)
(* say is of no account. `more` is whether an object has fields besides    *)
(* those named here.                                                       *)
(***************************************************************************)
EXTENDS Naturals, SequencesExt

Strings == {"string", "empty"}
Values == Strings \cup {"absent", "null", "other"}

Roles == {"system", "user", "model", "tool"}

ItemTypes == {"text", "image", "audio", "tool_response", "other"}

\* An item of "content". Its key is the field that an item of its type is
\* read by: "text", the "path" of a file, the "name" of a tool response.
Items == [type : ItemTypes, key : Values, response : Values, more : BOOLEAN]

Item(type, key, response) == [type |-> type, key |-> key, response |-> response, more |-> FALSE]

\* An entry of "tool_calls", with a name of these, or with none that is a string.
ToolCalls(names) ==
    [name : names \cup {"malformed"}, id : Values, arguments : Values, more : BOOLEAN]

\* A part of a message that is absent, or no array, or the array of these.
Absent == [is |-> "absent", items |-> <<>>]
Unreadable == [is |-> "unreadable", items |-> <<>>]
Array(items) == [is |-> "array", items |-> items]
Parts(items) == {Absent, Unreadable} \cup [is : {"array"}, items : Seq(items)]

\* The object of the channels: what each channel named in it holds.
ChannelNames == {"thought", "plan"}
Object(entries) == [is |-> "object", items |-> entries]
Channels ==
    {Absent, Unreadable}
        \cup {Object(entries) : entries \in UNION {[names -> Values \ {"absent"}] : names \in SUBSET ChannelNames}}

\* A role that is none of the four, is no string or is missing is "other".
JsonMessages(names) ==
    [role : Roles \cup {"other"}, content : Parts(Items), channels : Channels,
     tool_calls : Parts(ToolCalls(names)), more : BOOLEAN]

JsonMessage(role, content, channels, tool_calls) ==
    [role |-> role, content |-> content, channels |-> channels, tool_calls |-> tool_calls, more |-> FALSE]

\* Absent as well when there is nothing in it.
NonEmpty(items) == IF items = <<>> THEN Absent ELSE Array(items)

File(type, path) == [is |-> "File", type |-> type, path |-> path]

-----------------------------------------------------------------------------
(* Faulty variants of operations below.                                    *)

\* An image or audio is taken for a file, whatever it has.
ContentFromJsonEager(item) ==
    CASE item.type = "text" /\ item.key \in Strings -> [is |-> "Text", text |-> item.key]
      [] item.type \in {"image", "audio"} -> File(item.type, IF item.key \in Strings THEN item.key ELSE "empty")
      [] item.type = "tool_response" ->
           [is |-> "ToolResponse",
            name |-> IF item.key \in Strings THEN item.key ELSE "empty",
            response |-> IF item.response = "absent" THEN "null" ELSE item.response]
      [] OTHER -> [is |-> "Raw", value |-> item]

-----------------------------------------------------------------------------
(* Tool calls: serde's derived conversions.                                *)

\* An entry with the name of a function, and an id that is a string, null
\* or absent.
Readable(call) == call.name # "malformed" /\ call.id # "other"

\* Option<String>, and Value with its default; other fields are flattened
\* into `extra`.
ToolCallFromJson(call) ==
    [name |-> call.name,
     id |-> IF call.id \in Strings THEN call.id ELSE "none",
     arguments |-> IF call.arguments = "absent" THEN "null" ELSE call.arguments,
     more |-> call.more]

\* Every field is written, id as null when there is none.
ToolCallToJson(call) == [call EXCEPT !.id = IF @ = "none" THEN "null" ELSE @]

\* serde_json::from_value of the whole list: what is no array, or has an
\* entry that is no tool call, counts as an empty list.
ParseToolCalls(list) ==
    IF \A i \in DOMAIN list.items : Readable(list.items[i])
      THEN [i \in DOMAIN list.items |-> ToolCallFromJson(list.items[i])] ELSE <<>>

-----------------------------------------------------------------------------
(* Items of content and whole messages.                                    *)

\* What has the field of its type becomes typed, and that field is all it
\* keeps; a tool response is typed in any case, with an empty name and a null
\* response where it has none. Everything else is kept as it came.
ContentFromJson(item) ==
    CASE item.type = "text" /\ item.key \in Strings -> [is |-> "Text", text |-> item.key]
      [] item.type \in {"image", "audio"} /\ item.key \in Strings -> File(item.type, item.key)
      [] item.type = "tool_response" ->
           [is |-> "ToolResponse",
            name |-> IF item.key \in Strings THEN item.key ELSE "empty",
            response |-> IF item.response = "absent" THEN "null" ELSE item.response]
      [] OTHER -> [is |-> "Raw", value |-> item]

ContentToJson(content) ==
    CASE content.is = "Text" -> Item("text", content.text, "absent")
      [] content.is = "File" -> Item(content.type, content.path, "absent")
      [] content.is = "ToolResponse" -> Item("tool_response", content.name, content.response)
      [] content.is = "Raw" -> content.value

ParseRole(role) == IF role \in Roles THEN role ELSE "model"

\* Content that is a plain string is no content; channels keep their
\* strings; other fields are only in `raw`.
FromJson(json) ==
    [role |-> ParseRole(json.role),
     contents |-> [i \in DOMAIN json.content.items |-> ContentFromJson(json.content.items[i])],
     channels |-> LET entries == json.channels.items
                      strings == {name \in DOMAIN entries : entries[name] \in Strings}
                  IN  [name \in strings |-> entries[name]],
     tool_calls |-> ParseToolCalls(json.tool_calls),
     raw |-> json]

\* `raw` has no part in it.
ToJson(message) ==
    JsonMessage(message.role,
                NonEmpty([i \in DOMAIN message.contents |-> ContentToJson(message.contents[i])]),
                IF DOMAIN message.channels = {} THEN Absent ELSE Object(message.channels),
                NonEmpty([i \in DOMAIN message.tool_calls |-> ToolCallToJson(message.tool_calls[i])]))

=============================================================================
