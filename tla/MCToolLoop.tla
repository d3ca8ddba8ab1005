----------------------------- MODULE MCToolLoop -----------------------------
(***************************************************************************)
(* ToolLoop for TLC. The parts of a message are converted each on its own, *)
(* so the responses differ from a plain one in one part at a time: the     *)
(* role, the content, the channels, the names of the tools asked for, the  *)
(* form of one call.                                                       *)
(***************************************************************************)
EXTENDS ToolLoop

Plain == JsonMessage("model", Absent, Absent, Absent)

Call(name) == [name |-> name, id |-> "string", arguments |-> "other", more |-> FALSE]

MCContents ==
    {Absent, Unreadable, Array(<<>>)} \cup {Array(<<item>>) : item \in Items}
        \cup {Array(<<Item("text", "string", "absent"), Item("image", key, "absent")>>) : key \in Values}

MCLists ==
    {Absent, Unreadable} \cup
        {Array([i \in DOMAIN names |-> Call(names[i])]) :
            names \in UNION {[1..n -> Names \cup {"malformed"}] : n \in 0..MaxCalls}}

MCReplies ==
    [role : Roles \cup {"other"}, content : {Absent}, channels : {Absent}, tool_calls : {Absent}, more : BOOLEAN]
        \cup {[Plain EXCEPT !.content = content] : content \in MCContents}
        \cup {[Plain EXCEPT !.channels = channels] : channels \in Channels}
        \cup {[Plain EXCEPT !.tool_calls = list] : list \in MCLists}
        \cup {[Plain EXCEPT !.tool_calls = Array(<<call>>)] : call \in ToolCalls({CHOOSE n \in Names : TRUE})}

=============================================================================
