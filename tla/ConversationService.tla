------------------------ MODULE ConversationService ------------------------
(***************************************************************************)
(* What the conversation FFI promises the host, with no threads, channel   *)
(* or flag: each start call is refused, or served alone; a served call is  *)
(* answered by a response in a fixed order of callbacks, by one error, or  *)
(* by silence; and every call is closed by exactly one on_done, whose code *)
(* agrees with the callbacks before it. UeConversation implements it.      *)
(***************************************************************************)
EXTENDS Naturals, Sequences

CONSTANT Requests

VARIABLES
    status,   \* status[r]: how far the call r is
    trace,    \* trace[r]: the callbacks made for r, in order
    result    \* result[r]: the code on_done reported, "none" before

vars == <<status, trace, result>>

Statuses == {"new", "refused", "serving", "ending", "closed"}

\* The order of the callbacks of a response.
Rank == [text |-> 1, tool_calls |-> 2, response |-> 3]

\* The codes on_done may report after the callbacks t.
CodesAfter(t) ==
    CASE t = <<>> -> {"CANCELLED", "STREAM_FAILED"}
      [] t = <<"error">> -> {"INVALID", "BUSY", "STREAM_FAILED", "PANIC"}
      [] OTHER -> {"OK"}

\* No part of a response is still owed after the callbacks t.
Complete(t) == t = <<>> \/ t[Len(t)] \in {"error", "response"}

-----------------------------------------------------------------------------
Init ==
    /\ status = [r \in Requests |-> "new"]
    /\ trace = [r \in Requests |-> <<>>]
    /\ result = [r \in Requests |-> "none"]

Become(r, s) == status' = [status EXCEPT ![r] = s]

Make(r, e) == trace' = [trace EXCEPT ![r] = Append(@, e)]

Refuse(r) ==
    /\ status[r] = "new"
    /\ Become(r, "refused")
    /\ UNCHANGED <<trace, result>>

\* One call is served at a time.
Accept(r) ==
    /\ status[r] = "new"
    /\ \A s \in Requests : status[s] # "serving"
    /\ Become(r, "serving")
    /\ UNCHANGED <<trace, result>>

\* An accepted call that could not be begun is refused after all.
Abandon(r) ==
    /\ status[r] = "serving"
    /\ trace[r] = <<>>
    /\ Become(r, "refused")
    /\ UNCHANGED <<trace, result>>

RefuseError(r) ==
    /\ status[r] = "refused"
    /\ Make(r, "error")
    /\ Become(r, "ending")
    /\ UNCHANGED result

Deliver(r) ==
    /\ status[r] = "serving"
    /\ \E e \in DOMAIN Rank :
          /\ \A i \in 1..Len(trace[r]) : trace[r][i] # "error" /\ Rank[trace[r][i]] < Rank[e]
          /\ Make(r, e)
    /\ UNCHANGED <<status, result>>

Fail(r) ==
    /\ status[r] = "serving"
    /\ trace[r] = <<>>
    /\ Make(r, "error")
    /\ UNCHANGED <<status, result>>

Release(r) ==
    /\ status[r] = "serving"
    /\ Complete(trace[r])
    /\ Become(r, "ending")
    /\ UNCHANGED <<trace, result>>

Close(r) ==
    /\ status[r] = "ending"
    /\ \E c \in CodesAfter(trace[r]) : result' = [result EXCEPT ![r] = c]
    /\ Make(r, "done")
    /\ Become(r, "closed")

Progress(r) ==
    \/ Abandon(r) \/ RefuseError(r) \/ Deliver(r) \/ Fail(r) \/ Release(r) \/ Close(r)

Next == \E r \in Requests : Refuse(r) \/ Accept(r) \/ Progress(r)

Fairness == \A r \in Requests : WF_vars(Progress(r))

Safety == Init /\ [][Next]_vars

Spec == Safety /\ Fairness

=============================================================================
