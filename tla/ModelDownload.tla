--------------------------- MODULE ModelDownload ---------------------------
(***************************************************************************)
(* model_download.rs: calls of download_to_path_with_progress for one      *)
(* model and one destination, by any threads and processes. A destination  *)
(* that exists is verified; otherwise the body of the response is written  *)
(* to the .partial file beside it, verified and renamed into place.        *)
(*                                                                         *)
(* Names and files are apart, as they are in a file system: a call that    *)
(* has a file open goes on with it whatever becomes of its name. Only the  *)
(* checksum tells contents apart, so a block is right or it is not.        *)
(***************************************************************************)
EXTENDS Naturals

CONSTANTS
    Downloads,     \* calls of download_to_path_with_progress
    Size           \* the blocks of the model

ASSUME ConstantsAssumption ==
    /\ Size \in Nat \ {0}
    /\ {"none", "left", "placed"} \cap Downloads = {}

VARIABLES
    destination,   \* the file of that name, "none" if there is none
    partial,       \* the file of the name partial_path
    content,       \* content[f]: the blocks of file f that are right
    pc,            \* pc[d]: what call d is at
    file,          \* file[d]: the file d has open
    done,          \* done[d]: the blocks d has written, or read, of it
    body,          \* body[d]: "right" if the server sends d the model
    raced          \* history: two calls have been under way at once

vars == <<destination, partial, content, pc, file, done, body, raced>>

\* A call makes at most one file; earlier ones may have left a .partial,
\* and anyone may have put a file at the destination.
Files == Downloads \cup {"left", "placed"}

Blocks == 1..Size

Whole(f) == content[f] = Blocks

Installed == destination # "none" /\ Whole(destination)

Init ==
    /\ destination \in {"none", "placed"}
    /\ partial \in {"none", "left"}
    /\ content \in [Files -> SUBSET Blocks]
    /\ \A f \in Files \ {partial, destination} : content[f] = {}
    /\ pc = [d \in Downloads |-> "idle"]
    /\ file = [d \in Downloads |-> "none"]
    /\ done = [d \in Downloads |-> 0]
    /\ body = [d \in Downloads |-> "right"]
    /\ raced = FALSE

Finals == {"ok", "mismatch", "not found", "aborted"}

Active(d) == pc[d] \notin Finals \cup {"idle"}

Goto(d, label) == pc' = [pc EXCEPT ![d] = label]

\* d opens f, or has it open no longer, and stands at its start.
Seek(d, f) ==
    /\ file' = [file EXCEPT ![d] = f]
    /\ done' = [done EXCEPT ![d] = 0]

-----------------------------------------------------------------------------
(* Faulty variants of operations below, used by no behaviour of Spec.      *)

\* An existing destination is trusted.
CheckDestinationTrusts(d) ==
    /\ pc[d] = "checking"
    /\ Goto(d, IF destination = "none" THEN "requesting" ELSE "ok")
    /\ UNCHANGED <<destination, partial, content, file, done, body, raced>>

\* A destination is no reason not to fetch the model.
CheckDestinationAnew(d) ==
    /\ pc[d] = "checking"
    /\ Goto(d, "requesting")
    /\ UNCHANGED <<destination, partial, content, file, done, body, raced>>

\* A .partial is taken up where it seems to end.
CreatePartialResumes(d) ==
    /\ pc[d] = "requesting"
    /\ LET f == IF partial = "none" THEN d ELSE partial IN
          /\ partial' = f
          /\ file' = [file EXCEPT ![d] = f]
          /\ done' = [done EXCEPT ![d] = IF f = d THEN 0 ELSE Size]
    /\ Goto(d, "writing")
    /\ UNCHANGED <<destination, content, body, raced>>

\* What d wrote is neither verified nor moved.
OpenPartialSkipped(d) ==
    /\ pc[d] = "written"
    /\ Goto(d, "ok")
    /\ UNCHANGED <<destination, partial, content, file, done, body, raced>>

-----------------------------------------------------------------------------
Start(d) ==
    /\ pc[d] = "idle"
    /\ Goto(d, "checking")
    /\ raced' = (raced \/ \E e \in Downloads : Active(e))
    /\ UNCHANGED <<destination, partial, content, file, done, body>>

\* destination.is_file(), and verify_sha256 opens it: nobody removes one.
CheckDestination(d) ==
    /\ pc[d] = "checking"
    /\ IF destination = "none"
         THEN Goto(d, "requesting") /\ UNCHANGED <<file, done>>
         ELSE Goto(d, "verifying destination") /\ Seek(d, destination)
    /\ UNCHANGED <<destination, partial, content, body, raced>>

\* The response has come; File::create truncates the .partial there is,
\* even while another call writes to it or hashes it, or makes one.
CreatePartial(d) ==
    /\ pc[d] = "requesting"
    /\ LET f == IF partial = "none" THEN d ELSE partial IN
          /\ partial' = f
          /\ content' = [content EXCEPT ![f] = {}]
          /\ Seek(d, f)
    /\ \E v \in {"right", "wrong"} : body' = [body EXCEPT ![d] = v]
    /\ Goto(d, "writing")
    /\ UNCHANGED <<destination, raced>>

\* A block of the body, at d's own place in the file.
WriteBlock(d) ==
    /\ pc[d] = "writing"
    /\ done[d] < Size
    /\ \/ content' = [content EXCEPT ![file[d]] = @ \cup {done[d] + 1}]
       \/ body[d] = "wrong" /\ content' = [content EXCEPT ![file[d]] = @ \ {done[d] + 1}]
    /\ done' = [done EXCEPT ![d] = @ + 1]
    /\ UNCHANGED <<destination, partial, pc, file, body, raced>>

\* read returns 0; a wrong body may end early. The file is closed.
EndOfBody(d) ==
    /\ pc[d] = "writing"
    /\ done[d] = Size \/ body[d] = "wrong"
    /\ Goto(d, "written")
    /\ UNCHANGED <<destination, partial, content, file, done, body, raced>>

\* sha256_file opens the .partial by its name: it may be gone, or another
\* file than the one d has written.
OpenPartial(d) ==
    /\ pc[d] = "written"
    /\ IF partial = "none"
         THEN Goto(d, "not found") /\ UNCHANGED <<file, done>>
         ELSE Goto(d, "verifying partial") /\ Seek(d, partial)
    /\ UNCHANGED <<destination, partial, content, body, raced>>

\* The hash is taken block by block, of what they hold when they are read.
\* One that is not right, or an early end, makes it a mismatch.
HashBlock(d) ==
    /\ pc[d] \in {"verifying partial", "verifying destination"}
    /\ done[d] < Size
    /\ IF done[d] + 1 \in content[file[d]]
         THEN done' = [done EXCEPT ![d] = @ + 1] /\ UNCHANGED pc
         ELSE Goto(d, "mismatch") /\ UNCHANGED done
    /\ UNCHANGED <<destination, partial, content, file, body, raced>>

EndOfHash(d) ==
    /\ done[d] = Size
    /\ \/ pc[d] = "verifying destination" /\ Goto(d, "ok")
       \/ pc[d] = "verifying partial" /\ Goto(d, "renaming")
    /\ UNCHANGED <<destination, partial, content, file, done, body, raced>>

\* fs::rename, by name too: it moves whatever is called .partial by now.
RenamePartial(d) ==
    /\ pc[d] = "renaming"
    /\ IF partial = "none"
         THEN Goto(d, "not found") /\ UNCHANGED <<destination, partial>>
         ELSE Goto(d, "ok") /\ destination' = partial /\ partial' = "none"
    /\ UNCHANGED <<content, file, done, body, raced>>

\* Any step fails and the call returns with its error, or on_progress
\* panics, or the process is killed: the .partial stays as it is.
Abort(d) ==
    /\ Active(d)
    /\ Goto(d, "aborted")
    /\ UNCHANGED <<destination, partial, content, file, done, body, raced>>

Finished == (\A d \in Downloads : pc[d] \in Finals) /\ UNCHANGED vars

Step(d) ==
    \/ Start(d) \/ CheckDestination(d) \/ CreatePartial(d) \/ WriteBlock(d) \/ EndOfBody(d)
    \/ OpenPartial(d) \/ HashBlock(d) \/ EndOfHash(d) \/ RenamePartial(d) \/ Abort(d)

Next == (\E d \in Downloads : Step(d)) \/ Finished

Spec == Init /\ [][Next]_vars

-----------------------------------------------------------------------------
TypeOK ==
    /\ destination \in Files \cup {"none"}
    /\ partial \in Files \cup {"none"}
    /\ content \in [Files -> SUBSET Blocks]
    /\ pc \in [Downloads -> {"idle", "checking", "requesting", "writing", "written",
                             "verifying partial", "verifying destination", "renaming"}
                            \cup Finals]
    /\ file \in [Downloads -> Files \cup {"none"}]
    /\ done \in [Downloads -> 0..Size]
    /\ body \in [Downloads -> {"right", "wrong"}]
    /\ raced \in BOOLEAN

\* While calls only follow one another, and however many of them are cut
\* short, a call that returned Ok has left a verified model: it is still
\* there after every later call.
OkMeansWhole ==
    ~raced /\ (\E d \in Downloads : pc[d] = "ok") => Installed

\* And a mismatch is no remnant of an earlier call: the server sent this
\* one something else, or somebody had put a wrong file at the destination.
MismatchIsReal ==
    \A d \in Downloads : ~raced /\ pc[d] = "mismatch" =>
        body[d] = "wrong" \/ (destination = "placed" /\ ~Whole("placed"))

\* A whole model at the destination is never lost or touched again.
WholeStays ==
    [][~raced' /\ Installed => destination' = destination /\ Installed']_vars

\* Calls that overlap spoil each other's file, and any of them may fail by
\* it. But if none is cut short, then the destination is whole once they
\* are over: whoever has truncated a file also fills it, wherever it went.
RaceHeals ==
    (\A d \in Downloads : ~Active(d) /\ pc[d] # "aborted" /\ body[d] = "right")
    /\ (\E d \in Downloads : pc[d] = "ok") => Installed

\* The README: "The downloader verifies SHA256 before moving the .partial
\* file into place". What is moved is a verified file.
MovesOnlyVerified == [][destination' # destination => Installed']_vars

-----------------------------------------------------------------------------
(* The inductive invariant the proofs use: TypeOK and these.               *)

\* d has made or emptied a .partial and is not done with it.
OnPartial(d) == pc[d] \in {"writing", "written", "verifying partial", "renaming"}

\* A file is at one name at most, and not there before its call makes it;
\* nobody ever writes to the one that was placed at the destination.
NameInv ==
    /\ partial # "none" => partial # destination /\ partial # "placed"
    /\ \A d \in Downloads :
          /\ pc[d] \in {"idle", "checking", "requesting"} =>
                d \notin {partial, destination} /\ body[d] = "right"
          /\ pc[d] = "writing" => file[d] \notin {"none", "placed"}
          /\ pc[d] = "verifying destination" =>
                /\ destination # "none"
                /\ destination = "placed" => file[d] = "placed"
                /\ file[d] = "placed" => 1..done[d] \subseteq content["placed"]
          /\ pc[d] = "ok" =>
                destination # "none" /\ (destination = "placed" => Whole("placed"))

\* What the only call under way has learnt stays true until it ends.
Learnt(d) ==
    /\ pc[d] = "requesting" \/ OnPartial(d) => destination = "none"
    /\ OnPartial(d) => partial # "none" /\ file[d] = partial
    /\ pc[d] = "verifying destination" => file[d] = destination
    /\ body[d] = "right" /\ pc[d] = "writing" => 1..done[d] \subseteq content[partial]
    /\ body[d] = "right" /\ pc[d] \in {"written", "verifying partial"} => Whole(partial)
    /\ pc[d] \in {"verifying partial", "verifying destination"} =>
          1..done[d] \subseteq content[file[d]]
    /\ pc[d] = "renaming" => Whole(partial)

AloneInv ==
    ~raced =>
        /\ \A d, e \in Downloads : Active(d) /\ Active(e) => d = e
        /\ destination \notin {"none", "placed"} => Whole(destination)
        /\ \A d \in Downloads : Learnt(d)

\* Each block of f is right, or a call is on its way to write it.
Filled(f) ==
    \A b \in Blocks \ content[f] :
        \E d \in Downloads : pc[d] = "writing" /\ file[d] = f /\ done[d] < b

\* While all is well with every call, that is so of what lies at the names.
HealInv ==
    (\A d \in Downloads : pc[d] # "aborted" /\ body[d] = "right") =>
        /\ destination \notin {"none", "placed"} => Filled(destination)
        /\ partial # "none" /\ (\E d \in Downloads : OnPartial(d)) => Filled(partial)

IInv == TypeOK /\ NameInv /\ AloneInv /\ HealInv /\ MismatchIsReal

=============================================================================
