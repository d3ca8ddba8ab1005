---------------------------- MODULE RuntimeCache ----------------------------
(***************************************************************************)
(* litert-lm-edge-sys/build.rs: the build scripts that share one cache     *)
(* directory of the native runtime. A build links what it finds there if   *)
(* the marker names its own release; otherwise it clears the directory,    *)
(* unpacks its own copy beside it, renames that into place and writes the  *)
(* marker.                                                                 *)
(*                                                                         *)
(* Cargo holds one lock per profile, and every profile shares the cache,   *)
(* so builds of one release overlap; LITERT_LM_RUNTIME_CACHE_DIR makes     *)
(* checkouts of several releases share it too. The system feature and a    *)
(* populated vendor directory do without the cache and are not modelled.   *)
(* A download and a staging directory carry the process id in their names: *)
(* they are private, and what happens in them is one step here.            *)
(***************************************************************************)
EXTENDS FiniteSets

CONSTANTS
    Builds,        \* runs of the build script
    Releases,      \* values of CARGO_PKG_VERSION
    Libraries,     \* the files is_runtime_library accepts
    Required,      \* those require_runtime_file asks for
    MayBeKilled    \* TRUE when a build may die at any point, see Kill

ASSUME ConstantsAssumption ==
    /\ Required \subseteq Libraries /\ Required # {}
    /\ {"SHA256SUMS", ".fetched-version"} \cap Libraries = {}
    /\ {"earlier", "nobody"} \cap Builds = {}
    /\ MayBeKilled \in BOOLEAN

Manifest == "SHA256SUMS"
Marker == ".fetched-version"      \* FETCHED_VERSION_MARKER
Names == Libraries \cup {Manifest, Marker}

VARIABLES
    owner,      \* the build that made the directory; "nobody": no directory
    files,      \* the release each file in it is of (for the marker: names)
    release,    \* release[p]: the release p builds
    pc,         \* pc[p]: what p is at
    opened,     \* opened[p]: the owner of the directory p has open
    listing,    \* listing[p]: names p has read from it and not yet handled
    linked,     \* linked[p]: the <<library, release>> p has copied
    raced       \* history: two builds have been under way at once

vars == <<owner, files, release, pc, opened, listing, linked, raced>>

Present == DOMAIN files

\* What an archive of release r holds; the marker is written later.
Archive(r) == [n \in Libraries \cup {Manifest} |-> r]

WithMarker(f, r) ==
    [n \in DOMAIN f \cup {Marker} |-> IF n = Marker THEN r ELSE f[n]]

Without(f, n) == [m \in DOMAIN f \ {n} |-> f[m]]

\* No cache yet, or one that an earlier build has left.
Init ==
    /\ \/ owner = "nobody" /\ files = [n \in {} |-> {}]
       \/ owner = "earlier" /\ \E r \in Releases : files = WithMarker(Archive(r), r)
    /\ release \in [Builds -> Releases]
    /\ pc = [p \in Builds |-> "idle"]
    /\ opened = [p \in Builds |-> "nobody"]
    /\ listing = [p \in Builds |-> {}]
    /\ linked = [p \in Builds |-> {}]
    /\ raced = FALSE

\* is_populated_runtime_dir: the manifest or any library.
Populated == Present \ {Marker} # {}

\* cached_version_matches
VersionMatches(p) == Marker \in Present /\ files[Marker] = release[p]

Goto(p, label) == pc' = [pc EXCEPT ![p] = label]

\* p is over and has linked nothing.
Forget(p) ==
    /\ listing' = [listing EXCEPT ![p] = {}]
    /\ linked' = [linked EXCEPT ![p] = {}]

Active(p) == pc[p] \notin {"idle", "linked", "failed", "killed"}

-----------------------------------------------------------------------------
(* Faulty variants of operations below, used by no behaviour of Spec.      *)

\* The cache of a populated directory is never looked at.
MatchAlways(p) ==
    /\ pc[p] = "matching"
    /\ Goto(p, "found")
    /\ UNCHANGED <<owner, files, release, opened, listing, linked, raced>>

\* The archive is unpacked into the directory itself.
InstallInPlace(p) ==
    /\ pc[p] = "installing"
    /\ owner' = IF owner = "nobody" THEN p ELSE owner
    /\ \E N \in SUBSET (Libraries \cup {Manifest}) :
          files' = [n \in Present \cup N |-> IF n \in N THEN release[p] ELSE files[n]]
    /\ Goto(p, "recording")
    /\ UNCHANGED <<release, opened, listing, linked, raced>>

-----------------------------------------------------------------------------
(* resolve_runtime_dir and fetch_runtime.                                  *)

Start(p) ==
    /\ pc[p] = "idle"
    /\ Goto(p, "looking")
    /\ raced' = (raced \/ \E q \in Builds : Active(q))
    /\ UNCHANGED <<owner, files, release, opened, listing, linked>>

Look(p) ==
    /\ pc[p] = "looking"
    /\ Goto(p, IF Populated THEN "matching" ELSE "fetching")
    /\ UNCHANGED <<owner, files, release, opened, listing, linked, raced>>

\* The marker is read; one that is gone does not match.
Match(p) ==
    /\ pc[p] = "matching"
    /\ Goto(p, IF VersionMatches(p) THEN "found" ELSE "fetching")
    /\ UNCHANGED <<owner, files, release, opened, listing, linked, raced>>

\* Downloads are disabled: a panic before the cache is touched.
Offline(p) ==
    /\ pc[p] = "fetching"
    /\ Goto(p, "failed")
    /\ UNCHANGED <<owner, files, release, opened, listing, linked, raced>>

\* destination.exists(), and remove_dir_all begins with whatever directory
\* is there by now.
BeginClear(p) ==
    /\ pc[p] = "fetching"
    /\ IF owner = "nobody"
         THEN Goto(p, "downloading") /\ UNCHANGED <<opened, listing>>
         ELSE /\ Goto(p, "clearing")
              /\ opened' = [opened EXCEPT ![p] = owner]
              /\ listing' = [listing EXCEPT ![p] = Present]
    /\ UNCHANGED <<owner, files, release, linked, raced>>

\* It removes the names one by one, through the directory it has open. A
\* name that was added meanwhile may be read too, or not.
RemoveEntry(p) ==
    /\ pc[p] = "clearing"
    /\ \E n \in listing[p] \cup (IF opened[p] = owner THEN Present ELSE {}) :
          /\ listing' = [listing EXCEPT ![p] = @ \ {n}]
          /\ files' = IF opened[p] = owner THEN Without(files, n) ELSE files
    /\ UNCHANGED <<owner, release, pc, opened, linked, raced>>

\* Then the directory, by its path: NotFound is as good, and a directory
\* that is not empty is a panic.
EndClear(p) ==
    /\ pc[p] = "clearing"
    /\ listing[p] = {}
    /\ Goto(p, IF Present = {} THEN "downloading" ELSE "failed")
    /\ owner' = IF Present = {} THEN "nobody" ELSE owner
    /\ opened' = [opened EXCEPT ![p] = "nobody"]
    /\ UNCHANGED <<files, release, listing, linked, raced>>

\* download, verify_archive_checksum and extract_runtime up to its rename.
Download(p) ==
    /\ pc[p] = "downloading"
    /\ Goto(p, "installing") \/ Goto(p, "failed")
    /\ UNCHANGED <<owner, files, release, opened, listing, linked, raced>>

\* rename to a path that is free. Some systems let it replace an empty
\* directory.
Install(p) ==
    /\ pc[p] = "installing"
    /\ Present = {}
    /\ owner' = p
    /\ files' = Archive(release[p])
    /\ Goto(p, "recording")
    /\ UNCHANGED <<release, opened, listing, linked, raced>>

InstallFails(p) ==
    /\ pc[p] = "installing"
    /\ owner # "nobody"
    /\ Goto(p, "losing")
    /\ UNCHANGED <<owner, files, release, opened, listing, linked, raced>>

\* "Another build script won the race": its copy is kept, or a panic.
LoseRace(p) ==
    /\ pc[p] = "losing"
    /\ Goto(p, IF Populated THEN "recording" ELSE "failed")
    /\ UNCHANGED <<owner, files, release, opened, listing, linked, raced>>

\* record_fetched_version: where the marker cannot be written, in no
\* directory above all, there is only a warning.
RecordVersion(p) ==
    /\ pc[p] = "recording"
    /\ \/ owner # "nobody" /\ files' = WithMarker(files, release[p])
       \/ UNCHANGED files
    /\ Goto(p, "found")
    /\ UNCHANGED <<owner, release, opened, listing, linked, raced>>

-----------------------------------------------------------------------------
(* link_vendor_...: the runtime is used.                                   *)

\* require_runtime_file, and read_dir of copy_vendor_runtimes_to_target_dirs.
Require(p) ==
    /\ pc[p] = "found"
    /\ Goto(p, IF Required \subseteq Present THEN "copying" ELSE "failed")
    /\ listing' = [listing EXCEPT ![p] = IF Required \subseteq Present THEN Present ELSE @]
    /\ UNCHANGED <<owner, files, release, opened, linked, raced>>

\* A library is copied beside the binaries; one that is gone is a panic.
\* The three directories it is copied to are one here.
CopyLibrary(p) ==
    /\ pc[p] = "copying"
    /\ \E l \in listing[p] \cap Libraries :
          IF l \in Present
            THEN /\ listing' = [listing EXCEPT ![p] = @ \ {l}]
                 /\ linked' = [linked EXCEPT ![p] = @ \cup {<<l, files[l]>>}]
                 /\ UNCHANGED pc
            ELSE Goto(p, "failed") /\ Forget(p)
    /\ UNCHANGED <<owner, files, release, opened, raced>>

EndCopy(p) ==
    /\ pc[p] = "copying"
    /\ listing[p] \cap Libraries = {}
    /\ Goto(p, "linked")
    /\ listing' = [listing EXCEPT ![p] = {}]
    /\ UNCHANGED <<owner, files, release, opened, linked, raced>>

-----------------------------------------------------------------------------
\* Cargo is interrupted, or an operation on a file fails and p panics where
\* no action above does.
Kill(p) ==
    /\ MayBeKilled
    /\ Active(p)
    /\ Goto(p, "killed")
    /\ opened' = [opened EXCEPT ![p] = "nobody"]
    /\ Forget(p)
    /\ UNCHANGED <<owner, files, release, raced>>

Finished == (\A p \in Builds : pc[p] # "idle" /\ ~Active(p)) /\ UNCHANGED vars

BuildStep(p) ==
    \/ Start(p) \/ Look(p) \/ Match(p) \/ Offline(p)
    \/ BeginClear(p) \/ RemoveEntry(p) \/ EndClear(p)
    \/ Download(p) \/ Install(p) \/ InstallFails(p) \/ LoseRace(p) \/ RecordVersion(p)
    \/ Require(p) \/ CopyLibrary(p) \/ EndCopy(p)

Next == (\E p \in Builds : BuildStep(p) \/ Kill(p)) \/ Finished

Spec == Init /\ [][Next]_vars

-----------------------------------------------------------------------------
TypeOK ==
    /\ owner \in Builds \cup {"earlier", "nobody"}
    /\ Present \subseteq Names /\ files \in [Present -> Releases]
    /\ release \in [Builds -> Releases]
    /\ pc \in [Builds -> {"idle", "looking", "matching", "fetching", "clearing", "downloading",
                          "installing", "losing", "recording", "found", "copying",
                          "linked", "failed", "killed"}]
    /\ opened \in [Builds -> Builds \cup {"earlier", "nobody"}]
    /\ listing \in [Builds -> SUBSET Names]
    /\ linked \in [Builds -> SUBSET (Libraries \X Releases)]
    /\ raced \in BOOLEAN
    /\ owner = "nobody" => Present = {}

\* The libraries and the manifest in the cache are of one release, however
\* many builds of whatever releases clear and fill it, and wherever they
\* are killed.
NotMixed == \A m, n \in Present \ {Marker} : files[m] = files[n]

\* While builds only follow one another, killed ones among them, the marker
\* names the release of what it lies beside.
MarkerIsTrue == ~raced /\ Marker \in Present => \A n \in Present : files[n] = files[Marker]

\* Then a build links its own release; and the whole of it, unless a build
\* was killed, which may have been in the middle of clearing the cache.
LoneLinksOwn ==
    \A p \in Builds : ~raced /\ pc[p] = "linked" =>
        /\ \A l \in linked[p] : l[2] = release[p]
        /\ (\A q \in Builds : pc[q] # "killed") => linked[p] = Libraries \X {release[p]}

\* The README: "an upgrade never keeps linking the previous release's
\* native libraries", no matter which builds overlap.
LinksOwn == \A p \in Builds : pc[p] = "linked" => \A l \in linked[p] : l[2] = release[p]

-----------------------------------------------------------------------------
(* What the proofs use besides TypeOK: all a build has learnt of the cache *)
(* stays true as long as it is the only one.                               *)

AloneInv ==
    ~raced =>
        /\ \A p, q \in Builds : Active(p) /\ Active(q) => p = q
        /\ \A p \in Builds :
              /\ pc[p] = "clearing" =>
                    opened[p] = owner /\ owner # "nobody" /\ Present \subseteq listing[p]
              /\ pc[p] \in {"downloading", "installing"} => owner = "nobody"
              /\ pc[p] # "losing"
              /\ pc[p] \in {"recording", "found", "copying"} =>
                    \A n \in Present : files[n] = release[p]
              /\ \A l \in linked[p] : l[2] = release[p]

\* With nobody killed the cache is whole, but for the build that clears it.
WholeInv ==
    ~raced /\ (\A p \in Builds : pc[p] # "killed") =>
        /\ Present = {} \/ Libraries \subseteq Present \/ \E p \in Builds : pc[p] = "clearing"
        /\ \A p \in Builds :
              /\ pc[p] \in {"recording", "found", "copying"} => Libraries \subseteq Present
              /\ pc[p] \in {"copying", "linked"} =>
                    \A l \in Libraries : l \in listing[p] \/ <<l, release[p]>> \in linked[p]
              /\ pc[p] = "linked" => listing[p] = {}

LoneInv == MarkerIsTrue /\ AloneInv /\ WholeInv

IInv == TypeOK /\ NotMixed /\ LoneInv

=============================================================================
