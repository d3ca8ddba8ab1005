------------------------- MODULE RuntimeCacheProofs -------------------------
(***************************************************************************)
(* Proofs about RuntimeCache, for any builds, releases and libraries.      *)
(***************************************************************************)
EXTENDS RuntimeCache, TLAPS

-----------------------------------------------------------------------------
(* What the operations make of the names in the directory.                 *)

LEMMA ArchiveFacts ==
    ASSUME NEW r \in Releases
    PROVE  /\ DOMAIN Archive(r) = Libraries \cup {Manifest}
           /\ \A n \in Libraries \cup {Manifest} : Archive(r)[n] = r
           /\ Archive(r) \in [DOMAIN Archive(r) -> Releases]
           /\ Marker \notin DOMAIN Archive(r) /\ DOMAIN Archive(r) \subseteq Names
BY ConstantsAssumption DEF Archive, Names, Manifest, Marker, ConstantsAssumption

LEMMA WithoutFacts ==
    ASSUME NEW f, NEW m, f \in [DOMAIN f -> Releases], DOMAIN f \subseteq Names
    PROVE  /\ DOMAIN Without(f, m) = DOMAIN f \ {m}
           /\ \A n \in DOMAIN f \ {m} : Without(f, m)[n] = f[n]
           /\ Without(f, m) \in [DOMAIN Without(f, m) -> Releases]
           /\ DOMAIN Without(f, m) \subseteq Names
BY DEF Without

LEMMA FilesMarked ==
    ASSUME TypeOK, NEW r \in Releases, files' = WithMarker(files, r)
    PROVE  /\ Present' = Present \cup {Marker}
           /\ files'[Marker] = r
           /\ \A n \in Present \ {Marker} : files'[n] = files[n]
           /\ files' \in [Present' -> Releases] /\ Present' \subseteq Names
<1>1. files \in [DOMAIN files -> Releases] /\ DOMAIN files \subseteq Names
  BY DEF TypeOK, Present
<1> QED
  BY <1>1 DEF WithMarker, Names, Present

LEMMA FilesWithout ==
    ASSUME TypeOK, NEW m, files' = Without(files, m)
    PROVE  /\ Present' = Present \ {m}
           /\ \A n \in Present' : files'[n] = files[n]
           /\ files' \in [Present' -> Releases] /\ Present' \subseteq Names
BY WithoutFacts DEF TypeOK, Present

LEMMA FilesInstalled ==
    ASSUME TypeOK, NEW r \in Releases, files' = Archive(r)
    PROVE  /\ Present' = Libraries \cup {Manifest}
           /\ \A n \in Present' : files'[n] = r
           /\ files' \in [Present' -> Releases]
           /\ Marker \notin Present' /\ Present' \subseteq Names
BY ArchiveFacts DEF TypeOK, Present

\* The directory a build finds at its start: none, or a whole one.
LEMMA InitFiles ==
    ASSUME Init
    PROVE  /\ DOMAIN files \subseteq Names /\ files \in [DOMAIN files -> Releases]
           /\ owner = "nobody" => DOMAIN files = {}
           /\ \A m, n \in DOMAIN files : files[m] = files[n]
           /\ DOMAIN files = {} \/ Libraries \subseteq DOMAIN files
<1>1. CASE owner = "nobody" /\ files = [n \in {} |-> {}]
  BY <1>1
<1>2. ASSUME owner = "earlier", NEW r \in Releases, files = WithMarker(Archive(r), r)
      PROVE  /\ DOMAIN files \subseteq Names /\ files \in [DOMAIN files -> Releases]
             /\ \A m, n \in DOMAIN files : files[m] = files[n]
             /\ Libraries \subseteq DOMAIN files
  <2> DEFINE a == Archive(r)
  <2>a. /\ a \in [DOMAIN a -> Releases] /\ DOMAIN a \subseteq Names
        /\ DOMAIN a = Libraries \cup {Manifest} /\ \A n \in DOMAIN a : a[n] = r
    BY ArchiveFacts
  <2> HIDE DEF a
  <2>1. /\ DOMAIN files = Libraries \cup {Manifest, Marker}
        /\ \A n \in DOMAIN files : files[n] = r
        /\ DOMAIN files \subseteq Names /\ files \in [DOMAIN files -> Releases]
    BY <1>2, <2>a DEF a, WithMarker, Names
  <2> QED
    BY <2>1
<1> QED
  BY <1>1, <1>2 DEF Init

-----------------------------------------------------------------------------
(* Types.                                                                  *)

LEMMA TypeInit == Init => TypeOK
BY InitFiles DEF Init, TypeOK, Present

LEMMA TypeNext == TypeOK /\ [Next]_vars => TypeOK'
<1> SUFFICES ASSUME TypeOK, [Next]_vars PROVE TypeOK'
  OBVIOUS
<1> USE DEF TypeOK, Present
<1>1. ASSUME NEW p \in Builds, BuildStep(p) PROVE TypeOK'
  <2>1. CASE Start(p) \/ Look(p) \/ Match(p) \/ Offline(p) \/ Download(p) \/ InstallFails(p)
               \/ LoseRace(p)
    BY <2>1 DEF Start, Look, Match, Offline, Download, InstallFails, LoseRace, Goto
  <2>2. CASE BeginClear(p)
    BY <2>2 DEF BeginClear, Goto
  <2>3. CASE RemoveEntry(p)
    <3>1. PICK n : /\ listing' = [listing EXCEPT ![p] = @ \ {n}]
                   /\ files' = IF opened[p] = owner THEN Without(files, n) ELSE files
      BY <2>3 DEF RemoveEntry
    <3>2. /\ files' \in [Present' -> Releases] /\ Present' \subseteq Names
          /\ Present' \subseteq Present
      BY <3>1, FilesWithout
    <3> QED
      BY <2>3, <3>1, <3>2 DEF RemoveEntry
  <2>4. CASE EndClear(p)
    BY <2>4 DEF EndClear, Goto
  <2>5. CASE Install(p)
    <3>1. files' \in [Present' -> Releases] /\ Present' \subseteq Names
      BY <2>5, FilesInstalled DEF Install
    <3> QED
      BY <2>5, <3>1, ConstantsAssumption DEF Install, Goto, ConstantsAssumption
  <2>6. CASE RecordVersion(p)
    <3>1. CASE UNCHANGED files
      BY <2>6, <3>1 DEF RecordVersion, Goto
    <3>2. CASE owner # "nobody" /\ files' = WithMarker(files, release[p])
      <4>1. files' \in [Present' -> Releases] /\ Present' \subseteq Names
        BY <3>2, FilesMarked
      <4> QED
        BY <2>6, <3>2, <4>1 DEF RecordVersion, Goto
    <3> QED
      BY <2>6, <3>1, <3>2 DEF RecordVersion
  <2>7. CASE Require(p) \/ EndCopy(p)
    BY <2>7 DEF Require, EndCopy, Goto
  <2>8. CASE CopyLibrary(p)
    BY <2>8 DEF CopyLibrary, Goto, Forget
  <2> QED
    BY <1>1, <2>1, <2>2, <2>3, <2>4, <2>5, <2>6, <2>7, <2>8 DEF BuildStep
<1>2. ASSUME NEW p \in Builds, Kill(p) PROVE TypeOK'
  BY <1>2 DEF Kill, Goto, Forget
<1>3. CASE UNCHANGED vars
  BY <1>3 DEF vars
<1> QED
  BY <1>1, <1>2, <1>3 DEF Next, Finished

\* Every variable has its type in every reachable state: the cache holds
\* known names of known releases, and no directory holds nothing.
THEOREM TypeCorrect == Spec => []TypeOK
BY TypeInit, TypeNext, PTL DEF Spec

-----------------------------------------------------------------------------
(* A directory comes into being whole, and only loses names afterwards.    *)

LEMMA MixNext == TypeOK /\ NotMixed /\ [Next]_vars => NotMixed'
<1> SUFFICES ASSUME TypeOK, NotMixed, [Next]_vars PROVE NotMixed'
  OBVIOUS
<1> USE DEF NotMixed
<1>1. CASE UNCHANGED files
  BY <1>1 DEF Present
<1>2. ASSUME NEW p \in Builds, RemoveEntry(p) PROVE NotMixed'
  <2>1. PICK n : files' = IF opened[p] = owner THEN Without(files, n) ELSE files
    BY <1>2 DEF RemoveEntry
  <2> QED
    BY <2>1, FilesWithout DEF Present
<1>3. ASSUME NEW p \in Builds, Install(p) PROVE NotMixed'
  BY <1>3, FilesInstalled DEF Install, TypeOK
<1>4. ASSUME NEW p \in Builds, RecordVersion(p) PROVE NotMixed'
  BY <1>4, FilesMarked DEF RecordVersion, TypeOK, Present
<1> QED
  BY <1>1, <1>2, <1>3, <1>4
  DEF Next, BuildStep, Start, Look, Match, Offline, BeginClear, EndClear, Download, InstallFails,
      LoseRace, Require, CopyLibrary, EndCopy, Kill, Finished, vars

\* Whatever builds overlap and wherever they are killed, the libraries and
\* the manifest in the cache are of one release: extract_runtime's rename
\* is all or nothing, and remove_dir_all never adds.
THEOREM NeverMixed == Spec => []NotMixed
<1>1. Init => NotMixed
  BY InitFiles DEF NotMixed, Present
<1> QED
  BY <1>1, TypeInit, TypeNext, MixNext, PTL DEF Spec

-----------------------------------------------------------------------------
(* Builds that only follow one another.                                    *)

\* A step of the one build under way, p, leaves all others where they were.
LEMMA OthersRest ==
    ASSUME IInv, ~raced, NEW p \in Builds, Active(p)
    PROVE  \A q \in Builds \ {p} : pc[q] \in {"idle", "linked", "failed", "killed"}
BY DEF IInv, TypeOK, LoneInv, AloneInv, Active

LEMMA LoneInit == Init => LoneInv
<1> SUFFICES ASSUME Init PROVE LoneInv
  OBVIOUS
<1> QED
  BY InitFiles DEF Init, LoneInv, MarkerIsTrue, AloneInv, WholeInv, Active, Present

\* What is left to show of a step p makes alone: its own part, and the
\* cache's.
LEMMA LoneStep ==
    ASSUME IInv, TypeOK', ~raced, raced' = raced, NEW p \in Builds, Active(p),
           \A q \in Builds \ {p} : pc'[q] = pc[q] /\ linked'[q] = linked[q]
                                   /\ listing'[q] = listing[q],
           release' = release,
           MarkerIsTrue',
           pc'[p] = "clearing" =>
               opened'[p] = owner' /\ owner' # "nobody" /\ Present' \subseteq listing'[p],
           pc'[p] \in {"downloading", "installing"} => owner' = "nobody",
           pc'[p] # "losing",
           pc'[p] \in {"recording", "found", "copying"} =>
               \A n \in Present' : files'[n] = release[p],
           \A l \in linked'[p] : l[2] = release[p],
           (\A q \in Builds : pc'[q] # "killed") =>
               /\ Present' = {} \/ Libraries \subseteq Present' \/ pc'[p] = "clearing"
               /\ pc'[p] \in {"recording", "found", "copying"} => Libraries \subseteq Present'
               /\ pc'[p] \in {"copying", "linked"} =>
                     \A l \in Libraries :
                        l \in listing'[p] \/ <<l, release[p]>> \in linked'[p]
               /\ pc'[p] = "linked" => listing'[p] = {}
    PROVE  LoneInv'
<1>1. \A q \in Builds \ {p} : pc'[q] \in {"idle", "linked", "failed", "killed"}
  BY OthersRest
<1>2. AloneInv'
  <2>1. \A q, r \in Builds : Active(q)' /\ Active(r)' => q = r
    BY <1>1 DEF Active
  <2> QED
    BY <1>1, <2>1 DEF AloneInv, IInv, LoneInv
<1>3. WholeInv'
  <2>1. (\A q \in Builds : pc'[q] # "killed") => (\A q \in Builds : pc[q] # "killed")
    BY DEF Active
  <2> QED
    BY <1>1, <2>1 DEF WholeInv, IInv, LoneInv
<1> QED
  BY <1>2, <1>3 DEF LoneInv

\* What the invariants say of the one build under way.
LEMMA LoneFacts ==
    ASSUME IInv, ~raced, NEW p \in Builds, Active(p)
    PROVE  /\ pc[p] = "clearing" =>
                 opened[p] = owner /\ owner # "nobody" /\ Present \subseteq listing[p]
           /\ pc[p] \in {"downloading", "installing"} => owner = "nobody"
           /\ pc[p] # "losing"
           /\ pc[p] \in {"recording", "found", "copying"} =>
                 \A n \in Present : files[n] = release[p]
           /\ \A l \in linked[p] : l[2] = release[p]
           /\ (\A q \in Builds : pc[q] # "killed") =>
                 /\ Present = {} \/ Libraries \subseteq Present \/ pc[p] = "clearing"
                 /\ pc[p] \in {"recording", "found", "copying"} => Libraries \subseteq Present
                 /\ pc[p] = "copying" =>
                       \A l \in Libraries : l \in listing[p] \/ <<l, release[p]>> \in linked[p]
<1>1. \A q \in Builds : pc[q] = "clearing" => q = p
  BY OthersRest
<1> QED
  BY <1>1 DEF IInv, LoneInv, AloneInv, WholeInv

\* A build that starts while another is under way is the end of the premise.
LEMMA LoneStart ==
    ASSUME IInv, TypeOK', NEW p \in Builds, Start(p)
    PROVE  LoneInv'
<1>1. CASE raced'
  BY <1>1 DEF LoneInv, MarkerIsTrue, AloneInv, WholeInv
<1>2. CASE ~raced'
  <2>1. ~raced /\ \A q \in Builds : ~Active(q)
    BY <1>2 DEF Start
  <2>2. /\ pc[p] = "idle" /\ pc' = [pc EXCEPT ![p] = "looking"]
        /\ UNCHANGED <<owner, files, release, opened, listing, linked>>
    BY DEF Start, Goto
  <2>3. \A q \in Builds \ {p} : pc'[q] = pc[q] /\ pc[q] \in {"idle", "linked", "failed", "killed"}
    BY <2>1, <2>2 DEF IInv, TypeOK, Active
  <2>4. pc'[p] = "looking"
    BY <2>2 DEF IInv, TypeOK
  <2>5. MarkerIsTrue'
    BY <2>1, <2>2 DEF IInv, LoneInv, MarkerIsTrue, Present
  <2>6. AloneInv'
    BY <2>1, <2>2, <2>3, <2>4 DEF IInv, LoneInv, AloneInv, Active, Present
  <2>7. WholeInv'
    <3>1. (\A q \in Builds : pc'[q] # "killed") => \A q \in Builds : pc[q] # "killed"
      BY <2>2, <2>3
    <3>2. \A q \in Builds : pc[q] # "clearing"
      BY <2>1 DEF Active
    <3> QED
      BY <2>1, <2>2, <2>3, <2>4, <3>1, <3>2 DEF IInv, LoneInv, WholeInv, Present
  <2> QED
    BY <2>5, <2>6, <2>7 DEF LoneInv
<1> QED
  BY <1>1, <1>2

\* The steps of a lone build that leave the cache alone.
LEMMA LoneReads ==
    ASSUME IInv, TypeOK', ~raced, NEW p \in Builds,
           \/ Look(p) \/ Match(p) \/ Offline(p) \/ BeginClear(p) \/ Download(p)
           \/ InstallFails(p) \/ LoseRace(p) \/ Require(p) \/ CopyLibrary(p) \/ EndCopy(p)
           \/ Kill(p)
    PROVE  LoneInv'
<1>1. Active(p)
  BY DEF Active, Look, Match, Offline, BeginClear, Download, InstallFails, LoseRace, Require,
         CopyLibrary, EndCopy, Kill
<1>2. UNCHANGED <<owner, files, release, raced>> /\ Present' = Present
  BY DEF Look, Match, Offline, BeginClear, Download, InstallFails, LoseRace, Require,
         CopyLibrary, EndCopy, Kill, Present
<1>3. MarkerIsTrue'
  BY <1>2 DEF IInv, LoneInv, MarkerIsTrue
<1>4. /\ pc \in [Builds -> {"idle", "looking", "matching", "fetching", "clearing", "downloading",
                          "installing", "losing", "recording", "found", "copying",
                          "linked", "failed", "killed"}]
      /\ linked \in [Builds -> SUBSET (Libraries \X Releases)]
      /\ opened \in [Builds -> Builds \cup {"earlier", "nobody"}]
      /\ listing \in [Builds -> SUBSET Names]
      /\ owner = "nobody" => Present = {}
  BY DEF IInv, TypeOK
<1> USE LoneFacts, <1>1, <1>2, <1>3, <1>4
<1>5. CASE Look(p) \/ Offline(p) \/ Download(p)
  BY <1>5, LoneStep DEF Look, Offline, Download, Goto
<1>6. CASE Match(p)
  <2>1. VersionMatches(p) => \A n \in Present : files[n] = release[p]
    BY DEF VersionMatches, IInv, LoneInv, MarkerIsTrue
  <2>2. VersionMatches(p) => Present # {}
    BY DEF VersionMatches
  <2> QED
    BY <1>6, <2>1, <2>2, LoneStep DEF Match, Goto
<1>7. CASE BeginClear(p)
  BY <1>7, LoneStep DEF BeginClear, Goto
<1>8. CASE InstallFails(p) \/ LoseRace(p)
  BY <1>8 DEF InstallFails, LoseRace
<1>9. CASE Require(p)
  BY <1>9, LoneStep DEF Require, Goto
<1>10. CASE CopyLibrary(p)
  <2>1. PICK l \in listing[p] \cap Libraries :
           IF l \in Present
             THEN /\ listing' = [listing EXCEPT ![p] = @ \ {l}]
                  /\ linked' = [linked EXCEPT ![p] = @ \cup {<<l, files[l]>>}]
                  /\ UNCHANGED pc
             ELSE Goto(p, "failed") /\ Forget(p)
    BY <1>10 DEF CopyLibrary
  <2>2. pc[p] = "copying" /\ opened' = opened
    BY <1>10 DEF CopyLibrary
  <2>3. CASE l \in Present
    <3>1. /\ pc' = pc /\ listing'[p] = listing[p] \ {l}
          /\ linked'[p] = linked[p] \cup {<<l, release[p]>>}
          /\ \A q \in Builds \ {p} : linked'[q] = linked[q] /\ listing'[q] = listing[q]
      BY <2>1, <2>2, <2>3
    <3>2. \A k \in linked'[p] : k[2] = release[p]
      BY <3>1
    <3>3. (\A q \in Builds : pc'[q] # "killed") =>
             \A k \in Libraries : k \in listing'[p] \/ <<k, release[p]>> \in linked'[p]
      BY <2>2, <3>1
    <3> QED
      BY <2>2, <2>3, <3>1, <3>2, <3>3, LoneStep
  <2>4. CASE l \notin Present
    BY <2>1, <2>2, <2>4, LoneStep DEF Goto, Forget
  <2> QED
    BY <2>3, <2>4
<1>11. CASE EndCopy(p)
  BY <1>11, LoneStep DEF EndCopy, Goto
<1>12. CASE Kill(p)
  BY <1>12, LoneStep DEF Kill, Goto, Forget
<1> QED
  BY <1>5, <1>6, <1>7, <1>8, <1>9, <1>10, <1>11, <1>12

\* And those that change it.
LEMMA LoneWrites ==
    ASSUME IInv, TypeOK', ~raced, NEW p \in Builds,
           RemoveEntry(p) \/ EndClear(p) \/ Install(p) \/ RecordVersion(p)
    PROVE  LoneInv'
<1>1. Active(p)
  BY DEF Active, RemoveEntry, EndClear, Install, RecordVersion
<1>2. UNCHANGED <<release, linked, raced>>
  BY DEF RemoveEntry, EndClear, Install, RecordVersion
<1>3. /\ TypeOK /\ pc \in [Builds -> {"idle", "looking", "matching", "fetching", "clearing", "downloading",
                          "installing", "losing", "recording", "found", "copying",
                          "linked", "failed", "killed"}] /\ release[p] \in Releases
      /\ opened \in [Builds -> Builds \cup {"earlier", "nobody"}]
      /\ listing \in [Builds -> SUBSET Names]
      /\ owner = "nobody" => Present = {}
  BY DEF IInv, TypeOK
<1> USE LoneFacts, <1>1, <1>2, <1>3
<1>4. CASE RemoveEntry(p)
  <2>1. PICK n : /\ listing' = [listing EXCEPT ![p] = @ \ {n}]
                 /\ files' = IF opened[p] = owner THEN Without(files, n) ELSE files
    BY <1>4 DEF RemoveEntry
  <2>2. pc[p] = "clearing" /\ UNCHANGED <<owner, pc, opened>>
    BY <1>4 DEF RemoveEntry
  <2>3. Present' = Present \ {n} /\ \A m \in Present' : files'[m] = files[m]
    BY <2>1, <2>2, FilesWithout
  <2>4. MarkerIsTrue'
    BY <2>3 DEF IInv, LoneInv, MarkerIsTrue
  <2> QED
    BY <2>1, <2>2, <2>3, <2>4, LoneStep
<1>5. CASE EndClear(p)
  <2>1. Present = {}
    BY <1>5 DEF EndClear
  <2>2. Present' = {} /\ MarkerIsTrue'
    BY <1>5, <2>1 DEF EndClear, Present, MarkerIsTrue
  <2> QED
    BY <1>5, <2>1, <2>2, LoneStep DEF EndClear, Goto
<1>6. CASE Install(p)
  <2>1. Present' = Libraries \cup {Manifest} /\ \A n \in Present' : files'[n] = release[p]
    BY <1>6, FilesInstalled DEF Install
  <2>2. MarkerIsTrue'
    BY <2>1 DEF MarkerIsTrue
  <2> QED
    BY <1>6, <2>1, <2>2, LoneStep DEF Install, Goto
<1>7. CASE RecordVersion(p)
  <2>1. pc[p] = "recording" /\ \A n \in Present : files[n] = release[p]
    BY <1>7 DEF RecordVersion
  <2>2. /\ \A n \in Present' : files'[n] = release[p]
        /\ Present \subseteq Present'
    <3>1. CASE UNCHANGED files
      BY <2>1, <3>1 DEF Present
    <3>2. CASE files' = WithMarker(files, release[p])
      BY <2>1, <3>2, FilesMarked
    <3> QED
      BY <1>7, <3>1, <3>2 DEF RecordVersion
  <2>3. MarkerIsTrue'
    BY <2>2 DEF MarkerIsTrue
  <2> QED
    BY <1>7, <2>1, <2>2, <2>3, LoneStep DEF RecordVersion, Goto
<1> QED
  BY <1>4, <1>5, <1>6, <1>7

LEMMA LoneNext == IInv /\ TypeOK' /\ [Next]_vars => LoneInv'
<1> SUFFICES ASSUME IInv, TypeOK', [Next]_vars PROVE LoneInv'
  OBVIOUS
<1>1. ASSUME NEW p \in Builds, BuildStep(p) \/ Kill(p) PROVE LoneInv'
  <2>1. CASE Start(p)
    BY <2>1, LoneStart
  <2>2. CASE ~Start(p) /\ raced
    <3>1. raced'
      BY <1>1, <2>2 DEF BuildStep, Look, Match, Offline, BeginClear, RemoveEntry, EndClear,
         Download, Install, InstallFails, LoseRace, RecordVersion, Require, CopyLibrary,
         EndCopy, Kill
    <3> QED
      BY <3>1 DEF LoneInv, MarkerIsTrue, AloneInv, WholeInv
  <2>3. CASE ~Start(p) /\ ~raced
    BY <1>1, <2>3, LoneReads, LoneWrites DEF BuildStep
  <2> QED
    BY <2>1, <2>2, <2>3
<1>2. CASE UNCHANGED vars
  BY <1>2 DEF vars, IInv, LoneInv, MarkerIsTrue, AloneInv, WholeInv, Active, Present
<1> QED
  BY <1>1, <1>2 DEF Next, Finished

\* The inductive invariant: types, whole copies, and, until two builds
\* overlap, everything the one build under way has learnt of the cache.
THEOREM LoneInvariant == Spec => []IInv
<1>1. Init => IInv
  BY TypeInit, LoneInit, InitFiles DEF IInv, Init, NotMixed, Present
<1>2. IInv /\ [Next]_vars => IInv'
  BY TypeNext, MixNext, LoneNext DEF IInv
<1> QED
  BY <1>1, <1>2, PTL DEF Spec

\* While builds only follow one another, wherever they are killed,
\* .fetched-version names the release of the files it lies beside.
THEOREM MarkerTrue == Spec => []MarkerIsTrue
<1>1. IInv => MarkerIsTrue
  BY DEF IInv, LoneInv
<1> QED
  BY <1>1, LoneInvariant, PTL

\* Then a build links no library but its own release's, and all of them
\* unless some build was killed.
THEOREM LoneBuildLinksOwn == Spec => []LoneLinksOwn
<1>1. IInv => LoneLinksOwn
  <2> SUFFICES ASSUME IInv, NEW p \in Builds, ~raced, pc[p] = "linked"
               PROVE  /\ \A l \in linked[p] : l[2] = release[p]
                      /\ (\A q \in Builds : pc[q] # "killed") =>
                            linked[p] = Libraries \X {release[p]}
    BY DEF LoneLinksOwn
  <2>1. /\ linked[p] \subseteq Libraries \X Releases /\ release[p] \in Releases
        /\ \A l \in linked[p] : l[2] = release[p]
    BY DEF IInv, TypeOK, LoneInv, AloneInv
  <2>2. ASSUME \A q \in Builds : pc[q] # "killed"
        PROVE  \A l \in Libraries : <<l, release[p]>> \in linked[p]
    BY <2>2 DEF IInv, LoneInv, WholeInv
  <2> QED
    BY <2>1, <2>2
<1> QED
  BY <1>1, LoneInvariant, PTL

=============================================================================
