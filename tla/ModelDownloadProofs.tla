------------------------ MODULE ModelDownloadProofs ------------------------
(***************************************************************************)
(* Proofs about ModelDownload, for any calls and any size of the model.    *)
(***************************************************************************)
EXTENDS ModelDownload, TLAPS

LEMMA TypeInit == Init => TypeOK
<1> SUFFICES ASSUME Init PROVE TypeOK
  OBVIOUS
<1>1. done \in [Downloads -> 0..Size]
  BY ConstantsAssumption DEF Init, ConstantsAssumption
<1> QED
  BY <1>1 DEF Init, TypeOK, Files

\* The place of a call in its file, and the one after it.
LEMMA Place ==
    ASSUME TypeOK, NEW d \in Downloads
    PROVE  /\ Size \in Nat /\ 0 \in 0..Size /\ done[d] \in Nat /\ done[d] <= Size
           /\ done[d] < Size => done[d] + 1 \in 0..Size /\ done[d] + 1 \in Blocks
           /\ 1..0 = {} /\ 1..Size = Blocks
           /\ 1..(done[d] + 1) = 1..done[d] \cup {done[d] + 1}
<1>1. Size \in Nat /\ done[d] \in 0..Size
  BY ConstantsAssumption DEF ConstantsAssumption, TypeOK
<1>2. /\ 1..0 = {} /\ 1..Size = Blocks
      /\ 1..(done[d] + 1) = 1..done[d] \cup {done[d] + 1}
  BY <1>1 DEF Blocks
<1> QED
  BY <1>1, <1>2 DEF Blocks

LEMMA TypeNext == TypeOK /\ [Next]_vars => TypeOK'
<1> SUFFICES ASSUME TypeOK, [Next]_vars PROVE TypeOK'
  OBVIOUS
<1> USE DEF TypeOK, Goto, Seek
<1>1. ASSUME NEW d \in Downloads, Step(d) PROVE TypeOK'
  <2>a. 0 \in 0..Size /\ (done[d] < Size => done[d] + 1 \in 0..Size /\ done[d] + 1 \in Blocks)
    BY Place
  <2>b. d \in Files
    BY DEF Files
  <2>1. CASE Start(d)
    BY <2>1 DEF Start
  <2>2. CASE CheckDestination(d)
    BY <2>2, <2>a DEF CheckDestination
  <2>3. CASE CreatePartial(d)
    <3>1. PICK f \in Files : /\ partial' = f
                             /\ content' = [content EXCEPT ![f] = {}]
                             /\ Seek(d, f)
      BY <2>3, <2>b DEF CreatePartial
    <3>2. body' \in [Downloads -> {"right", "wrong"}]
      BY <2>3 DEF CreatePartial
    <3>3. content' \in [Files -> SUBSET Blocks]
      BY <3>1
    <3>4. pc' = [pc EXCEPT ![d] = "writing"] /\ destination' = destination /\ raced' = raced
      BY <2>3 DEF CreatePartial
    <3> QED
      BY <3>1, <3>2, <3>3, <3>4, <2>a
  <2>4. CASE WriteBlock(d)
    <3>1. content' \in [Files -> SUBSET Blocks]
      <4>1. CASE content' = [content EXCEPT ![file[d]] = @ \cup {done[d] + 1}]
        BY <2>4, <4>1, <2>a DEF WriteBlock
      <4>2. CASE content' = [content EXCEPT ![file[d]] = @ \ {done[d] + 1}]
        BY <4>2
      <4> QED
        BY <2>4, <4>1, <4>2 DEF WriteBlock
    <3> QED
      BY <2>4, <3>1, <2>a DEF WriteBlock
  <2>5. CASE EndOfBody(d) \/ EndOfHash(d) \/ Abort(d)
    BY <2>5 DEF EndOfBody, EndOfHash, Abort, Finals
  <2>6. CASE OpenPartial(d)
    BY <2>6, <2>a DEF OpenPartial, Finals
  <2>7. CASE HashBlock(d)
    BY <2>7, <2>a DEF HashBlock, Finals
  <2>8. CASE RenamePartial(d)
    BY <2>8 DEF RenamePartial, Finals
  <2> QED
    BY <1>1, <2>1, <2>2, <2>3, <2>4, <2>5, <2>6, <2>7, <2>8 DEF Step
<1>2. CASE UNCHANGED vars \/ Finished
  BY <1>2 DEF vars, Finished
<1> QED
  BY <1>1, <1>2 DEF Next

-----------------------------------------------------------------------------
(* Names.                                                                  *)

LEMMA NameInit == Init => NameInv
BY ConstantsAssumption DEF Init, NameInv, ConstantsAssumption

LEMMA NameNext == TypeOK /\ TypeOK' /\ NameInv /\ [Next]_vars => NameInv'
<1> SUFFICES ASSUME TypeOK, TypeOK', NameInv, [Next]_vars PROVE NameInv'
  OBVIOUS
<1> USE DEF NameInv, Goto, Seek
<1>1. ASSUME NEW d \in Downloads, Step(d) PROVE NameInv'
  <2>a. \A e \in Downloads : e \notin {"none", "left", "placed"}
    BY ConstantsAssumption DEF ConstantsAssumption
  <2>b. /\ pc \in [Downloads -> {"idle", "checking", "requesting", "writing", "written",
                             "verifying partial", "verifying destination", "renaming"}
                            \cup Finals]
        /\ file \in [Downloads -> Files \cup {"none"}]
        /\ done \in [Downloads -> 0..Size] /\ body \in [Downloads -> {"right", "wrong"}]
        /\ content \in [Files -> SUBSET Blocks]
    BY DEF TypeOK
  <2>c. 1..0 = {} /\ "placed" \in Files
    BY Place DEF Files
  <2>1. CASE Start(d)
    BY <2>1, <2>b DEF Start, Whole
  <2>2. CASE CheckDestination(d)
    BY <2>2, <2>a, <2>b, <2>c DEF CheckDestination, Whole
  <2>3. CASE CreatePartial(d)
    <3>1. PICK f \in Files : /\ f = IF partial = "none" THEN d ELSE partial
                             /\ partial' = f
                             /\ content' = [content EXCEPT ![f] = {}]
                             /\ Seek(d, f)
      BY <2>3 DEF CreatePartial, Files, TypeOK
    <3>2. f \notin {"none", "placed"} /\ f # destination
      BY <2>3, <3>1, <2>a DEF CreatePartial
    <3>3. \A e \in Downloads \ {d} :
             /\ pc'[e] = pc[e] /\ file'[e] = file[e] /\ done'[e] = done[e]
             /\ body'[e] = body[e]
      BY <2>3, <3>1, <2>b DEF CreatePartial
    <3>4. pc'[d] = "writing" /\ file'[d] = f /\ destination' = destination
      BY <2>3, <3>1, <2>b DEF CreatePartial
    <3>5. content'["placed"] = content["placed"]
      BY <3>1, <3>2, <2>b, <2>c
    <3>6. \A e \in Downloads \ {d} :
             pc[e] \in {"idle", "checking", "requesting"} => e \notin {f, destination}
      BY <3>1
    <3> QED
      BY <3>1, <3>2, <3>3, <3>4, <3>5, <3>6 DEF Whole
  <2>4. CASE WriteBlock(d)
    <3>1. content'["placed"] = content["placed"]
      BY <2>4, <2>b, <2>c DEF WriteBlock
    <3>2. \A e \in Downloads : pc[e] # "writing" => done'[e] = done[e]
      BY <2>4, <2>b DEF WriteBlock
    <3>3. UNCHANGED <<destination, partial, pc, file, body>>
      BY <2>4 DEF WriteBlock
    <3> QED
      BY <3>1, <3>2, <3>3 DEF Whole
  <2>5. CASE EndOfBody(d) \/ Abort(d)
    BY <2>5, <2>b DEF EndOfBody, Abort, Whole
  <2>6. CASE OpenPartial(d)
    BY <2>6, <2>b DEF OpenPartial, Whole
  <2>7. CASE HashBlock(d)
    <3>1. UNCHANGED <<destination, partial, content, file, body>>
      BY <2>7 DEF HashBlock
    <3>2. \A e \in Downloads \ {d} : pc'[e] = pc[e] /\ done'[e] = done[e]
      BY <2>7, <2>b DEF HashBlock
    <3>3. /\ pc'[d] \in {pc[d], "mismatch"} /\ pc[d] \notin {"writing", "ok"}
          /\ pc[d] \notin {"idle", "checking", "requesting"}
      BY <2>7, <2>b DEF HashBlock
    <3>4. pc'[d] = "verifying destination" =>
             done'[d] = done[d] + 1 /\ done[d] + 1 \in content[file[d]]
      BY <2>7, <2>b DEF HashBlock
    <3>5. 1..(done[d] + 1) = 1..done[d] \cup {done[d] + 1}
      BY Place
    <3> QED
      BY <3>1, <3>2, <3>3, <3>4, <3>5 DEF Whole
  <2>8. CASE EndOfHash(d)
    <3>1. UNCHANGED <<destination, partial, content, file, done, body>> /\ done[d] = Size
      BY <2>8 DEF EndOfHash
    <3>2. \A e \in Downloads \ {d} : pc'[e] = pc[e]
      BY <2>8, <2>b DEF EndOfHash
    <3>3. pc'[d] \in {"ok", "renaming"} /\ (pc'[d] = "ok" => pc[d] = "verifying destination")
      BY <2>8, <2>b DEF EndOfHash
    <3>4. destination = "placed" /\ pc'[d] = "ok" => Whole("placed")
      BY <3>1, <3>3, <2>b, <2>c DEF Whole, Blocks
    <3> QED
      BY <3>1, <3>2, <3>3, <3>4 DEF Whole
  <2>9. CASE RenamePartial(d)
    BY <2>9, <2>a, <2>b DEF RenamePartial, Whole
  <2> QED
    BY <1>1, <2>1, <2>2, <2>3, <2>4, <2>5, <2>6, <2>7, <2>8, <2>9 DEF Step
<1>2. CASE UNCHANGED vars \/ Finished
  BY <1>2 DEF vars, Finished, Whole
<1> QED
  BY <1>1, <1>2 DEF Next

-----------------------------------------------------------------------------
(* Calls that follow one another.                                          *)

LEMMA AloneInit == Init => AloneInv /\ MismatchIsReal
BY DEF Init, AloneInv, MismatchIsReal, Learnt, Active, OnPartial

\* In a step of a call that leaves raced FALSE no other call is active.
LEMMA OnlyOne ==
    ASSUME TypeOK, AloneInv, NEW d \in Downloads, Step(d), ~raced'
    PROVE  /\ ~raced
           /\ \A e \in Downloads \ {d} : ~Active(e) /\ pc'[e] = pc[e]
           /\ pc'[d] \in {"checking", "requesting", "writing", "written", "verifying partial",
                          "verifying destination", "renaming"} \cup Finals
<1> USE DEF TypeOK, Goto, Seek
<1>1. CASE Start(d)
  BY <1>1 DEF Start
<1>2. CASE ~Start(d)
  <2>1. Active(d) /\ raced' = raced
    BY <1>2 DEF Step, Active, Finals, CheckDestination, CreatePartial, WriteBlock, EndOfBody,
                OpenPartial, HashBlock, EndOfHash, RenamePartial, Abort
  <2>2. \A e \in Downloads \ {d} : pc'[e] = pc[e]
    BY <1>2 DEF Step, CheckDestination, CreatePartial, WriteBlock, EndOfBody,
                OpenPartial, HashBlock, EndOfHash, RenamePartial, Abort
  <2>3. pc'[d] \in {"checking", "requesting", "writing", "written", "verifying partial",
                    "verifying destination", "renaming"} \cup Finals
    BY <1>2 DEF Step, CheckDestination, CreatePartial, WriteBlock, EndOfBody,
                OpenPartial, HashBlock, EndOfHash, RenamePartial, Abort, Finals
  <2> QED
    BY <2>1, <2>2, <2>3 DEF AloneInv
<1> QED
  BY <1>1, <1>2

LEMMA AloneNext ==
    TypeOK /\ TypeOK' /\ NameInv /\ AloneInv /\ MismatchIsReal /\ [Next]_vars
       => AloneInv' /\ MismatchIsReal'
<1> SUFFICES ASSUME TypeOK, TypeOK', NameInv, AloneInv, MismatchIsReal, [Next]_vars
             PROVE  AloneInv' /\ MismatchIsReal'
  OBVIOUS
<1>1. ASSUME NEW d \in Downloads, Step(d), ~raced' PROVE AloneInv' /\ MismatchIsReal'
  <2>a. /\ ~raced
        /\ \A e \in Downloads \ {d} : ~Active(e) /\ pc'[e] = pc[e]
    BY <1>1, OnlyOne
  <2>b. /\ destination \notin {"none", "placed"} => Whole(destination)
        /\ Learnt(d)
    BY <2>a DEF AloneInv
  <2>c. \A e \in Downloads \ {d} : ~Active(e)' /\ Learnt(e)'
    BY <2>a DEF Active, Learnt, OnPartial, Finals
  <2> SUFFICES /\ (destination \notin {"none", "placed"} => Whole(destination))'
               /\ Learnt(d)'
               /\ \A e \in Downloads : pc'[e] = "mismatch" =>
                     body'[e] = "wrong" \/ (destination' = "placed" /\ ~Whole("placed")')
    BY <2>c DEF AloneInv, MismatchIsReal
  <2>d. /\ pc \in [Downloads -> {"idle", "checking", "requesting", "writing", "written",
                             "verifying partial", "verifying destination", "renaming"}
                            \cup Finals]
        /\ file \in [Downloads -> Files \cup {"none"}]
        /\ done \in [Downloads -> 0..Size] /\ body \in [Downloads -> {"right", "wrong"}]
        /\ content \in [Files -> SUBSET Blocks]
    BY DEF TypeOK
  <2>e. \A e \in Downloads : pc[e] = "mismatch" =>
           body[e] = "wrong" \/ (destination = "placed" /\ ~Whole("placed"))
    BY <2>a DEF MismatchIsReal
  <2> USE DEF Learnt, OnPartial, Goto, Seek
  <2>1. CASE Start(d)
    BY <2>1, <2>b, <2>d, <2>e DEF Start, Whole
  <2>2. CASE CheckDestination(d)
    BY <2>2, <2>b, <2>d, <2>e, Place DEF CheckDestination, Whole
  <2>3. CASE CreatePartial(d)
    <3>1. PICK f \in Files : /\ f = IF partial = "none" THEN d ELSE partial
                             /\ partial' = f
                             /\ content' = [content EXCEPT ![f] = {}]
                             /\ Seek(d, f)
      BY <2>3 DEF CreatePartial, Files, TypeOK
    <3>2. destination' = "none" /\ pc'[d] = "writing" /\ f # "none" /\ file'[d] = f
      BY <2>3, <2>b, <2>d, <3>1, ConstantsAssumption DEF CreatePartial, ConstantsAssumption
    <3>3. 1..done'[d] = {}
      BY <3>1, <2>d, Place
    <3>4. \A e \in Downloads : pc'[e] = "mismatch" => e # d /\ pc[e] = "mismatch"
                                                     /\ body'[e] = body[e]
      BY <2>3, <2>d DEF CreatePartial
    <3>5. destination # "placed"
      BY <2>3, <2>b DEF CreatePartial
    <3> QED
      BY <3>1, <3>2, <3>3, <3>4, <3>5, <2>e
  <2>4. CASE WriteBlock(d)
    <3>1. /\ UNCHANGED <<destination, partial, pc, file, body>> /\ done'[d] = done[d] + 1
          /\ destination = "none" /\ file[d] = partial /\ partial # "none" /\ pc[d] = "writing"
      BY <2>4, <2>b, <2>d DEF WriteBlock
    <3>2. body[d] = "right" => content'[partial] = content[partial] \cup {done[d] + 1}
      BY <2>4, <2>d, <3>1 DEF WriteBlock, TypeOK
    <3>3. body[d] = "right" => 1..done'[d] \subseteq content'[partial]
      BY <2>b, <3>1, <3>2, Place
    <3> QED
      BY <3>1, <3>3, <2>b, <2>e
  <2>5. CASE EndOfBody(d)
    <3>1. /\ UNCHANGED <<destination, partial, content, file, done, body, raced>>
          /\ pc[d] = "writing" /\ pc' = [pc EXCEPT ![d] = "written"]
          /\ body[d] = "right" => done[d] = Size
      BY <2>5, <2>d DEF EndOfBody
    <3>2. partial # "none" /\ partial \in Files
      BY <3>1, <2>b DEF TypeOK
    <3>3. body[d] = "right" => Whole(partial)
      BY <3>1, <3>2, <2>b, <2>d, Place DEF Whole
    <3> QED
      BY <3>1, <3>2, <3>3, <2>b, <2>d, <2>e DEF Whole
  <2>6. CASE OpenPartial(d)
    <3>1. partial # "none" /\ destination = "none"
      BY <2>6, <2>b DEF OpenPartial
    <3>2. 1..0 = {}
      BY Place
    <3> QED
      BY <2>6, <3>1, <3>2, <2>b, <2>d, <2>e DEF OpenPartial, Whole
  <2>7. CASE HashBlock(d)
    <3>1. /\ UNCHANGED <<destination, partial, content, file, body, raced>>
          /\ pc[d] \in {"verifying partial", "verifying destination"}
          /\ \A e \in Downloads \ {d} : pc'[e] = pc[e]
          /\ pc'[d] \in {pc[d], "mismatch"}
      BY <2>7, <2>d DEF HashBlock
    <3>2. CASE done[d] + 1 \in content[file[d]]
      <4>1. pc' = pc /\ done'[d] = done[d] + 1
        BY <2>7, <2>d, <3>2 DEF HashBlock
      <4>2. 1..done'[d] \subseteq content[file[d]]
        BY <4>1, <3>1, <3>2, <2>b, Place
      <4> QED
        BY <4>1, <4>2, <3>1, <2>b, <2>e DEF Whole
    <3>3. CASE done[d] + 1 \notin content[file[d]]
      <4>1. pc'[d] = "mismatch" /\ done[d] + 1 \in Blocks
        BY <2>7, <2>d, <3>3, Place DEF HashBlock
      <4>2. ~Whole(file[d])
        BY <4>1, <3>3 DEF Whole
      <4>3. body[d] = "wrong" \/ destination = "placed"
        <5>1. CASE pc[d] = "verifying partial"
          BY <5>1, <4>2, <2>b, <2>d
        <5>2. CASE pc[d] = "verifying destination"
          <6>1. destination # "none"
            BY <5>2 DEF NameInv
          <6> QED
            BY <5>2, <6>1, <4>2, <2>b
        <5> QED
          BY <5>1, <5>2, <3>1
      <4>4. destination = "placed" => body[d] = "wrong" \/ file[d] = "placed"
        BY <3>1, <2>b
      <4> QED
        BY <4>1, <4>2, <4>3, <4>4, <3>1, <2>b, <2>e DEF Whole
    <3> QED
      BY <3>2, <3>3
  <2>8. CASE EndOfHash(d)
    <3>1. /\ UNCHANGED <<destination, partial, content, file, done, body, raced>>
          /\ done[d] = Size
          /\ \A e \in Downloads \ {d} : pc'[e] = pc[e]
          /\ \/ pc[d] = "verifying destination" /\ pc'[d] = "ok"
             \/ pc[d] = "verifying partial" /\ pc'[d] = "renaming"
      BY <2>8, <2>d DEF EndOfHash
    <3>2. pc[d] = "verifying partial" => Whole(partial)
      <4>1. ASSUME pc[d] = "verifying partial" PROVE Whole(partial)
        <5>1. partial \in Files /\ file[d] = partial
          BY <4>1, <2>b DEF TypeOK
        <5> QED
          BY <4>1, <5>1, <3>1, <2>b, <2>d, Place DEF Whole
      <4> QED
        BY <4>1
    <3> QED
      BY <3>1, <3>2, <2>b, <2>e DEF Whole
  <2>9. CASE RenamePartial(d)
    BY <2>9, <2>b, <2>d, <2>e DEF RenamePartial, Whole
  <2>10. CASE Abort(d)
    BY <2>10, <2>b, <2>d, <2>e DEF Abort, Whole
  <2> QED
    BY <1>1, <2>1, <2>2, <2>3, <2>4, <2>5, <2>6, <2>7, <2>8, <2>9, <2>10 DEF Step
<1>2. CASE raced'
  BY <1>2 DEF AloneInv, MismatchIsReal
<1>3. CASE UNCHANGED vars \/ Finished
  <2>1. UNCHANGED <<destination, partial, content, pc, file, done, body, raced>>
    BY <1>3 DEF vars, Finished
  <2>2. \A d \in Downloads : (Active(d)' <=> Active(d)) /\ (Learnt(d)' <=> Learnt(d))
    BY <2>1 DEF Active, Learnt, OnPartial, Whole
  <2> QED
    BY <2>1, <2>2 DEF AloneInv, MismatchIsReal, Whole
<1> QED
  BY <1>1, <1>2, <1>3 DEF Next

-----------------------------------------------------------------------------
(* Calls that overlap.                                                     *)

LEMMA HealInit == Init => HealInv
BY DEF Init, HealInv, OnPartial

\* Filled(f) survives a step in which f loses no right block and no call
\* that writes to f gives up or moves on.
LEMMA FilledStays ==
    ASSUME NEW f, Filled(f), content'[f] = content[f],
           \A e \in Downloads : pc[e] = "writing" /\ file[e] = f =>
              pc'[e] = "writing" /\ file'[e] = f /\ done'[e] = done[e]
    PROVE  Filled(f)'
BY DEF Filled, Blocks

LEMMA HealNext == TypeOK /\ TypeOK' /\ NameInv /\ HealInv /\ [Next]_vars => HealInv'
<1> SUFFICES ASSUME TypeOK, TypeOK', NameInv, HealInv, [Next]_vars,
                    \A d \in Downloads : pc'[d] # "aborted" /\ body'[d] = "right"
             PROVE  /\ destination' \notin {"none", "placed"} => Filled(destination)'
                    /\ partial' # "none" /\ (\E d \in Downloads : OnPartial(d)') =>
                          Filled(partial)'
  BY DEF HealInv
<1> DEFINE Goal == /\ destination' \notin {"none", "placed"} => Filled(destination)'
                   /\ partial' # "none" /\ (\E d \in Downloads : OnPartial(d)') =>
                          Filled(partial)'
<1>1. ASSUME NEW d \in Downloads, Step(d) PROVE Goal
  <2>a. /\ pc \in [Downloads -> {"idle", "checking", "requesting", "writing", "written",
                             "verifying partial", "verifying destination", "renaming"}
                            \cup Finals]
        /\ file \in [Downloads -> Files \cup {"none"}]
        /\ done \in [Downloads -> 0..Size] /\ body \in [Downloads -> {"right", "wrong"}]
        /\ content \in [Files -> SUBSET Blocks]
        /\ destination \in Files \cup {"none"} /\ partial \in Files \cup {"none"}
    BY DEF TypeOK
  <2>b. \A e \in Downloads : pc[e] # "aborted"
    <3>1. \A e \in Downloads : pc[e] = "aborted" => pc'[e] = "aborted"
      BY <1>1, <2>a DEF Step, Goto, Finals, Active, Start, CheckDestination, CreatePartial,
                        WriteBlock, EndOfBody, OpenPartial, HashBlock, EndOfHash,
                        RenamePartial, Abort
    <3> QED
      BY <3>1
  <2> USE DEF OnPartial, Goto, Seek
  <2>3. CASE CreatePartial(d)
    <3>1. PICK f \in Files : /\ f = IF partial = "none" THEN d ELSE partial
                             /\ partial' = f
                             /\ content' = [content EXCEPT ![f] = {}]
                             /\ Seek(d, f)
      BY <2>3 DEF CreatePartial, Files, TypeOK
    <3>2. /\ destination' = destination /\ pc'[d] = "writing" /\ file'[d] = f
          /\ done'[d] = 0 /\ f # destination /\ pc[d] = "requesting"
          /\ \A e \in Downloads \ {d} :
                pc'[e] = pc[e] /\ file'[e] = file[e] /\ done'[e] = done[e]
      BY <2>3, <2>a, <3>1 DEF CreatePartial, NameInv
    <3>3. Filled(f)'
      <4>1. \A b \in Blocks : 0 < b
        BY ConstantsAssumption DEF Blocks, ConstantsAssumption
      <4> QED
        BY <3>2, <4>1 DEF Filled, Blocks
    <3>4. ASSUME destination \notin {"none", "placed"} PROVE Filled(destination)'
      <4>1. content'[destination] = content[destination]
        BY <3>1, <3>2, <3>4, <2>a
      <4>2. \A e \in Downloads : pc[e] # "aborted" /\ (e # d => body[e] = "right")
        BY <2>3, <2>a, <2>b DEF CreatePartial
      <4>3. body[d] = "right" => Filled(destination)
        BY <4>2, <3>4 DEF HealInv
      <4>4. body[d] = "right"
        BY <3>2 DEF NameInv
      <4> QED
        BY <3>2, <4>1, <4>3, <4>4, FilledStays
    <3> QED
      BY <3>1, <3>2, <3>3, <3>4
  <2>c. CASE ~CreatePartial(d)
    <3>a. body' = body
      BY <1>1, <2>c DEF Step, Start, CheckDestination, WriteBlock, EndOfBody, OpenPartial,
                        HashBlock, EndOfHash, RenamePartial, Abort
    <3>b. /\ destination \notin {"none", "placed"} => Filled(destination)
          /\ partial # "none" /\ (\E e \in Downloads : OnPartial(e)) => Filled(partial)
      BY <3>a, <2>b DEF HealInv
    <3>1. CASE WriteBlock(d)
      <4>1. /\ UNCHANGED <<destination, partial, pc, file>> /\ pc[d] = "writing"
            /\ content' = [content EXCEPT ![file[d]] = @ \cup {done[d] + 1}]
            /\ \A e \in Downloads \ {d} : done'[e] = done[e]
            /\ done'[d] = done[d] + 1
        BY <3>1, <2>a, <3>a DEF WriteBlock
      <4>2. ASSUME NEW f \in Files, Filled(f) PROVE Filled(f)'
        <5>1. CASE f # file[d]
          BY <4>1, <4>2, <5>1, <2>a, FilledStays
        <5>2. CASE f = file[d]
          <6>1. content'[f] = content[f] \cup {done[d] + 1}
            BY <4>1, <5>2, <2>a
          <6>2. ASSUME NEW b \in Blocks \ content'[f]
                PROVE  \E e \in Downloads : pc'[e] = "writing" /\ file'[e] = f /\ done'[e] < b
            <7>1. b \in Blocks \ content[f] /\ b # done[d] + 1
              BY <6>1, <6>2
            <7>2. PICK e \in Downloads : pc[e] = "writing" /\ file[e] = f /\ done[e] < b
              BY <4>2, <7>1 DEF Filled
            <7>3. done'[e] < b
              <8>1. b \in Nat /\ done[d] \in Nat
                BY <7>1, Place DEF Blocks
              <8> QED
                BY <4>1, <7>1, <7>2, <8>1
            <7> QED
              BY <4>1, <7>2, <7>3
          <6> QED
            BY <6>2 DEF Filled, Blocks
        <5> QED
          BY <5>1, <5>2
      <4> QED
        BY <4>1, <4>2, <3>b, <2>a
    <3>2. CASE EndOfBody(d)
      <4>1. /\ UNCHANGED <<destination, partial, content, file, done>> /\ done[d] = Size
            /\ pc[d] = "writing" /\ pc' = [pc EXCEPT ![d] = "written"]
        BY <3>2, <3>a DEF EndOfBody
      <4>2. ASSUME NEW f, Filled(f) PROVE Filled(f)'
        <5>1. \A b \in Blocks : ~(done[d] < b)
          BY <4>1, ConstantsAssumption DEF Blocks, ConstantsAssumption
        <5> QED
          BY <4>1, <4>2, <5>1, <2>a DEF Filled, Blocks
      <4> QED
        BY <4>1, <4>2, <3>b, <2>a
    <3>3. CASE RenamePartial(d)
      <4>1. /\ UNCHANGED <<content, file, done>> /\ pc[d] = "renaming" /\ OnPartial(d)
            /\ \A e \in Downloads \ {d} : pc'[e] = pc[e]
        BY <3>3, <2>a DEF RenamePartial
      <4>2. ASSUME NEW f, Filled(f) PROVE Filled(f)'
        BY <4>1, <4>2, FilledStays
      <4> QED
        BY <3>3, <4>1, <4>2, <3>b DEF RenamePartial
    <3>4. CASE Start(d) \/ CheckDestination(d) \/ OpenPartial(d) \/ HashBlock(d) \/ EndOfHash(d)
      <4>1. UNCHANGED <<destination, partial, content>> /\ pc[d] # "writing"
        BY <3>4 DEF Start, CheckDestination, OpenPartial, HashBlock, EndOfHash
      <4>2. \A e \in Downloads \ {d} :
               pc'[e] = pc[e] /\ file'[e] = file[e] /\ done'[e] = done[e]
        BY <3>4, <2>a DEF Start, CheckDestination, OpenPartial, HashBlock, EndOfHash
      <4>3. OnPartial(d)' => OnPartial(d)
        BY <3>4, <2>a DEF Start, CheckDestination, OpenPartial, HashBlock, EndOfHash, Finals
      <4>4. ASSUME NEW f, Filled(f) PROVE Filled(f)'
        BY <4>1, <4>2, <4>4, FilledStays
      <4> QED
        BY <4>1, <4>2, <4>3, <4>4, <3>b
    <3>5. CASE Abort(d)
      BY <3>5, <2>a DEF Abort
    <3> QED
      BY <1>1, <2>c, <3>1, <3>2, <3>3, <3>4, <3>5 DEF Step
  <2> QED
    BY <2>3, <2>c
<1>2. CASE UNCHANGED vars \/ Finished
  <2>1. UNCHANGED <<destination, partial, content, pc, file, done, body, raced>>
    BY <1>2 DEF vars, Finished
  <2>2. ASSUME NEW f, Filled(f) PROVE Filled(f)'
    BY <2>1, <2>2, FilledStays
  <2>3. \A d \in Downloads : OnPartial(d)' <=> OnPartial(d)
    BY <2>1 DEF OnPartial
  <2> QED
    BY <2>1, <2>2, <2>3 DEF HealInv
<1> QED
  BY <1>1, <1>2 DEF Next

-----------------------------------------------------------------------------
(* The theorems.                                                           *)

\* IInv is an inductive invariant: what each call knows of the two names
\* and the files behind them, alone or not.
THEOREM Invariant == Spec => []IInv
<1>1. Init => IInv
  BY TypeInit, NameInit, AloneInit, HealInit DEF IInv
<1>2. IInv /\ [Next]_vars => IInv'
  BY TypeNext, NameNext, AloneNext, HealNext DEF IInv
<1> QED
  BY <1>1, <1>2, PTL DEF Spec

\* Calls that follow one another return Ok only with a verified model at
\* the destination, and it is there for good.
THEOREM LoneOk == Spec => []OkMeansWhole
<1>1. IInv => OkMeansWhole
  BY DEF IInv, NameInv, AloneInv, OkMeansWhole, Installed
<1> QED
  BY <1>1, Invariant, PTL

\* They report a mismatch only when there is something wrong to report.
THEOREM LoneMismatch == Spec => []MismatchIsReal
<1>1. IInv => MismatchIsReal
  BY DEF IInv
<1> QED
  BY <1>1, Invariant, PTL

\* And they never touch a whole model.
THEOREM LoneKeeps == Spec => WholeStays
<1>1. IInv /\ [Next]_vars =>
         [~raced' /\ Installed => destination' = destination /\ Installed']_vars
  <2> SUFFICES ASSUME IInv, [Next]_vars, ~raced', Installed
               PROVE  destination' = destination /\ Installed'
    OBVIOUS
  <2>a. TypeOK /\ NameInv /\ AloneInv
    BY DEF IInv
  <2>1. ASSUME NEW d \in Downloads, Step(d) PROVE destination' = destination /\ Installed'
    <3>1. Learnt(d) /\ destination # "none"
      BY <2>1, <2>a, OnlyOne DEF AloneInv, Installed
    <3>2. pc[d] # "requesting" /\ ~OnPartial(d)
      BY <3>1 DEF Learnt
    <3>3. UNCHANGED <<destination, content>>
      BY <2>1, <3>2 DEF OnPartial, Step, Start, CheckDestination, CreatePartial, WriteBlock,
           EndOfBody, OpenPartial, HashBlock, EndOfHash, RenamePartial, Abort
    <3> QED
      BY <3>3 DEF Installed, Whole
  <2>2. CASE UNCHANGED vars \/ Finished
    BY <2>2 DEF vars, Finished, Installed, Whole
  <2> QED
    BY <2>1, <2>2 DEF Next
<1> QED
  BY <1>1, Invariant, PTL DEF Spec, WholeStays

\* However calls overlap: if none is cut short and the server sends each
\* the model, the destination is whole once they are over.
THEOREM OverlapHeals == Spec => []RaceHeals
<1>1. IInv => RaceHeals
  <2> SUFFICES ASSUME IInv, NEW d \in Downloads, pc[d] = "ok",
                      \A e \in Downloads :
                         ~Active(e) /\ pc[e] # "aborted" /\ body[e] = "right"
               PROVE  Installed
    BY DEF RaceHeals
  <2>1. destination # "none" /\ (destination = "placed" => Whole("placed"))
    BY DEF IInv, NameInv
  <2>2. \A e \in Downloads : pc[e] # "writing"
    BY DEF Active, Finals
  <2>3. destination # "placed" => Filled(destination)
    BY <2>1 DEF IInv, HealInv
  <2>4. destination # "placed" => Blocks \ content[destination] = {}
    BY <2>2, <2>3 DEF Filled
  <2>5. content[destination] \subseteq Blocks
    BY <2>1 DEF IInv, TypeOK
  <2> QED
    BY <2>1, <2>4, <2>5 DEF Installed, Whole
<1> QED
  BY <1>1, Invariant, PTL

=============================================================================
