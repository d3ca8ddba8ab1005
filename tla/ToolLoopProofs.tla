--------------------------- MODULE ToolLoopProofs ---------------------------
(***************************************************************************)
(* Proofs about ToolLoop, for any names, any limits and any number of tool *)
(* calls in a response.                                                    *)
(***************************************************************************)
EXTENDS ToolLoop, SequenceTheorems, NaturalsInduction, WellFoundedInduction, TLAPS

AnyNames == Names \cup {"malformed"}

Entries == [sent : {"user", "tool", "response"}, names : Seq(AnyNames)]

TypeInv ==
    /\ tools \subseteq Names
    /\ pc \in {"idle", "round", "tools"}
    /\ automatic \in BOOLEAN
    /\ limit \in Nat /\ left \in Nat
    /\ current \in Entries /\ current.sent # "response"
    /\ calls \in Seq(AnyNames) /\ responses \in Seq(AnyNames)
    /\ log \in Seq(Entries)
    /\ ran \in Seq(AnyNames)
    /\ answer \in JsonMessages(Names)

-----------------------------------------------------------------------------
(* Sequences and their concatenation: no induction, but the least number  *)
(* that breaks a claim.                                                    *)

\* A set of numbers has a least one.
Smaller == {p \in Nat \X Nat : p[1] < p[2]}

LEMMA LeastNumber ==
    ASSUME NEW T, T \subseteq Nat, T # {}
    PROVE  \E m \in T : \A k \in T : m <= k
<1>1. IsWellFoundedOn(Smaller, Nat)
  BY NatLessThanWellFounded, Zenon DEF OpToRel, Smaller
<1>2. PICK m \in T : \A k \in T : ~(<<k, m>> \in Smaller)
  BY <1>1, WFMin
<1>3. ASSUME NEW k \in T PROVE m <= k
  <2>1. k \in Nat /\ m \in Nat /\ <<k, m>> \in Nat \X Nat
    OBVIOUS
  <2>2. ~(k < m)
    BY <1>2, <2>1 DEF Smaller
  <2> QED
    BY <2>1, <2>2
<1> QED
  BY <1>3

\* The function FlattenSeq is defined by, up to n.
Flattens(f, seqs, n) ==
    f = [i \in 1..n |-> IF i = 1 THEN seqs[i] ELSE f[i - 1] \o seqs[i]]

LEMMA FlattensAt ==
    ASSUME NEW f, NEW seqs, NEW n \in Nat, Flattens(f, seqs, n), NEW i \in 1..n
    PROVE  f[i] = IF i = 1 THEN seqs[i] ELSE f[i - 1] \o seqs[i]
<1> DEFINE g == [j \in 1..n |-> IF j = 1 THEN seqs[j] ELSE f[j - 1] \o seqs[j]]
<1>1. f = g
  BY DEF Flattens
<1>2. g[i] = IF i = 1 THEN seqs[i] ELSE f[i - 1] \o seqs[i]
  OBVIOUS
<1> HIDE DEF g
<1> QED
  BY <1>1, <1>2

LEMMA FlattensIf ==
    ASSUME NEW seqs, NEW n \in Nat, NEW f, f = [i \in 1..n |-> f[i]],
           \A i \in 1..n : f[i] = IF i = 1 THEN seqs[i] ELSE f[i - 1] \o seqs[i]
    PROVE  Flattens(f, seqs, n)
BY DEF Flattens

\* It exists for every length.
LEMMA FlattensExists ==
    ASSUME NEW seqs, NEW n \in Nat
    PROVE  \E f : Flattens(f, seqs, n)
<1> DEFINE Missing == {k \in Nat : ~ \E f : Flattens(f, seqs, k)}
<1> SUFFICES ASSUME Missing # {} PROVE FALSE
  OBVIOUS
<1>1. PICK k \in Missing : \A j \in Missing : k <= j
  BY LeastNumber, Missing \subseteq Nat
<1> HIDE DEF Missing
<1>2. k \in Nat /\ ~ \E f : Flattens(f, seqs, k)
  BY DEF Missing
<1>3. CASE k = 0
  <2> DEFINE g == [i \in 1..0 |-> seqs[i]]
  <2>1. g = [i \in 1..0 |-> g[i]] /\ 1..0 = {}
    OBVIOUS
  <2> HIDE DEF g
  <2>2. Flattens(g, seqs, 0)
    BY <2>1, FlattensIf
  <2> QED
    BY <1>2, <1>3, <2>2
<1>4. CASE k > 0
  <2>1. k - 1 \in Nat /\ k - 1 \notin Missing
    BY <1>1, <1>2, <1>4
  <2>2. PICK f : Flattens(f, seqs, k - 1)
    BY <2>1 DEF Missing
  <2> DEFINE g == [i \in 1..k |-> IF i < k THEN f[i] ELSE IF k = 1 THEN seqs[k] ELSE f[k - 1] \o seqs[k]]
  <2>3. ASSUME NEW i \in 1..k PROVE g[i] = IF i = 1 THEN seqs[i] ELSE g[i - 1] \o seqs[i]
    <3>1. CASE i = k
      <4>1. g[i] = IF k = 1 THEN seqs[k] ELSE f[k - 1] \o seqs[k]
        BY <3>1
      <4>2. k # 1 => g[i - 1] = f[k - 1]
        BY <1>2, <1>4, <3>1
      <4> HIDE DEF g
      <4> QED
        BY <3>1, <4>1, <4>2
    <3>2. CASE i < k
      <4>1. i \in 1..(k - 1)
        BY <1>2, <3>2
      <4>2. f[i] = IF i = 1 THEN seqs[i] ELSE f[i - 1] \o seqs[i]
        BY <2>1, <2>2, <4>1, FlattensAt
      <4>3. g[i] = f[i]
        BY <3>2
      <4>4. i # 1 => g[i - 1] = f[i - 1]
        BY <1>2, <3>2
      <4> HIDE DEF g
      <4> QED
        BY <4>2, <4>3, <4>4
    <3> QED
      BY <1>2, <3>1, <3>2
  <2>4. g = [i \in 1..k |-> g[i]]
    OBVIOUS
  <2> HIDE DEF g
  <2>5. Flattens(g, seqs, k)
    BY <1>2, <2>3, <2>4, FlattensIf
  <2> QED
    BY <1>2, <2>5
<1> QED
  BY <1>2, <1>3, <1>4

\* Two of them agree on what they both flatten.
LEMMA FlattensAgree ==
    ASSUME NEW s, NEW t, NEW f, NEW g, NEW m \in Nat, NEW n \in Nat, m <= n,
           Flattens(f, s, m), Flattens(g, t, n), \A i \in 1..m : s[i] = t[i]
    PROVE  \A i \in 1..m : f[i] = g[i]
<1> DEFINE Differ == {i \in 1..m : f[i] # g[i]}
<1> SUFFICES ASSUME Differ # {} PROVE FALSE
  OBVIOUS
<1>1. PICK k \in Differ : \A j \in Differ : k <= j
  BY LeastNumber, Differ \subseteq Nat
<1>2. k \in 1..m /\ k \in 1..n /\ f[k] # g[k]
  OBVIOUS
<1>3. CASE k = 1
  BY <1>2, <1>3, FlattensAt
<1>4. CASE k # 1
  <2>1. k - 1 \in 1..m /\ k - 1 \notin Differ
    BY <1>1, <1>2, <1>4
  <2>2. f[k - 1] = g[k - 1]
    BY <2>1
  <2>3. f[k] = IF k = 1 THEN s[k] ELSE f[k - 1] \o s[k]
    BY <1>2, FlattensAt
  <2>4. g[k] = IF k = 1 THEN t[k] ELSE g[k - 1] \o t[k]
    BY <1>2, FlattensAt
  <2> QED
    BY <1>2, <1>4, <2>2, <2>3, <2>4
<1> QED
  BY <1>3, <1>4

LEMMA FlattenSeqIs ==
    ASSUME NEW seqs, NEW n \in Nat \ {0}, Len(seqs) = n
    PROVE  \E f : Flattens(f, seqs, n) /\ FlattenSeq(seqs) = f[n]
<1> DEFINE f == CHOOSE flatten : flatten = [i \in 1..Len(seqs) |-> IF i = 1 THEN seqs[i] ELSE flatten[i - 1] \o seqs[i]]
<1>1. \E g : g = [i \in 1..Len(seqs) |-> IF i = 1 THEN seqs[i] ELSE g[i - 1] \o seqs[i]]
  BY FlattensExists DEF Flattens
<1>2. f = [i \in 1..Len(seqs) |-> IF i = 1 THEN seqs[i] ELSE f[i - 1] \o seqs[i]]
  BY <1>1
<1>3. FlattenSeq(seqs) = f[Len(seqs)]
  BY DEF FlattenSeq
<1> HIDE DEF f
<1> QED
  BY <1>2, <1>3 DEF Flattens

LEMMA FlattenEmpty == FlattenSeq(<<>>) = <<>>
BY EmptySeq DEF FlattenSeq

LEMMA FlattenAppend ==
    ASSUME NEW S, NEW seqs \in Seq(Seq(S)), NEW s \in Seq(S)
    PROVE  FlattenSeq(Append(seqs, s)) = FlattenSeq(seqs) \o s
<1> DEFINE n == Len(seqs)
           more == Append(seqs, s)
<1>1. /\ n \in Nat /\ Len(more) = n + 1 /\ more[n + 1] = s
      /\ \A i \in 1..n : seqs[i] = more[i]
  BY AppendProperties, LenProperties
<1> HIDE DEF n, more
<1>2. PICK g : Flattens(g, more, n + 1) /\ FlattenSeq(more) = g[n + 1]
  BY <1>1, FlattenSeqIs
<1>3. CASE n = 0
  <2>1. seqs = <<>> /\ FlattenSeq(seqs) = <<>>
    BY <1>3, EmptySeq, FlattenEmpty DEF n
  <2>2. FlattenSeq(more) = s
    BY <1>1, <1>2, <1>3, FlattensAt
  <2> QED
    BY <2>1, <2>2, ConcatEmptySeq DEF more
<1>4. CASE n # 0
  <2>1. PICK f : Flattens(f, seqs, n) /\ FlattenSeq(seqs) = f[n]
    BY <1>1, <1>4, FlattenSeqIs DEF n
  <2>2. n \in Nat
    BY <1>1
  <2>3. n + 1 \in Nat /\ n \in 1..n /\ n + 1 \in 1..(n + 1) /\ n <= n + 1 /\ n + 1 # 1 /\ (n + 1) - 1 = n
    BY <1>4, <2>2
  <2>4. \A i \in 1..n : f[i] = g[i]
    <3>1. /\ Flattens(f, seqs, n) /\ Flattens(g, more, n + 1)
          /\ \A i \in 1..n : seqs[i] = more[i]
      BY <1>1, <1>2, <2>1
    <3> QED
      BY <2>2, <2>3, <3>1, FlattensAgree
  <2>5. g[n + 1] = IF n + 1 = 1 THEN more[n + 1] ELSE g[(n + 1) - 1] \o more[n + 1]
    BY <1>2, <2>3, FlattensAt
  <2> QED
    BY <1>1, <1>2, <2>1, <2>3, <2>4, <2>5 DEF more
<1> QED
  BY <1>3, <1>4

LEMMA FlattenType ==
    ASSUME NEW S, NEW seqs \in Seq(Seq(S))
    PROVE  FlattenSeq(seqs) \in Seq(S)
<1> DEFINE n == Len(seqs)
<1>1. n \in Nat /\ \A i \in 1..n : seqs[i] \in Seq(S)
  BY LenProperties, ElementOfSeq
<1> HIDE DEF n
<1>2. CASE n = 0
  BY <1>2, EmptySeq, FlattenEmpty DEF n
<1>3. CASE n # 0
  <2>1. PICK f : Flattens(f, seqs, n) /\ FlattenSeq(seqs) = f[n]
    BY <1>1, <1>3, FlattenSeqIs DEF n
  <2> DEFINE Ill == {i \in 1..n : f[i] \notin Seq(S)}
  <2> SUFFICES ASSUME Ill # {} PROVE FALSE
    BY <1>1, <1>3, <2>1
  <2>2. PICK k \in Ill : \A j \in Ill : k <= j
    BY LeastNumber, Ill \subseteq Nat
  <2>3. k \in 1..n /\ f[k] \notin Seq(S)
    OBVIOUS
  <2>4. f[k] = IF k = 1 THEN seqs[k] ELSE f[k - 1] \o seqs[k]
    BY <1>1, <2>1, <2>3, FlattensAt
  <2>5. k # 1 => f[k - 1] \in Seq(S)
    <3> SUFFICES ASSUME k # 1 PROVE f[k - 1] \in Seq(S)
      OBVIOUS
    <3>1. k - 1 \in 1..n /\ k - 1 \notin Ill
      BY <1>1, <2>2, <2>3
    <3> QED
      BY <3>1
  <2> QED
    BY <1>1, <2>3, <2>4, <2>5, ConcatProperties
<1> QED
  BY <1>2, <1>3

\* A sequence and what follows it.
LEMMA PrefixOfConcat ==
    ASSUME NEW S, NEW s \in Seq(S), NEW t \in Seq(S)
    PROVE  IsPrefix(s, s \o t) /\ SubSeq(s \o t, Len(s) + 1, Len(s \o t)) = t
<1> DEFINE both == s \o t
           m == Len(s)
           n == Len(t)
<1>1. /\ both \in Seq(S) /\ Len(both) = m + n
      /\ \A i \in 1..(m + n) : both[i] = IF i <= m THEN s[i] ELSE t[i - m]
      /\ DOMAIN both = 1..Len(both)
  BY ConcatProperties, LenProperties
<1>2. m \in Nat /\ n \in Nat
  BY LenProperties
<1>3. /\ \A i \in 1..(m + n) : both[i] \in S
      /\ \A i \in 1..m : s[i] \in S
  BY <1>1, ElementOfSeq
<1> HIDE DEF both, m, n
<1>4. SubSeq(both, 1, m) = s
  <2>1. /\ SubSeq(both, 1, m) \in Seq(S)
        /\ Len(SubSeq(both, 1, m)) = m
        /\ \A i \in 1..m : SubSeq(both, 1, m)[i] = both[i]
    <3>1. \A i \in 1..m : both[i] \in S
      BY <1>2, <1>3
    <3>2. /\ SubSeq(both, 1, m) \in Seq(S)
          /\ Len(SubSeq(both, 1, m)) = IF 1 <= m THEN m - 1 + 1 ELSE 0
          /\ \A i \in 1..(m - 1 + 1) : SubSeq(both, 1, m)[i] = both[1 + i - 1]
      BY <1>2, <3>1, SubSeqProperties
    <3> QED
      BY <1>2, <3>2
  <2>2. \A i \in 1..m : SubSeq(both, 1, m)[i] = s[i]
    BY <1>1, <1>2, <2>1
  <2> QED
    BY <2>1, <2>2, SeqEqual DEF m
<1>5. SubSeq(both, m + 1, m + n) = t
  <2>1. \A i \in (m + 1)..(m + n) : both[i] \in S
    BY <1>2, <1>3
  <2>2. /\ SubSeq(both, m + 1, m + n) \in Seq(S)
        /\ Len(SubSeq(both, m + 1, m + n)) = IF m + 1 <= m + n THEN (m + n) - (m + 1) + 1 ELSE 0
        /\ \A i \in 1..((m + n) - (m + 1) + 1) : SubSeq(both, m + 1, m + n)[i] = both[(m + 1) + i - 1]
    BY <1>2, <2>1, SubSeqProperties
  <2>3. Len(SubSeq(both, m + 1, m + n)) = n
    BY <1>2, <2>2
  <2>4. ASSUME NEW i \in 1..n PROVE SubSeq(both, m + 1, m + n)[i] = t[i]
    <3>1. i \in 1..((m + n) - (m + 1) + 1) /\ (m + 1) + i - 1 = m + i /\ m + i \in 1..(m + n) /\ ~(m + i <= m) /\ (m + i) - m = i
      BY <1>2
    <3>2. both[m + i] = t[i]
      BY <1>1, <3>1
    <3> QED
      BY <2>2, <3>1, <3>2
  <2> QED
    BY <2>2, <2>3, <2>4, SeqEqual DEF n
<1>6. SubSeq(s, 1, m) = s
  BY SubSeqFull DEF m
<1> QED
  BY <1>1, <1>2, <1>4, <1>5, <1>6 DEF IsPrefix, both, m

-----------------------------------------------------------------------------
(* Sequences, messages and the log.                                        *)

LEMMA Half == ASSUME NEW n \in Nat PROVE (2 * n) \div 2 = n /\ (2 * n) % 2 = 0 /\ (2 * n + 1) % 2 = 1
OBVIOUS

LEMMA ListsAreSeqs ==
    ASSUME NEW S, NEW n \in Nat, NEW s \in [1..n -> S]
    PROVE  s \in Seq(S)
BY SeqDef

\* What a message is and holds.
LEMMA MessageTypes ==
    /\ UserMessage \in Entries /\ UserMessage.sent = "user"
    /\ \A s \in Seq(AnyNames) :
         /\ ToolMessage(s) \in Entries /\ Response(s) \in Entries
         /\ ToolMessage(s).sent = "tool" /\ ToolMessage(s).names = s
         /\ Response(s).sent = "response" /\ Response(s).names = s
<1>1. <<>> \in Seq(AnyNames)
  BY EmptySeq
<1> QED
  BY <1>1 DEF UserMessage, ToolMessage, Response, Entries

\* The parts of a message are arrays, or have no items.
LEMMA PartItems ==
    ASSUME NEW S, NEW part \in Parts(S)
    PROVE  /\ part.items \in Seq(S)
           /\ part = Absent \/ part = Unreadable \/ part = Array(part.items)
<1>1. <<>> \in Seq(S)
  BY EmptySeq
<1>2. CASE part = Absent \/ part = Unreadable
  <2>1. Absent.items = <<>> /\ Unreadable.items = <<>>
    BY DEF Absent, Unreadable
  <2> QED
    BY <1>1, <1>2, <2>1
<1>3. CASE part \in [is : {"array"}, items : Seq(S)]
  BY <1>3 DEF Array
<1> QED
  BY <1>2, <1>3 DEF Parts

LEMMA RepliesTyped ==
    ASSUME NEW reply \in Replies
    PROVE  /\ reply \in JsonMessages(Names)
           /\ reply.tool_calls \in Parts(ToolCalls(Names))
BY ConstantsAssumption DEF ConstantsAssumption, JsonMessages

\* The tool calls read from a response.
LEMMA ParsedCalls ==
    ASSUME NEW reply \in Replies
    PROVE  /\ NamesOf(reply) \in Seq(AnyNames)
           /\ NamesOf(reply) = <<>> =>
                (reply.tool_calls.items # <<>> =>
                    \E i \in DOMAIN reply.tool_calls.items : ~Readable(reply.tool_calls.items[i]))
<1> DEFINE items == reply.tool_calls.items
           n == Len(items)
<1>1. items \in Seq(ToolCalls(Names))
  BY RepliesTyped, PartItems
<1>2. n \in Nat /\ DOMAIN items = 1..n /\ \A i \in 1..n : items[i].name \in AnyNames
  <2>1. \A i \in 1..n : items[i] \in ToolCalls(Names)
    BY <1>1, ElementOfSeq
  <2>2. \A call \in ToolCalls(Names) : call.name \in AnyNames
    BY DEF ToolCalls, AnyNames
  <2>3. n \in Nat /\ DOMAIN items = 1..n
    BY <1>1, LenProperties
  <2> QED
    BY <2>1, <2>2, <2>3
<1>3. CASE \A i \in DOMAIN items : Readable(items[i])
  <2>1. ParseToolCalls(reply.tool_calls) = [i \in DOMAIN items |-> ToolCallFromJson(items[i])]
    BY <1>3 DEF ParseToolCalls
  <2>2. NamesOf(reply) = [i \in 1..n |-> items[i].name]
    BY <1>2, <2>1 DEF NamesOf, ToolCallFromJson
  <2> HIDE DEF items, n
  <2>3. NamesOf(reply) \in Seq(AnyNames) /\ Len(NamesOf(reply)) = n
    <3>1. NamesOf(reply) \in [1..n -> AnyNames]
      BY <1>2, <2>2
    <3> QED
      BY <1>2, <3>1, ListsAreSeqs, LenProperties
  <2>4. NamesOf(reply) = <<>> => items = <<>>
    BY <1>1, <2>3, EmptySeq DEF n
  <2> QED
    BY <2>3, <2>4 DEF items
<1>4. CASE ~ \A i \in DOMAIN items : Readable(items[i])
  <2>1. ParseToolCalls(reply.tool_calls) = <<>>
    BY <1>4 DEF ParseToolCalls
  <2>2. NamesOf(reply) = <<>>
    BY <2>1 DEF NamesOf
  <2> QED
    BY <1>4, <2>2, EmptySeq
<1> QED
  BY <1>3, <1>4

\* The log after a round: what it had, the message and its response.
LEMMA LogGrows ==
    ASSUME TypeInv, NEW names \in Seq(AnyNames), log' = log \o <<current, Response(names)>>
    PROVE  /\ log' \in Seq(Entries)
           /\ Len(log) \in Nat /\ Len(log') = Len(log) + 2
           /\ DOMAIN log = 1..Len(log) /\ DOMAIN log' = 1..(Len(log) + 2)
           /\ \A i \in DOMAIN log : log'[i] = log[i]
           /\ log'[Len(log) + 1] = current
           /\ log'[Len(log) + 2] = Response(names)
<1> DEFINE two == <<current, Response(names)>>
<1>1. two \in Seq(Entries) /\ Len(two) = 2 /\ two[1] = current /\ two[2] = Response(names)
  BY MessageTypes DEF TypeInv
<1>2. log \in Seq(Entries) /\ log' = log \o two
  BY DEF TypeInv
<1> HIDE DEF two
<1>3. /\ log' \in Seq(Entries)
      /\ Len(log') = Len(log) + 2
      /\ \A i \in 1..(Len(log) + 2) :
           log'[i] = IF i <= Len(log) THEN log[i] ELSE two[i - Len(log)]
  BY <1>1, <1>2, ConcatProperties
<1>4. Len(log) \in Nat /\ DOMAIN log = 1..Len(log) /\ DOMAIN log' = 1..Len(log')
  BY <1>2, <1>3, LenProperties
<1> QED
  BY <1>1, <1>3, <1>4

\* The log after a message that found no response.
LEMMA LogEnds ==
    ASSUME TypeInv, log' = Append(log, current)
    PROVE  /\ log' \in Seq(Entries)
           /\ Len(log) \in Nat /\ Len(log') = Len(log) + 1
           /\ DOMAIN log = 1..Len(log) /\ DOMAIN log' = 1..(Len(log) + 1)
           /\ \A i \in DOMAIN log : log'[i] = log[i]
           /\ log'[Len(log) + 1] = current
BY AppendProperties, LenProperties DEF TypeInv

\* The last calls of a log of whole rounds are those of its last entry.
LEMMA LastOfRounds ==
    ASSUME TypeInv, NEW n \in Nat, Len(log) = 2 * n
    PROVE  /\ log = <<>> <=> n = 0
           /\ n > 0 => LastCalls = log[Len(log)].names
<1>1. Len(log) \div 2 = n
  BY Half
<1>2. log = <<>> <=> Len(log) = 0
  BY EmptySeq, LenProperties DEF TypeInv
<1> QED
  BY <1>1, <1>2 DEF LastCalls

\* The results sent by a log with one more entry.
LEMMA ResultsAppend ==
    ASSUME NEW entries \in Seq(Entries), NEW e \in Entries
    PROVE  /\ Results(entries) \in Seq(Seq(AnyNames))
           /\ Results(Append(entries, e)) =
                Append(Results(entries), IF entries # <<>> /\ e.sent = "tool" THEN e.names ELSE <<>>)
<1> DEFINE more == Append(entries, e)
           n == Len(entries)
           last == IF entries # <<>> /\ e.sent = "tool" THEN e.names ELSE <<>>
<1>1. /\ n \in Nat /\ DOMAIN entries = 1..n
      /\ \A i \in 1..n : entries[i] \in Entries
      /\ entries = <<>> <=> n = 0
  BY LenProperties, ElementOfSeq, EmptySeq
<1>2. /\ more \in Seq(Entries) /\ DOMAIN more = 1..(n + 1)
      /\ \A i \in 1..n : more[i] = entries[i]
      /\ more[n + 1] = e
  BY AppendProperties, LenProperties
<1>3. last \in Seq(AnyNames) /\ <<>> \in Seq(AnyNames)
  BY EmptySeq DEF Entries
<1> HIDE DEF more, n
<1>4. Results(entries) \in [1..n -> Seq(AnyNames)]
  BY <1>1, <1>3 DEF Results, Entries
<1>5. Results(entries) \in Seq(Seq(AnyNames)) /\ Len(Results(entries)) = n
  <2>1. Results(entries) \in Seq(Seq(AnyNames))
    BY <1>1, <1>4, SeqDef
  <2>2. DOMAIN Results(entries) = 1..n
    BY <1>4
  <2>3. Len(Results(entries)) \in Nat /\ DOMAIN Results(entries) = 1..Len(Results(entries))
    BY <2>1, LenProperties
  <2> QED
    BY <1>1, <2>1, <2>2, <2>3, LenProperties
<1>6. Results(more) \in [1..(n + 1) -> Seq(AnyNames)]
  <2>1. \A i \in 1..(n + 1) : more[i] \in Entries
    BY <1>2, LenProperties, ElementOfSeq
  <2> QED
    BY <1>2, <1>3, <2>1 DEF Results, Entries
<1> DEFINE joined == Append(Results(entries), last)
<1>7. /\ joined \in Seq(Seq(AnyNames)) /\ DOMAIN joined = 1..(n + 1)
      /\ \A i \in 1..n : joined[i] = Results(entries)[i]
      /\ joined[n + 1] = last
  BY <1>3, <1>5, AppendProperties, LenProperties
<1>8. ASSUME NEW i \in 1..(n + 1) PROVE Results(more)[i] = joined[i]
  <2>1. CASE i = n + 1
    <3>1. Results(more)[i] = IF i > 1 /\ more[i].sent = "tool" THEN more[i].names ELSE <<>>
      BY <1>2 DEF Results
    <3>2. entries # <<>> <=> i > 1
      BY <1>1, <2>1
    <3> QED
      BY <1>2, <1>7, <2>1, <3>1, <3>2
  <2>2. CASE i \in 1..n
    <3>1. /\ Results(more)[i] = IF i > 1 /\ more[i].sent = "tool" THEN more[i].names ELSE <<>>
          /\ Results(entries)[i] = IF i > 1 /\ entries[i].sent = "tool" THEN entries[i].names ELSE <<>>
      BY <1>1, <1>2, <2>2 DEF Results
    <3> QED
      BY <1>2, <1>7, <2>2, <3>1
  <2>3. n \in Nat
    BY <1>1
  <2>4. i = n + 1 \/ i \in 1..n
    BY <2>3
  <2> QED
    BY <2>1, <2>2, <2>4
<1>9. joined \in [1..(n + 1) -> Seq(AnyNames)]
  BY <1>7, LenProperties
<1> HIDE DEF joined, last
<1>10. Results(more) = joined
  <2>1. Results(more) = [i \in 1..(n + 1) |-> Results(more)[i]]
    BY <1>6
  <2>2. joined = [i \in 1..(n + 1) |-> joined[i]]
    BY <1>9
  <2> QED
    BY <1>8, <2>1, <2>2
<1> QED
  BY <1>5, <1>10 DEF more, joined, last

LEMMA ReportedAppend ==
    ASSUME NEW entries \in Seq(Entries), NEW e \in Entries
    PROVE  /\ FlattenSeq(Results(entries)) \in Seq(AnyNames)
           /\ FlattenSeq(Results(Append(entries, e))) =
                IF entries # <<>> /\ e.sent = "tool"
                  THEN FlattenSeq(Results(entries)) \o e.names ELSE FlattenSeq(Results(entries))
<1> DEFINE last == IF entries # <<>> /\ e.sent = "tool" THEN e.names ELSE <<>>
<1>1. last \in Seq(AnyNames)
  BY EmptySeq DEF Entries
<1>2. /\ Results(entries) \in Seq(Seq(AnyNames))
      /\ Results(Append(entries, e)) = Append(Results(entries), last)
  BY ResultsAppend
<1>3. FlattenSeq(Results(entries)) \in Seq(AnyNames)
  BY <1>2, FlattenType
<1>4. FlattenSeq(Append(Results(entries), last)) = FlattenSeq(Results(entries)) \o last
  BY <1>1, <1>2, FlattenAppend
<1>5. FlattenSeq(Results(entries)) \o <<>> = FlattenSeq(Results(entries))
  BY <1>3, ConcatEmptySeq
<1> QED
  BY <1>2, <1>3, <1>4, <1>5

-----------------------------------------------------------------------------
(* A message read from JSON and written again.                             *)

\* An item read again is typed as before; it is the item it was if Kept.
LEMMA ItemAgain ==
    ASSUME NEW item \in Items
    PROVE  /\ ContentFromJson(ContentToJson(ContentFromJson(item))) = ContentFromJson(item)
           /\ ContentToJson(ContentFromJson(item)) = item <=> Kept(item)
<1> DEFINE content == ContentFromJson(item)
           again == ContentToJson(content)
<1>1. item = [type |-> item.type, key |-> item.key, response |-> item.response, more |-> item.more]
      /\ item.more \in BOOLEAN
  BY DEF Items
<1>2. CASE item.type = "text" /\ item.key \in Strings
  <2>1. content = [is |-> "Text", text |-> item.key]
    BY <1>2 DEF ContentFromJson
  <2>2. again = Item("text", item.key, "absent")
    BY <2>1 DEF ContentToJson
  <2>3. ContentFromJson(again) = content
    BY <1>2, <2>1, <2>2 DEF ContentFromJson, Item
  <2>4. again = item <=> item.response = "absent" /\ item.more = FALSE
    BY <1>1, <1>2, <2>2 DEF Item
  <2> QED
    BY <1>1, <1>2, <2>3, <2>4 DEF Kept
<1>3. CASE item.type \in {"image", "audio"} /\ item.key \in Strings
  <2>1. content = File(item.type, item.key)
    BY <1>3 DEF ContentFromJson
  <2>2. again = Item(item.type, item.key, "absent")
    BY <2>1 DEF ContentToJson, File
  <2>3. ContentFromJson(again) = content
    BY <1>3, <2>1, <2>2 DEF ContentFromJson, Item
  <2>4. again = item <=> item.response = "absent" /\ item.more = FALSE
    BY <1>1, <1>3, <2>2 DEF Item
  <2> QED
    BY <1>1, <1>3, <2>3, <2>4 DEF Kept
<1>4. CASE item.type = "tool_response"
  <2> DEFINE name == IF item.key \in Strings THEN item.key ELSE "empty"
             response == IF item.response = "absent" THEN "null" ELSE item.response
  <2>1. content = [is |-> "ToolResponse", name |-> name, response |-> response]
    BY <1>4 DEF ContentFromJson
  <2>2. again = Item("tool_response", name, response)
    BY <2>1 DEF ContentToJson
  <2>3. name \in Strings /\ response # "absent"
    BY DEF Strings
  <2>4. /\ name = item.key <=> item.key \in Strings
        /\ response = item.response <=> item.response # "absent"
    BY <2>3
  <2> HIDE DEF name, response
  <2>5. ContentFromJson(again) = content
    BY <2>1, <2>2, <2>3 DEF ContentFromJson, Item
  <2>6. again = item <=> name = item.key /\ response = item.response /\ item.more = FALSE
    BY <1>1, <1>4, <2>2 DEF Item
  <2> QED
    BY <1>1, <1>4, <2>4, <2>5, <2>6 DEF Kept
<1>5. CASE item.type # "tool_response" /\ ~(item.type \in {"text", "image", "audio"} /\ item.key \in Strings)
  <2>1. content = [is |-> "Raw", value |-> item]
    BY <1>5 DEF ContentFromJson
  <2>2. again = item
    BY <2>1 DEF ContentToJson
  <2>3. Kept(item)
    BY <1>5 DEF Kept, Items, ItemTypes
  <2> QED
    BY <2>2, <2>3
<1> QED
  BY <1>2, <1>3, <1>4, <1>5

\* A tool call read again is the typed one it was; it is the JSON it was if
\* its id and its arguments were there.
LEMMA CallAgain ==
    ASSUME NEW names, NEW call \in ToolCalls(names), Readable(call)
    PROVE  /\ Readable(ToolCallToJson(ToolCallFromJson(call)))
           /\ ToolCallFromJson(ToolCallToJson(ToolCallFromJson(call))) = ToolCallFromJson(call)
           /\ ToolCallToJson(ToolCallFromJson(call)) = call
                <=> call.id # "absent" /\ call.arguments # "absent"
<1> DEFINE typed == ToolCallFromJson(call)
           again == ToolCallToJson(typed)
           id == IF call.id \in Strings THEN call.id ELSE "none"
           written == IF id = "none" THEN "null" ELSE id
           arguments == IF call.arguments = "absent" THEN "null" ELSE call.arguments
<1>1. /\ call = [name |-> call.name, id |-> call.id, arguments |-> call.arguments, more |-> call.more]
      /\ call.id \in Values
  BY DEF ToolCalls
<1>2. call.name # "malformed" /\ call.id # "other"
  BY DEF Readable
<1>3. typed = [name |-> call.name, id |-> id, arguments |-> arguments, more |-> call.more]
  BY DEF ToolCallFromJson
<1>4. again = [name |-> call.name, id |-> written, arguments |-> arguments, more |-> call.more]
  BY <1>3 DEF ToolCallToJson
<1>5. /\ written # "other" /\ arguments # "absent"
      /\ (IF written \in Strings THEN written ELSE "none") = id
      /\ written = call.id <=> call.id # "absent"
      /\ arguments = call.arguments <=> call.arguments # "absent"
  BY <1>1, <1>2 DEF Strings, Values
<1> HIDE DEF id, written, arguments
<1>6. Readable(again)
  BY <1>2, <1>4, <1>5 DEF Readable
<1>7. ToolCallFromJson(again) = typed
  BY <1>3, <1>4, <1>5 DEF ToolCallFromJson
<1>8. again = call <=> written = call.id /\ arguments = call.arguments
  BY <1>1, <1>4
<1> QED
  BY <1>5, <1>6, <1>7, <1>8

\* A part written again from a sequence as long as it.
LEMMA PartAgain ==
    ASSUME NEW S, NEW part \in Parts(S), NEW s, s = [i \in DOMAIN part.items |-> s[i]]
    PROVE  /\ NonEmpty(s).items = s
           /\ NonEmpty(s) = part <=>
                /\ part \notin {Unreadable, Array(<<>>)}
                /\ \A i \in DOMAIN part.items : s[i] = part.items[i]
<1>1. part.items \in Seq(S) /\ (part = Absent \/ part = Unreadable \/ part = Array(part.items))
  BY PartItems
<1>2. NonEmpty(s).items = s
  BY DEF NonEmpty, Absent, Array
<1>3. s = part.items <=> \A i \in DOMAIN part.items : s[i] = part.items[i]
  <2>1. part.items = [i \in DOMAIN part.items |-> part.items[i]]
    BY <1>1, LenProperties
  <2> QED
    BY <2>1
<1>4. NonEmpty(s) = part <=> part \notin {Unreadable, Array(<<>>)} /\ s = part.items
  BY <1>1 DEF NonEmpty, Absent, Unreadable, Array
<1> QED
  BY <1>2, <1>3, <1>4

\* Channels written again from those of them that are strings.
StringsOf(entries) ==
    [name \in {n \in DOMAIN entries : entries[n] \in Strings} |-> entries[name]]

LEMMA EmptyFunction ==
    ASSUME NEW f, f = [x \in DOMAIN f |-> f[x]], DOMAIN f = {}
    PROVE  f = <<>>
<1>1. f \in [1..0 -> {}]
  OBVIOUS
<1>2. f \in Seq({}) /\ Len(f) = 0
  BY <1>1, SeqDef, LenProperties
<1> QED
  BY <1>2, EmptySeq

LEMMA ChannelsAgain ==
    ASSUME NEW channels \in Channels
    PROVE  LET kept == StringsOf(channels.items)
               again == IF DOMAIN kept = {} THEN Absent ELSE Object(kept)
           IN  /\ StringsOf(again.items) = kept
               /\ again = channels <=>
                    /\ channels \notin {Unreadable, Object(<<>>)}
                    /\ \A name \in DOMAIN channels.items : channels.items[name] \in Strings
<1> DEFINE entries == channels.items
           kept == StringsOf(entries)
           again == IF DOMAIN kept = {} THEN Absent ELSE Object(kept)
<1>1. /\ kept = [name \in DOMAIN kept |-> kept[name]]
      /\ \A name \in DOMAIN kept : kept[name] \in Strings
  BY DEF StringsOf
<1>2. /\ entries = [name \in DOMAIN entries |-> entries[name]]
      /\ channels = Absent \/ channels = Unreadable \/ channels = Object(entries)
  <2>1. CASE channels \in {Absent, Unreadable}
    <3>1. entries = <<>>
      BY <2>1 DEF Absent, Unreadable
    <3> QED
      BY <2>1, <3>1
  <2>2. ASSUME NEW names \in SUBSET ChannelNames, NEW f \in [names -> Values \ {"absent"}], channels = Object(f)
        PROVE  entries = [name \in DOMAIN entries |-> entries[name]] /\ channels = Object(entries)
    BY <2>2 DEF Object
  <2> QED
    BY <2>1, <2>2 DEF Channels
<1>3. StringsOf(kept) = kept
  BY <1>1 DEF StringsOf
<1>4. DOMAIN kept = {} => kept = <<>>
  BY <1>1, EmptyFunction
<1>5. kept = entries <=> \A name \in DOMAIN entries : entries[name] \in Strings
  BY <1>1, <1>2 DEF StringsOf
<1> HIDE DEF kept, entries
<1>6. again.items = kept
  BY <1>4 DEF Absent, Object
<1>7. again = channels <=> channels \notin {Unreadable, Object(<<>>)} /\ kept = entries
  <2>1. entries = channels.items
    BY DEF entries
  <2>2. DOMAIN <<>> = {}
    OBVIOUS
  <2> QED
    BY <1>2, <1>4, <2>1, <2>2 DEF Absent, Unreadable, Object
<1> QED
  BY <1>3, <1>5, <1>6, <1>7 DEF kept, entries

\* The contents of a message from its items, and the part written from them.
ContentsOf(items) == [i \in DOMAIN items |-> ContentFromJson(items[i])]

PartOf(contents) == NonEmpty([i \in DOMAIN contents |-> ContentToJson(contents[i])])

LEMMA ContentsAgain ==
    ASSUME NEW part \in Parts(Items)
    PROVE  LET contents == ContentsOf(part.items)
               again == PartOf(contents)
           IN  /\ ContentsOf(again.items) = contents
               /\ again = part <=>
                    /\ part \notin {Unreadable, Array(<<>>)}
                    /\ \A i \in DOMAIN part.items : Kept(part.items[i])
<1> DEFINE items == part.items
           contents == [i \in DOMAIN items |-> ContentFromJson(items[i])]
           written == [i \in DOMAIN contents |-> ContentToJson(contents[i])]
<1>1. items \in Seq(Items)
  BY PartItems
<1>2. \A i \in DOMAIN items : items[i] \in Items
  BY <1>1, LenProperties, ElementOfSeq
<1>3. /\ written = [i \in DOMAIN items |-> written[i]] /\ DOMAIN written = DOMAIN items
      /\ \A i \in DOMAIN items : written[i] = ContentToJson(ContentFromJson(items[i]))
  OBVIOUS
<1>4. \A i \in DOMAIN items :
        /\ ContentFromJson(written[i]) = ContentFromJson(items[i])
        /\ written[i] = items[i] <=> Kept(items[i])
  BY <1>2, <1>3, ItemAgain
<1> HIDE DEF written
<1>5. [i \in DOMAIN written |-> ContentFromJson(written[i])] = contents
  BY <1>3, <1>4
<1>6. /\ NonEmpty(written).items = written
      /\ NonEmpty(written) = part <=>
            part \notin {Unreadable, Array(<<>>)} /\ \A i \in DOMAIN items : written[i] = items[i]
  BY <1>3, PartAgain
<1> QED
  BY <1>4, <1>5, <1>6 DEF written, ContentsOf, PartOf

LEMMA CallsAgain ==
    ASSUME NEW names, NEW part \in Parts(ToolCalls(names))
    PROVE  LET typed == ParseToolCalls(part)
               again == NonEmpty([i \in DOMAIN typed |-> ToolCallToJson(typed[i])])
           IN  /\ ParseToolCalls(again) = typed
               /\ again = part <=>
                    /\ part \notin {Unreadable, Array(<<>>)}
                    /\ \A i \in DOMAIN part.items :
                         Readable(part.items[i]) /\ part.items[i].id # "absent" /\ part.items[i].arguments # "absent"
<1> DEFINE items == part.items
           typed == ParseToolCalls(part)
           written == [i \in DOMAIN typed |-> ToolCallToJson(typed[i])]
           again == NonEmpty(written)
<1>1. /\ items \in Seq(ToolCalls(names))
      /\ part = Absent \/ part = Unreadable \/ part = Array(items)
  BY PartItems
<1>2. \A i \in DOMAIN items : items[i] \in ToolCalls(names)
  BY <1>1, LenProperties, ElementOfSeq
<1>3. CASE \A i \in DOMAIN items : Readable(items[i])
  <2>1. typed = [i \in DOMAIN items |-> ToolCallFromJson(items[i])]
    BY <1>3 DEF ParseToolCalls
  <2>2. /\ written = [i \in DOMAIN items |-> written[i]] /\ DOMAIN written = DOMAIN items
        /\ \A i \in DOMAIN items : written[i] = ToolCallToJson(ToolCallFromJson(items[i]))
    BY <2>1
  <2> HIDE DEF typed, written
  <2>3. \A i \in DOMAIN items :
          /\ Readable(written[i])
          /\ ToolCallFromJson(written[i]) = ToolCallFromJson(items[i])
          /\ written[i] = items[i] <=> items[i].id # "absent" /\ items[i].arguments # "absent"
    BY <1>2, <1>3, <2>2, CallAgain
  <2>4. /\ NonEmpty(written).items = written
        /\ NonEmpty(written) = part <=>
              part \notin {Unreadable, Array(<<>>)} /\ \A i \in DOMAIN items : written[i] = items[i]
    BY <2>2, PartAgain
  <2>5. ParseToolCalls(again) = [i \in DOMAIN written |-> ToolCallFromJson(written[i])]
    BY <2>2, <2>3, <2>4 DEF ParseToolCalls
  <2>6. ParseToolCalls(again) = typed
    BY <2>1, <2>2, <2>3, <2>5
  <2> QED
    BY <1>3, <2>3, <2>4, <2>6 DEF typed, written
<1>4. CASE ~ \A i \in DOMAIN items : Readable(items[i])
  <2>1. typed = <<>>
    BY <1>4 DEF ParseToolCalls
  <2>2. written = <<>>
    BY <2>1
  <2> HIDE DEF written
  <2>3. again = Absent
    BY <2>2 DEF NonEmpty
  <2>4. ParseToolCalls(Absent) = <<>>
    BY DEF ParseToolCalls, Absent
  <2>5. part # Absent
    BY <1>4 DEF Absent
  <2> QED
    BY <1>4, <2>1, <2>3, <2>4, <2>5 DEF written
<1> QED
  BY <1>3, <1>4

\* A message read, written and read again.
LEMMA MessageAgain ==
    ASSUME NEW names, NEW json \in JsonMessages(names)
    PROVE  /\ Typed(FromJson(ToJson(FromJson(json)))) = Typed(FromJson(json))
           /\ ToJson(FromJson(json)) = json <=> Replayable(json)
<1> DEFINE message == FromJson(json)
           replay == ToJson(message)
           content == PartOf(message.contents)
           channels == IF DOMAIN message.channels = {} THEN Absent ELSE Object(message.channels)
           list == NonEmpty([i \in DOMAIN message.tool_calls |-> ToolCallToJson(message.tool_calls[i])])
<1>1. /\ json = [role |-> json.role, content |-> json.content, channels |-> json.channels,
                 tool_calls |-> json.tool_calls, more |-> json.more]
      /\ json.content \in Parts(Items) /\ json.channels \in Channels
      /\ json.tool_calls \in Parts(ToolCalls(names)) /\ json.more \in BOOLEAN
  BY DEF JsonMessages
<1>2. /\ message.role = ParseRole(json.role)
      /\ message.contents = ContentsOf(json.content.items)
      /\ message.channels = StringsOf(json.channels.items)
      /\ message.tool_calls = ParseToolCalls(json.tool_calls)
  BY DEF FromJson, StringsOf, ContentsOf
<1>3. replay = [role |-> message.role, content |-> content, channels |-> channels,
                tool_calls |-> list, more |-> FALSE]
  BY DEF ToJson, JsonMessage, PartOf
<1>4. /\ ContentsOf(content.items) = message.contents
      /\ content = json.content <=>
            /\ json.content \notin {Unreadable, Array(<<>>)}
            /\ \A i \in DOMAIN json.content.items : Kept(json.content.items[i])
  BY <1>1, <1>2, ContentsAgain
<1>5. /\ StringsOf(channels.items) = message.channels
      /\ channels = json.channels <=>
            /\ json.channels \notin {Unreadable, Object(<<>>)}
            /\ \A name \in DOMAIN json.channels.items : json.channels.items[name] \in Strings
  BY <1>1, <1>2, ChannelsAgain
<1>6. /\ ParseToolCalls(list) = message.tool_calls
      /\ list = json.tool_calls <=>
            /\ json.tool_calls \notin {Unreadable, Array(<<>>)}
            /\ \A i \in DOMAIN json.tool_calls.items :
                 LET call == json.tool_calls.items[i]
                 IN  Readable(call) /\ call.id # "absent" /\ call.arguments # "absent"
  BY <1>1, <1>2, CallsAgain
<1>7. /\ ParseRole(message.role) = message.role
      /\ message.role = json.role <=> json.role \in Roles
  BY <1>2 DEF ParseRole, Roles
<1> HIDE DEF message, content, channels, list
<1>8. Typed(FromJson(replay)) = Typed(message)
  <2>1. /\ FromJson(replay).role = ParseRole(replay.role)
        /\ FromJson(replay).contents = ContentsOf(replay.content.items)
        /\ FromJson(replay).channels = StringsOf(replay.channels.items)
        /\ FromJson(replay).tool_calls = ParseToolCalls(replay.tool_calls)
    BY DEF FromJson, StringsOf, ContentsOf
  <2>2. replay.role = message.role /\ replay.content = content /\ replay.channels = channels /\ replay.tool_calls = list
    BY <1>3
  <2> HIDE DEF replay
  <2> QED
    BY <1>4, <1>5, <1>6, <1>7, <2>1, <2>2 DEF Typed
<1>9. replay = json <=>
        /\ message.role = json.role /\ content = json.content /\ channels = json.channels
        /\ list = json.tool_calls /\ json.more = FALSE
  BY <1>1, <1>3
<1>10. replay = json <=> Replayable(json)
  <2> HIDE DEF replay
  <2> QED
    BY <1>1, <1>4, <1>5, <1>6, <1>7, <1>9 DEF Replayable
<1> QED
  BY <1>8, <1>10 DEF message

LEMMA NoAnswerTyped == NoAnswer \in JsonMessages(Names)
<1>1. /\ \A S : Absent \in Parts(S)
      /\ Absent \in Channels /\ "model" \in Roles
  BY DEF Parts, Channels, Roles
<1> QED
  BY <1>1 DEF NoAnswer, JsonMessage, JsonMessages

-----------------------------------------------------------------------------
(* The types.                                                              *)

LEMMA TypeInit == Init => TypeInv
<1>1. <<>> \in Seq(AnyNames) /\ <<>> \in Seq(Entries)
  BY EmptySeq
<1>2. UserMessage \in Entries /\ UserMessage.sent # "response"
  BY MessageTypes
<1> SUFFICES ASSUME Init PROVE TypeInv
  OBVIOUS
<1>3. /\ calls \in Seq(AnyNames) /\ responses \in Seq(AnyNames) /\ log \in Seq(Entries)
      /\ ran \in Seq(AnyNames) /\ answer \in JsonMessages(Names)
  BY <1>1, NoAnswerTyped DEF Init
<1>4. current \in Entries /\ current.sent # "response"
  BY <1>2 DEF Init
<1> QED
  BY <1>3, <1>4 DEF Init, TypeInv

LEMMA TypeStart ==
    ASSUME TypeInv, NEW message \in Entries, message.sent # "response",
           NEW auto \in BOOLEAN, NEW n \in Limits, Start(message, auto, n)
    PROVE  TypeInv'
<1>1. <<>> \in Seq(AnyNames) /\ <<>> \in Seq(Entries)
  BY EmptySeq
<1>2. n \in Nat
  BY ConstantsAssumption DEF ConstantsAssumption
<1> QED
  BY <1>1, <1>2, NoAnswerTyped DEF Start, TypeInv, RoundsOf

\* What the client may send.
LEMMA Sendable ==
    /\ \A k \in 0..MaxCalls : \A s \in [1..k -> Names] : s \in Seq(AnyNames)
    /\ \A s \in ResultLists : s \in Seq(AnyNames)
<1>1. MaxCalls \in Nat
  BY ConstantsAssumption DEF ConstantsAssumption
<1>2. ASSUME NEW k \in 0..MaxCalls, NEW s \in [1..k -> AnyNames] PROVE s \in Seq(AnyNames)
  BY <1>1, ListsAreSeqs
<1>3. \A k \in 0..MaxCalls : [1..k -> Names] \subseteq [1..k -> AnyNames]
  BY DEF AnyNames
<1> QED
  BY <1>2, <1>3 DEF ResultLists, AnyNames

\* A message of the client starts a call, in one of two ways.
LEMMA Starts ==
    ASSUME TypeInv, Send \/ (ContinueTools /\ pc' # "idle")
    PROVE  \E message \in Entries, auto \in BOOLEAN, n \in Limits :
              message.sent # "response" /\ Start(message, auto, n)
<1>1. CASE Send
  <2>1. PICK auto \in BOOLEAN, n \in Limits,
             message \in {UserMessage} \cup {ToolMessage(s) : s \in UNION {[1..k -> Names] : k \in 0..MaxCalls}} :
               Start(message, auto, n)
    BY <1>1 DEF Send
  <2>2. message \in Entries /\ message.sent # "response"
    BY Sendable, MessageTypes
  <2> QED
    BY <2>1, <2>2
<1>2. CASE ContinueTools /\ pc' # "idle"
  <2>1. PICK results \in ResultLists, n \in Limits : Start(ToolMessage(results), FALSE, n)
    BY <1>2 DEF ContinueTools, Return
  <2>2. ToolMessage(results) \in Entries /\ ToolMessage(results).sent # "response"
    BY Sendable, MessageTypes
  <2> QED
    BY <2>1, <2>2
<1> QED
  BY <1>1, <1>2

LEMMA TypeNext == TypeInv /\ [Next]_vars => TypeInv'
<1> SUFFICES ASSUME TypeInv, [Next]_vars PROVE TypeInv'
  OBVIOUS
<1>1. CASE Send \/ (ContinueTools /\ pc' # "idle")
  BY <1>1, Starts, TypeStart
<1>2. CASE ContinueTools /\ pc' = "idle"
  <2>1. UNCHANGED <<tools, automatic, limit, left, current, calls, responses, log, ran, answer>>
    BY <1>2 DEF ContinueTools, Start
  <2> QED
    BY <1>2, <2>1 DEF TypeInv
<1>3. CASE SendOnce
  <2>1. PICK reply \in Replies :
          /\ log' = log \o <<current, Response(NamesOf(reply))>>
          /\ \/ pc' = "idle" /\ UNCHANGED <<calls, responses>>
             \/ pc' = "tools" /\ calls' = NamesOf(reply) /\ responses' = <<>>
          /\ answer' = reply \/ answer' = answer
    BY <1>3 DEF SendOnce, Return, TakeCalls
  <2>2. NamesOf(reply) \in Seq(AnyNames) /\ <<>> \in Seq(AnyNames)
    BY ParsedCalls, EmptySeq
  <2>3. log' \in Seq(Entries)
    BY <2>1, <2>2, LogGrows
  <2>4. left' \in Nat /\ UNCHANGED <<tools, automatic, limit, current, ran>>
    BY <1>3 DEF SendOnce, TypeInv
  <2>5. answer' \in JsonMessages(Names)
    BY <2>1, RepliesTyped DEF TypeInv
  <2> QED
    BY <2>1, <2>2, <2>3, <2>4, <2>5 DEF TypeInv
<1>4. CASE SendFails
  BY <1>4, LogEnds DEF SendFails, Return, TypeInv
<1>5. CASE RunTool
  <2>1. Head(calls) \in AnyNames /\ Tail(calls) \in Seq(AnyNames)
    BY <1>5, HeadTailProperties DEF RunTool, TypeInv
  <2>2. Append(responses, Head(calls)) \in Seq(AnyNames)
    BY <2>1, AppendProperties DEF TypeInv
  <2> QED
    BY <1>5, <2>1, <2>2 DEF RunTool, TypeInv
<1>6. CASE LimitReached \/ SendRefused \/ ToolFails
  BY <1>6 DEF LimitReached, SendRefused, ToolFails, Return, TypeInv
<1>7. CASE AnswerTools
  BY <1>7, MessageTypes DEF AnswerTools, TypeInv
<1>8. CASE UNCHANGED vars
  BY <1>8 DEF vars, TypeInv
<1> QED
  BY <1>1, <1>2, <1>3, <1>4, <1>5, <1>6, <1>7, <1>8 DEF Next

-----------------------------------------------------------------------------
(* The inductive invariant.                                                *)

LEMMA InitInv == Init => LoopInv
<1> SUFFICES ASSUME Init PROVE LoopInv
  OBVIOUS
<1>1. log = <<>> /\ DOMAIN log = {} /\ pc = "idle" /\ outcome = "none"
  BY DEF Init
<1> QED
  BY <1>1 DEF LoopInv, RoundsInv, PendingInv, AnswersInOrder, LimitIsRounds, OkIsFinal

LEMMA StartInv ==
    ASSUME TypeInv, LoopInv, NEW message, NEW auto, NEW n \in Limits, Start(message, auto, n)
    PROVE  LoopInv'
<1>1. n \in Nat
  BY ConstantsAssumption DEF ConstantsAssumption
<1>2. /\ log' = <<>> /\ DOMAIN log' = {} /\ Len(log') = 0
      /\ pc' = "round" /\ outcome' = "none" /\ left' = n /\ limit' = n
  BY DEF Start, RoundsOf
<1>3. RoundsInv'
  BY <1>1, <1>2 DEF RoundsInv
<1>4. PendingInv'
  BY <1>2 DEF PendingInv
<1>5. AnswersInOrder' /\ LimitIsRounds' /\ OkIsFinal'
  BY <1>2 DEF AnswersInOrder, LimitIsRounds, OkIsFinal
<1> QED
  BY <1>3, <1>4, <1>5 DEF LoopInv

\* A call of its own that sends nothing leaves what it may be judged by.
LEMMA QuietInv ==
    ASSUME LoopInv, UNCHANGED <<automatic, limit, left, current, log, answer>>, pc' = "idle",
           outcome' \notin {"ok", "limit"}
    PROVE  LoopInv'
BY DEF LoopInv, RoundsInv, PendingInv, AnswersInOrder, LimitIsRounds, OkIsFinal

\* A round that sends a message and gets its response. The message is the
\* client's first or made of the last response's calls, so the log keeps
\* alternating and each message of tools follows what it answers.
LEMMA SendOnceInv ==
    ASSUME TypeInv, TypeInv', LoopInv, SendOnce
    PROVE  LoopInv'
<1>1. PICK reply \in Replies :
        /\ log' = log \o <<current, Response(NamesOf(reply))>>
        /\ \/ /\ ~automatic \/ NamesOf(reply) = <<>>
              /\ pc' = "idle" /\ outcome' = "ok" /\ answer' = reply
           \/ /\ automatic /\ NamesOf(reply) # <<>>
              /\ pc' = "tools" /\ outcome' = outcome
              /\ calls' = NamesOf(reply) /\ responses' = <<>>
  BY DEF SendOnce, Return, TakeCalls
<1> DEFINE names == NamesOf(reply)
<1>2. /\ pc = "round" /\ left > 0 /\ left' = left - 1
      /\ limit' = limit /\ automatic' = automatic
      /\ left \in Nat /\ limit \in Nat
  BY DEF SendOnce, TypeInv
<1>3. /\ names \in Seq(AnyNames)
      /\ names = <<>> =>
            (reply.tool_calls.items # <<>> =>
                \E i \in DOMAIN reply.tool_calls.items : ~Readable(reply.tool_calls.items[i]))
  BY ParsedCalls
<1>4. /\ Response(names).sent = "response" /\ Response(names).names = names
      /\ \A s \in Seq(AnyNames) : ToolMessage(s).sent = "tool" /\ ToolMessage(s).names = s
  BY <1>3, MessageTypes
<1> HIDE DEF names
<1>5. log' = log \o <<current, Response(names)>>
  BY <1>1 DEF names
<1>6. /\ Len(log) \in Nat /\ Len(log') = Len(log) + 2
      /\ DOMAIN log = 1..Len(log) /\ DOMAIN log' = 1..(Len(log) + 2)
      /\ \A i \in DOMAIN log : log'[i] = log[i]
      /\ log'[Len(log) + 1] = current
      /\ log'[Len(log) + 2] = Response(names)
  BY <1>3, <1>5, LogGrows
<1>7. /\ limit - left \in Nat /\ Len(log) = 2 * (limit - left)
      /\ outcome = "none"
      /\ \A i \in DOMAIN log : log[i].sent = "response" <=> i % 2 = 0
      /\ \A i \in DOMAIN log : log[i].sent = "response" => log[i].names # <<>>
  BY <1>2 DEF LoopInv, RoundsInv
<1>8. LastCalls' = names
  <2>1. /\ limit' - left' \in Nat /\ limit' - left' > 0
        /\ Len(log') = 2 * (limit' - left')
    BY <1>2, <1>6, <1>7
  <2>2. (Len(log') \div 2 = limit' - left')
    BY <2>1, Half
  <2>3. Len(log') >= 2 /\ 2 * (Len(log') \div 2) = Len(log) + 2
    BY <1>6, <2>1, <2>2
  <2> QED
    BY <1>4, <1>6, <2>3 DEF LastCalls
<1>9. current.sent # "response"
  BY DEF TypeInv
<1>10. RoundsInv'
  <2>1. ASSUME NEW i \in DOMAIN log' PROVE log'[i].sent = "response" <=> i % 2 = 0
    <3>1. (Len(log) + 1) % 2 = 1 /\ (Len(log) + 2) % 2 = 0
      BY <1>7, Half
    <3>2. i \in DOMAIN log \/ i = Len(log) + 1 \/ i = Len(log) + 2
      BY <1>6
    <3> QED
      BY <1>4, <1>6, <1>7, <1>9, <3>1, <3>2
  <2>2. ASSUME pc' # "idle", NEW i \in DOMAIN log', log'[i].sent = "response"
        PROVE  log'[i].names # <<>>
    <3>1. names # <<>>
      BY <1>1, <2>2 DEF names
    <3>2. i \in DOMAIN log \/ i = Len(log) + 1 \/ i = Len(log) + 2
      BY <1>6
    <3> QED
      BY <1>4, <1>6, <1>7, <1>9, <2>2, <3>1, <3>2
  <2>3. pc' # "idle" => outcome' = "none"
    BY <1>1, <1>7
  <2>4. left' <= limit' /\ Len(log') = 2 * (limit' - left')
    BY <1>2, <1>6, <1>7
  <2> QED
    BY <2>1, <2>2, <2>3, <2>4 DEF RoundsInv
<1>11. PendingInv'
  <2>1. ASSUME pc' = "tools" PROVE responses' \o calls' = names
    <3>1. calls' = names /\ responses' = <<>>
      BY <1>1, <2>1 DEF names
    <3> QED
      BY <1>3, <3>1, ConcatEmptySeq
  <2>2. log' # <<>>
    BY <1>6
  <2>3. pc' # "round"
    BY <1>1
  <2> QED
    BY <1>8, <2>1, <2>2, <2>3 DEF PendingInv
<1>12. AnswersInOrder'
  <2>1. ASSUME NEW i \in DOMAIN log' \ {1}, log'[i].sent = "tool"
        PROVE  log'[i - 1].sent = "response" /\ log'[i].names = log'[i - 1].names
    <3>1. CASE i \in DOMAIN log
      <4>1. i - 1 \in DOMAIN log /\ log'[i - 1] = log[i - 1] /\ log'[i] = log[i]
        BY <1>6, <2>1, <3>1
      <4> QED
        BY <2>1, <3>1, <4>1 DEF LoopInv, AnswersInOrder
    <3>2. CASE i = Len(log) + 1
      <4>1. log # <<>> /\ Len(log) \in DOMAIN log /\ Len(log) = i - 1
        BY <1>6, <2>1, <3>2
      <4>2. limit - left > 0 /\ LastCalls = log[Len(log)].names
        BY <1>7, <4>1, LastOfRounds
      <4>3. current = ToolMessage(LastCalls)
        BY <1>2, <4>1 DEF LoopInv, PendingInv
      <4>4. Len(log) % 2 = 0
        BY <1>7, Half
      <4>5. log[Len(log)] \in Entries
        BY <4>1, ElementOfSeq, <1>6 DEF TypeInv
      <4>6. log[Len(log)].names \in Seq(AnyNames)
        BY <4>5 DEF Entries
      <4> QED
        BY <1>4, <1>6, <1>7, <3>2, <4>1, <4>2, <4>3, <4>4, <4>6
    <3>3. CASE i = Len(log) + 2
      BY <1>4, <1>6, <2>1, <3>3
    <3> QED
      BY <1>6, <3>1, <3>2, <3>3
  <2> QED
    BY <2>1 DEF AnswersInOrder
<1>13. LimitIsRounds'
  BY <1>1, <1>7 DEF LimitIsRounds
<1>14. OkIsFinal'
  <2>1. ASSUME outcome' = "ok", automatic'
        PROVE  /\ names = <<>>
               /\ answer'.tool_calls.items # <<>> =>
                    \E i \in DOMAIN answer'.tool_calls.items : ~Readable(answer'.tool_calls.items[i])
    <3>1. names = <<>> /\ answer' = reply
      BY <1>1, <1>2, <1>7, <2>1 DEF names
    <3> QED
      BY <1>3, <3>1
  <2> QED
    BY <1>8, <2>1 DEF OkIsFinal
<1> QED
  BY <1>10, <1>11, <1>12, <1>13, <1>14 DEF LoopInv

\* A message without a response: the log ends in it.
LEMMA SendFailsInv ==
    ASSUME TypeInv, LoopInv, SendFails
    PROVE  LoopInv'
<1>1. /\ pc = "round" /\ left > 0 /\ pc' = "idle" /\ outcome' = "send failed"
      /\ log' = Append(log, current) /\ left \in Nat /\ limit \in Nat
  BY DEF SendFails, Return, TypeInv
<1>2. /\ Len(log) \in Nat /\ Len(log') = Len(log) + 1
      /\ DOMAIN log = 1..Len(log) /\ DOMAIN log' = 1..(Len(log) + 1)
      /\ \A i \in DOMAIN log : log'[i] = log[i]
      /\ log'[Len(log) + 1] = current
  BY <1>1, LogEnds
<1>3. /\ limit - left \in Nat /\ Len(log) = 2 * (limit - left)
      /\ \A i \in DOMAIN log : log[i].sent = "response" <=> i % 2 = 0
  <2>1. /\ left <= limit /\ Len(log) = 2 * (limit - left)
        /\ \A i \in DOMAIN log : log[i].sent = "response" <=> i % 2 = 0
    BY <1>1 DEF LoopInv, RoundsInv
  <2>2. left \in Nat /\ limit \in Nat /\ left <= limit
    BY <1>1, <2>1
  <2>3. limit - left \in Nat
    BY <2>2
  <2> QED
    BY <2>1, <2>3
<1>4. RoundsInv'
  <2>1. ASSUME NEW i \in DOMAIN log' PROVE log'[i].sent = "response" <=> i % 2 = 0
    <3>1. (Len(log) + 1) % 2 = 1 /\ current.sent # "response"
      BY <1>3, Half DEF TypeInv
    <3>2. i \in DOMAIN log \/ i = Len(log) + 1
      BY <1>2
    <3> QED
      BY <1>2, <1>3, <3>1, <3>2
  <2> QED
    BY <1>1, <2>1 DEF RoundsInv
<1>5. AnswersInOrder'
  <2>1. ASSUME NEW i \in DOMAIN log' \ {1}, log'[i].sent = "tool"
        PROVE  log'[i - 1].sent = "response" /\ log'[i].names = log'[i - 1].names
    <3>1. CASE i \in DOMAIN log
      <4>1. i - 1 \in DOMAIN log /\ log'[i - 1] = log[i - 1] /\ log'[i] = log[i]
        BY <1>2, <2>1, <3>1
      <4> QED
        BY <2>1, <3>1, <4>1 DEF LoopInv, AnswersInOrder
    <3>2. CASE i = Len(log) + 1
      <4>1. log # <<>> /\ Len(log) \in DOMAIN log /\ Len(log) = i - 1
        BY <1>2, <2>1, <3>2
      <4>2. LastCalls = log[Len(log)].names
        BY <1>3, <4>1, LastOfRounds
      <4>3. current = ToolMessage(LastCalls)
        BY <1>1, <4>1 DEF LoopInv, PendingInv
      <4>4. Len(log) % 2 = 0
        BY <1>3, Half
      <4>5. log[Len(log)] \in Entries
        BY <4>1, ElementOfSeq, <1>2 DEF TypeInv
      <4>6. log[Len(log)].names \in Seq(AnyNames)
        BY <4>5 DEF Entries
      <4> QED
        BY <1>2, <1>3, <3>2, <4>1, <4>2, <4>3, <4>4, <4>6, MessageTypes
    <3> QED
      BY <1>2, <3>1, <3>2
  <2> QED
    BY <2>1 DEF AnswersInOrder
<1>6. PendingInv' /\ LimitIsRounds' /\ OkIsFinal'
  BY <1>1 DEF PendingInv, LimitIsRounds, OkIsFinal
<1> QED
  BY <1>4, <1>5, <1>6 DEF LoopInv

\* The rounds are used up, so the messages sent are as many as the limit.
LEMMA LimitReachedInv ==
    ASSUME TypeInv, LoopInv, LimitReached
    PROVE  LoopInv'
<1>1. /\ pc = "round" /\ left = 0 /\ pc' = "idle" /\ outcome' = "limit"
      /\ UNCHANGED <<limit, left, log>>
  BY DEF LimitReached, Return
<1>2. /\ Len(log) = 2 * limit
      /\ \A i \in DOMAIN log : log[i].sent = "response" => log[i].names # <<>>
  BY <1>1 DEF LoopInv, RoundsInv, TypeInv
<1>3. RoundsInv' /\ AnswersInOrder'
  BY <1>1 DEF LoopInv, RoundsInv, AnswersInOrder
<1>4. PendingInv' /\ LimitIsRounds' /\ OkIsFinal'
  BY <1>1, <1>2 DEF PendingInv, LimitIsRounds, OkIsFinal
<1> QED
  BY <1>3, <1>4 DEF LoopInv

\* A tool that has run passes from the calls to the results, at its place.
LEMMA RunToolInv ==
    ASSUME TypeInv, LoopInv, RunTool
    PROVE  LoopInv'
<1>1. /\ calls # <<>> /\ pc = "tools"
      /\ responses' = Append(responses, Head(calls)) /\ calls' = Tail(calls)
      /\ UNCHANGED <<pc, automatic, limit, left, current, log, outcome, answer>>
  BY DEF RunTool
<1>2. responses' \o calls' = responses \o calls
  <2>1. /\ Head(calls) \in AnyNames /\ Tail(calls) \in Seq(AnyNames)
        /\ Len(Tail(calls)) = Len(calls) - 1 /\ Len(calls) \in Nat \ {0}
        /\ \A i \in 1..Len(Tail(calls)) : Tail(calls)[i] = calls[i + 1]
        /\ Head(calls) = calls[1]
    BY <1>1, HeadTailProperties, EmptySeq DEF TypeInv
  <2>2. /\ Append(responses, Head(calls)) \in Seq(AnyNames)
        /\ Len(responses) \in Nat
        /\ Len(Append(responses, Head(calls))) = Len(responses) + 1
        /\ \A i \in 1..Len(responses) : Append(responses, Head(calls))[i] = responses[i]
        /\ Append(responses, Head(calls))[Len(responses) + 1] = Head(calls)
    BY <2>1, AppendProperties, LenProperties DEF TypeInv
  <2>3. /\ responses \o calls \in Seq(AnyNames)
        /\ Len(responses \o calls) = Len(responses) + Len(calls)
        /\ \A i \in 1..Len(responses) + Len(calls) :
             (responses \o calls)[i] =
                IF i <= Len(responses) THEN responses[i] ELSE calls[i - Len(responses)]
    BY ConcatProperties DEF TypeInv
  <2>4. /\ responses' \o calls' \in Seq(AnyNames)
        /\ Len(responses' \o calls') = Len(responses') + Len(calls')
        /\ \A i \in 1..Len(responses') + Len(calls') :
             (responses' \o calls')[i] =
                IF i <= Len(responses') THEN responses'[i] ELSE calls'[i - Len(responses')]
    BY <1>1, <2>1, <2>2, ConcatProperties
  <2>5. Len(responses' \o calls') = Len(responses \o calls)
    BY <1>1, <2>1, <2>2, <2>3, <2>4
  <2>6. ASSUME NEW i \in 1..Len(responses \o calls)
        PROVE  (responses' \o calls')[i] = (responses \o calls)[i]
    <3>1. i \in 1..Len(responses) + Len(calls) /\ i \in 1..Len(responses') + Len(calls')
      BY <2>3, <2>4, <2>5, <2>6
    <3>2. CASE i <= Len(responses)
      BY <1>1, <2>2, <2>3, <2>4, <3>1, <3>2
    <3>3. CASE i = Len(responses) + 1
      BY <1>1, <2>1, <2>2, <2>3, <2>4, <3>1, <3>3
    <3>4. CASE i > Len(responses) + 1
      <4>1. /\ (responses' \o calls')[i] = Tail(calls)[i - (Len(responses) + 1)]
            /\ (responses \o calls)[i] = calls[i - Len(responses)]
        BY <1>1, <2>2, <2>3, <2>4, <3>1, <3>4
      <4>2. i - (Len(responses) + 1) \in 1..Len(Tail(calls))
        BY <2>1, <2>2, <3>1, <3>4
      <4> QED
        BY <2>1, <2>2, <4>1, <4>2
    <3> QED
      BY <2>1, <2>2, <3>1, <3>2, <3>3, <3>4
  <2> QED
    BY <2>3, <2>4, <2>5, <2>6, SeqEqual
<1>3. LastCalls' = LastCalls
  BY <1>1 DEF LastCalls
<1>4. PendingInv'
  BY <1>1, <1>2, <1>3 DEF LoopInv, PendingInv
<1>5. RoundsInv' /\ AnswersInOrder' /\ LimitIsRounds' /\ OkIsFinal'
  BY <1>1, <1>3 DEF LoopInv, RoundsInv, AnswersInOrder, LimitIsRounds, OkIsFinal
<1> QED
  BY <1>4, <1>5 DEF LoopInv

\* With no call left the results are those of all calls.
LEMMA AnswerToolsInv ==
    ASSUME TypeInv, LoopInv, AnswerTools
    PROVE  LoopInv'
<1>1. /\ pc = "tools" /\ calls = <<>> /\ pc' = "round"
      /\ current' = ToolMessage(responses)
      /\ UNCHANGED <<automatic, limit, left, calls, responses, log, outcome, answer>>
  BY DEF AnswerTools
<1>2. LastCalls' = LastCalls
  BY <1>1 DEF LastCalls
<1>3. responses = LastCalls
  BY <1>1, ConcatEmptySeq DEF LoopInv, PendingInv, TypeInv
<1>4. PendingInv'
  BY <1>1, <1>2, <1>3 DEF PendingInv
<1>5. RoundsInv' /\ AnswersInOrder' /\ LimitIsRounds' /\ OkIsFinal'
  BY <1>1, <1>2 DEF LoopInv, RoundsInv, AnswersInOrder, LimitIsRounds, OkIsFinal
<1> QED
  BY <1>4, <1>5 DEF LoopInv

LEMMA StepInv == TypeInv /\ TypeInv' /\ LoopInv /\ [Next]_vars => LoopInv'
<1> SUFFICES ASSUME TypeInv, TypeInv', LoopInv, [Next]_vars PROVE LoopInv'
  OBVIOUS
<1>1. CASE Send \/ (ContinueTools /\ pc' # "idle")
  BY <1>1, Starts, StartInv
<1>2. CASE ContinueTools /\ pc' = "idle"
  <2>1. outcome' = "refused" /\ UNCHANGED <<automatic, limit, left, current, log, answer>>
    BY <1>2 DEF ContinueTools, Return, Start
  <2> QED
    BY <1>2, <2>1, QuietInv
<1>3. CASE SendOnce
  BY <1>3, SendOnceInv
<1>4. CASE SendFails
  BY <1>4, SendFailsInv
<1>10. CASE SendRefused
  BY <1>10, QuietInv DEF SendRefused, Return
<1>5. CASE LimitReached
  BY <1>5, LimitReachedInv
<1>6. CASE RunTool
  BY <1>6, RunToolInv
<1>7. CASE ToolFails
  BY <1>7, QuietInv DEF ToolFails, Return
<1>8. CASE AnswerTools
  BY <1>8, AnswerToolsInv
<1>9. CASE UNCHANGED vars
  BY <1>9 DEF vars, LoopInv, RoundsInv, PendingInv, LastCalls, AnswersInOrder, LimitIsRounds, OkIsFinal
<1> QED
  BY <1>1, <1>2, <1>3, <1>4, <1>5, <1>6, <1>7, <1>8, <1>9, <1>10 DEF Next

-----------------------------------------------------------------------------
(* What has been run and what of it has been reported.                     *)

LEMMA LastCallsTyped ==
    ASSUME NEW entries \in Seq(Entries)
    PROVE  (IF Len(entries) < 2 THEN <<>> ELSE entries[2 * (Len(entries) \div 2)].names) \in Seq(AnyNames)
<1>1. Len(entries) \in Nat
  BY LenProperties
<1>2. CASE Len(entries) < 2
  BY <1>2, EmptySeq
<1>3. CASE ~(Len(entries) < 2)
  <2>1. 2 * (Len(entries) \div 2) \in 1..Len(entries)
    BY <1>1, <1>3
  <2>2. entries[2 * (Len(entries) \div 2)] \in Entries
    BY <2>1, ElementOfSeq
  <2> QED
    BY <1>3, <2>2 DEF Entries
<1> QED
  BY <1>2, <1>3

LEMMA ReportedTyped == TypeInv => Reported \in Seq(AnyNames) /\ LastCalls \in Seq(AnyNames)
<1> SUFFICES ASSUME TypeInv PROVE Reported \in Seq(AnyNames) /\ LastCalls \in Seq(AnyNames)
  OBVIOUS
<1>1. log \in Seq(Entries)
  BY DEF TypeInv
<1>2. UserMessage \in Entries
  BY MessageTypes
<1>3. FlattenSeq(Results(log)) \in Seq(AnyNames)
  BY <1>1, <1>2, ReportedAppend
<1> QED
  BY <1>1, <1>3, LastCallsTyped DEF Reported, LastCalls

\* What is left to say once it is known what has not been reported.
LEMMA EffectsOf ==
    ASSUME NEW reported \in Seq(AnyNames), NEW rest \in Seq(AnyNames), NEW last \in Seq(AnyNames),
           \E more \in Seq(AnyNames) : last = rest \o more
    PROVE  LET done == reported \o rest
               unsent == SubSeq(done, Len(reported) + 1, Len(done))
           IN  IsPrefix(reported, done) /\ unsent = rest /\ IsPrefix(unsent, last)
<1>1. IsPrefix(reported, reported \o rest)
      /\ SubSeq(reported \o rest, Len(reported) + 1, Len(reported \o rest)) = rest
  BY PrefixOfConcat
<1>2. IsPrefix(rest, last)
  BY PrefixOfConcat
<1> QED
  BY <1>1, <1>2

LEMMA EffectsInit == Init => EffectsInv
<1> SUFFICES ASSUME Init PROVE EffectsInv
  OBVIOUS
<1>1. pc = "idle" /\ outcome = "none" /\ log = <<>> /\ ran = <<>>
  BY DEF Init
<1>2. Reported = <<>> /\ LastCalls = <<>>
  <2>1. Len(log) = 0 /\ Results(log) = <<>>
    BY <1>1, EmptySeq DEF Results
  <2> QED
    BY <2>1, FlattenEmpty DEF Reported, LastCalls
<1>3. <<>> \in Seq(AnyNames) /\ <<>> \o <<>> = <<>>
  BY EmptySeq, ConcatEmptySeq
<1>4. EffectsReported
  BY <1>1, <1>2, <1>3, EffectsOf DEF EffectsReported
<1> QED
  BY <1>1, <1>4 DEF EffectsInv, ReportedInv

LEMMA EffectsStart ==
    ASSUME TypeInv, NEW message, NEW auto, NEW n, Start(message, auto, n)
    PROVE  EffectsInv'
<1>1. pc' = "round" /\ outcome' = "none" /\ log' = <<>> /\ ran' = <<>>
  BY DEF Start
<1>2. Reported' = <<>> /\ LastCalls' = <<>>
  <2>1. Len(log') = 0 /\ Results(log') = <<>>
    BY <1>1, EmptySeq DEF Results
  <2> QED
    BY <2>1, FlattenEmpty DEF Reported, LastCalls
<1>3. <<>> \in Seq(AnyNames) /\ <<>> \o <<>> = <<>>
  BY EmptySeq, ConcatEmptySeq
<1>4. EffectsReported'
  BY <1>1, <1>2, <1>3, EffectsOf DEF EffectsReported
<1> QED
  BY <1>1, <1>2, <1>3, <1>4 DEF EffectsInv, ReportedInv

\* A call that ends without having sent anything more.
LEMMA EffectsQuiet ==
    ASSUME EffectsInv, UNCHANGED <<log, ran>>, pc' = "idle", outcome' \notin {"ok", "send failed", "limit", "not sent"}
    PROVE  EffectsInv'
<1>1. Reported' = Reported /\ LastCalls' = LastCalls
  BY DEF Reported, LastCalls
<1> QED
  BY <1>1 DEF EffectsInv, ReportedInv, EffectsReported

\* The message of a round reports what has been run and is not reported yet.
LEMMA MessageReports ==
    ASSUME TypeInv, LoopInv, EffectsInv, pc = "round"
    PROVE  /\ current \in Entries /\ log \in Seq(Entries)
           /\ FlattenSeq(Results(Append(log, current))) = ran
<1>1. current \in Entries /\ log \in Seq(Entries)
  BY DEF TypeInv
<1>2. ran = Reported \o LastCalls /\ Reported \in Seq(AnyNames) /\ LastCalls \in Seq(AnyNames)
  BY ReportedTyped DEF EffectsInv, ReportedInv
<1>3. CASE log = <<>>
  <2>1. LastCalls = <<>>
    BY <1>3, EmptySeq DEF LastCalls
  <2>2. ran = Reported
    BY <1>2, <2>1, ConcatEmptySeq
  <2> QED
    BY <1>1, <1>3, <2>2, ReportedAppend DEF Reported
<1>4. CASE log # <<>>
  <2>1. current = ToolMessage(LastCalls)
    BY <1>4 DEF LoopInv, PendingInv
  <2>2. current.sent = "tool" /\ current.names = LastCalls
    BY <1>2, <2>1, MessageTypes
  <2> QED
    BY <1>1, <1>2, <1>4, <2>2, ReportedAppend DEF Reported
<1> QED
  BY <1>1, <1>3, <1>4

LEMMA EffectsSendOnce ==
    ASSUME TypeInv, TypeInv', LoopInv, LoopInv', EffectsInv, SendOnce
    PROVE  EffectsInv'
<1>1. PICK reply \in Replies :
        /\ log' = log \o <<current, Response(NamesOf(reply))>>
        /\ \/ pc' = "idle" /\ outcome' = "ok"
           \/ pc' = "tools" /\ outcome' = outcome /\ responses' = <<>>
  BY DEF SendOnce, Return, TakeCalls
<1>2. pc = "round" /\ ran' = ran
  BY DEF SendOnce
<1> DEFINE response == Response(NamesOf(reply))
<1>3. /\ response \in Entries /\ response.sent = "response"
      /\ current \in Entries /\ log \in Seq(Entries)
  BY ParsedCalls, MessageTypes DEF TypeInv
<1> HIDE DEF response
<1>4. log' = Append(Append(log, current), response)
  <2>1. /\ Append(log, current) \in Seq(Entries)
        /\ Append(log, current) = log \o <<current>>
    BY <1>3, AppendProperties, AppendIsConcat
  <2>2. Append(Append(log, current), response) = (log \o <<current>>) \o <<response>>
    BY <1>3, <2>1, AppendIsConcat
  <2>3. <<current>> \in Seq(Entries) /\ <<response>> \in Seq(Entries)
    BY <1>3
  <2>4. (log \o <<current>>) \o <<response>> = log \o (<<current>> \o <<response>>)
    BY <1>3, <2>3, ConcatAssociative
  <2>5. <<current>> \o <<response>> = <<current, response>>
    <3>1. /\ Len(<<current>> \o <<response>>) = 2
          /\ (<<current>> \o <<response>>)[1] = current
          /\ (<<current>> \o <<response>>)[2] = response
          /\ <<current>> \o <<response>> \in Seq(Entries)
      BY <2>3, ConcatProperties
    <3>2. <<current, response>> \in Seq(Entries) /\ Len(<<current, response>>) = 2
      BY <1>3
    <3>3. \A i \in 1..2 : (<<current>> \o <<response>>)[i] = <<current, response>>[i]
      BY <3>1
    <3> QED
      BY <3>1, <3>2, <3>3, SeqEqual
  <2> QED
    BY <1>1, <2>2, <2>4, <2>5 DEF response
<1>5. Reported' = ran
  <2>1. FlattenSeq(Results(Append(log, current))) = ran
    BY <1>2, MessageReports
  <2>2. Append(log, current) \in Seq(Entries)
    BY <1>3, AppendProperties
  <2>3. FlattenSeq(Results(Append(Append(log, current), response))) = FlattenSeq(Results(Append(log, current)))
    BY <1>3, <2>2, ReportedAppend
  <2> QED
    BY <1>4, <2>1, <2>3 DEF Reported
<1>6. /\ ran \in Seq(AnyNames) /\ <<>> \in Seq(AnyNames) /\ ran \o <<>> = ran
      /\ LastCalls' \in Seq(AnyNames) /\ LastCalls' = <<>> \o LastCalls'
  <2>1. log' \in Seq(Entries)
    BY DEF TypeInv
  <2>2. LastCalls' \in Seq(AnyNames)
    BY <2>1, LastCallsTyped DEF LastCalls
  <2> QED
    BY <2>2, EmptySeq, ConcatEmptySeq DEF TypeInv
<1>7. outcome = "none"
  BY <1>2 DEF LoopInv, RoundsInv
<1>8. ReportedInv'
  BY <1>1, <1>2, <1>5, <1>6 DEF ReportedInv
<1>9. EffectsReported'
  <2>1. /\ IsPrefix(ran, ran \o <<>>)
        /\ SubSeq(ran \o <<>>, Len(ran) + 1, Len(ran \o <<>>)) = <<>>
    BY <1>6, PrefixOfConcat
  <2>2. IsPrefix(<<>>, <<>> \o LastCalls')
    BY <1>6, PrefixOfConcat
  <2>3. /\ IsPrefix(ran, ran) /\ IsPrefix(<<>>, LastCalls')
        /\ SubSeq(ran, Len(ran) + 1, Len(ran)) = <<>>
    BY <1>6, <2>1, <2>2
  <2> QED
    BY <1>1, <1>2, <1>5, <1>7, <2>3 DEF EffectsReported
<1> QED
  BY <1>8, <1>9 DEF EffectsInv

LEMMA EffectsSendFails ==
    ASSUME TypeInv, TypeInv', LoopInv, EffectsInv, SendFails
    PROVE  EffectsInv'
<1>1. /\ pc = "round" /\ pc' = "idle" /\ outcome' = "send failed"
      /\ log' = Append(log, current) /\ ran' = ran
  BY DEF SendFails, Return
<1>2. Reported' = ran
  BY <1>1, MessageReports DEF Reported
<1>3. /\ ran \in Seq(AnyNames) /\ <<>> \in Seq(AnyNames) /\ ran \o <<>> = ran
      /\ LastCalls' \in Seq(AnyNames) /\ LastCalls' = <<>> \o LastCalls'
  <2>1. log' \in Seq(Entries)
    BY DEF TypeInv
  <2>2. LastCalls' \in Seq(AnyNames)
    BY <2>1, LastCallsTyped DEF LastCalls
  <2> QED
    BY <2>2, EmptySeq, ConcatEmptySeq DEF TypeInv
<1>4. EffectsReported'
  <2>1. /\ IsPrefix(ran, ran \o <<>>)
        /\ SubSeq(ran \o <<>>, Len(ran) + 1, Len(ran \o <<>>)) = <<>>
    BY <1>3, PrefixOfConcat
  <2>2. IsPrefix(<<>>, <<>> \o LastCalls')
    BY <1>3, PrefixOfConcat
  <2>3. /\ IsPrefix(ran, ran) /\ IsPrefix(<<>>, LastCalls')
        /\ SubSeq(ran, Len(ran) + 1, Len(ran)) = <<>>
    BY <1>3, <2>1, <2>2
  <2> QED
    BY <1>1, <1>2, <2>3 DEF EffectsReported
<1> QED
  BY <1>1, <1>4 DEF EffectsInv, ReportedInv

\* A call that ends before its message is handed over: at the limit, or
\* because it cannot be.
LEMMA EffectsKeptBack ==
    ASSUME TypeInv, EffectsInv, LimitReached \/ SendRefused
    PROVE  EffectsInv'
<1>1. /\ pc = "round" /\ pc' = "idle" /\ UNCHANGED <<log, ran>>
      /\ outcome' = "limit" \/ outcome' = "not sent"
  BY DEF LimitReached, SendRefused, Return
<1>2. Reported' = Reported /\ LastCalls' = LastCalls
  BY <1>1 DEF Reported, LastCalls
<1>3. /\ ran = Reported \o LastCalls
      /\ Reported \in Seq(AnyNames) /\ LastCalls \in Seq(AnyNames) /\ <<>> \in Seq(AnyNames)
      /\ LastCalls = LastCalls \o <<>>
  BY <1>1, ReportedTyped, EmptySeq, ConcatEmptySeq DEF EffectsInv, ReportedInv
<1>4. EffectsReported'
  BY <1>1, <1>2, <1>3, EffectsOf DEF EffectsReported
<1> QED
  BY <1>1, <1>4 DEF EffectsInv, ReportedInv

\* While the tools run, what they have done is kept for the next message.
LEMMA EffectsTools ==
    ASSUME TypeInv, TypeInv', LoopInv, LoopInv', EffectsInv, RunTool \/ AnswerTools
    PROVE  EffectsInv'
<1>1. pc = "tools" /\ outcome = "none" /\ outcome' = outcome /\ log' = log
  BY DEF RunTool, AnswerTools, LoopInv, RoundsInv
<1>2. Reported' = Reported /\ LastCalls' = LastCalls
  BY <1>1 DEF Reported, LastCalls
<1>3. ran = Reported \o responses /\ responses \o calls = LastCalls
  BY <1>1 DEF EffectsInv, ReportedInv, LoopInv, PendingInv
<1>4. /\ Reported \in Seq(AnyNames) /\ LastCalls \in Seq(AnyNames)
      /\ responses \in Seq(AnyNames) /\ calls \in Seq(AnyNames)
      /\ responses' \in Seq(AnyNames) /\ calls' \in Seq(AnyNames)
  BY ReportedTyped DEF TypeInv
<1>5. CASE RunTool
  <2>1. /\ calls # <<>> /\ pc' = "tools"
        /\ ran' = Append(ran, Head(calls)) /\ responses' = Append(responses, Head(calls))
    BY <1>1, <1>5 DEF RunTool
  <2>2. Head(calls) \in AnyNames /\ <<Head(calls)>> \in Seq(AnyNames)
    BY <1>4, <2>1, HeadTailProperties
  <2>3. ran' = Reported' \o responses'
    <3>1. ran \in Seq(AnyNames)
      BY DEF TypeInv
    <3>2. ran' = ran \o <<Head(calls)>> /\ responses' = responses \o <<Head(calls)>>
      BY <1>4, <2>1, <2>2, <3>1, AppendIsConcat
    <3>3. (Reported \o responses) \o <<Head(calls)>> = Reported \o (responses \o <<Head(calls)>>)
      <4>1. Reported \in Seq(AnyNames) /\ responses \in Seq(AnyNames) /\ <<Head(calls)>> \in Seq(AnyNames)
        BY <1>4, <2>2
      <4> HIDE DEF Reported
      <4> QED
        BY <4>1, ConcatAssociative
    <3> QED
      BY <1>2, <1>3, <3>2, <3>3
  <2>4. responses' \o calls' = LastCalls'
    BY <2>1 DEF LoopInv, PendingInv
  <2>5. EffectsReported'
    BY <1>1, <1>2, <1>4, <2>3, <2>4, EffectsOf DEF EffectsReported
  <2> QED
    BY <2>1, <2>3, <2>5 DEF EffectsInv, ReportedInv
<1>6. CASE AnswerTools
  <2>1. pc' = "round" /\ ran' = ran /\ calls = <<>>
    BY <1>6 DEF AnswerTools
  <2>2. responses = LastCalls
    BY <1>3, <1>4, <2>1, ConcatEmptySeq
  <2>3. EffectsReported'
    BY <1>1, <1>2, <2>1 DEF EffectsInv, EffectsReported
  <2> QED
    BY <1>2, <1>3, <2>1, <2>2, <2>3 DEF EffectsInv, ReportedInv
<1> QED
  BY <1>5, <1>6

\* A tool that fails keeps from the model what the ones before it have done.
LEMMA EffectsToolFails ==
    ASSUME EffectsInv, ToolFails
    PROVE  EffectsInv'
BY EffectsQuiet DEF ToolFails, Return

LEMMA EffectsStep ==
    TypeInv /\ TypeInv' /\ LoopInv /\ LoopInv' /\ EffectsInv /\ [Next]_vars => EffectsInv'
<1> SUFFICES ASSUME TypeInv, TypeInv', LoopInv, LoopInv', EffectsInv, [Next]_vars PROVE EffectsInv'
  OBVIOUS
<1>1. CASE Send \/ (ContinueTools /\ pc' # "idle")
  BY <1>1, Starts, EffectsStart
<1>2. CASE ContinueTools /\ pc' = "idle"
  <2>1. outcome' = "refused" /\ UNCHANGED <<log, ran>>
    BY <1>2 DEF ContinueTools, Return, Start
  <2> QED
    BY <1>2, <2>1, EffectsQuiet
<1>3. CASE SendOnce
  BY <1>3, EffectsSendOnce
<1>4. CASE SendFails
  BY <1>4, EffectsSendFails
<1>5. CASE LimitReached \/ SendRefused
  BY <1>5, EffectsKeptBack
<1>6. CASE RunTool \/ AnswerTools
  BY <1>6, EffectsTools
<1>7. CASE ToolFails
  BY <1>7, EffectsToolFails
<1>8. CASE UNCHANGED vars
  <2>1. UNCHANGED <<pc, responses, log, ran, outcome>>
    BY <1>8 DEF vars
  <2>2. Reported' = Reported /\ LastCalls' = LastCalls
    BY <2>1 DEF Reported, LastCalls
  <2> QED
    BY <2>1, <2>2 DEF EffectsInv, ReportedInv, EffectsReported
<1> QED
  BY <1>1, <1>2, <1>3, <1>4, <1>5, <1>6, <1>7, <1>8 DEF Next

-----------------------------------------------------------------------------
\* The loop of send_message_raw keeps its messages, its rounds and the
\* results it has collected in step, through any responses and any failures.
THEOREM Invariant == Spec => [](TypeInv /\ IInv)
<1>1. Init => TypeInv /\ IInv
  BY TypeInit, InitInv, EffectsInit DEF IInv
<1>2. TypeInv /\ IInv /\ [Next]_vars => (TypeInv /\ IInv)'
  BY TypeNext, StepInv, EffectsStep DEF IInv
<1> QED
  BY <1>1, <1>2, PTL DEF Spec

\* conversation.rs:229: a message of tool results follows the response that
\* asked for them and has one result for each of its calls, in their order.
THEOREM AnswersFollowCalls == Spec => []AnswersInOrder
<1>1. TypeInv /\ IInv => AnswersInOrder
  BY DEF IInv, LoopInv
<1> QED
  BY <1>1, Invariant, PTL

\* conversation.rs:231: the error of the limit means that so many messages
\* were sent and each was answered by tool calls.
THEOREM LimitCountsRounds == Spec => []LimitIsRounds
<1>1. TypeInv /\ IInv => LimitIsRounds
  BY DEF IInv, LoopInv
<1> QED
  BY <1>1, Invariant, PTL

\* conversation.rs:224: with automatic tool calling, Ok is no response that
\* still asks for tools, unless its list of calls cannot be read.
THEOREM OkAsksForNothing == Spec => []OkIsFinal
<1>1. TypeInv /\ IInv => OkIsFinal
  BY DEF IInv, LoopInv
<1> QED
  BY <1>1, Invariant, PTL

\* conversation.rs:274, 246: a tool has effects, so every one that has run is
\* reported to the native conversation, in order and once, but for results of
\* the last response: when a tool after them fails, when the limit ends the
\* loop, or when the message with them is never handed over. A send that fails
\* after the message was handed over loses none on this side.
THEOREM EffectsAreReported == Spec => []EffectsReported
<1>1. TypeInv /\ IInv => EffectsReported
  BY DEF IInv, EffectsInv
<1> QED
  BY <1>1, Invariant, PTL

\* message.rs:176, 147, 227: what an answer loses it loses when it is first
\* read into a Message; written again for another conversation it is typed
\* as before. It is the JSON that the model gave just if it is Replayable,
\* with every field the typed form drops or fills in named there.
THEOREM AnswersReplay == Spec => []ReplaysAsSaid
<1>1. TypeInv => ReplaysAsSaid
  BY MessageAgain DEF TypeInv, ReplaysAsSaid
<1> QED
  BY <1>1, Invariant, PTL

=============================================================================
