------------------------ MODULE NativeObjectsProofs ------------------------
(***************************************************************************)
(* Every native object is deleted once, after all that borrows from it,    *)
(* whichever step of a method fails: the properties of NativeObjects, for  *)
(* every number of handles, inputs, requests and answers.                  *)
(*                                                                         *)
(* The first half is about the text of the methods. A shape is what the    *)
(* text knows at a step: how many functions have been entered and which    *)
(* kinds of objects each has got. Does says when a step is right after a   *)
(* shape and what comes of it, Fine the same of a sequence of steps, and   *)
(* MethodFine that every method is right from the beginning of a call to   *)
(* its end: it has got what it passes on, borrows from the one engine it   *)
(* can name, and leaves with nothing but what it returns.                  *)
(*                                                                         *)
(* The second half is about the objects. Safe is ObjectsInv with the       *)
(* variables as parameters: who owns what, and in which order it is        *)
(* deleted. It is not inductive alone: that the object passed on is there, *)
(* or that nothing is left behind that borrows from what is returned,      *)
(* rests on the steps before. Fits says that the objects there are as a    *)
(* shape has them, and Runs that the steps left are fine after that shape. *)
(* Inductive is Safe with either Runs or, once a step has failed, Unwinds: *)
(* only scopes are left to leave. A lemma called Keeps takes each action   *)
(* from Inductive to Inductive.                                            *)
(***************************************************************************)
EXTENDS NativeObjects, SequenceTheorems, FiniteSetTheorems, NaturalsInduction, WellFoundedInduction, TLAPS

-----------------------------------------------------------------------------
(* Sequences of sequences put end to end: FlattenSeq is defined by a       *)
(* recursive function, so its value comes from the least counterexample.   *)

\* A set of numbers has a least one.
Smaller == {p \in Nat \X Nat : p[1] < p[2]}

LEMMA LeastNumber ==
    ASSUME NEW T, T \subseteq Nat, T # {}
    PROVE  \E m \in T : \A k \in T : m <= k
<1>1. IsWellFoundedOn(Smaller, Nat)
  BY NatLessThanWellFounded, Zenon DEF OpToRel, Smaller
<1>2. PICK m \in T : \A k \in T : ~(<<k, m>> \in Smaller)
  BY <1>1, WFMin
<1>3. ASSUME NEW k \in T PROVE m <= k
  <2>1. k \in Nat /\ m \in Nat /\ <<k, m>> \in Nat \X Nat
    OBVIOUS
  <2>2. ~(k < m)
    BY <1>2, <2>1 DEF Smaller
  <2> QED
    BY <2>1, <2>2
<1> QED
  BY <1>3

\* The function FlattenSeq is defined by, up to n.
Flattens(f, seqs, n) ==
    f = [i \in 1..n |-> IF i = 1 THEN seqs[i] ELSE f[i - 1] \o seqs[i]]

LEMMA FlattensAt ==
    ASSUME NEW f, NEW seqs, NEW n \in Nat, Flattens(f, seqs, n), NEW i \in 1..n
    PROVE  f[i] = IF i = 1 THEN seqs[i] ELSE f[i - 1] \o seqs[i]
<1> DEFINE g == [j \in 1..n |-> IF j = 1 THEN seqs[j] ELSE f[j - 1] \o seqs[j]]
<1>1. f = g
  BY DEF Flattens
<1>2. g[i] = IF i = 1 THEN seqs[i] ELSE f[i - 1] \o seqs[i]
  OBVIOUS
<1> HIDE DEF g
<1> QED
  BY <1>1, <1>2

LEMMA FlattensIf ==
    ASSUME NEW seqs, NEW n \in Nat, NEW f, f = [i \in 1..n |-> f[i]],
           \A i \in 1..n : f[i] = IF i = 1 THEN seqs[i] ELSE f[i - 1] \o seqs[i]
    PROVE  Flattens(f, seqs, n)
BY DEF Flattens

\* It exists for every length.
LEMMA FlattensExists ==
    ASSUME NEW seqs, NEW n \in Nat
    PROVE  \E f : Flattens(f, seqs, n)
<1> DEFINE Missing == {k \in Nat : ~ \E f : Flattens(f, seqs, k)}
<1> SUFFICES ASSUME Missing # {} PROVE FALSE
  OBVIOUS
<1>1. PICK k \in Missing : \A j \in Missing : k <= j
  BY LeastNumber, Missing \subseteq Nat
<1> HIDE DEF Missing
<1>2. k \in Nat /\ ~ \E f : Flattens(f, seqs, k)
  BY DEF Missing
<1>3. CASE k = 0
  <2> DEFINE g == [i \in 1..0 |-> seqs[i]]
  <2>1. g = [i \in 1..0 |-> g[i]] /\ 1..0 = {}
    OBVIOUS
  <2> HIDE DEF g
  <2>2. Flattens(g, seqs, 0)
    BY <2>1, FlattensIf
  <2> QED
    BY <1>2, <1>3, <2>2
<1>4. CASE k > 0
  <2>1. k - 1 \in Nat /\ k - 1 \notin Missing
    BY <1>1, <1>2, <1>4
  <2>2. PICK f : Flattens(f, seqs, k - 1)
    BY <2>1 DEF Missing
  <2> DEFINE g == [i \in 1..k |-> IF i < k THEN f[i] ELSE IF k = 1 THEN seqs[k] ELSE f[k - 1] \o seqs[k]]
  <2>3. ASSUME NEW i \in 1..k PROVE g[i] = IF i = 1 THEN seqs[i] ELSE g[i - 1] \o seqs[i]
    <3>1. CASE i = k
      <4>1. g[i] = IF k = 1 THEN seqs[k] ELSE f[k - 1] \o seqs[k]
        BY <3>1
      <4>2. k # 1 => g[i - 1] = f[k - 1]
        BY <1>2, <1>4, <3>1
      <4> HIDE DEF g
      <4> QED
        BY <3>1, <4>1, <4>2
    <3>2. CASE i < k
      <4>1. i \in 1..(k - 1)
        BY <1>2, <3>2
      <4>2. f[i] = IF i = 1 THEN seqs[i] ELSE f[i - 1] \o seqs[i]
        BY <2>1, <2>2, <4>1, FlattensAt
      <4>3. g[i] = f[i]
        BY <3>2
      <4>4. i # 1 => g[i - 1] = f[i - 1]
        BY <1>2, <3>2
      <4> HIDE DEF g
      <4> QED
        BY <4>2, <4>3, <4>4
    <3> QED
      BY <1>2, <3>1, <3>2
  <2>4. g = [i \in 1..k |-> g[i]]
    OBVIOUS
  <2> HIDE DEF g
  <2>5. Flattens(g, seqs, k)
    BY <1>2, <2>3, <2>4, FlattensIf
  <2> QED
    BY <1>2, <2>5
<1> QED
  BY <1>2, <1>3, <1>4

\* Two of them agree on what they both flatten.
LEMMA FlattensAgree ==
    ASSUME NEW s, NEW t, NEW f, NEW g, NEW m \in Nat, NEW n \in Nat, m <= n,
           Flattens(f, s, m), Flattens(g, t, n), \A i \in 1..m : s[i] = t[i]
    PROVE  \A i \in 1..m : f[i] = g[i]
<1> DEFINE Differ == {i \in 1..m : f[i] # g[i]}
<1> SUFFICES ASSUME Differ # {} PROVE FALSE
  OBVIOUS
<1>1. PICK k \in Differ : \A j \in Differ : k <= j
  BY LeastNumber, Differ \subseteq Nat
<1>2. k \in 1..m /\ k \in 1..n /\ f[k] # g[k]
  OBVIOUS
<1>3. CASE k = 1
  BY <1>2, <1>3, FlattensAt
<1>4. CASE k # 1
  <2>1. k - 1 \in 1..m /\ k - 1 \notin Differ
    BY <1>1, <1>2, <1>4
  <2>2. f[k - 1] = g[k - 1]
    BY <2>1
  <2>3. f[k] = IF k = 1 THEN s[k] ELSE f[k - 1] \o s[k]
    BY <1>2, FlattensAt
  <2>4. g[k] = IF k = 1 THEN t[k] ELSE g[k - 1] \o t[k]
    BY <1>2, FlattensAt
  <2> QED
    BY <1>2, <1>4, <2>2, <2>3, <2>4
<1> QED
  BY <1>3, <1>4

LEMMA FlattenSeqIs ==
    ASSUME NEW seqs, NEW n \in Nat \ {0}, Len(seqs) = n
    PROVE  \E f : Flattens(f, seqs, n) /\ FlattenSeq(seqs) = f[n]
<1> DEFINE f == CHOOSE flatten : flatten = [i \in 1..Len(seqs) |-> IF i = 1 THEN seqs[i] ELSE flatten[i - 1] \o seqs[i]]
<1>1. \E g : g = [i \in 1..Len(seqs) |-> IF i = 1 THEN seqs[i] ELSE g[i - 1] \o seqs[i]]
  BY FlattensExists DEF Flattens
<1>2. f = [i \in 1..Len(seqs) |-> IF i = 1 THEN seqs[i] ELSE f[i - 1] \o seqs[i]]
  BY <1>1
<1>3. FlattenSeq(seqs) = f[Len(seqs)]
  BY DEF FlattenSeq
<1> HIDE DEF f
<1> QED
  BY <1>2, <1>3 DEF Flattens

LEMMA FlattenEmpty == FlattenSeq(<<>>) = <<>>
BY EmptySeq DEF FlattenSeq

LEMMA FlattenAppend ==
    ASSUME NEW S, NEW seqs \in Seq(Seq(S)), NEW s \in Seq(S)
    PROVE  FlattenSeq(Append(seqs, s)) = FlattenSeq(seqs) \o s
<1> DEFINE n == Len(seqs)
           more == Append(seqs, s)
<1>1. /\ n \in Nat /\ Len(more) = n + 1 /\ more[n + 1] = s
      /\ \A i \in 1..n : seqs[i] = more[i]
  BY AppendProperties, LenProperties
<1> HIDE DEF n, more
<1>2. PICK g : Flattens(g, more, n + 1) /\ FlattenSeq(more) = g[n + 1]
  BY <1>1, FlattenSeqIs
<1>3. CASE n = 0
  <2>1. seqs = <<>> /\ FlattenSeq(seqs) = <<>>
    BY <1>3, EmptySeq, FlattenEmpty DEF n
  <2>2. FlattenSeq(more) = s
    BY <1>1, <1>2, <1>3, FlattensAt
  <2> QED
    BY <2>1, <2>2, ConcatEmptySeq DEF more
<1>4. CASE n # 0
  <2>1. PICK f : Flattens(f, seqs, n) /\ FlattenSeq(seqs) = f[n]
    BY <1>1, <1>4, FlattenSeqIs DEF n
  <2>2. n \in Nat
    BY <1>1
  <2>3. n + 1 \in Nat /\ n \in 1..n /\ n + 1 \in 1..(n + 1) /\ n <= n + 1 /\ n + 1 # 1 /\ (n + 1) - 1 = n
    BY <1>4, <2>2
  <2>4. \A i \in 1..n : f[i] = g[i]
    <3>1. /\ Flattens(f, seqs, n) /\ Flattens(g, more, n + 1)
          /\ \A i \in 1..n : seqs[i] = more[i]
      BY <1>1, <1>2, <2>1
    <3> QED
      BY <2>2, <2>3, <3>1, FlattensAgree
  <2>5. g[n + 1] = IF n + 1 = 1 THEN more[n + 1] ELSE g[(n + 1) - 1] \o more[n + 1]
    BY <1>2, <2>3, FlattensAt
  <2> QED
    BY <1>1, <1>2, <2>1, <2>3, <2>4, <2>5 DEF more
<1> QED
  BY <1>3, <1>4

LEMMA FlattenType ==
    ASSUME NEW S, NEW seqs \in Seq(Seq(S))
    PROVE  FlattenSeq(seqs) \in Seq(S)
<1> DEFINE n == Len(seqs)
<1>1. n \in Nat /\ \A i \in 1..n : seqs[i] \in Seq(S)
  BY LenProperties, ElementOfSeq
<1> HIDE DEF n
<1>2. CASE n = 0
  BY <1>2, EmptySeq, FlattenEmpty DEF n
<1>3. CASE n # 0
  <2>1. PICK f : Flattens(f, seqs, n) /\ FlattenSeq(seqs) = f[n]
    BY <1>1, <1>3, FlattenSeqIs DEF n
  <2> DEFINE Ill == {i \in 1..n : f[i] \notin Seq(S)}
  <2> SUFFICES ASSUME Ill # {} PROVE FALSE
    BY <1>1, <1>3, <2>1
  <2>2. PICK k \in Ill : \A j \in Ill : k <= j
    BY LeastNumber, Ill \subseteq Nat
  <2>3. k \in 1..n /\ f[k] \notin Seq(S)
    OBVIOUS
  <2>4. f[k] = IF k = 1 THEN seqs[k] ELSE f[k - 1] \o seqs[k]
    BY <1>1, <2>1, <2>3, FlattensAt
  <2>5. k # 1 => f[k - 1] \in Seq(S)
    <3> SUFFICES ASSUME k # 1 PROVE f[k - 1] \in Seq(S)
      OBVIOUS
    <3>1. k - 1 \in 1..n /\ k - 1 \notin Ill
      BY <1>1, <2>2, <2>3
    <3> QED
      BY <3>1
  <2> QED
    BY <1>1, <2>3, <2>4, <2>5, ConcatProperties
<1> QED
  BY <1>2, <1>3

LEMMA FlattenOne ==
    ASSUME NEW S, NEW s \in Seq(S)
    PROVE  FlattenSeq(<<s>>) = s
<1>1. <<>> \in Seq(Seq(S)) /\ <<s>> = Append(<<>>, s)
  BY EmptySeq
<1>2. FlattenSeq(Append(<<>>, s)) = FlattenSeq(<<>>) \o s
  BY <1>1, FlattenAppend
<1> QED
  BY <1>1, <1>2, FlattenEmpty, ConcatEmptySeq

LEMMA FlattenTwo ==
    ASSUME NEW S, NEW s \in Seq(S), NEW t \in Seq(S)
    PROVE  FlattenSeq(<<s, t>>) = s \o t
<1>1. <<s>> \in Seq(Seq(S)) /\ <<s, t>> = Append(<<s>>, t)
  OBVIOUS
<1>2. FlattenSeq(Append(<<s>>, t)) = FlattenSeq(<<s>>) \o t
  BY <1>1, FlattenAppend
<1> QED
  BY <1>1, <1>2, FlattenOne

-----------------------------------------------------------------------------
(* The shapes of a call.                                                   *)

Kinds == {"engine settings", "engine", "session config", "sampler params", "session", "input data",
          "responses", "conversation config", "conversation", "optional args", "json response",
          "embedding settings", "embedding engine", "embedding options", "embedding response",
          "embedding responses"}

\* An element goes where its container does.
Movable == Kinds \ {"embedding response"}

Doings == {"call", "try", "enter", "move", "leave", "own", "temp", "list", "push", "raw", "delete"}

Steps == [do : Doings, kind : Kinds \cup {"none"}, of : Kinds \cup {"none"}, args : SUBSET Kinds,
          keep : Seq(Kinds), count : Nat]

\* What borrows and what it borrows from: a call has one of each at most.
Vital == Children \cup {"engine"}

\* What the text of a method knows of a call: the object it is called on,
\* how many functions have been entered, the kinds each of them has got, those
\* of raw pointers, and the kind the last local is a list of, if it is one.
Shapes ==
    {a \in [self : Kinds \cup {"none"}, depth : Nat, at : [Nat -> SUBSET Kinds],
            raw : SUBSET {"sampler params"}, open : SUBSET {"input data"}] :
        \A i \in Nat : i > a.depth => a.at[i] = {}}

Shape(kind, depth, at, raw, open) ==
    [self |-> kind, depth |-> depth, at |-> at, raw |-> raw, open |-> open]

Named(a) == {a.self} \cup a.raw \cup UNION {a.at[i] : i \in 1..a.depth}

With(a, kinds) == [a.at EXCEPT ![a.depth] = @ \cup kinds]

Put(a, kinds) == Shape(a.self, a.depth, With(a, kinds), a.raw, a.open)

\* What the step is, and what it does to the shape.
Passing(s, a, b) ==
    s.do \in {"call", "try"} /\ b = a

Entering(s, a, b) ==
    s.do = "enter" /\ b = Shape(a.self, a.depth + 1, a.at, a.raw, {})

Owning(s, a, b) ==
    s.do = "own" /\ (s.kind = "engine" => Named(a) \cap Vital = {})
    /\ (s.kind \in Children => s.kind \notin Named(a))
    /\ b = Shape(a.self, a.depth, With(a, {s.kind}), a.raw, {})

Holding(s, a, b) ==
    s.do = "temp" /\ s.kind \notin Vital
    /\ b = Put(a, {s.kind} \cup (IF s.count = 0 THEN {} ELSE {"embedding response"}))

Listing(s, a, b) ==
    s.do = "list" /\ b = Shape(a.self, a.depth, a.at, a.raw, {"input data"})

Pushing(s, a, b) ==
    s.do = "push" /\ s.kind \in a.open /\ b = Put(a, {s.kind})

Loosening(s, a, b) ==
    s.do = "raw" /\ s.kind = "sampler params" /\ b = Shape(a.self, a.depth, a.at, {"sampler params"}, a.open)

Deleting(s, a, b) ==
    s.do = "delete" /\ s.kind \in a.raw /\ b = Shape(a.self, a.depth, a.at, {}, a.open)

Returning(s, a, b) ==
    s.do = "move" /\ a.depth > 1
    /\ Len(s.keep) = 1 /\ s.keep[1] \in Movable
    /\ a.at[a.depth] \cap Vital \subseteq {s.keep[1]}
    /\ b = Shape(a.self, a.depth,
                 [a.at EXCEPT ![a.depth] = {},
                              ![a.depth - 1] = @ \cup ({s.keep[1]} \cap a.at[a.depth])],
                 a.raw, {})

Yielding(s, a, b) ==
    s.do = "move" /\ a.depth = 1
    /\ s.keep # <<>> /\ ToSet(s.keep) \subseteq a.at[1]
    /\ s.keep[1] \in Heads
    /\ (Len(s.keep) = 1 \/ (Len(s.keep) = 2 /\ s.keep[1] \in Children /\ s.keep[2] = "engine"))
    /\ a.at[1] \cap Vital \subseteq ToSet(s.keep)
    /\ b = Shape(a.self, a.depth, [a.at EXCEPT ![1] = {}], a.raw, {})

Leaving(s, a, b) ==
    s = Leave
    /\ b = Shape(a.self, a.depth - 1, [a.at EXCEPT ![a.depth] = {}], a.raw, {})

\* A step is right after a and b comes of it.
Does(s, a, b) ==
    /\ s \in Steps
    /\ s.args \subseteq Named(a)
    /\ s.do # "enter" => a.depth > 0
    /\ s.do \in {"try", "own", "temp", "push", "raw"} => a.raw = {}
    /\ s.of # "none" => s.of = "engine" /\ s.do = "own" /\ s.kind \in Children /\ "engine" \in Named(a)
    /\ s.do \in {"own", "temp", "push", "raw"} => s.kind # "none"
    /\ s.count # 0 => s.do = "temp" /\ s.kind = "embedding responses"
    /\ \/ Passing(s, a, b)
       \/ Entering(s, a, b)
       \/ Owning(s, a, b)
       \/ Holding(s, a, b)
       \/ Listing(s, a, b)
       \/ Pushing(s, a, b)
       \/ Loosening(s, a, b)
       \/ Deleting(s, a, b)
       \/ Returning(s, a, b)
       \/ Yielding(s, a, b)
       \/ Leaving(s, a, b)

\* The steps are right one after the other from a, and b comes of them.
Fine(steps, a, b) ==
    /\ steps \in Seq(Steps)
    /\ a \in Shapes /\ b \in Shapes
    /\ \E p \in [1..Len(steps) + 1 -> Shapes] :
        /\ p[1] = a /\ p[Len(steps) + 1] = b
        /\ \A i \in 1..Len(steps) : Does(steps[i], p[i], p[i + 1])

LEMMA FineNone ==
    ASSUME NEW a \in Shapes
    PROVE  Fine(<<>>, a, a)
<1> DEFINE p == <<a>>
<1>1. p \in [1..Len(<<>>) + 1 -> Shapes] /\ p[1] = a /\ Len(<<>>) = 0 /\ 1..0 = {} /\ p[Len(<<>>) + 1] = a
  OBVIOUS
<1> HIDE DEF p
<1> QED
  BY <1>1, EmptySeq DEF Fine

LEMMA NoneIsFine ==
    ASSUME NEW a, NEW b, Fine(<<>>, a, b)
    PROVE  a = b
BY DEF Fine

LEMMA FineConcat ==
    ASSUME NEW s, NEW t, NEW a, NEW b, NEW c, Fine(s, a, b), Fine(t, b, c)
    PROVE  Fine(s \o t, a, c)
<1>1. PICK p \in [1..Len(s) + 1 -> Shapes] :
        /\ p[1] = a /\ p[Len(s) + 1] = b
        /\ \A i \in 1..Len(s) : Does(s[i], p[i], p[i + 1])
  BY DEF Fine
<1>2. PICK q \in [1..Len(t) + 1 -> Shapes] :
        /\ q[1] = b /\ q[Len(t) + 1] = c
        /\ \A i \in 1..Len(t) : Does(t[i], q[i], q[i + 1])
  BY DEF Fine
<1>3. s \in Seq(Steps) /\ t \in Seq(Steps) /\ a \in Shapes /\ c \in Shapes
  BY DEF Fine
<1> DEFINE st == s \o t
           m == Len(s)
           n == Len(t)
           r == [i \in 1..m + n + 1 |-> IF i <= m THEN p[i] ELSE q[i - m]]
<1>4. m \in Nat /\ n \in Nat
  BY <1>3, LenProperties
<1>5. /\ st \in Seq(Steps) /\ Len(st) = m + n
      /\ \A i \in 1..(m + n) : st[i] = IF i <= m THEN s[i] ELSE t[i - m]
  BY <1>3, ConcatProperties
<1>6. /\ p \in [1..m + 1 -> Shapes] /\ p[1] = a /\ p[m + 1] = b
      /\ \A i \in 1..m : Does(s[i], p[i], p[i + 1])
      /\ q \in [1..n + 1 -> Shapes] /\ q[1] = b /\ q[n + 1] = c
      /\ \A i \in 1..n : Does(t[i], q[i], q[i + 1])
  BY <1>1, <1>2
<1> HIDE DEF m, n, st
<1>7. r \in [1..m + n + 1 -> Shapes] /\ r[1] = a /\ r[m + n + 1] = c
  BY <1>4, <1>6
<1>8. ASSUME NEW i \in 1..(m + n) PROVE Does(st[i], r[i], r[i + 1])
  <2>1. CASE i < m
    <3>1. st[i] = s[i] /\ r[i] = p[i] /\ r[i + 1] = p[i + 1] /\ i \in 1..m
      BY <1>4, <1>5, <2>1
    <3> QED
      BY <1>6, <3>1
  <2>2. CASE i = m
    <3>1. st[i] = s[i] /\ r[i] = p[i] /\ r[i + 1] = q[1] /\ i \in 1..m /\ q[1] = p[i + 1]
      BY <1>4, <1>5, <1>6, <2>2
    <3> QED
      BY <1>6, <3>1
  <2>3. CASE i > m
    <3>1. i - m \in 1..n /\ (i + 1) - m = (i - m) + 1 /\ ~(i <= m) /\ ~(i + 1 <= m)
            /\ i + 1 \in 1..m + n + 1 /\ i \in 1..m + n + 1
      BY <1>4, <2>3
    <3>2. st[i] = t[i - m]
      BY <1>5, <3>1
    <3>3. r[i] = q[i - m] /\ r[i + 1] = q[(i - m) + 1]
      BY <3>1
    <3> QED
      BY <1>6, <3>1, <3>2, <3>3
  <2> QED
    BY <1>4, <2>1, <2>2, <2>3
<1> HIDE DEF r
<1>9. Fine(st, a, c)
  BY <1>3, <1>5, <1>7, <1>8 DEF Fine
<1> QED
  BY <1>9 DEF st

LEMMA FineLast ==
    ASSUME NEW s, NEW t, NEW a, NEW b, NEW c, Fine(s, a, b), Fine(t, b, c), t # <<>>
    PROVE  Fine(s \o t, a, c) /\ s \o t # <<>>
<1>1. Fine(s \o t, a, c)
  BY FineConcat
<1>2. s \in Seq(Steps) /\ t \in Seq(Steps)
  BY DEF Fine
<1> QED
  BY <1>1, <1>2

LEMMA FineFirst ==
    ASSUME NEW s, NEW a, NEW b, Fine(s, a, b), s # <<>>
    PROVE  \E c \in Shapes : Does(Head(s), a, c) /\ Fine(Tail(s), c, b)
<1>1. PICK p \in [1..Len(s) + 1 -> Shapes] :
        /\ p[1] = a /\ p[Len(s) + 1] = b
        /\ \A i \in 1..Len(s) : Does(s[i], p[i], p[i + 1])
  BY DEF Fine
<1>2. s \in Seq(Steps) /\ a \in Shapes /\ b \in Shapes
  BY DEF Fine
<1> DEFINE n == Len(s)
           t == Tail(s)
           q == [i \in 1..n |-> p[i + 1]]
<1>3. n \in Nat \ {0} /\ Head(s) = s[1] /\ t \in Seq(Steps) /\ Len(t) = n - 1
        /\ \A i \in 1..n - 1 : t[i] = s[i + 1]
  BY <1>2, EmptySeq, LenProperties, HeadTailProperties
<1>4. p \in [1..n + 1 -> Shapes] /\ p[1] = a /\ p[n + 1] = b
        /\ \A i \in 1..n : Does(s[i], p[i], p[i + 1])
  BY <1>1
<1> HIDE DEF n, t
<1>5. Does(Head(s), a, p[2]) /\ p[2] \in Shapes
  BY <1>3, <1>4
<1>6. q \in [1..Len(t) + 1 -> Shapes] /\ q[1] = p[2] /\ q[Len(t) + 1] = b
  BY <1>3, <1>4
<1>7. ASSUME NEW i \in 1..Len(t) PROVE Does(t[i], q[i], q[i + 1])
  <2>1. t[i] = s[i + 1] /\ q[i] = p[i + 1] /\ q[i + 1] = p[(i + 1) + 1] /\ i + 1 \in 1..n
    BY <1>3
  <2> QED
    BY <1>4, <2>1
<1> HIDE DEF q
<1>8. Fine(t, p[2], b)
  BY <1>2, <1>3, <1>5, <1>6, <1>7 DEF Fine
<1> QED
  BY <1>5, <1>8 DEF t

\* What is done over and over again.
LEMMA FineFlatten ==
    ASSUME NEW n \in Nat, NEW seqs, NEW p \in [1..n + 1 -> Shapes],
           \A i \in 1..n : Fine(seqs[i], p[i], p[i + 1])
    PROVE  Fine(FlattenSeq([i \in 1..n |-> seqs[i]]), p[1], p[n + 1])
<1> DEFINE Upto(k) == [i \in 1..k |-> seqs[i]]
           Bad == {k \in 0..n : ~Fine(FlattenSeq(Upto(k)), p[1], p[k + 1])}
<1> SUFFICES ASSUME Bad # {} PROVE FALSE
  BY n \in 0..n, Zenon
<1>1. PICK k \in Bad : \A j \in Bad : k <= j
  BY LeastNumber, Bad \subseteq Nat
<1> HIDE DEF Upto
<1>2. k \in 0..n /\ ~Fine(FlattenSeq(Upto(k)), p[1], p[k + 1])
  BY <1>1
<1>3. CASE k = 0
  <2>1. Upto(0) = <<>> /\ p[1] \in Shapes
    BY DEF Upto
  <2> QED
    BY <1>2, <1>3, <2>1, FineNone, FlattenEmpty
<1>4. CASE k > 0
  <2>1. k - 1 \in 0..n /\ k - 1 \notin Bad /\ k \in 1..n /\ (k - 1) + 1 = k
    BY <1>1, <1>2, <1>4
  <2>2. Fine(FlattenSeq(Upto(k - 1)), p[1], p[k])
    BY <2>1
  <2>3. Fine(seqs[k], p[k], p[k + 1])
    BY <2>1
  <2>4. \A i \in 1..n : seqs[i] \in Seq(Steps)
    BY DEF Fine
  <2>5. Upto(k - 1) \in Seq(Seq(Steps))
    BY <2>1, <2>4 DEF Upto
  <2>6. Upto(k) = Append(Upto(k - 1), seqs[k])
    BY <2>1, <2>4 DEF Upto
  <2> HIDE DEF Bad
  <2>7. FlattenSeq(Upto(k)) = FlattenSeq(Upto(k - 1)) \o seqs[k]
    BY <2>1, <2>4, <2>5, <2>6, FlattenAppend
  <2> QED
    BY <1>2, <2>2, <2>3, <2>7, FineConcat
<1> QED
  BY <1>2, <1>3, <1>4

-----------------------------------------------------------------------------
(* A function has a few parts: their sequence is fine if each of them is.  *)


LEMMA Fine1 ==
    ASSUME NEW s1, NEW a1 \in Shapes, NEW a2 \in Shapes,
           Does(s1, a1, a2)
    PROVE  Fine(<<s1>>, a1, a2)
<1> DEFINE s == <<s1>>
           p == <<a1, a2>>
<1>1. p \in [1..2 -> Shapes] /\ Len(s) = 1 /\ p[1] = a1 /\ p[2] = a2
  OBVIOUS
<1>2. \A i \in 1..1 : Does(s[i], p[i], p[i + 1])
  OBVIOUS
<1>3. s1 \in Steps
  BY DEF Does
<1>4. s \in Seq(Steps)
  BY <1>3
<1> HIDE DEF p, s
<1>5. Fine(s, a1, a2)
  BY <1>1, <1>2, <1>4 DEF Fine
<1> QED
  BY <1>5 DEF s

LEMMA Fine2 ==
    ASSUME NEW s1, NEW s2, NEW a1 \in Shapes, NEW a2 \in Shapes, NEW a3 \in Shapes,
           Does(s1, a1, a2), Does(s2, a2, a3)
    PROVE  Fine(<<s1, s2>>, a1, a3)
<1> DEFINE s == <<s1, s2>>
           p == <<a1, a2, a3>>
<1>1. p \in [1..3 -> Shapes] /\ Len(s) = 2 /\ p[1] = a1 /\ p[3] = a3
  OBVIOUS
<1>2. \A i \in 1..2 : Does(s[i], p[i], p[i + 1])
  OBVIOUS
<1>3. s1 \in Steps /\ s2 \in Steps
  BY DEF Does
<1>4. s \in Seq(Steps)
  BY <1>3
<1> HIDE DEF p, s
<1>5. Fine(s, a1, a3)
  BY <1>1, <1>2, <1>4 DEF Fine
<1> QED
  BY <1>5 DEF s

LEMMA Fine3 ==
    ASSUME NEW s1, NEW s2, NEW s3, NEW a1 \in Shapes, NEW a2 \in Shapes, NEW a3 \in Shapes,
           NEW a4 \in Shapes,
           Does(s1, a1, a2), Does(s2, a2, a3), Does(s3, a3, a4)
    PROVE  Fine(<<s1, s2, s3>>, a1, a4)
<1> DEFINE s == <<s1, s2, s3>>
           p == <<a1, a2, a3, a4>>
<1>1. p \in [1..4 -> Shapes] /\ Len(s) = 3 /\ p[1] = a1 /\ p[4] = a4
  OBVIOUS
<1>2. \A i \in 1..3 : Does(s[i], p[i], p[i + 1])
  OBVIOUS
<1>3. s1 \in Steps /\ s2 \in Steps /\ s3 \in Steps
  BY DEF Does
<1>4. s \in Seq(Steps)
  BY <1>3
<1> HIDE DEF p, s
<1>5. Fine(s, a1, a4)
  BY <1>1, <1>2, <1>4 DEF Fine
<1> QED
  BY <1>5 DEF s

LEMMA Fine4 ==
    ASSUME NEW s1, NEW s2, NEW s3, NEW s4, NEW a1 \in Shapes, NEW a2 \in Shapes,
           NEW a3 \in Shapes, NEW a4 \in Shapes, NEW a5 \in Shapes,
           Does(s1, a1, a2), Does(s2, a2, a3), Does(s3, a3, a4), Does(s4, a4, a5)
    PROVE  Fine(<<s1, s2, s3, s4>>, a1, a5)
<1> DEFINE s == <<s1, s2, s3, s4>>
           p == <<a1, a2, a3, a4, a5>>
<1>1. p \in [1..5 -> Shapes] /\ Len(s) = 4 /\ p[1] = a1 /\ p[5] = a5
  OBVIOUS
<1>2. \A i \in 1..4 : Does(s[i], p[i], p[i + 1])
  OBVIOUS
<1>3. s1 \in Steps /\ s2 \in Steps /\ s3 \in Steps /\ s4 \in Steps
  BY DEF Does
<1>4. s \in Seq(Steps)
  BY <1>3
<1> HIDE DEF p, s
<1>5. Fine(s, a1, a5)
  BY <1>1, <1>2, <1>4 DEF Fine
<1> QED
  BY <1>5 DEF s

LEMMA Fine5 ==
    ASSUME NEW s1, NEW s2, NEW s3, NEW s4, NEW s5, NEW a1 \in Shapes, NEW a2 \in Shapes,
           NEW a3 \in Shapes, NEW a4 \in Shapes, NEW a5 \in Shapes, NEW a6 \in Shapes,
           Does(s1, a1, a2), Does(s2, a2, a3), Does(s3, a3, a4), Does(s4, a4, a5),
           Does(s5, a5, a6)
    PROVE  Fine(<<s1, s2, s3, s4, s5>>, a1, a6)
<1> DEFINE s == <<s1, s2, s3, s4, s5>>
           p == <<a1, a2, a3, a4, a5, a6>>
<1>1. p \in [1..6 -> Shapes] /\ Len(s) = 5 /\ p[1] = a1 /\ p[6] = a6
  OBVIOUS
<1>2. \A i \in 1..5 : Does(s[i], p[i], p[i + 1])
  OBVIOUS
<1>3. s1 \in Steps /\ s2 \in Steps /\ s3 \in Steps /\ s4 \in Steps /\ s5 \in Steps
  BY DEF Does
<1>4. s \in Seq(Steps)
  BY <1>3
<1> HIDE DEF p, s
<1>5. Fine(s, a1, a6)
  BY <1>1, <1>2, <1>4 DEF Fine
<1> QED
  BY <1>5 DEF s

LEMMA Fine11 ==
    ASSUME NEW s1, NEW s2, NEW s3, NEW s4, NEW s5, NEW s6, NEW s7, NEW s8, NEW s9, NEW s10,
           NEW s11, NEW a1 \in Shapes, NEW a2 \in Shapes, NEW a3 \in Shapes,
           NEW a4 \in Shapes, NEW a5 \in Shapes, NEW a6 \in Shapes, NEW a7 \in Shapes,
           NEW a8 \in Shapes, NEW a9 \in Shapes, NEW a10 \in Shapes, NEW a11 \in Shapes,
           NEW a12 \in Shapes,
           Does(s1, a1, a2), Does(s2, a2, a3), Does(s3, a3, a4), Does(s4, a4, a5),
           Does(s5, a5, a6), Does(s6, a6, a7), Does(s7, a7, a8), Does(s8, a8, a9),
           Does(s9, a9, a10), Does(s10, a10, a11), Does(s11, a11, a12)
    PROVE  Fine(<<s1, s2, s3, s4, s5, s6, s7, s8, s9, s10, s11>>, a1, a12)
<1> DEFINE s == <<s1, s2, s3, s4, s5, s6, s7, s8, s9, s10, s11>>
           p == <<a1, a2, a3, a4, a5, a6, a7, a8, a9, a10, a11, a12>>
<1>1. p \in [1..12 -> Shapes] /\ Len(s) = 11 /\ p[1] = a1 /\ p[12] = a12
  OBVIOUS
<1>2. \A i \in 1..11 : Does(s[i], p[i], p[i + 1])
  OBVIOUS
<1>3. s1 \in Steps /\ s2 \in Steps /\ s3 \in Steps /\ s4 \in Steps /\ s5 \in Steps /\ s6 \in Steps /\ s7 \in Steps /\ s8 \in Steps /\ s9 \in Steps /\ s10 \in Steps /\ s11 \in Steps
  BY DEF Does
<1>4. s \in Seq(Steps)
  BY <1>3
<1> HIDE DEF p, s
<1>5. Fine(s, a1, a12)
  BY <1>1, <1>2, <1>4 DEF Fine
<1> QED
  BY <1>5 DEF s

-----------------------------------------------------------------------------
(* What each kind of step does to a shape.                                 *)


LEMMA ShapeFields ==
    ASSUME NEW kind, NEW depth, NEW at, NEW raw, NEW open
    PROVE  /\ Shape(kind, depth, at, raw, open).self = kind
           /\ Shape(kind, depth, at, raw, open).depth = depth
           /\ Shape(kind, depth, at, raw, open).at = at
           /\ Shape(kind, depth, at, raw, open).raw = raw
           /\ Shape(kind, depth, at, raw, open).open = open
BY DEF Shape

LEMMA ShapeTypes ==
    ASSUME NEW a \in Shapes
    PROVE  /\ a.depth \in Nat /\ a.at \in [Nat -> SUBSET Kinds] /\ a.self \in Kinds \cup {"none"}
           /\ a.raw \in SUBSET {"sampler params"} /\ a.open \in SUBSET {"input data"}
           /\ \A i \in Nat : i > a.depth => a.at[i] = {}
           /\ a = Shape(a.self, a.depth, a.at, a.raw, a.open)
<1>1. a = Shape(a.self, a.depth, a.at, a.raw, a.open)
  BY DEF Shapes, Shape
<1> HIDE DEF Kinds
<1> QED
  BY <1>1 DEF Shapes

LEMMA ShapeIf ==
    ASSUME NEW kind \in Kinds \cup {"none"}, NEW depth \in Nat, NEW at \in [Nat -> SUBSET Kinds],
           NEW raw \in SUBSET {"sampler params"}, NEW open \in SUBSET {"input data"},
           \A i \in Nat : i > depth => at[i] = {}
    PROVE  Shape(kind, depth, at, raw, open) \in Shapes
<1> DEFINE a == Shape(kind, depth, at, raw, open)
<1>1. a \in [self : Kinds \cup {"none"}, depth : Nat, at : [Nat -> SUBSET Kinds],
             raw : SUBSET {"sampler params"}, open : SUBSET {"input data"}]
  BY DEF Shape
<1>2. a.depth = depth /\ a.at = at
  BY DEF Shape
<1> HIDE DEF a
<1> QED
  BY <1>1, <1>2 DEF Shapes, a

\* A shape a method can be called in, and in which one that returns is left.
Closed(a) == a \in Shapes /\ a.raw = {} /\ a.open = {}

\* A function called there that has got these kinds.
Inside(a, kinds) == Shape(a.self, a.depth + 1, [a.at EXCEPT ![a.depth + 1] = kinds], a.raw, {})

\* The caller has got what it is given; the client is none.
Gets(a, kinds) == IF a.depth = 0 THEN a ELSE Put(a, kinds)

LEMMA ClosedIs ==
    ASSUME NEW a, Closed(a)
    PROVE  /\ a \in Shapes /\ a.depth \in Nat /\ a.at \in [Nat -> SUBSET Kinds] /\ a.self \in Kinds \cup {"none"}
           /\ \A i \in Nat : i > a.depth => a.at[i] = {}
           /\ a.raw = {} /\ a.open = {}
           /\ a = Shape(a.self, a.depth, a.at, {}, {})
<1>1. a \in Shapes /\ a.raw = {} /\ a.open = {}
  BY DEF Closed
<1> QED
  BY <1>1, ShapeTypes

LEMMA InsideAt ==
    ASSUME NEW a, NEW X
    PROVE  Inside(a, X).at = [a.at EXCEPT ![a.depth + 1] = X]
BY ShapeFields DEF Inside

LEMMA InsideIs ==
    ASSUME NEW a, NEW X \in SUBSET Kinds, Closed(a)
    PROVE  /\ Closed(Inside(a, X)) /\ Inside(a, X) \in Shapes
           /\ Inside(a, X).depth = a.depth + 1 /\ Inside(a, X).depth > 0
           /\ Inside(a, X).self = a.self /\ Inside(a, X).raw = {} /\ Inside(a, X).open = {}
           /\ Inside(a, X).at[a.depth + 1] = X
           /\ Named(Inside(a, X)) = Named(a) \cup X
<1> DEFINE b == Inside(a, X)
           d == a.depth
<1>1. /\ a.depth \in Nat /\ a.at \in [Nat -> SUBSET Kinds] /\ a.raw = {} /\ a.open = {}
      /\ a.self \in Kinds \cup {"none"}
      /\ \A i \in Nat : i > a.depth => a.at[i] = {}
  BY ClosedIs
<1>2. b = Shape(a.self, d + 1, [a.at EXCEPT ![d + 1] = X], {}, {})
  BY <1>1 DEF Inside
<1> HIDE DEF b
<1>3. b.at = [a.at EXCEPT ![d + 1] = X] /\ b.depth = d + 1 /\ b.self = a.self /\ b.raw = {} /\ b.open = {}
  BY <1>2, ShapeFields
<1>4. b.at \in [Nat -> SUBSET Kinds] /\ b.at[d + 1] = X /\ \A i \in Nat : i # d + 1 => b.at[i] = a.at[i]
  BY <1>1, <1>3
<1>5. \A i \in Nat : i > d + 1 => b.at[i] = {}
  BY <1>1, <1>3, <1>4
<1>6. b \in Shapes
  <2>1. d + 1 \in Nat /\ {} \in SUBSET {"sampler params"} /\ {} \in SUBSET {"input data"}
    BY <1>1
  <2>2. Shape(a.self, d + 1, b.at, {}, {}) \in Shapes
    BY <1>1, <1>4, <1>5, <2>1, ShapeIf
  <2> QED
    BY <1>2, <1>3, <2>2
<1>7. Closed(b)
  BY <1>3, <1>6 DEF Closed
<1>8. Named(b) = Named(a) \cup X
  <2>1. 1..b.depth = 1..d \cup {d + 1}
    BY <1>1, <1>3
  <2>2. \A i \in 1..d : b.at[i] = a.at[i]
    BY <1>1, <1>4
  <2>3. UNION {b.at[i] : i \in 1..b.depth} = X \cup UNION {a.at[i] : i \in 1..d}
    BY <1>4, <2>1, <2>2
  <2> QED
    BY <1>1, <1>3, <2>3 DEF Named
<1> QED
  BY <1>1, <1>3, <1>4, <1>6, <1>7, <1>8 DEF b

LEMMA PutInside ==
    ASSUME NEW a, NEW X \in SUBSET Kinds, NEW Y \in SUBSET Kinds, Closed(a)
    PROVE  With(Inside(a, X), Y) = Inside(a, X \cup Y).at /\ Put(Inside(a, X), Y) = Inside(a, X \cup Y)
<1>1. a.depth \in Nat /\ a.at \in [Nat -> SUBSET Kinds] /\ X \cup Y \in SUBSET Kinds
  BY ClosedIs
<1> DEFINE f == [a.at EXCEPT ![a.depth + 1] = X]
<1>2. [f EXCEPT ![a.depth + 1] = @ \cup Y] = [a.at EXCEPT ![a.depth + 1] = X \cup Y]
  BY <1>1
<1>3. Inside(a, X).at = f /\ Inside(a, X \cup Y).at = [a.at EXCEPT ![a.depth + 1] = X \cup Y]
  BY InsideAt
<1> HIDE DEF f
<1>4. With(Inside(a, X), Y) = Inside(a, X \cup Y).at
  <2>1. Inside(a, X).depth = a.depth + 1
    BY InsideIs
  <2> QED
    BY <1>2, <1>3, <2>1 DEF With
<1>5. Inside(a, X \cup Y) = Shape(a.self, a.depth + 1, Inside(a, X \cup Y).at, {}, {})
  <2>1. a.raw = {}
    BY ClosedIs
  <2>2. Inside(a, X \cup Y).at = [a.at EXCEPT ![a.depth + 1] = X \cup Y]
    BY InsideAt
  <2> QED
    BY <2>1, <2>2 DEF Inside
<1>6. Inside(a, X).self = a.self /\ Inside(a, X).depth = a.depth + 1 /\ Inside(a, X).raw = {} /\ Inside(a, X).open = {}
  BY InsideIs
<1> QED
  BY <1>4, <1>5, <1>6 DEF Put

LEMMA StepFields ==
    ASSUME NEW do, NEW kind, NEW of, NEW args, NEW keep, NEW count
    PROVE  /\ StepOf(do, kind, of, args, keep, count).do = do
           /\ StepOf(do, kind, of, args, keep, count).kind = kind
           /\ StepOf(do, kind, of, args, keep, count).of = of
           /\ StepOf(do, kind, of, args, keep, count).args = args
           /\ StepOf(do, kind, of, args, keep, count).keep = keep
           /\ StepOf(do, kind, of, args, keep, count).count = count
           /\ do \in Doings /\ kind \in Kinds \cup {"none"} /\ of \in Kinds \cup {"none"}
                /\ args \in SUBSET Kinds /\ keep \in Seq(Kinds) /\ count \in Nat
              => StepOf(do, kind, of, args, keep, count) \in Steps
<1> HIDE DEF Kinds, Doings
<1> QED
  BY DEF StepOf, Steps

LEMMA Calls ==
    ASSUME NEW a, NEW args \in SUBSET Kinds, Closed(a), a.depth > 0, args \subseteq Named(a)
    PROVE  Does(Call(args), a, a) /\ Does(Try(args), a, a)
<1>1. a.raw = {}
  BY ClosedIs
<1>2. ASSUME NEW do \in {"call", "try"}, NEW s, s = StepOf(do, "none", "none", args, <<>>, 0)
      PROVE  Does(s, a, a)
  <2>1. <<>> \in Seq(Kinds) /\ do \in Doings
    BY EmptySeq DEF Doings
  <2>2. s \in Steps
    BY <1>2, <2>1, StepFields
  <2>3. s.do = do /\ s.kind = "none" /\ s.of = "none" /\ s.args = args /\ s.count = 0
    BY <1>2, StepFields
  <2> QED
    BY <1>1, <2>2, <2>3 DEF Does, Passing
<1> QED
  BY <1>2 DEF Call, Try

LEMMA Enters ==
    ASSUME NEW a, Closed(a)
    PROVE  Does(Enter, a, Inside(a, {}))
<1>0. a.depth \in Nat /\ a.at \in [Nat -> SUBSET Kinds] /\ \A i \in Nat : i > a.depth => a.at[i] = {}
  BY ClosedIs
<1>1. a.depth \in Nat /\ a.at \in [Nat -> SUBSET Kinds] /\ a.at[a.depth + 1] = {}
  BY <1>0
<1>2. [a.at EXCEPT ![a.depth + 1] = {}] = a.at
  BY <1>1
<1>3. Inside(a, {}) = Shape(a.self, a.depth + 1, a.at, a.raw, {})
  BY <1>2 DEF Inside
<1>4. <<>> \in Seq(Kinds) /\ "enter" \in Doings
  BY EmptySeq DEF Doings
<1>5. Enter \in Steps
  BY <1>4, StepFields DEF Enter
<1>6. Enter.do = "enter" /\ Enter.kind = "none" /\ Enter.of = "none" /\ Enter.args = {} /\ Enter.count = 0
  BY StepFields DEF Enter
<1> QED
  BY <1>3, <1>5, <1>6 DEF Does, Entering

LEMMA Makes ==
    ASSUME NEW a, NEW X \in SUBSET Kinds, NEW Y, NEW kind \in Kinds, NEW args \in SUBSET Kinds,
           Closed(a), args \subseteq Named(a) \cup X, Y = X \cup {kind},
           kind \in Vital => (Named(a) \cup X) \cap Vital = {}
    PROVE  Does(Make(kind, args), Inside(a, X), Inside(a, Y))
<1> DEFINE b == Inside(a, X)
<1>1. /\ b.depth > 0 /\ b.raw = {} /\ Named(b) = Named(a) \cup X
      /\ Inside(a, Y) = Shape(b.self, b.depth, With(b, {kind}), b.raw, {})
  <2>1. b.depth > 0 /\ b.raw = {} /\ b.open = {} /\ Named(b) = Named(a) \cup X
    BY InsideIs
  <2>2. {kind} \in SUBSET Kinds
    OBVIOUS
  <2>3. Inside(a, Y) = Put(b, {kind})
    BY <2>2, PutInside
  <2> HIDE DEF b
  <2> QED
    BY <2>1, <2>3 DEF Put
<1>2. kind # "none" /\ <<>> \in Seq(Kinds) /\ "own" \in Doings
  BY EmptySeq DEF Doings, Kinds
<1> DEFINE s == Make(kind, args)
<1>3. s \in Steps
  BY <1>2, StepFields DEF Make
<1>4. s.do = "own" /\ s.kind = kind /\ s.of = "none" /\ s.args = args /\ s.count = 0
  BY StepFields DEF Make
<1> HIDE DEF b, s
<1>6. (kind = "engine" => Named(b) \cap Vital = {}) /\ (kind \in Children => kind \notin Named(b))
  BY <1>1 DEF Vital
<1>5. Does(s, b, Inside(a, Y))
  BY <1>1, <1>2, <1>3, <1>4, <1>6 DEF Does, Owning
<1> QED
  BY <1>5 DEF b, s

LEMMA MakesOn ==
    ASSUME NEW a, NEW X \in SUBSET Kinds, NEW Y, NEW kind \in Children,
           NEW args \in SUBSET Kinds, Closed(a), args \subseteq Named(a) \cup X,
           Y = X \cup {kind}, "engine" \in Named(a) \cup X, kind \notin Named(a) \cup X
    PROVE  Does(MakeOn(kind, "engine", args), Inside(a, X), Inside(a, Y))
<1> DEFINE b == Inside(a, X)
<1>0. kind \in Kinds /\ kind # "none" /\ kind # "engine"
  BY DEF Kinds, Children
<1>1. /\ b.depth > 0 /\ b.raw = {} /\ Named(b) = Named(a) \cup X
      /\ Inside(a, Y) = Shape(b.self, b.depth, With(b, {kind}), b.raw, {})
  <2>1. b.depth > 0 /\ b.raw = {} /\ b.open = {} /\ Named(b) = Named(a) \cup X
    BY InsideIs
  <2>2. {kind} \in SUBSET Kinds
    BY <1>0
  <2>3. Inside(a, Y) = Put(b, {kind})
    BY <2>2, PutInside
  <2> HIDE DEF b
  <2> QED
    BY <2>1, <2>3 DEF Put
<1>2. <<>> \in Seq(Kinds) /\ "own" \in Doings /\ "engine" \in Kinds
  BY EmptySeq DEF Doings, Kinds
<1> DEFINE s == MakeOn(kind, "engine", args)
<1>3. s \in Steps
  BY <1>0, <1>2, StepFields DEF MakeOn
<1>4. s.do = "own" /\ s.kind = kind /\ s.of = "engine" /\ s.args = args /\ s.count = 0
  BY StepFields DEF MakeOn
<1> HIDE DEF b, s
<1>5. Does(s, b, Inside(a, Y))
  BY <1>0, <1>1, <1>3, <1>4 DEF Does, Owning
<1> QED
  BY <1>5 DEF b, s

LEMMA MakesTemp ==
    ASSUME NEW a, NEW X \in SUBSET Kinds, NEW Y,
           NEW kind \in {"embedding response", "embedding responses"},
           NEW args \in SUBSET Kinds, NEW n \in Nat, Closed(a), args \subseteq Named(a) \cup X,
           n # 0 => kind = "embedding responses",
           Y = X \cup {kind} \cup (IF n = 0 THEN {} ELSE {"embedding response"})
    PROVE  Does(MakeTemp(kind, args, n), Inside(a, X), Inside(a, Y))
<1> DEFINE Z == {kind} \cup (IF n = 0 THEN {} ELSE {"embedding response"})
           b == Inside(a, X)
<1>0. kind \in Kinds /\ kind # "none" /\ kind \notin Vital /\ Z \in SUBSET Kinds /\ Y = X \cup Z
  BY DEF Kinds, Vital, Children
<1> HIDE DEF Z
<1>1. /\ b.depth > 0 /\ b.raw = {} /\ Named(b) = Named(a) \cup X /\ Inside(a, Y) = Put(b, Z)
  <2>1. b.depth > 0 /\ b.raw = {} /\ Named(b) = Named(a) \cup X
    BY InsideIs
  <2>0. Z \in SUBSET Kinds
    BY <1>0
  <2>2. Put(Inside(a, X), Z) = Inside(a, X \cup Z)
    BY <2>0, PutInside
  <2> QED
    BY <1>0, <2>1, <2>2
<1>2. <<>> \in Seq(Kinds) /\ "temp" \in Doings /\ Z = {kind} \cup (IF n = 0 THEN {} ELSE {"embedding response"})
  BY EmptySeq DEF Doings, Z
<1> DEFINE s == MakeTemp(kind, args, n)
<1>3. s \in Steps
  BY <1>0, <1>2, StepFields DEF MakeTemp
<1>4. s.do = "temp" /\ s.kind = kind /\ s.of = "none" /\ s.args = args /\ s.count = n
  BY DEF MakeTemp, StepOf
<1> HIDE DEF b, s
<1>5. n # 0 => kind = "embedding responses"
  OBVIOUS
<1>6. Does(s, b, Inside(a, Y))
  BY <1>0, <1>1, <1>2, <1>3, <1>4, <1>5 DEF Does, Holding
<1> QED
  BY <1>6 DEF b, s

\* Of what is moved out the caller gets what there is.
LEMMA MovesOut ==
    ASSUME NEW a, NEW X \in SUBSET Kinds, NEW kind \in Kinds, Closed(a),
           a.depth = 0 => kind \in Heads /\ kind \in X,
           \A k \in X \cap Vital : k = kind, kind \in Movable
    PROVE  /\ Does(Move(<<kind>>), Inside(a, X), Inside(Gets(a, {kind} \cap X), {}))
           /\ Closed(Gets(a, {kind} \cap X))
<1> DEFINE b == Inside(a, X)
           g == Gets(a, {kind} \cap X)
           d == a.depth
           s == Move(<<kind>>)
<1>1. /\ d \in Nat /\ a.at \in [Nat -> SUBSET Kinds] /\ a.raw = {} /\ a.open = {}
      /\ a.self \in Kinds \cup {"none"}
      /\ \A i \in Nat : i > d => a.at[i] = {}
  BY ClosedIs
<1>2. /\ b.depth = d + 1 /\ b.depth > 0 /\ b.self = a.self /\ b.raw = {} /\ b.at[d + 1] = X
      /\ b.at = [a.at EXCEPT ![d + 1] = X]
  BY InsideIs, InsideAt
<1>3. /\ s \in Steps /\ s.do = "move" /\ s.keep = <<kind>> /\ s.args = {} /\ s.of = "none" /\ s.count = 0
  <2>1. <<kind>> \in Seq(Kinds) /\ "move" \in Doings
    BY DEF Doings
  <2> QED
    BY <2>1, StepFields DEF Move, StepOf
<1>4. <<kind>>[1] = kind /\ Len(<<kind>>) = 1 /\ <<kind>> # <<>> /\ ToSet(<<kind>>) = {kind}
  BY DEF ToSet
<1> HIDE DEF s
<1>5. CASE d = 0
  <2>1. g = a
    BY <1>5 DEF Gets
  <2>2. [[a.at EXCEPT ![d + 1] = X] EXCEPT ![1] = {}] = [a.at EXCEPT ![d + 1] = {}]
    BY <1>1, <1>5
  <2>3. Inside(a, {}) = Shape(b.self, b.depth, [b.at EXCEPT ![1] = {}], b.raw, {})
    BY <1>1, <1>2, <2>2 DEF Inside
  <2>4. b.depth = 1 /\ b.at[1] = X
    BY <1>2, <1>5
  <2>5. kind \in Heads /\ kind \in X /\ X \cap Vital \subseteq {kind}
    BY <1>5
  <2> HIDE DEF b, g
  <2>6. Does(s, b, Inside(a, {}))
    BY <1>3, <1>4, <2>3, <2>4, <2>5 DEF Does, Yielding
  <2> QED
    BY <2>1, <2>6 DEF b, g, s
<1>6. CASE d > 0
  <2> DEFINE K == {kind} \cap X
             f == [a.at EXCEPT ![d + 1] = X]
             h == [a.at EXCEPT ![d] = @ \cup K]
  <2>0. K \in SUBSET Kinds
    OBVIOUS
  <2> HIDE DEF K
  <2>1. g = Shape(a.self, d, h, {}, {})
    BY <1>1, <1>6 DEF Gets, Put, With, K
  <2>2. h \in [Nat -> SUBSET Kinds] /\ \A i \in Nat : i > d => h[i] = {}
    BY <1>1, <1>6, <2>0
  <2>3. [f EXCEPT ![d + 1] = {}, ![(d + 1) - 1] = @ \cup K] = [h EXCEPT ![d + 1] = {}]
    <3>1. (d + 1) - 1 = d /\ d \in Nat /\ d + 1 \in Nat /\ d # d + 1 /\ a.at \in [Nat -> SUBSET Kinds]
      BY <1>1, <1>6
    <3> HIDE DEF d, K
    <3> QED
      BY <3>1
  <2> HIDE DEF f, h, g
  <2>4. g.at = h /\ g.depth = d /\ g.self = a.self /\ g.raw = {} /\ g.open = {}
    BY <2>1, ShapeFields
  <2>5. Inside(g, {}) = Shape(a.self, d + 1, [h EXCEPT ![d + 1] = {}], {}, {})
    BY <2>4 DEF Inside
  <2>6. Inside(g, {}) = Shape(b.self, b.depth, [b.at EXCEPT ![b.depth] = {}, ![b.depth - 1] = @ \cup ({kind} \cap b.at[b.depth])], b.raw, {})
    <3>1. b.at = f /\ {kind} \cap b.at[b.depth] = K
      BY <1>2 DEF f, K
    <3> HIDE DEF b
    <3> QED
      BY <1>2, <2>3, <2>5, <3>1
  <2>7. Closed(g)
    <3>1. {} \in SUBSET {"input data"} /\ {} \in SUBSET {"sampler params"}
      OBVIOUS
    <3>2. Shape(a.self, d, h, {}, {}) \in Shapes
      BY <1>1, <2>2, <3>1, ShapeIf
    <3> QED
      BY <2>1, <2>4, <3>2 DEF Closed
  <2>8. b.depth > 1
    BY <1>1, <1>2, <1>6
  <2>9. b.at[b.depth] \cap Vital \subseteq {kind} /\ kind \in Movable
    BY <1>2
  <2> HIDE DEF b
  <2>10. Does(s, b, Inside(g, {}))
    BY <1>3, <1>4, <1>2, <2>6, <2>8, <2>9 DEF Does, Returning
  <2> QED
    BY <2>7, <2>10 DEF b, g, s
<1> QED
  BY <1>1, <1>5, <1>6

LEMMA Leaves ==
    ASSUME NEW a, NEW X \in SUBSET Kinds, Closed(a)
    PROVE  Does(Leave, Inside(a, X), a)
<1> DEFINE b == Inside(a, X)
           f == [a.at EXCEPT ![a.depth + 1] = X]
<1>0. /\ a.depth \in Nat /\ a.at \in [Nat -> SUBSET Kinds] /\ \A i \in Nat : i > a.depth => a.at[i] = {}
      /\ a = Shape(a.self, a.depth, a.at, {}, {})
  BY ClosedIs
<1>1. a.depth \in Nat /\ a.at \in [Nat -> SUBSET Kinds] /\ a.at[a.depth + 1] = {} /\ a = Shape(a.self, a.depth, a.at, {}, {})
  BY <1>0
<1>2. b.self = a.self /\ b.depth = a.depth + 1 /\ b.at = f /\ b.raw = {} /\ b.depth > 0
  BY InsideIs, InsideAt
<1>3. [f EXCEPT ![a.depth + 1] = {}] = a.at
  BY <1>1
<1> HIDE DEF f, b
<1>4. a = Shape(b.self, b.depth - 1, [b.at EXCEPT ![b.depth] = {}], b.raw, {})
  <2>1. (a.depth + 1) - 1 = a.depth
    BY <1>1
  <2> QED
    BY <1>1, <1>2, <1>3, <2>1
<1>5. <<>> \in Seq(Kinds) /\ "leave" \in Doings
  BY EmptySeq DEF Doings
<1>6. Leave \in Steps
  BY <1>5, StepFields DEF Leave
<1>7. Leave.do = "leave" /\ Leave.args = {} /\ Leave.of = "none" /\ Leave.count = 0
  BY StepFields DEF Leave
<1>8. Does(Leave, b, a)
  BY <1>2, <1>4, <1>6, <1>7 DEF Does, Leaving
<1> QED
  BY <1>8 DEF b

\* What a function does within its scope, whatever it has got.
LEMMA CallsInside ==
    ASSUME NEW a, NEW X \in SUBSET Kinds, NEW args \in SUBSET Kinds, Closed(a), args \subseteq Named(a) \cup X
    PROVE  /\ Does(Call(args), Inside(a, X), Inside(a, X))
           /\ Does(Try(args), Inside(a, X), Inside(a, X))
<1>1. Closed(Inside(a, X)) /\ Inside(a, X).depth > 0 /\ Named(Inside(a, X)) = Named(a) \cup X
  BY InsideIs
<1> QED
  BY <1>1, Calls

LEMMA GetsInside ==
    ASSUME NEW a, NEW X \in SUBSET Kinds, NEW Y \in SUBSET Kinds, Closed(a)
    PROVE  Gets(Inside(a, X), Y) = Inside(a, X \cup Y)
<1>1. Inside(a, X).depth > 0 /\ Inside(a, X).depth \in Nat
  BY InsideIs, ClosedIs
<1>2. Inside(a, X).depth # 0
  BY <1>1
<1> QED
  BY <1>2, PutInside DEF Gets

\* With a list of inputs as its last local, and with a raw pointer.
InsideList(a, kinds) == Shape(a.self, a.depth + 1, [a.at EXCEPT ![a.depth + 1] = kinds], a.raw, {"input data"})

InsideRaw(a, kinds) == Shape(a.self, a.depth + 1, [a.at EXCEPT ![a.depth + 1] = kinds], {"sampler params"}, {})

LEMMA Reshape ==
    ASSUME NEW c, NEW b, NEW raw, NEW open, c \in Shapes, c.raw = {}, raw \subseteq {"sampler params"},
           open \subseteq {"input data"}, b = Shape(c.self, c.depth, c.at, raw, open)
    PROVE  /\ b \in Shapes /\ Named(b) = Named(c) \cup raw
           /\ b.self = c.self /\ b.depth = c.depth /\ b.at = c.at /\ b.raw = raw /\ b.open = open
<1>1. b.self = c.self /\ b.depth = c.depth /\ b.at = c.at /\ b.raw = raw /\ b.open = open
  BY DEF Shape
<1>2. c.self \in Kinds \cup {"none"} /\ c.depth \in Nat /\ c.at \in [Nat -> SUBSET Kinds]
      /\ \A i \in Nat : i > c.depth => c.at[i] = {}
  BY ShapeTypes
<1>3. b \in Shapes
  BY <1>2, ShapeIf
<1>4. Named(b) = Named(c) \cup raw
  BY <1>1 DEF Named
<1> QED
  BY <1>1, <1>3, <1>4

LEMMA ListIs ==
    ASSUME NEW a, NEW X \in SUBSET Kinds, Closed(a)
    PROVE  /\ InsideList(a, X) \in Shapes /\ InsideList(a, X).depth > 0
           /\ InsideList(a, X).self = a.self /\ InsideList(a, X).depth = a.depth + 1
           /\ InsideList(a, X).at = Inside(a, X).at
           /\ InsideList(a, X).raw = {} /\ InsideList(a, X).open = {"input data"}
           /\ Named(InsideList(a, X)) = Named(a) \cup X
<1> DEFINE b == InsideList(a, X)
           c == Inside(a, X)
<1>1. c \in Shapes /\ c.raw = {} /\ c.self = a.self /\ c.depth = a.depth + 1 /\ c.depth > 0
  BY InsideIs
<1>2. Named(c) = Named(a) \cup X
  BY InsideIs
<1>3. c.at = [a.at EXCEPT ![a.depth + 1] = X] /\ a.raw = {}
  BY InsideAt, ClosedIs
<1> HIDE DEF c
<1>4. b = Shape(c.self, c.depth, c.at, {}, {"input data"})
  BY <1>1, <1>3 DEF InsideList
<1> HIDE DEF b
<1>5. {} \subseteq {"sampler params"} /\ {"input data"} \subseteq {"input data"}
  OBVIOUS
<1>6. b \in Shapes /\ b.self = c.self /\ b.depth = c.depth /\ b.at = c.at
  BY <1>1, <1>4, <1>5, Reshape
<1>7. b.raw = {} /\ b.open = {"input data"}
  BY <1>4 DEF Shape
<1>8. Named(b) = Named(c) \cup {}
  BY <1>1, <1>6, <1>7 DEF Named
<1>9. Named(c) \cup {} = Named(c)
  OBVIOUS
<1> QED
  BY <1>1, <1>2, <1>6, <1>7, <1>8, <1>9 DEF b, c

LEMMA RawIs ==
    ASSUME NEW a, NEW X \in SUBSET Kinds, Closed(a)
    PROVE  /\ InsideRaw(a, X) \in Shapes /\ InsideRaw(a, X).depth > 0
           /\ InsideRaw(a, X).self = a.self /\ InsideRaw(a, X).depth = a.depth + 1
           /\ InsideRaw(a, X).at = Inside(a, X).at
           /\ InsideRaw(a, X).raw = {"sampler params"} /\ InsideRaw(a, X).open = {}
           /\ Named(InsideRaw(a, X)) = Named(a) \cup X \cup {"sampler params"}
<1> DEFINE b == InsideRaw(a, X)
           c == Inside(a, X)
<1>1. c \in Shapes /\ c.raw = {} /\ c.self = a.self /\ c.depth = a.depth + 1 /\ c.depth > 0
  BY InsideIs
<1>2. Named(c) = Named(a) \cup X
  BY InsideIs
<1>3. c.at = [a.at EXCEPT ![a.depth + 1] = X] /\ a.raw = {}
  BY InsideAt, ClosedIs
<1> HIDE DEF c
<1>4. b = Shape(c.self, c.depth, c.at, {"sampler params"}, {})
  BY <1>1, <1>3 DEF InsideRaw
<1> HIDE DEF b
<1>5. {"sampler params"} \subseteq {"sampler params"} /\ {} \subseteq {"input data"}
  OBVIOUS
<1>6. b \in Shapes /\ b.self = c.self /\ b.depth = c.depth /\ b.at = c.at
  BY <1>1, <1>4, <1>5, Reshape
<1>7. b.raw = {"sampler params"} /\ b.open = {}
  BY <1>4 DEF Shape
<1>8. Named(b) = Named(c) \cup {"sampler params"}
  BY <1>1, <1>6, <1>7 DEF Named
<1>9. Named(c) \cup {} = Named(c)
  OBVIOUS
<1> QED
  BY <1>1, <1>2, <1>6, <1>7, <1>8, <1>9 DEF b, c

LEMMA Lists ==
    ASSUME NEW a, Closed(a)
    PROVE  Does(NewList, Inside(a, {}), InsideList(a, {}))
<1> DEFINE b == Inside(a, {})
<1>1. b.depth > 0 /\ b.self = a.self /\ b.depth = a.depth + 1 /\ b.raw = {} /\ a.raw = {}
  BY InsideIs, ClosedIs
<1>2. b.at = [a.at EXCEPT ![a.depth + 1] = {}]
  BY InsideAt
<1> HIDE DEF b
<1>3. InsideList(a, {}) = Shape(b.self, b.depth, b.at, b.raw, {"input data"})
  BY <1>1, <1>2 DEF InsideList
<1>4. <<>> \in Seq(Kinds) /\ "list" \in Doings
  BY EmptySeq DEF Doings
<1>5. NewList \in Steps
  BY <1>4, StepFields DEF NewList
<1>6. NewList.do = "list" /\ NewList.args = {} /\ NewList.of = "none" /\ NewList.count = 0
  BY StepFields DEF NewList
<1>7. Does(NewList, b, InsideList(a, {}))
  BY <1>1, <1>3, <1>5, <1>6 DEF Does, Listing
<1> QED
  BY <1>7 DEF b

LEMMA Pushes ==
    ASSUME NEW a, NEW X \in SUBSET Kinds, Closed(a)
    PROVE  /\ Does(Try({}), InsideList(a, X), InsideList(a, X))
           /\ Does(Push("input data"), InsideList(a, X), InsideList(a, X \cup {"input data"}))
<1> DEFINE b == InsideList(a, X)
           c == InsideList(a, X \cup {"input data"})
           s == Push("input data")
           t == Try({})
<1>0. {"input data"} \in SUBSET Kinds /\ X \cup {"input data"} \in SUBSET Kinds /\ "input data" \in Kinds
      /\ "input data" # "none" /\ "push" \in Doings /\ "try" \in Doings
  BY DEF Kinds, Doings
<1>1. b.depth > 0 /\ b.self = a.self /\ b.depth = a.depth + 1 /\ b.raw = {} /\ b.open = {"input data"} /\ b.at = Inside(a, X).at
  BY ListIs
<1>2. c = Shape(b.self, b.depth, Inside(a, X \cup {"input data"}).at, b.raw, b.open)
  <2>1. a.raw = {}
    BY ClosedIs
  <2>2. Inside(a, X \cup {"input data"}).at = [a.at EXCEPT ![a.depth + 1] = X \cup {"input data"}]
    BY InsideAt
  <2> HIDE DEF b
  <2> QED
    BY <1>1, <2>1, <2>2 DEF InsideList
<1>3. With(b, {"input data"}) = Inside(a, X \cup {"input data"}).at
  <2>1. With(Inside(a, X), {"input data"}) = Inside(a, X \cup {"input data"}).at
    BY <1>0, PutInside
  <2>2. Inside(a, X).depth = b.depth
    <3>1. Inside(a, X).depth = a.depth + 1
      BY InsideIs
    <3> QED
      BY <1>1, <3>1
  <2> HIDE DEF b
  <2> QED
    BY <1>1, <2>1, <2>2 DEF With
<1>4. <<>> \in Seq(Kinds)
  BY EmptySeq
<1>5. s \in Steps /\ t \in Steps
  BY <1>0, <1>4, StepFields DEF Push, Try
<1>6. s.do = "push" /\ s.kind = "input data" /\ s.args = {} /\ s.of = "none" /\ s.count = 0
  BY DEF Push, StepOf
<1>7. t.do = "try" /\ t.args = {} /\ t.of = "none" /\ t.count = 0
  BY DEF Try, StepOf
<1> HIDE DEF b, c, s, t
<1>8. Does(t, b, b)
  BY <1>1, <1>5, <1>7 DEF Does, Passing
<1>9. c = Put(b, {s.kind})
  BY <1>2, <1>3, <1>6 DEF Put
<1>10. Does(s, b, c)
  BY <1>0, <1>1, <1>5, <1>6, <1>9 DEF Does, Pushing
<1> QED
  BY <1>8, <1>10 DEF b, c, s, t

LEMMA MovesList ==
    ASSUME NEW a, NEW X \in SUBSET Kinds, Closed(a), a.depth > 0, X \cap Vital = {}
    PROVE  /\ Does(Move(<<"input data">>), InsideList(a, X), Inside(Gets(a, {"input data"} \cap X), {}))
           /\ Closed(Gets(a, {"input data"} \cap X))
<1> DEFINE s == Move(<<"input data">>)
           b == Inside(a, X)
           l == InsideList(a, X)
           c == Inside(Gets(a, {"input data"} \cap X), {})
<1>1. Does(s, b, c) /\ Closed(Gets(a, {"input data"} \cap X))
  <2>1. "input data" \in Kinds /\ X \cap Vital \subseteq {"input data"} /\ "input data" \in Movable
    BY DEF Kinds, Movable
  <2>2. a.depth # 0
    OBVIOUS
  <2> QED
    BY <2>1, <2>2, MovesOut
<1>2. s.do = "move"
  BY DEF Move, StepOf
<1>3. b.self = a.self /\ b.depth = a.depth + 1 /\ b.raw = {} /\ Named(b) = Named(a) \cup X
  BY InsideIs
<1>4. l.self = a.self /\ l.depth = a.depth + 1 /\ l.raw = {} /\ Named(l) = Named(a) \cup X /\ l.at = b.at
  BY ListIs
<1>5. s # Leave
  <2>1. Leave.do = "leave"
    BY DEF Leave, StepOf
  <2> HIDE DEF s
  <2> QED
    BY <1>2, <2>1
<1> HIDE DEF s, b, l, c
<1>6. Does(s, l, c)
  BY <1>1, <1>2, <1>3, <1>4, <1>5 DEF Does, Passing, Entering, Owning, Holding, Listing, Pushing, Loosening, Deleting,
         Returning, Yielding, Leaving
<1> QED
  BY <1>1, <1>6 DEF s, b, l, c

LEMMA InputsFine ==
    ASSUME NEW a, NEW n \in Nat, Closed(a), a.depth > 0
    PROVE  Fine(InputSteps(n), a, Gets(a, InputArgs(n))) /\ Closed(Gets(a, InputArgs(n)))
<1> DEFINE X(i) == IF i = 1 THEN {} ELSE {"input data"}
           p == [i \in 1..n + 1 |-> InsideList(a, X(i))]
           one == <<Try({}), Push("input data")>>
           K == {"input data"} \cap X(n + 1)
<1>0. {"input data"} \in SUBSET Kinds
  BY DEF Kinds
<1>1. ASSUME NEW i \in 1..n + 1
      PROVE  X(i) \in SUBSET Kinds /\ p[i] = InsideList(a, X(i)) /\ p[i] \in Shapes /\ X(i) \cap Vital = {}
  <2>1. X(i) \in SUBSET Kinds
    BY <1>0
  <2>2. InsideList(a, X(i)) \in Shapes
    BY <2>1, ListIs
  <2>3. X(i) \cap Vital = {}
    BY DEF Vital, Children
  <2> QED
    BY <2>1, <2>2, <2>3
<1>2. p \in [1..n + 1 -> Shapes]
  BY <1>1
<1>3. ASSUME NEW i \in 1..n PROVE Fine(one, p[i], p[i + 1])
  <2>1. i \in 1..n + 1 /\ i + 1 \in 1..n + 1 /\ X(i) \cup {"input data"} = X(i + 1)
    <3>1. i + 1 # 1 /\ i \in 1..n + 1 /\ i + 1 \in 1..n + 1
      OBVIOUS
    <3>2. X(i + 1) = {"input data"}
      BY <3>1
    <3>3. X(i) \cup {"input data"} = {"input data"}
      OBVIOUS
    <3> QED
      BY <3>1, <3>2, <3>3
  <2>2. p[i] = InsideList(a, X(i)) /\ p[i + 1] = InsideList(a, X(i + 1)) /\ p[i] \in Shapes /\ p[i + 1] \in Shapes /\ X(i) \in SUBSET Kinds
    BY <1>1, <2>1
  <2> HIDE DEF p, X
  <2>3. Does(Try({}), p[i], p[i]) /\ Does(Push("input data"), p[i], p[i + 1])
    BY <2>1, <2>2, Pushes
  <2> QED
    BY <2>2, <2>3, Fine2
<1>4. n \in Nat /\ 1 \in 1..n + 1 /\ n + 1 \in 1..n + 1
  OBVIOUS
<1> HIDE DEF p, one
<1>5. Fine(Times(n, one), p[1], p[n + 1])
  <2> DEFINE seqs == [i \in 1..n |-> one]
  <2>1. \A i \in 1..n : seqs[i] = one
    OBVIOUS
  <2>2. \A i \in 1..n : Fine(seqs[i], p[i], p[i + 1])
    BY <1>3, <2>1
  <2>3. [i \in 1..n |-> seqs[i]] = seqs
    OBVIOUS
  <2> HIDE DEF seqs
  <2>4. Fine(FlattenSeq([i \in 1..n |-> seqs[i]]), p[1], p[n + 1])
    BY <1>2, <1>4, <2>2, FineFlatten
  <2> QED
    BY <2>3, <2>4 DEF Times, seqs
<1>6. p[1] = InsideList(a, {}) /\ p[1] \in Shapes
  <2>1. X(1) = {}
    OBVIOUS
  <2> QED
    BY <1>1, <1>4, <2>1
<1>7. p[n + 1] = InsideList(a, X(n + 1)) /\ p[n + 1] \in Shapes /\ X(n + 1) \in SUBSET Kinds /\ X(n + 1) \cap Vital = {}
  BY <1>1, <1>4
<1>8. K = InputArgs(n)
  <2>1. n + 1 = 1 <=> n = 0
    OBVIOUS
  <2> QED
    BY <2>1 DEF InputArgs
<1>9. Fine(<<Enter, NewList>>, a, p[1])
  <2>1. Does(Enter, a, Inside(a, {})) /\ Does(NewList, Inside(a, {}), p[1])
    BY <1>6, Enters, Lists
  <2>2. a \in Shapes /\ Inside(a, {}) \in Shapes
    BY InsideIs, ClosedIs
  <2> QED
    BY <1>6, <2>1, <2>2, Fine2
<1> HIDE DEF X
<1>10. Does(Move(<<"input data">>), p[n + 1], Inside(Gets(a, K), {})) /\ Closed(Gets(a, K))
  BY <1>7, MovesList
<1> HIDE DEF K
<1>11. Fine(<<Move(<<"input data">>), Leave>>, p[n + 1], Gets(a, K))
  <2>1. Does(Leave, Inside(Gets(a, K), {}), Gets(a, K))
    BY <1>10, Leaves
  <2>2. Inside(Gets(a, K), {}) \in Shapes /\ Gets(a, K) \in Shapes
    BY <1>10, InsideIs, ClosedIs
  <2> QED
    BY <1>7, <1>10, <2>1, <2>2, Fine2
<1>12. Fine(<<Enter, NewList>> \o Times(n, one), a, p[n + 1])
  BY <1>5, <1>9, FineConcat
<1>13. Fine((<<Enter, NewList>> \o Times(n, one)) \o <<Move(<<"input data">>), Leave>>, a, Gets(a, K))
  BY <1>11, <1>12, FineConcat
<1> QED
  BY <1>8, <1>10, <1>13 DEF InputSteps, one

LEMMA Raws ==
    ASSUME NEW a, NEW X \in SUBSET Kinds, NEW args \in SUBSET Kinds, Closed(a),
           args \subseteq Named(a) \cup X \cup {"sampler params"}
    PROVE  /\ Does(MakeRaw("sampler params"), Inside(a, X), InsideRaw(a, X))
           /\ Does(Call(args), InsideRaw(a, X), InsideRaw(a, X))
           /\ Does(DeleteRaw("sampler params"), InsideRaw(a, X), Inside(a, X))
<1> DEFINE b == Inside(a, X)
           r == InsideRaw(a, X)
           s == MakeRaw("sampler params")
           t == Call(args)
           u == DeleteRaw("sampler params")
<1>0. "sampler params" \in Kinds /\ "sampler params" # "none" /\ <<>> \in Seq(Kinds)
      /\ "raw" \in Doings /\ "call" \in Doings /\ "delete" \in Doings /\ {"sampler params"} \in SUBSET Kinds
  BY EmptySeq DEF Kinds, Doings
<1>1. b.self = a.self /\ b.depth = a.depth + 1 /\ b.depth > 0 /\ b.raw = {} /\ b.open = {} /\ b \in Shapes
  BY InsideIs
<1>2. r.self = a.self /\ r.depth = a.depth + 1 /\ r.depth > 0 /\ r.raw = {"sampler params"} /\ r.open = {}
  BY RawIs
<1>3. r \in Shapes /\ r.at = b.at /\ Named(r) = Named(a) \cup X \cup {"sampler params"}
  BY RawIs
<1>4. s \in Steps /\ t \in Steps /\ u \in Steps
  BY <1>0, StepFields DEF MakeRaw, Call, DeleteRaw
<1>5. s.do = "raw" /\ s.kind = "sampler params" /\ s.args = {} /\ s.of = "none" /\ s.count = 0
  BY DEF MakeRaw, StepOf
<1>6. t.do = "call" /\ t.args = args /\ t.of = "none" /\ t.count = 0
  BY DEF Call, StepOf
<1>7. u.do = "delete" /\ u.kind = "sampler params" /\ u.args = {"sampler params"} /\ u.of = "none" /\ u.count = 0
  BY DEF DeleteRaw, StepOf
<1> HIDE DEF b, r, s, t, u
<1>8. r = Shape(b.self, b.depth, b.at, {"sampler params"}, b.open)
  <2>1. r = Shape(r.self, r.depth, r.at, r.raw, r.open)
    BY <1>3, ShapeTypes
  <2> QED
    BY <1>1, <1>2, <1>3, <2>1
<1>9. b = Shape(r.self, r.depth, r.at, {}, r.open)
  <2>1. b = Shape(b.self, b.depth, b.at, b.raw, b.open)
    BY <1>1, ShapeTypes
  <2> QED
    BY <1>1, <1>2, <1>3, <2>1
<1>10. Does(s, b, r)
  BY <1>0, <1>1, <1>4, <1>5, <1>8 DEF Does, Loosening
<1>11. Does(t, r, r)
  BY <1>2, <1>3, <1>4, <1>6 DEF Does, Passing
<1>12. Does(u, r, b)
  BY <1>2, <1>3, <1>4, <1>7, <1>9 DEF Does, Deleting
<1> QED
  BY <1>10, <1>11, <1>12 DEF b, r, s, t, u

\* A conversation goes to the client with its engine.
LEMMA MovesState ==
    ASSUME NEW a, NEW X \in SUBSET Kinds, Closed(a), a.depth = 0, X = {"engine", "conversation"}
    PROVE  Does(Move(StateFields), Inside(a, X), Inside(a, {}))
<1> DEFINE s == Move(StateFields)
           b == Inside(a, X)
<1>1. s \in Steps
  <2>1. "conversation" \in Kinds /\ "engine" \in Kinds /\ "move" \in Doings
    BY DEF Kinds, Doings
  <2>2. StateFields \in Seq(Kinds)
    BY <2>1 DEF StateFields
  <2> QED
    BY <2>1, <2>2, StepFields DEF Move
<1>2. s.do = "move" /\ s.keep = StateFields /\ s.args = {} /\ s.of = "none" /\ s.count = 0
  BY DEF Move, StepOf
<1>3. /\ StateFields[1] = "conversation" /\ StateFields[2] = "engine" /\ Len(StateFields) = 2 /\ StateFields # <<>>
      /\ ToSet(StateFields) = {"engine", "conversation"}
  BY DEF StateFields, ToSet
<1>4. b.self = a.self /\ b.depth = 1 /\ b.raw = {} /\ a.raw = {} /\ a.depth + 1 = 1
  <2>1. b.self = a.self /\ b.depth = a.depth + 1 /\ b.raw = {}
    BY InsideIs
  <2>2. a.raw = {}
    BY ClosedIs
  <2> QED
    BY <2>1, <2>2
<1>5. b.at = [a.at EXCEPT ![1] = X] /\ b.at[1] = X
  <2>1. b.at = [a.at EXCEPT ![a.depth + 1] = X]
    BY InsideAt
  <2>2. b.at[a.depth + 1] = X
    BY InsideIs
  <2> QED
    BY <1>4, <2>1, <2>2
<1>6. [b.at EXCEPT ![1] = {}] = [a.at EXCEPT ![1] = {}]
  <2>1. a.at \in [Nat -> SUBSET Kinds]
    BY ClosedIs
  <2> HIDE DEF b
  <2> QED
    BY <1>5, <2>1
<1> HIDE DEF s, b
<1>7. Inside(a, {}) = Shape(b.self, b.depth, [b.at EXCEPT ![1] = {}], b.raw, {})
  BY <1>4, <1>6 DEF Inside
<1>8. Does(s, b, Inside(a, {}))
  BY <1>1, <1>2, <1>3, <1>4, <1>5, <1>7 DEF Does, Yielding, Heads, Children
<1> QED
  BY <1>8 DEF s, b

LEMMA InputsInside ==
    ASSUME NEW a, NEW X \in SUBSET Kinds, NEW n \in Nat, Closed(a)
    PROVE  Fine(InputSteps(n), Inside(a, X), Inside(a, X \cup InputArgs(n)))
<1>1. Closed(Inside(a, X)) /\ Inside(a, X).depth > 0
  BY InsideIs
<1>2. InputArgs(n) \in SUBSET Kinds
  BY DEF InputArgs, Kinds
<1> QED
  BY <1>1, <1>2, InputsFine, GetsInside

LEMMA EngineFine ==
    ASSUME NEW a, Closed(a), Named(a) \cap Vital = {}
    PROVE  Fine(EngineSteps, a, Gets(a, {"engine"})) /\ Closed(Gets(a, {"engine"}))
<1> DEFINE set == {"engine settings"}
           all == {"engine settings", "engine"}
           g == Gets(a, {"engine"})
<1>0. set \in SUBSET Kinds /\ all \in SUBSET Kinds /\ {} \in SUBSET Kinds /\ "engine settings" \in Kinds /\ "engine" \in Kinds
      /\ set = {} \cup {"engine settings"} /\ all = set \cup {"engine"} /\ {"engine"} \cap all = {"engine"}
      /\ (Named(a) \cup set) \cap Vital = {} /\ "engine" \in Heads /\ "engine" \in all /\ "engine settings" \notin Vital
      /\ all \cap Vital \subseteq {"engine"} /\ "engine" \in Movable
  BY DEF Movable, Kinds, Heads, Vital, Children
<1> HIDE DEF set, all
<1>1. a \in Shapes /\ Inside(a, {}) \in Shapes /\ Inside(a, set) \in Shapes /\ Inside(a, all) \in Shapes
  BY <1>0, InsideIs, ClosedIs
<1>2. Does(Enter, a, Inside(a, {}))
  BY Enters
<1>3. Does(ToCString, Inside(a, {}), Inside(a, {}))
  BY <1>0, CallsInside DEF ToCString
<1>4. Does(Make("engine settings", {}), Inside(a, {}), Inside(a, set))
  BY <1>0, Makes
<1>5. Does(Call(set), Inside(a, set), Inside(a, set)) /\ Does(ToCString, Inside(a, set), Inside(a, set))
  BY <1>0, CallsInside DEF ToCString
<1>6. Does(Make("engine", set), Inside(a, set), Inside(a, all))
  BY <1>0, Makes
<1>7. Does(Move(<<"engine">>), Inside(a, all), Inside(g, {})) /\ Closed(g)
  BY <1>0, MovesOut
<1> HIDE DEF g
<1>8. Does(Leave, Inside(g, {}), g) /\ g \in Shapes /\ Inside(g, {}) \in Shapes
  BY <1>7, Leaves, InsideIs, ClosedIs
<1>9. Fine(<<Enter, ToCString, Make("engine settings", {}), Call(set), ToCString, Call(set),
             ToCString, Call(set), Make("engine", set), Move(<<"engine">>), Leave>>, a, g)
  BY <1>1, <1>2, <1>3, <1>4, <1>5, <1>6, <1>7, <1>8, Fine11
<1> QED
  BY <1>7, <1>9 DEF g, set, EngineSteps

LEMMA SamplerFine ==
    ASSUME NEW a, NEW X \in SUBSET Kinds, Closed(a), "session config" \in X
    PROVE  Fine(SamplerSteps, Inside(a, X), Inside(a, X))
<1> DEFINE one == {"sampler params"}
           both == {"sampler params", "session config"}
<1>1. one \in SUBSET Kinds /\ both \in SUBSET Kinds
      /\ one \subseteq Named(a) \cup X \cup {"sampler params"} /\ both \subseteq Named(a) \cup X \cup {"sampler params"}
  BY DEF Kinds
<1> HIDE DEF one, both
<1>2. Does(MakeRaw("sampler params"), Inside(a, X), InsideRaw(a, X))
      /\ Does(Call(one), InsideRaw(a, X), InsideRaw(a, X)) /\ Does(DeleteRaw("sampler params"), InsideRaw(a, X), Inside(a, X))
  BY <1>1, Raws
<1>3. Does(Call(both), InsideRaw(a, X), InsideRaw(a, X))
  BY <1>1, Raws
<1>4. Inside(a, X) \in Shapes /\ InsideRaw(a, X) \in Shapes
  BY InsideIs, RawIs
<1>5. Fine(<<MakeRaw("sampler params"), Call(one), Call(both), DeleteRaw("sampler params")>>, Inside(a, X), Inside(a, X))
  BY <1>2, <1>3, <1>4, Fine4
<1> QED
  BY <1>5 DEF one, both, SamplerSteps

\* New(more) of SessionConfigs.
LEMMA ConfigMadeFine ==
    ASSUME NEW a, NEW more, NEW set, set = {"session config"},
           Closed(a), a.depth # 0, Fine(more, Inside(a, set), Inside(a, set))
    PROVE  /\ Fine((<<Enter, Make("session config", {}), Call(set)>> \o more)
                     \o <<Move(<<"session config">>), Leave>>, a, Gets(a, set))
           /\ Closed(Gets(a, set))
<1> DEFINE g == Gets(a, set)
<1>0. set \in SUBSET Kinds /\ {} \in SUBSET Kinds /\ "session config" \in Kinds
      /\ set = {} \cup {"session config"} /\ set \cap set = set /\ set \cap Vital \subseteq {"session config"} /\ "session config" \notin Vital
      /\ "session config" \in Movable
  BY DEF Movable, Kinds, Vital, Children
<1>1. Does(Enter, a, Inside(a, {}))
  BY Enters
<1>2. Does(Make("session config", {}), Inside(a, {}), Inside(a, set))
  BY <1>0, Makes
<1>3. Does(Call(set), Inside(a, set), Inside(a, set))
  BY <1>0, CallsInside
<1>4. Does(Move(<<"session config">>), Inside(a, set), Inside(g, {})) /\ Closed(g)
  <2>1. {"session config"} \cap set = set
    OBVIOUS
  <2> QED
    BY <1>0, <2>1, MovesOut
<1> HIDE DEF g
<1>5. Does(Leave, Inside(g, {}), g) /\ g \in Shapes /\ Inside(g, {}) \in Shapes
  BY <1>4, Leaves, InsideIs, ClosedIs
<1>6. a \in Shapes /\ Inside(a, {}) \in Shapes /\ Inside(a, set) \in Shapes
  BY <1>0, InsideIs, ClosedIs
<1>7. Fine(<<Enter, Make("session config", {}), Call(set)>>, a, Inside(a, set))
  BY <1>1, <1>2, <1>3, <1>6, Fine3
<1>8. Fine(<<Move(<<"session config">>), Leave>>, Inside(a, set), g)
  BY <1>4, <1>5, <1>6, Fine2
<1>9. Fine(more, Inside(a, set), Inside(a, set))
  OBVIOUS
<1>10. Fine(<<Enter, Make("session config", {}), Call(set)>> \o more, a, Inside(a, set))
  BY <1>7, <1>9, FineConcat
<1>11. Fine((<<Enter, Make("session config", {}), Call(set)>> \o more) \o <<Move(<<"session config">>), Leave>>, a, g)
  BY <1>8, <1>10, FineConcat
<1> QED
  BY <1>4, <1>11 DEF g

LEMMA ConfigFine ==
    ASSUME NEW a, NEW X \in SUBSET Kinds, NEW config \in SessionConfigs, Closed(a)
    PROVE  Fine(config, Inside(a, X), Inside(a, X \cup ConfigArgs(config))) /\ ConfigArgs(config) \in SUBSET Kinds
<1> DEFINE b == Inside(a, X)
           set == {"session config"}
<1>0. set \in SUBSET Kinds /\ X \cup {} = X /\ "session config" \in set /\ {} \in SUBSET Kinds
  BY DEF Kinds
<1>1. Closed(b) /\ b.depth # 0 /\ b \in Shapes
  <2>1. Closed(b) /\ b.depth > 0 /\ b \in Shapes
    BY InsideIs
  <2> QED
    BY <2>1
<1> HIDE DEF set
<1>2. Gets(b, set) = Inside(a, X \cup set)
  <2>1. set \in SUBSET Kinds
    BY <1>0
  <2> QED
    BY <2>1, GetsInside
<1> HIDE DEF b
<1>3. Inside(b, set) \in Shapes
  BY <1>0, <1>1, InsideIs
<1>4. Fine(<<>>, Inside(b, set), Inside(b, set)) /\ Fine(<<>>, b, b)
  BY <1>1, <1>3, FineNone
<1>5. Fine(SamplerSteps, Inside(b, set), Inside(b, set))
  BY <1>0, <1>1, SamplerFine
<1> DEFINE New(more) == (<<Enter, Make("session config", {}), Call(set)>> \o more)
                          \o <<Move(<<"session config">>), Leave>>
<1>6. Fine(New(<<>>), b, Gets(b, set)) /\ Fine(New(SamplerSteps), b, Gets(b, set))
  <2>1. set = {"session config"}
    BY DEF set
  <2> QED
    BY <1>1, <1>4, <1>5, <2>1, ConfigMadeFine
<1>7. config \in {<<>>, New(<<>>), New(SamplerSteps)}
  BY DEF SessionConfigs, set
<1>8. CASE config = <<>>
  BY <1>0, <1>4, <1>8 DEF b, ConfigArgs
<1>9. CASE config # <<>>
  <2>1. Fine(config, b, Gets(b, set))
    <3> HIDE DEF New
    <3> QED
      BY <1>6, <1>7, <1>9
  <2>2. ConfigArgs(config) = set
    BY <1>9 DEF ConfigArgs, set
  <2> QED
    BY <1>0, <1>2, <2>1, <2>2 DEF b
<1> QED
  BY <1>8, <1>9

-----------------------------------------------------------------------------
(* The methods, one by one.                                                *)


LEMMA FineTimes ==
    ASSUME NEW a \in Shapes, NEW steps, NEW n \in Nat, Fine(steps, a, a)
    PROVE  Fine(Times(n, steps), a, a)
<1> DEFINE p == [i \in 1..n + 1 |-> a]
           seqs == [i \in 1..n |-> steps]
<1>1. p \in [1..n + 1 -> Shapes] /\ p[1] = a /\ p[n + 1] = a
  OBVIOUS
<1>2. ASSUME NEW i \in 1..n PROVE seqs[i] = steps /\ p[i] = a /\ p[i + 1] = a
  OBVIOUS
<1>3. [i \in 1..n |-> seqs[i]] = seqs
  OBVIOUS
<1> HIDE DEF p, seqs
<1>4. \A i \in 1..n : Fine(seqs[i], p[i], p[i + 1])
  BY <1>2
<1>5. Fine(FlattenSeq([i \in 1..n |-> seqs[i]]), p[1], p[n + 1])
  BY <1>1, <1>4, FineFlatten
<1> QED
  BY <1>1, <1>3, <1>5 DEF Times, seqs

LEMMA CreateSessionFine ==
    ASSUME NEW a, NEW config \in SessionConfigs, Closed(a), a.depth = 0, "engine" \in Named(a), "session" \notin Named(a)
    PROVE  Fine(CreateSession(config), a, a) /\ CreateSession(config) # <<>>
<1> DEFINE C == ConfigArgs(config)
           args == {"engine"} \cup C
           X == C \cup {"session"}
           s1 == MakeOn("session", "engine", args)
           s2 == Move(<<"session">>)
<1>0. /\ C \in SUBSET Kinds /\ args \in SUBSET Kinds /\ X \in SUBSET Kinds /\ {} \cup C = C
      /\ "session" \in Children /\ "session" \in Heads /\ "session" \in Kinds /\ "session" \in X /\ X \cap Vital \subseteq {"session"}
      /\ "session" \in Movable /\ "session" \notin Named(a) \cup C
      /\ args \subseteq Named(a) \cup C /\ "engine" \in Named(a) \cup C /\ X = C \cup {"session"}
  BY DEF Kinds, Children, Heads, ConfigArgs, Vital, Movable
<1> HIDE DEF C, args, X
<1>1. a \in Shapes /\ Inside(a, {}) \in Shapes /\ Inside(a, C) \in Shapes /\ Inside(a, X) \in Shapes
  BY <1>0, InsideIs, ClosedIs
<1>2. Fine(<<Enter>>, a, Inside(a, {}))
  BY <1>1, Enters, Fine1
<1>3. Fine(config, Inside(a, {}), Inside(a, C))
  <2>1. {} \in SUBSET Kinds
    OBVIOUS
  <2>2. Fine(config, Inside(a, {}), Inside(a, {} \cup ConfigArgs(config)))
    BY <2>1, ConfigFine
  <2> QED
    BY <1>0, <2>2 DEF C
<1>4. Does(s1, Inside(a, C), Inside(a, X))
  BY <1>0, MakesOn
<1>5. Does(s2, Inside(a, X), Inside(a, {}))
  <2>1. Does(s2, Inside(a, X), Inside(Gets(a, {"session"} \cap X), {}))
    BY <1>0, MovesOut
  <2>2. Gets(a, {"session"} \cap X) = a
    BY DEF Gets
  <2> QED
    BY <2>1, <2>2
<1>6. Does(Leave, Inside(a, {}), a)
  BY Leaves
<1> HIDE DEF s1, s2
<1>7. Fine(<<s1, s2, Leave>>, Inside(a, C), a)
  BY <1>1, <1>4, <1>5, <1>6, Fine3
<1>8. Fine(<<Enter>> \o config, a, Inside(a, C))
  BY <1>2, <1>3, FineConcat
<1>9. Fine((<<Enter>> \o config) \o <<s1, s2, Leave>>, a, a)
        /\ (<<Enter>> \o config) \o <<s1, s2, Leave>> # <<>>
  BY <1>7, <1>8, FineLast
<1> QED
  BY <1>9 DEF CreateSession, s1, s2, args, C

LEMMA ConversationFine ==
    ASSUME NEW a, NEW config \in SessionConfigs, NEW set, Closed(a), "engine" \in Named(a), "conversation" \notin Named(a), set = {"conversation"}
    PROVE  Fine(NewConversation(config), a, Gets(a, set)) /\ Closed(Gets(a, set)) /\ NewConversation(config) # <<>>
<1> DEFINE C == ConfigArgs(config)
           parts == {"conversation config"}
           more == parts \cup C
           args == parts \cup {"engine"}
           X == C \cup {"conversation config"}
           Y == X \cup {"conversation"}
           s1 == MakeOn("conversation", "engine", args)
           s2 == Move(<<"conversation">>)
           g == Gets(a, set)
<1>0. /\ C \in SUBSET Kinds /\ args \in SUBSET Kinds /\ X \in SUBSET Kinds /\ Y \in SUBSET Kinds /\ more \in SUBSET Kinds
      /\ parts \in SUBSET Kinds /\ {} \cup C = C /\ {} \in SUBSET Kinds
      /\ "conversation" \in Children /\ "conversation" \in Heads /\ "conversation" \in Kinds /\ "conversation config" \in Kinds
      /\ "conversation config" \notin Vital /\ "conversation" \notin Named(a) \cup X /\ Y \cap Vital \subseteq {"conversation"}
      /\ "conversation" \in Movable
      /\ more \subseteq Named(a) \cup X /\ parts \subseteq Named(a) \cup X /\ args \subseteq Named(a) \cup X
      /\ "engine" \in Named(a) \cup X /\ "conversation" \in Y
      /\ X = C \cup {"conversation config"} /\ Y = X \cup {"conversation"} /\ {"conversation"} \cap Y = set
  BY DEF Kinds, Children, Heads, ConfigArgs, Vital, Movable
<1> HIDE DEF C, args, X, Y, parts, more
<1>1. a \in Shapes /\ Inside(a, {}) \in Shapes /\ Inside(a, C) \in Shapes /\ Inside(a, X) \in Shapes /\ Inside(a, Y) \in Shapes
  BY <1>0, InsideIs, ClosedIs
<1>2. Fine(<<Enter>>, a, Inside(a, {}))
  BY <1>1, Enters, Fine1
<1>3. Fine(config, Inside(a, {}), Inside(a, C))
  <2>1. Fine(config, Inside(a, {}), Inside(a, {} \cup ConfigArgs(config)))
    BY <1>0, ConfigFine
  <2> QED
    BY <1>0, <2>1 DEF C
<1>4. Does(RawConversationConfig, Inside(a, C), Inside(a, X))
  BY <1>0, Makes DEF RawConversationConfig
<1>5. Does(Call(more), Inside(a, X), Inside(a, X)) /\ Does(Call(parts), Inside(a, X), Inside(a, X)) /\ Does(ToCString, Inside(a, X), Inside(a, X))
  BY <1>0, CallsInside DEF ToCString
<1>6. Does(s1, Inside(a, X), Inside(a, Y))
  BY <1>0, MakesOn
<1>7. Does(s2, Inside(a, Y), Inside(g, {})) /\ Closed(g)
  BY <1>0, MovesOut
<1> HIDE DEF g, s1, s2
<1>8. Does(Leave, Inside(g, {}), g) /\ g \in Shapes /\ Inside(g, {}) \in Shapes
  BY <1>7, Leaves, InsideIs, ClosedIs
<1>9. Fine(<<RawConversationConfig, Call(more), ToCString, Call(parts), ToCString, Call(parts), ToCString, Call(parts),
             s1, s2, Leave>>, Inside(a, C), g)
  BY <1>1, <1>4, <1>5, <1>6, <1>7, <1>8, Fine11
<1>10. Fine(<<Enter>> \o config, a, Inside(a, C))
  BY <1>2, <1>3, FineConcat
<1>11. Fine((<<Enter>> \o config) \o
            <<RawConversationConfig, Call(more), ToCString, Call(parts), ToCString, Call(parts), ToCString, Call(parts),
              s1, s2, Leave>>, a, g)
        /\ (<<Enter>> \o config) \o
            <<RawConversationConfig, Call(more), ToCString, Call(parts), ToCString, Call(parts), ToCString, Call(parts),
              s1, s2, Leave>> # <<>>
  BY <1>9, <1>10, FineLast
<1> QED
  BY <1>7, <1>11 DEF NewConversation, g, s1, s2, more, parts, args, C

LEMMA BuildStateFine ==
    ASSUME NEW a, NEW config \in SessionConfigs, Closed(a), a.depth = 0, Named(a) \cap Vital = {}
    PROVE  Fine(BuildState(config), a, a) /\ BuildState(config) # <<>>
<1> DEFINE E == {"engine"}
           C == {"conversation"}
           B == E \cup C
           s == Move(StateFields)
<1>0. E \in SUBSET Kinds /\ C \in SUBSET Kinds /\ B \in SUBSET Kinds /\ {} \in SUBSET Kinds /\ {} \cup E = E /\ E \cup C = B
      /\ "engine" \in Named(a) \cup E /\ B = {"engine", "conversation"} /\ (Named(a) \cup {}) \cap Vital = {}
      /\ "conversation" \notin Named(a) \cup E
      /\ C = {"conversation"} /\ E = {"engine"}
  BY DEF Kinds, Vital, Children
<1> HIDE DEF B, C
<1>1. Closed(Inside(a, {})) /\ Named(Inside(a, {})) = Named(a) \cup {}
  BY <1>0, InsideIs
<1>2. Fine(EngineSteps, Inside(a, {}), Gets(Inside(a, {}), E))
  BY <1>0, <1>1, EngineFine
<1> HIDE DEF E
<1>3. Gets(Inside(a, {}), E) = Inside(a, E)
  BY <1>0, GetsInside
<1>4. Closed(Inside(a, E)) /\ Named(Inside(a, E)) = Named(a) \cup E
  BY <1>0, InsideIs
<1>5. Fine(NewConversation(config), Inside(a, E), Gets(Inside(a, E), C))
  BY <1>0, <1>4, ConversationFine
<1>6. Gets(Inside(a, E), C) = Inside(a, B)
  BY <1>0, GetsInside
<1>7. Does(s, Inside(a, B), Inside(a, {}))
  BY <1>0, MovesState
<1>8. Does(Leave, Inside(a, {}), a) /\ Does(Enter, a, Inside(a, {}))
  BY Leaves, Enters
<1>9. a \in Shapes /\ Inside(a, {}) \in Shapes /\ Inside(a, B) \in Shapes
  BY <1>0, InsideIs, ClosedIs
<1> HIDE DEF s
<1>10. Fine(<<Enter>>, a, Inside(a, {})) /\ Fine(<<s, Leave>>, Inside(a, B), a)
  BY <1>7, <1>8, <1>9, Fine1, Fine2
<1>11. Fine(<<Enter>> \o EngineSteps, a, Inside(a, E))
  BY <1>2, <1>3, <1>10, FineConcat
<1>12. Fine((<<Enter>> \o EngineSteps) \o NewConversation(config), a, Inside(a, B))
  BY <1>5, <1>6, <1>11, FineConcat
<1>13. Fine(((<<Enter>> \o EngineSteps) \o NewConversation(config)) \o <<s, Leave>>, a, a)
        /\ ((<<Enter>> \o EngineSteps) \o NewConversation(config)) \o <<s, Leave>> # <<>>
  BY <1>10, <1>12, FineLast
<1> QED
  BY <1>13 DEF BuildState, s

LEMMA GenerateFine ==
    ASSUME NEW a, NEW n \in Nat, Closed(a), "session" \in Named(a)
    PROVE  Fine(GenerateContent(n), a, a) /\ GenerateContent(n) # <<>>
<1> DEFINE I == InputArgs(n)
           args == {"session"} \cup I
           R == {"responses"}
           X == I \cup {"responses"}
           s == Make("responses", args)
<1>0. I \in SUBSET Kinds /\ args \in SUBSET Kinds /\ X \in SUBSET Kinds /\ R \in SUBSET Kinds /\ {} \in SUBSET Kinds
      /\ {} \cup I = I /\ "responses" \in Kinds /\ "responses" \notin Vital /\ args \subseteq Named(a) \cup I
      /\ R \subseteq Named(a) \cup X /\ X = I \cup {"responses"}
  BY DEF Kinds, InputArgs, Vital, Children
<1> HIDE DEF I, args, X, R
<1>1. Inside(a, {}) \in Shapes /\ Inside(a, I) \in Shapes /\ Inside(a, X) \in Shapes /\ a \in Shapes
  BY <1>0, InsideIs, ClosedIs
<1>2. Fine(InputSteps(n), Inside(a, {}), Inside(a, I))
  <2>1. Fine(InputSteps(n), Inside(a, {}), Inside(a, {} \cup InputArgs(n)))
    BY <1>0, InputsInside
  <2> QED
    BY <1>0, <2>1 DEF I
<1>3. Does(s, Inside(a, I), Inside(a, X))
  BY <1>0, Makes
<1>4. Does(TextAt, Inside(a, X), Inside(a, X))
  BY <1>0, CallsInside DEF TextAt, R
<1>5. Does(Leave, Inside(a, X), a) /\ Does(Enter, a, Inside(a, {}))
  BY <1>0, Leaves, Enters
<1> HIDE DEF s
<1>6. Fine(<<Enter>>, a, Inside(a, {})) /\ Fine(<<s, TextAt, Leave>>, Inside(a, I), a)
  BY <1>1, <1>3, <1>4, <1>5, Fine1, Fine3
<1>7. Fine(<<Enter>> \o InputSteps(n), a, Inside(a, I))
  BY <1>2, <1>6, FineConcat
<1>8. Fine((<<Enter>> \o InputSteps(n)) \o <<s, TextAt, Leave>>, a, a)
        /\ (<<Enter>> \o InputSteps(n)) \o <<s, TextAt, Leave>> # <<>>
  BY <1>6, <1>7, FineLast
<1> QED
  BY <1>8 DEF GenerateContent, s, args, I

LEMMA SendFine ==
    ASSUME NEW a, Closed(a), "conversation" \in Named(a)
    PROVE  Fine(SendOnce, a, a) /\ SendOnce # <<>>
<1> DEFINE X == {"optional args"}
           Y == X \cup {"json response"}
           J == {"json response"}
           args == {"conversation", "optional args"}
           s1 == Make("optional args", {})
           s2 == Call(X)
           s3 == Make("json response", args)
<1>0. X \in SUBSET Kinds /\ Y \in SUBSET Kinds /\ J \in SUBSET Kinds /\ args \in SUBSET Kinds /\ {} \in SUBSET Kinds
      /\ "optional args" \in Kinds /\ "optional args" \notin Vital /\ "json response" \in Kinds /\ "json response" \notin Vital
      /\ X = {} \cup {"optional args"} /\ X \subseteq Named(a) \cup X /\ args \subseteq Named(a) \cup X
      /\ Y = X \cup {"json response"} /\ J \subseteq Named(a) \cup Y
  BY DEF Kinds, Vital, Children
<1> HIDE DEF X, Y, J, args
<1>1. Inside(a, {}) \in Shapes /\ Inside(a, X) \in Shapes /\ Inside(a, Y) \in Shapes /\ a \in Shapes
  BY <1>0, InsideIs, ClosedIs
<1>2. Does(Enter, a, Inside(a, {})) /\ Does(Leave, Inside(a, Y), a)
  BY <1>0, Leaves, Enters
<1>3. Does(ToCString, Inside(a, {}), Inside(a, {}))
  BY <1>0, CallsInside DEF ToCString
<1>4. Does(s1, Inside(a, {}), Inside(a, X))
  BY <1>0, Makes
<1>5. Does(s2, Inside(a, X), Inside(a, X))
  BY <1>0, CallsInside
<1>6. Does(s3, Inside(a, X), Inside(a, Y))
  BY <1>0, Makes
<1>7. Does(ToValue, Inside(a, Y), Inside(a, Y))
  BY <1>0, CallsInside DEF ToValue, J
<1> HIDE DEF s1, s2, s3
<1>8. Fine(<<Enter, ToCString>>, a, Inside(a, {}))
  BY <1>1, <1>2, <1>3, Fine2
<1>9. Fine(<<s1, s2>>, Inside(a, {}), Inside(a, X))
  BY <1>1, <1>4, <1>5, Fine2
<1>10. Fine(<<s3, ToValue, Leave>>, Inside(a, X), a)
  BY <1>1, <1>2, <1>6, <1>7, Fine3
<1>11. Fine(<<Enter, ToCString>> \o <<s1, s2>>, a, Inside(a, X))
  BY <1>8, <1>9, FineConcat
<1>12. Fine((<<Enter, ToCString>> \o <<s1, s2>>) \o <<s3, ToValue, Leave>>, a, a)
        /\ (<<Enter, ToCString>> \o <<s1, s2>>) \o <<s3, ToValue, Leave>> # <<>>
  BY <1>10, <1>11, FineLast
<1> QED
  BY <1>12 DEF SendOnce, OptionalArgs, s1, s2, s3, X, args

LEMMA EmbeddingEngineFine ==
    ASSUME NEW a, Closed(a), a.depth = 0
    PROVE  Fine(EmbeddingEngineSteps, a, a) /\ EmbeddingEngineSteps # <<>>
<1> DEFINE set == {"embedding settings"}
           all == {"embedding settings", "embedding engine"}
           one == <<ToCString, Call(set)>>
           s1 == Make("embedding settings", {})
           s2 == Make("embedding engine", set)
           s3 == Move(<<"embedding engine">>)
<1>0. /\ set \in SUBSET Kinds /\ all \in SUBSET Kinds /\ {} \in SUBSET Kinds
      /\ "embedding settings" \in Kinds /\ "embedding engine" \in Kinds
      /\ set = {} \cup {"embedding settings"} /\ all = set \cup {"embedding engine"}
      /\ all \cap Vital \subseteq {"embedding engine"} /\ "embedding engine" \in Movable /\ "embedding engine" \in Heads /\ "embedding engine" \in all
      /\ "embedding settings" \notin Vital /\ "embedding engine" \notin Vital /\ 4 \in Nat
  BY DEF Movable, Kinds, Heads, Vital, Children
<1> HIDE DEF set, all
<1>1. a \in Shapes /\ Inside(a, {}) \in Shapes /\ Inside(a, set) \in Shapes /\ Inside(a, all) \in Shapes
  BY <1>0, InsideIs, ClosedIs
<1>2. Does(Enter, a, Inside(a, {})) /\ Does(Leave, Inside(a, {}), a)
  BY Enters, Leaves
<1>3. Does(ToCString, Inside(a, {}), Inside(a, {}))
  BY <1>0, CallsInside DEF ToCString
<1>4. Does(s1, Inside(a, {}), Inside(a, set))
  BY <1>0, Makes
<1>5. Does(Call(set), Inside(a, set), Inside(a, set)) /\ Does(ToCString, Inside(a, set), Inside(a, set))
  BY <1>0, CallsInside DEF ToCString
<1>6. Does(s2, Inside(a, set), Inside(a, all))
  BY <1>0, Makes
<1>7. Does(s3, Inside(a, all), Inside(a, {}))
  <2>1. Does(s3, Inside(a, all), Inside(Gets(a, {"embedding engine"} \cap all), {}))
    BY <1>0, MovesOut
  <2>2. Gets(a, {"embedding engine"} \cap all) = a
    BY DEF Gets
  <2> QED
    BY <2>1, <2>2
<1> HIDE DEF s1, s2, s3
<1>8. Fine(<<Enter, ToCString, s1, Call(set)>>, a, Inside(a, set))
  BY <1>1, <1>2, <1>3, <1>4, <1>5, Fine4
<1>9. Fine(one, Inside(a, set), Inside(a, set))
  BY <1>1, <1>5, Fine2
<1> HIDE DEF one
<1>10. Fine(Times(4, one), Inside(a, set), Inside(a, set))
  BY <1>0, <1>1, <1>9, FineTimes
<1>11. Fine(<<s2, s3, Leave>>, Inside(a, set), a)
  BY <1>1, <1>2, <1>6, <1>7, Fine3
<1>12. Fine(<<Enter, ToCString, s1, Call(set)>> \o Times(4, one), a, Inside(a, set))
  BY <1>8, <1>10, FineConcat
<1>13. Fine((<<Enter, ToCString, s1, Call(set)>> \o Times(4, one)) \o <<s2, s3, Leave>>, a, a)
        /\ (<<Enter, ToCString, s1, Call(set)>> \o Times(4, one)) \o <<s2, s3, Leave>> # <<>>
  BY <1>11, <1>12, FineLast
<1> QED
  BY <1>13 DEF EmbeddingEngineSteps, one, s1, s2, s3, set

LEMMA OptionsFine ==
    ASSUME NEW a, NEW X \in SUBSET Kinds, NEW options \in EmbeddingOptions, Closed(a)
    PROVE  Fine(options, Inside(a, X), Inside(a, X \cup OptionArgs(options))) /\ OptionArgs(options) \in SUBSET Kinds
<1> DEFINE b == Inside(a, X)
           set == {"embedding options"}
           g == Gets(b, set)
           s1 == Make("embedding options", {})
           s2 == Call(set)
           s3 == Move(<<"embedding options">>)
<1>0. /\ set \in SUBSET Kinds /\ X \cup {} = X /\ {} \in SUBSET Kinds /\ "embedding options" \in Kinds
      /\ set = {} \cup {"embedding options"} /\ {"embedding options"} \cap set = set /\ set \cap Vital \subseteq {"embedding options"}
      /\ "embedding options" \notin Vital /\ "embedding options" \in Movable
  BY DEF Movable, Kinds, Vital, Children
<1>1. Closed(b) /\ b.depth # 0 /\ b \in Shapes
  <2>1. Closed(b) /\ b.depth > 0 /\ b \in Shapes
    BY InsideIs
  <2> QED
    BY <2>1
<1> HIDE DEF set
<1>2. g = Inside(a, X \cup set)
  <2>1. set \in SUBSET Kinds
    BY <1>0
  <2> QED
    BY <2>1, GetsInside
<1> HIDE DEF b
<1>3. b \in Shapes /\ Inside(b, {}) \in Shapes /\ Inside(b, set) \in Shapes
  BY <1>0, <1>1, InsideIs
<1>4. Does(Enter, b, Inside(b, {}))
  BY <1>1, Enters
<1>5. Does(s1, Inside(b, {}), Inside(b, set))
  BY <1>0, <1>1, Makes
<1>6. Does(s2, Inside(b, set), Inside(b, set))
  BY <1>0, <1>1, CallsInside
<1>7. Does(s3, Inside(b, set), Inside(g, {})) /\ Closed(g)
  BY <1>0, <1>1, MovesOut
<1> HIDE DEF g, s1, s2, s3
<1>8. Does(Leave, Inside(g, {}), g) /\ g \in Shapes /\ Inside(g, {}) \in Shapes
  BY <1>7, Leaves, InsideIs, ClosedIs
<1>9. Fine(<<Enter, s1, s2, s3, Leave>>, b, g)
  BY <1>3, <1>4, <1>5, <1>6, <1>7, <1>8, Fine5
<1>10. CASE options = <<>>
  <2>1. Fine(<<>>, b, b)
    BY <1>3, FineNone
  <2> QED
    BY <1>0, <1>10, <2>1 DEF b, OptionArgs
<1>11. CASE options # <<>>
  <2>1. options = <<Enter, s1, s2, s3, Leave>>
    BY <1>11 DEF EmbeddingOptions, s1, s2, s3, set
  <2>2. OptionArgs(options) = set
    BY <1>11 DEF OptionArgs, set
  <2> QED
    BY <1>0, <1>2, <1>9, <2>1, <2>2 DEF b
<1> QED
  BY <1>10, <1>11

LEMMA ComputeEmbeddingFine ==
    ASSUME NEW a, NEW n \in Nat, NEW options \in EmbeddingOptions, Closed(a), "embedding engine" \in Named(a)
    PROVE  Fine(ComputeEmbedding(n, options), a, a) /\ ComputeEmbedding(n, options) # <<>>
<1> DEFINE I == InputArgs(n)
           O == OptionArgs(options)
           X == I \cup O
           args == ({"embedding engine"} \cup I) \cup O
           R == {"embedding response"}
           Y == X \cup R
           s == MakeTemp("embedding response", args, 0)
<1>0. O \in SUBSET Kinds
  <2>1. {} \in SUBSET Kinds
    OBVIOUS
  <2> QED
    BY <2>1, OptionsFine
<1>1. /\ I \in SUBSET Kinds /\ X \in SUBSET Kinds /\ Y \in SUBSET Kinds /\ R \in SUBSET Kinds /\ args \in SUBSET Kinds
      /\ {} \in SUBSET Kinds /\ {} \cup I = I /\ args \subseteq Named(a) \cup X /\ R \subseteq Named(a) \cup Y
      /\ Y = X \cup {"embedding response"} \cup {} /\ 0 \in Nat /\ X = I \cup O
  BY <1>0 DEF Kinds, InputArgs
<1> HIDE DEF I, O, X, args, R, Y
<1>2. a \in Shapes /\ Inside(a, {}) \in Shapes /\ Inside(a, I) \in Shapes /\ Inside(a, X) \in Shapes /\ Inside(a, Y) \in Shapes
  BY <1>1, InsideIs, ClosedIs
<1>3. Does(Enter, a, Inside(a, {})) /\ Does(Leave, Inside(a, Y), a)
  BY <1>1, Enters, Leaves
<1>4. Fine(InputSteps(n), Inside(a, {}), Inside(a, I))
  <2>1. Fine(InputSteps(n), Inside(a, {}), Inside(a, {} \cup InputArgs(n)))
    BY <1>1, InputsInside
  <2> QED
    BY <1>1, <2>1 DEF I
<1>5. Fine(options, Inside(a, I), Inside(a, X))
  <2>1. Fine(options, Inside(a, I), Inside(a, I \cup OptionArgs(options)))
    BY <1>1, OptionsFine
  <2> QED
    BY <1>1, <2>1 DEF O
<1>6. Does(s, Inside(a, X), Inside(a, Y))
  <2>1. Y = X \cup {"embedding response"} \cup (IF 0 = 0 THEN {} ELSE {"embedding response"})
    BY <1>1
  <2> QED
    BY <1>1, <2>1, MakesTemp
<1>7. Does(Try(R), Inside(a, Y), Inside(a, Y))
  BY <1>1, CallsInside
<1> HIDE DEF s
<1>8. Fine(<<Enter>>, a, Inside(a, {})) /\ Fine(<<s>>, Inside(a, X), Inside(a, Y))
      /\ Fine(<<Try(R)>>, Inside(a, Y), Inside(a, Y)) /\ Fine(<<Leave>>, Inside(a, Y), a)
  BY <1>2, <1>3, <1>6, <1>7, Fine1
<1>9. Fine(<<Enter>> \o InputSteps(n), a, Inside(a, I))
  BY <1>4, <1>8, FineConcat
<1>10. Fine((<<Enter>> \o InputSteps(n)) \o options, a, Inside(a, X))
  BY <1>5, <1>9, FineConcat
<1>11. Fine(((<<Enter>> \o InputSteps(n)) \o options) \o <<s>>, a, Inside(a, Y))
  BY <1>8, <1>10, FineConcat
<1>12. Fine((((<<Enter>> \o InputSteps(n)) \o options) \o <<s>>) \o <<Try(R)>>, a, Inside(a, Y))
  BY <1>8, <1>11, FineConcat
<1>13. Fine(((((<<Enter>> \o InputSteps(n)) \o options) \o <<s>>) \o <<Try(R)>>) \o <<Leave>>, a, a)
        /\ ((((<<Enter>> \o InputSteps(n)) \o options) \o <<s>>) \o <<Try(R)>>) \o <<Leave>> # <<>>
  BY <1>8, <1>12, FineLast
<1> QED
  BY <1>13 DEF ComputeEmbedding, ResponseValues, s, args, I, O, R

\* The lists of inputs of a batch.
LEMMA ListsFine ==
    ASSUME NEW a, NEW m \in Nat, NEW lists \in [1..m -> Nat], Closed(a)
    PROVE  /\ UNION {InputArgs(lists[i]) : i \in DOMAIN lists} \in SUBSET Kinds
           /\ Fine(FlattenSeq([i \in DOMAIN lists |-> InputSteps(lists[i])]), Inside(a, {}),
                   Inside(a, UNION {InputArgs(lists[i]) : i \in DOMAIN lists}))
<1> DEFINE X(k) == UNION {InputArgs(lists[i]) : i \in 1..(k - 1)}
           p == [k \in 1..m + 1 |-> Inside(a, X(k))]
           seqs == [i \in 1..m |-> InputSteps(lists[i])]
<1>1. ASSUME NEW k \in 1..m + 1 PROVE X(k) \in SUBSET Kinds /\ p[k] = Inside(a, X(k)) /\ p[k] \in Shapes
  <2>1. X(k) \in SUBSET Kinds
    BY DEF InputArgs, Kinds
  <2>2. Inside(a, X(k)) \in Shapes
    BY <2>1, InsideIs
  <2> QED
    BY <2>1, <2>2
<1>2. p \in [1..m + 1 -> Shapes]
  BY <1>1
<1>3. ASSUME NEW k \in 1..m PROVE Fine(seqs[k], p[k], p[k + 1])
  <2>1. k \in 1..m + 1 /\ k + 1 \in 1..m + 1 /\ 1..(k + 1 - 1) = 1..(k - 1) \cup {k} /\ lists[k] \in Nat
        /\ seqs[k] = InputSteps(lists[k])
    OBVIOUS
  <2>2. X(k + 1) = X(k) \cup InputArgs(lists[k])
    BY <2>1
  <2>3. X(k) \in SUBSET Kinds /\ p[k] = Inside(a, X(k)) /\ p[k + 1] = Inside(a, X(k + 1))
    BY <1>1, <2>1
  <2> HIDE DEF X, p, seqs
  <2>4. Fine(InputSteps(lists[k]), Inside(a, X(k)), Inside(a, X(k) \cup InputArgs(lists[k])))
    BY <2>1, <2>3, InputsInside
  <2> QED
    BY <2>1, <2>2, <2>3, <2>4
<1>4. DOMAIN lists = 1..m /\ m + 1 \in 1..m + 1 /\ 1 \in 1..m + 1 /\ (m + 1) - 1 = m
  OBVIOUS
<1>5. p[1] = Inside(a, {}) /\ p[m + 1] = Inside(a, X(m + 1)) /\ X(m + 1) \in SUBSET Kinds
      /\ X(m + 1) = UNION {InputArgs(lists[i]) : i \in DOMAIN lists}
  <2>1. X(1) = {}
    OBVIOUS
  <2>2. X(m + 1) = UNION {InputArgs(lists[i]) : i \in DOMAIN lists}
    BY <1>4
  <2> QED
    BY <1>1, <1>4, <2>1, <2>2
<1>6. [i \in 1..m |-> seqs[i]] = seqs /\ seqs = [i \in DOMAIN lists |-> InputSteps(lists[i])]
  BY <1>4
<1> HIDE DEF p, X, seqs
<1>7. Fine(FlattenSeq([i \in 1..m |-> seqs[i]]), p[1], p[m + 1])
  BY <1>2, <1>3, FineFlatten
<1> QED
  BY <1>5, <1>6, <1>7

LEMMA TimesNone ==
    ASSUME NEW steps
    PROVE  Times(0, steps) = <<>>
<1>1. [i \in 1..0 |-> steps] = <<>>
  OBVIOUS
<1> QED
  BY <1>1, FlattenEmpty DEF Times

LEMMA ComputeBatchFine ==
    ASSUME NEW a, NEW m \in Nat, NEW lists \in [1..m -> Nat], NEW answers \in Nat,
           NEW options \in EmbeddingOptions, Closed(a), "embedding engine" \in Named(a)
    PROVE  Fine(ComputeBatch(lists, answers, options), a, a) /\ ComputeBatch(lists, answers, options) # <<>>
<1> DEFINE I == UNION {InputArgs(lists[i]) : i \in DOMAIN lists}
           O == OptionArgs(options)
           X == I \cup O
           args == ({"embedding engine"} \cup I) \cup O
           R == {"embedding response"}
           L == {"embedding responses"}
           more == IF answers = 0 THEN {} ELSE {"embedding response"}
           Y == X \cup {"embedding responses"} \cup more
           s == MakeTemp("embedding responses", args, answers)
           inputs == FlattenSeq([i \in DOMAIN lists |-> InputSteps(lists[i])])
           one == <<Try(L)>> \o ResponseValues
<1>0. O \in SUBSET Kinds
  <2>1. {} \in SUBSET Kinds
    OBVIOUS
  <2> QED
    BY <2>1, OptionsFine
<1>1. I \in SUBSET Kinds /\ Fine(inputs, Inside(a, {}), Inside(a, I))
  BY ListsFine
<1> HIDE DEF I, inputs
<1>2. /\ X \in SUBSET Kinds /\ Y \in SUBSET Kinds /\ R \in SUBSET Kinds /\ args \in SUBSET Kinds /\ L \in SUBSET Kinds
      /\ {} \in SUBSET Kinds /\ args \subseteq Named(a) \cup X /\ L \subseteq Named(a) \cup Y /\ X = I \cup O
      /\ "embedding responses" \in Kinds
      /\ answers # 0 => R \subseteq Named(a) \cup Y
  BY <1>0, <1>1 DEF Kinds
<1> HIDE DEF O, X, args, R, L
<1>3. a \in Shapes /\ Inside(a, {}) \in Shapes /\ Inside(a, I) \in Shapes /\ Inside(a, X) \in Shapes /\ Inside(a, Y) \in Shapes
  BY <1>1, <1>2, InsideIs, ClosedIs
<1>4. Does(Enter, a, Inside(a, {})) /\ Does(Leave, Inside(a, Y), a)
  BY <1>2, Enters, Leaves
<1>5. Fine(options, Inside(a, I), Inside(a, X))
  <2>1. Fine(options, Inside(a, I), Inside(a, I \cup OptionArgs(options)))
    BY <1>1, OptionsFine
  <2> QED
    BY <1>2, <2>1 DEF O
<1>6. Does(s, Inside(a, X), Inside(a, Y))
  BY <1>2, MakesTemp
<1> HIDE DEF s, Y, more
<1>7. Fine(Times(answers, one), Inside(a, Y), Inside(a, Y))
  <2>1. CASE answers = 0
    <3> HIDE DEF one
    <3>1. Times(0, one) = <<>>
      BY TimesNone
    <3> QED
      BY <1>3, <2>1, <3>1, FineNone
  <2>2. CASE answers # 0
    <3>1. Does(Try(R), Inside(a, Y), Inside(a, Y)) /\ Does(Try(L), Inside(a, Y), Inside(a, Y))
      BY <1>2, <2>2, CallsInside
    <3>2. Fine(<<Try(R)>>, Inside(a, Y), Inside(a, Y)) /\ Fine(<<Try(L)>>, Inside(a, Y), Inside(a, Y))
      BY <1>3, <3>1, Fine1
    <3>3. Fine(<<Try(L)>> \o <<Try(R)>>, Inside(a, Y), Inside(a, Y))
      BY <3>2, FineConcat
    <3>4. Fine(one, Inside(a, Y), Inside(a, Y))
      BY <3>3 DEF R, ResponseValues
    <3> HIDE DEF one
    <3> QED
      BY <1>3, <3>4, FineTimes
  <2> QED
    BY <2>1, <2>2
<1> HIDE DEF one
<1>8. Fine(<<Enter>>, a, Inside(a, {})) /\ Fine(<<s>>, Inside(a, X), Inside(a, Y)) /\ Fine(<<Leave>>, Inside(a, Y), a)
  BY <1>3, <1>4, <1>6, Fine1
<1>9. Fine(<<Enter>> \o inputs, a, Inside(a, I))
  BY <1>1, <1>8, FineConcat
<1>10. Fine((<<Enter>> \o inputs) \o options, a, Inside(a, X))
  BY <1>5, <1>9, FineConcat
<1>11. Fine(((<<Enter>> \o inputs) \o options) \o <<s>>, a, Inside(a, Y))
  BY <1>8, <1>10, FineConcat
<1>12. Fine((((<<Enter>> \o inputs) \o options) \o <<s>>) \o Times(answers, one), a, Inside(a, Y))
  BY <1>7, <1>11, FineConcat
<1>13. Fine(((((<<Enter>> \o inputs) \o options) \o <<s>>) \o Times(answers, one)) \o <<Leave>>, a, a)
        /\ ((((<<Enter>> \o inputs) \o options) \o <<s>>) \o Times(answers, one)) \o <<Leave>> # <<>>
  BY <1>8, <1>12, FineLast
<1>14. ToVec(answers) = Times(answers, one)
  BY DEF ToVec, one, L
<1>15. MakeTemp("embedding responses",
                {"embedding engine"} \cup (UNION {InputArgs(lists[i]) : i \in DOMAIN lists})
                  \cup OptionArgs(options), answers) = s
  BY DEF s, args, I, O
<1>16. FlattenSeq([i \in DOMAIN lists |-> InputSteps(lists[i])]) = inputs
  BY DEF inputs
<1>17. ComputeBatch(lists, answers, options)
         = ((((<<Enter>> \o inputs) \o options) \o <<s>>) \o Times(answers, one)) \o <<Leave>>
  BY <1>14, <1>15, <1>16, Zenon DEF ComputeBatch
<1> QED
  BY <1>13, <1>17

\* What the text knows of a call when it begins.
Start(kind) == Shape(kind, 0, [i \in Nat |-> {}], {}, {})

LEMMA StartIs ==
    ASSUME NEW kind \in Kinds \cup {"none"}
    PROVE  /\ Closed(Start(kind)) /\ Start(kind) \in Shapes /\ Start(kind).depth = 0 /\ Start(kind).self = kind
           /\ Start(kind).at = [i \in Nat |-> {}] /\ Start(kind).raw = {} /\ Start(kind).open = {}
           /\ Named(Start(kind)) = {kind}
<1> DEFINE at == [i \in Nat |-> {}]
           a == Start(kind)
<1>1. at \in [Nat -> SUBSET Kinds] /\ \A i \in Nat : i > 0 => at[i] = {}
  OBVIOUS
<1> HIDE DEF at
<1>2. {} \in SUBSET {"input data"} /\ {} \in SUBSET {"sampler params"} /\ 0 \in Nat
  OBVIOUS
<1>3. a \in Shapes
  <2>1. Shape(kind, 0, at, {}, {}) \in Shapes
    BY <1>1, <1>2, ShapeIf
  <2> QED
    BY <2>1 DEF Start, at
<1>4. a.depth = 0 /\ a.self = kind /\ a.at = at /\ a.raw = {} /\ a.open = {}
  BY ShapeFields DEF Start, at
<1> HIDE DEF a
<1>5. Closed(a)
  BY <1>3, <1>4 DEF Closed
<1>6. Named(a) = {kind}
  <2>1. 1..0 = {}
    OBVIOUS
  <2> QED
    BY <1>4, <2>1 DEF Named
<1> QED
  BY <1>3, <1>4, <1>5, <1>6 DEF a, at

\* Every method of an object is right from there, and comes back there.
LEMMA MethodFine ==
    ASSUME NEW kind \in Heads \cup {"none"}, NEW steps \in Methods(kind)
    PROVE  Fine(steps, Start(kind), Start(kind)) /\ steps # <<>> /\ kind \in Kinds \cup {"none"}
<1> DEFINE a == Start(kind)
<1>0. kind \in Kinds \cup {"none"}
  BY DEF Heads, Kinds
<1>1. Closed(a) /\ a.depth = 0 /\ Named(a) = {kind}
  BY <1>0, StartIs
<1>2. MaxInputs \in Nat /\ MaxRequests \in Nat /\ Inputs = 0..MaxInputs
  BY ConstantsAssumption DEF Inputs
<1> HIDE DEF a
<1> SUFFICES Fine(steps, a, a) /\ steps # <<>>
  BY <1>0 DEF a
<1>3. CASE kind = "none"
  <2>1. steps \in {EngineSteps, EmbeddingEngineSteps} \cup {BuildState(c) : c \in SessionConfigs}
    BY <1>3 DEF Methods
  <2>2. CASE steps = EngineSteps
    <3>1. Named(a) \cap Vital = {}
      BY <1>1, <1>3 DEF Vital, Children
    <3>2. Fine(EngineSteps, a, Gets(a, {"engine"}))
      BY <1>1, <3>1, EngineFine
    <3>3. Gets(a, {"engine"}) = a
      BY <1>1 DEF Gets
    <3>4. EngineSteps # <<>>
      BY DEF EngineSteps
    <3> QED
      BY <2>2, <3>2, <3>3, <3>4
  <2>3. CASE steps = EmbeddingEngineSteps
    BY <1>1, <2>3, EmbeddingEngineFine
  <2>4. CASE steps \in {BuildState(c) : c \in SessionConfigs}
    <3>1. PICK c \in SessionConfigs : steps = BuildState(c)
      BY <2>4
    <3>2. Named(a) \cap Vital = {}
      BY <1>1, <1>3 DEF Vital, Children
    <3> QED
      BY <1>1, <3>1, <3>2, BuildStateFine
  <2> QED
    BY <2>1, <2>2, <2>3, <2>4
<1>4. CASE kind = "engine"
  <2>1. steps \in {CreateSession(c) : c \in SessionConfigs} \cup {NewConversation(c) : c \in SessionConfigs}
    BY <1>4 DEF Methods
  <2>2. "engine" \in Named(a) /\ "session" \notin Named(a) /\ "conversation" \notin Named(a)
    BY <1>1, <1>4
  <2>3. CASE steps \in {CreateSession(c) : c \in SessionConfigs}
    <3>1. PICK c \in SessionConfigs : steps = CreateSession(c)
      BY <2>3
    <3> QED
      BY <1>1, <2>2, <3>1, CreateSessionFine
  <2>4. CASE steps \in {NewConversation(c) : c \in SessionConfigs}
    <3>1. PICK c \in SessionConfigs : steps = NewConversation(c)
      BY <2>4
    <3>2. Fine(NewConversation(c), a, Gets(a, {"conversation"})) /\ NewConversation(c) # <<>>
      BY <1>1, <2>2, ConversationFine
    <3>3. Gets(a, {"conversation"}) = a
      BY <1>1 DEF Gets
    <3> QED
      BY <3>1, <3>2, <3>3
  <2> QED
    BY <2>1, <2>3, <2>4
<1>5. CASE kind = "session"
  <2>1. PICK n \in Inputs : steps = GenerateContent(n)
    BY <1>5 DEF Methods
  <2>2. "session" \in Named(a) /\ n \in Nat
    BY <1>1, <1>2, <1>5
  <2> QED
    BY <1>1, <2>1, <2>2, GenerateFine
<1>6. CASE kind = "conversation"
  <2>1. steps = SendOnce
    BY <1>6 DEF Methods
  <2>2. "conversation" \in Named(a)
    BY <1>1, <1>6
  <2> QED
    BY <1>1, <2>1, <2>2, SendFine
<1>7. CASE kind = "embedding engine"
  <2>1. steps \in SingleRequests \cup Batches
    BY <1>7 DEF Methods
  <2>2. "embedding engine" \in Named(a)
    BY <1>1, <1>7
  <2>3. CASE steps \in SingleRequests
    <3>1. PICK n \in Inputs, o \in EmbeddingOptions : steps = ComputeEmbedding(n, o)
      BY <2>3 DEF SingleRequests
    <3>2. n \in Nat
      BY <1>2
    <3> QED
      BY <1>1, <2>2, <3>1, <3>2, ComputeEmbeddingFine
  <2>4. CASE steps \in Batches
    <3>1. PICK l \in SeqOf(Inputs, MaxRequests), n \in 0..MaxRequests, o \in EmbeddingOptions :
             steps = ComputeBatch(l, n, o)
      BY <2>4 DEF Batches
    <3>2. n \in Nat
      BY <1>2
    <3>3. PICK m \in 0..MaxRequests : l \in [1..m -> Inputs]
      BY DEF SeqOf
    <3>4. m \in Nat /\ l \in [1..m -> Nat]
      BY <1>2, <3>3
    <3> QED
      BY <1>1, <2>2, <3>1, <3>2, <3>4, ComputeBatchFine
  <2> QED
    BY <2>1, <2>3, <2>4
<1> QED
  BY <1>3, <1>4, <1>5, <1>6, <1>7 DEF Heads

-----------------------------------------------------------------------------
(* Places: where an object is in the scopes, and that what borrows is      *)
(* deleted before its parent whatever becomes of the innermost scope.      *)


-----------------------------------------------------------------------------
(* The scopes of a call.                                                   *)

Objects == [kind : Kinds, id : Nat \ {0}, of : Nat]

\* What is owned in the scopes.
AllOf(scopes) == UNION {ScopeObjects(scopes[i]) : i \in DOMAIN scopes}

LEMMA AllOfAre ==
    ASSUME NEW scopes, NEW o
    PROVE  o \in AllOf(scopes) <=>
             \E i \in DOMAIN scopes : \E j \in DOMAIN scopes[i] : \E k \in DOMAIN scopes[i][j] :
                scopes[i][j][k] = o
<1>1. ASSUME NEW i \in DOMAIN scopes
      PROVE  o \in ScopeObjects(scopes[i]) <=>
               \E j \in DOMAIN scopes[i] : \E k \in DOMAIN scopes[i][j] : scopes[i][j][k] = o
  BY DEF ScopeObjects, ToSet
<1>2. o \in AllOf(scopes) <=> \E i \in DOMAIN scopes : o \in ScopeObjects(scopes[i])
  BY DEF AllOf
<1> QED
  BY <1>1, <1>2

\* The k-th object of the j-th local of a scope, and of the i-th one.
Spot(scope, j, k) == j \in DOMAIN scope /\ k \in DOMAIN scope[j]

Item(scope, j, k) == scope[j][k]

Place(scopes, i, j, k) == i \in DOMAIN scopes /\ Spot(scopes[i], j, k)

Object(scopes, i, j, k) == Item(scopes[i], j, k)

LEMMA FrameOkIs ==
    ASSUME NEW scopes
    PROVE  FrameOk(scopes) <=>
             \A i, j, k, x, y, z : Place(scopes, i, j, k) /\ Place(scopes, x, y, z) =>
                /\ Object(scopes, i, j, k) = Object(scopes, x, y, z) => i = x /\ j = y /\ k = z
                /\ Object(scopes, i, j, k).of = Object(scopes, x, y, z).id => Before(i, j, k, x, y, z)
<1>1. ASSUME FrameOk(scopes), NEW i, NEW j, NEW k, NEW x, NEW y, NEW z, Place(scopes, i, j, k), Place(scopes, x, y, z)
      PROVE  /\ Object(scopes, i, j, k) = Object(scopes, x, y, z) => i = x /\ j = y /\ k = z
             /\ Object(scopes, i, j, k).of = Object(scopes, x, y, z).id => Before(i, j, k, x, y, z)
  BY <1>1 DEF FrameOk, Place, Object, Spot, Item
<1>2. ASSUME \A i, j, k, x, y, z : Place(scopes, i, j, k) /\ Place(scopes, x, y, z) =>
                /\ Object(scopes, i, j, k) = Object(scopes, x, y, z) => i = x /\ j = y /\ k = z
                /\ Object(scopes, i, j, k).of = Object(scopes, x, y, z).id => Before(i, j, k, x, y, z)
      PROVE  FrameOk(scopes)
  <2> SUFFICES ASSUME NEW i \in DOMAIN scopes, NEW j \in DOMAIN scopes[i], NEW k \in DOMAIN scopes[i][j],
                      NEW x \in DOMAIN scopes, NEW y \in DOMAIN scopes[x], NEW z \in DOMAIN scopes[x][y]
               PROVE  /\ scopes[i][j][k] = scopes[x][y][z] => i = x /\ j = y /\ k = z
                      /\ scopes[i][j][k].of = scopes[x][y][z].id => Before(i, j, k, x, y, z)
    BY DEF FrameOk
  <2>1. Place(scopes, i, j, k) /\ Place(scopes, x, y, z)
    BY DEF Place, Spot
  <2>2. Object(scopes, i, j, k) = scopes[i][j][k] /\ Object(scopes, x, y, z) = scopes[x][y][z]
    BY DEF Object, Item
  <2>3. /\ Object(scopes, i, j, k) = Object(scopes, x, y, z) => i = x /\ j = y /\ k = z
        /\ Object(scopes, i, j, k).of = Object(scopes, x, y, z).id => Before(i, j, k, x, y, z)
    BY <1>2, <2>1
  <2> QED
    BY <2>2, <2>3
<1> QED
  BY <1>1, <1>2

LEMMA FrameOkAt ==
    ASSUME NEW scopes, NEW i, NEW j, NEW k, NEW x, NEW y, NEW z, FrameOk(scopes),
           Place(scopes, i, j, k), Place(scopes, x, y, z)
    PROVE  /\ Object(scopes, i, j, k) = Object(scopes, x, y, z) => i = x /\ j = y /\ k = z
           /\ Object(scopes, i, j, k).of = Object(scopes, x, y, z).id => Before(i, j, k, x, y, z)
BY DEF FrameOk, Place, Object, Spot, Item

LEMMA AllOfPlace ==
    ASSUME NEW scopes, NEW o
    PROVE  o \in AllOf(scopes) <=> \E i, j, k : Place(scopes, i, j, k) /\ Object(scopes, i, j, k) = o
<1>1. ASSUME NEW i \in DOMAIN scopes, NEW j \in DOMAIN scopes[i], NEW k \in DOMAIN scopes[i][j], scopes[i][j][k] = o
      PROVE  \E x, y, z : Place(scopes, x, y, z) /\ Object(scopes, x, y, z) = o
  <2>1. Place(scopes, i, j, k) /\ Object(scopes, i, j, k) = o
    BY <1>1 DEF Place, Object, Spot, Item
  <2> QED
    BY <2>1
<1>2. ASSUME NEW i, NEW j, NEW k, Place(scopes, i, j, k), Object(scopes, i, j, k) = o
      PROVE  o \in AllOf(scopes)
  <2>1. i \in DOMAIN scopes /\ j \in DOMAIN scopes[i] /\ k \in DOMAIN scopes[i][j] /\ scopes[i][j][k] = o
    BY <1>2 DEF Place, Object, Spot, Item
  <2> QED
    BY <2>1, AllOfAre
<1> QED
  BY <1>1, <1>2, AllOfAre

LEMMA FrameSub ==
    ASSUME NEW old, NEW new, FrameOk(old),
           \A i, j, k : Place(new, i, j, k) => Place(old, i, j, k) /\ Object(new, i, j, k) = Object(old, i, j, k)
    PROVE  FrameOk(new)
<1> SUFFICES ASSUME NEW i, NEW j, NEW k, NEW x, NEW y, NEW z, Place(new, i, j, k), Place(new, x, y, z)
             PROVE  /\ Object(new, i, j, k) = Object(new, x, y, z) => i = x /\ j = y /\ k = z
                    /\ Object(new, i, j, k).of = Object(new, x, y, z).id => Before(i, j, k, x, y, z)
  BY FrameOkIs
<1>1. /\ Place(old, i, j, k) /\ Object(new, i, j, k) = Object(old, i, j, k)
      /\ Place(old, x, y, z) /\ Object(new, x, y, z) = Object(old, x, y, z)
  OBVIOUS
<1> QED
  BY <1>1, FrameOkIs

\* The new scopes have what is in the old ones where it was, and may have one
\* more object.
Grows(new, old, o, a, b, c) ==
    /\ \A i, j, k : Place(new, i, j, k) =>
          \/ Place(old, i, j, k) /\ Object(new, i, j, k) = Object(old, i, j, k)
          \/ i = a /\ j = b /\ k = c /\ Object(new, i, j, k) = o
    /\ \A i, j, k : Place(old, i, j, k) =>
          /\ Object(old, i, j, k) # o /\ Object(old, i, j, k).of # o.id
          /\ o.of = Object(old, i, j, k).id => Before(a, b, c, i, j, k)
    /\ o.of # o.id

LEMMA FrameGrow ==
    ASSUME NEW old, NEW new, NEW o, NEW a, NEW b, NEW c, FrameOk(old), Grows(new, old, o, a, b, c)
    PROVE  FrameOk(new)
<1> SUFFICES ASSUME NEW i, NEW j, NEW k, NEW x, NEW y, NEW z, Place(new, i, j, k), Place(new, x, y, z)
             PROVE  /\ Object(new, i, j, k) = Object(new, x, y, z) => i = x /\ j = y /\ k = z
                    /\ Object(new, i, j, k).of = Object(new, x, y, z).id => Before(i, j, k, x, y, z)
  BY DEF FrameOk, Place, Object, Spot, Item
<1>0. /\ \/ Place(old, i, j, k) /\ Object(new, i, j, k) = Object(old, i, j, k)
         \/ i = a /\ j = b /\ k = c /\ Object(new, i, j, k) = o
      /\ \/ Place(old, x, y, z) /\ Object(new, x, y, z) = Object(old, x, y, z)
         \/ x = a /\ y = b /\ z = c /\ Object(new, x, y, z) = o
  BY DEF Grows
<1>1. CASE Place(old, i, j, k) /\ Object(new, i, j, k) = Object(old, i, j, k)
  <2>1. CASE Place(old, x, y, z) /\ Object(new, x, y, z) = Object(old, x, y, z)
    BY <1>1, <2>1, FrameOkIs
  <2>2. CASE x = a /\ y = b /\ z = c /\ Object(new, x, y, z) = o
    BY <1>1, <2>2 DEF Grows
  <2> QED
    BY <1>0, <2>1, <2>2
<1>2. CASE i = a /\ j = b /\ k = c /\ Object(new, i, j, k) = o
  <2>1. CASE Place(old, x, y, z) /\ Object(new, x, y, z) = Object(old, x, y, z)
    BY <1>2, <2>1 DEF Grows
  <2>2. CASE x = a /\ y = b /\ z = c /\ Object(new, x, y, z) = o
    BY <1>2, <2>2 DEF Grows
  <2> QED
    BY <1>0, <2>1, <2>2
<1> QED
  BY <1>0, <1>1, <1>2

\* The innermost scope has become another one.
Puts(new, fr, scope) == new = Append(Front(fr), scope)

LEMMA PutsIs ==
    ASSUME NEW S, NEW fr \in Seq(S), NEW scope \in S, NEW new, fr # <<>>, Puts(new, fr, scope)
    PROVE  /\ Len(fr) \in Nat \ {0} /\ Last(fr) = fr[Len(fr)] /\ Last(fr) \in S /\ new \in Seq(S)
           /\ DOMAIN fr = 1..Len(fr) /\ Len(new) = Len(fr) /\ DOMAIN new = 1..Len(fr)
           /\ new[Len(fr)] = scope /\ \A i \in 1..Len(fr) : i # Len(fr) => new[i] = fr[i]
<1> DEFINE n == Len(fr)
           f == Front(fr)
           g == Append(f, scope)
<1>1. n \in Nat \ {0} /\ DOMAIN fr = 1..n
  BY EmptySeq, LenProperties
<1>2. f \in Seq(S) /\ Len(f) = n - 1 /\ \A i \in 1..n - 1 : f[i] = fr[i]
  BY <1>1, SubSeqProperties DEF Front
<1>3. Last(fr) = fr[n] /\ fr[n] \in S
  BY <1>1, ElementOfSeq DEF Last
<1>4. new = g
  BY DEF Puts
<1> HIDE DEF n, f
<1>5. /\ g \in Seq(S) /\ Len(g) = Len(f) + 1 /\ \A i \in 1..Len(f) : g[i] = f[i]
      /\ g[Len(f) + 1] = scope
  BY <1>2, AppendProperties
<1> HIDE DEF g
<1>6. new \in Seq(S) /\ Len(new) = n /\ new[n] = scope /\ \A i \in 1..n - 1 : new[i] = f[i]
  BY <1>1, <1>2, <1>4, <1>5
<1>7. DOMAIN new = 1..n
  BY <1>6, LenProperties
<1>8. \A i \in 1..n : i # n => i \in 1..n - 1
  BY <1>1
<1>9. \A i \in 1..n : i # n => new[i] = fr[i]
  BY <1>2, <1>6, <1>8
<1> QED
  BY <1>1, <1>3, <1>6, <1>7, <1>9 DEF n

\* Its places are those of that one, and of the scopes around it.
LEMMA Places ==
    ASSUME NEW fr \in Seq(Seq(Seq(Objects))), NEW scope \in Seq(Seq(Objects)), NEW new, fr # <<>>,
           Puts(new, fr, scope)
    PROVE  /\ new \in Seq(Seq(Seq(Objects))) /\ Len(new) = Len(fr) /\ Len(fr) \in Nat \ {0}
           /\ Last(fr) \in Seq(Seq(Objects)) /\ Last(fr) = fr[Len(fr)]
           /\ DOMAIN new = 1..Len(fr) /\ DOMAIN fr = 1..Len(fr)
           /\ new[Len(fr)] = scope /\ \A i \in 1..Len(fr) : i # Len(fr) => new[i] = fr[i]
           /\ \A i, j, k : Place(fr, i, j, k) /\ i = Len(fr) =>
                Spot(Last(fr), j, k) /\ Object(fr, i, j, k) = Item(Last(fr), j, k)
           /\ \A j, k : Spot(Last(fr), j, k) =>
                Place(fr, Len(fr), j, k) /\ Object(fr, Len(fr), j, k) = Item(Last(fr), j, k)
           /\ \A i, j, k : Place(new, i, j, k) /\ i = Len(fr) =>
                Spot(scope, j, k) /\ Object(new, i, j, k) = Item(scope, j, k)
           /\ \A j, k : Spot(scope, j, k) =>
                Place(new, Len(fr), j, k) /\ Object(new, Len(fr), j, k) = Item(scope, j, k)
           /\ \A i, j, k : Place(new, i, j, k) /\ i # Len(fr) =>
                Place(fr, i, j, k) /\ Object(new, i, j, k) = Object(fr, i, j, k)
           /\ \A i, j, k : Place(fr, i, j, k) => i \in 1..Len(fr)
<1>1. /\ Len(fr) \in Nat \ {0} /\ Last(fr) = fr[Len(fr)] /\ Last(fr) \in Seq(Seq(Objects)) /\ DOMAIN fr = 1..Len(fr)
      /\ new \in Seq(Seq(Seq(Objects))) /\ DOMAIN new = 1..Len(fr) /\ Len(new) = Len(fr)
      /\ new[Len(fr)] = scope /\ \A i \in 1..Len(fr) : i # Len(fr) => new[i] = fr[i]
  <2> DEFINE S == Seq(Seq(Objects))
  <2>1. fr \in Seq(S) /\ scope \in S
    OBVIOUS
  <2> HIDE DEF S
  <2>2. /\ Len(fr) \in Nat \ {0} /\ Last(fr) = fr[Len(fr)] /\ Last(fr) \in S /\ DOMAIN fr = 1..Len(fr)
        /\ new \in Seq(S) /\ DOMAIN new = 1..Len(fr) /\ Len(new) = Len(fr)
        /\ new[Len(fr)] = scope /\ \A i \in 1..Len(fr) : i # Len(fr) => new[i] = fr[i]
    BY <2>1, PutsIs
  <2> QED
    BY <2>2 DEF S
<1>2. Len(fr) \in 1..Len(fr)
  <2>1. \A n \in Nat \ {0} : n \in 1..n
    OBVIOUS
  <2>2. Len(fr) \in Nat \ {0}
    BY <1>1
  <2> QED
    BY <2>1, <2>2, Zenon
<1>3. ASSUME NEW i, NEW j, NEW k, Place(new, i, j, k), i # Len(fr)
      PROVE  Place(fr, i, j, k) /\ Object(new, i, j, k) = Object(fr, i, j, k)
  BY <1>1, <1>2, <1>3 DEF Place, Object
<1>4. ASSUME NEW j, NEW k
      PROVE  /\ Place(fr, Len(fr), j, k) <=> Spot(Last(fr), j, k)
             /\ Place(new, Len(fr), j, k) <=> Spot(scope, j, k)
             /\ Object(fr, Len(fr), j, k) = Item(Last(fr), j, k)
             /\ Object(new, Len(fr), j, k) = Item(scope, j, k)
  BY <1>1, <1>2 DEF Place, Object
<1>5. \A i, j, k : Place(fr, i, j, k) => i \in 1..Len(fr)
  BY <1>1 DEF Place
<1> QED
  BY <1>1, <1>2, <1>3, <1>4, <1>5

LEMMA FrontLast ==
    ASSUME NEW S, NEW s \in Seq(S), s # <<>>
    PROVE  /\ Front(s) \in Seq(S) /\ Last(s) \in S /\ Last(s) = s[Len(s)]
           /\ Len(s) \in Nat \ {0} /\ Len(Front(s)) = Len(s) - 1
           /\ \A i \in 1..Len(s) - 1 : Front(s)[i] = s[i]
           /\ s = Append(Front(s), Last(s))
<1> DEFINE n == Len(s)
           f == Front(s)
<1>1. n \in Nat \ {0} /\ s = [i \in 1..n |-> s[i]]
  BY EmptySeq, LenProperties
<1>2. f \in Seq(S) /\ Len(f) = n - 1 /\ \A i \in 1..n - 1 : f[i] = s[i]
  BY <1>1, SubSeqProperties DEF Front
<1>3. Last(s) = s[n] /\ s[n] \in S
  BY <1>1, ElementOfSeq DEF Last
<1> HIDE DEF n, f
<1>4. s = Append(f, s[n])
  <2> DEFINE g == Append(f, s[n])
  <2>1. /\ g \in Seq(S) /\ Len(g) = Len(f) + 1 /\ \A i \in 1..Len(f) : g[i] = f[i]
        /\ g[Len(f) + 1] = s[n]
    BY <1>2, <1>3, AppendProperties
  <2>2. g = [i \in 1..Len(g) |-> g[i]] /\ Len(g) = n
    BY <1>1, <1>2, <2>1, LenProperties
  <2> HIDE DEF g
  <2>3. ASSUME NEW i \in 1..n PROVE g[i] = s[i]
    <3>1. CASE i = n
      BY <1>1, <1>2, <2>1, <3>1
    <3>2. CASE i # n
      <4>1. i \in 1..n - 1 /\ i \in 1..Len(f)
        BY <1>1, <1>2, <3>2
      <4> QED
        BY <1>2, <2>1, <4>1
    <3> QED
      BY <3>1, <3>2
  <2> QED
    BY <1>1, <2>2, <2>3 DEF g
<1> QED
  BY <1>1, <1>2, <1>3, <1>4 DEF n, f

\* What is in an owner, in a scope and in the scopes.
LEMMA OwnerTypes ==
    ASSUME NEW w \in Seq(Objects)
    PROVE  ToSet(w) \subseteq Objects
<1>1. DOMAIN w = 1..Len(w) /\ \A i \in 1..Len(w) : w[i] \in Objects
  BY LenProperties, ElementOfSeq
<1> QED
  BY <1>1 DEF ToSet

LEMMA OwnerObjects ==
    ASSUME NEW w \in Seq(Objects), NEW o \in Objects
    PROVE  /\ ToSet(w) \subseteq Objects /\ ToSet(<<>>) = {} /\ ToSet(<<o>>) = {o}
           /\ ToSet(Append(w, o)) = ToSet(w) \cup {o}
           /\ w # <<>> => ToSet(w) = {Head(w)} \cup ToSet(Tail(w)) /\ Head(w) = w[1]
<1>1. Len(w) \in Nat /\ DOMAIN w = 1..Len(w) /\ \A i \in 1..Len(w) : w[i] \in Objects
  BY LenProperties, ElementOfSeq
<1>2. ToSet(w) \subseteq Objects /\ ToSet(<<>>) = {} /\ ToSet(<<o>>) = {o}
  BY <1>1 DEF ToSet
<1>3. ToSet(Append(w, o)) = ToSet(w) \cup {o}
  <2> DEFINE v == Append(w, o)
  <2>1. v \in Seq(Objects) /\ Len(v) = Len(w) + 1 /\ (\A i \in 1..Len(w) : v[i] = w[i]) /\ v[Len(w) + 1] = o
    BY AppendProperties
  <2>2. DOMAIN v = 1..Len(w) + 1
    BY <2>1, LenProperties
  <2> HIDE DEF v
  <2>3. ToSet(v) = ToSet(w) \cup {o}
    BY <1>1, <2>1, <2>2 DEF ToSet
  <2> QED
    BY <2>3 DEF v
<1>4. ASSUME w # <<>> PROVE ToSet(w) = {Head(w)} \cup ToSet(Tail(w)) /\ Head(w) = w[1]
  <2> DEFINE v == Tail(w)
  <2>1. v \in Seq(Objects) /\ Len(v) = Len(w) - 1 /\ \A i \in 1..Len(v) : v[i] = w[i + 1]
    BY <1>4, HeadTailProperties
  <2>2. DOMAIN v = 1..Len(v) /\ Head(w) = w[1] /\ Len(w) # 0
    BY <1>4, <2>1, LenProperties, EmptySeq
  <2> HIDE DEF v
  <2>3. ASSUME NEW i \in 1..Len(w) PROVE i = 1 \/ (i - 1 \in 1..Len(v) /\ v[i - 1] = w[i])
    BY <1>1, <2>1
  <2>4. ASSUME NEW i \in 1..Len(v) PROVE i + 1 \in 1..Len(w) /\ v[i] = w[i + 1]
    BY <1>1, <2>1
  <2>5. 1 \in 1..Len(w)
    BY <1>1, <2>2
  <2>6. ToSet(w) = {w[1]} \cup ToSet(v)
    BY <1>1, <2>2, <2>3, <2>4, <2>5 DEF ToSet
  <2> QED
    BY <2>2, <2>6 DEF v
<1> QED
  BY <1>2, <1>3, <1>4

LEMMA ScopeObjectsAre ==
    ASSUME NEW scope \in Seq(Seq(Objects)), NEW w \in Seq(Objects)
    PROVE  /\ ScopeObjects(scope) \subseteq Objects /\ ScopeObjects(<<>>) = {}
           /\ ScopeObjects(Append(scope, w)) = ScopeObjects(scope) \cup ToSet(w)
           /\ ScopeObjects(<<w>> \o scope) = ToSet(w) \cup ScopeObjects(scope)
           /\ scope # <<>> => ScopeObjects(scope) = ScopeObjects(Front(scope)) \cup ToSet(Last(scope))
<1>1. Len(scope) \in Nat /\ DOMAIN scope = 1..Len(scope) /\ \A i \in 1..Len(scope) : scope[i] \in Seq(Objects)
  BY LenProperties, ElementOfSeq
<1>2. ScopeObjects(scope) \subseteq Objects /\ ScopeObjects(<<>>) = {}
  <2>1. \A i \in DOMAIN scope : ToSet(scope[i]) \subseteq Objects
    BY <1>1, OwnerTypes
  <2> QED
    BY <2>1 DEF ScopeObjects
<1>3. ASSUME NEW s \in Seq(Seq(Objects)), NEW v \in Seq(Objects)
      PROVE  ScopeObjects(Append(s, v)) = ScopeObjects(s) \cup ToSet(v)
  <2> DEFINE t == Append(s, v)
  <2>0. Len(s) \in Nat /\ DOMAIN s = 1..Len(s)
    BY LenProperties
  <2>1. t \in Seq(Seq(Objects)) /\ Len(t) = Len(s) + 1 /\ (\A i \in 1..Len(s) : t[i] = s[i]) /\ t[Len(s) + 1] = v
    BY AppendProperties
  <2>2. DOMAIN t = 1..Len(s) + 1
    BY <2>1, LenProperties
  <2> HIDE DEF t
  <2>3. ASSUME NEW x PROVE x \in ScopeObjects(t) <=> x \in ScopeObjects(s) \/ x \in ToSet(v)
    <3>1. x \in ScopeObjects(t) <=> \E i \in 1..Len(s) + 1 : x \in ToSet(t[i])
      BY <2>2 DEF ScopeObjects
    <3>2. x \in ScopeObjects(s) <=> \E i \in 1..Len(s) : x \in ToSet(s[i])
      BY <2>0 DEF ScopeObjects
    <3>3. \A i \in 1..Len(s) + 1 : i \in 1..Len(s) \/ i = Len(s) + 1
      BY <2>0
    <3>4. \A i \in 1..Len(s) : i \in 1..Len(s) + 1
      BY <2>0
    <3>5. Len(s) + 1 \in 1..Len(s) + 1
      BY <2>0
    <3> QED
      BY <2>1, <3>1, <3>2, <3>3, <3>4, <3>5
  <2>4. ScopeObjects(t) = ScopeObjects(s) \cup ToSet(v)
    BY <2>3
  <2> QED
    BY <2>4 DEF t
<1>4. ScopeObjects(<<w>> \o scope) = ToSet(w) \cup ScopeObjects(scope)
  <2> DEFINE t == <<w>> \o scope
             n == Len(scope)
  <2>1. <<w>> \in Seq(Seq(Objects)) /\ Len(<<w>>) = 1 /\ <<w>>[1] = w
    OBVIOUS
  <2>2. t \in Seq(Seq(Objects)) /\ Len(t) = 1 + n /\ \A i \in 1..1 + n : t[i] = IF i <= 1 THEN <<w>>[i] ELSE scope[i - 1]
    BY <2>1, ConcatProperties
  <2>3. DOMAIN t = 1..1 + n
    BY <2>2, LenProperties
  <2>4. n \in Nat /\ DOMAIN scope = 1..n
    BY <1>1
  <2> HIDE DEF t, n
  <2>5. t[1] = w /\ 1 \in 1..1 + n /\ \A i \in 1..n : t[i + 1] = scope[i] /\ i + 1 \in 1..1 + n
    BY <2>1, <2>2, <2>4
  <2>6. \A i \in 1..1 + n : i = 1 \/ (i - 1 \in 1..n /\ t[i] = scope[i - 1])
    BY <2>2, <2>4
  <2>7. ScopeObjects(t) = ToSet(w) \cup ScopeObjects(scope)
    BY <2>3, <2>4, <2>5, <2>6 DEF ScopeObjects
  <2> QED
    BY <2>7 DEF t
<1>5. scope # <<>> => ScopeObjects(scope) = ScopeObjects(Front(scope)) \cup ToSet(Last(scope))
  BY <1>3, FrontLast
<1> QED
  BY <1>2, <1>3, <1>4, <1>5

LEMMA FrameObjectsAre ==
    ASSUME NEW scopes \in Seq(Seq(Seq(Objects))), NEW scope \in Seq(Seq(Objects))
    PROVE  /\ AllOf(scopes) \subseteq Objects /\ AllOf(<<>>) = {}
           /\ AllOf(Append(scopes, scope)) = AllOf(scopes) \cup ScopeObjects(scope)
           /\ scopes # <<>> => AllOf(scopes) = AllOf(Front(scopes)) \cup ScopeObjects(Last(scopes))
<1>1. Len(scopes) \in Nat /\ DOMAIN scopes = 1..Len(scopes) /\ \A i \in 1..Len(scopes) : scopes[i] \in Seq(Seq(Objects))
  BY LenProperties, ElementOfSeq
<1>2. AllOf(scopes) \subseteq Objects /\ AllOf(<<>>) = {}
  <2>1. <<>> \in Seq(Objects)
    BY EmptySeq
  <2>2. \A i \in DOMAIN scopes : ScopeObjects(scopes[i]) \subseteq Objects
    BY <1>1, <2>1, ScopeObjectsAre
  <2> QED
    BY <2>2 DEF AllOf
<1>3. ASSUME NEW s \in Seq(Seq(Seq(Objects))), NEW v \in Seq(Seq(Objects))
      PROVE  AllOf(Append(s, v)) = AllOf(s) \cup ScopeObjects(v)
  <2> DEFINE t == Append(s, v)
  <2>0. Len(s) \in Nat /\ DOMAIN s = 1..Len(s)
    BY LenProperties
  <2>1. t \in Seq(Seq(Seq(Objects))) /\ Len(t) = Len(s) + 1 /\ (\A i \in 1..Len(s) : t[i] = s[i]) /\ t[Len(s) + 1] = v
    BY AppendProperties
  <2>2. DOMAIN t = 1..Len(s) + 1
    BY <2>1, LenProperties
  <2> HIDE DEF t
  <2>3. ASSUME NEW x PROVE x \in AllOf(t) <=> x \in AllOf(s) \/ x \in ScopeObjects(v)
    <3>1. x \in AllOf(t) <=> \E i \in 1..Len(s) + 1 : x \in ScopeObjects(t[i])
      BY <2>2 DEF AllOf
    <3>2. x \in AllOf(s) <=> \E i \in 1..Len(s) : x \in ScopeObjects(s[i])
      BY <2>0 DEF AllOf
    <3>3. \A i \in 1..Len(s) + 1 : i \in 1..Len(s) \/ i = Len(s) + 1
      BY <2>0
    <3>4. \A i \in 1..Len(s) : i \in 1..Len(s) + 1
      BY <2>0
    <3>5. Len(s) + 1 \in 1..Len(s) + 1
      BY <2>0
    <3> QED
      BY <2>1, <3>1, <3>2, <3>3, <3>4, <3>5
  <2>4. AllOf(t) = AllOf(s) \cup ScopeObjects(v)
    BY <2>3
  <2> QED
    BY <2>4 DEF t
<1>4. scopes # <<>> => AllOf(scopes) = AllOf(Front(scopes)) \cup ScopeObjects(Last(scopes))
  BY <1>3, FrontLast
<1> QED
  BY <1>2, <1>3, <1>4

\* The innermost scope loses some of what it has.
LEMMA FrameInScope ==
    ASSUME NEW fr \in Seq(Seq(Seq(Objects))), NEW scope \in Seq(Seq(Objects)), NEW new, fr # <<>>, FrameOk(fr),
           Puts(new, fr, scope),
           \A j, k : Spot(scope, j, k) => Spot(Last(fr), j, k) /\ Item(scope, j, k) = Item(Last(fr), j, k)
    PROVE  FrameOk(new)
<1>1. ASSUME NEW i, NEW j, NEW k, Place(new, i, j, k)
      PROVE  Place(fr, i, j, k) /\ Object(new, i, j, k) = Object(fr, i, j, k)
  <2>1. CASE i = Len(fr)
    <3>1. Spot(scope, j, k) /\ Object(new, i, j, k) = Item(scope, j, k)
      BY <1>1, <2>1, Places
    <3>2. Spot(Last(fr), j, k) /\ Item(scope, j, k) = Item(Last(fr), j, k)
      BY <3>1
    <3>3. Place(fr, Len(fr), j, k) /\ Object(fr, Len(fr), j, k) = Item(Last(fr), j, k)
      BY <3>2, Places
    <3> QED
      BY <2>1, <3>1, <3>2, <3>3
  <2>2. CASE i # Len(fr)
    BY <1>1, <2>2, Places
  <2> QED
    BY <2>1, <2>2
<1> QED
  BY <1>1, FrameSub

\* It gets an object after all it has.
LEMMA FrameInScopeGrow ==
    ASSUME NEW fr \in Seq(Seq(Seq(Objects))), NEW scope \in Seq(Seq(Objects)), NEW new, NEW o, NEW b \in Nat, NEW c \in Nat,
           fr # <<>>, FrameOk(fr), Puts(new, fr, scope),
           \A j, k : Spot(scope, j, k) =>
              \/ Spot(Last(fr), j, k) /\ Item(scope, j, k) = Item(Last(fr), j, k)
              \/ j = b /\ k = c /\ Item(scope, j, k) = o,
           \A j, k : Spot(Last(fr), j, k) => j < b \/ o.of # Item(Last(fr), j, k).id,
           o \notin AllOf(fr), \A q \in AllOf(fr) : q.of # o.id, o.of # o.id
    PROVE  FrameOk(new)
<1>1. ASSUME NEW i, NEW j, NEW k, Place(new, i, j, k)
      PROVE  \/ Place(fr, i, j, k) /\ Object(new, i, j, k) = Object(fr, i, j, k)
             \/ i = Len(fr) /\ j = b /\ k = c /\ Object(new, i, j, k) = o
  <2>1. CASE i = Len(fr)
    <3>1. Spot(scope, j, k) /\ Object(new, i, j, k) = Item(scope, j, k)
      BY <1>1, <2>1, Places
    <3>2. CASE Spot(Last(fr), j, k) /\ Item(scope, j, k) = Item(Last(fr), j, k)
      <4>1. Place(fr, Len(fr), j, k) /\ Object(fr, Len(fr), j, k) = Item(Last(fr), j, k)
        BY <3>2, Places
      <4> QED
        BY <2>1, <3>1, <3>2, <4>1
    <3>3. CASE j = b /\ k = c /\ Item(scope, j, k) = o
      BY <2>1, <3>1, <3>3
    <3> QED
      BY <3>1, <3>2, <3>3
  <2>2. CASE i # Len(fr)
    BY <1>1, <2>2, Places
  <2> QED
    BY <2>1, <2>2
<1>2. ASSUME NEW i, NEW j, NEW k, Place(fr, i, j, k)
      PROVE  /\ Object(fr, i, j, k) # o /\ Object(fr, i, j, k).of # o.id
             /\ o.of = Object(fr, i, j, k).id => Before(Len(fr), b, c, i, j, k)
  <2>1. Object(fr, i, j, k) \in AllOf(fr)
    BY <1>2, AllOfPlace
  <2>2. i \in 1..Len(fr) /\ Len(fr) \in Nat
    BY <1>2, Places
  <2>3. CASE i # Len(fr)
    <3>1. i < Len(fr)
      BY <2>2, <2>3
    <3> QED
      BY <2>1, <3>1 DEF Before
  <2>4. CASE i = Len(fr)
    <3>1. j < b \/ o.of # Object(fr, i, j, k).id
      BY <1>2, <2>4, Places
    <3> QED
      BY <2>1, <2>4, <3>1 DEF Before
  <2> QED
    BY <2>3, <2>4
<1>3. Grows(new, fr, o, Len(fr), b, c)
  BY <1>1, <1>2 DEF Grows
<1> QED
  BY <1>3, FrameGrow

\* What it has moves by p locals, or by q within the m-th one, and it may
\* get an object.
Shifts(scope, last, p, q, m, o) ==
    \A j, k : Spot(scope, j, k) =>
        \/ /\ j \in Nat /\ k \in Nat
           /\ Spot(last, j - p, IF j = m THEN k + q ELSE k)
           /\ Item(scope, j, k) = Item(last, j - p, IF j = m THEN k + q ELSE k)
        \/ j = 1 /\ k = 1 /\ Item(scope, j, k) = o

LEMMA FrameInScopeShift ==
    ASSUME NEW fr \in Seq(Seq(Seq(Objects))), NEW scope \in Seq(Seq(Objects)), NEW new, NEW o,
           NEW p \in {0, 1}, NEW q \in {0, 1}, NEW m \in Nat,
           fr # <<>>, FrameOk(fr), Puts(new, fr, scope), Shifts(scope, Last(fr), p, q, m, o),
           o \notin AllOf(fr), \A r \in AllOf(fr) : r.of # o.id /\ r.id # o.of, o.of # o.id
    PROVE  FrameOk(new)
<1> DEFINE n == Len(fr)
           K(j, k) == IF j = m THEN k + q ELSE k
           Old(i, j, k) == i # n /\ Place(fr, i, j, k) /\ Object(new, i, j, k) = Object(fr, i, j, k)
           Shifted(i, j, k) == /\ i = n /\ j \in Nat /\ k \in Nat /\ Place(fr, n, j - p, K(j, k))
                               /\ Object(new, i, j, k) = Object(fr, n, j - p, K(j, k))
           New(i, j, k) == i = n /\ j = 1 /\ k = 1 /\ Object(new, i, j, k) = o
<1>0. n \in Nat
  BY Places
<1>1. ASSUME NEW i, NEW j, NEW k, Place(new, i, j, k)
      PROVE  Old(i, j, k) \/ Shifted(i, j, k) \/ New(i, j, k)
  <2>1. CASE i = n
    <3>1. Spot(scope, j, k) /\ Object(new, i, j, k) = Item(scope, j, k)
      BY <1>1, <2>1, Places
    <3>0. \/ /\ j \in Nat /\ k \in Nat /\ Spot(Last(fr), j - p, K(j, k))
             /\ Item(scope, j, k) = Item(Last(fr), j - p, K(j, k))
          \/ j = 1 /\ k = 1 /\ Item(scope, j, k) = o
      BY <3>1 DEF Shifts
    <3>2. CASE j = 1 /\ k = 1 /\ Item(scope, j, k) = o
      BY <2>1, <3>1, <3>2
    <3>3. CASE /\ j \in Nat /\ k \in Nat /\ Spot(Last(fr), j - p, K(j, k))
               /\ Item(scope, j, k) = Item(Last(fr), j - p, K(j, k))
      <4>1. Place(fr, n, j - p, K(j, k)) /\ Object(fr, n, j - p, K(j, k)) = Item(Last(fr), j - p, K(j, k))
        BY <3>3, Places
      <4> QED
        BY <2>1, <3>1, <3>3, <4>1
    <3> QED
      BY <3>0, <3>2, <3>3
  <2>2. CASE i # n
    BY <1>1, <2>2, Places
  <2> QED
    BY <2>1, <2>2
<1>2. ASSUME NEW i, NEW j, NEW k, Place(fr, i, j, k)
      PROVE  Object(fr, i, j, k) # o /\ Object(fr, i, j, k).of # o.id /\ Object(fr, i, j, k).id # o.of
  BY <1>2, AllOfPlace
<1>3. ASSUME NEW i, NEW j, NEW k, NEW x, NEW y, NEW z, Place(fr, i, j, k), Place(fr, x, y, z)
      PROVE  /\ Object(fr, i, j, k) = Object(fr, x, y, z) => i = x /\ j = y /\ k = z
             /\ Object(fr, i, j, k).of = Object(fr, x, y, z).id => Before(i, j, k, x, y, z)
  BY <1>3, FrameOkIs
<1> HIDE DEF n
<1> SUFFICES ASSUME NEW i, NEW j, NEW k, NEW x, NEW y, NEW z, Place(new, i, j, k), Place(new, x, y, z)
             PROVE  /\ Object(new, i, j, k) = Object(new, x, y, z) => i = x /\ j = y /\ k = z
                    /\ Object(new, i, j, k).of = Object(new, x, y, z).id => Before(i, j, k, x, y, z)
  BY FrameOkIs
<1>4. CASE Old(i, j, k)
  <2>1. CASE Old(x, y, z)
    BY <1>3, <1>4, <2>1
  <2>2. CASE Shifted(x, y, z)
    <3>1. /\ Object(fr, i, j, k) # Object(fr, n, y - p, K(y, z))
          /\ Object(fr, i, j, k).of = Object(fr, n, y - p, K(y, z)).id => Before(i, j, k, n, y - p, K(y, z))
      BY <1>3, <1>4, <2>2
    <3>2. Before(i, j, k, n, y - p, K(y, z)) => Before(i, j, k, x, y, z)
      BY <1>4, <2>2 DEF Before
    <3> QED
      BY <1>4, <2>2, <3>1, <3>2
  <2>3. CASE New(x, y, z)
    BY <1>2, <1>4, <2>3
  <2> QED
    BY <1>1, <2>1, <2>2, <2>3
<1>5. CASE Shifted(i, j, k)
  <2> DEFINE u == j - p
             v == K(j, k)
  <2>0. /\ i = n /\ j \in Nat /\ k \in Nat /\ Place(fr, n, u, v) /\ Object(new, i, j, k) = Object(fr, n, u, v)
    BY <1>5
  <2>5. Place(fr, n, u, v)
    BY <1>5
  <2>4. u = j - p /\ v = K(j, k)
    OBVIOUS
  <2> HIDE DEF u, v, K
  <2>1. CASE Old(x, y, z)
    <3>1. /\ Object(fr, n, u, v) # Object(fr, x, y, z)
          /\ Object(fr, n, u, v).of = Object(fr, x, y, z).id => Before(n, u, v, x, y, z)
      BY <1>3, <2>5, <2>1
    <3>2. Before(n, u, v, x, y, z) => Before(i, j, k, x, y, z)
      BY <2>0, <2>1, <2>4 DEF Before
    <3> QED
      BY <2>0, <2>1, <3>1, <3>2
  <2>2. CASE Shifted(x, y, z)
    <3> DEFINE r == y - p
               s == K(y, z)
    <3>0. /\ x = n /\ y \in Nat /\ z \in Nat /\ Place(fr, n, r, s) /\ Object(new, x, y, z) = Object(fr, n, r, s)
      BY <2>2
    <3>6. Place(fr, n, r, s)
      BY <2>2
    <3>5. r = y - p /\ s = K(y, z)
      OBVIOUS
    <3> HIDE DEF r, s
    <3>1. /\ Object(fr, n, u, v) = Object(fr, n, r, s) => u = r /\ v = s
          /\ Object(fr, n, u, v).of = Object(fr, n, r, s).id => Before(n, u, v, n, r, s)
      BY <1>3, <2>5, <3>6
    <3>2. p \in Nat /\ q \in Nat
      OBVIOUS
    <3>3. u = r /\ v = s => j = y /\ k = z
      <4>1. ASSUME u = r, v = s PROVE j = y
        BY <2>0, <2>4, <3>0, <3>2, <3>5, <4>1
      <4>2. ASSUME u = r, v = s PROVE k = z
        BY <2>0, <2>4, <3>0, <3>2, <3>5, <4>1, <4>2 DEF K
      <4> QED
        BY <4>1, <4>2
    <3>4. Before(n, u, v, n, r, s) => Before(n, j, k, n, y, z)
      BY <1>0, <2>0, <2>4, <3>0, <3>2, <3>5 DEF Before, K
    <3> QED
      BY <2>0, <3>0, <3>1, <3>3, <3>4
  <2>3. CASE New(x, y, z)
    BY <1>2, <1>5, <2>3
  <2> QED
    BY <1>1, <2>1, <2>2, <2>3
<1>6. CASE New(i, j, k)
  <2>1. CASE Old(x, y, z)
    BY <1>2, <1>6, <2>1
  <2>2. CASE Shifted(x, y, z)
    BY <1>2, <1>6, <2>2
  <2>3. CASE New(x, y, z)
    BY <1>6, <2>3
  <2> QED
    BY <1>1, <2>1, <2>2, <2>3
<1> QED
  BY <1>1, <1>4, <1>5, <1>6

-----------------------------------------------------------------------------
(* Owners: what is alive is owned by the client, by a scope, by a raw      *)
(* pointer or by its container, and by one of them only.                   *)


-----------------------------------------------------------------------------
(* Who owns what there is, whatever it is a part of.                       *)

Unique(A) == \A o, q \in A : o.id = q.id => o = q

\* The parent is where the object can borrow from it.
ParentOf(p, o, H, F, L) ==
    /\ p.id = o.of
    /\ p \notin L
    /\ o \in H => p \in H
    /\ Element(o) => p \in F /\ p.kind = "embedding responses"
    /\ ~Element(o) => o.kind \in Children /\ p.kind = "engine"

\* A there are, H and F those of the client and of the scopes, L the loose ones.
Owned(A, H, F, L) ==
    /\ Unique(A)
    /\ H \cup F \cup L \subseteq A
    /\ \A o \in A : o \in H \/ o \in F \/ o \in L \/ Element(o)
    /\ \A o \in H \cup F \cup L : ~Element(o)
    /\ H \cap F = {}
    /\ L \cap (H \cup F) = {}
    /\ \A o \in A : o.of # 0 => \E p \in A : ParentOf(p, o, H, F, L)

LEMMA OwnedIs ==
    Owned(alive, HandleObjects, FrameObjects, loose) <=> OwnersInv /\ ParentsInv
<1>1. ASSUME Owned(alive, HandleObjects, FrameObjects, loose) PROVE OwnersInv /\ ParentsInv
  <2>1. OwnersInv
    BY <1>1 DEF Owned, OwnersInv, Unique
  <2>2. ParentsInv
    BY <1>1 DEF Owned, ParentsInv, ParentOf
  <2> QED
    BY <2>1, <2>2
<1>2. ASSUME OwnersInv, ParentsInv PROVE Owned(alive, HandleObjects, FrameObjects, loose)
  <2>1. \A o \in alive : o.of # 0 => \E p \in alive : ParentOf(p, o, HandleObjects, FrameObjects, loose)
    BY <1>2 DEF ParentsInv, ParentOf
  <2>2. Unique(alive)
    BY <1>2 DEF OwnersInv, Unique
  <2>3. HandleObjects \cup FrameObjects \cup loose \subseteq alive
    BY <1>2 DEF OwnersInv
  <2>4. \A o \in alive : o \in HandleObjects \/ o \in FrameObjects \/ o \in loose \/ Element(o)
    BY <1>2 DEF OwnersInv
  <2>5. HandleObjects \cap FrameObjects = {} /\ loose \cap (HandleObjects \cup FrameObjects) = {}
        /\ \A o \in HandleObjects \cup FrameObjects \cup loose : ~Element(o)
    BY <1>2 DEF OwnersInv
  <2> QED
    BY <2>1, <2>2, <2>3, <2>4, <2>5 DEF Owned
<1> QED
  BY <1>1, <1>2

\* An object is made with its elements, and a scope owns it.
LEMMA OwnedMake ==
    ASSUME NEW A, NEW H, NEW F, NEW L, NEW o, NEW E, NEW B, NEW G, Owned(A, H, F, L), ~Element(o),
           \A q \in A : q.id # o.id,
           \A e \in E : Element(e) /\ e.of = o.id /\ e.id # o.id /\ \A q \in A : q.id # e.id,
           Unique(E), E # {} => o.kind = "embedding responses",
           o.of # 0 => o.kind \in Children /\ \E p \in A : p \notin L /\ p.id = o.of /\ p.kind = "engine",
           B = A \cup {o} \cup E, G = F \cup {o}
    PROVE  Owned(B, H, G, L)
<1>1. Unique(B)
  BY DEF Unique, Owned
<1>2. H \cup G \cup L \subseteq B
  BY DEF Owned
<1>3. \A q \in B : q \in H \/ q \in G \/ q \in L \/ Element(q)
  BY DEF Owned
<1>4. \A q \in H \cup G \cup L : ~Element(q)
  BY DEF Owned
<1>5. o \notin A
  OBVIOUS
<1>6. H \cap G = {} /\ L \cap (H \cup G) = {}
  BY <1>5 DEF Owned
<1>7. ASSUME NEW q \in B, q.of # 0 PROVE \E p \in B : ParentOf(p, q, H, G, L)
  <2>1. CASE q \in A
    <3>1. PICK p \in A : ParentOf(p, q, H, F, L)
      BY <1>7, <2>1 DEF Owned
    <3>2. ParentOf(p, q, H, G, L)
      BY <3>1 DEF ParentOf
    <3> QED
      BY <3>1, <3>2
  <2>2. CASE q = o
    <3>1. PICK p \in A : p \notin L /\ p.id = o.of /\ p.kind = "engine"
      BY <1>7, <2>2
    <3>2. o \notin H /\ o.kind \in Children
      BY <1>5, <1>7, <2>2 DEF Owned
    <3>3. ParentOf(p, q, H, G, L)
      BY <2>2, <3>1, <3>2 DEF ParentOf
    <3> QED
      BY <3>1, <3>3
  <2>3. CASE q \in E
    <3>1. o \notin L /\ q \notin H /\ o \in B /\ o \in G
      BY <1>5, <2>3 DEF Owned
    <3>2. ParentOf(o, q, H, G, L)
      BY <2>3, <3>1 DEF ParentOf
    <3> QED
      BY <3>1, <3>2
  <2> QED
    BY <2>1, <2>2, <2>3
<1> QED
  BY <1>1, <1>2, <1>3, <1>4, <1>6, <1>7 DEF Owned

\* A raw pointer is all that is left of it.
LEMMA OwnedMakeRaw ==
    ASSUME NEW A, NEW H, NEW F, NEW L, NEW o, NEW B, NEW M, Owned(A, H, F, L), ~Element(o),
           \A q \in A : q.id # o.id, o.of = 0, B = A \cup {o}, M = L \cup {o}
    PROVE  Owned(B, H, F, M)
<1>0. o \notin A
  OBVIOUS
<1>1. Unique(B)
  BY DEF Unique, Owned
<1>2. H \cup F \cup M \subseteq B /\ \A q \in B : q \in H \/ q \in F \/ q \in M \/ Element(q)
  BY DEF Owned
<1>3. \A q \in H \cup F \cup M : ~Element(q)
  BY DEF Owned
<1>4. H \cap F = {} /\ M \cap (H \cup F) = {}
  BY <1>0 DEF Owned
<1>5. ASSUME NEW q \in B, q.of # 0 PROVE \E p \in B : ParentOf(p, q, H, F, M)
  <2>1. PICK p \in A : ParentOf(p, q, H, F, L)
    BY <1>5 DEF Owned
  <2>2. ParentOf(p, q, H, F, M)
    BY <1>0, <2>1 DEF ParentOf
  <2> QED
    BY <2>1, <2>2
<1> QED
  BY <1>1, <1>2, <1>3, <1>4, <1>5 DEF Owned

\* An object nothing borrows from is deleted with its elements.
LEMMA OwnedDelete ==
    ASSUME NEW A, NEW H, NEW F, NEW L, NEW o, NEW B, NEW G, NEW M, Owned(A, H, F, L), o \in F \cup L,
           \A q \in F : q.of # o.id,
           B = A \ ({o} \cup {e \in A : Element(e) /\ e.of = o.id}), G = F \ {o}, M = L \ {o},
           \A q \in L : q.of # o.id
    PROVE  Owned(B, H, G, M)
<1>1. Unique(B)
  BY DEF Unique, Owned
<1>2. o \in A /\ o \notin H
  BY DEF Owned
<1>3. H \cup G \cup M \subseteq B
  BY <1>2 DEF Owned
<1>4. \A q \in B : q \in H \/ q \in G \/ q \in M \/ Element(q)
  BY DEF Owned
<1>5. \A q \in H \cup G \cup M : ~Element(q)
  BY DEF Owned
<1>6. H \cap G = {} /\ M \cap (H \cup G) = {}
  BY DEF Owned
<1>7. ASSUME NEW q \in B, q.of # 0 PROVE \E p \in B : ParentOf(p, q, H, G, M)
  <2>1. PICK p \in A : ParentOf(p, q, H, F, L)
    BY <1>7 DEF Owned
  <2>2. p.id = q.of /\ p \notin L /\ (q \in H => p \in H) /\ (Element(q) => p \in F /\ p.kind = "embedding responses")
        /\ (~Element(q) => q.kind \in Children /\ p.kind = "engine")
    BY <2>1 DEF ParentOf
  <2>3. q \in A /\ (q \in H \/ q \in F \/ q \in L \/ Element(q)) /\ ~(Element(q) /\ q.of = o.id)
    BY DEF Owned
  <2>4. p # o
    BY <1>2, <2>2, <2>3
  <2>5. ~Element(p)
    <3>1. CASE Element(q)
      BY <2>2, <3>1 DEF Owned
    <3>2. CASE ~Element(q)
      BY <2>2, <3>2 DEF Element
    <3> QED
      BY <3>1, <3>2
  <2>6. p \in B
    BY <2>4, <2>5
  <2>7. ParentOf(p, q, H, G, M)
    BY <2>2, <2>4 DEF ParentOf
  <2> QED
    BY <2>6, <2>7
<1> QED
  BY <1>1, <1>3, <1>4, <1>5, <1>6, <1>7 DEF Owned

\* What is moved to the client has its parents there, and no elements.
LEMMA OwnedMove ==
    ASSUME NEW A, NEW H, NEW F, NEW L, NEW K, NEW I, NEW G, Owned(A, H, F, L), K \subseteq F,
           \A o \in K : o.kind # "embedding responses",
           \A o \in K : o.of # 0 => \A p \in F : p.id = o.of => p \in K,
           I = H \cup K, G = F \ K
    PROVE  Owned(A, I, G, L)
<1>1. I \cup G \cup L \subseteq A
  BY DEF Owned
<1>2. \A q \in A : q \in I \/ q \in G \/ q \in L \/ Element(q)
  BY DEF Owned
<1>3. \A q \in I \cup G \cup L : ~Element(q)
  BY DEF Owned
<1>4. I \cap G = {} /\ L \cap (I \cup G) = {}
  BY DEF Owned
<1>5. ASSUME NEW q \in A, q.of # 0 PROVE \E p \in A : ParentOf(p, q, I, G, L)
  <2>1. PICK p \in A : ParentOf(p, q, H, F, L)
    BY <1>5 DEF Owned
  <2>2. p.id = q.of /\ p \notin L /\ (q \in H => p \in H) /\ (Element(q) => p \in F /\ p.kind = "embedding responses")
        /\ (~Element(q) => q.kind \in Children /\ p.kind = "engine")
    BY <2>1 DEF ParentOf
  <2>3. p \in H \/ p \in F
    <3>1. CASE Element(q)
      BY <2>2, <3>1
    <3>2. CASE ~Element(q)
      BY <2>2, <3>2 DEF Owned, Element
    <3> QED
      BY <3>1, <3>2
  <2>4. q \in I => p \in I
    BY <1>5, <2>2, <2>3
  <2>5. Element(q) => p \in G
    BY <2>2
  <2>6. ParentOf(p, q, I, G, L)
    BY <2>2, <2>4, <2>5 DEF ParentOf
  <2> QED
    BY <2>1, <2>6
<1>6. Unique(A)
  BY DEF Owned
<1> QED
  BY <1>1, <1>2, <1>3, <1>4, <1>5, <1>6 DEF Owned

\* What the client drops the scopes get.
LEMMA OwnedDrop ==
    ASSUME NEW A, NEW H, NEW L, NEW K, NEW I, Owned(A, H, {}, L), K \subseteq H,
           \A o \in H \ K : \A p \in K : o.of # p.id, I = H \ K
    PROVE  Owned(A, I, K, L)
<1>1. I \cup K \cup L \subseteq A
  BY DEF Owned
<1>2. \A q \in A : q \in I \/ q \in K \/ q \in L \/ Element(q)
  BY DEF Owned
<1>3. \A q \in I \cup K \cup L : ~Element(q)
  BY DEF Owned
<1>4. I \cap K = {} /\ L \cap (I \cup K) = {}
  BY DEF Owned
<1>5. ASSUME NEW q \in A, q.of # 0 PROVE \E p \in A : ParentOf(p, q, I, K, L)
  <2>1. PICK p \in A : ParentOf(p, q, H, {}, L)
    BY <1>5 DEF Owned
  <2>2. p.id = q.of /\ p \notin L /\ (q \in H => p \in H) /\ ~Element(q) /\ q.kind \in Children /\ p.kind = "engine"
    BY <2>1 DEF ParentOf
  <2>3. q \in I => p \in I
    BY <2>2
  <2>4. ParentOf(p, q, I, K, L)
    BY <2>2, <2>3 DEF ParentOf
  <2> QED
    BY <2>1, <2>4
<1>6. Unique(A)
  BY DEF Owned
<1> QED
  BY <1>1, <1>2, <1>3, <1>4, <1>5, <1>6 DEF Owned

-----------------------------------------------------------------------------
(* The handles of the client.                                              *)

HandlesOk(hs) ==
    /\ \A h \in hs : h # <<>> /\ h[1].kind \in Heads
    /\ \A h \in hs : \A i, j \in DOMAIN h : (h[i] = h[j] => i = j) /\ (h[i].of = h[j].id => i < j)
    /\ \A h, g \in hs : h # g => ToSet(h) \cap ToSet(g) = {}

HandleSet(hs) == UNION {ToSet(h) : h \in hs}

\* What may become one.
HandleOk(h) ==
    /\ h # <<>> /\ h[1].kind \in Heads
    /\ \A i, j \in DOMAIN h : (h[i] = h[j] => i = j) /\ (h[i].of = h[j].id => i < j)

LEMMA HandlesAdd ==
    ASSUME NEW hs, NEW h, NEW new, HandlesOk(hs), HandleOk(h), ToSet(h) \cap HandleSet(hs) = {}, new = hs \cup {h}
    PROVE  HandlesOk(new) /\ HandleSet(new) = HandleSet(hs) \cup ToSet(h)
<1>1. HandleSet(new) = HandleSet(hs) \cup ToSet(h)
  BY DEF HandleSet
<1>2. \A g \in hs : ToSet(g) \cap ToSet(h) = {} /\ ToSet(h) \cap ToSet(g) = {}
  BY DEF HandleSet
<1>3. \A g \in new : HandleOk(g)
  BY DEF HandlesOk, HandleOk
<1>4. \A f, g \in new : f # g => ToSet(f) \cap ToSet(g) = {}
  BY <1>2 DEF HandlesOk
<1>5. HandlesOk(new)
  BY <1>3, <1>4 DEF HandlesOk, HandleOk
<1> QED
  BY <1>1, <1>5

LEMMA HandlesDrop ==
    ASSUME NEW hs, NEW h \in hs, NEW new, HandlesOk(hs), new = hs \ {h}
    PROVE  /\ HandlesOk(new) /\ HandleSet(new) = HandleSet(hs) \ ToSet(h) /\ ToSet(h) \subseteq HandleSet(hs)
<1>1. HandlesOk(new)
  BY DEF HandlesOk
<1>2. ToSet(h) \subseteq HandleSet(hs)
  BY DEF HandleSet
<1>3. ASSUME NEW x PROVE x \in HandleSet(new) <=> x \in HandleSet(hs) /\ x \notin ToSet(h)
  <2>1. x \in HandleSet(new) <=> \E g \in new : x \in ToSet(g)
    BY DEF HandleSet
  <2>2. x \in HandleSet(hs) <=> \E g \in hs : x \in ToSet(g)
    BY DEF HandleSet
  <2>3. \A g \in hs : g # h => ToSet(h) \cap ToSet(g) = {}
    BY DEF HandlesOk
  <2> QED
    BY <2>1, <2>2, <2>3
<1>4. HandleSet(new) = HandleSet(hs) \ ToSet(h)
  BY <1>3
<1> QED
  BY <1>1, <1>2, <1>4

\* A handle is dropped in a scope of its own.
Alone(new, h) == new = <<<<h>>>>

LEMMA HandleFrame ==
    ASSUME NEW h \in Seq(Objects), NEW new, HandleOk(h), Alone(new, h)
    PROVE  /\ new \in Seq(Seq(Seq(Objects))) /\ FrameOk(new) /\ AllOf(new) = ToSet(h) /\ Len(new) = 1
<1>1. new \in Seq(Seq(Seq(Objects))) /\ Len(new) = 1 /\ DOMAIN new = 1..1 /\ new[1] = <<h>>
      /\ DOMAIN <<h>> = 1..1 /\ <<h>>[1] = h /\ 1..1 = {1}
  BY DEF Alone
<1>2. ASSUME NEW i, NEW j, NEW k, Place(new, i, j, k)
      PROVE  i = 1 /\ j = 1 /\ k \in DOMAIN h /\ Object(new, i, j, k) = h[k]
  BY <1>1, <1>2 DEF Place, Spot, Object, Item
<1>3. FrameOk(new)
  <2> SUFFICES ASSUME NEW i, NEW j, NEW k, NEW x, NEW y, NEW z, Place(new, i, j, k), Place(new, x, y, z)
               PROVE  /\ Object(new, i, j, k) = Object(new, x, y, z) => i = x /\ j = y /\ k = z
                      /\ Object(new, i, j, k).of = Object(new, x, y, z).id => Before(i, j, k, x, y, z)
    BY FrameOkIs
  <2>1. i = 1 /\ j = 1 /\ k \in DOMAIN h /\ Object(new, i, j, k) = h[k]
        /\ x = 1 /\ y = 1 /\ z \in DOMAIN h /\ Object(new, x, y, z) = h[z]
    BY <1>2
  <2>2. (h[k] = h[z] => k = z) /\ (h[k].of = h[z].id => k < z)
    BY <2>1 DEF HandleOk
  <2> QED
    BY <2>1, <2>2 DEF Before
<1>4. ASSUME NEW k \in DOMAIN h PROVE Place(new, 1, 1, k) /\ Object(new, 1, 1, k) = h[k]
  BY <1>1 DEF Place, Spot, Object, Item
<1>5. \A o : o \in ToSet(h) <=> \E k \in DOMAIN h : h[k] = o
  BY DEF ToSet
<1>6. ASSUME NEW o PROVE o \in AllOf(new) <=> o \in ToSet(h)
  <2>1. ASSUME o \in AllOf(new) PROVE o \in ToSet(h)
    <3>1. PICK i, j, k : Place(new, i, j, k) /\ Object(new, i, j, k) = o
      BY <2>1, AllOfPlace
    <3>2. k \in DOMAIN h /\ h[k] = o
      BY <1>2, <3>1
    <3> QED
      BY <1>5, <3>2
  <2>2. ASSUME o \in ToSet(h) PROVE o \in AllOf(new)
    <3>1. PICK k \in DOMAIN h : h[k] = o
      BY <1>5, <2>2
    <3>2. Place(new, 1, 1, k) /\ Object(new, 1, 1, k) = o
      BY <1>4, <3>1
    <3> QED
      BY <3>2, AllOfPlace
  <2> QED
    BY <2>1, <2>2
<1> QED
  BY <1>1, <1>3, <1>6

-----------------------------------------------------------------------------
(* What is moved out of a scope.                                           *)

LEMMA InScopeSpot ==
    ASSUME NEW scope, NEW o
    PROVE  o \in ScopeObjects(scope) <=> \E j, k : Spot(scope, j, k) /\ Item(scope, j, k) = o
<1>1. o \in ScopeObjects(scope) <=> \E j \in DOMAIN scope : \E k \in DOMAIN scope[j] : scope[j][k] = o
  BY DEF ScopeObjects, ToSet
<1>2. ASSUME NEW j \in DOMAIN scope, NEW k \in DOMAIN scope[j] PROVE Spot(scope, j, k) /\ Item(scope, j, k) = scope[j][k]
  BY DEF Spot, Item
<1>3. ASSUME NEW j, NEW k, Spot(scope, j, k) PROVE j \in DOMAIN scope /\ k \in DOMAIN scope[j] /\ Item(scope, j, k) = scope[j][k]
  BY <1>3 DEF Spot, Item
<1> QED
  BY <1>1, <1>2, <1>3

LEMMA OwnerOfIs ==
    ASSUME NEW scope \in Seq(Seq(Objects)), NEW kind, NEW w, w = OwnerOf(scope, kind)
    PROVE  \/ w = <<>> /\ \A o \in ScopeObjects(scope) : o.kind # kind
           \/ \E j \in DOMAIN scope : w = scope[j] /\ \E i \in DOMAIN w : w[i].kind = kind
<1> DEFINE Holds(v) == \E i \in DOMAIN v : v[i].kind = kind
<1>1. CASE \E v \in ToSet(scope) : Holds(v)
  <2>1. w \in ToSet(scope) /\ Holds(w)
    BY <1>1 DEF OwnerOf
  <2>2. \E j \in DOMAIN scope : w = scope[j]
    BY <2>1 DEF ToSet
  <2> QED
    BY <2>1, <2>2
<1>2. CASE ~ \E v \in ToSet(scope) : Holds(v)
  <2>1. w = <<>>
    BY <1>2 DEF OwnerOf
  <2>2. \A o \in ScopeObjects(scope) : o.kind # kind
    <3>1. ASSUME NEW j, NEW k, Spot(scope, j, k) PROVE Item(scope, j, k).kind # kind
      <4>1. j \in DOMAIN scope /\ k \in DOMAIN scope[j] /\ Item(scope, j, k) = scope[j][k]
        BY <3>1 DEF Spot, Item
      <4>2. scope[j] \in ToSet(scope)
        BY <4>1 DEF ToSet
      <4> QED
        BY <1>2, <4>1, <4>2
    <3> QED
      BY <3>1, InScopeSpot
  <2> QED
    BY <2>1, <2>2
<1> QED
  BY <1>1, <1>2

\* The scope without the locals in W.
Rest(scope, W) == [i \in DOMAIN scope |-> IF scope[i] \in W THEN <<>> ELSE scope[i]]

LEMMA RestIs ==
    ASSUME NEW scope \in Seq(Seq(Objects)), NEW W
    PROVE  /\ Rest(scope, W) \in Seq(Seq(Objects))
           /\ \A j, k : Spot(Rest(scope, W), j, k) <=> Spot(scope, j, k) /\ scope[j] \notin W
           /\ \A j, k : Spot(Rest(scope, W), j, k) => Item(Rest(scope, W), j, k) = Item(scope, j, k)
<1> DEFINE r == Rest(scope, W)
<1>1. Len(scope) \in Nat /\ DOMAIN scope = 1..Len(scope) /\ \A i \in 1..Len(scope) : scope[i] \in Seq(Objects)
  BY LenProperties, ElementOfSeq
<1>2. r \in Seq(Seq(Objects))
  <2>1. <<>> \in Seq(Objects)
    BY EmptySeq
  <2> QED
    BY <1>1, <2>1 DEF Rest
<1>3. DOMAIN r = DOMAIN scope /\ \A i \in DOMAIN scope : r[i] = IF scope[i] \in W THEN <<>> ELSE scope[i]
  BY DEF Rest
<1>4. DOMAIN <<>> = {}
  OBVIOUS
<1> HIDE DEF r
<1>5. ASSUME NEW j, NEW k PROVE Spot(r, j, k) <=> Spot(scope, j, k) /\ scope[j] \notin W
  BY <1>3, <1>4 DEF Spot
<1>6. ASSUME NEW j, NEW k, Spot(r, j, k) PROVE Item(r, j, k) = Item(scope, j, k)
  BY <1>3, <1>4, <1>6 DEF Spot, Item
<1> QED
  BY <1>2, <1>5, <1>6 DEF r

-----------------------------------------------------------------------------
(* A local goes to the scope around its own.                               *)


\* A local of the innermost scope becomes the last one of the scope around it.
Hands(new, fr, kept, rest, n, m) ==
    /\ new = Append(Append(Front(Front(fr)), Append(Last(Front(fr)), kept)), rest)
    /\ n = Len(fr) /\ n > 1 /\ m = Len(fr[n - 1]) + 1

LEMMA HandsIs ==
    ASSUME NEW fr \in Seq(Seq(Seq(Objects))), NEW kept \in Seq(Objects), NEW rest \in Seq(Seq(Objects)), NEW new,
           NEW n, NEW m, Hands(new, fr, kept, rest, n, m)
    PROVE  /\ n \in Nat /\ n - 1 \in 1..n /\ n > 1 /\ m \in Nat \ {0} /\ new \in Seq(Seq(Seq(Objects))) /\ Len(new) = n
           /\ DOMAIN new = 1..n /\ DOMAIN fr = 1..n /\ new[n] = rest /\ Last(fr) = fr[n] /\ fr[n] \in Seq(Seq(Objects))
           /\ new[n - 1] \in Seq(Seq(Objects)) /\ DOMAIN new[n - 1] = 1..m /\ new[n - 1][m] = kept
           /\ fr[n - 1] \in Seq(Seq(Objects)) /\ DOMAIN fr[n - 1] = 1..(m - 1)
           /\ \A j \in 1..(m - 1) : new[n - 1][j] = fr[n - 1][j]
           /\ \A i \in 1..n : i # n - 1 /\ i # n => new[i] = fr[i]
           /\ new[n - 1] = Append(fr[n - 1], kept)
<1> DEFINE S == Seq(Seq(Objects))
           f == Front(fr)
           l == Last(f)
           s == Append(l, kept)
           g == Append(Front(f), s)
           h == Append(g, rest)
<1>0. fr \in Seq(S) /\ rest \in S /\ fr # <<>> /\ kept \in Seq(Objects) /\ Len(fr) \in Nat /\ DOMAIN fr = 1..Len(fr)
  BY LenProperties DEF Hands
<1>01. ASSUME NEW v \in S
       PROVE  /\ Append(v, kept) \in S /\ Len(v) \in Nat /\ DOMAIN v = 1..Len(v) /\ DOMAIN Append(v, kept) = 1..(Len(v) + 1)
              /\ (\A i \in 1..Len(v) : Append(v, kept)[i] = v[i]) /\ Append(v, kept)[Len(v) + 1] = kept
  BY AppendProperties, LenProperties
<1>02. new = h
  BY DEF Hands
<1>03. n = Len(fr) /\ n > 1 /\ m = Len(fr[n - 1]) + 1
  BY DEF Hands
<1>04. fr \in Seq(S) /\ fr # <<>>
  BY <1>0
<1> HIDE DEF S
<1>1. f \in Seq(S) /\ Last(fr) = fr[Len(fr)] /\ fr[Len(fr)] \in S /\ Len(f) = Len(fr) - 1
      /\ \A i \in 1..Len(fr) - 1 : f[i] = fr[i]
  BY <1>04, FrontLast
<1> HIDE DEF f
<1>2. Len(f) > 0 /\ f # <<>> /\ Len(f) \in Nat
  BY <1>03, <1>0, <1>1
<1>3. l = f[Len(f)] /\ l \in S
  BY <1>1, <1>2, FrontLast
<1> HIDE DEF l
<1>4. s \in S
  BY <1>01, <1>3
<1>5. Puts(g, f, s)
  BY DEF Puts
<1> HIDE DEF s, g
<1>6. g \in Seq(S) /\ Len(g) = Len(f) /\ g[Len(f)] = s /\ \A i \in 1..Len(f) : i # Len(f) => g[i] = f[i]
  <2>1. f \in Seq(S) /\ f # <<>> /\ s \in S
    BY <1>1, <1>2, <1>4
  <2> QED
    BY <1>5, <2>1, PutsIs
<1>7. h \in Seq(S) /\ Len(h) = Len(g) + 1 /\ (\A i \in 1..Len(g) : h[i] = g[i]) /\ h[Len(g) + 1] = rest
  BY <1>0, <1>6, AppendProperties
<1> HIDE DEF h
<1>8. new \in Seq(S) /\ Len(new) = n /\ DOMAIN new = 1..n /\ new[n] = rest /\ n \in Nat /\ n > 1 /\ n - 1 \in 1..n
  <2>1. new \in Seq(S) /\ Len(new) = n /\ n \in Nat /\ new[n] = rest
    BY <1>03, <1>0, <1>02, <1>1, <1>2, <1>6, <1>7
  <2>2. DOMAIN new = 1..n
    BY <2>1, LenProperties
  <2>3. n > 1 /\ n - 1 \in 1..n
    BY <1>03, <2>1
  <2> QED
    BY <2>1, <2>2, <2>3
<1>9. l = fr[n - 1] /\ new[n - 1] = s
  <2>1. n - 1 = Len(f) /\ n - 1 \in 1..Len(fr) - 1 /\ n - 1 \in 1..Len(g)
    BY <1>03, <1>0, <1>1, <1>2, <1>6
  <2> QED
    BY <1>03, <1>02, <1>1, <1>3, <1>6, <1>7, <2>1
<1>10. ASSUME NEW i \in 1..n, i # n - 1, i # n PROVE new[i] = fr[i]
  <2>1. i \in 1..Len(g) /\ i \in 1..Len(f) /\ i # Len(f) /\ i \in 1..Len(fr) - 1
    BY <1>03, <1>0, <1>1, <1>2, <1>6, <1>10
  <2> QED
    BY <1>03, <1>02, <1>1, <1>6, <1>7, <2>1
<1>11. /\ Len(l) \in Nat /\ DOMAIN l = 1..Len(l) /\ DOMAIN s = 1..(Len(l) + 1)
       /\ (\A i \in 1..Len(l) : s[i] = l[i]) /\ s[Len(l) + 1] = kept /\ s = Append(l, kept)
  BY <1>01, <1>3 DEF s
<1>12. m = Len(l) + 1 /\ m \in Nat \ {0} /\ m - 1 = Len(l)
  BY <1>03, <1>9, <1>11
<1>13. Last(fr) = fr[n] /\ fr[n] \in S /\ DOMAIN fr = 1..n
  BY <1>0, <1>1, <1>03
<1>14. new[n - 1] \in S /\ fr[n - 1] \in S
  BY <1>3, <1>4, <1>9
<1>15. DOMAIN new[n - 1] = 1..m /\ new[n - 1][m] = kept /\ DOMAIN fr[n - 1] = 1..(m - 1)
       /\ (\A j \in 1..(m - 1) : new[n - 1][j] = fr[n - 1][j]) /\ new[n - 1] = Append(fr[n - 1], kept)
  BY <1>9, <1>11, <1>12
<1> HIDE DEF s, l
<1>16. new \in Seq(Seq(Seq(Objects))) /\ fr[n] \in Seq(Seq(Objects)) /\ new[n - 1] \in Seq(Seq(Objects)) /\ fr[n - 1] \in Seq(Seq(Objects))
  BY <1>8, <1>13, <1>14 DEF S
<1> QED
  BY <1>8, <1>10, <1>12, <1>13, <1>15, <1>16

LEMMA HandsPlaces ==
    ASSUME NEW fr \in Seq(Seq(Seq(Objects))), NEW kept \in Seq(Objects), NEW rest \in Seq(Seq(Objects)), NEW new,
           NEW n, NEW m, Hands(new, fr, kept, rest, n, m)
    PROVE  /\ \A i, j, k : Place(new, i, j, k) =>
                \/ i # n /\ Place(fr, i, j, k) /\ Object(new, i, j, k) = Object(fr, i, j, k)
                \/ i = n /\ Spot(rest, j, k) /\ Object(new, i, j, k) = Item(rest, j, k)
                \/ i = n - 1 /\ j = m /\ k \in DOMAIN kept /\ Object(new, i, j, k) = kept[k]
           /\ \A i, j, k : Place(fr, i, j, k) => (i \in 1..n /\ (i = n - 1 => j \in 1..(m - 1)))
           /\ \A i, j, k : Place(fr, i, j, k) /\ i # n => Place(new, i, j, k) /\ Object(new, i, j, k) = Object(fr, i, j, k)
           /\ \A j, k : Spot(rest, j, k) => Place(new, n, j, k) /\ Object(new, n, j, k) = Item(rest, j, k)
           /\ \A k \in DOMAIN kept : Place(new, n - 1, m, k) /\ Object(new, n - 1, m, k) = kept[k]
           /\ \A j, k : Place(fr, n, j, k) <=> Spot(Last(fr), j, k)
           /\ \A j, k : Object(fr, n, j, k) = Item(Last(fr), j, k)
<1>1. /\ n \in Nat /\ n - 1 \in 1..n /\ n > 1 /\ m \in Nat \ {0}
      /\ DOMAIN new = 1..n /\ DOMAIN fr = 1..n /\ new[n] = rest /\ Last(fr) = fr[n]
      /\ DOMAIN new[n - 1] = 1..m /\ new[n - 1][m] = kept
      /\ DOMAIN fr[n - 1] = 1..(m - 1)
      /\ \A j \in 1..(m - 1) : new[n - 1][j] = fr[n - 1][j]
      /\ \A i \in 1..n : i # n - 1 /\ i # n => new[i] = fr[i]
  BY HandsIs
<1>2. n - 1 # n /\ n \in 1..n /\ m \in 1..m /\ \A j \in 1..m : j # m => j \in 1..(m - 1)
  BY <1>1
<1>3. \A j \in 1..(m - 1) : j \in 1..m
  BY <1>1
<1>4. ASSUME NEW i, NEW j, NEW k, Place(new, i, j, k)
      PROVE  \/ i # n /\ Place(fr, i, j, k) /\ Object(new, i, j, k) = Object(fr, i, j, k)
             \/ i = n /\ Spot(rest, j, k) /\ Object(new, i, j, k) = Item(rest, j, k)
             \/ i = n - 1 /\ j = m /\ k \in DOMAIN kept /\ Object(new, i, j, k) = kept[k]
  <2>1. i \in 1..n /\ j \in DOMAIN new[i] /\ k \in DOMAIN new[i][j] /\ Object(new, i, j, k) = new[i][j][k]
    BY <1>1, <1>4 DEF Place, Object, Spot, Item
  <2>2. CASE i = n
    BY <1>1, <2>1, <2>2 DEF Spot, Item
  <2>3. CASE i = n - 1 /\ j = m
    BY <1>1, <2>1, <2>3
  <2>4. CASE i = n - 1 /\ j # m
    <3>1. j \in 1..(m - 1) /\ fr[i][j] = new[i][j]
      BY <1>1, <1>2, <2>1, <2>4
    <3> QED
      BY <1>1, <1>2, <2>1, <2>4, <3>1 DEF Place, Object, Spot, Item
  <2>5. CASE i # n /\ i # n - 1
    <3>1. new[i] = fr[i]
      BY <1>1, <2>1, <2>5
    <3> QED
      BY <1>1, <2>1, <2>5, <3>1 DEF Place, Object, Spot, Item
  <2> QED
    BY <2>2, <2>3, <2>4, <2>5
<1>5. ASSUME NEW i, NEW j, NEW k, Place(fr, i, j, k) PROVE i \in 1..n /\ (i = n - 1 => j \in 1..(m - 1))
  BY <1>1, <1>5 DEF Place, Spot
<1>6. ASSUME NEW i, NEW j, NEW k, Place(fr, i, j, k), i # n
      PROVE  Place(new, i, j, k) /\ Object(new, i, j, k) = Object(fr, i, j, k)
  <2>1. i \in 1..n /\ j \in DOMAIN fr[i] /\ k \in DOMAIN fr[i][j] /\ Object(fr, i, j, k) = fr[i][j][k]
    BY <1>1, <1>6 DEF Place, Object, Spot, Item
  <2>2. j \in DOMAIN new[i] /\ new[i][j] = fr[i][j]
    BY <1>1, <1>3, <1>6, <2>1
  <2> QED
    BY <1>1, <2>1, <2>2 DEF Place, Object, Spot, Item
<1>7. ASSUME NEW j, NEW k, Spot(rest, j, k) PROVE Place(new, n, j, k) /\ Object(new, n, j, k) = Item(rest, j, k)
  BY <1>1, <1>2, <1>7 DEF Place, Object
<1>8. ASSUME NEW k \in DOMAIN kept PROVE Place(new, n - 1, m, k) /\ Object(new, n - 1, m, k) = kept[k]
  BY <1>1, <1>2 DEF Place, Object, Spot, Item
<1>9. ASSUME NEW j, NEW k PROVE (Place(fr, n, j, k) <=> Spot(Last(fr), j, k)) /\ Object(fr, n, j, k) = Item(Last(fr), j, k)
  BY <1>1, <1>2 DEF Place, Object
<1> QED
  BY <1>4, <1>5, <1>6, <1>7, <1>8, <1>9

\* What is moved is one of its locals, and borrows from none of the others.
Moved(fr, kept, rest) ==
    /\ kept = <<>> \/ \E y \in DOMAIN Last(fr) : Last(fr)[y] = kept
    /\ \A j, k : Spot(rest, j, k) <=> Spot(Last(fr), j, k) /\ Last(fr)[j] # kept
    /\ \A j, k : Spot(rest, j, k) => Item(rest, j, k) = Item(Last(fr), j, k)

Apart(kept, rest) == \A o \in ToSet(kept) : \A r \in ScopeObjects(rest) : o.of # r.id

\* What FrameOk says of two places.
Clear(o, i, j, k, q, x, y, z) ==
    (o = q => i = x /\ j = y /\ k = z) /\ (o.of = q.id => Before(i, j, k, x, y, z))

LEMMA FrameClear ==
    ASSUME NEW scopes
    PROVE  FrameOk(scopes) <=>
             \A i, j, k, x, y, z : Place(scopes, i, j, k) /\ Place(scopes, x, y, z) =>
                Clear(Object(scopes, i, j, k), i, j, k, Object(scopes, x, y, z), x, y, z)
BY FrameOkIs DEF Clear

LEMMA FrameHands ==
    ASSUME NEW fr \in Seq(Seq(Seq(Objects))), NEW kept \in Seq(Objects), NEW rest \in Seq(Seq(Objects)), NEW new,
           NEW n, NEW m, FrameOk(fr), Hands(new, fr, kept, rest, n, m), Moved(fr, kept, rest), Apart(kept, rest)
    PROVE  FrameOk(new)
<1> DEFINE Old(i, j, k) == i # n /\ Place(fr, i, j, k) /\ Object(new, i, j, k) = Object(fr, i, j, k)
           Left(i, j, k) == i = n /\ Place(fr, n, j, k) /\ Object(new, i, j, k) = Object(fr, n, j, k)
                              /\ Spot(rest, j, k) /\ Object(new, i, j, k) = Item(rest, j, k)
           Kept(i, j, k) == i = n - 1 /\ j = m /\ k \in DOMAIN kept /\ Object(new, i, j, k) = kept[k]
<1>0. n \in Nat /\ m \in Nat /\ n > 1 /\ DOMAIN kept = 1..Len(kept) /\ Len(kept) \in Nat
  BY HandsIs, LenProperties
<1>1. ASSUME NEW i, NEW j, NEW k, Place(new, i, j, k) PROVE Old(i, j, k) \/ Left(i, j, k) \/ Kept(i, j, k)
  <2>1. \/ i # n /\ Place(fr, i, j, k) /\ Object(new, i, j, k) = Object(fr, i, j, k)
        \/ i = n /\ Spot(rest, j, k) /\ Object(new, i, j, k) = Item(rest, j, k)
        \/ i = n - 1 /\ j = m /\ k \in DOMAIN kept /\ Object(new, i, j, k) = kept[k]
    BY <1>1, HandsPlaces
  <2>2. ASSUME i = n, Spot(rest, j, k), Object(new, i, j, k) = Item(rest, j, k) PROVE Left(i, j, k)
    <3>1. Spot(Last(fr), j, k) /\ Last(fr)[j] # kept /\ Item(rest, j, k) = Item(Last(fr), j, k)
      BY <2>2 DEF Moved
    <3>2. Place(fr, n, j, k) /\ Object(fr, n, j, k) = Item(Last(fr), j, k)
      BY <3>1, HandsPlaces
    <3> QED
      BY <2>2, <3>1, <3>2
  <2> QED
    BY <2>1, <2>2
<1>2. ASSUME NEW i, NEW j, NEW k, Place(fr, i, j, k) PROVE i \in 1..n /\ (i = n - 1 => j \in 1..(m - 1))
  BY <1>2, HandsPlaces
<1>3. ASSUME NEW i, NEW j, NEW k, NEW x, NEW y, NEW z, Place(fr, i, j, k), Place(fr, x, y, z)
      PROVE  Clear(Object(fr, i, j, k), i, j, k, Object(fr, x, y, z), x, y, z)
  BY <1>3, FrameClear
<1>9. Last(fr) \in Seq(Seq(Objects))
  <2>1. Last(fr) = fr[n] /\ fr[n] \in Seq(Seq(Objects))
    BY HandsIs
  <2> QED
    BY <2>1
<1>10. ASSUME NEW j, NEW k, Spot(rest, j, k) PROVE Last(fr)[j] # kept
  BY <1>10 DEF Moved
<1>4. ASSUME kept # <<>>
      PROVE  \E y \in Nat : Last(fr)[y] = kept /\ \A k \in DOMAIN kept : Place(fr, n, y, k) /\ Object(fr, n, y, k) = kept[k]
  <2>1. PICK y \in DOMAIN Last(fr) : Last(fr)[y] = kept
    BY <1>4 DEF Moved
  <2>3. y \in Nat
    BY <1>9, <2>1, LenProperties
  <2>4. ASSUME NEW k \in DOMAIN kept PROVE Place(fr, n, y, k) /\ Object(fr, n, y, k) = kept[k]
    <3>1. Spot(Last(fr), y, k) /\ Item(Last(fr), y, k) = kept[k]
      BY <2>1 DEF Spot, Item
    <3> QED
      BY <3>1, HandsPlaces
  <2> QED
    BY <2>1, <2>3, <2>4
<1>5. ASSUME NEW i, NEW j, NEW k, Kept(i, j, k)
      PROVE  \E y \in Nat : Last(fr)[y] = kept /\ Place(fr, n, y, k) /\ Object(fr, n, y, k) = kept[k]
  <2>1. kept # <<>> /\ k \in DOMAIN kept
    BY <1>5
  <2> QED
    BY <1>4, <2>1
<1> SUFFICES ASSUME NEW i, NEW j, NEW k, NEW x, NEW y, NEW z, Place(new, i, j, k), Place(new, x, y, z)
             PROVE  Clear(Object(new, i, j, k), i, j, k, Object(new, x, y, z), x, y, z)
  BY FrameClear
<1>6. CASE Old(i, j, k)
  <2>1. CASE Old(x, y, z) \/ Left(x, y, z)
    BY <1>3, <1>6, <2>1
  <2>2. CASE Kept(x, y, z)
    <3>1. PICK p \in Nat : Last(fr)[p] = kept /\ Place(fr, n, p, z) /\ Object(fr, n, p, z) = kept[z]
      BY <1>5, <2>2
    <3>2. Clear(Object(fr, i, j, k), i, j, k, Object(fr, n, p, z), n, p, z)
      BY <1>3, <1>6, <3>1
    <3>3. ~Before(i, j, k, n, p, z)
      <4>1. i \in 1..n /\ i # n
        BY <1>2, <1>6
      <4> QED
        BY <1>0, <4>1 DEF Before
    <3> QED
      BY <1>6, <2>2, <3>1, <3>2, <3>3 DEF Clear
  <2> QED
    BY <1>1, <2>1, <2>2
<1>7. CASE Left(i, j, k)
  <2>1. CASE Old(x, y, z) \/ Left(x, y, z)
    BY <1>3, <1>7, <2>1
  <2>2. CASE Kept(x, y, z)
    <3>1. PICK p \in Nat : Last(fr)[p] = kept /\ Place(fr, n, p, z) /\ Object(fr, n, p, z) = kept[z]
      BY <1>5, <2>2
    <3>2. Clear(Object(fr, n, j, k), n, j, k, Object(fr, n, p, z), n, p, z)
      BY <1>3, <1>7, <3>1
    <3>4. j # p
      BY <1>7, <1>10, <3>1
    <3>3. Before(i, j, k, x, y, z)
      BY <1>0, <1>7, <2>2 DEF Before
    <3> QED
      BY <1>7, <2>2, <3>1, <3>2, <3>3, <3>4 DEF Clear
  <2> QED
    BY <1>1, <2>1, <2>2
<1>8. CASE Kept(i, j, k)
  <2>0. PICK p \in Nat : Last(fr)[p] = kept /\ Place(fr, n, p, k) /\ Object(fr, n, p, k) = kept[k]
    BY <1>5, <1>8
  <2>1. CASE Old(x, y, z)
    <3>1. Clear(Object(fr, n, p, k), n, p, k, Object(fr, x, y, z), x, y, z)
      BY <1>3, <2>0, <2>1
    <3>2. Before(i, j, k, x, y, z)
      <4>1. x \in 1..n /\ x # n /\ (x = n - 1 => y \in 1..(m - 1))
        BY <1>2, <2>1
      <4> QED
        BY <1>0, <1>8, <4>1 DEF Before
    <3> QED
      BY <1>8, <2>0, <2>1, <3>1, <3>2 DEF Clear
  <2>2. CASE Left(x, y, z)
    <3>1. Clear(Object(fr, n, p, k), n, p, k, Object(fr, n, y, z), n, y, z)
      BY <1>3, <2>0, <2>2
    <3>4. p # y
      BY <1>10, <2>0, <2>2
    <3>2. kept[k] \in ToSet(kept) /\ Item(rest, y, z) \in ScopeObjects(rest)
      BY <1>8, <2>2, InScopeSpot DEF ToSet
    <3>3. Object(new, i, j, k).of # Object(new, x, y, z).id
      BY <1>8, <2>2, <3>2 DEF Apart
    <3> QED
      BY <1>8, <2>0, <2>2, <3>1, <3>3, <3>4 DEF Clear
  <2>3. CASE Kept(x, y, z)
    <3>1. PICK q \in Nat : Last(fr)[q] = kept /\ Place(fr, n, q, z) /\ Object(fr, n, q, z) = kept[z]
      BY <1>5, <2>3
    <3>2. Clear(Object(fr, n, p, k), n, p, k, Object(fr, n, p, z), n, p, z)
      <4>1. Place(fr, n, p, z)
        <5>1. Spot(Last(fr), p, k)
          BY <2>0, HandsPlaces
        <5>2. p \in DOMAIN Last(fr) /\ z \in DOMAIN Last(fr)[p]
          BY <2>0, <2>3, <5>1 DEF Spot
        <5>3. Spot(Last(fr), p, z)
          BY <5>2 DEF Spot
        <5> QED
          BY <5>3, HandsPlaces
      <4> QED
        BY <1>3, <2>0, <4>1
    <3>3. Object(fr, n, p, z) = kept[z]
      <4>1. Object(fr, n, p, z) = Item(Last(fr), p, z) /\ Item(Last(fr), p, z) = kept[z]
        BY <2>0, HandsPlaces DEF Item
      <4> QED
        BY <4>1
    <3>4. Before(n, p, k, n, p, z) => Before(i, j, k, x, y, z)
      BY <1>0, <1>8, <2>0, <2>3 DEF Before
    <3> QED
      BY <1>8, <2>0, <2>3, <3>2, <3>3, <3>4 DEF Clear
  <2> QED
    BY <1>1, <2>1, <2>2, <2>3
<1> QED
  BY <1>1, <1>6, <1>7, <1>8

LEMMA LastPlaces ==
    ASSUME NEW fr \in Seq(Seq(Seq(Objects))), fr # <<>>
    PROVE  /\ Last(fr) = fr[Len(fr)] /\ Last(fr) \in Seq(Seq(Objects)) /\ Len(fr) \in DOMAIN fr
           /\ \A j, k : Place(fr, Len(fr), j, k) <=> Spot(Last(fr), j, k)
           /\ \A j, k : Object(fr, Len(fr), j, k) = Item(Last(fr), j, k)
<1>1. Len(fr) \in DOMAIN fr
  <2>1. Len(fr) \in Nat \ {0} /\ DOMAIN fr = 1..Len(fr)
    BY EmptySeq, LenProperties
  <2> QED
    BY <2>1
<1>2. Last(fr) = fr[Len(fr)] /\ Last(fr) \in Seq(Seq(Objects))
  <2> DEFINE S == Seq(Seq(Objects))
  <2>1. fr \in Seq(S)
    OBVIOUS
  <2> HIDE DEF S
  <2>2. Last(fr) = fr[Len(fr)] /\ Last(fr) \in S
    BY <2>1, FrontLast
  <2> QED
    BY <2>2 DEF S
<1>3. ASSUME NEW j, NEW k
      PROVE  (Place(fr, Len(fr), j, k) <=> Spot(Last(fr), j, k)) /\ Object(fr, Len(fr), j, k) = Item(Last(fr), j, k)
  BY <1>1, <1>2 DEF Place, Object
<1> QED
  BY <1>1, <1>2, <1>3

LEMMA MovedObjects ==
    ASSUME NEW fr \in Seq(Seq(Seq(Objects))), NEW kept \in Seq(Objects), NEW rest \in Seq(Seq(Objects)), fr # <<>>,
           FrameOk(fr), Moved(fr, kept, rest)
    PROVE  /\ ScopeObjects(Last(fr)) = ScopeObjects(rest) \cup ToSet(kept)
           /\ ScopeObjects(rest) \cap ToSet(kept) = {}
<1>1. ASSUME NEW o \in ToSet(kept)
      PROVE  \E y, k : Last(fr)[y] = kept /\ Spot(Last(fr), y, k) /\ Item(Last(fr), y, k) = o
  <2>1. PICK k \in DOMAIN kept : kept[k] = o
    BY DEF ToSet
  <2>2. kept # <<>>
    BY <2>1
  <2>3. PICK y \in DOMAIN Last(fr) : Last(fr)[y] = kept
    BY <2>2 DEF Moved
  <2>4. Spot(Last(fr), y, k) /\ Item(Last(fr), y, k) = o
    BY <2>1, <2>3 DEF Spot, Item
  <2> QED
    BY <2>3, <2>4
<1>2. ASSUME NEW o \in ScopeObjects(rest)
      PROVE  \E y, k : Last(fr)[y] # kept /\ Spot(Last(fr), y, k) /\ Item(Last(fr), y, k) = o
  <2>1. PICK y, k : Spot(rest, y, k) /\ Item(rest, y, k) = o
    BY InScopeSpot
  <2> QED
    BY <2>1 DEF Moved
<1>3. ASSUME NEW o \in ScopeObjects(Last(fr)) PROVE o \in ScopeObjects(rest) \/ o \in ToSet(kept)
  <2>1. PICK y, k : Spot(Last(fr), y, k) /\ Item(Last(fr), y, k) = o
    BY InScopeSpot
  <2>2. CASE Last(fr)[y] = kept
    BY <2>1, <2>2 DEF Spot, Item, ToSet
  <2>3. CASE Last(fr)[y] # kept
    <3>1. Spot(rest, y, k) /\ Item(rest, y, k) = o
      BY <2>1, <2>3 DEF Moved
    <3> QED
      BY <3>1, InScopeSpot
  <2> QED
    BY <2>2, <2>3
<1>4. ASSUME NEW j, NEW k, NEW y, NEW z, Spot(Last(fr), j, k), Spot(Last(fr), y, z), Item(Last(fr), j, k) = Item(Last(fr), y, z)
      PROVE  j = y
  <2>1. Place(fr, Len(fr), j, k) /\ Object(fr, Len(fr), j, k) = Item(Last(fr), j, k)
    BY <1>4, LastPlaces
  <2>2. Place(fr, Len(fr), y, z) /\ Object(fr, Len(fr), y, z) = Item(Last(fr), y, z)
    BY <1>4, LastPlaces
  <2>3. Clear(Object(fr, Len(fr), j, k), Len(fr), j, k, Object(fr, Len(fr), y, z), Len(fr), y, z)
    BY <2>1, <2>2, FrameClear
  <2> QED
    BY <1>4, <2>1, <2>2, <2>3 DEF Clear
<1>5. \A o \in ScopeObjects(rest) : o \in ScopeObjects(Last(fr))
  BY <1>2, InScopeSpot
<1>6. \A o \in ToSet(kept) : o \in ScopeObjects(Last(fr))
  BY <1>1, InScopeSpot
<1>7. ASSUME NEW o \in ScopeObjects(rest), o \in ToSet(kept) PROVE FALSE
  <2>1. PICK y, k : Last(fr)[y] # kept /\ Spot(Last(fr), y, k) /\ Item(Last(fr), y, k) = o
    BY <1>2
  <2>2. PICK j, z : Last(fr)[j] = kept /\ Spot(Last(fr), j, z) /\ Item(Last(fr), j, z) = o
    BY <1>1, <1>7
  <2>3. j = y
    BY <1>4, <2>1, <2>2
  <2> QED
    BY <2>1, <2>2, <2>3
<1> QED
  BY <1>3, <1>5, <1>6, <1>7

LEMMA HandsObjects ==
    ASSUME NEW fr \in Seq(Seq(Seq(Objects))), NEW kept \in Seq(Objects), NEW rest \in Seq(Seq(Objects)), NEW new,
           NEW n, NEW m, FrameOk(fr), Hands(new, fr, kept, rest, n, m), Moved(fr, kept, rest)
    PROVE  /\ AllOf(new) = AllOf(fr)
           /\ ScopeObjects(new[n]) = ScopeObjects(rest)
           /\ ScopeObjects(new[n - 1]) = ScopeObjects(fr[n - 1]) \cup ToSet(kept)
           /\ \A i \in 1..n : i # n - 1 /\ i # n => new[i] = fr[i]
<1>1. /\ n \in Nat /\ n - 1 \in 1..n /\ n > 1 /\ DOMAIN new = 1..n /\ DOMAIN fr = 1..n
      /\ new[n] = rest /\ Last(fr) = fr[n] /\ fr[n - 1] \in Seq(Seq(Objects))
      /\ new[n - 1] = Append(fr[n - 1], kept)
  BY HandsIs
<1>2. \A i \in 1..n : i # n - 1 /\ i # n => new[i] = fr[i]
  BY HandsIs
<1>3. ScopeObjects(new[n - 1]) = ScopeObjects(fr[n - 1]) \cup ToSet(kept)
  <2>1. ASSUME NEW v \in Seq(Seq(Objects)) PROVE ScopeObjects(Append(v, kept)) = ScopeObjects(v) \cup ToSet(kept)
    BY ScopeObjectsAre
  <2>2. ScopeObjects(Append(fr[n - 1], kept)) = ScopeObjects(fr[n - 1]) \cup ToSet(kept)
    BY <1>1, <2>1
  <2> QED
    BY <1>1, <2>2
<1>4. ScopeObjects(fr[n]) = ScopeObjects(rest) \cup ToSet(kept)
  <2>1. fr # <<>>
    BY DEF Hands
  <2> QED
    BY <1>1, <2>1, MovedObjects
<1>5. ScopeObjects(new[n]) = ScopeObjects(rest)
  BY <1>1
<1>6. ASSUME NEW o PROVE o \in AllOf(new) <=> o \in AllOf(fr)
  <2>1. o \in AllOf(new) <=> \E i \in 1..n : o \in ScopeObjects(new[i])
    BY <1>1 DEF AllOf
  <2>2. o \in AllOf(fr) <=> \E i \in 1..n : o \in ScopeObjects(fr[i])
    BY <1>1 DEF AllOf
  <2>3. n \in 1..n
    BY <1>1
  <2>4. ASSUME NEW i \in 1..n, o \in ScopeObjects(new[i]) PROVE \E x \in 1..n : o \in ScopeObjects(fr[x])
    BY <1>1, <1>2, <1>3, <1>4, <1>5, <2>3, <2>4
  <2>5. ASSUME NEW i \in 1..n, o \in ScopeObjects(fr[i]) PROVE \E x \in 1..n : o \in ScopeObjects(new[x])
    BY <1>1, <1>2, <1>3, <1>4, <1>5, <2>3, <2>5
  <2> QED
    BY <2>1, <2>2, <2>4, <2>5
<1> QED
  BY <1>2, <1>3, <1>5, <1>6

-----------------------------------------------------------------------------
(* What the text knows of a call is so.                                    *)

\* There is an object of the kind, in the scope or in a container there.
Reached(A, scope, k) ==
    \E o \in A : /\ o.kind = k
                 /\ o \in ScopeObjects(scope) \/ (Element(o) /\ \E p \in ScopeObjects(scope) : p.id = o.of)

\* In the first n scopes.
Has(a, n, A, fr) == \A i \in 1..n : \A k \in a.at[i] : Reached(A, fr[i], k)

LooseAs(a, L) ==
    /\ \A k \in a.raw : \E o \in L : o.kind = k
    /\ \A o \in L : o.kind \in a.raw
    /\ \A o, q \in L : o = q

\* What borrows, and what is borrowed from, is where it is known to be.
Known(a, fr) == \A i \in DOMAIN fr : \A o \in ScopeObjects(fr[i]) : o.kind \in Vital => o.kind \in a.at[i]

Single(F, s) == \A o, q \in F \cup {s} : o.kind = q.kind /\ o.kind \in Vital => o = q

Borrows(F) == \A o, q \in F : o.of # 0 /\ q.kind = "engine" => o.of = q.id

SameKind(w) == \A o, q \in ToSet(w) : o.kind = q.kind

OneKind(fr) == \A i \in DOMAIN fr : \A j \in DOMAIN fr[i] : SameKind(fr[i][j])

ListAs(open, scope) == open # {} => scope # <<>> /\ \A o \in ToSet(Last(scope)) : o.kind \in open

Fits(a, n, A, fr, L, s) ==
    /\ a \in Shapes
    /\ Len(fr) = a.depth
    /\ s.kind = a.self
    /\ Has(a, n, A, fr)
    /\ LooseAs(a, L)
    /\ Known(a, fr)
    /\ Single(AllOf(fr), s)
    /\ Borrows(AllOf(fr))
    /\ OneKind(fr)
    /\ n = Len(fr) => ListAs(a.open, Last(fr))

\* The innermost scope becomes another one; n says if it is still to be used.
LEMMA FitsPut ==
    ASSUME NEW fr \in Seq(Seq(Seq(Objects))), NEW scope \in Seq(Seq(Objects)), NEW new, NEW a, NEW c, NEW m, NEW n,
           NEW A, NEW B, NEW L, NEW M, NEW s, fr # <<>>, Puts(new, fr, scope), Fits(a, m, A, fr, L, s), c \in Shapes,
           c.self = a.self, c.depth = a.depth, m \in {Len(fr) - 1, Len(fr)}, n \in {Len(fr) - 1, Len(fr)},
           \A i \in 1..Len(fr) : i # Len(fr) => c.at[i] = a.at[i] /\ \A k \in a.at[i] : Reached(A, fr[i], k) => Reached(B, fr[i], k),
           n = Len(fr) => (\A k \in c.at[Len(fr)] : Reached(B, scope, k)) /\ ListAs(c.open, scope),
           \A o \in ScopeObjects(scope) : o.kind \in Vital => o.kind \in c.at[Len(fr)],
           Single(AllOf(new), s), Borrows(AllOf(new)), \A j \in DOMAIN scope : SameKind(scope[j]), LooseAs(c, M)
    PROVE  Fits(c, n, B, new, M, s)
<1>1. /\ new \in Seq(Seq(Seq(Objects))) /\ Len(new) = Len(fr) /\ Len(fr) \in Nat \ {0}
      /\ DOMAIN new = 1..Len(fr) /\ DOMAIN fr = 1..Len(fr)
      /\ new[Len(fr)] = scope /\ \A i \in 1..Len(fr) : i # Len(fr) => new[i] = fr[i]
  BY Places
<1>2. /\ Len(fr) = a.depth /\ s.kind = a.self /\ Has(a, m, A, fr) /\ Known(a, fr) /\ OneKind(fr)
  BY DEF Fits
<1>3. \A i \in 1..n : i \in 1..Len(fr) /\ (i # Len(fr) => i \in 1..m) /\ (i = Len(fr) => n = Len(fr))
  <2> DEFINE d == Len(fr)
  <2>1. d \in Nat \ {0} /\ m \in {d - 1, d} /\ n \in {d - 1, d}
    BY <1>1
  <2> HIDE DEF d
  <2>2. \A i \in 1..n : i \in 1..d /\ (i # d => i \in 1..m) /\ (i = d => n = d)
    BY <2>1
  <2> QED
    BY <2>2 DEF d
<1>4. Has(c, n, B, new)
  <2> SUFFICES ASSUME NEW i \in 1..n, NEW k \in c.at[i] PROVE Reached(B, new[i], k)
    BY DEF Has
  <2>1. CASE i # Len(fr)
    <3>1. i \in 1..Len(fr) /\ i \in 1..m
      BY <1>3, <2>1
    <3>2. k \in a.at[i] /\ new[i] = fr[i]
      BY <1>1, <2>1, <3>1
    <3>3. Reached(A, fr[i], k)
      BY <1>2, <3>1, <3>2 DEF Has
    <3> QED
      BY <2>1, <3>1, <3>2, <3>3
  <2>2. CASE i = Len(fr)
    <3>1. n = Len(fr)
      BY <1>3, <2>2
    <3>2. \A k1 \in c.at[Len(fr)] : Reached(B, scope, k1)
      BY <3>1
    <3> QED
      BY <1>1, <2>2, <3>2
  <2> QED
    BY <2>1, <2>2
<1>5. Known(c, new)
  <2> SUFFICES ASSUME NEW i \in 1..Len(fr), NEW o \in ScopeObjects(new[i]), o.kind \in Vital PROVE o.kind \in c.at[i]
    BY <1>1 DEF Known
  <2>1. CASE i # Len(fr)
    <3>1. o \in ScopeObjects(fr[i]) /\ c.at[i] = a.at[i]
      BY <1>1, <2>1
    <3> QED
      BY <1>1, <1>2, <3>1 DEF Known
  <2>2. CASE i = Len(fr)
    BY <1>1, <2>2
  <2> QED
    BY <2>1, <2>2
<1>6. OneKind(new)
  <2> SUFFICES ASSUME NEW i \in 1..Len(fr), NEW j \in DOMAIN new[i] PROVE SameKind(new[i][j])
    BY <1>1 DEF OneKind
  <2>1. CASE i # Len(fr)
    BY <1>1, <1>2, <2>1 DEF OneKind
  <2>2. CASE i = Len(fr)
    BY <1>1, <2>2
  <2> QED
    BY <2>1, <2>2
<1>7. n = Len(new) => ListAs(c.open, Last(new))
  <2>1. new # <<>>
    BY <1>1
  <2>2. Last(new) = scope
    BY <1>1, <2>1, LastPlaces
  <2> QED
    BY <1>1, <2>2
<1> QED
  BY <1>1, <1>2, <1>4, <1>5, <1>6, <1>7 DEF Fits

\* A function is entered, or, the other way round, left.
Opens(new, fr) == new = Append(fr, <<>>)

LEMMA OpensIs ==
    ASSUME NEW fr \in Seq(Seq(Seq(Objects))), NEW new, Opens(new, fr)
    PROVE  /\ new \in Seq(Seq(Seq(Objects))) /\ Len(fr) \in Nat /\ Len(new) = Len(fr) + 1 /\ new # <<>>
           /\ DOMAIN fr = 1..Len(fr) /\ DOMAIN new = 1..(Len(fr) + 1)
           /\ (\A i \in 1..Len(fr) : new[i] = fr[i]) /\ new[Len(fr) + 1] = <<>> /\ Last(new) = <<>>
           /\ AllOf(new) = AllOf(fr) /\ ScopeObjects(<<>>) = {}
           /\ FrameOk(new) <=> FrameOk(fr)
<1> DEFINE S == Seq(Seq(Objects))
           g == Append(fr, <<>>)
<1>1. fr \in Seq(S) /\ <<>> \in S /\ Len(fr) \in Nat /\ DOMAIN fr = 1..Len(fr)
  BY EmptySeq, LenProperties
<1> HIDE DEF S
<1>2. g \in Seq(S) /\ Len(g) = Len(fr) + 1 /\ (\A i \in 1..Len(fr) : g[i] = fr[i]) /\ g[Len(fr) + 1] = <<>>
  BY <1>1, AppendProperties
<1>3. new = g
  BY DEF Opens
<1> HIDE DEF g
<1>4. /\ new \in Seq(Seq(Seq(Objects))) /\ Len(new) = Len(fr) + 1 /\ (\A i \in 1..Len(fr) : new[i] = fr[i])
      /\ new[Len(fr) + 1] = <<>>
  BY <1>2, <1>3 DEF S
<1>5. DOMAIN new = 1..(Len(fr) + 1) /\ new # <<>>
  BY <1>1, <1>4, LenProperties
<1>6. Last(new) = <<>>
  BY <1>4, <1>5, LastPlaces
<1>7. ScopeObjects(<<>>) = {}
  BY EmptySeq, ScopeObjectsAre
<1>8. \A i \in 1..(Len(fr) + 1) : i \in 1..Len(fr) \/ i = Len(fr) + 1
  BY <1>1
<1>9. \A i \in 1..Len(fr) : i \in 1..(Len(fr) + 1)
  BY <1>1
<1>10. ASSUME NEW o PROVE o \in AllOf(new) <=> o \in AllOf(fr)
  <2>1. o \in AllOf(new) <=> \E i \in 1..(Len(fr) + 1) : o \in ScopeObjects(new[i])
    BY <1>5 DEF AllOf
  <2>2. o \in AllOf(fr) <=> \E i \in 1..Len(fr) : o \in ScopeObjects(fr[i])
    BY <1>1 DEF AllOf
  <2> QED
    BY <1>4, <1>7, <1>8, <1>9, <2>1, <2>2
<1>11. ASSUME NEW i, NEW j, NEW k, Place(new, i, j, k) PROVE Place(fr, i, j, k) /\ Object(new, i, j, k) = Object(fr, i, j, k)
  <2>1. i \in 1..(Len(fr) + 1) /\ j \in DOMAIN new[i]
    BY <1>5, <1>11 DEF Place, Spot
  <2>2. i \in 1..Len(fr)
    <3>1. DOMAIN <<>> = {}
      OBVIOUS
    <3> QED
      BY <1>4, <1>8, <2>1, <3>1
  <2> QED
    BY <1>1, <1>4, <1>11, <2>2 DEF Place, Object
<1>12. ASSUME NEW i, NEW j, NEW k, Place(fr, i, j, k) PROVE Place(new, i, j, k) /\ Object(fr, i, j, k) = Object(new, i, j, k)
  <2>1. i \in 1..Len(fr)
    BY <1>1, <1>12 DEF Place
  <2> QED
    BY <1>4, <1>5, <1>9, <1>12, <2>1 DEF Place, Object
<1>13. FrameOk(fr) => FrameOk(new)
  BY <1>11, FrameSub
<1>14. FrameOk(new) => FrameOk(fr)
  BY <1>12, FrameSub
<1> QED
  BY <1>1, <1>4, <1>5, <1>6, <1>7, <1>10, <1>13, <1>14

LEMMA FitsEnter ==
    ASSUME NEW fr \in Seq(Seq(Seq(Objects))), NEW new, NEW a, NEW c \in Shapes, NEW A, NEW L, NEW s,
           Opens(new, fr), Fits(a, Len(fr), A, fr, L, s),
           c.self = a.self, c.depth = a.depth + 1, c.at = a.at, c.raw = a.raw, c.open = {}
    PROVE  Fits(c, Len(new), A, new, L, s)
<1>1. /\ Len(fr) \in Nat /\ Len(new) = Len(fr) + 1 /\ DOMAIN fr = 1..Len(fr) /\ DOMAIN new = 1..(Len(fr) + 1)
      /\ (\A i \in 1..Len(fr) : new[i] = fr[i]) /\ new[Len(fr) + 1] = <<>>
      /\ AllOf(new) = AllOf(fr) /\ ScopeObjects(<<>>) = {}
  BY OpensIs
<1>2. /\ Len(fr) = a.depth /\ s.kind = a.self /\ Has(a, Len(fr), A, fr) /\ Known(a, fr) /\ OneKind(fr)
      /\ LooseAs(a, L) /\ Single(AllOf(fr), s) /\ Borrows(AllOf(fr)) /\ a \in Shapes
  BY DEF Fits
<1>3. \A i \in 1..(Len(fr) + 1) : i \in 1..Len(fr) \/ i = Len(fr) + 1
  BY <1>1
<1>4. a.at[Len(fr) + 1] = {}
  <2>1. Len(fr) + 1 \in Nat /\ Len(fr) + 1 > a.depth
    BY <1>1, <1>2
  <2> QED
    BY <1>2, <2>1, ShapeTypes
<1>5. Has(c, Len(new), A, new)
  <2> SUFFICES ASSUME NEW i \in 1..(Len(fr) + 1), NEW k \in a.at[i] PROVE Reached(A, new[i], k)
    BY <1>1 DEF Has
  <2> QED
    BY <1>1, <1>2, <1>3, <1>4 DEF Has
<1>6. Known(c, new)
  <2> SUFFICES ASSUME NEW i \in 1..(Len(fr) + 1), NEW o \in ScopeObjects(new[i]), o.kind \in Vital PROVE o.kind \in a.at[i]
    BY <1>1 DEF Known
  <2> QED
    BY <1>1, <1>2, <1>3 DEF Known
<1>7. OneKind(new)
  <2> SUFFICES ASSUME NEW i \in 1..(Len(fr) + 1), NEW j \in DOMAIN new[i] PROVE SameKind(new[i][j])
    BY <1>1 DEF OneKind
  <2>1. DOMAIN <<>> = {}
    OBVIOUS
  <2> QED
    BY <1>1, <1>2, <1>3, <2>1 DEF OneKind
<1>8. LooseAs(c, L)
  BY <1>2 DEF LooseAs
<1>9. Len(new) = c.depth /\ ListAs(c.open, Last(new))
  BY <1>1, <1>2 DEF ListAs
<1> QED
  BY <1>1, <1>2, <1>5, <1>6, <1>7, <1>8, <1>9 DEF Fits

LEMMA FitsLeave ==
    ASSUME NEW fr \in Seq(Seq(Seq(Objects))), NEW old, NEW a, NEW c \in Shapes, NEW A, NEW L, NEW s,
           Opens(old, fr), Fits(a, Len(old) - 1, A, old, L, s),
           c.self = a.self, c.depth = a.depth - 1, \A i \in 1..Len(fr) : c.at[i] = a.at[i], c.raw = a.raw, c.open = {}
    PROVE  Fits(c, Len(fr), A, fr, L, s)
<1>1. /\ Len(fr) \in Nat /\ Len(old) = Len(fr) + 1 /\ DOMAIN fr = 1..Len(fr) /\ DOMAIN old = 1..(Len(fr) + 1)
      /\ (\A i \in 1..Len(fr) : old[i] = fr[i]) /\ AllOf(old) = AllOf(fr)
  BY OpensIs
<1>2. /\ Len(old) = a.depth /\ s.kind = a.self /\ Has(a, Len(old) - 1, A, old) /\ Known(a, old) /\ OneKind(old)
      /\ LooseAs(a, L) /\ Single(AllOf(old), s) /\ Borrows(AllOf(old))
  BY DEF Fits
<1>3. Len(old) - 1 = Len(fr) /\ \A i \in 1..Len(fr) : i \in 1..(Len(fr) + 1)
  BY <1>1
<1>4. Has(c, Len(fr), A, fr)
  BY <1>1, <1>2, <1>3 DEF Has
<1>5. Known(c, fr)
  BY <1>1, <1>2, <1>3 DEF Known
<1>6. OneKind(fr)
  BY <1>1, <1>2, <1>3 DEF OneKind
<1>7. LooseAs(c, L)
  BY <1>2 DEF LooseAs
<1>8. Len(fr) = c.depth /\ ListAs(c.open, Last(fr))
  BY <1>1, <1>2 DEF ListAs
<1> QED
  BY <1>1, <1>2, <1>4, <1>5, <1>6, <1>7, <1>8 DEF Fits

\* What is deleted elsewhere is not what is reached here.
LEMMA ReachedStays ==
    ASSUME NEW A, NEW H, NEW F, NEW L, NEW B, NEW o, NEW scope, NEW k, Owned(A, H, F, L), o \in F \cup L,
           B = A \ ({o} \cup {e \in A : Element(e) /\ e.of = o.id}),
           ScopeObjects(scope) \subseteq F, o \notin ScopeObjects(scope), Reached(A, scope, k)
    PROVE  Reached(B, scope, k)
<1>1. PICK q \in A : q.kind = k /\ (q \in ScopeObjects(scope) \/ (Element(q) /\ \E p \in ScopeObjects(scope) : p.id = q.of))
  BY DEF Reached
<1>2. o \in A /\ ~Element(o) /\ Unique(A) /\ F \subseteq A /\ \A p \in F : ~Element(p)
  BY DEF Owned
<1>3. q \in B
  <2>1. CASE q \in ScopeObjects(scope)
    BY <1>2, <2>1
  <2>2. CASE Element(q) /\ \E p \in ScopeObjects(scope) : p.id = q.of
    <3>1. PICK p \in ScopeObjects(scope) : p.id = q.of
      BY <2>2
    <3>2. p \in A /\ p # o
      BY <1>2, <3>1
    <3>3. p.id # o.id
      BY <1>2, <3>2 DEF Unique
    <3> QED
      BY <1>2, <2>2, <3>1, <3>3
  <2> QED
    BY <1>1, <2>1, <2>2
<1> QED
  BY <1>1, <1>3 DEF Reached

LEMMA FitsLess ==
    ASSUME NEW a, NEW A, NEW fr \in Seq(Seq(Seq(Objects))), NEW L, NEW s, NEW n \in {Len(fr) - 1, Len(fr)},
           Fits(a, Len(fr), A, fr, L, s)
    PROVE  Fits(a, n, A, fr, L, s)
<1> DEFINE d == Len(fr)
<1>1. d \in Nat
  BY LenProperties
<1> HIDE DEF d
<1>2. \A m \in {d - 1, d} : 1..m \subseteq 1..d
  BY <1>1
<1>3. 1..n \subseteq 1..Len(fr)
  BY <1>2 DEF d
<1>4. Has(a, n, A, fr)
  BY <1>3 DEF Fits, Has
<1> QED
  BY <1>4 DEF Fits

\* What a function passes on is what it has of what borrows or is borrowed
\* from.
Chosen(kept, scope, kind) ==
    /\ \A o \in ToSet(kept) : o.kind = kind
    /\ ToSet(kept) = {} => \A o \in ScopeObjects(scope) : o.kind # kind

LEMMA NoneLeft ==
    ASSUME NEW fr \in Seq(Seq(Seq(Objects))), NEW kept \in Seq(Objects), NEW rest \in Seq(Seq(Objects)), NEW a, NEW n, NEW A,
           NEW L, NEW s, NEW kind, fr # <<>>, FrameOk(fr), Moved(fr, kept, rest), Chosen(kept, Last(fr), kind),
           Fits(a, n, A, fr, L, s), a.at[Len(fr)] \cap Vital \subseteq {kind}
    PROVE  \A r \in ScopeObjects(rest) : r.kind \notin Vital
<1> SUFFICES ASSUME NEW r \in ScopeObjects(rest), r.kind \in Vital PROVE FALSE
  OBVIOUS
<1>1. ScopeObjects(Last(fr)) = ScopeObjects(rest) \cup ToSet(kept) /\ ScopeObjects(rest) \cap ToSet(kept) = {}
  BY MovedObjects
<1>2. Last(fr) = fr[Len(fr)] /\ Len(fr) \in DOMAIN fr
  BY LastPlaces
<1>3. Known(a, fr) /\ Single(AllOf(fr), s)
  BY DEF Fits
<1>4. r \in ScopeObjects(fr[Len(fr)])
  BY <1>1, <1>2
<1>5. r.kind \in a.at[Len(fr)]
  BY <1>2, <1>3, <1>4 DEF Known
<1>6. r.kind = kind
  BY <1>5
<1>7. PICK o \in ToSet(kept) : o.kind = kind
  BY <1>1, <1>6 DEF Chosen
<1>8. o \in ScopeObjects(fr[Len(fr)])
  BY <1>1, <1>2
<1>9. o \in AllOf(fr) /\ r \in AllOf(fr)
  BY <1>2, <1>4, <1>8 DEF AllOf
<1>10. o = r
  BY <1>3, <1>6, <1>7, <1>9 DEF Single
<1> QED
  BY <1>1, <1>10

LEMMA KeptApart ==
    ASSUME NEW A, NEW H, NEW F, NEW L, NEW kept, NEW rest, Owned(A, H, F, L), ToSet(kept) \subseteq F,
           ScopeObjects(rest) \subseteq F, F \subseteq Objects, \A r \in ScopeObjects(rest) : r.kind \notin Vital
    PROVE  Apart(kept, rest)
<1> SUFFICES ASSUME NEW o \in ToSet(kept), NEW r \in ScopeObjects(rest), o.of = r.id PROVE FALSE
  BY DEF Apart
<1>1. o \in F /\ r \in F /\ o \in A /\ r \in A /\ ~Element(o) /\ Unique(A)
  BY DEF Owned
<1>2. o.of # 0
  BY <1>1 DEF Objects
<1>3. PICK p \in A : ParentOf(p, o, H, F, L)
  BY <1>1, <1>2 DEF Owned
<1>4. p.id = r.id /\ p.kind = "engine"
  BY <1>1, <1>3 DEF ParentOf
<1>5. p = r
  BY <1>1, <1>4 DEF Unique
<1>6. "engine" \in Vital
  BY DEF Vital
<1> QED
  BY <1>4, <1>5, <1>6

Passes(a, c, n, kind) ==
    /\ c.self = a.self /\ c.depth = a.depth /\ c.raw = a.raw /\ c.open = {}
    /\ a.at[n] \cap Vital \subseteq {kind}
    /\ c.at[n] = {}
    /\ c.at[n - 1] = a.at[n - 1] \cup ({kind} \cap a.at[n])
    /\ \A i \in 1..n : i # n - 1 /\ i # n => c.at[i] = a.at[i]

LEMMA FitsHands ==
    ASSUME NEW fr \in Seq(Seq(Seq(Objects))), NEW kept \in Seq(Objects), NEW rest \in Seq(Seq(Objects)), NEW new,
           NEW n, NEW m, NEW a, NEW c \in Shapes, NEW A, NEW L, NEW s, NEW kind \in Movable,
           FrameOk(fr), Hands(new, fr, kept, rest, n, m), Moved(fr, kept, rest), Chosen(kept, Last(fr), kind),
           Fits(a, n, A, fr, L, s), Passes(a, c, n, kind), AllOf(fr) \subseteq A,
           \A j \in DOMAIN rest : SameKind(rest[j])
    PROVE  Fits(c, n, A, new, L, s)
<1>1. /\ n \in Nat /\ n - 1 \in 1..n /\ n > 1 /\ m \in Nat \ {0} /\ new \in Seq(Seq(Seq(Objects))) /\ Len(new) = n
      /\ DOMAIN new = 1..n /\ DOMAIN fr = 1..n /\ new[n] = rest /\ Last(fr) = fr[n] /\ fr[n] \in Seq(Seq(Objects))
      /\ DOMAIN new[n - 1] = 1..m /\ new[n - 1][m] = kept /\ DOMAIN fr[n - 1] = 1..(m - 1)
      /\ (\A j \in 1..(m - 1) : new[n - 1][j] = fr[n - 1][j])
      /\ (\A i \in 1..n : i # n - 1 /\ i # n => new[i] = fr[i])
  <2>1. /\ n \in Nat /\ n - 1 \in 1..n /\ n > 1 /\ m \in Nat \ {0} /\ new \in Seq(Seq(Seq(Objects))) /\ Len(new) = n
    BY HandsIs
  <2>2. DOMAIN new = 1..n /\ DOMAIN fr = 1..n /\ new[n] = rest /\ Last(fr) = fr[n] /\ fr[n] \in Seq(Seq(Objects))
    BY HandsIs
  <2>3. DOMAIN new[n - 1] = 1..m /\ new[n - 1][m] = kept /\ DOMAIN fr[n - 1] = 1..(m - 1)
    BY HandsIs
  <2>4. \A j \in 1..(m - 1) : new[n - 1][j] = fr[n - 1][j]
    BY HandsIs
  <2>5. \A i \in 1..n : i # n - 1 /\ i # n => new[i] = fr[i]
    BY HandsIs
  <2> QED
    BY <2>1, <2>2, <2>3, <2>4, <2>5
<1>2. /\ AllOf(new) = AllOf(fr) /\ ScopeObjects(new[n]) = ScopeObjects(rest)
      /\ ScopeObjects(new[n - 1]) = ScopeObjects(fr[n - 1]) \cup ToSet(kept)
  BY HandsObjects
<1>3. n = Len(fr) /\ n \in 1..n /\ fr # <<>>
  <2>1. n = Len(fr)
    BY DEF Hands
  <2>2. Len(<<>>) = 0 /\ \A k \in Nat : k > 1 => k # 0 /\ k \in 1..k
    OBVIOUS
  <2>3. fr # <<>>
    BY <1>1, <2>1, <2>2, Zenon
  <2> QED
    BY <1>1, <2>1, <2>2, <2>3, Zenon
<1>4. /\ Len(fr) = a.depth /\ s.kind = a.self /\ Has(a, n, A, fr) /\ Known(a, fr) /\ OneKind(fr)
      /\ LooseAs(a, L) /\ Single(AllOf(fr), s) /\ Borrows(AllOf(fr))
  BY DEF Fits
<1>5. \A r \in ScopeObjects(rest) : r.kind \notin Vital
  <2>1. a.at[Len(fr)] \cap Vital \subseteq {kind}
    BY <1>3 DEF Passes
  <2> QED
    BY <1>3, <2>1, NoneLeft
<1>6. ScopeObjects(Last(fr)) = ScopeObjects(rest) \cup ToSet(kept)
  BY <1>3, MovedObjects
<1>7. ToSet(kept) \subseteq A
  BY <1>1, <1>3, <1>6 DEF AllOf
<1>20. /\ c.self = a.self /\ c.depth = a.depth /\ c.raw = a.raw /\ c.open = {} /\ c.at[n] = {}
       /\ \A k : k \in c.at[n - 1] <=> k \in a.at[n - 1] \/ (k = kind /\ kind \in a.at[n])
       /\ \A i \in 1..n : i # n - 1 /\ i # n => c.at[i] = a.at[i]
  BY DEF Passes
<1>8. Has(c, n, A, new)
  <2> SUFFICES ASSUME NEW i \in 1..n, NEW k \in c.at[i] PROVE Reached(A, new[i], k)
    BY DEF Has
  <2>1. CASE i # n - 1 /\ i # n
    BY <1>1, <1>4, <1>20, <2>1 DEF Has
  <2>2. CASE i = n
    BY <1>20, <2>2
  <2>3. CASE i = n - 1 /\ k \in a.at[n - 1]
    <3>1. Reached(A, fr[n - 1], k)
      BY <1>1, <1>4, <2>3 DEF Has
    <3>2. Reached(A, new[n - 1], k)
      BY <1>2, <3>1 DEF Reached
    <3> QED
      BY <2>3, <3>2
  <2>4. CASE i = n - 1 /\ k = kind /\ kind \in a.at[n]
    <3>1. Reached(A, fr[n], kind)
      BY <1>3, <1>4, <2>4 DEF Has
    <3>2. PICK q \in A : /\ q.kind = kind
                         /\ q \in ScopeObjects(fr[n]) \/ (Element(q) /\ \E p \in ScopeObjects(fr[n]) : p.id = q.of)
      BY <3>1 DEF Reached
    <3>3. ~Element(q)
      BY <3>2 DEF Element, Movable
    <3>4. q \in ScopeObjects(Last(fr))
      BY <1>1, <3>2, <3>3
    <3>5. PICK o \in ToSet(kept) : o.kind = kind
      BY <3>2, <3>4 DEF Chosen
    <3>6. o \in A /\ o \in ScopeObjects(new[n - 1])
      BY <1>2, <1>7
    <3>7. Reached(A, new[n - 1], kind)
      BY <3>5, <3>6 DEF Reached
    <3> QED
      BY <2>4, <3>7
  <2>5. i = n - 1 => k \in a.at[n - 1] \/ (k = kind /\ kind \in a.at[n])
    BY <1>20
  <2> QED
    BY <2>1, <2>2, <2>3, <2>4, <2>5
<1>9. Known(c, new)
  <2> SUFFICES ASSUME NEW i \in 1..n, NEW o \in ScopeObjects(new[i]), o.kind \in Vital PROVE o.kind \in c.at[i]
    BY <1>1 DEF Known
  <2>1. CASE i # n - 1 /\ i # n
    BY <1>1, <1>4, <1>20, <2>1 DEF Known
  <2>2. CASE i = n
    BY <1>2, <1>5, <2>2
  <2>3. CASE i = n - 1 /\ o \in ScopeObjects(fr[n - 1])
    BY <1>1, <1>4, <1>20, <2>3 DEF Known
  <2>4. CASE i = n - 1 /\ o \in ToSet(kept)
    <3>1. o.kind = kind
      BY <2>4 DEF Chosen
    <3>2. o \in ScopeObjects(fr[n])
      BY <1>1, <1>6, <2>4
    <3>3. o.kind \in a.at[n]
      BY <1>1, <1>3, <1>4, <3>2 DEF Known
    <3> QED
      BY <1>20, <2>4, <3>1, <3>3
  <2>5. i = n - 1 => o \in ScopeObjects(fr[n - 1]) \/ o \in ToSet(kept)
    BY <1>2
  <2> QED
    BY <2>1, <2>2, <2>3, <2>4, <2>5
<1>10. OneKind(new)
  <2> SUFFICES ASSUME NEW i \in 1..n, NEW j \in DOMAIN new[i] PROVE SameKind(new[i][j])
    BY <1>1 DEF OneKind
  <2>1. CASE i # n - 1 /\ i # n
    BY <1>1, <1>4, <2>1 DEF OneKind
  <2>2. CASE i = n
    BY <1>1, <2>2
  <2>3. CASE i = n - 1 /\ j # m
    <3>0. DOMAIN new[n - 1] = 1..m /\ m \in Nat
      BY <1>1
    <3>2. j \in 1..m /\ j # m
      BY <3>0, <2>3
    <3>1. j \in 1..(m - 1)
      BY <3>0, <3>2
    <3> QED
      BY <1>1, <1>4, <2>3, <3>1 DEF OneKind
  <2>4. CASE i = n - 1 /\ j = m
    <3>1. SameKind(kept)
      BY DEF Chosen, SameKind
    <3> QED
      BY <1>1, <2>4, <3>1
  <2> QED
    BY <2>1, <2>2, <2>3, <2>4
<1>11. LooseAs(c, L)
  BY <1>4, <1>20 DEF LooseAs
<1>12. ListAs(c.open, Last(new))
  BY <1>20 DEF ListAs
<1> QED
  BY <1>1, <1>2, <1>3, <1>4, <1>8, <1>9, <1>10, <1>11, <1>12, <1>20 DEF Fits

-----------------------------------------------------------------------------
(* New objects: their addresses are free.                                  *)


-----------------------------------------------------------------------------
(* A new object.                                                           *)

LEMMA IdsAre ==
    ASSUME NEW A \in SUBSET Objects, IsFiniteSet(A)
    PROVE  /\ IsFiniteSet(Ids(A)) /\ Cardinality(Ids(A)) <= Cardinality(A)
           /\ Cardinality(A) \in Nat /\ Cardinality(Ids(A)) \in Nat
<1> DEFINE f == [o \in A |-> o.id]
<1>1. f \in Surjection(A, Ids(A))
  BY DEF Surjection, Ids
<1> HIDE DEF f
<1>2. IsFiniteSet(Ids(A)) /\ Cardinality(Ids(A)) <= Cardinality(A)
  BY <1>1, FS_Surjection
<1> QED
  BY <1>2, FS_CardinalityType

\* There are free addresses.
LEMMA FreeAre ==
    ASSUME NEW T, IsFiniteSet(T), NEW n \in Nat, NEW k \in Nat, Cardinality(T) + k <= n
    PROVE  /\ IsFiniteSet((1..n) \ T) /\ Cardinality((1..n) \ T) >= k /\ Cardinality((1..n) \ T) \in Nat
<1>1. IsFiniteSet(1..n) /\ Cardinality(1..n) = n
  BY FS_Interval
<1>2. IsFiniteSet((1..n) \ T) /\ Cardinality((1..n) \ T) = Cardinality(1..n) - Cardinality((1..n) \cap T)
  BY <1>1, FS_Difference
<1>3. Cardinality((1..n) \cap T) <= Cardinality(T) /\ IsFiniteSet((1..n) \cap T)
  BY FS_Intersection
<1>4. Cardinality((1..n) \cap T) \in Nat /\ Cardinality(T) \in Nat /\ Cardinality((1..n) \ T) \in Nat
  BY <1>2, <1>3, FS_CardinalityType
<1> QED
  BY <1>1, <1>2, <1>3, <1>4

LEMMA FreshIs ==
    ASSUME alive \in SUBSET Objects, IsFiniteSet(alive)
    PROVE  Fresh \in Nat \ {0} /\ Fresh \notin Ids(alive)
<1> DEFINE n == Cardinality(alive) + 1
<1>1. IsFiniteSet(Ids(alive)) /\ n \in Nat /\ Cardinality(Ids(alive)) + 1 <= n
  BY IdsAre
<1>2. Cardinality((1..n) \ Ids(alive)) >= 1
  BY <1>1, FreeAre
<1>3. (1..n) \ Ids(alive) # {}
  <2>1. Cardinality({}) = 0
    BY FS_EmptySet
  <2> QED
    BY <1>2, <2>1
<1>4. Fresh \in 1..n /\ Fresh \notin Ids(alive)
  BY <1>3 DEF Fresh
<1> QED
  BY <1>1, <1>4

LEMMA Injections ==
    ASSUME NEW S, IsFiniteSet(S), NEW k \in Nat, Cardinality(S) >= k
    PROVE  \E f \in [1..k -> S] : IsInjective(f)
<1> DEFINE n == Cardinality(S)
<1>1. n \in Nat /\ ExistsBijection(1..n, S)
  BY FS_CardinalityType
<1> HIDE DEF n
<1>2. PICK g \in Bijection(1..n, S) : TRUE
  BY <1>1 DEF ExistsBijection
<1>3. g \in [1..n -> S] /\ \A i, j \in 1..n : g[i] = g[j] => i = j
  BY <1>2 DEF Bijection, Injection, IsInjective
<1>4. \A i \in 1..k : i \in 1..n
  BY <1>1 DEF n
<1> DEFINE f == [i \in 1..k |-> g[i]]
<1>5. f \in [1..k -> S] /\ DOMAIN f = 1..k /\ \A i \in 1..k : f[i] = g[i]
  BY <1>3, <1>4
<1>6. IsInjective(f)
  BY <1>3, <1>4, <1>5 DEF IsInjective
<1> QED
  BY <1>5, <1>6

LEMMA OneMore ==
    ASSUME NEW S, IsFiniteSet(S), NEW x
    PROVE  /\ IsFiniteSet(S \cup {x}) /\ Cardinality(S \cup {x}) <= Cardinality(S) + 1
           /\ Cardinality(S \cup {x}) \in Nat
<1>1. Cardinality(S) \in Nat
  BY FS_CardinalityType
<1>2. IsFiniteSet(S \cup {x}) /\ Cardinality(S \cup {x}) = (IF x \in S THEN Cardinality(S) ELSE Cardinality(S) + 1)
  BY FS_AddElement
<1> QED
  BY <1>1, <1>2

LEMMA ElementIds ==
    ASSUME NEW A \in SUBSET Objects, IsFiniteSet(A), NEW x, NEW k \in Nat, NEW free,
           free = (1..(Cardinality(A) + k + 1)) \ (Ids(A) \cup {x})
    PROVE  \E f \in [1..k -> free] : IsInjective(f)
<1>1. IsFiniteSet(Ids(A)) /\ Cardinality(Ids(A)) <= Cardinality(A) /\ Cardinality(A) \in Nat /\ Cardinality(Ids(A)) \in Nat
  BY IdsAre
<1> DEFINE T == Ids(A) \cup {x}
           n == Cardinality(A) + k + 1
<1>2. IsFiniteSet(T) /\ Cardinality(T) <= Cardinality(Ids(A)) + 1 /\ Cardinality(T) \in Nat
  BY <1>1, OneMore
<1>3. n \in Nat
  BY <1>1
<1> HIDE DEF T
<1>4. Cardinality(T) + k <= n
  BY <1>1, <1>2
<1> HIDE DEF n
<1>5. IsFiniteSet((1..n) \ T) /\ Cardinality((1..n) \ T) >= k
  BY <1>2, <1>3, <1>4, FreeAre
<1>6. free = (1..n) \ T
  BY DEF n, T
<1> HIDE DEF T
<1> QED
  BY <1>5, <1>6, Injections

\* What a constructor returns: an object nothing there has to do with, and
\* the elements of a container.
IsNew(o, E, A) ==
    /\ o \in Objects /\ o.id \notin Ids(A) /\ ~Element(o)
    /\ E \subseteq Objects /\ IsFiniteSet(E) /\ Unique(E)
    /\ \A e \in E : Element(e) /\ e.of = o.id /\ e.id # o.id /\ e.id \notin Ids(A)
    /\ E # {} => o.kind = "embedding responses"

\* It borrows from an engine the method can name, if from anything.
Lent(o, A, F, L, s) ==
    o.of # 0 => o.kind \in Children /\ \E p \in A : p \notin L /\ p \in F \cup {s} /\ p.id = o.of /\ p.kind = "engine"

LEMMA NewIs ==
    ASSUME NEW A \in SUBSET Objects, NEW H, NEW F, NEW L, NEW o, NEW E, NEW s, Owned(A, H, F, L), IsNew(o, E, A),
           Lent(o, A, F, L, s)
    PROVE  /\ \A q \in A : q.id # o.id /\ q # o /\ q.of # o.id
           /\ o.of # o.id
           /\ F \subseteq A
<1>1. \A q \in A : q.id # o.id /\ q # o
  BY DEF IsNew, Ids
<1>2. ASSUME NEW q \in A PROVE q.of # o.id
  <2>1. CASE q.of = 0
    BY <2>1 DEF IsNew, Objects
  <2>2. CASE q.of # 0
    <3>1. PICK p \in A : ParentOf(p, q, H, F, L)
      BY <2>2 DEF Owned
    <3> QED
      BY <1>1, <3>1 DEF ParentOf
  <2> QED
    BY <2>1, <2>2
<1>3. o.of # o.id
  <2>1. CASE o.of = 0
    BY <2>1 DEF IsNew, Objects
  <2>2. CASE o.of # 0
    <3>1. PICK p \in A : p.id = o.of
      BY <2>2 DEF Lent
    <3> QED
      BY <1>1, <3>1
  <2> QED
    BY <2>1, <2>2
<1> QED
  BY <1>1, <1>2, <1>3 DEF Owned

\* With o it is.
Plus(G, F, o) == G = F \cup {o}

Made(B, A, o, E) == B = A \cup {o} \cup E

LEMMA NewOwned ==
    ASSUME NEW A \in SUBSET Objects, NEW H, NEW F, NEW L, NEW o, NEW E, NEW s, NEW B, NEW G, IsFiniteSet(A),
           Owned(A, H, F, L), IsNew(o, E, A), Lent(o, A, F, L, s), Made(B, A, o, E), Plus(G, F, o)
    PROVE  B \in SUBSET Objects /\ IsFiniteSet(B) /\ Owned(B, H, G, L)
<1>0. B = A \cup {o} \cup E /\ G = F \cup {o}
  BY DEF Made, Plus
<1>1. \A q \in A : q.id # o.id
  BY NewIs
<1>2. \A e \in E : Element(e) /\ e.of = o.id /\ e.id # o.id /\ \A q \in A : q.id # e.id
  BY DEF IsNew, Ids
<1>3. Unique(E) /\ ~Element(o) /\ (E # {} => o.kind = "embedding responses") /\ o \in Objects /\ E \subseteq Objects
      /\ IsFiniteSet(E)
  BY DEF IsNew
<1>4. o.of # 0 => o.kind \in Children /\ \E p \in A : p \notin L /\ p.id = o.of /\ p.kind = "engine"
  BY DEF Lent
<1>5. Owned(B, H, G, L)
  BY <1>0, <1>1, <1>2, <1>3, <1>4, OwnedMake
<1>6. IsFiniteSet(A \cup {o})
  BY OneMore
<1> DEFINE C == A \cup {o}
<1>7. B = C \cup E /\ IsFiniteSet(C)
  BY <1>0, <1>6
<1> HIDE DEF C
<1>8. IsFiniteSet(C \cup E)
  BY <1>3, <1>7, FS_Union
<1>9. IsFiniteSet(B)
  BY <1>7, <1>8
<1> QED
  BY <1>0, <1>3, <1>5, <1>9

\* Its elements have free addresses too, each its own.
AreFree(free, A, o, k) == free = (1..(Cardinality(A) + k + 1)) \ (Ids(A) \cup {o.id})

AreElements(elements, ids, o, k) ==
    elements = [i \in 1..k |-> [kind |-> "embedding response", id |-> ids[i], of |-> o.id]]

Takes(ids, free, k) == ids = CHOOSE f \in [1..k -> free] : IsInjective(f)

ElementsOf(E, o, A, k) ==
    /\ E \subseteq Objects /\ IsFiniteSet(E) /\ Unique(E)
    /\ \A e \in E : Element(e) /\ e.of = o.id /\ e.id # o.id /\ e.id \notin Ids(A) /\ e.kind = "embedding response"
    /\ (k = 0 => E = {}) /\ (k # 0 => E # {})

LEMMA ElementsAre ==
    ASSUME NEW A \in SUBSET Objects, NEW o \in Objects, NEW k \in Nat, NEW free, NEW ids, NEW elements,
           IsFiniteSet(A), o.id \notin Ids(A), AreFree(free, A, o, k), Takes(ids, free, k),
           AreElements(elements, ids, o, k)
    PROVE  ElementsOf(ToSet(elements), o, A, k)
<1>1. \E f \in [1..k -> free] : IsInjective(f)
  BY ElementIds DEF AreFree
<1>2. ids \in [1..k -> free] /\ IsInjective(ids)
  BY <1>1 DEF Takes
<1>3. \A i, j \in 1..k : ids[i] = ids[j] => i = j
  BY <1>2 DEF IsInjective
<1>4. Cardinality(A) \in Nat
  BY FS_CardinalityType
<1>5. \A n \in free : n \in Nat \ {0} /\ n \notin Ids(A) /\ n # o.id
  BY <1>4 DEF AreFree
<1>0. /\ DOMAIN elements = 1..k
      /\ \A i \in 1..k : elements[i] = [kind |-> "embedding response", id |-> ids[i], of |-> o.id]
  BY DEF AreElements
<1>6. ASSUME NEW e \in ToSet(elements)
      PROVE  \E i \in 1..k : e = [kind |-> "embedding response", id |-> ids[i], of |-> o.id]
  BY <1>0 DEF ToSet
<1>7. ASSUME NEW e \in ToSet(elements)
      PROVE  /\ e \in Objects /\ Element(e) /\ e.of = o.id /\ e.id # o.id /\ e.id \notin Ids(A)
             /\ e.kind = "embedding response"
  <2>1. PICK i \in 1..k : e = [kind |-> "embedding response", id |-> ids[i], of |-> o.id]
    BY <1>6
  <2>2. ids[i] \in free
    BY <1>2
  <2>3. e.kind = "embedding response" /\ e.id = ids[i] /\ e.of = o.id
    BY <2>1
  <2>4. o.id \in Nat \ {0}
    BY DEF Objects
  <2>5. "embedding response" \in Kinds
    BY DEF Kinds
  <2>6. e \in Objects
    BY <1>5, <2>1, <2>2, <2>4, <2>5 DEF Objects
  <2>7. Element(e)
    BY <2>3, <2>4 DEF Element
  <2> QED
    BY <1>5, <2>2, <2>3, <2>6, <2>7
<1>8. Unique(ToSet(elements))
  <2> SUFFICES ASSUME NEW e \in ToSet(elements), NEW q \in ToSet(elements), e.id = q.id PROVE e = q
    BY DEF Unique
  <2>1. PICK i \in 1..k : e = [kind |-> "embedding response", id |-> ids[i], of |-> o.id]
    BY <1>6
  <2>2. PICK j \in 1..k : q = [kind |-> "embedding response", id |-> ids[j], of |-> o.id]
    BY <1>6
  <2>3. e.id = ids[i] /\ q.id = ids[j]
    BY <2>1, <2>2
  <2>4. i = j
    BY <1>3, <2>3
  <2> QED
    BY <2>1, <2>2, <2>4
<1>9. IsFiniteSet(ToSet(elements))
  <2> DEFINE f == [i \in 1..k |-> elements[i]]
  <2>1. DOMAIN elements = 1..k
    BY <1>0
  <2>2. f \in Surjection(1..k, ToSet(elements))
    BY <2>1 DEF Surjection, ToSet
  <2>3. IsFiniteSet(1..k)
    BY FS_Interval
  <2> HIDE DEF f
  <2> QED
    BY <2>2, <2>3, FS_Surjection
<1>10. k = 0 => ToSet(elements) = {}
  BY <1>6
<1>11. k # 0 => ToSet(elements) # {}
  <2>0. \A n \in Nat : n # 0 => 1 \in 1..n
    OBVIOUS
  <2>1. k # 0 => 1 \in DOMAIN elements
    BY <1>0, <2>0, Zenon
  <2> QED
    BY <2>1 DEF ToSet
<1> QED
  BY <1>7, <1>8, <1>9, <1>10, <1>11 DEF ElementsOf

-----------------------------------------------------------------------------
(* The text still fits when an object is made.                             *)

\* What is owned in the scopes around the innermost one.
Outer(fr) == AllOf(Front(fr))

LEMMA PutObjects ==
    ASSUME NEW fr \in Seq(Seq(Seq(Objects))), NEW scope \in Seq(Seq(Objects)), NEW new, fr # <<>>, Puts(new, fr, scope)
    PROVE  /\ AllOf(fr) = Outer(fr) \cup ScopeObjects(Last(fr))
           /\ AllOf(new) = Outer(fr) \cup ScopeObjects(scope)
           /\ FrameOk(fr) => Outer(fr) \cap ScopeObjects(Last(fr)) = {}
           /\ ScopeObjects(Last(fr)) \subseteq AllOf(fr) /\ AllOf(fr) \subseteq Objects
<1>1. Front(fr) \in Seq(Seq(Seq(Objects))) /\ fr # <<>>
  <2> DEFINE S == Seq(Seq(Objects))
  <2>1. fr \in Seq(S)
    OBVIOUS
  <2> HIDE DEF S
  <2>2. Front(fr) \in Seq(S)
    BY <2>1, FrontLast
  <2> QED
    BY <2>2 DEF S
<1>2. AllOf(Append(Front(fr), scope)) = AllOf(Front(fr)) \cup ScopeObjects(scope)
  BY <1>1, FrameObjectsAre
<1>3. AllOf(fr) = AllOf(Front(fr)) \cup ScopeObjects(Last(fr)) /\ AllOf(fr) \subseteq Objects
  BY FrameObjectsAre
<1>4. AllOf(new) = AllOf(Front(fr)) \cup ScopeObjects(scope)
  BY <1>2 DEF Puts
<1>5. ASSUME FrameOk(fr), NEW o \in AllOf(Front(fr)), o \in ScopeObjects(Last(fr)) PROVE FALSE
  <2> DEFINE f == Front(fr)
             l == Last(fr)
  <2>1. Append(f, l) = fr /\ Len(f) = Len(fr) - 1 /\ Len(fr) \in Nat \ {0} /\ \A i \in 1..Len(fr) - 1 : f[i] = fr[i]
    <3> DEFINE S == Seq(Seq(Objects))
    <3>1. fr \in Seq(S)
      OBVIOUS
    <3> HIDE DEF S
    <3>2. /\ Len(fr) \in Nat \ {0} /\ Len(Front(fr)) = Len(fr) - 1
          /\ (\A i \in 1..Len(fr) - 1 : Front(fr)[i] = fr[i])
          /\ fr = Append(Front(fr), Last(fr))
      BY <3>1, FrontLast
    <3> QED
      BY <3>2
  <2>2. DOMAIN f = 1..(Len(fr) - 1) /\ DOMAIN fr = 1..Len(fr)
    BY <1>1, <2>1, LenProperties
  <2> HIDE DEF f, l
  <2>3. PICK i, j, k : Place(f, i, j, k) /\ Object(f, i, j, k) = o
    BY <1>5, AllOfPlace DEF f
  <2>4. i \in 1..(Len(fr) - 1)
    BY <2>2, <2>3 DEF Place
  <2>5. i \in 1..Len(fr) /\ i # Len(fr)
    BY <2>1, <2>4
  <2>6. Place(fr, i, j, k) /\ Object(fr, i, j, k) = o
    BY <2>1, <2>2, <2>3, <2>4, <2>5 DEF Place, Object
  <2>7. PICK y, z : Spot(Last(fr), y, z) /\ Item(Last(fr), y, z) = o
    BY <1>5, InScopeSpot
  <2>8. Place(fr, Len(fr), y, z) /\ Object(fr, Len(fr), y, z) = o
    BY <2>7, LastPlaces
  <2>9. i = Len(fr)
    <3>1. Object(fr, i, j, k) = Object(fr, Len(fr), y, z)
      BY <2>6, <2>8
    <3>2. Place(fr, i, j, k) /\ Place(fr, Len(fr), y, z) /\ FrameOk(fr)
      BY <1>5, <2>6, <2>8
    <3>3. Clear(Object(fr, i, j, k), i, j, k, Object(fr, Len(fr), y, z), Len(fr), y, z)
      BY <3>2, FrameClear
    <3> QED
      BY <3>1, <3>3 DEF Clear
  <2> QED
    BY <2>5, <2>9
<1>6. FrameOk(fr) => AllOf(Front(fr)) \cap ScopeObjects(Last(fr)) = {}
  BY <1>5
<1>8. ScopeObjects(Last(fr)) \subseteq AllOf(fr) /\ AllOf(fr) \subseteq Objects
  BY <1>3
<1> QED
  BY <1>3, <1>4, <1>6, <1>8 DEF Outer

LEMMA PutOne ==
    ASSUME NEW fr \in Seq(Seq(Seq(Objects))), NEW scope \in Seq(Seq(Objects)), NEW new, NEW o, fr # <<>>,
           Puts(new, fr, scope), Plus(ScopeObjects(scope), ScopeObjects(Last(fr)), o)
    PROVE  AllOf(new) = AllOf(fr) \cup {o} /\ Plus(AllOf(new), AllOf(fr), o)
<1>1. AllOf(fr) = Outer(fr) \cup ScopeObjects(Last(fr)) /\ AllOf(new) = Outer(fr) \cup ScopeObjects(scope)
  BY PutObjects
<1>2. ScopeObjects(scope) = ScopeObjects(Last(fr)) \cup {o}
  BY DEF Plus
<1>3. AllOf(new) = AllOf(fr) \cup {o}
  BY <1>1, <1>2
<1> QED
  BY <1>3 DEF Plus

\* c is a, with these kinds in the innermost scope.
Gains(a, c, n, K) ==
    /\ c \in Shapes
    /\ c.self = a.self /\ c.depth = a.depth /\ c.raw = a.raw
    /\ c.at[n] = a.at[n] \cup K
    /\ \A i \in 1..n : i # n => c.at[i] = a.at[i]

\* A call makes one thing that borrows, and the engine before it.
Novel(kind, a) ==
    /\ kind \in Vital => kind \notin Named(a)
    /\ kind = "engine" => \A k \in Vital : k \notin Named(a)

LEMMA VitalKnown ==
    ASSUME NEW fr \in Seq(Seq(Seq(Objects))), NEW a, NEW n, NEW A, NEW L, NEW s, NEW o \in AllOf(fr) \cup {s},
           Fits(a, n, A, fr, L, s), o.kind \in Vital
    PROVE  o.kind \in Named(a)
<1>1. s.kind = a.self /\ Known(a, fr) /\ Len(fr) = a.depth
  BY DEF Fits
<1>2. CASE o \in AllOf(fr)
  <2>1. PICK i \in DOMAIN fr : o \in ScopeObjects(fr[i])
    BY <1>2 DEF AllOf
  <2>2. o.kind \in a.at[i]
    BY <1>1, <2>1 DEF Known
  <2>3. i \in 1..a.depth
    BY <1>1, LenProperties
  <2> QED
    BY <2>2, <2>3 DEF Named
<1>3. CASE o = s
  BY <1>1, <1>3 DEF Named
<1> QED
  BY <1>2, <1>3

\* Only what borrows has a parent in the scopes or with the client.
LEMMA Borrower ==
    ASSUME NEW A, NEW H, NEW F, NEW L, NEW o \in F, Owned(A, H, F, L), o.of # 0
    PROVE  o.kind \in Children /\ \E p \in A : p.id = o.of /\ p.kind = "engine" /\ ParentOf(p, o, H, F, L)
<1>1. o \in A /\ ~Element(o)
  BY DEF Owned
<1>2. PICK p \in A : ParentOf(p, o, H, F, L)
  BY <1>1 DEF Owned
<1> QED
  BY <1>1, <1>2 DEF ParentOf

\* The kinds are those of the object and its elements.
Covers(K, o, E) == o.kind \in K /\ \A k \in K : k = o.kind \/ \E e \in E : e.kind = k

Alike(scope) == \A j \in DOMAIN scope : SameKind(scope[j])

LEMMA FitsNew ==
    ASSUME NEW fr \in Seq(Seq(Seq(Objects))), NEW scope \in Seq(Seq(Objects)), NEW new, NEW a, NEW c, NEW A \in SUBSET Objects,
           NEW B, NEW H, NEW L, NEW s, NEW o, NEW E, NEW K, fr # <<>>, Puts(new, fr, scope), Fits(a, Len(fr), A, fr, L, s),
           Gains(a, c, Len(fr), K), Novel(o.kind, a), IsNew(o, E, A), Lent(o, A, AllOf(fr), L, s),
           Owned(A, H, AllOf(fr), L), Made(B, A, o, E), Plus(ScopeObjects(scope), ScopeObjects(Last(fr)), o),
           Covers(K, o, E), Alike(scope), ListAs(c.open, scope)
    PROVE  Fits(c, Len(new), B, new, L, s)
<1>0. B = A \cup {o} \cup E /\ ScopeObjects(scope) = ScopeObjects(Last(fr)) \cup {o}
  BY DEF Made, Plus
<1>15. o.kind \in K /\ (\A k \in K : k = o.kind \/ \E e \in E : e.kind = k) /\ \A j \in DOMAIN scope : SameKind(scope[j])
  BY DEF Covers, Alike
<1>1. /\ Last(fr) = fr[Len(fr)] /\ Len(fr) \in DOMAIN fr /\ DOMAIN fr = 1..Len(fr) /\ Len(new) = Len(fr)
  BY LastPlaces, Places
<1>3. AllOf(new) = AllOf(fr) \cup {o}
  BY PutOne
<1>4. /\ s.kind = a.self /\ Has(a, Len(fr), A, fr) /\ Known(a, fr) /\ LooseAs(a, L)
      /\ Single(AllOf(fr), s) /\ Borrows(AllOf(fr))
  BY DEF Fits
<1>5. /\ c \in Shapes /\ c.self = a.self /\ c.depth = a.depth /\ c.raw = a.raw
      /\ c.at[Len(fr)] = a.at[Len(fr)] \cup K
      /\ \A i \in 1..Len(fr) : i # Len(fr) => c.at[i] = a.at[i]
  BY DEF Gains
<1>6. ASSUME NEW i \in 1..Len(fr), NEW k \in a.at[i] PROVE Reached(A, fr[i], k) /\ Reached(B, fr[i], k)
  <2>1. Reached(A, fr[i], k)
    BY <1>4 DEF Has
  <2>2. A \subseteq B
    BY <1>0
  <2> QED
    BY <2>1, <2>2 DEF Reached
<1>7. ASSUME NEW k \in c.at[Len(fr)] PROVE Reached(B, scope, k)
  <2>1. CASE k \in a.at[Len(fr)]
    <3>1. Reached(B, fr[Len(fr)], k)
      BY <1>1, <1>6, <2>1
    <3>2. ScopeObjects(fr[Len(fr)]) \subseteq ScopeObjects(scope)
      BY <1>0, <1>1
    <3> QED
      BY <1>0, <3>1, <3>2 DEF Reached
  <2>2. CASE k = o.kind
    BY <1>0, <2>2 DEF Reached
  <2>3. CASE \E e \in E : e.kind = k
    <3>1. PICK e \in E : e.kind = k
      BY <2>3
    <3>2. Element(e) /\ e.of = o.id
      BY DEF IsNew
    <3> QED
      BY <1>0, <3>1, <3>2 DEF Reached
  <2> QED
    BY <1>5, <1>15, <2>1, <2>2, <2>3
<1>8. ASSUME NEW q \in ScopeObjects(scope), q.kind \in Vital PROVE q.kind \in c.at[Len(fr)]
  <2>1. CASE q = o
    BY <1>5, <1>15, <2>1
  <2>2. CASE q \in ScopeObjects(fr[Len(fr)])
    <3>1. q.kind \in a.at[Len(fr)]
      BY <1>1, <1>4, <1>8, <2>2 DEF Known
    <3> QED
      BY <1>5, <3>1
  <2> QED
    BY <1>0, <1>1, <2>1, <2>2
<1>9. ASSUME NEW q \in AllOf(fr) \cup {s}, q.kind \in Vital PROVE q.kind \in Named(a)
  BY <1>9, VitalKnown
<1>10. Single(AllOf(new), s)
  <2> SUFFICES ASSUME NEW q \in AllOf(fr) \cup {s} \cup {o}, NEW r \in AllOf(fr) \cup {s} \cup {o},
                      q.kind = r.kind, q.kind \in Vital
               PROVE  q = r
    BY <1>3 DEF Single
  <2>1. CASE q \in AllOf(fr) \cup {s} /\ r \in AllOf(fr) \cup {s}
    BY <1>4, <2>1 DEF Single
  <2>2. CASE q = o /\ r \in AllOf(fr) \cup {s}
    BY <1>9, <2>2 DEF Novel
  <2>3. CASE r = o /\ q \in AllOf(fr) \cup {s}
    BY <1>9, <2>3 DEF Novel
  <2> QED
    BY <2>1, <2>2, <2>3
<1>11. Borrows(AllOf(new))
  <2> SUFFICES ASSUME NEW q \in AllOf(fr) \cup {o}, NEW r \in AllOf(fr) \cup {o}, q.of # 0, r.kind = "engine"
               PROVE  q.of = r.id
    BY <1>3 DEF Borrows
  <2>0. "engine" \in Vital /\ "engine" \notin Children /\ Children \subseteq Vital
    BY DEF Vital, Children
  <2>1. CASE q \in AllOf(fr) /\ r \in AllOf(fr)
    BY <1>4, <2>1 DEF Borrows
  <2>2. CASE q \in AllOf(fr) /\ r = o
    <3>1. q.kind \in Children
      BY <2>2, Borrower
    <3>2. q.kind \in Vital
      BY <2>0, <3>1
    <3>3. q.kind \in Named(a)
      BY <1>9, <2>2, <3>2
    <3> QED
      BY <2>2, <3>2, <3>3 DEF Novel
  <2>3. CASE q = o
    <3>1. PICK p \in A : p \in AllOf(fr) \cup {s} /\ p.id = o.of /\ p.kind = "engine" /\ o.kind \in Children
      BY <2>3 DEF Lent
    <3>2. r # o
      BY <2>0, <3>1
    <3>3. p = r
      BY <1>4, <2>0, <3>1, <3>2 DEF Single
    <3> QED
      BY <2>3, <3>1, <3>3
  <2> QED
    BY <2>1, <2>2, <2>3
<1>12. LooseAs(c, L)
  BY <1>4, <1>5 DEF LooseAs
<1>13. Len(fr) \in {Len(fr) - 1, Len(fr)}
  OBVIOUS
<1>14. Fits(c, Len(fr), B, new, L, s)
  <2>1. \A i \in 1..Len(fr) : i # Len(fr) => c.at[i] = a.at[i] /\ \A k \in a.at[i] : Reached(A, fr[i], k) => Reached(B, fr[i], k)
    BY <1>5, <1>6
  <2>2. Len(fr) = Len(fr) => (\A k \in c.at[Len(fr)] : Reached(B, scope, k)) /\ ListAs(c.open, scope)
    BY <1>7
  <2> QED
    BY <1>5, <1>8, <1>10, <1>11, <1>12, <1>13, <1>15, <2>1, <2>2, FitsPut
<1> QED
  BY <1>1, <1>14

-----------------------------------------------------------------------------
(* The steps left, and the inductive invariant.                            *)


-----------------------------------------------------------------------------
(* The inductive invariant.                                                *)

Safe(A, hs, fr, L, s) ==
    /\ A \in SUBSET Objects /\ IsFiniteSet(A)
    /\ hs \in SUBSET Seq(Objects) /\ fr \in Seq(Seq(Seq(Objects)))
    /\ L \in SUBSET Objects /\ s \in Objects \cup {NoObject}
    /\ HandlesOk(hs) /\ FrameOk(fr)
    /\ Owned(A, HandleSet(hs), AllOf(fr), L)
    /\ s # NoObject => s \in HandleSet(hs)

\* Nothing but the scopes is left to leave.
Unwinds(fr, L, td) == td = [i \in DOMAIN fr |-> Leave] /\ L = {}

\* The steps are right, and no function and no raw pointer is left behind.
Ends(td, a) == \E b : Fine(td, a, b) /\ b.depth = 0 /\ b.raw = {}

\* The steps left are right for what there is. What a scope that is being
\* left still has is of no account.
Runs(A, fr, L, s, td) ==
    /\ td # <<>>
    /\ \E a : Ends(td, a) /\ Fits(a, IF Head(td).do = "leave" THEN Len(fr) - 1 ELSE Len(fr), A, fr, L, s)

Inductive ==
    /\ Safe(alive, handles, frame, loose, self)
    /\ todo \in Seq(Steps)
    /\ Idle => self = NoObject
    /\ Unwinds(frame, loose, todo) \/ Runs(alive, frame, loose, self, todo)

LEMMA EndsFirst ==
    ASSUME NEW td, NEW a, Ends(td, a), td # <<>>
    PROVE  \E c \in Shapes : Does(Head(td), a, c) /\ Ends(Tail(td), c)
<1>1. PICK b : Fine(td, a, b) /\ b.depth = 0 /\ b.raw = {}
  BY DEF Ends
<1>2. PICK c \in Shapes : Does(Head(td), a, c) /\ Fine(Tail(td), c, b)
  BY <1>1, FineFirst
<1>3. Ends(Tail(td), c)
  BY <1>1, <1>2 DEF Ends
<1> QED
  BY <1>2, <1>3

LEMMA NothingToLeave ==
    Unwinds(<<>>, {}, <<>>)
BY DEF Unwinds

LEMMA RunsOn ==
    ASSUME NEW A, NEW fr \in Seq(Seq(Seq(Objects))), NEW L, NEW s, NEW td, NEW c, Ends(td, c), Fits(c, Len(fr), A, fr, L, s)
    PROVE  \/ Runs(A, fr, L, s, td)
           \/ td = <<>> /\ fr = <<>> /\ L = {}
<1>1. CASE td # <<>>
  <2> DEFINE n == IF Head(td).do = "leave" THEN Len(fr) - 1 ELSE Len(fr)
  <2>1. n \in {Len(fr) - 1, Len(fr)}
    OBVIOUS
  <2> HIDE DEF n
  <2>2. Fits(c, n, A, fr, L, s)
    BY <2>1, FitsLess
  <2> QED
    BY <1>1, <2>2 DEF Runs, n
<1>2. CASE td = <<>>
  <2>1. PICK b : Fine(<<>>, c, b) /\ b.depth = 0 /\ b.raw = {}
    BY <1>2 DEF Ends
  <2>2. c = b
    BY <2>1, NoneIsFine
  <2>3. Len(fr) = 0 /\ L = {}
    BY <2>1, <2>2 DEF Fits, LooseAs
  <2>4. fr = <<>>
    BY <2>3, EmptySeq
  <2> QED
    BY <1>2, <2>3, <2>4
<1> QED
  BY <1>1, <1>2

LEMMA LeaveIs == Leave.do = "leave"
BY DEF Leave, StepOf

\* A step other than leaving is one of the method's.
LEMMA StepIsDone ==
    ASSUME Inductive, todo # <<>>, Head(todo).do # "leave"
    PROVE  \E a, c \in Shapes : Does(Head(todo), a, c) /\ Ends(Tail(todo), c) /\ Fits(a, Len(frame), alive, frame, loose, self)
<1>1. ~Unwinds(frame, loose, todo)
  <2>1. ASSUME todo = [i \in DOMAIN frame |-> Leave] PROVE FALSE
    <3>1. todo \in Seq(Steps) /\ frame \in Seq(Seq(Seq(Objects)))
      BY DEF Inductive, Safe
    <3>2. 1 \in DOMAIN todo /\ Head(todo) = todo[1]
      BY <3>1
    <3>3. Head(todo) = Leave
      BY <2>1, <3>2
    <3> QED
      BY <3>3, LeaveIs
  <2> QED
    BY <2>1 DEF Unwinds
<1>2. Runs(alive, frame, loose, self, todo)
  BY <1>1 DEF Inductive
<1>3. PICK a : Ends(todo, a) /\ Fits(a, Len(frame), alive, frame, loose, self)
  BY <1>2 DEF Runs
<1>4. PICK c \in Shapes : Does(Head(todo), a, c) /\ Ends(Tail(todo), c)
  BY <1>3, EndsFirst
<1>5. a \in Shapes
  BY <1>3 DEF Fits
<1> QED
  BY <1>3, <1>4, <1>5

\* And then the next one is.
LEMMA Onward ==
    ASSUME Inductive, todo # <<>>, todo' = Tail(todo), Safe(alive', handles', frame', loose', self'), frame' # <<>>,
           NEW c, Ends(Tail(todo), c), Fits(c, Len(frame'), alive', frame', loose', self')
    PROVE  Inductive'
<1>1. todo \in Seq(Steps)
  BY DEF Inductive
<1>2. todo' \in Seq(Steps)
  BY <1>1
<1>3. frame' \in Seq(Seq(Seq(Objects)))
  BY DEF Safe
<1>4. Runs(alive', frame', loose', self', todo')
  BY <1>3, RunsOn
<1>5. todo' # <<>>
  BY <1>4 DEF Runs
<1> QED
  BY <1>2, <1>4, <1>5 DEF Inductive, Idle

-----------------------------------------------------------------------------
(* What each kind of step does to the shape.                               *)

LEMMA DoesWhat ==
    ASSUME NEW s, NEW a, NEW c, Does(s, a, c)
    PROVE  /\ s.do = "call" \/ s.do = "try" => Passing(s, a, c)
           /\ s.do = "enter" => Entering(s, a, c)
           /\ s.do = "own" => Owning(s, a, c)
           /\ s.do = "temp" => Holding(s, a, c)
           /\ s.do = "list" => Listing(s, a, c)
           /\ s.do = "push" => Pushing(s, a, c)
           /\ s.do = "raw" => Loosening(s, a, c)
           /\ s.do = "delete" => Deleting(s, a, c)
           /\ s.do = "move" => Returning(s, a, c) \/ Yielding(s, a, c)
           /\ s.do = "leave" => Leaving(s, a, c)
<1>1. \/ Passing(s, a, c) \/ Entering(s, a, c) \/ Owning(s, a, c) \/ Holding(s, a, c) \/ Listing(s, a, c)
      \/ Pushing(s, a, c) \/ Loosening(s, a, c) \/ Deleting(s, a, c) \/ Returning(s, a, c) \/ Yielding(s, a, c)
      \/ Leaving(s, a, c)
  BY DEF Does
<1>2. Passing(s, a, c) => s.do = "call" \/ s.do = "try"
  BY DEF Passing
<1>3. Entering(s, a, c) => s.do = "enter"
  BY Zenon DEF Entering
<1>4. Owning(s, a, c) => s.do = "own"
  BY Zenon DEF Owning
<1>5. Holding(s, a, c) => s.do = "temp"
  BY Zenon DEF Holding
<1>6. Listing(s, a, c) => s.do = "list"
  BY Zenon DEF Listing
<1>7. Pushing(s, a, c) => s.do = "push"
  BY Zenon DEF Pushing
<1>8. Loosening(s, a, c) => s.do = "raw"
  BY Zenon DEF Loosening
<1>9. Deleting(s, a, c) => s.do = "delete"
  BY Zenon DEF Deleting
<1>10. Returning(s, a, c) => s.do = "move"
  BY Zenon DEF Returning
<1>11. Yielding(s, a, c) => s.do = "move"
  BY Zenon DEF Yielding
<1>12. Leaving(s, a, c) => s.do = "leave"
  BY LeaveIs, Zenon DEF Leaving
<1> QED
  BY <1>1, <1>2, <1>3, <1>4, <1>5, <1>6, <1>7, <1>8, <1>9, <1>10, <1>11, <1>12

LEMMA DoesCall ==
    ASSUME NEW s, NEW a, NEW c, Does(s, a, c), s.do = "call" \/ s.do = "try"
    PROVE  c = a
BY DoesWhat DEF Does, Passing

LEMMA DoesEnter ==
    ASSUME NEW s, NEW a, NEW c, Does(s, a, c), s.do = "enter"
    PROVE  c = Shape(a.self, a.depth + 1, a.at, a.raw, {})
BY DoesWhat DEF Does, Entering

LEMMA DoesList ==
    ASSUME NEW s, NEW a, NEW c, Does(s, a, c), s.do = "list"
    PROVE  c = Shape(a.self, a.depth, a.at, a.raw, {"input data"}) /\ a.depth > 0
<1>1. s.do # "enter"
  OBVIOUS
<1> QED
  BY <1>1, DoesWhat DEF Does, Listing

LEMMA DoesDelete ==
    ASSUME NEW s, NEW a, NEW c, Does(s, a, c), s.do = "delete"
    PROVE  s.kind \in a.raw /\ c = Shape(a.self, a.depth, a.at, {}, a.open) /\ a.depth > 0
<1>1. s.do # "enter"
  OBVIOUS
<1> QED
  BY <1>1, DoesWhat DEF Does, Deleting

LEMMA DoesRaw ==
    ASSUME NEW s, NEW a, NEW c, Does(s, a, c), s.do = "raw"
    PROVE  /\ a.raw = {} /\ a.depth > 0 /\ s.of = "none" /\ s.count = 0
           /\ s.kind = "sampler params" /\ c = Shape(a.self, a.depth, a.at, {"sampler params"}, a.open)
<1>1. s.do # "enter" /\ s.do # "own" /\ s.do # "temp" /\ s.do \in {"try", "own", "temp", "push", "raw"}
  OBVIOUS
<1> QED
  BY <1>1, DoesWhat DEF Does, Loosening

LEMMA DoesOwn ==
    ASSUME NEW s, NEW a, NEW c, Does(s, a, c), s.do = "own"
    PROVE  /\ a.raw = {} /\ a.depth > 0 /\ s.count = 0 /\ s.kind # "none"
           /\ s.of # "none" => s.of = "engine" /\ s.kind \in Children /\ "engine" \in Named(a)
           /\ s.kind = "engine" => Named(a) \cap Vital = {}
           /\ s.kind \in Children => s.kind \notin Named(a)
           /\ c = Shape(a.self, a.depth, With(a, {s.kind}), a.raw, {})
<1>1. s.do # "enter" /\ s.do # "temp" /\ s.do \in {"try", "own", "temp", "push", "raw"}
      /\ s.do \in {"own", "temp", "push", "raw"}
  OBVIOUS
<1> QED
  BY <1>1, DoesWhat DEF Does, Owning

LEMMA DoesTemp ==
    ASSUME NEW s, NEW a, NEW c, Does(s, a, c), s.do = "temp"
    PROVE  /\ a.raw = {} /\ a.depth > 0 /\ s.kind # "none" /\ s.of = "none" /\ s.kind \notin Vital
           /\ s.count # 0 => s.kind = "embedding responses"
           /\ c = Put(a, {s.kind} \cup (IF s.count = 0 THEN {} ELSE {"embedding response"}))
<1>1. s.do # "enter" /\ s.do # "own" /\ s.do \in {"try", "own", "temp", "push", "raw"}
      /\ s.do \in {"own", "temp", "push", "raw"}
  OBVIOUS
<1> QED
  BY <1>1, DoesWhat DEF Does, Holding

LEMMA DoesPush ==
    ASSUME NEW s, NEW a, NEW c, Does(s, a, c), s.do = "push"
    PROVE  /\ a.raw = {} /\ a.depth > 0 /\ s.kind # "none" /\ s.of = "none" /\ s.count = 0
           /\ s.kind \in a.open /\ c = Put(a, {s.kind})
<1>1. s.do # "enter" /\ s.do # "own" /\ s.do # "temp" /\ s.do \in {"try", "own", "temp", "push", "raw"}
      /\ s.do \in {"own", "temp", "push", "raw"}
  OBVIOUS
<1> QED
  BY <1>1, DoesWhat DEF Does, Pushing

LEMMA DoesLeave ==
    ASSUME NEW s, NEW a, NEW c, Does(s, a, c), s.do = "leave"
    PROVE  c = Shape(a.self, a.depth - 1, [a.at EXCEPT ![a.depth] = {}], a.raw, {}) /\ a.depth > 0
<1>1. s.do # "enter"
  OBVIOUS
<1> QED
  BY <1>1, DoesWhat DEF Does, Leaving

LEMMA DoesAny ==
    ASSUME NEW s, NEW a, NEW c, Does(s, a, c)
    PROVE  s \in Steps /\ s.args \subseteq Named(a) /\ (s.do \in {"try", "own", "temp", "push", "raw"} => a.raw = {})
           /\ (s.do # "enter" => a.depth > 0)
BY DEF Does

-----------------------------------------------------------------------------
(* Each action keeps it. The steps without objects first.                  *)


-----------------------------------------------------------------------------
(* The steps keep the invariant. First those that make and delete nothing. *)

LEMMA SafeParts ==
    ASSUME Inductive
    PROVE  /\ alive \in SUBSET Objects /\ IsFiniteSet(alive)
           /\ handles \in SUBSET Seq(Objects) /\ frame \in Seq(Seq(Seq(Objects)))
           /\ loose \in SUBSET Objects /\ self \in Objects \cup {NoObject}
           /\ HandlesOk(handles) /\ FrameOk(frame)
           /\ Owned(alive, HandleSet(handles), AllOf(frame), loose)
           /\ self # NoObject => self \in HandleSet(handles)
           /\ todo \in Seq(Steps)
BY DEF Inductive, Safe

\* The fields of a shape whose depth is that of the scopes.
LEMMA ShapeIs ==
    ASSUME NEW kind, NEW depth, NEW at, NEW raw, NEW open
    PROVE  /\ Shape(kind, depth, at, raw, open).self = kind /\ Shape(kind, depth, at, raw, open).depth = depth
           /\ Shape(kind, depth, at, raw, open).at = at /\ Shape(kind, depth, at, raw, open).raw = raw
           /\ Shape(kind, depth, at, raw, open).open = open
BY DEF Shape

LEMMA HasScope ==
    ASSUME NEW s, NEW a, NEW c, NEW A, NEW fr, NEW L, NEW o, NEW n, Does(s, a, c), s.do # "enter", Fits(a, n, A, fr, L, o)
    PROVE  fr # <<>>
<1>1. a.depth > 0 /\ Len(fr) = a.depth
  BY DoesAny DEF Fits
<1>2. Len(<<>>) = 0
  OBVIOUS
<1>3. a.depth # 0
  BY <1>1
<1> QED
  BY <1>1, <1>2, <1>3, Zenon

LEMMA CallKeeps ==
    ASSUME Inductive, CallNative
    PROVE  Inductive'
<1>1. todo # <<>> /\ (Head(todo).do = "call" \/ Head(todo).do = "try")
  BY DEF CallNative, At
<1>2. Head(todo).do # "leave" /\ Head(todo).do # "enter"
  BY <1>1
<1>3. PICK a, c \in Shapes : Does(Head(todo), a, c) /\ Ends(Tail(todo), c) /\ Fits(a, Len(frame), alive, frame, loose, self)
  BY <1>1, <1>2, StepIsDone
<1>4. c = a
  BY <1>1, <1>3, DoesCall
<1>5. frame # <<>>
  BY <1>2, <1>3, HasScope
<1>6. alive' = alive /\ handles' = handles /\ frame' = frame /\ loose' = loose /\ self' = self /\ todo' = Tail(todo)
  BY DEF CallNative, Advance
<1>7. Safe(alive', handles', frame', loose', self')
  BY <1>6 DEF Inductive
<1>8. Fits(c, Len(frame'), alive', frame', loose', self') /\ frame' # <<>>
  BY <1>3, <1>4, <1>5, <1>6
<1> QED
  BY <1>1, <1>3, <1>6, <1>7, <1>8, Onward

LEMMA EnterKeeps ==
    ASSUME Inductive, EnterScope
    PROVE  Inductive'
<1>1. todo # <<>> /\ Head(todo).do = "enter"
  BY DEF EnterScope, At
<1>2. Head(todo).do # "leave"
  BY <1>1
<1>3. PICK a, c \in Shapes : Does(Head(todo), a, c) /\ Ends(Tail(todo), c) /\ Fits(a, Len(frame), alive, frame, loose, self)
  BY <1>1, <1>2, StepIsDone
<1>4. c = Shape(a.self, a.depth + 1, a.at, a.raw, {})
  BY <1>1, <1>3, DoesEnter
<1>5. c.self = a.self /\ c.depth = a.depth + 1 /\ c.at = a.at /\ c.raw = a.raw /\ c.open = {}
  BY <1>4, ShapeIs
<1>6. /\ alive' = alive /\ handles' = handles /\ loose' = loose /\ self' = self /\ todo' = Tail(todo)
      /\ Opens(frame', frame)
  BY DEF EnterScope, Advance, Opens
<1>7. frame' \in Seq(Seq(Seq(Objects))) /\ AllOf(frame') = AllOf(frame) /\ FrameOk(frame') /\ frame' # <<>>
  BY <1>6, SafeParts, OpensIs
<1>8. Safe(alive', handles', frame', loose', self')
  BY <1>6, <1>7, SafeParts DEF Safe
<1>9. Fits(c, Len(frame'), alive', frame', loose', self')
  <2>1. Fits(c, Len(frame'), alive, frame', loose, self)
    BY <1>3, <1>5, <1>6, SafeParts, FitsEnter
  <2> QED
    BY <1>6, <2>1
<1> QED
  BY <1>1, <1>3, <1>6, <1>7, <1>8, <1>9, Onward

LEMMA FailKeeps ==
    ASSUME Inductive, Fail
    PROVE  Inductive'
<1>1. todo # <<>> /\ Head(todo).do \in {"try", "own", "temp", "push", "raw"}
  BY DEF Fail, At
<1>2. Head(todo).do # "leave" /\ Head(todo).do # "enter"
  BY <1>1
<1>3. PICK a, c \in Shapes : Does(Head(todo), a, c) /\ Ends(Tail(todo), c) /\ Fits(a, Len(frame), alive, frame, loose, self)
  BY <1>1, <1>2, StepIsDone
<1>4. a.raw = {}
  BY <1>1, <1>3, DoesAny
<1>5. loose = {}
  BY <1>3, <1>4 DEF Fits, LooseAs
<1>6. /\ alive' = alive /\ handles' = handles /\ frame' = frame /\ loose' = loose /\ self' = self
      /\ todo' = [i \in DOMAIN frame |-> Leave]
  BY DEF Fail
<1>7. frame # <<>> /\ frame \in Seq(Seq(Seq(Objects)))
  BY <1>2, <1>3, HasScope, SafeParts
<1>8. DOMAIN frame = 1..Len(frame) /\ Len(frame) \in Nat \ {0}
  BY <1>7, EmptySeq, LenProperties
<1>9. Leave \in Steps
  BY DEF Leave, StepOf, Steps, Doings
<1>10. todo' \in Seq(Steps) /\ todo' # <<>>
  <2> HIDE DEF Steps
  <2> DEFINE n == Len(frame)
             t == [i \in 1..n |-> Leave]
  <2>1. n \in Nat \ {0} /\ todo' = t
    BY <1>6, <1>8
  <2> HIDE DEF n
  <2>2. t \in Seq(Steps) /\ DOMAIN t = 1..n /\ 1 \in 1..n
    BY <1>9, <2>1
  <2>3. DOMAIN <<>> = {}
    OBVIOUS
  <2> HIDE DEF t
  <2>4. t # <<>>
    BY <2>2, <2>3
  <2> QED
    BY <2>1, <2>2, <2>4
<1>11. Safe(alive', handles', frame', loose', self')
  BY <1>6 DEF Inductive
<1>12. Unwinds(frame', loose', todo')
  BY <1>5, <1>6 DEF Unwinds
<1> QED
  BY <1>10, <1>11, <1>12 DEF Inductive, Idle

LEMMA AppendEmpty ==
    ASSUME NEW l \in Seq(Seq(Objects))
    PROVE  /\ Append(l, <<>>) \in Seq(Seq(Objects)) /\ ScopeObjects(Append(l, <<>>)) = ScopeObjects(l)
           /\ Append(l, <<>>) # <<>> /\ Last(Append(l, <<>>)) = <<>> /\ ToSet(<<>>) = {}
           /\ DOMAIN Append(l, <<>>) = 1..(Len(l) + 1) /\ DOMAIN l = 1..Len(l) /\ Len(l) \in Nat
           /\ (\A j \in 1..Len(l) : Append(l, <<>>)[j] = l[j]) /\ Append(l, <<>>)[Len(l) + 1] = <<>>
<1> DEFINE W == Seq(Objects)
           g == Append(l, <<>>)
<1>1. l \in Seq(W) /\ <<>> \in W
  BY EmptySeq
<1>2. ScopeObjects(Append(l, <<>>)) = ScopeObjects(l) \cup ToSet(<<>>)
  BY <1>1, ScopeObjectsAre
<1>3. ToSet(<<>>) = {}
  BY DEF ToSet
<1> HIDE DEF W
<1>4. g \in Seq(W) /\ Len(g) = Len(l) + 1 /\ (\A j \in 1..Len(l) : g[j] = l[j]) /\ g[Len(l) + 1] = <<>>
      /\ Len(l) \in Nat /\ DOMAIN l = 1..Len(l)
  BY <1>1, AppendProperties, LenProperties
<1> HIDE DEF g
<1>5. DOMAIN g = 1..(Len(l) + 1) /\ g # <<>> /\ Last(g) = <<>>
  BY <1>4, LenProperties, EmptySeq DEF Last
<1> QED
  BY <1>2, <1>3, <1>4, <1>5 DEF W, g

LEMMA ListKeeps ==
    ASSUME Inductive, OpenList
    PROVE  Inductive'
<1>1. todo # <<>> /\ Head(todo).do = "list"
  BY DEF OpenList, At
<1>2. Head(todo).do # "leave" /\ Head(todo).do # "enter"
  BY <1>1
<1>3. PICK a, c \in Shapes : Does(Head(todo), a, c) /\ Ends(Tail(todo), c) /\ Fits(a, Len(frame), alive, frame, loose, self)
  BY <1>1, <1>2, StepIsDone
<1>4. c = Shape(a.self, a.depth, a.at, a.raw, {"input data"})
  BY <1>1, <1>3, DoesList
<1>5. c.self = a.self /\ c.depth = a.depth /\ c.at = a.at /\ c.raw = a.raw
  BY <1>4 DEF Shape
<1>6. frame # <<>> /\ frame \in Seq(Seq(Seq(Objects)))
  BY <1>2, <1>3, HasScope, SafeParts
<1> DEFINE scope == Append(Last(frame), <<>>)
<1>7. Puts(frame', frame, scope) /\ alive' = alive /\ handles' = handles /\ loose' = loose /\ self' = self /\ todo' = Tail(todo)
  BY DEF OpenList, Advance, InScope, Scope, Puts
<1>8. /\ Last(frame) \in Seq(Seq(Objects)) /\ <<>> \in Seq(Objects) /\ Last(frame) = frame[Len(frame)]
      /\ Len(frame) \in DOMAIN frame
  BY <1>6, EmptySeq, LastPlaces
<1>9. /\ scope \in Seq(Seq(Objects)) /\ ScopeObjects(scope) = ScopeObjects(Last(frame))
      /\ scope # <<>> /\ Last(scope) = <<>> /\ ToSet(<<>>) = {}
      /\ DOMAIN scope = 1..(Len(Last(frame)) + 1) /\ DOMAIN Last(frame) = 1..Len(Last(frame)) /\ Len(Last(frame)) \in Nat
      /\ (\A j \in 1..Len(Last(frame)) : scope[j] = Last(frame)[j]) /\ scope[Len(Last(frame)) + 1] = <<>>
  BY <1>8, AppendEmpty
<1> HIDE DEF scope
<1>10. \A j, k : Spot(scope, j, k) => Spot(Last(frame), j, k) /\ Item(scope, j, k) = Item(Last(frame), j, k)
  <2>1. DOMAIN <<>> = {}
    OBVIOUS
  <2>2. \A j \in 1..(Len(Last(frame)) + 1) : j \in 1..Len(Last(frame)) \/ j = Len(Last(frame)) + 1
    BY <1>9
  <2> QED
    BY <1>9, <2>1, <2>2 DEF Spot, Item
<1>11. FrameOk(frame') /\ frame' \in Seq(Seq(Seq(Objects))) /\ Len(frame') = Len(frame) /\ Len(frame) \in Nat \ {0}
       /\ DOMAIN frame = 1..Len(frame)
  BY <1>6, <1>7, <1>9, <1>10, SafeParts, FrameInScope, Places
<1>12. AllOf(frame') = AllOf(frame)
  <2>1. scope \in Seq(Seq(Objects)) /\ ScopeObjects(scope) = ScopeObjects(Last(frame))
    BY <1>9
  <2>2. AllOf(frame) = Outer(frame) \cup ScopeObjects(Last(frame)) /\ AllOf(frame') = Outer(frame) \cup ScopeObjects(scope)
    BY <1>6, <1>7, <2>1, PutObjects
  <2> QED
    BY <2>1, <2>2
<1>13. Safe(alive', handles', frame', loose', self')
  BY <1>7, <1>11, <1>12, SafeParts DEF Safe
<1>14. frame' # <<>>
  <2>1. Len(<<>>) = 0
    OBVIOUS
  <2> QED
    BY <1>11, <2>1
<1>15. Fits(c, Len(frame'), alive', frame', loose', self')
  <2>1. /\ Has(a, Len(frame), alive, frame) /\ Known(a, frame) /\ Single(AllOf(frame), self) /\ Borrows(AllOf(frame))
        /\ OneKind(frame) /\ LooseAs(a, loose)
    BY <1>3 DEF Fits
  <2>2. Len(frame) \in {Len(frame) - 1, Len(frame)}
    OBVIOUS
  <2>3. \A k \in c.at[Len(frame)] : Reached(alive, scope, k)
    <3> SUFFICES ASSUME NEW k \in a.at[Len(frame)] PROVE Reached(alive, scope, k)
      BY <1>5
    <3>1. Reached(alive, frame[Len(frame)], k)
      BY <1>8, <1>11, <2>1 DEF Has
    <3> QED
      BY <1>8, <1>9, <3>1 DEF Reached
  <2>4. ListAs(c.open, scope)
    BY <1>9 DEF ListAs
  <2>5. \A o \in ScopeObjects(scope) : o.kind \in Vital => o.kind \in c.at[Len(frame)]
    BY <1>5, <1>8, <1>9, <2>1 DEF Known
  <2>6. Single(AllOf(frame'), self) /\ Borrows(AllOf(frame')) /\ LooseAs(c, loose)
    BY <1>5, <1>12, <2>1 DEF LooseAs
  <2>7. \A j \in DOMAIN scope : SameKind(scope[j])
    <3> SUFFICES ASSUME NEW j \in 1..(Len(Last(frame)) + 1) PROVE SameKind(scope[j])
      BY <1>9
    <3>1. CASE j \in 1..Len(Last(frame))
      BY <1>8, <1>9, <2>1, <3>1 DEF OneKind
    <3>2. CASE j = Len(Last(frame)) + 1
      BY <1>9, <3>2 DEF SameKind
    <3> QED
      BY <1>9, <3>1, <3>2
  <2>8. Fits(c, Len(frame), alive, frame', loose, self)
    <3>1. \A i \in 1..Len(frame) : i # Len(frame) =>
             c.at[i] = a.at[i] /\ \A k \in a.at[i] : Reached(alive, frame[i], k) => Reached(alive, frame[i], k)
      BY <1>5
    <3>2. Len(frame) = Len(frame) => (\A k \in c.at[Len(frame)] : Reached(alive, scope, k)) /\ ListAs(c.open, scope)
      BY <2>3, <2>4
    <3> QED
      BY <1>3, <1>5, <1>6, <1>7, <1>9, <2>2, <2>5, <2>6, <2>7, <3>1, <3>2, FitsPut
  <2> QED
    BY <1>7, <1>11, <2>8
<1> QED
  BY <1>1, <1>3, <1>7, <1>13, <1>14, <1>15, Onward

LEMMA LooseAlone ==
    ASSUME NEW A, NEW H, NEW F, NEW L, Owned(A, H, F, L), NEW o \in L, o.id # 0
    PROVE  /\ \A q \in A : q.of # o.id
           /\ o \notin F
<1>1. o \in A /\ Unique(A) /\ o \notin F
  BY DEF Owned
<1>2. ASSUME NEW q \in A, q.of = o.id PROVE FALSE
  <2>1. PICK p \in A : ParentOf(p, q, H, F, L)
    BY <1>2 DEF Owned
  <2>2. p.id = o.id /\ p \notin L
    BY <1>2, <2>1 DEF ParentOf
  <2> QED
    BY <1>1, <2>2 DEF Unique
<1> QED
  BY <1>1, <1>2

LEMMA DeleteKeeps ==
    ASSUME Inductive, DeleteLoose
    PROVE  Inductive'
<1>1. todo # <<>> /\ Head(todo).do = "delete"
  BY DEF DeleteLoose, At
<1>2. Head(todo).do # "leave" /\ Head(todo).do # "enter"
  BY <1>1
<1>3. PICK a, c \in Shapes : Does(Head(todo), a, c) /\ Ends(Tail(todo), c) /\ Fits(a, Len(frame), alive, frame, loose, self)
  BY <1>1, <1>2, StepIsDone
<1>4. c = Shape(a.self, a.depth, a.at, {}, a.open)
  BY <1>1, <1>3, DoesDelete
<1>5. c.self = a.self /\ c.depth = a.depth /\ c.at = a.at /\ c.raw = {} /\ c.open = a.open
  BY <1>4, ShapeIs
<1>6. frame # <<>>
  BY <1>2, <1>3, HasScope
<1>7. PICK o \in loose : /\ alive' = alive \ ({o} \cup {e \in alive : Element(e) /\ e.of = o.id})
                         /\ loose' = loose \ {o}
  BY DEF DeleteLoose, Delete
<1>8. handles' = handles /\ frame' = frame /\ self' = self /\ todo' = Tail(todo)
  BY DEF DeleteLoose, Advance
<1>9. /\ Has(a, Len(frame), alive, frame) /\ Known(a, frame) /\ Single(AllOf(frame), self) /\ Borrows(AllOf(frame))
      /\ OneKind(frame) /\ LooseAs(a, loose) /\ ListAs(a.open, Last(frame)) /\ Len(frame) = a.depth /\ self.kind = a.self
  BY <1>3 DEF Fits
<1>10. o.id # 0 /\ Owned(alive, HandleSet(handles), AllOf(frame), loose)
  BY SafeParts DEF Objects
<1>11. (\A q \in alive : q.of # o.id) /\ o \notin AllOf(frame)
  BY <1>10, LooseAlone
<1>12. Owned(alive', HandleSet(handles), AllOf(frame), loose')
  <2> DEFINE G == AllOf(frame) \ {o}
             F == AllOf(frame)
  <2>1. G = F
    BY <1>11
  <2>2. o \in F \cup loose /\ (\A q \in F : q.of # o.id) /\ (\A q \in loose : q.of # o.id)
    BY <1>10, <1>11 DEF Owned
  <2> HIDE DEF F
  <2>3. Owned(alive', HandleSet(handles), G, loose')
    BY <1>7, <1>10, <2>2, OwnedDelete DEF F
  <2> QED
    BY <2>1, <2>3 DEF F
<1>13. alive' \in SUBSET alive /\ loose' = {}
  BY <1>7, <1>9 DEF LooseAs
<1>14. Safe(alive', handles', frame', loose', self')
  <2>1. IsFiniteSet(alive')
    BY <1>13, SafeParts, FS_Subset
  <2>2. alive' \in SUBSET Objects /\ loose' \in SUBSET Objects
    BY <1>13, SafeParts
  <2> QED
    BY <1>8, <1>12, <2>1, <2>2, SafeParts DEF Safe
<1>15. Has(c, Len(frame), alive', frame)
  <2> SUFFICES ASSUME NEW i \in 1..Len(frame), NEW k \in a.at[i] PROVE Reached(alive', frame[i], k)
    BY <1>5 DEF Has
  <2>1. Reached(alive, frame[i], k)
    BY <1>9 DEF Has
  <2>2. ScopeObjects(frame[i]) \subseteq AllOf(frame)
    <3>1. i \in DOMAIN frame
      BY SafeParts, LenProperties
    <3> QED
      BY <3>1 DEF AllOf
  <2>3. o \notin ScopeObjects(frame[i]) /\ o \in AllOf(frame) \cup loose
    BY <1>11, <2>2
  <2> QED
    BY <1>7, <1>10, <2>1, <2>2, <2>3, ReachedStays
<1>16. Fits(c, Len(frame'), alive', frame', loose', self')
  <2>1. LooseAs(c, loose')
    BY <1>5, <1>13 DEF LooseAs
  <2>2. Known(c, frame)
    BY <1>5, <1>9 DEF Known
  <2> QED
    BY <1>3, <1>5, <1>8, <1>9, <1>15, <2>1, <2>2 DEF Fits
<1> QED
  BY <1>1, <1>3, <1>6, <1>8, <1>14, <1>16, Onward

\* A function whose locals are gone.
LEMMA LeavesIs ==
    ASSUME NEW fr \in Seq(Seq(Seq(Objects))), fr # <<>>, Last(fr) = <<>>
    PROVE  Opens(fr, Front(fr)) /\ Front(fr) \in Seq(Seq(Seq(Objects)))
<1> DEFINE S == Seq(Seq(Objects))
<1>1. fr \in Seq(S)
  OBVIOUS
<1> HIDE DEF S
<1>2. Front(fr) \in Seq(S) /\ fr = Append(Front(fr), Last(fr))
  BY <1>1, FrontLast
<1>3. fr = Append(Front(fr), <<>>)
  BY <1>2
<1> QED
  BY <1>2, <1>3 DEF Opens, S

LEMMA LeaveKeeps ==
    ASSUME Inductive, LeaveScope
    PROVE  Inductive'
<1>1. todo # <<>> /\ Head(todo).do = "leave" /\ Last(frame) = <<>>
  BY DEF LeaveScope, At, Scope
<1>2. /\ alive' = alive /\ handles' = handles /\ frame' = Front(frame) /\ todo' = Tail(todo)
      /\ self' = (IF Len(todo) = 1 THEN NoObject ELSE self)
      /\ loose' = (IF Len(todo) = 1 THEN {} ELSE loose)
  BY DEF LeaveScope, Advance
<1>3. todo \in Seq(Steps) /\ todo' \in Seq(Steps) /\ (Len(todo) = 1 <=> todo' = <<>>)
  <2> HIDE DEF Steps
  <2>1. todo \in Seq(Steps)
    BY SafeParts
  <2>2. Tail(todo) \in Seq(Steps) /\ Len(Tail(todo)) = Len(todo) - 1 /\ Len(todo) \in Nat
    BY <1>1, <2>1
  <2>3. Tail(todo) = <<>> <=> Len(Tail(todo)) = 0
    BY <2>2, EmptySeq
  <2> QED
    BY <1>2, <2>1, <2>2, <2>3
<1>4. ASSUME frame # <<>>, loose = loose' \/ loose = {} PROVE Safe(alive', handles', frame', loose', self')
  <2>1. Opens(frame, frame') /\ frame' \in Seq(Seq(Seq(Objects)))
    BY <1>1, <1>2, <1>4, SafeParts, LeavesIs
  <2>2. AllOf(frame') = AllOf(frame) /\ FrameOk(frame')
    BY <2>1, SafeParts, OpensIs
  <2>3. loose' = loose
    BY <1>2, <1>4
  <2> QED
    BY <1>2, <2>1, <2>2, <2>3, SafeParts DEF Safe
<1>5. CASE Unwinds(frame, loose, todo)
  <2>1. todo = [i \in DOMAIN frame |-> Leave] /\ loose = {} /\ loose' = {}
    BY <1>2, <1>5 DEF Unwinds
  <2>2. frame # <<>>
    <3>1. frame = <<>> => todo = <<>>
      BY <2>1
    <3> QED
      BY <1>1, <3>1
  <2>3. Tail(todo) = [i \in DOMAIN frame' |-> Leave]
    <3> DEFINE n == Len(frame)
               t == [i \in 1..n |-> Leave]
               f == Front(frame)
    <3>1. DOMAIN frame = 1..n /\ n \in Nat \ {0} /\ DOMAIN f = 1..(n - 1)
      <4> DEFINE S == Seq(Seq(Objects))
      <4>1. frame \in Seq(S)
        BY SafeParts
      <4> HIDE DEF S
      <4>2. f \in Seq(S) /\ Len(f) = n - 1 /\ n \in Nat \ {0}
        BY <2>2, <4>1, FrontLast
      <4> HIDE DEF f
      <4> QED
        BY <4>1, <4>2, LenProperties
    <3> HIDE DEF n, f
    <3>2. Tail(t) = [i \in 1..(n - 1) |-> Leave]
      BY <3>1
    <3> QED
      BY <1>2, <2>1, <3>1, <3>2 DEF f
  <2>4. Unwinds(frame', loose', todo')
    BY <1>2, <2>1, <2>3 DEF Unwinds
  <2>5. Safe(alive', handles', frame', loose', self')
    BY <1>4, <2>1, <2>2
  <2>6. todo' = <<>> => self' = NoObject
    BY <1>2, <1>3
  <2> QED
    BY <1>3, <2>4, <2>5, <2>6 DEF Inductive, Idle
<1>6. CASE Runs(alive, frame, loose, self, todo)
  <2>1. PICK a : Ends(todo, a) /\ Fits(a, Len(frame) - 1, alive, frame, loose, self)
    BY <1>1, <1>6 DEF Runs
  <2>2. PICK c \in Shapes : Does(Head(todo), a, c) /\ Ends(Tail(todo), c)
    BY <1>1, <2>1, EndsFirst
  <2>3. c = Shape(a.self, a.depth - 1, [a.at EXCEPT ![a.depth] = {}], a.raw, {}) /\ a.depth > 0
    BY <1>1, <2>2, DoesLeave
  <2>4. frame # <<>> /\ a.depth = Len(frame)
    <3>1. Head(todo).do # "enter"
      BY <1>1
    <3> QED
      BY <2>1, <2>2, <3>1, HasScope DEF Fits
  <2>5. Opens(frame, frame') /\ frame' \in Seq(Seq(Seq(Objects)))
    BY <1>1, <1>2, <2>4, SafeParts, LeavesIs
  <2>6. Len(frame) = Len(frame') + 1 /\ Len(frame') \in Nat
    BY <2>5, OpensIs
  <2>7. c.self = a.self /\ c.depth = a.depth - 1 /\ c.raw = a.raw /\ c.open = {} /\ c.at = [a.at EXCEPT ![a.depth] = {}]
    BY <2>3, ShapeIs
  <2>8. \A i \in 1..Len(frame') : c.at[i] = a.at[i]
    <3>1. a.at \in [Nat -> SUBSET Kinds]
      BY <2>1, ShapeTypes DEF Fits
    <3>2. \A i \in 1..Len(frame') : i \in Nat /\ i # a.depth
      BY <2>4, <2>6
    <3> QED
      BY <2>7, <3>1, <3>2
  <2>9. Fits(c, Len(frame'), alive, frame', loose, self)
    BY <2>1, <2>2, <2>5, <2>7, <2>8, FitsLeave
  <2>10. \/ Runs(alive, frame', loose, self, todo')
         \/ todo' = <<>> /\ frame' = <<>> /\ loose = {}
    BY <1>2, <2>2, <2>5, <2>9, RunsOn
  <2>11. CASE Runs(alive, frame', loose, self, todo')
    <3>1. todo' # <<>>
      BY <2>11 DEF Runs
    <3>2. loose' = loose /\ self' = self /\ alive' = alive
      BY <1>2, <1>3, <3>1
    <3>3. Safe(alive', handles', frame', loose', self')
      BY <1>4, <2>4, <3>2
    <3> QED
      BY <1>3, <2>11, <3>1, <3>2, <3>3 DEF Inductive, Idle
  <2>12. CASE todo' = <<>> /\ frame' = <<>> /\ loose = {}
    <3>1. loose' = {} /\ self' = NoObject
      BY <1>2, <1>3, <2>12
    <3>2. Safe(alive', handles', frame', loose', self')
      BY <1>4, <2>4, <2>12
    <3>3. Unwinds(frame', loose', todo')
      BY <2>12, <3>1, NothingToLeave
    <3> QED
      BY <1>3, <3>1, <3>2, <3>3 DEF Inductive, Idle
  <2> QED
    BY <2>10, <2>11, <2>12
<1> QED
  BY <1>5, <1>6 DEF Inductive

-----------------------------------------------------------------------------
(* A native constructor: the object goes to a local, the front of the      *)
(* scope, the last list or a raw pointer.                                  *)


\* A new object in the innermost scope.
LEMMA AddKeeps ==
    ASSUME NEW a, NEW c, NEW scope \in Seq(Seq(Objects)), NEW o, NEW E, NEW K, Inductive, todo # <<>>,
           Ends(Tail(todo), c), Fits(a, Len(frame), alive, frame, loose, self), frame # <<>>,
           Puts(frame', frame, scope), FrameOk(frame'),
           IsNew(o, E, alive), Lent(o, alive, AllOf(frame), loose, self), Made(alive', alive, o, E),
           handles' = handles, loose' = loose, self' = self, todo' = Tail(todo),
           Plus(ScopeObjects(scope), ScopeObjects(Last(frame)), o),
           Gains(a, c, Len(frame), K), Novel(o.kind, a), Covers(K, o, E), Alike(scope), ListAs(c.open, scope)
    PROVE  Inductive'
<1>1. Plus(AllOf(frame'), AllOf(frame), o)
  BY SafeParts, PutOne
<1>2. alive' \in SUBSET Objects /\ IsFiniteSet(alive') /\ Owned(alive', HandleSet(handles), AllOf(frame'), loose)
  BY <1>1, SafeParts, NewOwned
<1>3. frame' \in Seq(Seq(Seq(Objects))) /\ Len(frame') = Len(frame) /\ Len(frame) \in Nat \ {0}
  BY SafeParts, Places
<1>4. Safe(alive', handles', frame', loose', self')
  BY <1>2, <1>3, SafeParts DEF Safe
<1>5. Fits(c, Len(frame'), alive', frame', loose', self')
  <2>0. alive \in SUBSET Objects /\ frame \in Seq(Seq(Seq(Objects))) /\ Owned(alive, HandleSet(handles), AllOf(frame), loose)
    BY SafeParts
  <2>1. Fits(c, Len(frame'), alive', frame', loose, self)
    BY <2>0, FitsNew
  <2> QED
    BY <2>1
<1>6. frame' # <<>>
  <2>1. Len(<<>>) = 0
    OBVIOUS
  <2> QED
    BY <1>3, <2>1
<1> QED
  BY <1>4, <1>5, <1>6, Onward

LEMMA ExceptAt ==
    ASSUME NEW T, NEW f \in [Nat -> T], NEW n \in Nat, NEW K, NEW g, g = [f EXCEPT ![n] = @ \cup K]
    PROVE  g[n] = f[n] \cup K /\ \A i \in Nat : i # n => g[i] = f[i]
OBVIOUS

LEMMA ScopeGains ==
    ASSUME NEW l \in Seq(Seq(Objects)), NEW o \in Objects, NEW g, g = Append(l, <<o>>)
    PROVE  /\ g \in Seq(Seq(Objects)) /\ Len(l) \in Nat /\ DOMAIN l = 1..Len(l) /\ DOMAIN g = 1..(Len(l) + 1)
           /\ (\A j \in 1..Len(l) : g[j] = l[j]) /\ ToSet(g[Len(l) + 1]) = {o}
           /\ ScopeObjects(g) = ScopeObjects(l) \cup {o}
           /\ \A j, k : Spot(g, j, k) =>
                \/ Spot(l, j, k) /\ Item(g, j, k) = Item(l, j, k)
                \/ j = Len(l) + 1 /\ k = 1 /\ Item(g, j, k) = o
           /\ \A j, k : Spot(l, j, k) => j < Len(l) + 1
<1> DEFINE W == Seq(Objects)
           w == <<o>>
<1>1. w \in W /\ l \in Seq(W) /\ ToSet(w) = {o} /\ DOMAIN w = 1..1 /\ w[1] = o
  BY DEF ToSet
<1>2. ScopeObjects(Append(l, w)) = ScopeObjects(l) \cup ToSet(w)
  BY <1>1, ScopeObjectsAre
<1> HIDE DEF W, w
<1> DEFINE f == Append(l, w)
<1>3. f \in Seq(W) /\ Len(f) = Len(l) + 1 /\ (\A j \in 1..Len(l) : f[j] = l[j]) /\ f[Len(l) + 1] = w
      /\ Len(l) \in Nat /\ DOMAIN l = 1..Len(l)
  BY <1>1, AppendProperties, LenProperties
<1>4. g = f
  BY DEF w
<1> HIDE DEF f
<1>5. DOMAIN f = 1..(Len(l) + 1)
  BY <1>3, LenProperties
<1>6. ASSUME NEW j, NEW k, Spot(f, j, k)
      PROVE  \/ Spot(l, j, k) /\ Item(f, j, k) = Item(l, j, k)
             \/ j = Len(l) + 1 /\ k = 1 /\ Item(f, j, k) = o
  <2>1. j \in 1..(Len(l) + 1) /\ k \in DOMAIN f[j]
    BY <1>5, <1>6 DEF Spot
  <2>2. CASE j \in 1..Len(l)
    BY <1>3, <2>1, <2>2 DEF Spot, Item
  <2>3. CASE j = Len(l) + 1
    BY <1>1, <1>3, <2>1, <2>3 DEF Item
  <2> QED
    BY <1>3, <2>1, <2>2, <2>3
<1>7. ASSUME NEW j, NEW k, Spot(l, j, k) PROVE j < Len(l) + 1
  BY <1>3, <1>7 DEF Spot
<1> QED
  BY <1>1, <1>2, <1>3, <1>4, <1>5, <1>6, <1>7 DEF W, f

LEMMA OwnKeeps ==
    ASSUME NEW a, NEW c \in Shapes, NEW o, NEW E, NEW kind, Inductive, todo # <<>>, Ends(Tail(todo), c),
           Fits(a, Len(frame), alive, frame, loose, self), frame # <<>>,
           Puts(frame', frame, Append(Last(frame), <<o>>)),
           IsNew(o, E, alive), Lent(o, alive, AllOf(frame), loose, self), Made(alive', alive, o, E),
           handles' = handles, loose' = loose, self' = self, todo' = Tail(todo),
           c = Shape(a.self, a.depth, With(a, {kind}), a.raw, {}), o.kind = kind, Novel(kind, a)
    PROVE  Inductive'
<1> DEFINE scope == Append(Last(frame), <<o>>)
           l == Last(frame)
<1>1. l \in Seq(Seq(Objects)) /\ o \in Objects /\ Len(frame) = a.depth /\ l = frame[Len(frame)] /\ Len(frame) \in DOMAIN frame
  BY SafeParts, LastPlaces DEF IsNew, Fits
<1> HIDE DEF l
<1>2. /\ scope \in Seq(Seq(Objects)) /\ Len(l) \in Nat /\ DOMAIN l = 1..Len(l) /\ DOMAIN scope = 1..(Len(l) + 1)
      /\ (\A j \in 1..Len(l) : scope[j] = l[j]) /\ ToSet(scope[Len(l) + 1]) = {o}
      /\ ScopeObjects(scope) = ScopeObjects(l) \cup {o}
      /\ \A j, k : Spot(scope, j, k) =>
            \/ Spot(l, j, k) /\ Item(scope, j, k) = Item(l, j, k)
            \/ j = Len(l) + 1 /\ k = 1 /\ Item(scope, j, k) = o
      /\ \A j, k : Spot(l, j, k) => j < Len(l) + 1
  BY <1>1, ScopeGains DEF l
<1>3. Puts(frame', frame, scope)
  OBVIOUS
<1> HIDE DEF scope
<1>4. /\ o \notin AllOf(frame) /\ (\A q \in AllOf(frame) : q.of # o.id) /\ o.of # o.id
  <2>1. AllOf(frame) \subseteq alive /\ (\A q \in alive : q.id # o.id /\ q # o /\ q.of # o.id) /\ o.of # o.id
    BY SafeParts, NewIs
  <2> QED
    BY <2>1
<1>5. FrameOk(frame')
  <2>1. Len(l) + 1 \in Nat /\ 1 \in Nat
    BY <1>2
  <2> DEFINE b == Len(l) + 1
             d == 1
  <2>2. \A j, k : Spot(scope, j, k) =>
            \/ Spot(Last(frame), j, k) /\ Item(scope, j, k) = Item(Last(frame), j, k)
            \/ j = b /\ k = d /\ Item(scope, j, k) = o
    BY <1>2 DEF l
  <2>3. \A j, k : Spot(Last(frame), j, k) => j < b \/ o.of # Item(Last(frame), j, k).id
    BY <1>2 DEF l
  <2>4. b \in Nat /\ d \in Nat
    BY <2>1
  <2> HIDE DEF b, d
  <2>5. frame \in Seq(Seq(Seq(Objects))) /\ FrameOk(frame) /\ scope \in Seq(Seq(Objects))
    BY <1>2, SafeParts
  <2> QED
    BY <1>3, <1>4, <2>2, <2>3, <2>4, <2>5, FrameInScopeGrow
<1>6. Gains(a, c, Len(frame), {kind}) /\ c.open = {}
  <2>1. c.self = a.self /\ c.depth = a.depth /\ c.raw = a.raw /\ c.open = {} /\ c.at = With(a, {kind})
    BY ShapeIs
  <2>2. a.at \in [Nat -> SUBSET Kinds] /\ a.depth \in Nat
    BY ShapeTypes DEF Fits
  <2> DEFINE K == {kind}
  <2>3. c.at = [a.at EXCEPT ![a.depth] = @ \cup K]
    BY <2>1 DEF With
  <2> HIDE DEF K
  <2>4. c.at[Len(frame)] = a.at[Len(frame)] \cup K /\ \A i \in 1..Len(frame) : i # Len(frame) => c.at[i] = a.at[i]
    <3> DEFINE f == a.at
               n == a.depth
    <3>1. f \in [Nat -> SUBSET Kinds] /\ n \in Nat /\ Len(frame) = n /\ c.at = [f EXCEPT ![n] = @ \cup K]
      BY <1>1, <2>2, <2>3
    <3> HIDE DEF f, n
    <3>2. c.at[n] = f[n] \cup K /\ \A i \in Nat : i # n => c.at[i] = f[i]
      BY <3>1, ExceptAt
    <3>3. \A i \in 1..n : i \in Nat
      BY <3>1
    <3> QED
      BY <3>1, <3>2, <3>3 DEF f
  <2>5. Gains(a, c, Len(frame), K)
    BY <2>1, <2>4 DEF Gains
  <2> QED
    BY <2>1, <2>5 DEF K
<1>7. Alike(scope)
  <2> SUFFICES ASSUME NEW j \in 1..(Len(l) + 1) PROVE SameKind(scope[j])
    BY <1>2 DEF Alike
  <2>1. CASE j \in 1..Len(l)
    <3>1. OneKind(frame)
      BY DEF Fits
    <3> QED
      BY <1>1, <1>2, <2>1, <3>1 DEF OneKind
  <2>2. CASE j = Len(l) + 1
    BY <1>2, <2>2 DEF SameKind
  <2> QED
    BY <1>2, <2>1, <2>2
<1>8. ListAs(c.open, scope)
  BY <1>6 DEF ListAs
<1> DEFINE K == {kind}
<1>9. Covers(K, o, E)
  BY DEF Covers
<1>10. Gains(a, c, Len(frame), K) /\ Novel(o.kind, a) /\ Plus(ScopeObjects(scope), ScopeObjects(Last(frame)), o)
  BY <1>2, <1>6 DEF l, Plus
<1>11. scope \in Seq(Seq(Objects))
  BY <1>2
<1> HIDE DEF K
<1> QED
  BY <1>3, <1>5, <1>7, <1>8, <1>9, <1>10, <1>11, AddKeeps

LEMMA WithGains ==
    ASSUME NEW a \in Shapes, NEW c \in Shapes, NEW n, NEW K, n = a.depth, c.self = a.self, c.depth = a.depth,
           c.raw = a.raw, c.at = With(a, K)
    PROVE  Gains(a, c, n, K)
<1>1. a.at \in [Nat -> SUBSET Kinds] /\ a.depth \in Nat
  BY ShapeTypes
<1>2. c.at = [a.at EXCEPT ![a.depth] = @ \cup K]
  BY DEF With
<1> DEFINE f == a.at
           m == a.depth
<1>3. f \in [Nat -> SUBSET Kinds] /\ m \in Nat /\ c.at = [f EXCEPT ![m] = @ \cup K]
  BY <1>1, <1>2
<1> HIDE DEF f, m
<1>4. c.at[m] = f[m] \cup K /\ \A i \in Nat : i # m => c.at[i] = f[i]
  BY <1>3, ExceptAt
<1>5. \A i \in 1..m : i \in Nat
  BY <1>3
<1> QED
  BY <1>4, <1>5 DEF Gains, f, m

\* The last local gets it.
PutsLast(g, l, o) == g = Append(Front(l), Append(Last(l), o))

LEMMA ScopePushes ==
    ASSUME NEW l \in Seq(Seq(Objects)), NEW o \in Objects, NEW g, l # <<>>, PutsLast(g, l, o)
    PROVE  /\ g \in Seq(Seq(Objects)) /\ g # <<>> /\ DOMAIN g = 1..Len(l) /\ DOMAIN l = 1..Len(l) /\ Len(l) \in Nat \ {0}
           /\ (\A j \in 1..Len(l) : j # Len(l) => g[j] = l[j])
           /\ ToSet(g[Len(l)]) = ToSet(Last(l)) \cup {o} /\ Last(g) = g[Len(l)] /\ Len(Last(l)) \in Nat
           /\ ScopeObjects(g) = ScopeObjects(l) \cup {o}
           /\ \A j, k : Spot(g, j, k) =>
                \/ Spot(l, j, k) /\ Item(g, j, k) = Item(l, j, k)
                \/ j = Len(l) /\ k = Len(Last(l)) + 1 /\ Item(g, j, k) = o
<1> DEFINE W == Seq(Objects)
           f == Front(l)
           w == Last(l)
           v == Append(w, o)
           n == Len(l)
<1>1. l \in Seq(W)
  OBVIOUS
<1>2. w \in W => /\ v \in W /\ ToSet(v) = ToSet(w) \cup {o} /\ DOMAIN v = 1..(Len(w) + 1) /\ Len(w) \in Nat
                 /\ DOMAIN w = 1..Len(w) /\ (\A k \in 1..Len(w) : v[k] = w[k]) /\ v[Len(w) + 1] = o
  <2> SUFFICES ASSUME w \in Seq(Objects) PROVE /\ v \in Seq(Objects) /\ ToSet(v) = ToSet(w) \cup {o} /\ DOMAIN v = 1..(Len(w) + 1) /\ Len(w) \in Nat
                 /\ DOMAIN w = 1..Len(w) /\ (\A k \in 1..Len(w) : v[k] = w[k]) /\ v[Len(w) + 1] = o
    OBVIOUS
  <2> HIDE DEF w
  <2>1. ToSet(v) = ToSet(w) \cup {o}
    BY OwnerObjects
  <2>2. v \in Seq(Objects) /\ Len(v) = Len(w) + 1 /\ (\A k \in 1..Len(w) : v[k] = w[k]) /\ v[Len(w) + 1] = o
    BY AppendProperties
  <2> HIDE DEF v
  <2> QED
    BY <2>1, <2>2, LenProperties
<1> HIDE DEF W
<1>3. /\ f \in Seq(W) /\ w \in W /\ n \in Nat \ {0} /\ Len(f) = n - 1 /\ w = l[n] /\ DOMAIN l = 1..n
      /\ \A j \in 1..n - 1 : f[j] = l[j]
  BY <1>1, FrontLast, LenProperties
<1>4. v \in W
  BY <1>2, <1>3
<1> HIDE DEF f, v, n
<1> DEFINE h == Append(f, v)
<1>5. h \in Seq(W) /\ Len(h) = Len(f) + 1 /\ (\A j \in 1..Len(f) : h[j] = f[j]) /\ h[Len(f) + 1] = v
  BY <1>3, <1>4, AppendProperties
<1> HIDE DEF h
<1>6. DOMAIN h = 1..n /\ h[n] = v /\ h # <<>> /\ Last(h) = h[n] /\ Len(h) = n
  BY <1>3, <1>5, LenProperties, EmptySeq DEF Last
<1>7. \A j \in 1..n : j # n => j \in 1..n - 1
  BY <1>3
<1>8. \A j \in 1..n : j # n => h[j] = l[j]
  BY <1>3, <1>5, <1>7
<1>9. ScopeObjects(h) = ScopeObjects(l) \cup {o}
  <2>1. ScopeObjects(Append(f, v)) = ScopeObjects(f) \cup ToSet(v)
    BY <1>3, <1>4, ScopeObjectsAre DEF W
  <2>2. ScopeObjects(l) = ScopeObjects(f) \cup ToSet(w)
    BY <1>3, ScopeObjectsAre DEF f, W
  <2> HIDE DEF w
  <2> QED
    BY <1>2, <1>3, <2>1, <2>2 DEF h
<1>10. ASSUME NEW j, NEW k, Spot(h, j, k)
       PROVE  \/ Spot(l, j, k) /\ Item(h, j, k) = Item(l, j, k)
              \/ j = n /\ k = Len(w) + 1 /\ Item(h, j, k) = o
  <2>1. j \in 1..n /\ k \in DOMAIN h[j]
    BY <1>6, <1>10 DEF Spot
  <2>2. CASE j # n
    BY <1>3, <1>8, <2>1, <2>2 DEF Spot, Item
  <2>3. CASE j = n
    <3> HIDE DEF w
    <3>1. k \in 1..(Len(w) + 1) /\ Len(w) \in Nat
      BY <1>2, <1>3, <1>6, <2>1, <2>3
    <3>2. CASE k \in 1..Len(w)
      BY <1>2, <1>3, <1>6, <2>1, <2>3, <3>2 DEF Spot, Item
    <3>3. CASE k = Len(w) + 1
      BY <1>2, <1>3, <1>6, <2>1, <2>3, <3>3 DEF Item
    <3> QED
      BY <3>1, <3>2, <3>3
  <2> QED
    BY <2>2, <2>3
<1>11. g = h
  BY DEF h, f, v, PutsLast
<1>12. ToSet(h[n]) = ToSet(w) \cup {o} /\ Len(w) \in Nat
  BY <1>2, <1>3, <1>6
<1> HIDE DEF w
<1>13. g \in Seq(Seq(Objects))
  BY <1>5, <1>11 DEF W
<1> QED
  BY <1>3, <1>6, <1>8, <1>9, <1>10, <1>11, <1>12, <1>13 DEF n, w

LEMMA PushKeeps ==
    ASSUME NEW a, NEW c \in Shapes, NEW o, NEW E, NEW kind, Inductive, todo # <<>>, Ends(Tail(todo), c),
           Fits(a, Len(frame), alive, frame, loose, self), frame # <<>>,
           Puts(frame', frame, Append(Front(Last(frame)), Append(Last(Last(frame)), o))),
           IsNew(o, E, alive), Made(alive', alive, o, E), o.of = 0,
           handles' = handles, loose' = loose, self' = self, todo' = Tail(todo),
           kind \in a.open, c = Put(a, {kind}), o.kind = kind, Novel(kind, a)
    PROVE  Inductive'
<1> DEFINE l == Last(frame)
           scope == Append(Front(l), Append(Last(l), o))
<1>1. l \in Seq(Seq(Objects)) /\ o \in Objects /\ Len(frame) = a.depth /\ l = frame[Len(frame)] /\ Len(frame) \in DOMAIN frame
  BY SafeParts, LastPlaces DEF IsNew, Fits
<1>2. l # <<>> /\ \A q \in ToSet(Last(l)) : q.kind \in a.open
  BY DEF Fits, ListAs
<1>3. Puts(frame', frame, scope)
  OBVIOUS
<1> HIDE DEF l
<1>20. PutsLast(scope, l, o)
  BY DEF PutsLast
<1> HIDE DEF scope
<1>4. scope \in Seq(Seq(Objects)) /\ scope # <<>>
  BY <1>1, <1>2, <1>20, ScopePushes
<1>21. DOMAIN scope = 1..Len(l) /\ DOMAIN l = 1..Len(l) /\ Len(l) \in Nat \ {0} /\ Len(Last(l)) \in Nat
  BY <1>1, <1>2, <1>20, ScopePushes
<1>22. \A j \in 1..Len(l) : j # Len(l) => scope[j] = l[j]
  BY <1>1, <1>2, <1>20, ScopePushes
<1>23. ToSet(scope[Len(l)]) = ToSet(Last(l)) \cup {o} /\ Last(scope) = scope[Len(l)]
  BY <1>1, <1>2, <1>20, ScopePushes
<1>24. ScopeObjects(scope) = ScopeObjects(l) \cup {o}
  BY <1>1, <1>2, <1>20, ScopePushes
<1>25. \A j, k : Spot(scope, j, k) =>
            \/ Spot(l, j, k) /\ Item(scope, j, k) = Item(l, j, k)
            \/ j = Len(l) /\ k = Len(Last(l)) + 1 /\ Item(scope, j, k) = o
  BY <1>1, <1>2, <1>20, ScopePushes
<1>5. Lent(o, alive, AllOf(frame), loose, self)
  BY DEF Lent
<1>6. /\ o \notin AllOf(frame) /\ (\A q \in AllOf(frame) : q.of # o.id) /\ o.of # o.id
  <2>1. AllOf(frame) \subseteq alive /\ (\A q \in alive : q.id # o.id /\ q # o /\ q.of # o.id) /\ o.of # o.id
    BY <1>5, SafeParts, NewIs
  <2> QED
    BY <2>1
<1>7. FrameOk(frame')
  <2> DEFINE b == Len(l)
             d == Len(Last(l)) + 1
  <2>1. \A j, k : Spot(scope, j, k) =>
            \/ Spot(Last(frame), j, k) /\ Item(scope, j, k) = Item(Last(frame), j, k)
            \/ j = b /\ k = d /\ Item(scope, j, k) = o
    BY <1>25 DEF l
  <2>2. ASSUME NEW j, NEW k, Spot(Last(frame), j, k) PROVE o.of # Item(Last(frame), j, k).id
    <3>1. Item(l, j, k) \in ScopeObjects(l)
      BY <2>2, InScopeSpot DEF l
    <3>2. ScopeObjects(l) \subseteq Objects
      BY <1>1, ScopeObjectsAre, EmptySeq
    <3>3. Item(l, j, k).id # 0
      BY <3>1, <3>2 DEF Objects
    <3> QED
      BY <3>3 DEF l
  <2>3. b \in Nat /\ d \in Nat
    BY <1>21
  <2> HIDE DEF b, d
  <2>4. frame \in Seq(Seq(Seq(Objects))) /\ FrameOk(frame) /\ scope \in Seq(Seq(Objects))
    BY <1>4, SafeParts
  <2>5. \A j, k : Spot(Last(frame), j, k) => j < b \/ o.of # Item(Last(frame), j, k).id
    BY <2>2
  <2> QED
    BY <1>3, <1>6, <2>1, <2>3, <2>4, <2>5, FrameInScopeGrow
<1> DEFINE K == {kind}
<1>8. Gains(a, c, Len(frame), K) /\ c.open = a.open
  <2>1. c.self = a.self /\ c.depth = a.depth /\ c.raw = a.raw /\ c.open = a.open /\ c.at = With(a, K)
    BY DEF Put, Shape
  <2>2. a \in Shapes
    BY DEF Fits
  <2> HIDE DEF K
  <2> QED
    BY <1>1, <2>1, <2>2, WithGains
<1>9. \A q \in ToSet(Last(scope)) : q.kind \in a.open
  BY <1>2, <1>23
<1>10. Alike(scope)
  <2> SUFFICES ASSUME NEW j \in 1..Len(l) PROVE SameKind(scope[j])
    BY <1>21 DEF Alike
  <2>1. CASE j # Len(l)
    <3>1. OneKind(frame)
      BY DEF Fits
    <3> QED
      BY <1>1, <1>21, <1>22, <2>1, <3>1 DEF OneKind
  <2>2. CASE j = Len(l)
    <3>1. a.open \subseteq {"input data"}
      BY ShapeTypes DEF Fits
    <3> QED
      BY <1>9, <1>23, <2>2, <3>1 DEF SameKind
  <2> QED
    BY <2>1, <2>2
<1>11. ListAs(c.open, scope)
  BY <1>4, <1>8, <1>9 DEF ListAs
<1>12. Covers(K, o, E) /\ Plus(ScopeObjects(scope), ScopeObjects(Last(frame)), o) /\ Novel(o.kind, a)
  BY <1>24 DEF Covers, Plus, l
<1>13. scope \in Seq(Seq(Objects))
  BY <1>4
<1> HIDE DEF K
<1> QED
  BY <1>3, <1>5, <1>7, <1>8, <1>10, <1>11, <1>12, <1>13, AddKeeps

\* A temporary comes first in its scope.
PutsFirst(g, l, o) == g = <<<<o>>>> \o l

\* All there is moves on by a place.
Follows(g, l, o) == Shifts(g, l, 1, 0, 0, o)

LEMMA ScopeTemps ==
    ASSUME NEW l \in Seq(Seq(Objects)), NEW o \in Objects, NEW g, PutsFirst(g, l, o)
    PROVE  /\ g \in Seq(Seq(Objects)) /\ Len(l) \in Nat /\ DOMAIN l = 1..Len(l) /\ DOMAIN g = 1..(Len(l) + 1)
           /\ \A j \in 1..(Len(l) + 1) : j # 1 => j - 1 \in 1..Len(l) /\ g[j] = l[j - 1]
           /\ SameKind(g[1])
           /\ Plus(ScopeObjects(g), ScopeObjects(l), o)
           /\ l # <<>> => g # <<>> /\ Last(g) = Last(l)
           /\ Follows(g, l, o)
<1> DEFINE W == Seq(Objects)
           w == <<o>>
           v == <<w>>
           h == v \o l
<1>1. w \in W /\ ToSet(w) = {o} /\ DOMAIN w = 1..1 /\ w[1] = o
  BY DEF ToSet
<1>2. ScopeObjects(<<w>> \o l) = ToSet(w) \cup ScopeObjects(l)
  BY <1>1, ScopeObjectsAre
<1>3. g = h
  BY DEF PutsFirst
<1> HIDE DEF W, w
<1>4. v \in Seq(W) /\ l \in Seq(W) /\ Len(v) = 1 /\ v[1] = w
  BY <1>1 DEF W
<1>5. h \in Seq(W) /\ Len(h) = Len(l) + 1 /\ h[1] = w /\ (\A j \in 1..(Len(l) + 1) : j # 1 => h[j] = l[j - 1])
      /\ Len(l) \in Nat
  <2> HIDE DEF v
  <2>1. h \in Seq(W) /\ Len(h) = Len(v) + Len(l) /\ Len(l) \in Nat
        /\ \A j \in 1..(Len(v) + Len(l)) : h[j] = IF j <= Len(v) THEN v[j] ELSE l[j - Len(v)]
    BY <1>4, ConcatProperties, LenProperties
  <2> HIDE DEF h
  <2>2. 1 \in 1..(1 + Len(l)) /\ Len(l) + 1 = 1 + Len(l)
    BY <2>1
  <2>3. ASSUME NEW j \in 1..(Len(l) + 1), j # 1 PROVE h[j] = l[j - 1]
    BY <1>4, <2>1, <2>2, <2>3
  <2> QED
    BY <1>4, <2>1, <2>2, <2>3
<1>6. ScopeObjects(h) = ScopeObjects(l) \cup {o}
  BY <1>1, <1>2
<1> HIDE DEF h, v
<1>7. DOMAIN h = 1..(Len(l) + 1) /\ DOMAIN l = 1..Len(l)
  BY <1>4, <1>5, LenProperties
<1>8. \A j \in 1..(Len(l) + 1) : j # 1 => j - 1 \in 1..Len(l)
  BY <1>5
<1>9. l # <<>> => h # <<>> /\ Last(h) = Last(l)
  <2> SUFFICES ASSUME l # <<>> PROVE h # <<>> /\ Last(h) = Last(l)
    OBVIOUS
  <2>1. Len(l) # 0
    BY <1>4, EmptySeq
  <2>2. Len(l) + 1 \in 1..(Len(l) + 1) /\ Len(l) + 1 # 1 /\ (Len(l) + 1) - 1 = Len(l)
    BY <1>5, <2>1
  <2>3. h[Len(l) + 1] = l[Len(l)]
    BY <1>5, <2>2
  <2>4. h # <<>>
    BY <1>7, <2>2
  <2> QED
    BY <1>5, <2>3, <2>4 DEF Last
<1>10. Shifts(h, l, 1, 0, 0, o)
  <2> SUFFICES ASSUME NEW j, NEW k, Spot(h, j, k)
               PROVE  \/ /\ j \in Nat /\ k \in Nat
                         /\ Spot(l, j - 1, IF j = 0 THEN k + 0 ELSE k)
                         /\ Item(h, j, k) = Item(l, j - 1, IF j = 0 THEN k + 0 ELSE k)
                      \/ j = 1 /\ k = 1 /\ Item(h, j, k) = o
    BY DEF Shifts
  <2>1. j \in 1..(Len(l) + 1) /\ k \in DOMAIN h[j]
    BY <1>7 DEF Spot
  <2>2. CASE j = 1
    BY <1>1, <1>5, <2>1, <2>2 DEF Item
  <2>3. CASE j # 1
    <3>1. j - 1 \in 1..Len(l) /\ h[j] = l[j - 1] /\ j \in Nat /\ j # 0
      BY <1>5, <1>8, <2>1, <2>3
    <3>2. l[j - 1] \in Seq(Objects)
      BY <1>4, <1>7, <3>1, ElementOfSeq DEF W
    <3>3. k \in 1..Len(l[j - 1]) /\ Len(l[j - 1]) \in Nat
      BY <2>1, <3>1, <3>2, LenProperties
    <3>4. k \in Nat
      BY <3>3
    <3>5. Spot(l, j - 1, k) /\ Item(h, j, k) = Item(l, j - 1, k)
      BY <1>7, <2>1, <3>1 DEF Spot, Item
    <3> QED
      BY <3>1, <3>4, <3>5
  <2> QED
    BY <2>2, <2>3
<1>11. SameKind(h[1])
  BY <1>1, <1>5 DEF SameKind
<1> QED
  BY <1>1, <1>3, <1>5, <1>6, <1>7, <1>8, <1>9, <1>10, <1>11 DEF W, Plus, Follows

LEMMA TempKeeps ==
    ASSUME NEW a, NEW c \in Shapes, NEW o, NEW E, NEW K, Inductive, todo # <<>>, Ends(Tail(todo), c),
           Fits(a, Len(frame), alive, frame, loose, self), frame # <<>>,
           Puts(frame', frame, <<<<o>>>> \o Last(frame)),
           IsNew(o, E, alive), Made(alive', alive, o, E), o.of = 0,
           handles' = handles, loose' = loose, self' = self, todo' = Tail(todo),
           c = Put(a, K), Covers(K, o, E), Novel(o.kind, a)
    PROVE  Inductive'
<1> DEFINE l == Last(frame)
           scope == <<<<o>>>> \o l
<1>1. l \in Seq(Seq(Objects)) /\ o \in Objects /\ Len(frame) = a.depth /\ l = frame[Len(frame)] /\ Len(frame) \in DOMAIN frame
  BY SafeParts, LastPlaces DEF IsNew, Fits
<1>2. Puts(frame', frame, scope) /\ PutsFirst(scope, l, o)
  BY DEF PutsFirst
<1> HIDE DEF l, scope
<1>0. l \in Seq(Seq(Objects)) /\ o \in Objects /\ PutsFirst(scope, l, o)
  BY <1>1, <1>2
<1>3. scope \in Seq(Seq(Objects)) /\ Len(l) \in Nat /\ DOMAIN l = 1..Len(l) /\ DOMAIN scope = 1..(Len(l) + 1)
  BY <1>0, ScopeTemps
<1>4. \A j \in 1..(Len(l) + 1) : j # 1 => j - 1 \in 1..Len(l) /\ scope[j] = l[j - 1]
  BY <1>0, ScopeTemps
<1>5. SameKind(scope[1]) /\ Plus(ScopeObjects(scope), ScopeObjects(l), o)
  BY <1>0, ScopeTemps
<1>6. (l # <<>> => scope # <<>> /\ Last(scope) = Last(l)) /\ Follows(scope, l, o)
  BY <1>0, ScopeTemps
<1>7. Lent(o, alive, AllOf(frame), loose, self)
  BY DEF Lent
<1>8. /\ o \notin AllOf(frame) /\ (\A q \in AllOf(frame) : q.of # o.id /\ q.id # o.of) /\ o.of # o.id
  <2>1. AllOf(frame) \subseteq alive /\ (\A q \in alive : q.id # o.id /\ q # o /\ q.of # o.id) /\ o.of # o.id
    BY <1>7, SafeParts, NewIs
  <2>2. \A q \in alive : q.id # 0
    BY SafeParts DEF Objects
  <2> QED
    BY <2>1, <2>2
<1>9. FrameOk(frame')
  <2> DEFINE p == 1
             q == 0
  <2>1. p \in {0, 1} /\ q \in {0, 1} /\ q \in Nat /\ Shifts(scope, Last(frame), p, q, q, o)
    BY <1>6 DEF l, Follows
  <2> HIDE DEF p, q
  <2>2. frame \in Seq(Seq(Seq(Objects))) /\ FrameOk(frame)
    BY SafeParts
  <2>3. Puts(frame', frame, scope) /\ scope \in Seq(Seq(Objects))
    BY <1>2, <1>3
  <2> QED
    BY <1>8, <2>1, <2>2, <2>3, FrameInScopeShift
<1>10. Gains(a, c, Len(frame), K) /\ c.open = a.open
  <2>1. c.self = a.self /\ c.depth = a.depth /\ c.raw = a.raw /\ c.open = a.open /\ c.at = With(a, K)
    BY DEF Put, Shape
  <2>2. a \in Shapes
    BY DEF Fits
  <2> QED
    BY <1>1, <2>1, <2>2, WithGains
<1>11. Alike(scope)
  <2> SUFFICES ASSUME NEW j \in 1..(Len(l) + 1) PROVE SameKind(scope[j])
    BY <1>3 DEF Alike
  <2>1. CASE j # 1
    <3>1. OneKind(frame)
      BY DEF Fits
    <3> QED
      BY <1>1, <1>3, <1>4, <2>1, <3>1 DEF OneKind
  <2>2. CASE j = 1
    BY <1>5, <2>2
  <2> QED
    BY <2>1, <2>2
<1>12. ListAs(c.open, scope)
  <2>1. ListAs(a.open, l)
    BY DEF Fits, l
  <2> QED
    BY <1>6, <1>10, <2>1 DEF ListAs
<1>13. Plus(ScopeObjects(scope), ScopeObjects(Last(frame)), o)
  BY <1>5 DEF l
<1> QED
  BY <1>2, <1>3, <1>7, <1>9, <1>10, <1>11, <1>12, <1>13, AddKeeps

\* The scopes of the call are those of the model.
LEMMA FrameIs ==
    AllOf(frame) = FrameObjects /\ HandleSet(handles) = HandleObjects
BY DEF AllOf, FrameObjects, HandleSet, HandleObjects

LEMMA SelfAlive ==
    ASSUME Inductive, self.kind # "none"
    PROVE  self \in alive /\ self \in HandleSet(handles)
<1>1. self # NoObject
  BY DEF NoObject
<1>2. self \in HandleSet(handles) /\ HandleSet(handles) \subseteq alive
  BY <1>1, SafeParts DEF Owned
<1> QED
  BY <1>2

\* What the text names is there, and can be named.
LEMMA NamedReach ==
    ASSUME Inductive, NEW a, Fits(a, Len(frame), alive, frame, loose, self), NEW k \in Named(a), k # "none"
    PROVE  \E o \in InReach \cap alive : o.kind = k
<1>1. AllOf(frame) \subseteq alive /\ loose \subseteq alive
  BY SafeParts DEF Owned
<1>2. AllOf(frame) \subseteq InReach /\ loose \subseteq InReach /\ self \in InReach
  BY FrameIs DEF InReach
<1>3. Len(frame) = a.depth /\ self.kind = a.self /\ Has(a, Len(frame), alive, frame) /\ LooseAs(a, loose)
  BY DEF Fits
<1>4. k = a.self \/ k \in a.raw \/ \E i \in 1..a.depth : k \in a.at[i]
  BY DEF Named
<1>5. CASE k = a.self
  <2>1. self \in alive
    BY <1>3, <1>5, SelfAlive
  <2> QED
    BY <1>2, <1>3, <1>5, <2>1
<1>6. CASE k \in a.raw
  <2>1. PICK o \in loose : o.kind = k
    BY <1>3, <1>6 DEF LooseAs
  <2> QED
    BY <1>1, <1>2, <2>1
<1>7. CASE \E i \in 1..a.depth : k \in a.at[i]
  <2>1. PICK i \in 1..Len(frame) : k \in a.at[i]
    BY <1>3, <1>7
  <2>2. Reached(alive, frame[i], k)
    BY <1>3, <2>1 DEF Has
  <2>3. i \in DOMAIN frame
    BY <2>1, SafeParts, LenProperties
  <2>4. ScopeObjects(frame[i]) \subseteq AllOf(frame)
    BY <2>3 DEF AllOf
  <2>5. PICK o \in alive : o.kind = k /\ (o \in ScopeObjects(frame[i])
                              \/ (Element(o) /\ \E p \in ScopeObjects(frame[i]) : p.id = o.of))
    BY <2>2 DEF Reached
  <2>6. CASE o \in ScopeObjects(frame[i])
    BY <1>2, <2>4, <2>5, <2>6
  <2>7. CASE Element(o) /\ \E p \in ScopeObjects(frame[i]) : p.id = o.of
    <3>1. o.of \in Ids(FrameObjects)
      BY <2>4, <2>7, FrameIs DEF Ids
    <3>2. o \in InReach
      BY <2>5, <2>7, <3>1 DEF InReach
    <3> QED
      BY <2>5, <3>2
  <2> QED
    BY <2>5, <2>6, <2>7
<1> QED
  BY <1>4, <1>5, <1>6, <1>7

\* A raw pointer is left of nothing when an object is made.
LEMMA NoneLoose ==
    ASSUME NEW a, NEW n, NEW A, NEW fr, NEW L, NEW s, Fits(a, n, A, fr, L, s), a.raw = {}
    PROVE  L = {}
BY DEF Fits, LooseAs

\* An engine the code can name.
LEMMA ParentIs ==
    ASSUME Inductive, NEW a, Fits(a, Len(frame), alive, frame, loose, self), "engine" \in Named(a), a.raw = {},
           NEW p, p = CHOOSE q \in InReach : q.kind = "engine"
    PROVE  p \in alive /\ p \in AllOf(frame) \cup {self} /\ p \notin loose /\ p.kind = "engine"
<1>1. \E q \in InReach : q.kind = "engine"
  <2> DEFINE k == "engine"
  <2>1. k \in Named(a) /\ k # "none"
    OBVIOUS
  <2> HIDE DEF k
  <2>2. \E q \in InReach \cap alive : q.kind = k
    BY <2>1, NamedReach
  <2> QED
    BY <2>2 DEF k
<1>2. p \in InReach /\ p.kind = "engine"
  BY <1>1
<1>3. loose = {}
  BY NoneLoose
<1>4. ~Element(p)
  BY <1>2 DEF Element
<1>5. p \in AllOf(frame) \cup {self}
  BY <1>2, <1>3, <1>4, FrameIs DEF InReach
<1>6. p \in alive
  <2>1. AllOf(frame) \subseteq alive
    BY SafeParts DEF Owned
  <2>2. CASE p = self
    BY <1>2, <2>2, SelfAlive
  <2> QED
    BY <1>5, <2>1, <2>2
<1> QED
  BY <1>2, <1>3, <1>5, <1>6

LEMMA RawKeeps ==
    ASSUME NEW a, NEW c \in Shapes, NEW o, NEW E, NEW R, Inductive, todo # <<>>, Ends(Tail(todo), c),
           Fits(a, Len(frame), alive, frame, loose, self), frame # <<>>,
           IsNew(o, E, alive), E = {}, Made(alive', alive, o, E), o.of = 0, a.raw = {},
           frame' = frame, handles' = handles, Plus(loose', loose, o), self' = self, todo' = Tail(todo),
           o.kind \in R, \A k \in R : k = o.kind, c = Shape(a.self, a.depth, a.at, R, a.open)
    PROVE  Inductive'
<1>1. Lent(o, alive, AllOf(frame), loose, self)
  BY DEF Lent
<1>2. (\A q \in alive : q.id # o.id) /\ o \in Objects /\ ~Element(o)
  BY DEF IsNew, Ids
<1>3. loose = {} /\ alive' = alive \cup {o} /\ loose' = loose \cup {o}
  BY NoneLoose DEF Made, Plus
<1>4. Owned(alive', HandleSet(handles), AllOf(frame), loose')
  BY <1>2, <1>3, SafeParts, OwnedMakeRaw
<1>5. alive' \in SUBSET Objects /\ IsFiniteSet(alive') /\ loose' \in SUBSET Objects
  BY <1>2, <1>3, SafeParts, OneMore
<1>6. Safe(alive', handles', frame', loose', self')
  BY <1>4, <1>5, SafeParts DEF Safe
<1>7. c.self = a.self /\ c.depth = a.depth /\ c.at = a.at /\ c.raw = R /\ c.open = a.open
  BY ShapeIs
<1>8. LooseAs(c, loose')
  BY <1>3, <1>7 DEF LooseAs
<1>9. Has(c, Len(frame), alive', frame)
  <2>1. Has(a, Len(frame), alive, frame) /\ alive \subseteq alive'
    BY <1>3 DEF Fits
  <2>2. ASSUME NEW scope, NEW k, Reached(alive, scope, k) PROVE Reached(alive', scope, k)
    BY <2>1, <2>2 DEF Reached
  <2> QED
    BY <1>7, <2>1, <2>2 DEF Has
<1>10. Fits(c, Len(frame), alive', frame, loose', self)
  <2>1. Known(c, frame)
    BY <1>7 DEF Fits, Known
  <2> QED
    BY <1>7, <1>8, <1>9, <2>1 DEF Fits
<1>11. Fits(c, Len(frame'), alive', frame', loose', self')
  BY <1>10
<1> QED
  BY <1>6, <1>11, Onward

\* What a constructor returns.
NewParent == IF Head(todo).of = "none" THEN 0 ELSE (CHOOSE p \in InReach : p.kind = Head(todo).of).id

NewObject == [kind |-> Head(todo).kind, id |-> Fresh, of |-> NewParent]

NewFree == (1..(Cardinality(alive) + Head(todo).count + 1)) \ (Ids(alive) \cup {NewObject.id})

NewIds == CHOOSE f \in [1..Head(todo).count -> NewFree] : IsInjective(f)

NewElements ==
    [i \in 1..Head(todo).count |-> [kind |-> "embedding response", id |-> NewIds[i], of |-> NewObject.id]]

LEMMA MakeObjectIs ==
    ASSUME MakeObject
    PROVE  /\ Made(alive', alive, NewObject, ToSet(NewElements))
           /\ Head(todo).do = "own" => Puts(frame', frame, Append(Last(frame), <<NewObject>>)) /\ loose' = loose
           /\ Head(todo).do = "temp" => Puts(frame', frame, <<<<NewObject>>>> \o Last(frame)) /\ loose' = loose
           /\ Head(todo).do = "push" =>
                Puts(frame', frame, Append(Front(Last(frame)), Append(Last(Last(frame)), NewObject))) /\ loose' = loose
           /\ Head(todo).do = "raw" => frame' = frame /\ Plus(loose', loose, NewObject)
           /\ handles' = handles /\ self' = self /\ todo' = Tail(todo)
           /\ todo # <<>> /\ (Head(todo).do = "own" \/ Head(todo).do = "temp" \/ Head(todo).do = "push" \/ Head(todo).do = "raw")
<1>1. /\ alive' = alive \cup {NewObject} \cup ToSet(NewElements)
      /\ CASE Head(todo).do = "own" -> InScope(Append(Scope, <<NewObject>>)) /\ UNCHANGED loose
           [] Head(todo).do = "temp" -> InScope(ElementOwners(NewObject, NewElements) \o Scope) /\ UNCHANGED loose
           [] Head(todo).do = "push" -> InScope(Append(Front(Scope), Append(Last(Scope), NewObject)))
                                        /\ UNCHANGED loose
           [] Head(todo).do = "raw" -> loose' = loose \cup {NewObject} /\ UNCHANGED frame
  BY Zenon DEF MakeObject, NewObject, NewElements, NewIds, NewFree, NewParent
<1>2. /\ handles' = handles /\ self' = self /\ todo' = Tail(todo) /\ todo # <<>>
      /\ (Head(todo).do = "own" \/ Head(todo).do = "temp" \/ Head(todo).do = "push" \/ Head(todo).do = "raw")
  BY DEF MakeObject, At, Advance
<1> DEFINE O == NewObject
           E == NewElements
<1> HIDE DEF O, E
<1>3. Made(alive', alive, O, ToSet(E))
  BY <1>1 DEF Made, O, E
<1>4. Head(todo).do = "own" => Puts(frame', frame, Append(Last(frame), <<O>>)) /\ loose' = loose
  BY <1>1 DEF O, InScope, Puts, Scope
<1>5. Head(todo).do = "temp" => Puts(frame', frame, <<<<O>>>> \o Last(frame)) /\ loose' = loose
  BY <1>1 DEF O, InScope, Puts, Scope, ElementOwners
<1>6. Head(todo).do = "push" =>
                Puts(frame', frame, Append(Front(Last(frame)), Append(Last(Last(frame)), O))) /\ loose' = loose
  BY <1>1 DEF O, InScope, Puts, Scope
<1>7. Head(todo).do = "raw" => frame' = frame /\ Plus(loose', loose, O)
  BY <1>1 DEF O, Plus
<1> QED
  BY <1>2, <1>3, <1>4, <1>5, <1>6, <1>7 DEF O, E

\* What the text says of the step that makes it.
LEMMA MakeStep ==
    ASSUME NEW s, NEW a \in Shapes, NEW c, Does(s, a, c), s.do = "own" \/ s.do = "temp" \/ s.do = "push" \/ s.do = "raw"
    PROVE  /\ s.kind \in Kinds /\ s.count \in Nat /\ a.raw = {} /\ a.depth > 0
           /\ s.of # "none" => s.of = "engine" /\ s.kind \in Children /\ "engine" \in Named(a)
           /\ s.count # 0 => s.do = "temp" /\ s.kind = "embedding responses"
           /\ Novel(s.kind, a)
<1>1. s \in Steps /\ s.kind # "none" /\ a.raw = {} /\ a.depth > 0
  BY DEF Does
<1>2. s.kind \in Kinds /\ s.count \in Nat
  BY <1>1 DEF Steps
<1>3. s.of # "none" => s.of = "engine" /\ s.kind \in Children /\ "engine" \in Named(a)
  BY DEF Does
<1>4. s.count # 0 => s.do = "temp" /\ s.kind = "embedding responses"
  BY DEF Does
<1>5. Novel(s.kind, a)
  <2>1. CASE s.do = "own"
    <3>1. (s.kind = "engine" => Named(a) \cap Vital = {}) /\ (s.kind \in Children => s.kind \notin Named(a))
      BY <2>1, DoesOwn
    <3> QED
      BY <3>1 DEF Novel, Vital
  <2>2. CASE s.do = "temp"
    <3>1. s.kind \notin Vital
      BY <2>2, DoesTemp
    <3> QED
      BY <3>1 DEF Novel, Vital
  <2>3. CASE s.do = "push"
    <3>1. s.kind \in a.open
      BY <2>3, DoesPush
    <3>2. s.kind = "input data"
      BY <3>1, ShapeTypes
    <3> QED
      BY <3>2 DEF Novel, Vital, Children
  <2>4. CASE s.do = "raw"
    <3>1. s.kind = "sampler params"
      BY <2>4, DoesRaw
    <3> QED
      BY <3>1 DEF Novel, Vital, Children
  <2> QED
    BY <2>1, <2>2, <2>3, <2>4
<1> QED
  BY <1>1, <1>2, <1>3, <1>4, <1>5

LEMMA NewObjectIs ==
    ASSUME Inductive, NEW a \in Shapes, NEW c, Does(Head(todo), a, c), Fits(a, Len(frame), alive, frame, loose, self),
           \/ Head(todo).do = "own" \/ Head(todo).do = "temp" \/ Head(todo).do = "push" \/ Head(todo).do = "raw"
    PROVE  /\ IsNew(NewObject, ToSet(NewElements), alive) /\ Lent(NewObject, alive, AllOf(frame), loose, self)
           /\ NewObject.kind = Head(todo).kind
           /\ Head(todo).of = "none" => NewObject.of = 0
           /\ Head(todo).count = 0 => ToSet(NewElements) = {}
           /\ Head(todo).count # 0 => ToSet(NewElements) # {}
           /\ \A e \in ToSet(NewElements) : e.kind = "embedding response"
<1> DEFINE s == Head(todo)
           o == NewObject
           E == ToSet(NewElements)
<1> HIDE DEF s, E
<1>1. Does(s, a, c) /\ (s.do = "own" \/ s.do = "temp" \/ s.do = "push" \/ s.do = "raw")
  BY DEF s
<1>2. /\ s.kind \in Kinds /\ s.count \in Nat /\ a.raw = {}
      /\ s.of # "none" => s.of = "engine" /\ s.kind \in Children /\ "engine" \in Named(a)
      /\ s.count # 0 => s.do = "temp" /\ s.kind = "embedding responses"
  BY <1>1, MakeStep
<1>3. Fresh \in Nat \ {0} /\ Fresh \notin Ids(alive)
  BY SafeParts, FreshIs
<1>4. s.of # "none" => \E p \in alive : p \notin loose /\ p \in AllOf(frame) \cup {self} /\ p.id = NewParent /\ p.kind = "engine"
  <2> SUFFICES ASSUME s.of # "none"
               PROVE  \E p \in alive : p \notin loose /\ p \in AllOf(frame) \cup {self} /\ p.id = NewParent /\ p.kind = "engine"
    OBVIOUS
  <2> DEFINE p == CHOOSE q \in InReach : q.kind = "engine"
  <2>1. s.of = "engine" /\ "engine" \in Named(a)
    BY <1>2
  <2>2. NewParent = p.id
    BY <2>1 DEF NewParent, s
  <2>3. p \in alive /\ p \in AllOf(frame) \cup {self} /\ p \notin loose /\ p.kind = "engine"
    BY <1>2, <2>1, ParentIs
  <2> QED
    BY <2>2, <2>3
<1>5. s.of = "none" => NewParent = 0
  BY DEF NewParent, s
<1>6. NewParent \in Nat
  <2>1. \A p \in alive : p.id \in Nat
    BY SafeParts DEF Objects
  <2> QED
    BY <1>4, <1>5, <2>1
<1>7. o.kind = s.kind /\ o.id = Fresh /\ o.of = NewParent /\ o = [kind |-> s.kind, id |-> Fresh, of |-> NewParent]
  BY DEF NewObject, s
<1>8. o \in Objects
  BY <1>2, <1>3, <1>6, <1>7 DEF Objects
<1> HIDE DEF o
<1>9. ~Element(o)
  <2>1. o.of # 0 => s.kind \in Children
    BY <1>2, <1>5, <1>7
  <2> QED
    BY <1>7, <2>1 DEF Element, Children
<1>10. Lent(o, alive, AllOf(frame), loose, self)
  <2>1. o.of # 0 => s.of # "none"
    BY <1>5, <1>7
  <2> QED
    BY <1>2, <1>4, <1>7, <2>1 DEF Lent
<1>11. /\ E \subseteq Objects /\ IsFiniteSet(E) /\ Unique(E)
       /\ \A e \in E : Element(e) /\ e.of = o.id /\ e.id # o.id /\ e.id \notin Ids(alive) /\ e.kind = "embedding response"
       /\ s.count = 0 => E = {}
       /\ s.count # 0 => E # {}
  <2>1. AreFree(NewFree, alive, o, s.count) /\ AreElements(NewElements, NewIds, o, s.count)
    BY DEF AreFree, AreElements, NewFree, NewElements, s, o
  <2> DEFINE free == NewFree
             ids == NewIds
             k == s.count
             elements == NewElements
  <2>2. Takes(ids, free, k)
    BY DEF NewIds, s, Takes
  <2>3. AreFree(free, alive, o, k) /\ AreElements(elements, ids, o, k) /\ k \in Nat /\ o.id \notin Ids(alive)
    BY <1>2, <1>3, <1>7, <2>1
  <2> HIDE DEF free, ids, k, elements
  <2>4. alive \in SUBSET Objects /\ IsFiniteSet(alive)
    BY SafeParts
  <2>5. ElementsOf(ToSet(elements), o, alive, k)
    BY <1>8, <2>2, <2>3, <2>4, ElementsAre
  <2>6. ElementsOf(E, o, alive, s.count)
    BY <2>5 DEF E, k, elements
  <2> QED
    BY <2>6 DEF ElementsOf
<1>12. IsNew(o, E, alive)
  <2>1. E # {} => o.kind = "embedding responses"
    BY <1>2, <1>7, <1>11
  <2> QED
    BY <1>3, <1>7, <1>8, <1>9, <1>11, <2>1 DEF IsNew
<1> QED
  BY <1>5, <1>7, <1>10, <1>11, <1>12 DEF s, o, E

LEMMA MakeKeeps ==
    ASSUME Inductive, MakeObject
    PROVE  Inductive'
<1> DEFINE s == Head(todo)
           o == NewObject
           E == ToSet(NewElements)
<1> HIDE DEF o, E
<1>1. todo # <<>> /\ (s.do = "own" \/ s.do = "temp" \/ s.do = "push" \/ s.do = "raw")
  BY MakeObjectIs
<1>2. s.do # "leave" /\ s.do # "enter"
  BY <1>1
<1>3. PICK a, c \in Shapes : Does(s, a, c) /\ Ends(Tail(todo), c) /\ Fits(a, Len(frame), alive, frame, loose, self)
  BY <1>1, <1>2, StepIsDone
<1>4. frame # <<>>
  BY <1>2, <1>3, HasScope
<1>5. IsNew(o, E, alive) /\ Lent(o, alive, AllOf(frame), loose, self)
  BY <1>1, <1>3, NewObjectIs DEF o, E
<1>6. o.kind = s.kind /\ (s.of = "none" => o.of = 0)
  BY <1>1, <1>3, NewObjectIs DEF o
<1>7. (s.count = 0 => E = {}) /\ (s.count # 0 => E # {}) /\ \A e \in E : e.kind = "embedding response"
  BY <1>1, <1>3, NewObjectIs DEF E
<1>8. Made(alive', alive, o, E) /\ handles' = handles /\ self' = self /\ todo' = Tail(todo)
  BY MakeObjectIs DEF o, E
<1>9. Novel(o.kind, a) /\ a.raw = {}
  BY <1>1, <1>3, <1>6, MakeStep
<1> HIDE DEF s
<1>10. CASE s.do = "own"
  <2> DEFINE kind == s.kind
  <2>1. Puts(frame', frame, Append(Last(frame), <<o>>)) /\ loose' = loose
    BY <1>10, MakeObjectIs DEF o, s
  <2>2. c = Shape(a.self, a.depth, With(a, {kind}), a.raw, {})
    BY <1>3, <1>10, DoesOwn
  <2>3. o.kind = kind /\ Novel(kind, a)
    BY <1>6, <1>9
  <2> HIDE DEF kind
  <2> QED
    BY <1>1, <1>3, <1>4, <1>5, <1>8, <2>1, <2>2, <2>3, OwnKeeps
<1>11. CASE s.do = "temp"
  <2> DEFINE K == {s.kind} \cup (IF s.count = 0 THEN {} ELSE {"embedding response"})
  <2>1. Puts(frame', frame, <<<<o>>>> \o Last(frame)) /\ loose' = loose
    BY <1>11, MakeObjectIs DEF o, s
  <2>2. c = Put(a, K) /\ s.of = "none"
    BY <1>3, <1>11, DoesTemp
  <2>3. o.of = 0
    BY <1>6, <2>2
  <2>4. Covers(K, o, E)
    <3>1. o.kind \in K
      BY <1>6
    <3>2. ASSUME NEW k \in K PROVE k = o.kind \/ \E e \in E : e.kind = k
      BY <1>6, <1>7
    <3> HIDE DEF K
    <3> QED
      BY <3>1, <3>2 DEF Covers
  <2> HIDE DEF K
  <2> QED
    BY <1>1, <1>3, <1>4, <1>5, <1>8, <1>9, <2>1, <2>2, <2>3, <2>4, TempKeeps
<1>12. CASE s.do = "push"
  <2> DEFINE kind == s.kind
  <2>1. Puts(frame', frame, Append(Front(Last(frame)), Append(Last(Last(frame)), o))) /\ loose' = loose
    BY <1>12, MakeObjectIs DEF o, s
  <2>2. kind \in a.open /\ c = Put(a, {kind}) /\ s.of = "none"
    BY <1>3, <1>12, DoesPush
  <2>3. o.kind = kind /\ Novel(kind, a) /\ o.of = 0
    BY <1>6, <1>9, <2>2
  <2> HIDE DEF kind
  <2> QED
    BY <1>1, <1>3, <1>4, <1>5, <1>8, <2>1, <2>2, <2>3, PushKeeps
<1>13. CASE s.do = "raw"
  <2> DEFINE R == {"sampler params"}
  <2>1. frame' = frame /\ Plus(loose', loose, o)
    BY <1>13, MakeObjectIs DEF o, s
  <2>2. s.kind = "sampler params" /\ c = Shape(a.self, a.depth, a.at, R, a.open) /\ s.of = "none" /\ s.count = 0
    BY <1>3, <1>13, DoesRaw
  <2>3. o.kind \in R /\ \A k \in R : k = o.kind
    BY <1>6, <2>2
  <2>4. o.of = 0 /\ E = {}
    BY <1>6, <1>7, <2>2
  <2> HIDE DEF R
  <2>5. c = Shape(a.self, a.depth, a.at, R, a.open)
    BY <2>2
  <2> QED
    BY <1>1, <1>3, <1>4, <1>5, <1>8, <1>9, <2>1, <2>3, <2>4, <2>5, RawKeeps
<1> QED
  BY <1>1, <1>10, <1>11, <1>12, <1>13

-----------------------------------------------------------------------------
(* What is moved out, to the caller and to the client.                     *)


\* The value returned, one local of the scope, goes to the caller.
Returned(w) ==
    /\ Hands(frame', frame, w, Rest(Last(frame), {w}), Len(frame), Len(frame[Len(frame) - 1]) + 1)
    /\ alive' = alive /\ handles' = handles /\ loose' = loose /\ self' = self /\ todo' = Tail(todo)

\* The locals that are moved.
Movers(scope, keep) == [i \in DOMAIN keep |-> OwnerOf(scope, keep[i])]

\* What a move does.
Moves(keep) ==
    LET kept == FlattenSeq(Movers(Last(frame), keep))
        rest == Rest(Last(frame), ToSet(Movers(Last(frame), keep)))
    IN  /\ Len(frame) = 1 => handles' = handles \cup {kept} /\ frame' = <<rest>>
        /\ Len(frame) # 1 =>
              /\ frame' = Append(Append(Front(Front(frame)), Append(Last(Front(frame)), kept)), rest)
              /\ handles' = handles
        /\ alive' = alive /\ loose' = loose /\ self' = self /\ todo' = Tail(todo)

LEMMA MoveOutIs ==
    ASSUME MoveOut
    PROVE  Moves(Head(todo).keep) /\ todo # <<>> /\ Head(todo).do = "move"
BY DEF MoveOut, Moves, Movers, Rest, Scope, Advance, At

LEMMA OneMoved ==
    ASSUME NEW scope, NEW keep \in Seq(Kinds), NEW w, Len(keep) = 1, w = OwnerOf(scope, keep[1])
    PROVE  Movers(scope, keep) = <<w>> /\ ToSet(<<w>>) = {w}
<1>1. DOMAIN keep = 1..1
  BY LenProperties
<1> DEFINE f == [i \in 1..1 |-> OwnerOf(scope, keep[i])]
<1>2. f = <<w>>
  <2>1. f[1] = w /\ DOMAIN f = 1..1
    OBVIOUS
  <2>2. f \in Seq({w}) /\ Len(f) = 1
    BY <2>1
  <2> HIDE DEF f
  <2> QED
    BY <2>1, <2>2
<1>3. ToSet(<<w>>) = {w}
  BY DEF ToSet
<1> QED
  BY <1>1, <1>2, <1>3 DEF Movers

LEMMA ReturnIs ==
    ASSUME NEW keep \in Seq(Kinds), NEW w \in Seq(Objects), Moves(keep), Len(frame) # 1, Len(frame) > 1,
           Len(keep) = 1, w = OwnerOf(Last(frame), keep[1])
    PROVE  Returned(w)
<1>1. Movers(Last(frame), keep) = <<w>> /\ ToSet(<<w>>) = {w}
  BY OneMoved
<1>2. FlattenSeq(<<w>>) = w
  BY FlattenOne
<1> DEFINE rest == Rest(Last(frame), {w})
<1>3. frame' = Append(Append(Front(Front(frame)), Append(Last(Front(frame)), w)), rest)
      /\ alive' = alive /\ handles' = handles /\ loose' = loose /\ self' = self /\ todo' = Tail(todo)
  BY <1>1, <1>2, Zenon DEF Moves
<1> HIDE DEF rest
<1>4. Hands(frame', frame, w, rest, Len(frame), Len(frame[Len(frame) - 1]) + 1)
  BY <1>3 DEF Hands
<1> QED
  BY <1>3, <1>4 DEF Returned, rest

LEMMA ReturnKeeps ==
    ASSUME NEW s, NEW a \in Shapes, NEW c \in Shapes, Inductive, s = Head(todo), todo # <<>>, Moves(s.keep), s \in Steps,
           Returning(s, a, c), Ends(Tail(todo), c), Fits(a, Len(frame), alive, frame, loose, self)
    PROVE  Inductive'
<1> DEFINE kind == s.keep[1]
           n == Len(frame)
           m == Len(frame[n - 1]) + 1
           w == OwnerOf(Last(frame), kind)
           rest == Rest(Last(frame), {w})
<1>1. /\ s.keep \in Seq(Kinds) /\ Len(s.keep) = 1 /\ kind \in Movable /\ a.depth > 1
      /\ a.at[a.depth] \cap Vital \subseteq {kind}
  BY DEF Returning, Steps
<1>2. c = Shape(a.self, a.depth, [a.at EXCEPT ![a.depth] = {}, ![a.depth - 1] = @ \cup ({kind} \cap a.at[a.depth])], a.raw, {})
  BY DEF Returning
<1>3. n = a.depth /\ n \in Nat /\ n > 1 /\ n # 1 /\ frame # <<>>
  <2>1. n = a.depth /\ a.depth \in Nat
    BY ShapeTypes DEF Fits
  <2>2. frame # <<>>
    BY <1>1, <2>1
  <2> QED
    BY <1>1, <2>1, <2>2
<1> HIDE DEF kind, n, m
<1>4. Last(frame) \in Seq(Seq(Objects)) /\ Last(frame) = frame[n] /\ n \in DOMAIN frame
  BY <1>3, SafeParts, LastPlaces DEF n
<1>5. \/ w = <<>> /\ \A o \in ScopeObjects(Last(frame)) : o.kind # kind
      \/ \E j \in DOMAIN Last(frame) : w = Last(frame)[j] /\ \E i \in DOMAIN w : w[i].kind = kind
  BY <1>4, OwnerOfIs
<1> HIDE DEF w
<1>6. w \in Seq(Objects)
  <2>1. CASE w = <<>>
    BY <2>1
  <2>2. CASE \E j \in DOMAIN Last(frame) : w = Last(frame)[j]
    BY <1>4, <2>2, ElementOfSeq
  <2> QED
    BY <1>5, <2>1, <2>2
<1>7. Returned(w)
  BY <1>1, <1>3, <1>6, ReturnIs DEF w, kind, n
<1>8. rest \in Seq(Seq(Objects))
  BY <1>4, RestIs
<1>9. /\ \A j, k : Spot(rest, j, k) <=> Spot(Last(frame), j, k) /\ Last(frame)[j] \notin {w}
      /\ \A j, k : Spot(rest, j, k) => Item(rest, j, k) = Item(Last(frame), j, k)
  BY <1>4, RestIs
<1>10. \A j \in DOMAIN rest : rest[j] = <<>> \/ (j \in DOMAIN Last(frame) /\ rest[j] = Last(frame)[j])
  BY DEF Rest
<1>11. Hands(frame', frame, w, rest, n, m)
  BY <1>7 DEF Returned, n, m
<1>12. alive' = alive /\ handles' = handles /\ loose' = loose /\ self' = self /\ todo' = Tail(todo)
  BY <1>7 DEF Returned
<1> HIDE DEF rest
<1>13. Moved(frame, w, rest)
  BY <1>5, <1>9 DEF Moved
<1>14. \A j \in DOMAIN Last(frame) : SameKind(Last(frame)[j])
  BY <1>4 DEF Fits, OneKind
<1>15. \A j \in DOMAIN rest : SameKind(rest[j])
  <2>1. SameKind(<<>>)
    BY DEF SameKind, ToSet
  <2> QED
    BY <1>10, <1>14, <2>1
<1>16. Chosen(w, Last(frame), kind)
  <2>1. CASE w = <<>> /\ \A o \in ScopeObjects(Last(frame)) : o.kind # kind
    BY <2>1 DEF Chosen, ToSet
  <2>2. CASE \E j \in DOMAIN Last(frame) : w = Last(frame)[j] /\ \E i \in DOMAIN w : w[i].kind = kind
    <3>1. SameKind(w)
      BY <1>14, <2>2
    <3>2. PICK i \in DOMAIN w : w[i].kind = kind
      BY <2>2
    <3>3. w[i] \in ToSet(w)
      BY <3>2 DEF ToSet
    <3>4. ToSet(w) # {}
      BY <3>3
    <3>5. \A o \in ToSet(w) : o.kind = kind
      BY <3>1, <3>2, <3>3 DEF SameKind
    <3> QED
      BY <3>4, <3>5 DEF Chosen
  <2> QED
    BY <1>5, <2>1, <2>2, Zenon
<1>17. AllOf(frame) \subseteq alive /\ AllOf(frame) \subseteq Objects
  BY SafeParts DEF Owned
<1>18. Passes(a, c, n, kind)
  <2> DEFINE at == a.at
             K == {kind} \cap at[n]
             bt == [at EXCEPT ![n] = {}, ![n - 1] = @ \cup K]
  <2>1. c.self = a.self /\ c.depth = a.depth /\ c.raw = a.raw /\ c.open = {} /\ c.at = bt
    <3>1. c = Shape(a.self, a.depth, bt, a.raw, {})
      BY <1>2, <1>3
    <3> HIDE DEF bt
    <3> QED
      BY <3>1, ShapeIs
  <2>2. at \in [Nat -> SUBSET Kinds]
    BY ShapeTypes
  <2> HIDE DEF at, K
  <2>3. n - 1 \in Nat /\ n - 1 # n /\ n \in Nat
    BY <1>3
  <2>4. bt[n] = {} /\ bt[n - 1] = at[n - 1] \cup K /\ \A i \in Nat : i # n - 1 /\ i # n => bt[i] = at[i]
    BY <2>2, <2>3
  <2> HIDE DEF bt
  <2>5. \A i \in 1..n : i \in Nat
    BY <2>3
  <2>6. a.at[n] \cap Vital \subseteq {kind}
    BY <1>1, <1>3
  <2> QED
    BY <2>1, <2>4, <2>5, <2>6 DEF Passes, at, K
<1>19. ScopeObjects(Last(frame)) = ScopeObjects(rest) \cup ToSet(w) /\ ScopeObjects(Last(frame)) \subseteq AllOf(frame)
  <2>1. frame \in Seq(Seq(Seq(Objects))) /\ FrameOk(frame)
    BY SafeParts
  <2>2. ScopeObjects(Last(frame)) = ScopeObjects(rest) \cup ToSet(w)
    BY <1>3, <1>6, <1>8, <1>13, <2>1, MovedObjects
  <2>3. ScopeObjects(Last(frame)) \subseteq AllOf(frame)
    BY <1>4 DEF AllOf
  <2> QED
    BY <2>2, <2>3
<1>20. \A r \in ScopeObjects(rest) : r.kind \notin Vital
  <2>1. frame \in Seq(Seq(Seq(Objects))) /\ FrameOk(frame)
    BY SafeParts
  <2>2. a.at[Len(frame)] \cap Vital \subseteq {kind}
    BY <1>1, <1>3 DEF n
  <2> QED
    BY <1>3, <1>6, <1>8, <1>13, <1>16, <2>1, <2>2, NoneLeft
<1>21. Apart(w, rest)
  <2>1. Owned(alive, HandleSet(handles), AllOf(frame), loose) /\ ToSet(w) \subseteq AllOf(frame) /\ ScopeObjects(rest) \subseteq AllOf(frame)
    BY <1>19, SafeParts
  <2> QED
    BY <1>17, <1>20, <2>1, KeptApart
<1>22. frame \in Seq(Seq(Seq(Objects))) /\ FrameOk(frame)
  BY SafeParts
<1>23. FrameOk(frame')
  BY <1>6, <1>8, <1>11, <1>13, <1>21, <1>22, FrameHands
<1>24. frame' \in Seq(Seq(Seq(Objects))) /\ Len(frame') = n
  BY <1>6, <1>8, <1>11, <1>22, HandsIs
<1>25. AllOf(frame') = AllOf(frame)
  BY <1>6, <1>8, <1>11, <1>13, <1>22, HandsObjects
<1>26. Safe(alive', handles', frame', loose', self')
  BY <1>12, <1>23, <1>24, <1>25, SafeParts DEF Safe
<1>27. Fits(c, n, alive, frame', loose, self)
  <2>1. Fits(a, n, alive, frame, loose, self)
    BY DEF n
  <2> QED
    BY <1>1, <1>6, <1>8, <1>11, <1>13, <1>15, <1>16, <1>17, <1>18, <1>22, <2>1, FitsHands
<1>28. Fits(c, Len(frame'), alive', frame', loose', self')
  BY <1>12, <1>24, <1>27
<1>29. frame' # <<>>
  <2>1. Len(<<>>) = 0
    OBVIOUS
  <2> QED
    BY <1>3, <1>24, <2>1
<1> QED
  BY <1>12, <1>26, <1>28, <1>29, Onward

\* K is what is in the locals W of the scope.
Whole(scope, W, K) ==
    /\ \A w \in W : \E y \in DOMAIN scope : w = scope[y]
    /\ \A o \in K : \E w \in W : o \in ToSet(w)
    /\ \A w \in W : ToSet(w) \subseteq K

LEMMA RestObjects ==
    ASSUME NEW fr \in Seq(Seq(Seq(Objects))), NEW W, NEW K, fr # <<>>, FrameOk(fr), Whole(Last(fr), W, K)
    PROVE  /\ ScopeObjects(Rest(Last(fr), W)) = ScopeObjects(Last(fr)) \ K
           /\ K \subseteq ScopeObjects(Last(fr))
<1> DEFINE l == Last(fr)
           r == Rest(l, W)
           n == Len(fr)
<1>1. l \in Seq(Seq(Objects)) /\ (\A j, k : Place(fr, n, j, k) <=> Spot(l, j, k)) /\ \A j, k : Object(fr, n, j, k) = Item(l, j, k)
  BY LastPlaces
<1>2. /\ \A j, k : Spot(r, j, k) <=> Spot(l, j, k) /\ l[j] \notin W
      /\ \A j, k : Spot(r, j, k) => Item(r, j, k) = Item(l, j, k)
  BY <1>1, RestIs
<1> HIDE DEF l, r, n
<1>3. K \subseteq ScopeObjects(l)
  <2> SUFFICES ASSUME NEW o \in K PROVE o \in ScopeObjects(l)
    OBVIOUS
  <2>1. PICK w \in W : o \in ToSet(w)
    BY DEF Whole
  <2>2. PICK y \in DOMAIN l : w = l[y]
    BY DEF Whole, l
  <2> QED
    BY <2>1, <2>2 DEF ScopeObjects
<1>4. ASSUME NEW o \in ScopeObjects(r) PROVE o \in ScopeObjects(l) /\ o \notin K
  <2>1. PICK j, k : Spot(r, j, k) /\ Item(r, j, k) = o
    BY InScopeSpot
  <2>2. Spot(l, j, k) /\ l[j] \notin W /\ Item(l, j, k) = o
    BY <1>2, <2>1
  <2>3. o \in ScopeObjects(l)
    BY <2>2, InScopeSpot
  <2>4. ASSUME o \in K PROVE FALSE
    <3>1. PICK w \in W : o \in ToSet(w)
      BY <2>4 DEF Whole
    <3>2. PICK y \in DOMAIN l : w = l[y]
      BY DEF Whole, l
    <3>3. PICK z \in DOMAIN w : w[z] = o
      BY <3>1 DEF ToSet
    <3>4. Spot(l, y, z) /\ Item(l, y, z) = o
      BY <3>2, <3>3 DEF Spot, Item
    <3>5. Place(fr, n, j, k) /\ Place(fr, n, y, z) /\ Object(fr, n, j, k) = o /\ Object(fr, n, y, z) = o
      BY <1>1, <2>2, <3>4
    <3>6. Clear(o, n, j, k, o, n, y, z)
      BY <3>5, FrameClear
    <3>7. j = y
      BY <3>6 DEF Clear
    <3> QED
      BY <2>2, <3>2, <3>7
  <2> QED
    BY <2>3, <2>4
<1>5. ASSUME NEW o \in ScopeObjects(l), o \notin K PROVE o \in ScopeObjects(r)
  <2>1. PICK j, k : Spot(l, j, k) /\ Item(l, j, k) = o
    BY InScopeSpot
  <2>2. l[j] \notin W
    <3>1. o \in ToSet(l[j])
      BY <2>1 DEF Spot, Item, ToSet
    <3> QED
      BY <1>5, <3>1 DEF Whole
  <2>3. Spot(r, j, k) /\ Item(r, j, k) = o
    BY <1>2, <2>1, <2>2
  <2> QED
    BY <2>3, InScopeSpot
<1> QED
  BY <1>3, <1>4, <1>5 DEF l, r

\* A local that is moved to the client alone.
LEMMA LocalOk ==
    ASSUME NEW fr \in Seq(Seq(Seq(Objects))), NEW y \in DOMAIN Last(fr), NEW w, fr # <<>>, FrameOk(fr), w = Last(fr)[y], w # <<>>,
           w[1].kind \in Heads
    PROVE  HandleOk(w)
<1> DEFINE l == Last(fr)
           n == Len(fr)
<1>1. l \in Seq(Seq(Objects)) /\ (\A j, k : Place(fr, n, j, k) <=> Spot(l, j, k)) /\ \A j, k : Object(fr, n, j, k) = Item(l, j, k)
  BY LastPlaces
<1>2. n \in Nat /\ y \in Nat /\ w \in Seq(Objects)
  BY <1>1, ElementOfSeq, LenProperties
<1>3. ASSUME NEW i \in DOMAIN w, NEW j \in DOMAIN w PROVE (w[i] = w[j] => i = j) /\ (w[i].of = w[j].id => i < j)
  <2>1. Spot(l, y, i) /\ Item(l, y, i) = w[i] /\ Spot(l, y, j) /\ Item(l, y, j) = w[j]
    BY DEF Spot, Item
  <2> HIDE DEF l, n
  <2>2. Place(fr, n, y, i) /\ Place(fr, n, y, j) /\ Object(fr, n, y, i) = w[i] /\ Object(fr, n, y, j) = w[j]
    BY <1>1, <2>1
  <2>3. Clear(w[i], n, y, i, w[j], n, y, j)
    BY <2>2, FrameClear
  <2> QED
    BY <1>2, <2>3 DEF Clear, Before
<1> QED
  BY <1>3 DEF HandleOk

LEMMA PairIs ==
    ASSUME NEW x \in Objects, NEW e \in Objects
    PROVE  <<x>> \o <<e>> = <<x, e>>
<1> DEFINE s == <<x>>
           t == <<e>>
           g == s \o t
           h == <<x, e>>
<1>1. s \in Seq(Objects) /\ t \in Seq(Objects) /\ Len(s) = 1 /\ Len(t) = 1 /\ s[1] = x /\ t[1] = e
  OBVIOUS
<1> HIDE DEF s, t
<1>2. /\ g \in Seq(Objects) /\ Len(g) = Len(s) + Len(t)
      /\ \A i \in 1..Len(s) + Len(t) : g[i] = IF i <= Len(s) THEN s[i] ELSE t[i - Len(s)]
  BY <1>1, ConcatProperties
<1> HIDE DEF g
<1>3. Len(g) = 2
  BY <1>1, <1>2
<1>4. g[1] = x
  BY <1>1, <1>2
<1>5. g[2] = e
  BY <1>1, <1>2
<1>6. h \in Seq(Objects) /\ Len(h) = 2 /\ h[1] = x /\ h[2] = e
  OBVIOUS
<1> HIDE DEF h
<1>7. \A i \in 1..2 : g[i] = h[i]
  BY <1>4, <1>5, <1>6
<1>8. g = h
  BY <1>2, <1>3, <1>6, <1>7, SeqEqual
<1> QED
  BY <1>8 DEF g, h, s, t

LEMMA PairOk ==
    ASSUME NEW x \in Objects, NEW e \in Objects, x.kind \in Heads, x # e, x.of # x.id, e.of = 0
    PROVE  HandleOk(<<x, e>>) /\ <<x, e>> \in Seq(Objects) /\ ToSet(<<x, e>>) = {x, e} /\ <<x>> \o <<e>> = <<x, e>>
<1>1. x.id # 0 /\ e.id # 0
  BY DEF Objects
<1> DEFINE h == <<x, e>>
<1>6. <<x>> \o <<e>> = h
  BY PairIs
<1>2. h \in Seq(Objects) /\ DOMAIN h = 1..2 /\ h[1] = x /\ h[2] = e /\ h # <<>>
  OBVIOUS
<1>3. ToSet(h) = {x, e}
  BY DEF ToSet
<1> HIDE DEF h
<1>4. ASSUME NEW i \in 1..2, NEW j \in 1..2 PROVE (h[i] = h[j] => i = j) /\ (h[i].of = h[j].id => i < j)
  <2>1. CASE i = 1 /\ j = 1
    BY <1>2, <2>1
  <2>2. CASE i = 1 /\ j = 2
    BY <1>2, <2>2
  <2>3. CASE i = 2 /\ j = 1
    BY <1>1, <1>2, <2>3
  <2>4. CASE i = 2 /\ j = 2
    BY <1>1, <1>2, <2>4
  <2> QED
    BY <2>1, <2>2, <2>3, <2>4
<1>5. HandleOk(h)
  BY <1>2, <1>4 DEF HandleOk
<1> QED
  BY <1>2, <1>3, <1>5, <1>6 DEF h

LEMMA EmptySame ==
    SameKind(<<>>)
BY DEF SameKind, ToSet

LEMMA NoOuter ==
    ASSUME NEW fr \in Seq(Seq(Seq(Objects))), Len(fr) = 1, fr # <<>>
    PROVE  Outer(fr) = {}
<1> DEFINE S == Seq(Seq(Objects))
           f == Front(fr)
<1>1. f \in Seq(S) /\ Len(f) = Len(fr) - 1
  <2> HIDE DEF S
  <2>1. fr \in Seq(S)
    BY DEF S
  <2> QED
    BY <2>1, FrontLast
<1> HIDE DEF f
<1>2. Len(f) = 0
  BY <1>1
<1>3. f = <<>>
  BY <1>1, <1>2, EmptySeq
<1>4. AllOf(<<>>) = {}
  BY EmptySeq, FrameObjectsAre
<1> QED
  BY <1>3, <1>4 DEF Outer, f

\* What is moved to the client, out of the only scope.
Handed(kept, W) ==
    /\ handles' = handles \cup {kept} /\ Puts(frame', frame, Rest(Last(frame), W))
    /\ alive' = alive /\ loose' = loose /\ self' = self /\ todo' = Tail(todo)

NoContainer(K) == \A o \in K : o.kind # "embedding responses"

\* All that borrows or is borrowed from.
Takers(K, F) == \A o \in F : o.kind \in Vital => o \in K

LEMMA HandedKeeps ==
    ASSUME NEW a \in Shapes, NEW c \in Shapes, NEW kept \in Seq(Objects), NEW W, NEW K, Inductive, todo # <<>>,
           Ends(Tail(todo), c), Fits(a, Len(frame), alive, frame, loose, self), frame # <<>>, Len(frame) = 1,
           Whole(Last(frame), W, K), HandleOk(kept), ToSet(kept) = K, Takers(K, AllOf(frame)), Handed(kept, W),
           NoContainer(K),
           c.self = a.self, c.depth = a.depth, c.raw = a.raw, c.open = {}, c.at[1] = {}
    PROVE  Inductive'
<1> DEFINE l == Last(frame)
           r == Rest(l, W)
           F == AllOf(frame)
           G == AllOf(frame')
           H == HandleSet(handles)
<1>0. frame \in Seq(Seq(Seq(Objects))) /\ FrameOk(frame) /\ Owned(alive, H, F, loose) /\ HandlesOk(handles)
  BY SafeParts
<1>1. l \in Seq(Seq(Objects)) /\ l = frame[1]
  BY <1>0, LastPlaces
<1>2. r \in Seq(Seq(Objects))
  BY <1>1, RestIs
<1>3. \A j, k : Spot(r, j, k) => Spot(l, j, k) /\ Item(r, j, k) = Item(l, j, k)
  <2>1. (\A j, k : Spot(r, j, k) <=> Spot(l, j, k) /\ l[j] \notin W) /\ \A j, k : Spot(r, j, k) => Item(r, j, k) = Item(l, j, k)
    BY <1>1, RestIs
  <2> HIDE DEF l, r
  <2> QED
    BY <2>1
<1>4. \A j \in DOMAIN r : r[j] = <<>> \/ (j \in DOMAIN l /\ r[j] = l[j])
  BY DEF Rest
<1>5. ScopeObjects(r) = ScopeObjects(l) \ K /\ K \subseteq ScopeObjects(l)
  BY <1>0, RestObjects
<1>6. Puts(frame', frame, r) /\ handles' = handles \cup {kept}
      /\ alive' = alive /\ loose' = loose /\ self' = self /\ todo' = Tail(todo)
  BY DEF Handed
<1> HIDE DEF l, r
<1>7. FrameOk(frame')
  BY <1>0, <1>2, <1>3, <1>6, FrameInScope DEF l
<1>8. frame' \in Seq(Seq(Seq(Objects))) /\ Len(frame') = 1
  BY <1>0, <1>2, <1>6, Places
<1>9. F = ScopeObjects(l) /\ G = ScopeObjects(r)
  <2>1. AllOf(frame) = Outer(frame) \cup ScopeObjects(l) /\ AllOf(frame') = Outer(frame) \cup ScopeObjects(r)
    BY <1>0, <1>2, <1>6, PutObjects DEF l
  <2>2. Outer(frame) = {}
    BY <1>0, NoOuter
  <2> QED
    BY <2>1, <2>2
<1> HIDE DEF F, G, H
<1>10. Owned(alive, H \cup K, F \ K, loose)
  <2>1. K \subseteq F
    BY <1>5, <1>9
  <2>2. \A o \in K : o.of # 0 => \A p \in F : p.id = o.of => p \in K
    <3> SUFFICES ASSUME NEW o \in K, o.of # 0, NEW p \in F, p.id = o.of PROVE p \in K
      OBVIOUS
    <3>1. o \in F
      BY <2>1
    <3>2. PICK q \in alive : q.id = o.of /\ q.kind = "engine"
      BY <1>0, <3>1, Borrower
    <3>3. p \in alive /\ Unique(alive)
      BY <1>0 DEF Owned
    <3>4. p.kind = "engine"
      BY <3>2, <3>3 DEF Unique
    <3> QED
      BY <3>4 DEF Takers, Vital, F
  <2> QED
    BY <1>0, <2>1, <2>2, OwnedMove DEF NoContainer
<1>11. G = F \ K
  BY <1>5, <1>9
<1>12. HandlesOk(handles') /\ HandleSet(handles') = H \cup K
  <2>1. ToSet(kept) \cap HandleSet(handles) = {}
    BY <1>0, <1>5, <1>9 DEF Owned, H
  <2> QED
    BY <1>0, <1>6, <2>1, HandlesAdd DEF H
<1>13. Owned(alive', HandleSet(handles'), AllOf(frame'), loose')
  BY <1>6, <1>10, <1>11, <1>12 DEF G
<1>14. handles' \in SUBSET Seq(Objects) /\ (self' # NoObject => self' \in HandleSet(handles'))
  BY <1>6, <1>12, SafeParts DEF H
<1>15. Safe(alive', handles', frame', loose', self')
  BY <1>6, <1>7, <1>8, <1>12, <1>13, <1>14, SafeParts DEF Safe
<1>16. Fits(c, 1, alive, frame', loose, self)
  <2>1. LooseAs(a, loose) /\ Single(AllOf(frame), self) /\ Borrows(AllOf(frame)) /\ OneKind(frame)
    BY DEF Fits
  <2>2. Single(AllOf(frame'), self) /\ Borrows(AllOf(frame'))
    BY <1>11, <2>1 DEF Single, Borrows, F, G
  <2>3. LooseAs(c, loose)
    BY <2>1 DEF LooseAs
  <2>4. \A j \in DOMAIN r : SameKind(r[j])
    <3>1. SameKind(<<>>)
      BY EmptySame
    <3>2. 1 \in DOMAIN frame
      BY <1>0, LastPlaces
    <3>3. \A j \in DOMAIN l : SameKind(l[j])
      BY <1>1, <2>1, <3>2 DEF OneKind
    <3> QED
      BY <1>4, <3>1, <3>3
  <2>5. \A o \in ScopeObjects(r) : o.kind \notin Vital
    BY <1>9, <1>11 DEF Takers, F
  <2> DEFINE n == Len(frame)
  <2>6. n = 1 /\ n \in {n - 1, n} /\ c.at[n] = {}
    OBVIOUS
  <2>7. \A i \in 1..n : i = n
    <3> HIDE DEF n
    <3> QED
      BY <2>6
  <2>8. ListAs(c.open, r)
    BY DEF ListAs
  <2>9. Fits(a, n, alive, frame, loose, self)
    OBVIOUS
  <2> HIDE DEF n
  <2>10. Fits(c, n, alive, frame', loose, self)
    <3>1. \A i \in 1..Len(frame) : i # Len(frame) => c.at[i] = a.at[i] /\ \A k \in a.at[i] : Reached(alive, frame[i], k) => Reached(alive, frame[i], k)
      BY <2>7 DEF n
    <3>2. (\A k \in c.at[Len(frame)] : Reached(alive, r, k)) /\ ListAs(c.open, r)
      BY <2>6, <2>8 DEF n
    <3>3. \A o \in ScopeObjects(r) : o.kind \in Vital => o.kind \in c.at[Len(frame)]
      BY <2>5
    <3>4. n \in {Len(frame) - 1, Len(frame)}
      BY <2>6 DEF n
    <3> QED
      BY <1>0, <1>2, <1>6, <2>2, <2>3, <2>4, <2>9, <3>1, <3>2, <3>3, <3>4, FitsPut
  <2> QED
    BY <2>6, <2>10
<1>17. Fits(c, Len(frame'), alive', frame', loose', self')
  BY <1>6, <1>8, <1>16
<1>18. frame' # <<>>
  BY <1>8, EmptySeq
<1> QED
  BY <1>6, <1>15, <1>17, <1>18, Onward

\* The local with what is known to be in the scope.
Taken(w, kind) ==
    /\ w \in Seq(Objects) /\ w # <<>> /\ 1 \in DOMAIN w
    /\ \E y \in DOMAIN Last(frame) : w = Last(frame)[y]
    /\ \A o \in ToSet(w) : o.kind = kind

LEMMA TakenIs ==
    ASSUME NEW a, NEW kind \in a.at[1], NEW w, Inductive, frame # <<>>, Len(frame) = 1, Fits(a, Len(frame), alive, frame, loose, self),
           w = OwnerOf(Last(frame), kind), kind \in Heads
    PROVE  Taken(w, kind)
<1> DEFINE l == Last(frame)
<1>1. l \in Seq(Seq(Objects)) /\ l = frame[1] /\ 1 \in DOMAIN frame
  BY SafeParts, LastPlaces
<1> HIDE DEF l
<1>2. \E o \in ScopeObjects(l) : o.kind = kind
  <2>1. Has(a, Len(frame), alive, frame)
    BY DEF Fits
  <2>2. Reached(alive, l, kind)
    BY <1>1, <2>1 DEF Has
  <2>3. PICK o \in alive : o.kind = kind /\ (o \in ScopeObjects(l) \/ Element(o))
    BY <2>2 DEF Reached
  <2>4. ~Element(o)
    BY <2>3 DEF Element, Heads
  <2> QED
    BY <2>3, <2>4
<1>3. w = OwnerOf(l, kind)
  BY DEF l
<1>4. \E j \in DOMAIN l : w = l[j] /\ \E i \in DOMAIN w : w[i].kind = kind
  BY <1>1, <1>2, <1>3, OwnerOfIs
<1>5. PICK j \in DOMAIN l : w = l[j] /\ \E i \in DOMAIN w : w[i].kind = kind
  BY <1>4
<1>6. PICK i \in DOMAIN w : w[i].kind = kind
  BY <1>5
<1>7. w \in Seq(Objects)
  BY <1>1, <1>5, ElementOfSeq
<1>8. SameKind(w)
  BY <1>1, <1>5 DEF Fits, OneKind
<1>9. w[i] \in ToSet(w)
  BY <1>6 DEF ToSet
<1>10. \A o \in ToSet(w) : o.kind = kind
  BY <1>6, <1>8, <1>9 DEF SameKind
<1>11. w # <<>> /\ 1 \in DOMAIN w
  <2>1. DOMAIN w = 1..Len(w) /\ Len(w) \in Nat
    BY <1>7, LenProperties
  <2>2. Len(w) # 0 /\ 1 \in DOMAIN w
    BY <1>6, <2>1
  <2> QED
    BY <1>7, <2>2, EmptySeq
<1> QED
  BY <1>5, <1>7, <1>10, <1>11 DEF Taken, l

LEMMA TakenOk ==
    ASSUME NEW w, NEW kind \in Heads, Inductive, frame # <<>>, Taken(w, kind)
    PROVE  HandleOk(w) /\ w[1] \in ToSet(w) /\ w[1].kind = kind /\ w[1] \in Objects
<1>1. w[1] \in ToSet(w)
  BY DEF Taken, ToSet
<1>2. w[1].kind = kind
  BY <1>1 DEF Taken
<1>3. PICK y \in DOMAIN Last(frame) : w = Last(frame)[y]
  BY DEF Taken
<1>4. frame \in Seq(Seq(Seq(Objects))) /\ FrameOk(frame) /\ w # <<>>
  BY SafeParts DEF Taken
<1>5. HandleOk(w)
  BY <1>2, <1>3, <1>4, LocalOk
<1>6. w[1] \in Objects
  BY <1>1, OwnerTypes DEF Taken
<1> QED
  BY <1>1, <1>2, <1>5, <1>6

\* It is in the only scope.
LEMMA TakenAll ==
    ASSUME NEW w, NEW kind, Inductive, frame # <<>>, Len(frame) = 1, Taken(w, kind)
    PROVE  ToSet(w) \subseteq AllOf(frame)
<1>1. Len(frame) \in DOMAIN frame /\ Last(frame) = frame[Len(frame)]
  BY SafeParts, LastPlaces
<1>2. ToSet(w) \subseteq ScopeObjects(Last(frame))
  BY DEF Taken, ScopeObjects
<1> QED
  BY <1>1, <1>2 DEF AllOf

\* Of what borrows or is borrowed from, all there is of the kind.
LEMMA TakesAll ==
    ASSUME NEW a, NEW w, NEW kind \in Heads, NEW o \in AllOf(frame), Inductive, frame # <<>>, Len(frame) = 1, Taken(w, kind),
           Fits(a, Len(frame), alive, frame, loose, self), o.kind = kind, o.kind \in Vital
    PROVE  o = w[1]
<1>1. w[1] \in AllOf(frame) /\ w[1].kind = kind
  BY TakenOk, TakenAll
<1>2. Single(AllOf(frame), self)
  BY DEF Fits
<1> QED
  BY <1>1, <1>2 DEF Single

LEMMA VitalAt ==
    ASSUME NEW a, NEW o \in AllOf(frame), Inductive, Len(frame) = 1, Fits(a, Len(frame), alive, frame, loose, self),
           o.kind \in Vital
    PROVE  o.kind \in a.at[1]
<1>1. DOMAIN frame = 1..Len(frame)
  BY SafeParts, LenProperties
<1>2. PICK i \in DOMAIN frame : o \in ScopeObjects(frame[i])
  BY DEF AllOf
<1>3. i = 1
  BY <1>1, <1>2
<1> QED
  BY <1>2, <1>3 DEF Fits, Known

LEMMA OneOf ==
    ASSUME NEW w \in Seq(Objects), HandleOk(w), \A o \in ToSet(w) : o = w[1], 1 \in DOMAIN w
    PROVE  w = <<w[1]>>
<1>1. DOMAIN w = 1..Len(w) /\ Len(w) \in Nat
  BY LenProperties
<1>2. \A i \in DOMAIN w : w[i] = w[1]
  BY DEF ToSet
<1>3. \A i \in DOMAIN w : i = 1
  BY <1>2 DEF HandleOk
<1>4. Len(w) = 1
  BY <1>1, <1>3
<1> DEFINE v == <<w[1]>>
<1>5. w[1] \in Objects
  BY <1>1, ElementOfSeq
<1>6. v \in Seq(Objects) /\ Len(v) = 1 /\ v[1] = w[1]
  BY <1>5
<1> HIDE DEF v
<1>7. w = v
  BY <1>4, <1>6, SeqEqual
<1> QED
  BY <1>7 DEF v

LEMMA EngineFree ==
    ASSUME NEW A, NEW H, NEW F, NEW L, NEW o \in F, Owned(A, H, F, L), o.kind = "engine"
    PROVE  o.of = 0
<1>1. o.of # 0 => o.kind \in Children
  BY Borrower
<1> QED
  BY <1>1 DEF Children

LEMMA OnlyScope ==
    ASSUME NEW fr \in Seq(Seq(Seq(Objects))), NEW r, NEW new, Len(fr) = 1, fr # <<>>, new = <<r>>
    PROVE  Puts(new, fr, r)
<1> DEFINE S == Seq(Seq(Objects))
           f == Front(fr)
<1>1. f \in Seq(S) /\ Len(f) = Len(fr) - 1
  <2> HIDE DEF S
  <2>1. fr \in Seq(S)
    BY DEF S
  <2> QED
    BY <2>1, FrontLast
<1> HIDE DEF f
<1>2. Len(f) = 0
  BY <1>1
<1>3. f = <<>>
  BY <1>1, <1>2, EmptySeq
<1>4. Append(<<>>, r) = <<r>>
  OBVIOUS
<1> QED
  BY <1>3, <1>4 DEF Puts, f

\* The shape when the client has got what was made.
Yielded(a, c) ==
    c.self = a.self /\ c.depth = a.depth /\ c.raw = a.raw /\ c.open = {} /\ c.at[1] = {}

LEMMA YieldOne ==
    ASSUME NEW a \in Shapes, NEW c \in Shapes, NEW keep \in Seq(Kinds), NEW k \in Heads, Inductive, todo # <<>>,
           Ends(Tail(todo), c), Fits(a, Len(frame), alive, frame, loose, self), frame # <<>>, Len(frame) = 1,
           Moves(keep), Len(keep) = 1, keep[1] = k, k \in a.at[1], a.at[1] \cap Vital \subseteq {k}, Yielded(a, c)
    PROVE  Inductive'
<1> DEFINE w == OwnerOf(Last(frame), k)
           W == {w}
           K == ToSet(w)
<1>1. Taken(w, k)
  BY TakenIs
<1>2. Movers(Last(frame), keep) = <<w>> /\ ToSet(<<w>>) = W
  BY OneMoved
<1> HIDE DEF w
<1>3. w \in Seq(Objects) /\ HandleOk(w)
  BY <1>1, TakenOk DEF Taken
<1>4. FlattenSeq(<<w>>) = w
  BY <1>3, FlattenOne
<1>5. Handed(w, W)
  <2> DEFINE r == Rest(Last(frame), W)
  <2>1. handles' = handles \cup {w} /\ frame' = <<r>> /\ alive' = alive /\ loose' = loose /\ self' = self /\ todo' = Tail(todo)
    BY <1>2, <1>4, Zenon DEF Moves
  <2> HIDE DEF r
  <2>2. Puts(frame', frame, r)
    BY <2>1, SafeParts, OnlyScope
  <2> HIDE DEF W
  <2> QED
    BY <2>1, <2>2 DEF Handed, r
<1>6. Whole(Last(frame), W, K)
  BY <1>1 DEF Whole, Taken
<1>7. NoContainer(K)
  BY <1>1 DEF NoContainer, Taken, Heads
<1>8. Takers(K, AllOf(frame))
  <2> SUFFICES ASSUME NEW o \in AllOf(frame), o.kind \in Vital PROVE o \in K
    BY DEF Takers
  <2>1. o.kind \in a.at[1]
    BY VitalAt
  <2>2. o.kind = k
    BY <2>1
  <2>3. o = w[1]
    BY <1>1, <2>2, TakesAll
  <2> QED
    BY <1>1, <2>3, TakenOk
<1> HIDE DEF W
<1>9. ToSet(w) = K
  OBVIOUS
<1> HIDE DEF K
<1>10. c.self = a.self /\ c.depth = a.depth /\ c.raw = a.raw /\ c.open = {} /\ c.at[1] = {}
  BY DEF Yielded
<1> QED
  BY <1>3, <1>5, <1>6, <1>7, <1>8, <1>9, <1>10, HandedKeeps

LEMMA TwoMoved ==
    ASSUME NEW scope, NEW keep \in Seq(Kinds), NEW w, NEW v, Len(keep) = 2, w = OwnerOf(scope, keep[1]), v = OwnerOf(scope, keep[2])
    PROVE  Movers(scope, keep) = <<w, v>> /\ ToSet(<<w, v>>) = {w, v}
<1>1. DOMAIN keep = 1..2
  BY LenProperties
<1> DEFINE f == [i \in 1..2 |-> OwnerOf(scope, keep[i])]
           g == <<w, v>>
<1>2. f = g
  <2>1. f[1] = w /\ f[2] = v /\ DOMAIN f = 1..2
    OBVIOUS
  <2>2. f \in Seq({w, v}) /\ Len(f) = 2
    BY <2>1
  <2>3. g \in Seq({w, v}) /\ Len(g) = 2 /\ g[1] = w /\ g[2] = v
    OBVIOUS
  <2> HIDE DEF f, g
  <2>4. \A i \in 1..2 : f[i] = g[i]
    BY <2>1, <2>3
  <2> QED
    BY <2>2, <2>3, <2>4, SeqEqual
<1>3. ToSet(g) = {w, v}
  BY DEF ToSet
<1> QED
  BY <1>1, <1>2, <1>3 DEF Movers

LEMMA YieldTwo ==
    ASSUME NEW a \in Shapes, NEW c \in Shapes, NEW keep \in Seq(Kinds), NEW k \in Heads, NEW g \in Heads, Inductive, todo # <<>>,
           Ends(Tail(todo), c), Fits(a, Len(frame), alive, frame, loose, self), frame # <<>>, Len(frame) = 1,
           Moves(keep), Len(keep) = 2, keep[1] = k, keep[2] = g, k \in Children, g = "engine",
           k \in a.at[1], g \in a.at[1], a.at[1] \cap Vital \subseteq {k, g}, Yielded(a, c)
    PROVE  Inductive'
<1> DEFINE w == OwnerOf(Last(frame), k)
           v == OwnerOf(Last(frame), g)
           x == w[1]
           e == v[1]
           kept == <<x, e>>
           W == {w, v}
           K == {x, e}
<1>1. Taken(w, k)
  BY TakenIs
<1>2. Taken(v, g)
  BY TakenIs
<1>3. Movers(Last(frame), keep) = <<w, v>> /\ ToSet(<<w, v>>) = W
  BY TwoMoved
<1> HIDE DEF w, v
<1>4. w \in Seq(Objects) /\ HandleOk(w) /\ x.kind = k /\ x \in Objects /\ 1 \in DOMAIN w
  BY <1>1, TakenOk DEF Taken
<1>5. v \in Seq(Objects) /\ HandleOk(v) /\ e.kind = g /\ e \in Objects /\ 1 \in DOMAIN v
  BY <1>2, TakenOk DEF Taken
<1>6. k \in Vital /\ g \in Vital /\ k # g
  BY DEF Vital, Children
<1>7. \A o \in ToSet(w) : o = x
  <2>1. ToSet(w) \subseteq AllOf(frame) /\ \A o \in ToSet(w) : o.kind = k
    BY <1>1, TakenAll DEF Taken
  <2> QED
    BY <1>1, <1>6, <2>1, TakesAll
<1>8. \A o \in ToSet(v) : o = e
  <2>1. ToSet(v) \subseteq AllOf(frame) /\ \A o \in ToSet(v) : o.kind = g
    BY <1>2, TakenAll DEF Taken
  <2> QED
    BY <1>2, <1>6, <2>1, TakesAll
<1>9. w = <<x>> /\ v = <<e>>
  BY <1>4, <1>5, <1>7, <1>8, OneOf
<1>10. FlattenSeq(<<w, v>>) = w \o v
  BY <1>4, <1>5, FlattenTwo
<1>11. e \in AllOf(frame) /\ e.of = 0
  <2>1. e \in AllOf(frame)
    BY <1>2, TakenAll, TakenOk
  <2>2. Owned(alive, HandleSet(handles), AllOf(frame), loose)
    BY SafeParts
  <2> QED
    BY <1>5, <2>1, <2>2, EngineFree
<1>12. x.of # x.id
  BY <1>4 DEF HandleOk
<1> HIDE DEF x, e
<1>13. HandleOk(kept) /\ kept \in Seq(Objects) /\ ToSet(kept) = K /\ <<x>> \o <<e>> = kept
  <2>1. x # e
    BY <1>4, <1>5, <1>6
  <2> QED
    BY <1>4, <1>5, <1>11, <1>12, <2>1, PairOk
<1> HIDE DEF kept
<1>14. Handed(kept, W)
  <2> DEFINE r == Rest(Last(frame), W)
  <2>1. FlattenSeq(<<w, v>>) = kept
    BY <1>9, <1>10, <1>13
  <2>2. handles' = handles \cup {kept} /\ frame' = <<r>> /\ alive' = alive /\ loose' = loose /\ self' = self /\ todo' = Tail(todo)
    BY <1>3, <2>1, Zenon DEF Moves
  <2> HIDE DEF r
  <2>3. Puts(frame', frame, r)
    BY <2>2, SafeParts, OnlyScope
  <2> HIDE DEF W
  <2> QED
    BY <2>2, <2>3 DEF Handed, r
<1>15. Whole(Last(frame), W, K)
  <2>1. \A u \in W : \E y \in DOMAIN Last(frame) : u = Last(frame)[y]
    BY <1>1, <1>2 DEF Taken
  <2>2. x \in ToSet(w) /\ e \in ToSet(v)
    BY <1>1, <1>2, TakenOk DEF x, e
  <2> QED
    BY <1>7, <1>8, <2>1, <2>2 DEF Whole
<1>16. NoContainer(K)
  BY <1>4, <1>5 DEF NoContainer, Heads
<1>17. Takers(K, AllOf(frame))
  <2> SUFFICES ASSUME NEW o \in AllOf(frame), o.kind \in Vital PROVE o \in K
    BY DEF Takers
  <2>1. o.kind \in a.at[1]
    BY VitalAt
  <2>2. o.kind = k \/ o.kind = g
    BY <2>1
  <2>3. o.kind = k => o = x
    BY <1>1, TakesAll DEF x
  <2>4. o.kind = g => o = e
    BY <1>2, TakesAll DEF e
  <2> QED
    BY <2>2, <2>3, <2>4
<1>18. c.self = a.self /\ c.depth = a.depth /\ c.raw = a.raw /\ c.open = {} /\ c.at[1] = {}
  BY DEF Yielded
<1> HIDE DEF W, K
<1> QED
  BY <1>13, <1>14, <1>15, <1>16, <1>17, <1>18, HandedKeeps

LEMMA YieldedIs ==
    ASSUME NEW a \in Shapes, NEW c, c = Shape(a.self, a.depth, [a.at EXCEPT ![1] = {}], a.raw, {})
    PROVE  Yielded(a, c)
<1> DEFINE at == a.at
           bt == [at EXCEPT ![1] = {}]
<1>1. at \in [Nat -> SUBSET Kinds]
  BY ShapeTypes
<1>2. c = Shape(a.self, a.depth, bt, a.raw, {})
  OBVIOUS
<1> HIDE DEF at
<1>3. bt[1] = {}
  BY <1>1
<1> HIDE DEF bt
<1>4. c.self = a.self /\ c.depth = a.depth /\ c.raw = a.raw /\ c.open = {} /\ c.at = bt
  BY <1>2, ShapeIs
<1> QED
  BY <1>3, <1>4 DEF Yielded

LEMMA YieldKeeps ==
    ASSUME NEW s, NEW a \in Shapes, NEW c \in Shapes, Inductive, todo # <<>>, Moves(s.keep), s \in Steps, frame # <<>>,
           Yielding(s, a, c), Ends(Tail(todo), c), Fits(a, Len(frame), alive, frame, loose, self)
    PROVE  Inductive'
<1> DEFINE keep == s.keep
           k == keep[1]
           g == keep[2]
<1>1. keep \in Seq(Kinds)
  BY DEF Steps
<1>2. ToSet(keep) \subseteq a.at[1] /\ k \in Heads /\ a.at[1] \cap Vital \subseteq ToSet(keep)
      /\ (Len(keep) = 1 \/ (Len(keep) = 2 /\ k \in Children /\ g = "engine"))
  BY DEF Yielding
<1>3. a.depth = 1 /\ Yielded(a, c)
  BY YieldedIs DEF Yielding
<1>4. Len(frame) = 1
  BY <1>3 DEF Fits
<1> HIDE DEF keep
<1>5. CASE Len(keep) = 1
  <2>1. DOMAIN keep = 1..1
    BY <1>1, <1>5, LenProperties
  <2>2. ToSet(keep) = {k}
    BY <2>1 DEF ToSet
  <2>3. k \in a.at[1] /\ a.at[1] \cap Vital \subseteq {k}
    BY <1>2, <2>2
  <2>4. Moves(keep)
    BY DEF keep
  <2> QED
    BY <1>1, <1>2, <1>3, <1>4, <1>5, <2>3, <2>4, YieldOne
<1>6. CASE Len(keep) = 2 /\ k \in Children /\ g = "engine"
  <2>1. DOMAIN keep = 1..2
    BY <1>1, <1>6, LenProperties
  <2>2. ToSet(keep) = {k, g}
    BY <2>1 DEF ToSet
  <2>3. k \in a.at[1] /\ g \in a.at[1] /\ a.at[1] \cap Vital \subseteq {k, g}
    BY <1>2, <2>2
  <2>4. Moves(keep)
    BY DEF keep
  <2>5. g \in Heads
    BY <1>6 DEF Heads
  <2> QED
    BY <1>1, <1>2, <1>3, <1>4, <1>6, <2>3, <2>4, <2>5, YieldTwo
<1> QED
  BY <1>2, <1>5, <1>6

LEMMA MoveKeeps ==
    ASSUME Inductive, MoveOut
    PROVE  Inductive'
<1> DEFINE s == Head(todo)
<1>1. todo # <<>> /\ s.do = "move" /\ Moves(s.keep)
  BY MoveOutIs
<1>2. s.do # "leave" /\ s.do # "enter"
  BY <1>1
<1>3. PICK a, c \in Shapes : Does(s, a, c) /\ Ends(Tail(todo), c) /\ Fits(a, Len(frame), alive, frame, loose, self)
  BY <1>1, <1>2, StepIsDone
<1>4. frame # <<>>
  BY <1>2, <1>3, HasScope
<1>5. s \in Steps /\ (Returning(s, a, c) \/ Yielding(s, a, c))
  BY <1>1, <1>3, DoesWhat, DoesAny
<1>6. CASE Returning(s, a, c)
  BY <1>1, <1>3, <1>5, <1>6, ReturnKeeps
<1>7. CASE Yielding(s, a, c)
  BY <1>1, <1>3, <1>4, <1>5, <1>7, YieldKeeps
<1> QED
  BY <1>5, <1>6, <1>7

-----------------------------------------------------------------------------
(* What is dropped: the locals of the innermost scope, last first.         *)


-----------------------------------------------------------------------------
(* The locals of a function go.                                            *)

\* Less is left of the innermost scope.
Lesser(scope, l) ==
    /\ ScopeObjects(scope) \subseteq ScopeObjects(l)
    /\ \A j \in DOMAIN scope : j \in DOMAIN l /\ ToSet(scope[j]) \subseteq ToSet(l[j])

\* What the outer functions know of stays.
Stay(A, B, fr) == \A i \in DOMAIN fr : i # Len(fr) => \A k : Reached(A, fr[i], k) => Reached(B, fr[i], k)

LEMMA LesserObjects ==
    ASSUME NEW fr \in Seq(Seq(Seq(Objects))), NEW scope \in Seq(Seq(Objects)), NEW new, fr # <<>>, Puts(new, fr, scope),
           Lesser(scope, Last(fr))
    PROVE  AllOf(new) \subseteq AllOf(fr)
<1>1. AllOf(fr) = Outer(fr) \cup ScopeObjects(Last(fr)) /\ AllOf(new) = Outer(fr) \cup ScopeObjects(scope)
  BY PutObjects
<1>2. ScopeObjects(scope) \subseteq ScopeObjects(Last(fr))
  BY DEF Lesser
<1> QED
  BY <1>1, <1>2

LEMMA FitsLesser ==
    ASSUME NEW a, NEW A, NEW B, NEW L, NEW s, NEW fr \in Seq(Seq(Seq(Objects))), NEW scope \in Seq(Seq(Objects)), NEW new,
           fr # <<>>, Puts(new, fr, scope), Lesser(scope, Last(fr)), Stay(A, B, fr), Fits(a, Len(fr) - 1, A, fr, L, s)
    PROVE  Fits(a, Len(fr) - 1, B, new, L, s)
<1> DEFINE n == Len(fr)
           m == n - 1
           l == Last(fr)
<1>1. n \in Nat \ {0} /\ DOMAIN fr = 1..n /\ l = fr[n] /\ l \in Seq(Seq(Objects))
  BY Places
<1>2. m \in {n - 1, n} /\ m # n /\ n \in DOMAIN fr
  <2> HIDE DEF n
  <2> QED
    BY <1>1
<1>3. Fits(a, m, A, fr, L, s)
  OBVIOUS
<1> HIDE DEF m, l
<1>4. a \in Shapes /\ Known(a, fr) /\ Single(AllOf(fr), s) /\ Borrows(AllOf(fr)) /\ OneKind(fr) /\ LooseAs(a, L)
  BY <1>3 DEF Fits
<1>5. Single(AllOf(new), s) /\ Borrows(AllOf(new))
  BY <1>4, LesserObjects DEF Single, Borrows
<1>6. \A o \in ScopeObjects(scope) : o.kind \in Vital => o.kind \in a.at[n]
  BY <1>1, <1>2, <1>4 DEF Known, Lesser, l
<1>7. \A j \in DOMAIN scope : SameKind(scope[j])
  <2> SUFFICES ASSUME NEW j \in DOMAIN scope PROVE SameKind(scope[j])
    OBVIOUS
  <2>1. j \in DOMAIN l /\ ToSet(scope[j]) \subseteq ToSet(l[j])
    BY DEF Lesser, l
  <2>2. SameKind(l[j])
    BY <1>1, <1>2, <1>4, <2>1 DEF OneKind
  <2> QED
    BY <2>1, <2>2 DEF SameKind
<1>8. \A i \in 1..n : i # n => \A k \in a.at[i] : Reached(A, fr[i], k) => Reached(B, fr[i], k)
  BY <1>1 DEF Stay
<1>9. \A i \in 1..n : i # n => a.at[i] = a.at[i] /\ \A k \in a.at[i] : Reached(A, fr[i], k) => Reached(B, fr[i], k)
  BY <1>8
<1>10. m = n => (\A k \in a.at[n] : Reached(B, scope, k)) /\ ListAs(a.open, scope)
  BY <1>2
<1>11. m \in {n - 1, n}
  BY <1>2
<1>12. Fits(a, m, B, new, L, s)
  BY <1>3, <1>4, <1>5, <1>6, <1>7, <1>9, <1>10, <1>11, FitsPut
<1> QED
  BY <1>12 DEF m

LEMMA ScopeToLeave ==
    ASSUME Inductive, todo # <<>>, Head(todo).do = "leave"
    PROVE  frame # <<>>
<1>1. CASE Unwinds(frame, loose, todo)
  <2>1. ASSUME frame = <<>> PROVE todo = <<>>
    <3>1. todo = [i \in DOMAIN frame |-> Leave] /\ <<>> = [i \in DOMAIN <<>> |-> Leave]
      BY <1>1, NothingToLeave DEF Unwinds
    <3> QED
      BY <2>1, <3>1
  <2> QED
    BY <2>1
<1>2. CASE Runs(alive, frame, loose, self, todo)
  <2>1. PICK a : Ends(todo, a) /\ Fits(a, Len(frame) - 1, alive, frame, loose, self)
    BY <1>2 DEF Runs
  <2>2. PICK c \in Shapes : Does(Head(todo), a, c)
    BY <2>1, EndsFirst
  <2>3. Head(todo).do # "enter"
    OBVIOUS
  <2> QED
    BY <2>1, <2>2, <2>3, HasScope
<1> QED
  BY <1>1, <1>2 DEF Inductive

LEMMA LeavingKeeps ==
    ASSUME NEW scope \in Seq(Seq(Objects)), Inductive, todo # <<>>, Head(todo).do = "leave", frame # <<>>,
           Puts(frame', frame, scope), Lesser(scope, Last(frame)), Stay(alive, alive', frame),
           Safe(alive', handles', frame', loose', self'), loose' = loose, self' = self, todo' = todo
    PROVE  Inductive'
<1>1. frame \in Seq(Seq(Seq(Objects))) /\ todo \in Seq(Steps)
  BY SafeParts
<1>2. Len(frame') = Len(frame) /\ DOMAIN frame' = DOMAIN frame
  BY <1>1, Places
<1>3. Unwinds(frame', loose', todo') \/ Runs(alive', frame', loose', self', todo')
  <2>1. CASE Unwinds(frame, loose, todo)
    BY <1>2, <2>1 DEF Unwinds
  <2>2. CASE Runs(alive, frame, loose, self, todo)
    <3>1. PICK a : Ends(todo, a) /\ Fits(a, Len(frame) - 1, alive, frame, loose, self)
      BY <2>2 DEF Runs
    <3>2. Fits(a, Len(frame) - 1, alive', frame', loose, self)
      BY <1>1, <3>1, FitsLesser
    <3>3. Fits(a, Len(frame') - 1, alive', frame', loose', self') /\ Ends(todo', a) /\ todo' # <<>> /\ Head(todo').do = "leave"
      BY <1>2, <3>1, <3>2
    <3> QED
      BY <3>3 DEF Runs
  <2> QED
    BY <2>1, <2>2 DEF Inductive
<1> QED
  BY <1>1, <1>3 DEF Inductive, Idle

LEMMA FrontLesser ==
    ASSUME NEW l \in Seq(Seq(Objects)), NEW scope, l # <<>>, scope = Front(l), Last(l) = <<>>
    PROVE  /\ scope \in Seq(Seq(Objects)) /\ Lesser(scope, l) /\ ScopeObjects(scope) = ScopeObjects(l)
           /\ \A j, k : Spot(scope, j, k) => Spot(l, j, k) /\ Item(scope, j, k) = Item(l, j, k)
<1> DEFINE W == Seq(Objects)
           n == Len(l)
<1>1. scope \in Seq(W) /\ n \in Nat \ {0} /\ Len(scope) = n - 1 /\ \A j \in 1..n - 1 : scope[j] = l[j]
  <2>1. l \in Seq(W)
    OBVIOUS
  <2> HIDE DEF W
  <2> QED
    BY <2>1, FrontLast
<1>2. DOMAIN scope = 1..n - 1 /\ DOMAIN l = 1..n
  <2> HIDE DEF W
  <2> QED
    BY <1>1, LenProperties DEF W
<1> HIDE DEF n
<1>3. ScopeObjects(scope) = ScopeObjects(l)
  <2>1. ScopeObjects(l) = ScopeObjects(Front(l)) \cup ToSet(Last(l))
    BY ScopeObjectsAre, EmptySeq
  <2>2. ToSet(<<>>) = {}
    BY DEF ToSet
  <2> QED
    BY <2>1, <2>2
<1>4. \A j \in DOMAIN scope : j \in DOMAIN l /\ scope[j] = l[j]
  BY <1>1, <1>2
<1> HIDE DEF W
<1> QED
  BY <1>1, <1>3, <1>4 DEF Lesser, Spot, Item, W

\* The first object of the last local is gone.
Drops(g, l) == g = Append(Front(l), Tail(Last(l)))

LEMMA TailOf ==
    ASSUME NEW w \in Seq(Objects), w # <<>>
    PROVE  /\ Tail(w) \in Seq(Objects) /\ Len(w) \in Nat \ {0} /\ DOMAIN w = 1..Len(w) /\ DOMAIN Tail(w) = 1..Len(w) - 1
           /\ (\A k \in 1..Len(w) - 1 : Tail(w)[k] = w[k + 1] /\ k + 1 \in 1..Len(w))
           /\ Head(w) = w[1] /\ 1 \in 1..Len(w)
           /\ ToSet(w) = {Head(w)} \cup ToSet(Tail(w))
<1>1. Tail(w) \in Seq(Objects) /\ Len(Tail(w)) = Len(w) - 1 /\ \A k \in 1..Len(Tail(w)) : Tail(w)[k] = w[k + 1]
  BY HeadTailProperties
<1>2. Len(w) \in Nat \ {0} /\ DOMAIN w = 1..Len(w)
  BY EmptySeq, LenProperties
<1> DEFINE t == Tail(w)
           n == Len(w)
<1>3. DOMAIN t = 1..Len(t)
  <2>1. t \in Seq(Objects)
    BY <1>1
  <2> HIDE DEF t
  <2> QED
    BY <2>1, LenProperties
<1>4. ToSet(w) = {Head(w)} \cup ToSet(Tail(w)) /\ Head(w) = w[1]
  <2>1. w[1] \in Objects
    BY <1>2, ElementOfSeq
  <2> QED
    BY <2>1, OwnerObjects
<1>5. t \in Seq(Objects) /\ Len(t) = n - 1 /\ (\A k \in 1..Len(t) : t[k] = w[k + 1]) /\ n \in Nat \ {0} /\ DOMAIN w = 1..n
  BY <1>1, <1>2
<1> HIDE DEF t, n
<1>6. (\A k \in 1..n - 1 : t[k] = w[k + 1] /\ k + 1 \in 1..n) /\ 1 \in 1..n /\ DOMAIN t = 1..n - 1
  BY <1>3, <1>5
<1> QED
  BY <1>4, <1>5, <1>6 DEF t, n

\* What it has moves on by a place.
Beheads(g, l) ==
    \A j, k : Spot(g, j, k) =>
        /\ j \in Nat /\ k \in Nat \ {0}
        /\ Spot(l, j, IF j = Len(l) THEN k + 1 ELSE k)
        /\ Item(g, j, k) = Item(l, j, IF j = Len(l) THEN k + 1 ELSE k)

LEMMA DropsIs ==
    ASSUME NEW l \in Seq(Seq(Objects)), NEW g, l # <<>>, Last(l) # <<>>, Drops(g, l)
    PROVE  /\ g \in Seq(Seq(Objects)) /\ Lesser(g, l) /\ Beheads(g, l)
           /\ ScopeObjects(l) = ScopeObjects(g) \cup {Head(Last(l))}
           /\ Spot(l, Len(l), 1) /\ Item(l, Len(l), 1) = Head(Last(l)) /\ Len(l) \in Nat
<1> DEFINE W == Seq(Objects)
           n == Len(l)
           f == Front(l)
           w == Last(l)
           t == Tail(w)
           m == Len(w)
<1>1. /\ f \in Seq(W) /\ w \in W /\ w = l[n] /\ n \in Nat \ {0} /\ Len(f) = n - 1 /\ DOMAIN l = 1..n /\ l \in Seq(W)
      /\ \A j \in 1..n - 1 : f[j] = l[j]
  <2>1. l \in Seq(W)
    OBVIOUS
  <2> HIDE DEF W
  <2> QED
    BY <2>1, FrontLast, LenProperties
<1>2. /\ t \in W /\ m \in Nat \ {0} /\ DOMAIN w = 1..m /\ DOMAIN t = 1..m - 1
      /\ (\A k \in 1..m - 1 : t[k] = w[k + 1] /\ k + 1 \in 1..m)
      /\ Head(w) = w[1] /\ 1 \in 1..m
      /\ ToSet(w) = {Head(w)} \cup ToSet(t)
  <2>1. w \in Seq(Objects) /\ w # <<>>
    BY <1>1
  <2> HIDE DEF w
  <2> QED
    BY <2>1, TailOf
<1>3. ScopeObjects(l) = ScopeObjects(f) \cup ToSet(w) /\ ScopeObjects(Append(f, t)) = ScopeObjects(f) \cup ToSet(t)
  <2>1. f \in Seq(Seq(Objects)) /\ t \in Seq(Objects)
    BY <1>1, <1>2
  <2>2. ScopeObjects(l) = ScopeObjects(f) \cup ToSet(w)
    BY ScopeObjectsAre, EmptySeq
  <2> HIDE DEF f, t
  <2>3. ScopeObjects(Append(f, t)) = ScopeObjects(f) \cup ToSet(t)
    BY <2>1, ScopeObjectsAre
  <2> QED
    BY <2>2, <2>3
<1>4. g = Append(f, t)
  BY DEF Drops
<1> HIDE DEF f, w, t, n, m, W
<1> DEFINE h == Append(f, t)
<1>5. h \in Seq(W) /\ Len(h) = Len(f) + 1 /\ (\A j \in 1..Len(f) : h[j] = f[j]) /\ h[Len(f) + 1] = t
  BY <1>1, <1>2, AppendProperties
<1>6. ScopeObjects(h) = ScopeObjects(f) \cup ToSet(t)
  BY <1>3
<1> HIDE DEF h
<1>7. DOMAIN h = 1..n /\ h[n] = t /\ \A j \in 1..n : j # n => h[j] = l[j]
  <2>1. DOMAIN h = 1..Len(h) /\ Len(h) = n /\ h[n] = t
    BY <1>1, <1>5, LenProperties
  <2>2. \A j \in 1..n : j # n => j \in 1..n - 1
    BY <1>1
  <2> QED
    BY <1>1, <1>5, <2>1, <2>2
<1>8. Lesser(h, l)
  <2>1. ScopeObjects(h) \subseteq ScopeObjects(l)
    BY <1>2, <1>3, <1>6
  <2>2. \A j \in 1..n : ToSet(h[j]) \subseteq ToSet(l[j])
    BY <1>1, <1>2, <1>7
  <2> QED
    BY <1>1, <1>7, <2>1, <2>2 DEF Lesser
<1>9. Beheads(h, l)
  <2> SUFFICES ASSUME NEW j, NEW k, Spot(h, j, k)
               PROVE  /\ j \in Nat /\ k \in Nat \ {0}
                      /\ Spot(l, j, IF j = n THEN k + 1 ELSE k)
                      /\ Item(h, j, k) = Item(l, j, IF j = n THEN k + 1 ELSE k)
    BY DEF Beheads, n
  <2>1. j \in 1..n /\ k \in DOMAIN h[j]
    BY <1>7 DEF Spot
  <2>2. CASE j = n
    <3>1. k \in 1..m - 1 /\ h[j] = t /\ l[j] = w
      BY <1>1, <1>2, <1>7, <2>1, <2>2
    <3>2. t[k] = w[k + 1] /\ k + 1 \in DOMAIN w /\ k \in Nat \ {0}
      BY <1>2, <3>1
    <3> QED
      BY <1>1, <2>1, <2>2, <3>1, <3>2 DEF Spot, Item
  <2>3. CASE j # n
    <3>1. h[j] = l[j] /\ l[j] \in W
      BY <1>1, <1>7, <2>1, <2>3, ElementOfSeq
    <3>2. k \in Nat \ {0}
      BY <2>1, <3>1, LenProperties DEF W
    <3> QED
      BY <1>1, <2>1, <2>3, <3>1, <3>2 DEF Spot, Item
  <2> QED
    BY <2>2, <2>3
<1>10. Spot(l, n, 1) /\ Item(l, n, 1) = Head(w)
  BY <1>1, <1>2 DEF Spot, Item
<1>11. ScopeObjects(l) = ScopeObjects(h) \cup {Head(w)}
  BY <1>2, <1>3, <1>6
<1>12. g = h
  BY <1>4 DEF h
<1> QED
  BY <1>1, <1>5, <1>8, <1>9, <1>10, <1>11, <1>12 DEF W, w, n

LEMMA FrameBeheads ==
    ASSUME NEW fr \in Seq(Seq(Seq(Objects))), NEW g \in Seq(Seq(Objects)), NEW new, fr # <<>>, FrameOk(fr), Puts(new, fr, g),
           Beheads(g, Last(fr)), Len(Last(fr)) \in Nat
    PROVE  FrameOk(new)
<1>1. PICK z : z \notin Nat
  BY NoSetContainsEverything
<1> DEFINE o == [kind |-> "none", id |-> z, of |-> 0]
           p == 0
           q == 1
           m == Len(Last(fr))
<1>2. o.id = z /\ o.of = 0
  OBVIOUS
<1> HIDE DEF o
<1>3. AllOf(fr) \subseteq Objects
  BY FrameObjectsAre, EmptySeq
<1>4. \A r \in AllOf(fr) : r.of \in Nat /\ r.id \in Nat \ {0}
  BY <1>3 DEF Objects
<1>5. o.of # o.id /\ o \notin AllOf(fr) /\ \A r \in AllOf(fr) : r.of # o.id /\ r.id # o.of
  BY <1>1, <1>2, <1>4
<1>6. p \in {0, 1} /\ q \in {0, 1} /\ m \in Nat
  OBVIOUS
<1>7. Shifts(g, Last(fr), p, q, m, o)
  <2> DEFINE l == Last(fr)
  <2> SUFFICES ASSUME NEW j, NEW k, Spot(g, j, k)
               PROVE  /\ j \in Nat /\ k \in Nat
                      /\ Spot(l, j - 0, IF j = m THEN k + 1 ELSE k)
                      /\ Item(g, j, k) = Item(l, j - 0, IF j = m THEN k + 1 ELSE k)
    BY DEF Shifts
  <2>1. /\ j \in Nat /\ k \in Nat
        /\ Spot(l, j, IF j = m THEN k + 1 ELSE k)
        /\ Item(g, j, k) = Item(l, j, IF j = m THEN k + 1 ELSE k)
    BY DEF Beheads
  <2>2. j - 0 = j
    BY <2>1
  <2> QED
    BY <2>1, <2>2
<1> HIDE DEF p, q, m
<1> QED
  BY <1>5, <1>6, <1>7, FrameInScopeShift

\* What goes first: nothing left borrows from it, and it is nowhere else.
LEMMA FirstFree ==
    ASSUME NEW fr \in Seq(Seq(Seq(Objects))), NEW l, NEW h, fr # <<>>, FrameOk(fr), l = Last(fr), l # <<>>, Last(l) # <<>>,
           h = Head(Last(l))
    PROVE  /\ \A q \in AllOf(fr) : q.of # h.id
           /\ \A i, j, k : Place(fr, i, j, k) /\ Object(fr, i, j, k) = h => i = Len(fr) /\ j = Len(l) /\ k = 1
           /\ h \in ScopeObjects(l) /\ h \in AllOf(fr)
<1> DEFINE n == Len(fr)
           m == Len(l)
<1>1. l \in Seq(Seq(Objects)) /\ n \in DOMAIN fr /\ l = fr[n] /\ (\A j, k : Place(fr, n, j, k) <=> Spot(l, j, k)) /\ \A j, k : Object(fr, n, j, k) = Item(l, j, k)
  BY LastPlaces
<1>2. Spot(l, m, 1) /\ Item(l, m, 1) = h /\ m \in Nat
  <2> DEFINE g == Append(Front(l), Tail(Last(l)))
  <2>1. Drops(g, l)
    BY DEF Drops
  <2> HIDE DEF g
  <2> QED
    BY <1>1, <2>1, DropsIs
<1>3. Place(fr, n, m, 1) /\ Object(fr, n, m, 1) = h
  BY <1>1, <1>2
<1>4. n \in Nat /\ DOMAIN fr = 1..n
  BY LenProperties
<1>5. h \in AllOf(fr) /\ h \in ScopeObjects(l)
  BY <1>2, <1>3, AllOfPlace, InScopeSpot
<1> HIDE DEF n, m
<1>6. ASSUME NEW q \in AllOf(fr), q.of = h.id PROVE FALSE
  <2>1. PICK i, j, k : Place(fr, i, j, k) /\ Object(fr, i, j, k) = q
    BY AllOfPlace
  <2>2. Clear(q, i, j, k, h, n, m, 1)
    BY <1>3, <2>1, FrameClear
  <2>3. Before(i, j, k, n, m, 1)
    BY <1>6, <2>2 DEF Clear
  <2>4. i \in 1..n /\ fr[i] \in Seq(Seq(Objects))
    BY <1>4, <2>1, ElementOfSeq DEF Place
  <2>5. CASE i # n
    BY <1>4, <2>3, <2>4, <2>5 DEF Before
  <2>6. CASE i = n
    <3>1. Spot(l, j, k)
      BY <1>1, <2>1, <2>6
    <3>2. j \in 1..m /\ k \in DOMAIN l[j] /\ l[j] \in Seq(Objects)
      BY <1>1, <3>1, LenProperties, ElementOfSeq DEF Spot, m
    <3>3. k \in Nat \ {0}
      BY <3>2, LenProperties
    <3> QED
      BY <1>2, <1>4, <2>3, <2>6, <3>2, <3>3 DEF Before
  <2> QED
    BY <2>5, <2>6
<1>7. ASSUME NEW i, NEW j, NEW k, Place(fr, i, j, k), Object(fr, i, j, k) = h PROVE i = n /\ j = m /\ k = 1
  <2>1. Clear(h, i, j, k, h, n, m, 1)
    BY <1>3, <1>7, FrameClear
  <2> QED
    BY <2>1 DEF Clear
<1> QED
  BY <1>5, <1>6, <1>7 DEF n, m

LEMMA BeheadsGone ==
    ASSUME NEW fr \in Seq(Seq(Seq(Objects))), NEW l, NEW h, NEW g \in Seq(Seq(Objects)), NEW new, fr # <<>>, FrameOk(fr),
           l = Last(fr), l # <<>>, Last(l) # <<>>, h = Head(Last(l)), Drops(g, l), Puts(new, fr, g)
    PROVE  AllOf(new) = AllOf(fr) \ {h}
<1>1. l \in Seq(Seq(Objects))
  BY LastPlaces
<1>2. AllOf(fr) = Outer(fr) \cup ScopeObjects(l) /\ AllOf(new) = Outer(fr) \cup ScopeObjects(g) /\ Outer(fr) \cap ScopeObjects(l) = {}
  BY PutObjects
<1>3. ScopeObjects(l) = ScopeObjects(g) \cup {h} /\ Beheads(g, l)
  BY <1>1, DropsIs
<1>4. h \notin ScopeObjects(g)
  <2> SUFFICES ASSUME h \in ScopeObjects(g) PROVE FALSE
    OBVIOUS
  <2>1. PICK j, k : Spot(g, j, k) /\ Item(g, j, k) = h
    BY InScopeSpot
  <2> DEFINE k1 == IF j = Len(l) THEN k + 1 ELSE k
  <2>2. k \in Nat \ {0} /\ Spot(l, j, k1) /\ Item(l, j, k1) = h
    BY <1>3, <2>1 DEF Beheads
  <2> HIDE DEF k1
  <2>3. Place(fr, Len(fr), j, k1) /\ Object(fr, Len(fr), j, k1) = h
    BY <2>2, LastPlaces
  <2>4. j = Len(l) /\ k1 = 1
    BY <2>3, FirstFree
  <2> QED
    BY <2>2, <2>4 DEF k1
<1> QED
  BY <1>2, <1>3, <1>4

\* A raw pointer is to something that borrows from nothing.
LEMMA LooseFree ==
    ASSUME Inductive, NEW o \in loose
    PROVE  o.of = 0
<1>1. Runs(alive, frame, loose, self, todo)
  BY DEF Inductive, Unwinds
<1>2. PICK a : LooseAs(a, loose) /\ a \in Shapes
  BY <1>1 DEF Runs, Fits
<1>3. o.kind \in a.raw
  BY <1>2 DEF LooseAs
<1>4. o.kind = "sampler params"
  BY <1>2, <1>3, ShapeTypes
<1>5. Owned(alive, HandleSet(handles), AllOf(frame), loose)
  BY SafeParts
<1>6. o \in alive /\ ~Element(o)
  BY <1>5 DEF Owned
<1>7. o.of # 0 => o.kind \in Children
  BY <1>5, <1>6 DEF Owned, ParentOf
<1> QED
  BY <1>4, <1>7 DEF Children

\* The owner's destructor, whatever it deletes.
Without(B, A, o) == B = A \ ({o} \cup {e \in A : Element(e) /\ e.of = o.id})

LEMMA DeletedStays ==
    ASSUME NEW A, NEW H, NEW L, NEW B, NEW h, NEW fr \in Seq(Seq(Seq(Objects))), Owned(A, H, AllOf(fr), L), Without(B, A, h),
           h \in AllOf(fr), \A i, j, k : Place(fr, i, j, k) /\ Object(fr, i, j, k) = h => i = Len(fr)
    PROVE  Stay(A, B, fr)
<1> SUFFICES ASSUME NEW i \in DOMAIN fr, i # Len(fr), NEW k, Reached(A, fr[i], k) PROVE Reached(B, fr[i], k)
  BY DEF Stay
<1>1. ScopeObjects(fr[i]) \subseteq AllOf(fr)
  BY DEF AllOf
<1>2. h \notin ScopeObjects(fr[i])
  <2> SUFFICES ASSUME h \in ScopeObjects(fr[i]) PROVE FALSE
    OBVIOUS
  <2>1. PICK x, y : Spot(fr[i], x, y) /\ Item(fr[i], x, y) = h
    BY InScopeSpot
  <2>2. Place(fr, i, x, y) /\ Object(fr, i, x, y) = h
    BY <2>1 DEF Place, Object
  <2> QED
    BY <2>2
<1>3. B = A \ ({h} \cup {e \in A : Element(e) /\ e.of = h.id})
  BY DEF Without
<1> DEFINE scope == fr[i]
           F == AllOf(fr)
<1>4. ScopeObjects(scope) \subseteq F /\ h \notin ScopeObjects(scope) /\ Reached(A, scope, k) /\ h \in F \cup L /\ Owned(A, H, F, L)
  BY <1>1, <1>2
<1> HIDE DEF scope, F
<1>5. Reached(B, scope, k)
  BY <1>3, <1>4, ReachedStays
<1> QED
  BY <1>5 DEF scope

LEMMA DropLocalIs ==
    ASSUME DropLocal, NEW l, l = Last(frame)
    PROVE  /\ todo # <<>> /\ Head(todo).do = "leave" /\ l # <<>>
           /\ handles' = handles /\ loose' = loose /\ self' = self /\ todo' = todo
           /\ Last(l) = <<>> => Puts(frame', frame, Front(l)) /\ alive' = alive
           /\ Last(l) # <<>> => Puts(frame', frame, Append(Front(l), Tail(Last(l)))) /\ Without(alive', alive, Head(Last(l)))
BY DEF DropLocal, Scope, InScope, Puts, Without, Delete, At

LEMMA DropNoneKeeps ==
    ASSUME Inductive, DropLocal, NEW l, l = Last(frame), Last(l) = <<>>
    PROVE  Inductive'
<1> DEFINE g == Front(l)
<1>1. todo # <<>> /\ Head(todo).do = "leave" /\ l # <<>> /\ Puts(frame', frame, g)
  BY DropLocalIs
<1>2. alive' = alive /\ handles' = handles /\ loose' = loose /\ self' = self /\ todo' = todo
  BY DropLocalIs
<1>3. frame # <<>>
  BY <1>1, ScopeToLeave
<1>4. l \in Seq(Seq(Objects)) /\ frame \in Seq(Seq(Seq(Objects))) /\ FrameOk(frame)
  BY <1>3, SafeParts, LastPlaces
<1>5. g \in Seq(Seq(Objects)) /\ Lesser(g, l) /\ ScopeObjects(g) = ScopeObjects(l)
  BY <1>1, <1>4, FrontLesser
<1>6. \A j, k : Spot(g, j, k) => Spot(l, j, k) /\ Item(g, j, k) = Item(l, j, k)
  BY <1>1, <1>4, FrontLesser
<1> HIDE DEF g
<1>7. FrameOk(frame')
  BY <1>1, <1>3, <1>4, <1>5, <1>6, FrameInScope
<1>8. AllOf(frame') = AllOf(frame) /\ frame' \in Seq(Seq(Seq(Objects)))
  <2>1. AllOf(frame) = Outer(frame) \cup ScopeObjects(l) /\ AllOf(frame') = Outer(frame) \cup ScopeObjects(g)
    BY <1>1, <1>3, <1>4, <1>5, PutObjects
  <2>2. frame' \in Seq(Seq(Seq(Objects)))
    BY <1>1, <1>3, <1>4, <1>5, Places
  <2> QED
    BY <1>5, <2>1, <2>2
<1>9. Safe(alive', handles', frame', loose', self')
  BY <1>2, <1>7, <1>8, SafeParts DEF Safe
<1>10. Stay(alive, alive', frame)
  BY <1>2 DEF Stay
<1>11. Lesser(g, Last(frame))
  BY <1>5
<1> QED
  BY <1>1, <1>2, <1>3, <1>5, <1>9, <1>10, <1>11, LeavingKeeps

LEMMA DropSomeKeeps ==
    ASSUME Inductive, DropLocal, NEW l, l = Last(frame), Last(l) # <<>>
    PROVE  Inductive'
<1> DEFINE g == Append(Front(l), Tail(Last(l)))
           h == Head(Last(l))
<1>1. todo # <<>> /\ Head(todo).do = "leave" /\ l # <<>> /\ Puts(frame', frame, g) /\ Without(alive', alive, h)
  BY DropLocalIs
<1>2. handles' = handles /\ loose' = loose /\ self' = self /\ todo' = todo
  BY DropLocalIs
<1>3. frame # <<>>
  BY <1>1, ScopeToLeave
<1>4. frame \in Seq(Seq(Seq(Objects))) /\ FrameOk(frame) /\ Owned(alive, HandleSet(handles), AllOf(frame), loose)
  BY SafeParts
<1>5. l \in Seq(Seq(Objects))
  BY <1>3, <1>4, LastPlaces
<1>6. Drops(g, l)
  BY DEF Drops
<1> HIDE DEF g
<1>7. g \in Seq(Seq(Objects)) /\ Lesser(g, l) /\ Beheads(g, l) /\ Len(l) \in Nat
  BY <1>1, <1>5, <1>6, DropsIs
<1>8. (\A q \in AllOf(frame) : q.of # h.id) /\ h \in AllOf(frame)
  BY <1>1, <1>3, <1>4, FirstFree
<1>9. \A i, j, k : Place(frame, i, j, k) /\ Object(frame, i, j, k) = h => i = Len(frame)
  BY <1>1, <1>3, <1>4, FirstFree
<1>10. AllOf(frame') = AllOf(frame) \ {h}
  BY <1>1, <1>3, <1>4, <1>6, <1>7, BeheadsGone
<1> HIDE DEF h
<1>11. FrameOk(frame')
  BY <1>1, <1>3, <1>4, <1>7, FrameBeheads
<1>12. frame' \in Seq(Seq(Seq(Objects)))
  BY <1>1, <1>3, <1>4, <1>7, Places
<1>13. alive' = alive \ ({h} \cup {e \in alive : Element(e) /\ e.of = h.id})
  BY <1>1 DEF Without
<1>14. loose = loose \ {h} /\ \A q \in loose : q.of # h.id
  <2>1. h \notin loose
    BY <1>4, <1>8 DEF Owned
  <2>2. h.id # 0
    <3>1. h \in Objects
      BY <1>4, <1>8, SafeParts DEF Owned
    <3> QED
      BY <3>1 DEF Objects
  <2>3. \A q \in loose : q.of = 0
    BY LooseFree
  <2> QED
    BY <2>1, <2>2, <2>3
<1>15. Owned(alive', HandleSet(handles), AllOf(frame'), loose)
  BY <1>4, <1>8, <1>10, <1>13, <1>14, OwnedDelete
<1>16. alive' \in SUBSET Objects /\ IsFiniteSet(alive')
  <2>1. alive' \subseteq alive
    BY <1>13
  <2> QED
    BY <2>1, SafeParts, FS_Subset
<1>17. Safe(alive', handles', frame', loose', self')
  BY <1>2, <1>11, <1>12, <1>15, <1>16, SafeParts DEF Safe
<1>18. Stay(alive, alive', frame)
  BY <1>1, <1>4, <1>8, <1>9, DeletedStays
<1>19. Lesser(g, Last(frame))
  BY <1>7
<1> QED
  BY <1>1, <1>2, <1>3, <1>7, <1>17, <1>18, <1>19, LeavingKeeps

LEMMA DropKeeps ==
    ASSUME Inductive, DropLocal
    PROVE  Inductive'
<1> DEFINE l == Last(frame)
<1> HIDE DEF l
<1>1. l = Last(frame)
  BY DEF l
<1> QED
  BY <1>1, DropNoneKeeps, DropSomeKeeps

-----------------------------------------------------------------------------
(* A call, and a handle the client drops.                                  *)


-----------------------------------------------------------------------------
(* Between two calls.                                                      *)

LEMMA IdleIs ==
    ASSUME Inductive, Idle
    PROVE  frame = <<>> /\ loose = {} /\ self = NoObject
<1>1. todo = <<>> /\ self = NoObject
  BY DEF Inductive, Idle
<1>2. Unwinds(frame, loose, todo)
  BY <1>1 DEF Inductive, Runs
<1>3. todo = [i \in DOMAIN frame |-> Leave] /\ loose = {}
  BY <1>2 DEF Unwinds
<1> DEFINE f == [i \in DOMAIN frame |-> Leave]
<1>4. DOMAIN f = DOMAIN frame /\ f = <<>>
  BY <1>1, <1>3
<1> HIDE DEF f
<1>5. DOMAIN <<>> = {}
  OBVIOUS
<1>6. DOMAIN frame = {}
  BY <1>4, <1>5, Zenon
<1>7. DOMAIN frame = 1..Len(frame) /\ Len(frame) \in Nat
  BY SafeParts, LenProperties
<1>8. Len(frame) = 0
  BY <1>6, <1>7
<1>9. frame = <<>>
  BY <1>8, SafeParts, EmptySeq
<1> QED
  BY <1>1, <1>3, <1>9

\* What the client has to call a method on.
LEMMA CalleeIs ==
    ASSUME Inductive, NEW o \in {Head(h) : h \in handles} \cup {NoObject}
    PROVE  /\ o \in Objects \cup {NoObject} /\ o.kind \in Heads \cup {"none"}
           /\ o # NoObject => o \in HandleSet(handles)
<1>1. CASE o = NoObject
  BY <1>1 DEF NoObject
<1>2. CASE o \in {Head(h) : h \in handles}
  <2>1. PICK h \in handles : o = Head(h)
    BY <1>2
  <2>2. h \in Seq(Objects) /\ h # <<>> /\ h[1].kind \in Heads
    BY SafeParts DEF HandlesOk
  <2>3. Head(h) = h[1] /\ 1 \in DOMAIN h /\ ToSet(h) \subseteq Objects
    BY <2>2, TailOf, OwnerTypes
  <2>4. o \in ToSet(h) /\ o.kind \in Heads
    BY <2>1, <2>2, <2>3 DEF ToSet
  <2> QED
    BY <2>3, <2>4 DEF HandleSet
<1> QED
  BY <1>1, <1>2

LEMMA StartFits ==
    ASSUME NEW A, NEW s, NEW kind \in Kinds \cup {"none"}, s.kind = kind
    PROVE  Fits(Start(kind), Len(<<>>), A, <<>>, {}, s)
<1> DEFINE a == Start(kind)
           n == Len(<<>>)
           fr == <<>>
<1>1. a \in Shapes /\ a.depth = 0 /\ a.self = kind /\ a.raw = {} /\ a.open = {}
  BY StartIs
<1> HIDE DEF a
<1>2. n = 0 /\ DOMAIN fr = {} /\ 1..n = {}
  OBVIOUS
<1>3. AllOf(fr) = {}
  BY <1>2 DEF AllOf
<1>4. Len(fr) = a.depth /\ s.kind = a.self
  BY <1>1
<1> HIDE DEF fr, n
<1>5. Has(a, n, A, fr) /\ Known(a, fr) /\ OneKind(fr)
  BY <1>2 DEF Has, Known, OneKind
<1>6. Single(AllOf(fr), s) /\ Borrows(AllOf(fr))
  BY <1>3 DEF Single, Borrows
<1>7. LooseAs(a, {}) /\ ListAs(a.open, Last(fr))
  BY <1>1 DEF LooseAs, ListAs
<1>8. Fits(a, n, A, fr, {}, s)
  BY <1>1, <1>4, <1>5, <1>6, <1>7 DEF Fits
<1> QED
  BY <1>8 DEF a, n, fr

LEMMA BeginKeeps ==
    ASSUME Inductive, Begin
    PROVE  Inductive'
<1>1. Idle /\ alive' = alive /\ handles' = handles /\ frame' = frame /\ loose' = loose
  BY DEF Begin
<1>2. PICK o \in {Head(h) : h \in handles} \cup {NoObject} : \E steps \in Methods(o.kind) : self' = o /\ todo' = steps
  BY DEF Begin
<1>3. self' = o /\ todo' \in Methods(o.kind)
  BY <1>2
<1>4. frame = <<>> /\ loose = {}
  BY <1>1, IdleIs
<1>5. o \in Objects \cup {NoObject} /\ o.kind \in Heads \cup {"none"} /\ (o # NoObject => o \in HandleSet(handles))
  BY CalleeIs
<1> DEFINE kind == o.kind
           a == Start(kind)
           steps == todo'
<1>6. Fine(steps, a, a) /\ steps # <<>> /\ kind \in Kinds \cup {"none"}
  BY <1>3, <1>5, MethodFine
<1>7. a.depth = 0 /\ a.raw = {}
  BY <1>6, StartIs
<1>8. Ends(steps, a)
  BY <1>6, <1>7 DEF Ends
<1>9. Fits(a, Len(<<>>), alive, <<>>, {}, o)
  BY <1>6, StartFits
<1>10. steps \in Seq(Steps)
  BY <1>6 DEF Fine
<1>11. Safe(alive', handles', frame', loose', self')
  BY <1>1, <1>3, <1>5, SafeParts DEF Safe
<1> HIDE DEF a, steps
<1>12. Runs(alive, <<>>, {}, o, steps)
  <2>1. <<>> \in Seq(Seq(Seq(Objects)))
    OBVIOUS
  <2> QED
    BY <1>6, <1>8, <1>9, <2>1, RunsOn
<1>13. Runs(alive', frame', loose', self', todo')
  BY <1>1, <1>3, <1>4, <1>12 DEF steps
<1>14. todo' \in Seq(Steps) /\ todo' # <<>>
  BY <1>6, <1>10 DEF steps
<1> QED
  BY <1>11, <1>13, <1>14 DEF Inductive, Idle

LEMMA HandleKeeps ==
    ASSUME Inductive, DropHandle
    PROVE  Inductive'
<1>1. Idle /\ alive' = alive /\ loose' = loose /\ self' = self /\ todo' = <<Leave>>
  BY DEF DropHandle
<1>2. PICK h \in handles : /\ \A g \in handles \ {h}, i \in DOMAIN h : h[i].id \notin {o.of : o \in ToSet(g)}
                           /\ handles' = handles \ {h} /\ frame' = <<<<h>>>>
  BY DEF DropHandle
<1>3. frame = <<>> /\ loose = {} /\ self = NoObject
  BY <1>1, IdleIs
<1>4. h \in Seq(Objects) /\ HandlesOk(handles) /\ Alone(frame', h)
  BY <1>2, SafeParts DEF Alone
<1>5. HandleOk(h)
  BY <1>4 DEF HandlesOk, HandleOk
<1>6. frame' \in Seq(Seq(Seq(Objects))) /\ FrameOk(frame') /\ AllOf(frame') = ToSet(h) /\ Len(frame') = 1
  BY <1>4, <1>5, HandleFrame
<1>7. HandlesOk(handles') /\ HandleSet(handles') = HandleSet(handles) \ ToSet(h) /\ ToSet(h) \subseteq HandleSet(handles)
  BY <1>2, <1>4, HandlesDrop
<1> DEFINE H == HandleSet(handles)
           K == ToSet(h)
           I == HandleSet(handles')
<1>8. Owned(alive, H, {}, loose)
  <2>1. AllOf(<<>>) = {}
    BY EmptySeq, FrameObjectsAre
  <2> QED
    BY <1>3, <2>1, SafeParts
<1>9. \A o \in H \ K : \A p \in K : o.of # p.id
  <2> SUFFICES ASSUME NEW o \in H \ K, NEW p \in K, o.of = p.id PROVE FALSE
    OBVIOUS
  <2>1. PICK g \in handles : o \in ToSet(g)
    BY DEF HandleSet
  <2>2. g # h
    BY <2>1
  <2>3. PICK i \in DOMAIN h : h[i] = p
    BY DEF ToSet
  <2>4. h[i].id \notin {q.of : q \in ToSet(g)}
    BY <1>2, <2>2
  <2> QED
    BY <2>1, <2>3, <2>4
<1> HIDE DEF H, K, I
<1>10. K \subseteq H /\ I = H \ K
  BY <1>7 DEF H, K, I
<1>11. Owned(alive, I, K, loose)
  BY <1>8, <1>9, <1>10, OwnedDrop
<1>12. Safe(alive', handles', frame', loose', self')
  <2>1. handles' \in SUBSET Seq(Objects)
    BY <1>2, SafeParts
  <2>2. Owned(alive', HandleSet(handles'), AllOf(frame'), loose')
    BY <1>1, <1>6, <1>11 DEF I, K
  <2> QED
    BY <1>1, <1>3, <1>6, <1>7, <2>1, <2>2, SafeParts DEF Safe
<1>13. Unwinds(frame', loose', todo')
  <2>1. DOMAIN frame' = 1..1
    BY <1>6, LenProperties
  <2>2. <<Leave>> = [i \in 1..1 |-> Leave]
    OBVIOUS
  <2> QED
    BY <1>1, <1>3, <2>1, <2>2 DEF Unwinds
<1>14. todo' \in Seq(Steps) /\ todo' # <<>>
  <2>1. Leave \in Steps
    BY DEF Leave, StepOf, Steps, Doings
  <2> QED
    BY <1>1, <2>1
<1> QED
  BY <1>12, <1>13, <1>14 DEF Inductive, Idle

-----------------------------------------------------------------------------
(* The invariant, and what follows from it.                                *)


-----------------------------------------------------------------------------
(* The theorems.                                                           *)

LEMMA InitInductive ==
    ASSUME Init
    PROVE  Inductive
<1>1. alive = {} /\ handles = {} /\ frame = <<>> /\ loose = {} /\ self = NoObject /\ todo = <<>>
  BY DEF Init
<1>2. AllOf(<<>>) = {} /\ HandleSet({}) = {}
  BY EmptySeq, FrameObjectsAre DEF HandleSet
<1>3. Owned({}, {}, {}, {})
  BY DEF Owned, Unique
<1>4. FrameOk(<<>>)
  BY DEF FrameOk
<1>5. HandlesOk({})
  BY DEF HandlesOk
<1>6. IsFiniteSet({})
  BY FS_EmptySet
<1>7. <<>> \in Seq(Seq(Seq(Objects))) /\ <<>> \in Seq(Steps)
  OBVIOUS
<1>8. Safe({}, {}, <<>>, {}, NoObject)
  BY <1>2, <1>3, <1>4, <1>5, <1>6, <1>7 DEF Safe
<1> QED
  BY <1>1, <1>7, <1>8, NothingToLeave DEF Inductive

LEMMA StutterKeeps ==
    ASSUME Inductive, UNCHANGED vars
    PROVE  Inductive'
BY DEF Inductive, Idle, vars

LEMMA NextKeeps ==
    ASSUME Inductive, [Next]_vars
    PROVE  Inductive'
<1>1. CASE Begin
  BY <1>1, BeginKeeps
<1>2. CASE DropHandle
  BY <1>2, HandleKeeps
<1>3. CASE CallNative
  BY <1>3, CallKeeps
<1>4. CASE EnterScope
  BY <1>4, EnterKeeps
<1>5. CASE MakeObject
  BY <1>5, MakeKeeps
<1>6. CASE OpenList
  BY <1>6, ListKeeps
<1>7. CASE DeleteLoose
  BY <1>7, DeleteKeeps
<1>8. CASE MoveOut
  BY <1>8, MoveKeeps
<1>9. CASE DropLocal
  BY <1>9, DropKeeps
<1>10. CASE LeaveScope
  BY <1>10, LeaveKeeps
<1>11. CASE Fail
  BY <1>11, FailKeeps
<1>12. CASE UNCHANGED vars
  BY <1>12, StutterKeeps
<1> QED
  BY <1>1, <1>2, <1>3, <1>4, <1>5, <1>6, <1>7, <1>8, <1>9, <1>10, <1>11, <1>12 DEF Next

\* Whatever fails, and wherever a method is: each object has an owner, and
\* the steps left are right for what there is, or do nothing but unwind. The
\* methods of lib.rs, embedding.rs, conversation.rs, input.rs and the FFI's
\* build_conversation_state, called in any order.
THEOREM AlwaysInductive ==
    Spec => []Inductive
<1>1. Init => Inductive
  BY InitInductive
<1>2. Inductive /\ [Next]_vars => Inductive'
  BY NextKeeps
<1> QED
  BY <1>1, <1>2, PTL DEF Spec

LEMMA OwnedAlways ==
    ASSUME Inductive
    PROVE  Owned(alive, HandleObjects, FrameObjects, loose)
BY SafeParts, FrameIs

\* Every object has one kind of owner, once, and what borrows is to be
\* deleted before its parent: handles and locals as Rust's drop order has them.
THEOREM ObjectsKept ==
    Spec => []ObjectsInv
<1>1. Inductive => ObjectsInv
  <2> SUFFICES ASSUME Inductive PROVE ObjectsInv
    OBVIOUS
  <2>1. HandlesInv /\ FrameOk(frame)
    BY SafeParts DEF HandlesInv, HandlesOk
  <2>2. OwnersInv /\ ParentsInv
    BY OwnedAlways, OwnedIs
  <2>3. SelfInv
    BY SafeParts, FrameIs DEF SelfInv, Inductive
  <2> QED
    BY <2>1, <2>2, <2>3 DEF ObjectsInv
<1> QED
  BY <1>1, AlwaysInductive, PTL

\* Between two calls the client's handles own all there is: no method leaves a
\* native object behind, whichever step of it fails, the raw sampler params of
\* RawSessionConfig::new included.
THEOREM NothingIsLeaked ==
    Spec => []NothingLeaks
<1>1. Inductive => NothingLeaks
  <2> SUFFICES ASSUME Inductive, Idle PROVE alive = HandleObjects
    BY DEF NothingLeaks
  <2>1. frame = <<>> /\ loose = {}
    BY IdleIs
  <2>2. Owned(alive, HandleObjects, FrameObjects, loose)
    BY OwnedAlways
  <2>3. FrameObjects = {}
    <3>1. AllOf(<<>>) = {}
      BY EmptySeq, FrameObjectsAre
    <3> QED
      BY <2>1, <3>1, FrameIs
  <2>4. HandleObjects \subseteq alive
    BY <2>2 DEF Owned
  <2>5. ASSUME NEW o \in alive PROVE o \in HandleObjects
    <3>1. o \in HandleObjects \/ Element(o)
      BY <2>1, <2>2, <2>3 DEF Owned
    <3>2. ~Element(o)
      <4> SUFFICES ASSUME Element(o) PROVE FALSE
        OBVIOUS
      <4>1. o.of # 0
        BY DEF Element
      <4>2. PICK p \in alive : ParentOf(p, o, HandleObjects, FrameObjects, loose)
        BY <2>2, <4>1 DEF Owned
      <4> QED
        BY <2>3, <4>2 DEF ParentOf
    <3> QED
      BY <3>1, <3>2
  <2> QED
    BY <2>4, <2>5
<1> QED
  BY <1>1, AlwaysInductive, PTL

\* A session or conversation is never there without its engine, where only the
\* order of the fields of ConversationState says so too, and no answer of a
\* batch without its container.
THEOREM ParentsAreLive ==
    Spec => []ParentsLive
<1>1. Inductive => ParentsLive
  BY OwnedAlways DEF ParentsLive, Owned, ParentOf
<1> QED
  BY <1>1, AlwaysInductive, PTL

\* Every native call gets live objects of each kind it is to be given: no
\* config, list or engine the code passes on has been dropped before.
THEOREM ArgumentsAreLive ==
    Spec => []ArgumentsLive
<1>1. Inductive => ArgumentsLive
  <2> SUFFICES ASSUME Inductive, todo # <<>>, NEW k \in Head(todo).args
               PROVE  \E o \in InReach \cap alive : o.kind = k
    BY DEF ArgumentsLive, Idle
  <2>1. CASE Head(todo).do # "leave"
    <3>1. PICK a, c \in Shapes : Does(Head(todo), a, c) /\ Fits(a, Len(frame), alive, frame, loose, self)
      BY <2>1, StepIsDone
    <3>2. k \in Named(a) /\ Head(todo) \in Steps
      BY <3>1, DoesAny
    <3>3. k # "none"
      BY <3>2 DEF Steps, Kinds
    <3> QED
      BY <3>1, <3>2, <3>3, NamedReach
  <2>2. CASE Head(todo).do = "leave"
    <3>1. Head(todo) = Leave
      <4>1. CASE Unwinds(frame, loose, todo)
        <5>1. todo \in Seq(Steps) /\ todo # <<>>
          BY SafeParts
        <5>2. Head(todo) = todo[1] /\ 1 \in DOMAIN todo
          BY <5>1, EmptySeq, LenProperties
        <5> QED
          BY <4>1, <5>2 DEF Unwinds
      <4>2. CASE Runs(alive, frame, loose, self, todo)
        <5>1. PICK a : Ends(todo, a)
          BY <4>2 DEF Runs
        <5>2. PICK c : Does(Head(todo), a, c)
          BY <5>1, EndsFirst
        <5> QED
          BY <2>2, <5>2, DoesWhat DEF Leaving
      <4> QED
        BY <4>1, <4>2 DEF Inductive
    <3>2. Leave.args = {}
      BY DEF Leave, StepOf
    <3> QED
      BY <3>1, <3>2
  <2> QED
    BY <2>1, <2>2
<1> QED
  BY <1>1, AlwaysInductive, PTL

LEMMA AtMostOne ==
    ASSUME NEW S, \A x, y \in S : x = y
    PROVE  (Cardinality(S) = 0 \/ Cardinality(S) = 1) /\ (S = {} => Cardinality(S) = 0)
<1>1. CASE S = {}
  BY <1>1, FS_EmptySet
<1>2. CASE S # {}
  <2>1. PICK x \in S : S = {x}
    BY <1>2
  <2> QED
    BY <1>2, <2>1, FS_Singleton
<1> QED
  BY <1>1, <1>2

\* The handles, the places and the raw pointers that are to delete it.
HandlesOf(o) == {h \in handles : o \in ToSet(h)}

AllPlaces ==
    UNION {UNION {{<<i, j, k>> : k \in DOMAIN frame[i][j]} : j \in DOMAIN frame[i]} : i \in DOMAIN frame}

PlacesOf(o) == {p \in AllPlaces : frame[p[1]][p[2]][p[3]] = o}

LEMMA PlaceIs ==
    ASSUME NEW o, NEW p \in PlacesOf(o)
    PROVE  \E i, j, k : p = <<i, j, k>> /\ Place(frame, i, j, k) /\ Object(frame, i, j, k) = o
<1>1. p \in AllPlaces /\ frame[p[1]][p[2]][p[3]] = o
  BY DEF PlacesOf
<1>2. PICK i \in DOMAIN frame : p \in UNION {{<<i, j, k>> : k \in DOMAIN frame[i][j]} : j \in DOMAIN frame[i]}
  BY <1>1 DEF AllPlaces
<1>3. PICK j \in DOMAIN frame[i] : p \in {<<i, j, k>> : k \in DOMAIN frame[i][j]}
  BY <1>2
<1>4. PICK k \in DOMAIN frame[i][j] : p = <<i, j, k>>
  BY <1>3
<1>5. p[1] = i /\ p[2] = j /\ p[3] = k
  BY <1>4
<1>6. frame[i][j][k] = o
  BY <1>1, <1>5
<1> QED
  BY <1>4, <1>6 DEF Place, Object, Spot, Item

\* What an owner, a raw pointer or a container will delete is still there, and
\* nobody else will delete it: no destructor runs twice on an object, moved
\* out of its local or not.
THEOREM AllDeletedOnce ==
    Spec => []DeletedOnce
<1>1. Inductive => DeletedOnce
  <2> SUFFICES ASSUME Inductive PROVE DeletedOnce
    OBVIOUS
  <2>1. Owned(alive, HandleObjects, FrameObjects, loose)
    BY OwnedAlways
  <2>2. HandleObjects \cup FrameObjects \cup loose \subseteq alive
    BY <2>1 DEF Owned
  <2>3. ASSUME NEW o \in alive PROVE Deleters(o) <= 1
    <3> DEFINE S == HandlesOf(o)
               P == PlacesOf(o)
               R == {o} \cap loose
    <3>1. \A g, h \in S : g = h
      BY SafeParts DEF HandlesOf, HandlesOk
    <3>2. \A p, q \in P : p = q
      <4> SUFFICES ASSUME NEW p \in P, NEW q \in P PROVE p = q
        OBVIOUS
      <4>1. PICK i, j, k : p = <<i, j, k>> /\ Place(frame, i, j, k) /\ Object(frame, i, j, k) = o
        BY PlaceIs
      <4>2. PICK x, y, z : q = <<x, y, z>> /\ Place(frame, x, y, z) /\ Object(frame, x, y, z) = o
        BY PlaceIs
      <4>3. Clear(o, i, j, k, o, x, y, z)
        BY <4>1, <4>2, SafeParts, FrameClear
      <4>4. i = x /\ j = y /\ k = z
        BY <4>3 DEF Clear
      <4> QED
        BY <4>1, <4>2, <4>4
    <3>3. \A x, y \in R : x = y
      OBVIOUS
    <3>4. S # {} => o \in HandleObjects
      BY DEF HandlesOf, HandleObjects
    <3>5. P # {} => o \in FrameObjects
      <4> SUFFICES ASSUME NEW p \in P PROVE o \in FrameObjects
        OBVIOUS
      <4>1. \E i, j, k : Place(frame, i, j, k) /\ Object(frame, i, j, k) = o
        BY PlaceIs
      <4> QED
        BY <4>1, AllOfPlace, FrameIs
    <3>6. R # {} => o \in loose
      OBVIOUS
    <3>7. Deleters(o) = Cardinality(S) + Cardinality(P) + Cardinality(R) + (IF Element(o) THEN 1 ELSE 0)
      BY DEF Deleters, HandlesOf, PlacesOf, AllPlaces
    <3> HIDE DEF S, P, R
    <3> DEFINE cs == Cardinality(S)
               cp == Cardinality(P)
               cr == Cardinality(R)
    <3>8. (cs = 0 \/ cs = 1) /\ (S = {} => cs = 0)
      BY <3>1, AtMostOne
    <3>9. (cp = 0 \/ cp = 1) /\ (P = {} => cp = 0)
      BY <3>2, AtMostOne
    <3>10. (cr = 0 \/ cr = 1) /\ (R = {} => cr = 0)
      BY <3>3, AtMostOne
    <3>11. Deleters(o) = cs + cp + cr + (IF Element(o) THEN 1 ELSE 0)
      BY <3>7
    <3> HIDE DEF cs, cp, cr
    <3>12. CASE o \in HandleObjects
      <4>1. o \notin FrameObjects /\ o \notin loose /\ ~Element(o)
        BY <2>1, <3>12 DEF Owned
      <4>2. cp = 0 /\ cr = 0
        BY <3>5, <3>6, <3>9, <3>10, <4>1
      <4> QED
        BY <3>8, <3>11, <4>1, <4>2
    <3>13. CASE o \in FrameObjects
      <4>1. o \notin HandleObjects /\ o \notin loose /\ ~Element(o)
        BY <2>1, <3>13 DEF Owned
      <4>2. cs = 0 /\ cr = 0
        BY <3>4, <3>6, <3>8, <3>10, <4>1
      <4> QED
        BY <3>9, <3>11, <4>1, <4>2
    <3>14. CASE o \notin HandleObjects /\ o \notin FrameObjects
      <4>1. cs = 0 /\ cp = 0
        BY <3>4, <3>5, <3>8, <3>9, <3>14
      <4>2. o \in loose => ~Element(o)
        BY <2>1 DEF Owned
      <4>3. CASE o \in loose
        BY <3>10, <3>11, <4>1, <4>2, <4>3
      <4>4. CASE o \notin loose
        <5>1. cr = 0
          BY <3>6, <3>10, <4>4
        <5> QED
          BY <3>11, <4>1, <5>1
      <4> QED
        BY <4>3, <4>4
    <3> QED
      BY <3>12, <3>13, <3>14
  <2> QED
    BY <2>2, <2>3 DEF DeletedOnce
<1> QED
  BY <1>1, AlwaysInductive, PTL
=============================================================================
