---- MODULE DiscoveryProofs ----
(***************************************************************************)
(* Proofs about Discovery, for every set of entities, names, payloads and  *)
(* shapes of channels and for every bound.  The base is what every task is *)
(* at: the order of its plan, which step sent the publish it awaits, which *)
(* one writes its file.  Each property has an invariant of its own on top. *)
(***************************************************************************)
EXTENDS Discovery, FiniteSetTheorems, SequenceTheorems, TLAPS

----------------------------------------------------------------------------
(* Folds: a plan made of the plans of a finite set.                        *)

Choice(s) == CHOOSE x \in s : TRUE

IsFold(f, of, T) ==
    f = [s \in SUBSET T |-> IF s = {} THEN <<>> ELSE f[s \ {Choice(s)}] \o of[Choice(s)]]

\* ForEach is what its recursive function gives for the whole domain.
LEMMA Unfolded ==
    ASSUME NEW of
    PROVE  ForEach(of) = (CHOOSE f : IsFold(f, of, DOMAIN of))[DOMAIN of]
  BY DEF ForEach, FoldSet, MapThenFoldSet, IsFold, Choice

\* Among subsets of a finite set there is a smallest one.
LEMMA Minimal ==
    ASSUME NEW S, IsFiniteSet(S), NEW B \in SUBSET (SUBSET S), B # {}
    PROVE  \E T \in B : \A U \in B : U \subseteq T => U = T
<1>1. B \subseteq FiniteSubsetsOf(S)
  BY FS_Subset DEF FiniteSubsetsOf
<1>2. PICK T \in B : \A U \in B : ~ (<<U, T>> \in StrictSubsetOrdering(S))
  BY <1>1, FS_StrictSubsetOrderingWellFounded, WFMin
<1>3. ASSUME NEW U \in B, U \subseteq T PROVE U = T
  BY <1>2, <1>3 DEF StrictSubsetOrdering
<1> QED BY <1>3

\* The value of the recursive function for one set.
LEMMA FoldValues ==
    ASSUME NEW f, NEW of, NEW T, IsFold(f, of, T), NEW s \in SUBSET T
    PROVE  f[s] = IF s = {} THEN <<>> ELSE f[s \ {Choice(s)}] \o of[Choice(s)]
  BY DEF IsFold

\* A nonempty set has the element it chooses.
LEMMA ChoiceIn ==
    ASSUME NEW s, s # {}
    PROVE  Choice(s) \in s
  BY DEF Choice

\* Two folds agree where both are defined.
LEMMA FoldsAgree ==
    ASSUME NEW S, IsFiniteSet(S), NEW of, NEW T \in SUBSET S, NEW U \in SUBSET S,
           NEW f, IsFold(f, of, T), NEW g, IsFold(g, of, U), NEW s \in SUBSET (T \cap U)
    PROVE  f[s] = g[s]
<1> DEFINE Bad == {r \in SUBSET (T \cap U) : f[r] # g[r]}
<1> SUFFICES ASSUME Bad # {} PROVE FALSE
  OBVIOUS
<1>1. PICK r \in Bad : \A u \in Bad : u \subseteq r => u = r
  <2>1. Bad \in SUBSET (SUBSET S)
    OBVIOUS
  <2> HIDE DEF Bad
  <2> QED BY <2>1, Minimal
<1>2. r \in SUBSET T /\ r \in SUBSET U
  OBVIOUS
<1>3. r # {}
  BY <1>2, FoldValues
<1> DEFINE q == r \ {Choice(r)}
<1>4. Choice(r) \in r
  BY <1>3, ChoiceIn
<1>5. f[q] = g[q]
  <2>1. q \in SUBSET (T \cap U) /\ q \subseteq r /\ q # r
    BY <1>2, <1>4
  <2> QED BY <1>1, <2>1
<1>6. /\ f[r] = IF r = {} THEN <<>> ELSE f[q] \o of[Choice(r)]
      /\ g[r] = IF r = {} THEN <<>> ELSE g[q] \o of[Choice(r)]
  <2> HIDE DEF Bad
  <2> QED BY <1>2, FoldValues
<1>7. f[r] # g[r]
  OBVIOUS
<1> HIDE DEF Bad, q
<1> QED BY <1>3, <1>5, <1>6, <1>7, Zenon

\* Every finite set has a fold.
LEMMA FoldExists ==
    ASSUME NEW S, IsFiniteSet(S), NEW of
    PROVE  \E f : IsFold(f, of, S)
<1> DEFINE Bad == {r \in SUBSET S : ~ \E f : IsFold(f, of, r)}
<1> SUFFICES ASSUME Bad # {} PROVE FALSE
  OBVIOUS
<1>1. PICK T \in Bad : \A u \in Bad : u \subseteq T => u = T
  <2>1. Bad \in SUBSET (SUBSET S)
    OBVIOUS
  <2> HIDE DEF Bad
  <2> QED BY <2>1, Minimal
<1> DEFINE G(u) == CHOOSE f : IsFold(f, of, u)
<1>2. ASSUME NEW u \in SUBSET T, u # T PROVE IsFold(G(u), of, u)
  <2>1. u \notin Bad
    BY <1>1, <1>2
  <2>2. \E f : IsFold(f, of, u)
    BY <2>1
  <2> QED BY <2>2
<1> DEFINE Rest(s) == s \ {Choice(s)}
<1> DEFINE E(s) == IF s = {} THEN <<>> ELSE G(Rest(s))[Rest(s)] \o of[Choice(s)]
<1> DEFINE h == [s \in SUBSET T |-> E(s)]
<1>3. ASSUME NEW s \in SUBSET T, s # {} PROVE h[Rest(s)] = G(Rest(s))[Rest(s)]
  <2> DEFINE u == Rest(s)
  <2>1. u \in SUBSET T /\ u # T /\ IsFold(G(u), of, u)
    <3>1. Choice(s) \in s
      BY <1>3, ChoiceIn
    <3>2. u \in SUBSET T /\ u # T
      BY <3>1
    <3> HIDE DEF u, G
    <3> QED BY <1>2, <3>2
  <2>2. CASE u = {}
    <3>1. h[u] = <<>>
      BY <2>1, <2>2
    <3>2. G(u)[u] = <<>>
      <4> HIDE DEF u, G
      <4> QED BY <2>1, <2>2, FoldValues
    <3> QED BY <3>1, <3>2
  <2>3. CASE u # {}
    <3> DEFINE v == Rest(u)
    <3>1. Choice(u) \in u
      BY <2>3, ChoiceIn
    <3>2. v \in SUBSET T /\ v # T /\ v \in SUBSET u
      <4> HIDE DEF u
      <4> QED BY <2>1, <3>1
    <3>3. IsFold(G(v), of, v)
      <4> HIDE DEF v, G
      <4> QED BY <1>2, <3>2
    <3>4. G(u)[v] = G(v)[v]
      <4>1. v \in SUBSET (u \cap v) /\ u \in SUBSET S /\ v \in SUBSET S
        <5> HIDE DEF u, v
        <5> QED BY <2>1, <3>2
      <4> HIDE DEF u, v, G
      <4> QED BY <2>1, <3>3, <4>1, FoldsAgree
    <3>5. G(u)[u] = G(u)[v] \o of[Choice(u)]
      <4> HIDE DEF u, G
      <4> QED BY <2>1, <2>3, FoldValues
    <3>6. h[u] = G(v)[v] \o of[Choice(u)]
      <4> HIDE DEF u, G
      <4> QED BY <2>1, <2>3
    <3> QED BY <3>4, <3>5, <3>6
  <2> QED BY <2>2, <2>3
<1>4. IsFold(h, of, T)
  <2>1. h = [s \in SUBSET T |-> IF s = {} THEN <<>> ELSE h[Rest(s)] \o of[Choice(s)]]
    <3>1. \A s \in SUBSET T : h[s] = IF s = {} THEN <<>> ELSE h[Rest(s)] \o of[Choice(s)]
      <4> SUFFICES ASSUME NEW s \in SUBSET T
                   PROVE  h[s] = IF s = {} THEN <<>> ELSE h[Rest(s)] \o of[Choice(s)]
        OBVIOUS
      <4>1. h[s] = IF s = {} THEN <<>> ELSE G(Rest(s))[Rest(s)] \o of[Choice(s)]
        BY Zenon
      <4> HIDE DEF h, G, Rest
      <4> QED BY <1>3, <4>1
    <3>2. h = [s \in SUBSET T |-> h[s]]
      <4> HIDE DEF E
      <4> QED OBVIOUS
    <3> HIDE DEF h, Rest
    <3> QED BY <3>1, <3>2
  <2> HIDE DEF h
  <2> QED BY <2>1 DEF IsFold
<1>5. T \notin Bad
  <2> HIDE DEF h
  <2> QED BY <1>4
<1> QED BY <1>1, <1>5

\* What ForEach makes of a finite set of of: the plan of one of them comes
\* last, after what it makes of the others.
LEMMA ForEachValue ==
    ASSUME NEW S, IsFiniteSet(S), NEW of, DOMAIN of = S
    PROVE  \E f : IsFold(f, of, S) /\ ForEach(of) = f[S]
  BY Unfolded, FoldExists

\* Pairs of a set and a sequence: that of nothing is empty, and a plan goes
\* behind the sequence of the others.
Closed(Good, of) ==
    /\ <<{}, <<>>>> \in Good
    /\ \A r \in SUBSET DOMAIN of : \A x \in r : \A q :
          <<r \ {x}, q>> \in Good => <<r, q \o of[x]>> \in Good

\* Induction over the plans: what is closed has ForEach.
LEMMA ForEachInduction ==
    ASSUME NEW S, IsFiniteSet(S), NEW of, DOMAIN of = S,
           NEW Good, Closed(Good, of)
    PROVE  <<S, ForEach(of)>> \in Good
<1>1. PICK f : IsFold(f, of, S) /\ ForEach(of) = f[S]
  BY ForEachValue
<1> DEFINE Bad == {r \in SUBSET S : <<r, f[r]>> \notin Good}
<1> SUFFICES ASSUME Bad # {} PROVE FALSE
  BY <1>1
<1>2. PICK r \in Bad : \A u \in Bad : u \subseteq r => u = r
  <2>1. Bad \in SUBSET (SUBSET S)
    OBVIOUS
  <2> HIDE DEF Bad
  <2> QED BY <2>1, Minimal
<1>3. r # {}
  <2>1. f[{}] = <<>>
    BY <1>1, FoldValues
  <2> QED BY <2>1 DEF Closed
<1>4. Choice(r) \in r
  BY <1>3, ChoiceIn
<1> DEFINE q == r \ {Choice(r)}
<1>5. <<q, f[q]>> \in Good
  <2>1. q \in SUBSET S /\ q \subseteq r /\ q # r
    BY <1>4
  <2>2. q \notin Bad
    <3> HIDE DEF Bad, q
    <3> QED BY <1>2, <2>1
  <2>3. \A u \in SUBSET S : u \notin Bad => <<u, f[u]>> \in Good
    OBVIOUS
  <2> HIDE DEF Bad, q
  <2> QED BY <2>1, <2>2, <2>3
<1>6. f[r] = IF r = {} THEN <<>> ELSE f[q] \o of[Choice(r)]
  <2>1. r \in SUBSET S /\ IsFold(f, of, S)
    BY <1>1
  <2> HIDE DEF Bad
  <2> QED BY <2>1, FoldValues
<1>7. <<r, f[q] \o of[Choice(r)]>> \in Good
  <2>1. r \in SUBSET DOMAIN of
    OBVIOUS
  <2>2. \A p : <<r \ {Choice(r)}, p>> \in Good => <<r, p \o of[Choice(r)]>> \in Good
    <3> HIDE DEF Bad, q
    <3> QED BY <1>4, <2>1, Zenon DEF Closed
  <2> QED BY <1>5, <2>2
<1> QED BY <1>3, <1>6, <1>7

\* What a sequence consists of.
Items(q) == {q[i] : i \in 1..Len(q)}

\* Two sequences, one after the other, have the items of both.
LEMMA ConcatItems ==
    ASSUME NEW T, NEW p \in Seq(T), NEW q \in Seq(T)
    PROVE  Items(p \o q) = Items(p) \cup Items(q)
<1>1. /\ p \o q \in Seq(T)
      /\ Len(p \o q) = Len(p) + Len(q)
      /\ \A i \in 1..Len(p) + Len(q) : (p \o q)[i] = IF i <= Len(p) THEN p[i] ELSE q[i - Len(p)]
  BY ConcatProperties
<1>2. Len(p) \in Nat /\ Len(q) \in Nat
  BY LenProperties
<1>3. \A o \in Items(p) : o \in Items(p \o q)
  <2> TAKE o \in Items(p)
  <2>1. PICK i \in 1..Len(p) : o = p[i]
    BY DEF Items
  <2>2. i \in 1..Len(p \o q) /\ (p \o q)[i] = o
    BY <1>1, <1>2, <2>1
  <2> QED BY <2>2 DEF Items
<1>4. \A o \in Items(q) : o \in Items(p \o q)
  <2> TAKE o \in Items(q)
  <2>1. PICK i \in 1..Len(q) : o = q[i]
    BY DEF Items
  <2>2. Len(p) + i \in 1..Len(p \o q) /\ (p \o q)[Len(p) + i] = o
    BY <1>1, <1>2, <2>1
  <2> QED BY <2>2 DEF Items
<1>5. \A o \in Items(p \o q) : o \in Items(p) \cup Items(q)
  <2> TAKE o \in Items(p \o q)
  <2>1. PICK i \in 1..Len(p \o q) : o = (p \o q)[i]
    BY DEF Items
  <2>2. CASE i <= Len(p)
    <3>1. i \in 1..Len(p) /\ o = p[i]
      BY <1>1, <1>2, <2>1, <2>2
    <3> QED BY <3>1 DEF Items
  <2>3. CASE ~(i <= Len(p))
    <3>1. i - Len(p) \in 1..Len(q) /\ o = q[i - Len(p)]
      BY <1>1, <1>2, <2>1, <2>3
    <3> QED BY <3>1 DEF Items
  <2> QED BY <2>2, <2>3
<1> QED BY <1>3, <1>4, <1>5

\* ForEach consists of what its plans consist of.
LEMMA ForEachItems ==
    ASSUME NEW S, IsFiniteSet(S), NEW T, NEW of \in [S -> Seq(T)]
    PROVE  /\ ForEach(of) \in Seq(T)
           /\ Items(ForEach(of)) = UNION {Items(of[x]) : x \in S}
<1> DEFINE Of(r) == UNION {Items(of[x]) : x \in r}
<1> DEFINE Good == {p \in (SUBSET S) \X Seq(T) : Items(p[2]) = Of(p[1])}
<1>1. \A r \in SUBSET S : \A q \in Seq(T) : <<r, q>> \in Good <=> Items(q) = Of(r)
  OBVIOUS
<1>2. \A r, q : <<r, q>> \in Good => r \in SUBSET S /\ q \in Seq(T)
  OBVIOUS
<1>3. <<{}, <<>>>> \in Good
  <2>1. Items(<<>>) = {} /\ <<>> \in Seq(T)
    BY EmptySeq DEF Items
  <2>2. Of({}) = {}
    OBVIOUS
  <2> HIDE DEF Good, Of
  <2> QED BY <1>1, <2>1, <2>2
<1>4. ASSUME NEW r \in SUBSET S, NEW x \in r, NEW q, <<r \ {x}, q>> \in Good
      PROVE  <<r, q \o of[x]>> \in Good
  <2>1. q \in Seq(T) /\ Items(q) = Of(r \ {x})
    BY <1>4, <1>1, <1>2
  <2>2. of[x] \in Seq(T)
    OBVIOUS
  <2>3. q \o of[x] \in Seq(T)
    BY <2>1, <2>2, ConcatProperties
  <2>4. Items(q \o of[x]) = Items(q) \cup Items(of[x])
    BY <2>1, <2>2, ConcatItems
  <2>5. Of(r) = Of(r \ {x}) \cup Items(of[x])
    OBVIOUS
  <2> HIDE DEF Good, Of
  <2> QED BY <1>1, <2>1, <2>3, <2>4, <2>5
<1>5. DOMAIN of = S
  OBVIOUS
<1>6. Closed(Good, of)
  <2> HIDE DEF Good
  <2> QED BY <1>3, <1>4, <1>5 DEF Closed
<1>7. <<S, ForEach(of)>> \in Good
  <2> HIDE DEF Good
  <2> QED BY <1>5, <1>6, ForEachInduction
<1>8. ForEach(of) \in Seq(T) /\ Items(ForEach(of)) = Of(S)
  <2> HIDE DEF Good, Of
  <2> QED BY <1>1, <1>2, <1>7
<1> QED BY <1>8

----------------------------------------------------------------------------
(* How a task goes on.                                                     *)

Rest(q, k) == SubSeq(q, k + 1, Len(q))

\* The rest of a sequence behind its first k elements.
LEMMA RestOf ==
    ASSUME NEW T, NEW q \in Seq(T), NEW k \in 0..Len(q)
    PROVE  /\ Rest(q, k) \in Seq(T)
           /\ Len(Rest(q, k)) = Len(q) - k
           /\ \A i \in 1..Len(q) - k : Rest(q, k)[i] = q[k + i]
<1>1. Len(q) \in Nat /\ \A i \in 1..Len(q) : q[i] \in T
  BY LenProperties, ElementOfSeq
<1>2. /\ k + 1 \in Int /\ Len(q) \in Int
      /\ \A i \in k + 1..Len(q) : q[i] \in T
  BY <1>1
<1>3. /\ SubSeq(q, k + 1, Len(q)) \in Seq(T)
      /\ Len(SubSeq(q, k + 1, Len(q))) = IF k + 1 <= Len(q) THEN Len(q) - (k + 1) + 1 ELSE 0
      /\ \A i \in 1..Len(q) - (k + 1) + 1 : SubSeq(q, k + 1, Len(q))[i] = q[k + 1 + i - 1]
  BY <1>2, SubSeqProperties
<1> QED BY <1>1, <1>3 DEF Rest

\* A set of naturals that has an element has a least one, and Min finds it.
LEMMA MinIs ==
    ASSUME NEW S \in SUBSET Nat, S # {}
    PROVE  Min(S) \in S /\ \A j \in S : Min(S) <= j
<1> DEFINE T == {0..k : k \in S}
<1>1. T \subseteq FiniteSubsetsOf(Nat) /\ T # {}
  <2>1. \A k \in S : 0..k \in SUBSET Nat /\ IsFiniteSet(0..k)
    BY FS_Interval
  <2> QED BY <2>1 DEF FiniteSubsetsOf
<1>2. PICK x \in T : \A y \in T : ~ (<<y, x>> \in StrictSubsetOrdering(Nat))
  BY <1>1, FS_StrictSubsetOrderingWellFounded, WFMin
<1>3. PICK m \in S : x = 0..m
  OBVIOUS
<1>4. ASSUME NEW j \in S PROVE m <= j
  <2> SUFFICES ASSUME ~(m <= j) PROVE FALSE
    OBVIOUS
  <2>1. 0..j \subseteq 0..m /\ m \in 0..m /\ m \notin 0..j
    OBVIOUS
  <2>2. <<0..j, 0..m>> \in StrictSubsetOrdering(Nat)
    BY <2>1 DEF StrictSubsetOrdering
  <2> QED BY <1>2, <1>3, <2>2
<1> QED BY <1>4 DEF Min

\* A task leaves out the first steps of its plan, all of which pass.
LEMMA Continues ==
    ASSUME NEW w \in Tasks, NEW q \in Seq(Ops), NEW marks, NEW toSave,
           Continue(w, q, marks, toSave)
    PROVE  \E k \in 0..Len(q) :
              /\ todo' = [todo EXCEPT ![w] = Rest(q, k)]
              /\ \A i \in 1..k : Passed(q[i], marks, toSave)
<1> DEFINE next == {i \in 1..Len(q) : ~Passed(q[i], marks, toSave)}
<1>1. Len(q) \in Nat
  BY LenProperties
<1>2. todo' = [todo EXCEPT ![w] = IF next = {} THEN <<>> ELSE SubSeq(q, Min(next), Len(q))]
  BY DEF Continue
<1>3. CASE next = {}
  <2>1. Len(q) \in 0..Len(q) /\ \A i \in 1..Len(q) : Passed(q[i], marks, toSave)
    BY <1>1, <1>3
  <2>2. Rest(q, Len(q)) = <<>>
    BY <1>1, SubSeqEmpty DEF Rest
  <2>3. todo' = [todo EXCEPT ![w] = Rest(q, Len(q))]
    BY <1>2, <1>3, <2>2
  <2> QED BY <2>1, <2>3
<1>4. CASE next # {}
  <2> DEFINE n == Min(next)
  <2>1. n \in next /\ \A j \in next : n <= j
    <3>1. next \in SUBSET Nat
      OBVIOUS
    <3> HIDE DEF next
    <3> QED BY <1>4, <3>1, MinIs
  <2>2. todo' = [todo EXCEPT ![w] = SubSeq(q, n, Len(q))]
    BY <1>2, <1>4
  <2> HIDE DEF n
  <2>3. n \in 1..Len(q)
    BY <2>1
  <2>4. n - 1 \in 0..Len(q) /\ (n - 1) + 1 = n
    BY <1>1, <2>3
  <2>5. \A i \in 1..n - 1 : i \in 1..Len(q) /\ ~(n <= i)
    BY <1>1, <2>3
  <2>6. \A i \in 1..n - 1 : Passed(q[i], marks, toSave)
    BY <2>1, <2>5
  <2> QED BY <2>2, <2>4, <2>6 DEF Rest
<1> QED BY <1>3, <1>4

----------------------------------------------------------------------------
(* Plans.                                                                  *)

Up == phase # "down"

Setters == {"retract", "publish", "changed"}
Works == Setters \cup {"clear", "save", "flush", "ready"}

\* The fields a step of a plan has.
LEMMA OpsAre ==
    ASSUME NEW o \in Ops
    PROVE  /\ o.op \in Works \cup {"load", "resync", "alias", "announce"}
           /\ o.op \in Setters \cup {"clear", "announce"} => "topic" \in DOMAIN o
           /\ "topic" \in DOMAIN o => o.topic \in Topics
           /\ o.op \in {"publish", "changed"} => o.look \in Looks
           /\ o.op = "alias" => o.entity \in Entities /\ o.name \in Names
           /\ o.op = "announce" => o.entity \in Entities
<1>1. CASE o \in [op : {"load", "resync", "save", "flush", "ready"}]
  BY <1>1 DEF Works, Setters
<1>2. CASE o \in [op : {"clear", "retract"}, topic : Topics]
  BY <1>2 DEF Works, Setters
<1>3. CASE o \in [op : {"publish", "changed"}, topic : Topics, look : Looks]
  BY <1>3 DEF Works, Setters
<1>4. CASE o \in [op : {"alias"}, entity : Entities, name : Names]
  BY <1>4 DEF Works, Setters
<1>5. CASE o \in [op : {"announce"}, entity : Entities, topic : Topics]
  BY <1>5 DEF Works, Setters
<1> QED BY <1>1, <1>2, <1>3, <1>4, <1>5 DEF Ops

\* The topic of an entity of model m.
LEMMA TopicsOf ==
    ASSUME NEW m \in Models, NEW e \in Entities, Has(m, e)
    PROVE  /\ m[e].name \in Names /\ m[e].look \in Looks
           /\ TopicOf(m, e) \in Topics /\ TopicOf(m, e)[1] = e /\ TopicOf(m, e)[2] = m[e].name
           /\ TopicOf(m, e) \in Live(m)
<1>1. m[e] \in [name : Names, look : Looks]
  BY DEF Has, Models
<1>2. m[e].name \in Names /\ m[e].look \in Looks
  BY <1>1
<1>3. TopicOf(m, e) \in Topics /\ TopicOf(m, e)[1] = e /\ TopicOf(m, e)[2] = m[e].name
  BY <1>2 DEF TopicOf, Topics
<1> QED BY <1>2, <1>3 DEF Live

\* A live topic is that of an entity of the model.
LEMMA LiveTopics ==
    ASSUME NEW m \in Models, NEW t \in Live(m)
    PROVE  t \in Topics /\ t[1] \in Entities /\ Has(m, t[1]) /\ t = TopicOf(m, t[1])
<1>1. t \in Topics /\ t[1] \in Entities /\ t = <<t[1], t[2]>> /\ Has(m, t[1]) /\ m[t[1]].name = t[2]
  BY DEF Live, Topics
<1> QED BY <1>1 DEF TopicOf

\* Wanted payloads are those of the live topics.
LEMMA WantedIs ==
    ASSUME NEW m \in Models
    PROVE  /\ Wanted(m) \in Hashes
           /\ \A t \in Live(m) : Wanted(m)[t] \in Looks
           /\ \A t \in Topics \ Live(m) : Wanted(m)[t] = None
<1>1. \A t \in Live(m) : t \in Topics /\ m[t[1]].look \in Looks
  BY LiveTopics, TopicsOf
<1>2. \A t \in Topics : Wanted(m)[t] = IF t \in Live(m) THEN m[t[1]].look ELSE None
  BY DEF Wanted
<1>3. Wanted(m) = [t \in Topics |-> IF t \in Live(m) THEN m[t[1]].look ELSE None]
  BY DEF Wanted
<1>4. \A t \in Topics : (IF t \in Live(m) THEN m[t[1]].look ELSE None) \in Looks \cup {None}
  BY <1>1
<1>5. Wanted(m) \in Hashes
  BY <1>3, <1>4 DEF Hashes
<1> QED BY <1>1, <1>2, <1>5

\* A model has finitely many live topics.
LEMMA LiveIsFinite ==
    ASSUME NEW m \in Models
    PROVE  IsFiniteSet(Live(m))
<1> DEFINE Of == {e \in Entities : Has(m, e)}
<1>1. IsFiniteSet(Of)
  BY EntitiesAssumption, FS_Subset
<1> DEFINE f == [e \in Of |-> TopicOf(m, e)]
<1>2. f \in Surjection(Of, Live(m))
  <2>1. \A e \in Of : f[e] \in Live(m)
    BY TopicsOf
  <2>2. \A t \in Live(m) : t[1] \in Of /\ f[t[1]] = t
    BY LiveTopics
  <2> QED BY <2>1, <2>2, Zenon DEF Surjection
<1> QED
  <2> HIDE DEF Of, f
  <2> QED BY <1>1, <1>2, FS_Surjection

\* What is compiled is a model.
LEMMA CompileIsModel ==
    ASSUME sysap \in [Entities -> Shapes \cup {Gone}], ent \in [Entities -> Records]
    PROVE  Compile \in Models
<1> DEFINE C(e) == IF sysap[e] = Gone \/ ~ent[e].enabled THEN Gone
                   ELSE [name |-> IF ent[e].alias = None THEN sysap[e].name ELSE ent[e].alias,
                         look |-> sysap[e].look]
<1>1. ASSUME NEW e \in Entities PROVE C(e) \in [name : Names, look : Looks] \cup {Gone}
  <2>1. CASE sysap[e] = Gone \/ ~ent[e].enabled
    BY <2>1
  <2>2. CASE ~(sysap[e] = Gone \/ ~ent[e].enabled)
    <3>1. sysap[e] \in [name : Names, look : Looks]
      BY <2>2, ShapesAssumption
    <3>2. ent[e].alias \in Names \cup {None}
      BY DEF Records
    <3>3. (IF ent[e].alias = None THEN sysap[e].name ELSE ent[e].alias) \in Names /\ sysap[e].look \in Looks
      BY <3>1, <3>2
    <3> QED BY <2>2, <3>3
  <2> QED BY <2>1, <2>2
<1>2. Compile = [e \in Entities |-> C(e)]
  BY DEF Compile
<1> HIDE DEF C
<1> QED BY <1>1, <1>2 DEF Models

\* A compiled model obeys the entities' records.
LEMMA CompileValue ==
    ASSUME NEW e \in Entities
    PROVE  /\ Has(Compile, e) => ent[e].enabled
           /\ Has(Compile, e) /\ ent[e].alias # None => Compile[e].name = ent[e].alias
<1>1. Compile[e] = IF sysap[e] = Gone \/ ~ent[e].enabled THEN Gone
                   ELSE [name |-> IF ent[e].alias = None THEN sysap[e].name ELSE ent[e].alias,
                         look |-> sysap[e].look]
  BY DEF Compile
<1> QED BY <1>1 DEF Has

\* A setter is followed by a save.
SaveFollows(q) ==
    \A i \in 1..Len(q) : q[i].op \in Setters => \E j \in i + 1..Len(q) : q[j].op = "save"

\* A sequence of one.
LEMMA OneStep ==
    ASSUME NEW T, NEW o \in T
    PROVE  /\ <<o>> \in Seq(T) /\ Len(<<o>>) = 1 /\ <<o>>[1] = o /\ Items(<<o>>) = {o}
  BY DEF Items

\* The plans of one step without arguments.
LEMMA SaveIs ==
    /\ Save \in Seq(Ops) /\ Len(Save) = 1 /\ Save[1] = [op |-> "save"] /\ Items(Save) = {[op |-> "save"]}
    /\ \A o \in {"load", "resync", "flush", "ready"} :
          Op(o) \in Seq(Ops) /\ Len(Op(o)) = 1 /\ Op(o)[1] = [op |-> o] /\ Items(Op(o)) = {[op |-> o]}
<1>1. \A o \in {"load", "resync", "save", "flush", "ready"} : [op |-> o] \in Ops
  BY DEF Ops
<1> QED BY <1>1, OneStep DEF Save, Op

\* A save at the end follows every setter.
LEMMA ThenSave ==
    ASSUME NEW q \in Seq(Ops)
    PROVE  /\ q \o Save \in Seq(Ops)
           /\ SaveFollows(q \o Save)
           /\ Items(q \o Save) = Items(q) \cup {[op |-> "save"]}
<1>1. Save \in Seq(Ops) /\ Len(Save) = 1 /\ Save[1] = [op |-> "save"]
  BY SaveIs
<1>2. /\ q \o Save \in Seq(Ops)
      /\ Len(q \o Save) = Len(q) + Len(Save)
      /\ \A i \in 1..Len(q) + Len(Save) :
            (q \o Save)[i] = IF i <= Len(q) THEN q[i] ELSE Save[i - Len(q)]
  BY <1>1, ConcatProperties
<1>3. Len(q) \in Nat
  BY LenProperties
<1>4. (q \o Save)[Len(q) + 1].op = "save" /\ Len(q \o Save) = Len(q) + 1
  BY <1>1, <1>2, <1>3
<1>5. ASSUME NEW i \in 1..Len(q \o Save), (q \o Save)[i].op \in Setters
      PROVE  \E j \in i + 1..Len(q \o Save) : (q \o Save)[j].op = "save"
  <2>1. i # Len(q) + 1
    BY <1>4, <1>5 DEF Setters
  <2>2. Len(q) + 1 \in i + 1..Len(q \o Save)
    BY <1>3, <1>4, <2>1
  <2> QED BY <1>4, <2>2
<1>6. Items(q \o Save) = Items(q) \cup Items(Save)
  BY <1>1, ConcatItems
<1> QED BY <1>2, <1>5, <1>6, SaveIs DEF SaveFollows

\* Saves follow in two plans one after the other.
LEMMA SaveFollowsBoth ==
    ASSUME NEW p \in Seq(Ops), NEW q \in Seq(Ops), SaveFollows(p), SaveFollows(q)
    PROVE  SaveFollows(p \o q)
<1> DEFINE r == p \o q
<1>1. /\ r \in Seq(Ops)
      /\ Len(r) = Len(p) + Len(q)
      /\ \A i \in 1..Len(p) + Len(q) : r[i] = IF i <= Len(p) THEN p[i] ELSE q[i - Len(p)]
  BY ConcatProperties
<1>2. Len(p) \in Nat /\ Len(q) \in Nat
  BY LenProperties
<1> HIDE DEF r
<1>3. ASSUME NEW i \in 1..Len(r), r[i].op \in Setters
      PROVE  \E j \in i + 1..Len(r) : r[j].op = "save"
  <2>1. CASE i <= Len(p)
    <3>1. i \in 1..Len(p) /\ r[i] = p[i]
      BY <1>1, <1>2, <2>1
    <3>2. PICK j \in i + 1..Len(p) : p[j].op = "save"
      BY <1>3, <3>1 DEF SaveFollows
    <3>3. j \in i + 1..Len(r) /\ r[j] = p[j]
      BY <1>1, <1>2, <3>1, <3>2
    <3> QED BY <3>2, <3>3
  <2>2. CASE ~(i <= Len(p))
    <3>1. i - Len(p) \in 1..Len(q) /\ r[i] = q[i - Len(p)]
      BY <1>1, <1>2, <2>2
    <3>2. PICK j \in i - Len(p) + 1..Len(q) : q[j].op = "save"
      BY <1>3, <3>1 DEF SaveFollows
    <3>3. Len(p) + j \in i + 1..Len(r) /\ r[Len(p) + j] = q[j]
      BY <1>1, <1>2, <3>1, <3>2
    <3> QED BY <3>2, <3>3
  <2> QED BY <2>1, <2>2
<1> QED BY <1>3 DEF SaveFollows, r

\* A plan that only works.
Work(q) == q \in Seq(Ops) /\ SaveFollows(q) /\ \A o \in Items(q) : o.op \in Works

\* Two plans of work, one after the other.
LEMMA WorkBoth ==
    ASSUME NEW p, NEW q, Work(p), Work(q)
    PROVE  Work(p \o q) /\ Items(p \o q) = Items(p) \cup Items(q)
  BY ConcatProperties, ConcatItems, SaveFollowsBoth DEF Work

Publishes(how, m) == {[op |-> how, topic |-> t, look |-> Wanted(m)[t]] : t \in Live(m)}
Retracts(topics) == {[op |-> "retract", topic |-> t] : t \in topics}
Clears(topics) == {[op |-> "clear", topic |-> t] : t \in topics}
Saves == {[op |-> "save"]}

\* The steps of a publish of everything.
LEMMA PublishingIs ==
    ASSUME NEW m \in Models, NEW how \in {"publish", "changed"}
    PROVE  Work(Publishing(how, m)) /\ Items(Publishing(how, m)) = Publishes(how, m) \cup Saves
<1> DEFINE O(t) == [op |-> how, topic |-> t, look |-> Wanted(m)[t]]
<1> DEFINE of == [t \in Live(m) |-> <<O(t)>>]
<1>1. \A t \in Live(m) : O(t) \in Ops /\ O(t).op = how
  BY LiveTopics, WantedIs DEF Ops
<1>2. \A t \in Live(m) : of[t] = <<O(t)>> /\ <<O(t)>> \in Seq(Ops) /\ Items(<<O(t)>>) = {O(t)}
  BY <1>1, OneStep
<1>3. of \in [Live(m) -> Seq(Ops)]
  BY <1>2
<1>4. /\ ForEach(of) \in Seq(Ops)
      /\ Items(ForEach(of)) = UNION {Items(of[t]) : t \in Live(m)}
  <2> HIDE DEF of
  <2> QED BY <1>3, LiveIsFinite, ForEachItems
<1>5. UNION {Items(of[t]) : t \in Live(m)} = {O(t) : t \in Live(m)}
  <2> HIDE DEF of, O
  <2> QED BY <1>2
<1>6. Publishing(how, m) = ForEach(of) \o Save
  BY DEF Publishing
<1>7. {O(t) : t \in Live(m)} = Publishes(how, m)
  BY DEF Publishes
<1>8. Items(ForEach(of)) = Publishes(how, m)
  BY <1>4, <1>5, <1>7
<1> HIDE DEF of
<1>9. /\ Publishing(how, m) \in Seq(Ops)
      /\ SaveFollows(Publishing(how, m))
      /\ Items(Publishing(how, m)) = Publishes(how, m) \cup Saves
  BY <1>4, <1>6, <1>8, ThenSave DEF Saves
<1>10. \A o \in Publishes(how, m) \cup Saves : o.op \in Works
  BY DEF Publishes, Saves, Works, Setters
<1> QED BY <1>9, <1>10 DEF Work

\* The steps of a retraction.
LEMMA RetractingIs ==
    ASSUME NEW topics \in SUBSET Topics, IsFiniteSet(topics)
    PROVE  Work(Retracting(topics)) /\ Items(Retracting(topics)) = Retracts(topics) \cup Saves
<1> DEFINE O(t) == [op |-> "retract", topic |-> t]
<1> DEFINE of == [t \in topics |-> <<O(t)>>]
<1>1. \A t \in topics : O(t) \in Ops
  BY DEF Ops
<1>2. \A t \in topics : of[t] = <<O(t)>> /\ <<O(t)>> \in Seq(Ops) /\ Items(<<O(t)>>) = {O(t)}
  BY <1>1, OneStep
<1>3. of \in [topics -> Seq(Ops)]
  BY <1>2
<1>4. /\ ForEach(of) \in Seq(Ops)
      /\ Items(ForEach(of)) = UNION {Items(of[t]) : t \in topics}
  <2> HIDE DEF of
  <2> QED BY <1>3, ForEachItems
<1>5. UNION {Items(of[t]) : t \in topics} = {O(t) : t \in topics}
  <2> HIDE DEF of, O
  <2> QED BY <1>2
<1>6. Retracting(topics) = ForEach(of) \o Save
  BY DEF Retracting
<1>7. {O(t) : t \in topics} = Retracts(topics)
  BY DEF Retracts
<1>8. Items(ForEach(of)) = Retracts(topics)
  BY <1>4, <1>5, <1>7
<1> HIDE DEF of
<1>9. /\ Retracting(topics) \in Seq(Ops)
      /\ SaveFollows(Retracting(topics))
      /\ Items(Retracting(topics)) = Retracts(topics) \cup Saves
  BY <1>4, <1>6, <1>8, ThenSave DEF Saves
<1>10. \A o \in Retracts(topics) \cup Saves : o.op \in Works
  BY DEF Retracts, Saves, Works, Setters
<1> QED BY <1>9, <1>10 DEF Work

\* The steps that clear and retract one topic.
LEMMA ClearingIs ==
    ASSUME NEW t \in Topics
    PROVE  Work(Clearing(t)) /\ Items(Clearing(t)) = Clears({t}) \cup Retracts({t}) \cup Saves
<1> DEFINE o == [op |-> "clear", topic |-> t]
<1> DEFINE one == <<o>>
<1>1. o \in Ops
  BY DEF Ops
<1>2. one \in Seq(Ops) /\ Len(one) = 1 /\ one[1] = o /\ Items(one) = {o}
  BY <1>1, OneStep
<1>3. o.op = "clear" /\ {o} = Clears({t})
  BY DEF Clears
<1>4. Clearing(t) = one \o Retracting({t})
  BY DEF Clearing
<1> HIDE DEF one, o
<1>5. Work(one)
  <2>1. SaveFollows(one)
    BY <1>2, <1>3 DEF SaveFollows, Setters
  <2>2. \A p \in Items(one) : p.op \in Works
    BY <1>2, <1>3 DEF Works
  <2> QED BY <1>2, <2>1, <2>2 DEF Work
<1>6. Work(Retracting({t})) /\ Items(Retracting({t})) = Retracts({t}) \cup Saves
  BY RetractingIs, FS_Singleton
<1>7. Work(Clearing(t)) /\ Items(Clearing(t)) = Items(one) \cup Items(Retracting({t}))
  BY <1>4, <1>5, <1>6, WorkBoth
<1> QED BY <1>2, <1>3, <1>6, <1>7

\* The steps that clear and retract some topics.
LEMMA ClearingAll ==
    ASSUME NEW topics \in SUBSET Topics, IsFiniteSet(topics)
    PROVE  LET q == ForEach([t \in topics |-> Clearing(t)]) IN
           /\ Work(q)
           /\ Items(q) \subseteq Clears(topics) \cup Retracts(topics) \cup Saves
           /\ \A t \in topics : [op |-> "retract", topic |-> t] \in Items(q)
<1> DEFINE of == [t \in topics |-> Clearing(t)]
<1>1. \A t \in topics : of[t] = Clearing(t) /\ Work(of[t])
                        /\ Items(of[t]) = Clears({t}) \cup Retracts({t}) \cup Saves
  BY ClearingIs
<1>2. of \in [topics -> Seq(Ops)]
  BY <1>1 DEF Work
<1> HIDE DEF of
<1>3. /\ ForEach(of) \in Seq(Ops)
      /\ Items(ForEach(of)) = UNION {Items(of[t]) : t \in topics}
  BY <1>2, ForEachItems
<1> DEFINE Good == {p \in (SUBSET topics) \X Seq(Ops) : SaveFollows(p[2])}
<1>4. Closed(Good, of)
  <2>1. <<{}, <<>>>> \in Good
    <3>1. <<>> \in Seq(Ops) /\ Len(<<>>) = 0
      BY EmptySeq
    <3>2. SaveFollows(<<>>)
      BY <3>1 DEF SaveFollows
    <3> HIDE DEF SaveFollows
    <3> QED BY <3>1, <3>2
  <2>2. ASSUME NEW r \in SUBSET topics, NEW x \in r, NEW q, <<r \ {x}, q>> \in Good
        PROVE  <<r, q \o of[x]>> \in Good
    <3>1. q \in Seq(Ops) /\ SaveFollows(q)
      BY <2>2
    <3>2. of[x] \in Seq(Ops) /\ SaveFollows(of[x])
      BY <1>1 DEF Work
    <3>3. q \o of[x] \in Seq(Ops) /\ SaveFollows(q \o of[x])
      BY <3>1, <3>2, ConcatProperties, SaveFollowsBoth
    <3> QED BY <3>3
  <2>3. DOMAIN of = topics
    BY <1>2
  <2> HIDE DEF Good
  <2> QED BY <2>1, <2>2, <2>3 DEF Closed
<1>5. <<topics, ForEach(of)>> \in Good
  <2>1. DOMAIN of = topics
    BY <1>2
  <2> HIDE DEF Good
  <2> QED BY <1>4, <2>1, ForEachInduction
<1>6. SaveFollows(ForEach(of))
  BY <1>5
<1>7. Items(ForEach(of)) \subseteq Clears(topics) \cup Retracts(topics) \cup Saves
  BY <1>1, <1>3 DEF Clears, Retracts
<1>8. \A t \in topics : [op |-> "retract", topic |-> t] \in Items(ForEach(of))
  <2> TAKE t \in topics
  <2>1. [op |-> "retract", topic |-> t] \in Items(of[t])
    BY <1>1 DEF Retracts
  <2> QED BY <1>3, <2>1
<1>9. \A o \in Items(ForEach(of)) : o.op \in Works
  BY <1>7 DEF Clears, Retracts, Saves, Works, Setters
<1> QED BY <1>3, <1>6, <1>7, <1>8, <1>9 DEF Work, of

\* The empty plan, and a flush or the last step of the start.
LEMMA OpWork ==
    /\ Work(<<>>) /\ Items(<<>>) = {}
    /\ \A o \in {"flush", "ready"} : Work(Op(o))
<1>1. Work(<<>>) /\ Items(<<>>) = {}
  <2>1. <<>> \in Seq(Ops) /\ Len(<<>>) = 0
    BY EmptySeq
  <2>2. Items(<<>>) = {} /\ SaveFollows(<<>>)
    BY <2>1 DEF Items, SaveFollows
  <2> QED BY <2>1, <2>2 DEF Work
<1>2. ASSUME NEW o \in {"flush", "ready"} PROVE Work(Op(o))
  <2>1. Op(o) \in Seq(Ops) /\ Len(Op(o)) = 1 /\ Op(o)[1] = [op |-> o] /\ Items(Op(o)) = {[op |-> o]}
    BY SaveIs
  <2>2. SaveFollows(Op(o))
    BY <2>1 DEF SaveFollows, Setters
  <2>3. \A p \in Items(Op(o)) : p.op \in Works
    BY <2>1 DEF Works
  <2> QED BY <2>1, <2>2, <2>3 DEF Work
<1> QED BY <1>1, <1>2

\* The steps that are not work come in this order.
Ordered(w, q) ==
    \A i \in 1..Len(q) :
        /\ q[i].op = "alias" => i < Len(q) /\ q[i + 1].op = "resync"
        /\ q[i].op = "announce" => w = "api" /\ i = Len(q) /\ q[i].topic[1] = q[i].entity
        /\ q[i].op = "resync" => \/ w = "main" /\ i = Len(q)
                                 \/ w = "api" /\ i < Len(q) /\ q[i + 1].op = "announce"
        /\ q[i].op = "load" => w = "main" /\ Len(q) = 1

NoLoad(q) == \A i \in 1..Len(q) : q[i].op # "load"

Plan(w, q) == SaveFollows(q) /\ Ordered(w, q)

\* What is left of a plan after its first step is a plan.
LEMMA PlanTail ==
    ASSUME NEW w, NEW q \in Seq(Ops), q # <<>>, Plan(w, q)
    PROVE  Tail(q) \in Seq(Ops) /\ Plan(w, Tail(q)) /\ NoLoad(Tail(q))
<1> DEFINE r == Tail(q)
<1>1. /\ r \in Seq(Ops)
      /\ Len(r) = Len(q) - 1
      /\ \A i \in 1..Len(r) : r[i] = q[i + 1]
  BY HeadTailProperties
<1>2. Len(q) \in Nat \ {0}
  BY EmptySeq
<1> HIDE DEF r
<1>3. SaveFollows(r)
  <2> SUFFICES ASSUME NEW i \in 1..Len(r), r[i].op \in Setters
               PROVE  \E j \in i + 1..Len(r) : r[j].op = "save"
    BY DEF SaveFollows
  <2>1. i + 1 \in 1..Len(q) /\ q[i + 1].op \in Setters
    BY <1>1, <1>2
  <2>2. PICK j \in i + 1 + 1..Len(q) : q[j].op = "save"
    BY <2>1 DEF Plan, SaveFollows
  <2>3. j - 1 \in i + 1..Len(r) /\ r[j - 1] = q[j]
    BY <1>1, <1>2, <2>2
  <2> QED BY <2>2, <2>3
<1>4. Ordered(w, r) /\ NoLoad(r)
  BY <1>1, <1>2 DEF Plan, Ordered, NoLoad
<1> QED BY <1>1, <1>3, <1>4 DEF Plan, r

\* What is left of a plan after some steps is a plan.
LEMMA PlanRest ==
    ASSUME NEW w, NEW q \in Seq(Ops), Plan(w, q), NEW k \in 0..Len(q)
    PROVE  /\ Rest(q, k) \in Seq(Ops) /\ Plan(w, Rest(q, k))
           /\ NoLoad(q) => NoLoad(Rest(q, k))
<1> DEFINE r == Rest(q, k)
<1>1. /\ r \in Seq(Ops)
      /\ Len(r) = Len(q) - k
      /\ \A i \in 1..Len(q) - k : r[i] = q[k + i]
  BY RestOf
<1>2. Len(q) \in Nat /\ k \in Nat
  BY LenProperties
<1> HIDE DEF r
<1>3. SaveFollows(r)
  <2> SUFFICES ASSUME NEW i \in 1..Len(r), r[i].op \in Setters
               PROVE  \E j \in i + 1..Len(r) : r[j].op = "save"
    BY DEF SaveFollows
  <2>1. k + i \in 1..Len(q) /\ q[k + i].op \in Setters
    BY <1>1, <1>2
  <2>2. PICK j \in k + i + 1..Len(q) : q[j].op = "save"
    BY <2>1 DEF Plan, SaveFollows
  <2>3. j - k \in i + 1..Len(r) /\ r[j - k] = q[j]
    BY <1>1, <1>2, <2>2
  <2> QED BY <2>2, <2>3
<1>4. Ordered(w, r)
  <2> SUFFICES ASSUME NEW i \in 1..Len(r)
               PROVE  /\ r[i].op = "alias" => i < Len(r) /\ r[i + 1].op = "resync"
                      /\ r[i].op = "announce" => w = "api" /\ i = Len(r) /\ r[i].topic[1] = r[i].entity
                      /\ r[i].op = "resync" => \/ w = "main" /\ i = Len(r)
                                               \/ w = "api" /\ i < Len(r) /\ r[i + 1].op = "announce"
                      /\ r[i].op = "load" => w = "main" /\ Len(r) = 1
    BY DEF Ordered
  <2>1. k + i \in 1..Len(q) /\ r[i] = q[k + i]
    BY <1>1, <1>2
  <2>2. k + i < Len(q) => i + 1 \in 1..Len(r) /\ r[i + 1] = q[k + i + 1]
    <3> SUFFICES ASSUME k + i < Len(q) PROVE i + 1 \in 1..Len(r) /\ r[i + 1] = q[k + i + 1]
      OBVIOUS
    <3>1. i + 1 \in 1..Len(q) - k /\ k + (i + 1) = k + i + 1
      BY <1>1, <1>2
    <3> QED BY <1>1, <3>1
  <2>3. (i < Len(r) <=> k + i < Len(q)) /\ (i = Len(r) <=> k + i = Len(q))
    BY <1>1, <1>2
  <2>4. q[k + i].op = "load" => w = "main" /\ Len(q) = 1
    BY <2>1 DEF Plan, Ordered
  <2>5. Len(q) = 1 => Len(r) = 1
    BY <1>1, <1>2
  <2>6. /\ q[k + i].op = "alias" => k + i < Len(q) /\ q[k + i + 1].op = "resync"
        /\ q[k + i].op = "announce" => w = "api" /\ k + i = Len(q) /\ q[k + i].topic[1] = q[k + i].entity
        /\ q[k + i].op = "resync" => \/ w = "main" /\ k + i = Len(q)
                                     \/ w = "api" /\ k + i < Len(q) /\ q[k + i + 1].op = "announce"
    BY <2>1 DEF Plan, Ordered
  <2> QED BY <2>1, <2>2, <2>3, <2>4, <2>5, <2>6
<1>5. NoLoad(q) => NoLoad(r)
  BY <1>1, <1>2 DEF NoLoad
<1> QED BY <1>1, <1>3, <1>4, <1>5 DEF Plan, r

\* Work may be put before what is left of a plan.
LEMMA PlanAfterWork ==
    ASSUME NEW w, NEW p, Work(p), NEW q \in Seq(Ops), Plan(w, q), NoLoad(q)
    PROVE  p \o q \in Seq(Ops) /\ Plan(w, p \o q) /\ NoLoad(p \o q)
<1> DEFINE r == p \o q
<1>1. /\ r \in Seq(Ops)
      /\ Len(r) = Len(p) + Len(q)
      /\ \A i \in 1..Len(p) + Len(q) : r[i] = IF i <= Len(p) THEN p[i] ELSE q[i - Len(p)]
  BY ConcatProperties DEF Work
<1>2. Len(p) \in Nat /\ Len(q) \in Nat
  BY LenProperties DEF Work
<1>3. SaveFollows(r)
  BY SaveFollowsBoth DEF Work, Plan
<1> HIDE DEF r
<1>4. \A i \in 1..Len(p) : p[i].op \in Works
  BY DEF Work, Items
<1>5. {"alias", "announce", "resync", "load"} \cap Works = {}
  BY DEF Works, Setters
<1>6. \A i \in 1..Len(r) : r[i].op \in {"alias", "announce", "resync", "load"} =>
         i - Len(p) \in 1..Len(q) /\ r[i] = q[i - Len(p)]
  BY <1>1, <1>2, <1>4, <1>5
<1>7. \A i \in 1..Len(r) : i - Len(p) \in 1..Len(q) /\ i < Len(r) =>
         i + 1 \in 1..Len(r) /\ r[i + 1] = q[i - Len(p) + 1]
  BY <1>1, <1>2
<1>8. Ordered(w, r)
  <2> SUFFICES ASSUME NEW i \in 1..Len(r)
               PROVE  /\ r[i].op = "alias" => i < Len(r) /\ r[i + 1].op = "resync"
                      /\ r[i].op = "announce" => w = "api" /\ i = Len(r) /\ r[i].topic[1] = r[i].entity
                      /\ r[i].op = "resync" => \/ w = "main" /\ i = Len(r)
                                               \/ w = "api" /\ i < Len(r) /\ r[i + 1].op = "announce"
                      /\ r[i].op = "load" => w = "main" /\ Len(r) = 1
    BY DEF Ordered
  <2> SUFFICES ASSUME r[i].op \in {"alias", "announce", "resync", "load"}
               PROVE  /\ r[i].op = "alias" => i < Len(r) /\ r[i + 1].op = "resync"
                      /\ r[i].op = "announce" => w = "api" /\ i = Len(r) /\ r[i].topic[1] = r[i].entity
                      /\ r[i].op = "resync" => \/ w = "main" /\ i = Len(r)
                                               \/ w = "api" /\ i < Len(r) /\ r[i + 1].op = "announce"
                      /\ r[i].op = "load" => w = "main" /\ Len(r) = 1
    OBVIOUS
  <2> DEFINE h == i - Len(p)
  <2>1. h \in 1..Len(q) /\ r[i] = q[h]
    BY <1>6
  <2>2. (i < Len(r) <=> h < Len(q)) /\ (i = Len(r) <=> h = Len(q))
    BY <1>1, <1>2
  <2>3. i < Len(r) => r[i + 1] = q[h + 1]
    BY <1>7, <2>1
  <2> HIDE DEF h
  <2>4. /\ q[h].op = "alias" => h < Len(q) /\ q[h + 1].op = "resync"
        /\ q[h].op = "announce" => w = "api" /\ h = Len(q) /\ q[h].topic[1] = q[h].entity
        /\ q[h].op = "resync" => \/ w = "main" /\ h = Len(q)
                                 \/ w = "api" /\ h < Len(q) /\ q[h + 1].op = "announce"
        /\ q[h].op # "load"
    BY <2>1 DEF Plan, Ordered, NoLoad
  <2> QED BY <2>1, <2>2, <2>3, <2>4
<1>9. NoLoad(r)
  BY <1>6 DEF NoLoad
<1>10. r \in Seq(Ops)
  BY <1>1
<1> QED BY <1>3, <1>8, <1>9, <1>10 DEF Plan, r

\* A step is left or was among the first k.
LEMMA RestItems ==
    ASSUME NEW T, NEW q \in Seq(T), NEW k \in 0..Len(q)
    PROVE  /\ Items(Rest(q, k)) \subseteq Items(q)
           /\ \A o \in Items(q) : o \in Items(Rest(q, k)) \/ \E i \in 1..k : q[i] = o
<1> DEFINE r == Rest(q, k)
<1>1. /\ Len(r) = Len(q) - k
      /\ \A i \in 1..Len(q) - k : r[i] = q[k + i]
  BY RestOf
<1>2. Len(q) \in Nat /\ k \in Nat
  BY LenProperties
<1> HIDE DEF r
<1>3. \A i \in 1..Len(r) : k + i \in 1..Len(q) /\ r[i] = q[k + i]
  BY <1>1, <1>2
<1>4. \A i \in 1..Len(q) : i \in 1..k \/ (i - k \in 1..Len(r) /\ r[i - k] = q[i])
  BY <1>1, <1>2
<1>5. \A o \in Items(r) : o \in Items(q)
  BY <1>3 DEF Items
<1>6. \A o \in Items(q) : o \in Items(r) \/ \E i \in 1..k : q[i] = o
  <2> TAKE o \in Items(q)
  <2>1. PICK i \in 1..Len(q) : o = q[i]
    BY DEF Items
  <2>2. CASE i \in 1..k
    BY <2>1, <2>2
  <2>3. CASE i - k \in 1..Len(r) /\ r[i - k] = q[i]
    <3>1. r[i - k] \in Items(r)
      BY <2>3 DEF Items
    <3> QED BY <2>1, <2>3, <3>1
  <2> QED BY <1>4, <2>2, <2>3
<1> QED BY <1>5, <1>6 DEF r

\* A step is the first one or behind it.
LEMMA TailItems ==
    ASSUME NEW T, NEW q \in Seq(T), q # <<>>
    PROVE  Items(q) = {Head(q)} \cup Items(Tail(q)) /\ Head(q) = q[1] /\ Head(q) \in T
<1>1. /\ Head(q) \in T /\ Len(Tail(q)) = Len(q) - 1
      /\ \A i \in 1..Len(Tail(q)) : Tail(q)[i] = q[i + 1]
  BY HeadTailProperties
<1>2. Len(q) \in Nat \ {0} /\ Head(q) = q[1]
  BY EmptySeq
<1> DEFINE r == Tail(q)
<1>3. Len(r) = Len(q) - 1 /\ \A i \in 1..Len(r) : r[i] = q[i + 1]
  BY <1>1
<1> HIDE DEF r
<1>4. \A i \in 1..Len(r) : i + 1 \in 1..Len(q) /\ r[i] = q[i + 1]
  BY <1>2, <1>3
<1>5. \A i \in 1..Len(q) : i = 1 \/ (i - 1 \in 1..Len(r) /\ r[i - 1] = q[i])
  BY <1>2, <1>3
<1>6. 1 \in 1..Len(q)
  BY <1>2
<1>7. \A o \in Items(q) : o = q[1] \/ o \in Items(r)
  BY <1>5 DEF Items
<1>8. \A o \in Items(r) : o \in Items(q)
  BY <1>4 DEF Items
<1>9. q[1] \in Items(q)
  BY <1>6 DEF Items
<1> QED BY <1>1, <1>2, <1>7, <1>8, <1>9 DEF r

\* What a task is to do when it has gone on: what passes is left out.
LEMMA Goes ==
    ASSUME todo \in [Tasks -> Seq(Ops)], NEW w \in Tasks, todo[w] # <<>>, Plan(w, todo[w]),
           NEW more, Work(more), NEW marks, NEW toSave,
           Continue(w, more \o Tail(todo[w]), marks, toSave)
    PROVE  /\ todo' \in [Tasks -> Seq(Ops)]
           /\ \A v \in Tasks : v # w => todo'[v] = todo[v]
           /\ Plan(w, todo'[w]) /\ NoLoad(todo'[w])
           /\ Items(todo'[w]) \subseteq Items(more) \cup Items(Tail(todo[w]))
           /\ \A o \in Items(more) \cup Items(Tail(todo[w])) :
                 o \in Items(todo'[w]) \/ Passed(o, marks, toSave)
<1> DEFINE q == more \o Tail(todo[w])
<1>1. /\ Tail(todo[w]) \in Seq(Ops) /\ Plan(w, Tail(todo[w])) /\ NoLoad(Tail(todo[w]))
  BY PlanTail
<1>2. /\ q \in Seq(Ops) /\ Plan(w, q) /\ NoLoad(q)
      /\ Items(q) = Items(more) \cup Items(Tail(todo[w]))
  BY <1>1, PlanAfterWork, ConcatItems DEF Work
<1>3. Continue(w, q, marks, toSave)
  OBVIOUS
<1> HIDE DEF q
<1>4. PICK k \in 0..Len(q) :
              /\ todo' = [todo EXCEPT ![w] = Rest(q, k)]
              /\ \A i \in 1..k : Passed(q[i], marks, toSave)
  BY <1>2, <1>3, Continues
<1>5. /\ Rest(q, k) \in Seq(Ops) /\ Plan(w, Rest(q, k)) /\ NoLoad(Rest(q, k))
      /\ Items(Rest(q, k)) \subseteq Items(q)
      /\ \A o \in Items(q) : o \in Items(Rest(q, k)) \/ \E i \in 1..k : q[i] = o
  BY <1>2, PlanRest, RestItems
<1>6. todo'[w] = Rest(q, k) /\ \A v \in Tasks : v # w => todo'[v] = todo[v]
  BY <1>4
<1>7. todo' \in [Tasks -> Seq(Ops)]
  BY <1>4, <1>5
<1>8. \A o \in Items(q) : o \in Items(todo'[w]) \/ Passed(o, marks, toSave)
  BY <1>4, <1>5, <1>6
<1> QED BY <1>2, <1>5, <1>6, <1>7, <1>8

----------------------------------------------------------------------------
(* The wire.                                                               *)

\* A message more on the wire.
LEMMA AppendItems ==
    ASSUME NEW T, NEW q \in Seq(T), NEW m \in T
    PROVE  Append(q, m) \in Seq(T) /\ Items(Append(q, m)) = Items(q) \cup {m}
<1> DEFINE one == <<m>>
<1>1. one \in Seq(T) /\ Items(one) = {m}
  BY OneStep
<1>2. Append(q, m) \in Seq(T) /\ Append(q, m) = q \o one
  BY AppendProperties, AppendIsConcat
<1> HIDE DEF one
<1>3. Items(q \o one) = Items(q) \cup Items(one)
  BY <1>1, ConcatItems
<1> QED BY <1>1, <1>2, <1>3

\* A task awaits one publish.
Once(q) ==
    \A i, j \in 1..Len(q) : q[i].kind = "config" /\ q[j].kind = "config" /\ q[i].by = q[j].by => i = j

IsConfig(m, t) == m.kind = "config" /\ m.topic = t
IsClear(m, t) == m.kind = "clear" /\ m.topic = t
IsState(m, t) == m.kind = "state" /\ m.topic = t

\* Task w awaits m.
IsOf(m, w) == m.kind = "config" /\ m.by = w

\* A flush adds no publish that is awaited.
LEMMA OnceConcat ==
    ASSUME NEW q \in Seq(Messages), NEW f \in Seq(Messages), Once(q),
           \A m \in Items(f) : m.kind # "config"
    PROVE  Once(q \o f)
<1> DEFINE r == q \o f
<1>1. /\ Len(r) = Len(q) + Len(f)
      /\ \A i \in 1..Len(q) + Len(f) : r[i] = IF i <= Len(q) THEN q[i] ELSE f[i - Len(q)]
  BY ConcatProperties
<1>2. Len(q) \in Nat /\ Len(f) \in Nat
  BY LenProperties
<1> HIDE DEF r
<1>3. \A i \in 1..Len(f) : f[i].kind # "config"
  BY DEF Items
<1>4. \A i \in 1..Len(r) : i \in 1..Len(q) \/ i - Len(q) \in 1..Len(f)
  BY <1>1, <1>2
<1>5. \A i \in 1..Len(r) : r[i].kind = "config" => i \in 1..Len(q) /\ r[i] = q[i]
  BY <1>1, <1>2, <1>3, <1>4
<1>6. Once(r)
  BY <1>5 DEF Once
<1> QED BY <1>6 DEF r

\* A task that awaits nothing sends a publish.
LEMMA OnceAppend ==
    ASSUME NEW q \in Seq(Messages), NEW m \in Messages, Once(q),
           m.kind = "config" => \A n \in Items(q) : ~IsOf(n, m.by)
    PROVE  Once(Append(q, m))
<1> DEFINE r == Append(q, m)
<1>1. /\ Len(r) = Len(q) + 1 /\ r[Len(q) + 1] = m
      /\ \A i \in 1..Len(q) : r[i] = q[i]
  BY AppendProperties
<1>2. Len(q) \in Nat
  BY LenProperties
<1> HIDE DEF r
<1>3. \A i \in 1..Len(q) : m.kind = "config" => ~(q[i].kind = "config" /\ q[i].by = m.by)
  BY DEF Items, IsOf
<1>4. \A i \in 1..Len(r) : i = Len(q) + 1 \/ i \in 1..Len(q)
  BY <1>1, <1>2
<1>5. Once(r)
  BY <1>1, <1>3, <1>4 DEF Once
<1> QED BY <1>5 DEF r

\* The oldest message is gone; its task awaits no other.
LEMMA OnceTail ==
    ASSUME NEW q \in Seq(Messages), q # <<>>, Once(q)
    PROVE  /\ Once(Tail(q))
           /\ Head(q).kind = "config" => \A n \in Items(Tail(q)) : ~IsOf(n, Head(q).by)
<1> DEFINE r == Tail(q)
<1>1. /\ Len(r) = Len(q) - 1
      /\ \A i \in 1..Len(r) : r[i] = q[i + 1]
  BY HeadTailProperties
<1>2. Len(q) \in Nat \ {0} /\ Head(q) = q[1]
  BY EmptySeq
<1> HIDE DEF r
<1>3. \A i \in 1..Len(r) : i + 1 \in 1..Len(q) /\ i + 1 # 1 /\ r[i] = q[i + 1]
  BY <1>1, <1>2
<1>4. Once(r)
  <2> SUFFICES ASSUME NEW i \in 1..Len(r), NEW j \in 1..Len(r),
                      r[i].kind = "config", r[j].kind = "config", r[i].by = r[j].by
               PROVE  i = j
    BY DEF Once
  <2>1. i + 1 = j + 1
    BY <1>3 DEF Once
  <2> QED BY <1>1, <1>2, <2>1
<1>5. 1 \in 1..Len(q)
  BY <1>2
<1>6. \A i \in 1..Len(r) : q[1].kind = "config" => ~(r[i].kind = "config" /\ r[i].by = q[1].by)
  BY <1>3, <1>5 DEF Once
<1>7. Head(q).kind = "config" => \A n \in Items(r) : ~IsOf(n, Head(q).by)
  BY <1>2, <1>6 DEF Items, IsOf
<1> QED BY <1>4, <1>7 DEF r

\* A set of naturals with an upper bound and an element has a greatest one, and
\* Max finds it.
LEMMA MaxIs ==
    ASSUME NEW S \in SUBSET Nat, NEW n \in Nat, \A s \in S : s <= n, S # {}
    PROVE  Max(S) \in S /\ \A j \in S : j <= Max(S)
<1> DEFINE T == {k..n : k \in S}
<1>1. T \subseteq FiniteSubsetsOf(Nat) /\ T # {}
  <2>1. \A k \in S : k..n \in SUBSET Nat /\ IsFiniteSet(k..n)
    BY FS_Interval
  <2> QED BY <2>1 DEF FiniteSubsetsOf
<1>2. PICK x \in T : \A y \in T : ~ (<<y, x>> \in StrictSubsetOrdering(Nat))
  BY <1>1, FS_StrictSubsetOrderingWellFounded, WFMin
<1>3. PICK m \in S : x = m..n
  OBVIOUS
<1>4. ASSUME NEW j \in S PROVE j <= m
  <2> SUFFICES ASSUME ~(j <= m) PROVE FALSE
    OBVIOUS
  <2>1. j..n \subseteq m..n /\ m \in m..n /\ m \notin j..n
    OBVIOUS
  <2>2. <<j..n, m..n>> \in StrictSubsetOrdering(Nat)
    BY <2>1 DEF StrictSubsetOrdering
  <2> QED BY <1>2, <1>3, <2>2
<1>5. \A y \in S : m >= y
  BY <1>4
<1>6. Max(S) \in S /\ \A y \in S : Max(S) >= y
  BY <1>5 DEF Max
<1> DEFINE z == Max(S)
<1>7. z \in Nat /\ \A y \in S : y \in Nat /\ z >= y
  BY <1>6
<1> HIDE DEF z
<1>8. \A y \in S : y <= z
  BY <1>7
<1> QED BY <1>6, <1>8 DEF z

\* The last message of a topic among the first n.
LEMMA LastIs ==
    ASSUME wire \in Seq(Messages), NEW n \in 0..Len(wire), NEW t, NEW kinds
    PROVE  /\ Last(t, kinds, n) \in 0..n
           /\ Last(t, kinds, n) # 0 =>
                 wire[Last(t, kinds, n)].topic = t /\ wire[Last(t, kinds, n)].kind \in kinds
           /\ \A j \in 1..n : wire[j].topic = t /\ wire[j].kind \in kinds => j <= Last(t, kinds, n)
<1> DEFINE S == {0} \cup {i \in 1..n : wire[i].topic = t /\ wire[i].kind \in kinds}
<1>1. Len(wire) \in Nat /\ n \in Nat
  BY LenProperties
<1>2. S \in SUBSET Nat /\ S # {} /\ \A s \in S : s <= n
  BY <1>1
<1>3. Max(S) \in S /\ \A j \in S : j <= Max(S)
  <2> HIDE DEF S
  <2> QED BY <1>1, <1>2, MaxIs
<1>4. Last(t, kinds, n) = Max(S)
  BY DEF Last
<1> DEFINE m == Max(S)
<1> HIDE DEF m
<1>5. /\ m \in 0..n
      /\ m # 0 => wire[m].topic = t /\ wire[m].kind \in kinds
      /\ \A j \in 1..n : wire[j].topic = t /\ wire[j].kind \in kinds => j <= m
  BY <1>1, <1>3 DEF m
<1> QED BY <1>4, <1>5 DEF m

\* What the broker has when the first n messages have arrived.
LEMMA ArrivedIs ==
    ASSUME wire \in Seq(Messages), broker \in Hashes, states \in SUBSET Topics,
           NEW n \in 0..Len(wire), Arrived(n)
    PROVE  /\ broker' \in Hashes /\ states' \in SUBSET Topics
           /\ \A t \in Topics : (\A i \in 1..n : ~IsConfig(wire[i], t)) => broker'[t] = broker[t]
           /\ \A t \in Topics : \A i \in 1..n :
                 IsConfig(wire[i], t) /\ (\A j \in 1..n : IsConfig(wire[j], t) => j <= i) =>
                    broker'[t] = wire[i].look
           /\ \A t \in Topics : t \in states' <=>
                 \/ \E i \in 1..n : IsState(wire[i], t) /\ \A j \in i + 1..n : ~IsClear(wire[j], t)
                 \/ t \in states /\ \A i \in 1..n : ~IsClear(wire[i], t)
<1> DEFINE L(t) == Last(t, {"config"}, n)
           S(t) == Last(t, {"clear", "state"}, n)
<1>1. Len(wire) \in Nat /\ n \in Nat /\ \A i \in 1..n : i \in 1..Len(wire) /\ wire[i] \in Messages
  <2>1. Len(wire) \in Nat /\ n \in Nat /\ \A i \in 1..n : i \in 1..Len(wire)
    BY LenProperties
  <2> QED BY <2>1, ElementOfSeq
<1>2. \A i \in 1..n : wire[i].look \in Looks \cup {None}
  BY <1>1 DEF Messages
<1>3. broker' = [t \in Topics |-> IF L(t) = 0 THEN broker[t] ELSE wire[L(t)].look]
  BY DEF Arrived
<1>4. \A t \in Topics : /\ L(t) \in 0..n
                        /\ L(t) # 0 => wire[L(t)].topic = t /\ wire[L(t)].kind \in {"config"}
                        /\ \A j \in 1..n : wire[j].topic = t /\ wire[j].kind \in {"config"} => j <= L(t)
  BY LastIs
<1>5. states' = {t \in Topics : IF S(t) = 0 THEN t \in states ELSE wire[S(t)].kind = "state"}
  BY DEF Arrived
<1>6. \A t \in Topics : /\ S(t) \in 0..n
                        /\ S(t) # 0 => wire[S(t)].topic = t /\ wire[S(t)].kind \in {"clear", "state"}
                        /\ \A j \in 1..n : wire[j].topic = t /\ wire[j].kind \in {"clear", "state"} => j <= S(t)
  BY LastIs
<1> HIDE DEF L, S
<1>7. ASSUME NEW t \in Topics
      PROVE  /\ broker'[t] = IF L(t) = 0 THEN broker[t] ELSE wire[L(t)].look
             /\ broker'[t] \in Looks \cup {None}
  <2>1. L(t) # 0 => L(t) \in 1..n
    BY <1>1, <1>4
  <2> QED BY <1>2, <1>3, <2>1 DEF Hashes
<1>8. broker' \in Hashes
  BY <1>3, <1>7 DEF Hashes
<1>9. ASSUME NEW t \in Topics, \A i \in 1..n : ~IsConfig(wire[i], t)
      PROVE  broker'[t] = broker[t]
  <2>1. L(t) = 0
    BY <1>1, <1>4, <1>9 DEF IsConfig
  <2> QED BY <1>7, <2>1
<1>10. ASSUME NEW t \in Topics, NEW i \in 1..n, IsConfig(wire[i], t),
              \A j \in 1..n : IsConfig(wire[j], t) => j <= i
       PROVE  broker'[t] = wire[i].look
  <2>1. i <= L(t) /\ L(t) \in 0..n
    BY <1>4, <1>10 DEF IsConfig
  <2>2. L(t) \in 1..n /\ L(t) # 0
    BY <1>1, <2>1
  <2>3. L(t) <= i
    BY <1>4, <1>10, <2>2 DEF IsConfig
  <2>4. L(t) = i
    BY <1>1, <2>1, <2>3
  <2> QED BY <1>7, <2>2, <2>4
<1>11. ASSUME NEW t \in Topics
       PROVE  t \in states' <=>
                 \/ \E i \in 1..n : IsState(wire[i], t) /\ \A j \in i + 1..n : ~IsClear(wire[j], t)
                 \/ t \in states /\ \A i \in 1..n : ~IsClear(wire[i], t)
  <2> DEFINE s == S(t)
  <2>1. /\ s \in 0..n
        /\ s # 0 => s \in 1..n /\ wire[s].topic = t /\ wire[s].kind \in {"clear", "state"}
        /\ \A j \in 1..n : wire[j].topic = t /\ wire[j].kind \in {"clear", "state"} => j <= s
        /\ t \in states' <=> IF s = 0 THEN t \in states ELSE wire[s].kind = "state"
    BY <1>1, <1>5, <1>6
  <2> HIDE DEF s
  <2>2. CASE s = 0
    <3>1. \A i \in 1..n : ~IsClear(wire[i], t) /\ ~IsState(wire[i], t)
      BY <1>1, <2>1, <2>2 DEF IsClear, IsState
    <3> QED BY <2>1, <2>2, <3>1
  <2>3. CASE s # 0 /\ wire[s].kind = "state"
    <3>1. IsState(wire[s], t) /\ s \in 1..n
      BY <2>1, <2>3 DEF IsState
    <3>2. \A j \in s + 1..n : ~IsClear(wire[j], t)
      BY <1>1, <2>1, <2>3 DEF IsClear
    <3> QED BY <2>1, <2>3, <3>1, <3>2
  <2>4. CASE s # 0 /\ wire[s].kind # "state"
    <3>1. IsClear(wire[s], t) /\ s \in 1..n /\ ~IsState(wire[s], t)
      BY <2>1, <2>4 DEF IsClear, IsState
    <3>2. \A i \in 1..n : IsState(wire[i], t) => s \in i + 1..n
      <4> TAKE i \in 1..n
      <4> HAVE IsState(wire[i], t)
      <4>1. i <= s /\ i # s
        BY <2>1, <3>1 DEF IsState
      <4> QED BY <1>1, <3>1, <4>1
    <3> QED BY <2>1, <2>4, <3>1, <3>2
  <2> QED BY <2>2, <2>3, <2>4
<1>12. states' \in SUBSET Topics
  BY <1>5
<1> QED BY <1>8, <1>9, <1>10, <1>11, <1>12

\* The broker takes the first message.
LEMMA ArrivedOne ==
    ASSUME wire \in Seq(Messages), broker \in Hashes, states \in SUBSET Topics,
           wire # <<>>, Arrived(1)
    PROVE  /\ broker' \in Hashes /\ states' \in SUBSET Topics
           /\ \A t \in Topics :
                 broker'[t] = IF IsConfig(Head(wire), t) THEN Head(wire).look ELSE broker[t]
           /\ \A t \in Topics : t \in states' <=>
                 IsState(Head(wire), t) \/ (t \in states /\ ~IsClear(Head(wire), t))
<1>1. Head(wire) = wire[1] /\ 1 \in 0..Len(wire)
  BY EmptySeq
<1>2. 1..1 = {1} /\ 1 + 1..1 = {}
  OBVIOUS
<1>3. /\ broker' \in Hashes /\ states' \in SUBSET Topics
      /\ \A t \in Topics : (\A i \in 1..1 : ~IsConfig(wire[i], t)) => broker'[t] = broker[t]
      /\ \A t \in Topics : \A i \in 1..1 :
            IsConfig(wire[i], t) /\ (\A j \in 1..1 : IsConfig(wire[j], t) => j <= i) =>
               broker'[t] = wire[i].look
      /\ \A t \in Topics : t \in states' <=>
            \/ \E i \in 1..1 : IsState(wire[i], t) /\ \A j \in i + 1..1 : ~IsClear(wire[j], t)
            \/ t \in states /\ \A i \in 1..1 : ~IsClear(wire[i], t)
  BY <1>1, ArrivedIs
<1>4. \A t \in Topics : broker'[t] = IF IsConfig(wire[1], t) THEN wire[1].look ELSE broker[t]
  BY <1>2, <1>3
<1>5. \A t \in Topics : t \in states' <=>
                 IsState(wire[1], t) \/ (t \in states /\ ~IsClear(wire[1], t))
  BY <1>2, <1>3
<1> QED BY <1>1, <1>3, <1>4, <1>5

----------------------------------------------------------------------------
(* Types, and what every task is at.                                       *)

Recorded(h) == {t \in Topics : h[t] # None}

\* The records are finite.
FewRecorded ==
    /\ IsFiniteSet(Recorded(store)) /\ IsFiniteSet(Recorded(disk))
    /\ \A w \in Tasks : writes[w] # None => IsFiniteSet(Recorded(writes[w]))

\* Nothing is left of a process that ended.
DownIsDown ==
    ~Up => /\ wire = <<>> /\ model = NoModel
           /\ \A w \in Tasks : Idle(w) /\ ~unsaved[w] /\ writes[w] = None

ValueOf(o) == IF o.op = "retract" THEN None ELSE o.look

\* Message m was sent by the step its task is at.
SentBy(m, w) ==
    /\ todo[w] # <<>> /\ writes[w] = None
    /\ Head(todo[w]).op \in Setters
    /\ m.topic = Head(todo[w]).topic /\ m.look = ValueOf(Head(todo[w]))

Awaited == \A m \in Items(wire) : m.kind = "config" => SentBy(m, m.by)

Writing ==
    \A w \in Tasks : writes[w] # None =>
        todo[w] # <<>> /\ Head(todo[w]).op = "save" /\ ~unsaved[w]

AllPlans == \A w \in Tasks : Plan(w, todo[w])

Loading == todo["main"] # <<>> /\ Head(todo["main"]).op = "load"

\* Nothing else happens before the first compile.
LoadsAlone == Loading => model = NoModel /\ Idle("api") /\ Idle("birth")

Base ==
    TypeOK /\ FewRecorded /\ DownIsDown /\ Awaited /\ Writing /\ AllPlans /\ LoadsAlone

\* Who does not wait neither writes nor has a publish on the wire.
LEMMA NotWaiting ==
    ASSUME NEW w \in Tasks, ~Waits(w)
    PROVE  writes[w] = None /\ \A m \in Items(wire) : ~IsOf(m, w)
  BY DEF Waits, Items, IsOf

\* Task w is at a step o and does not wait.
LEMMA AtStep ==
    ASSUME TypeOK, NEW w \in Tasks, NEW o, Head1(w, o)
    PROVE  /\ todo[w] # <<>> /\ Head(todo[w]).op = o /\ Head(todo[w]) \in Ops
           /\ writes[w] = None /\ \A m \in Items(wire) : ~IsOf(m, w)
           /\ Up \/ ~DownIsDown
<1>1. todo[w] # <<>> /\ Head(todo[w]).op = o /\ ~Waits(w)
  BY DEF Head1, Idle
<1>2. Head(todo[w]) \in Ops
  BY <1>1, HeadTailProperties DEF TypeOK
<1>3. Up \/ ~DownIsDown
  BY <1>1 DEF DownIsDown, Idle
<1> QED BY <1>1, <1>2, <1>3, NotWaiting

\* Task w, at a step that is done, goes on to the rest of its plan, behind more.
Onward(w, more, marks, toSave) ==
    /\ todo[w] # <<>>
    /\ todo' \in [Tasks -> Seq(Ops)]
    /\ \A v \in Tasks : v # w => todo'[v] = todo[v]
    /\ Plan(w, todo'[w]) /\ NoLoad(todo'[w])
    /\ Items(todo'[w]) \subseteq Items(more) \cup Items(Tail(todo[w]))
    /\ \A o \in Items(more) \cup Items(Tail(todo[w])) :
          o \in Items(todo'[w]) \/ Passed(o, marks, toSave)

\* A task that continues behind more work goes onward.
LEMMA Onwards ==
    ASSUME TypeOK, AllPlans, NEW w \in Tasks, todo[w] # <<>>, NEW more, Work(more),
           NEW marks, NEW toSave, Continue(w, more \o Tail(todo[w]), marks, toSave)
    PROVE  Onward(w, more, marks, toSave)
  BY Goes DEF TypeOK, AllPlans, Onward

\* A task that continues with the rest of its plan goes onward.
LEMMA Simply ==
    ASSUME TypeOK, AllPlans, NEW w \in Tasks, todo[w] # <<>>, NEW marks, NEW toSave,
           \/ Continue(w, <<>> \o Tail(todo[w]), marks, toSave)
           \/ Continue(w, Tail(todo[w]), marks, toSave)
    PROVE  Onward(w, <<>>, marks, toSave)
<1>1. <<>> \o Tail(todo[w]) = Tail(todo[w])
  BY ConcatEmptySeq, HeadTailProperties DEF TypeOK
<1> QED BY <1>1, Onwards, OpWork

LoadPlan ==
    Retracting(Recorded(store) \ Live(Compile)) \o Publishing("changed", Compile) \o Op("flush")
    \o Op("ready")

\* The plan of the cold start.
LEMMA LoadPlanIs ==
    ASSUME TypeOK, FewRecorded
    PROVE  /\ Work(LoadPlan)
           /\ Items(LoadPlan) = Retracts(Recorded(store) \ Live(Compile))
                 \cup Publishes("changed", Compile) \cup Saves
                 \cup {[op |-> "flush"], [op |-> "ready"]}
<1> DEFINE p == Retracting(Recorded(store) \ Live(Compile))
           q == Publishing("changed", Compile)
           f == Op("flush")
           r == Op("ready")
<1>1. Compile \in Models
  BY CompileIsModel DEF TypeOK
<1>2. Recorded(store) \ Live(Compile) \in SUBSET Topics /\ IsFiniteSet(Recorded(store) \ Live(Compile))
  BY FS_Difference DEF FewRecorded, Recorded
<1>3. Work(p) /\ Items(p) = Retracts(Recorded(store) \ Live(Compile)) \cup Saves
  <2> DEFINE topics == Recorded(store) \ Live(Compile)
  <2> HIDE DEF topics
  <2> QED BY <1>2, RetractingIs DEF topics
<1>4. Work(q) /\ Items(q) = Publishes("changed", Compile) \cup Saves
  BY <1>1, PublishingIs
<1>5. Work(f) /\ Items(f) = {[op |-> "flush"]} /\ Work(r) /\ Items(r) = {[op |-> "ready"]}
  BY OpWork, SaveIs
<1>6. LoadPlan = p \o q \o f \o r
  BY DEF LoadPlan
<1> HIDE DEF p, q, f, r
<1>7. Work(p \o q) /\ Items(p \o q) = Items(p) \cup Items(q)
  BY <1>3, <1>4, WorkBoth
<1>8. Work(p \o q \o f) /\ Items(p \o q \o f) = Items(p) \cup Items(q) \cup Items(f)
  BY <1>5, <1>7, WorkBoth
<1>9. Work(p \o q \o f \o r) /\ Items(p \o q \o f \o r) = Items(p) \cup Items(q) \cup Items(f) \cup Items(r)
  BY <1>5, <1>8, WorkBoth
<1> QED BY <1>3, <1>4, <1>5, <1>6, <1>9

\* The cold start goes onward with its plan.
LEMMA Loads ==
    ASSUME TypeOK, FewRecorded, AllPlans, Load
    PROVE  Onward("main", LoadPlan, store, unsaved["main"])
<1>1. "main" \in Tasks
  BY DEF Tasks
<1>2. todo["main"] # <<>>
  BY <1>1, AtStep DEF Load
<1>3. {t \in Topics : store[t] # None} \ Live(Compile) = Recorded(store) \ Live(Compile)
  BY DEF Recorded
<1>4. Continue("main", LoadPlan \o Tail(todo["main"]), store, unsaved["main"])
  BY <1>3 DEF Load, Proceed, LoadPlan
<1> QED BY <1>1, <1>2, <1>4, LoadPlanIs, Onwards

Removed == {TopicOf(model, e) : e \in {e \in Entities : Has(model, e) /\ ~Has(Compile, e)}}

ResyncPlan ==
    ForEach([t \in Removed |-> Clearing(t)]) \o Publishing("changed", Compile) \o Op("flush")

\* The topics a resync retracts are those of entities that are gone.
LEMMA RemovedIs ==
    ASSUME TypeOK
    PROVE  /\ Removed \in SUBSET Topics /\ IsFiniteSet(Removed)
           /\ \A t \in Removed : t \in Live(model) /\ ~Has(Compile, t[1])
           /\ \A t \in Live(model) : ~Has(Compile, t[1]) => t \in Removed
<1>1. model \in Models
  BY DEF TypeOK
<1>2. \A t \in Removed : t \in Live(model) /\ t \in Topics /\ ~Has(Compile, t[1])
  BY <1>1, TopicsOf DEF Removed
<1>3. \A t \in Live(model) : ~Has(Compile, t[1]) => t \in Removed
  BY <1>1, LiveTopics DEF Removed
<1>4. IsFiniteSet(Removed)
  BY <1>1, <1>2, LiveIsFinite, FS_Subset
<1> QED BY <1>2, <1>3, <1>4

\* The plan of a resync.
LEMMA ResyncPlanIs ==
    ASSUME TypeOK
    PROVE  /\ Work(ResyncPlan)
           /\ Items(ResyncPlan) \subseteq Clears(Removed) \cup Retracts(Removed)
                 \cup Publishes("changed", Compile) \cup Saves \cup {[op |-> "flush"]}
           /\ Publishes("changed", Compile) \cup Retracts(Removed) \subseteq Items(ResyncPlan)
<1> DEFINE p == ForEach([t \in Removed |-> Clearing(t)])
           q == Publishing("changed", Compile)
           f == Op("flush")
<1>1. Compile \in Models
  BY CompileIsModel DEF TypeOK
<1>2. /\ Work(p)
      /\ Items(p) \subseteq Clears(Removed) \cup Retracts(Removed) \cup Saves
      /\ \A t \in Removed : [op |-> "retract", topic |-> t] \in Items(p)
  BY RemovedIs, ClearingAll
<1>3. Work(q) /\ Items(q) = Publishes("changed", Compile) \cup Saves
  BY <1>1, PublishingIs
<1>4. Work(f) /\ Items(f) = {[op |-> "flush"]}
  BY OpWork, SaveIs
<1>5. ResyncPlan = p \o q \o f
  BY DEF ResyncPlan
<1> HIDE DEF p, q, f
<1>6. Work(p \o q) /\ Items(p \o q) = Items(p) \cup Items(q)
  BY <1>2, <1>3, WorkBoth
<1>7. Work(p \o q \o f) /\ Items(p \o q \o f) = Items(p) \cup Items(q) \cup Items(f)
  BY <1>4, <1>6, WorkBoth
<1>8. Retracts(Removed) \subseteq Items(p)
  BY <1>2 DEF Retracts
<1> QED BY <1>2, <1>3, <1>4, <1>5, <1>7, <1>8

\* A resync goes onward with its plan.
LEMMA Resyncs ==
    ASSUME TypeOK, AllPlans, NEW w \in Tasks, Resync(w)
    PROVE  Onward(w, ResyncPlan, store, unsaved[w])
<1>1. todo[w] # <<>>
  BY AtStep DEF Resync
<1>2. Continue(w, ResyncPlan \o Tail(todo[w]), store, unsaved[w])
  BY DEF Resync, Proceed, ResyncPlan, Removed
<1> QED BY <1>1, <1>2, ResyncPlanIs, Onwards

\* What is left of a plan that is at its resync.
LEMMA AfterResync ==
    ASSUME TypeOK, AllPlans, NEW w \in Tasks, todo[w] # <<>>, Head(todo[w]).op = "resync"
    PROVE  \/ w = "main" /\ Items(Tail(todo[w])) = {}
           \/ /\ w = "api" /\ Items(Tail(todo[w])) = {todo[w][2]} /\ todo[w][2] \in Ops
              /\ todo[w][2].op = "announce" /\ todo[w][2].topic[1] = todo[w][2].entity
<1> DEFINE q == todo[w]
           r == Tail(q)
<1>1. q \in Seq(Ops) /\ q # <<>> /\ Head(q).op = "resync" /\ Ordered(w, q)
  BY DEF TypeOK, AllPlans, Plan
<1> HIDE DEF q
<1>2. /\ Len(q) \in Nat \ {0} /\ Head(q) = q[1] /\ 1 \in 1..Len(q)
  BY <1>1, EmptySeq
<1>3. /\ r \in Seq(Ops) /\ Len(r) = Len(q) - 1
      /\ \A i \in 1..Len(r) : r[i] = q[i + 1]
  BY <1>1, HeadTailProperties
<1>4. \/ w = "main" /\ Len(q) = 1
      \/ w = "api" /\ 1 < Len(q) /\ q[1 + 1].op = "announce"
  BY <1>1, <1>2 DEF Ordered
<1> HIDE DEF r
<1>5. CASE w = "main" /\ Len(q) = 1
  <2>1. Len(r) = 0
    BY <1>3, <1>5
  <2>2. Items(r) = {}
    BY <2>1 DEF Items
  <2> QED BY <1>5, <2>2 DEF q, r
<1>6. CASE w = "api" /\ 1 < Len(q) /\ q[1 + 1].op = "announce"
  <2>1. 2 \in 1..Len(q) /\ q[2].op = "announce"
    BY <1>2, <1>6
  <2>2. Len(q) = 2 /\ q[2].topic[1] = q[2].entity
    BY <1>1, <1>2, <2>1 DEF Ordered
  <2>3. Len(r) = 1 /\ r[1] = q[2]
    BY <1>3, <2>2
  <2>4. Items(r) = {q[2]}
    BY <2>3 DEF Items
  <2>5. q[2] \in Ops
    BY <1>1, <2>1, ElementOfSeq
  <2> QED BY <1>6, <2>1, <2>2, <2>4, <2>5 DEF q, r
<1> QED BY <1>4, <1>5, <1>6

RenamePlan(e, n, t) ==
    Clearing(t) \o <<[op |-> "alias", entity |-> e, name |-> n]>> \o Op("resync")
    \o <<[op |-> "announce", entity |-> e, topic |-> t]>>

\* A plan with one more step.
LEMMA OneMore ==
    ASSUME NEW q \in Seq(Ops), NEW o \in Ops
    PROVE  LET r == q \o <<o>> IN
           /\ r \in Seq(Ops) /\ Len(r) = Len(q) + 1 /\ r[Len(q) + 1] = o
           /\ \A i \in 1..Len(q) : r[i] = q[i]
           /\ Items(r) = Items(q) \cup {o}
<1>1. q \o <<o>> = Append(q, o)
  BY AppendIsConcat
<1> DEFINE r == Append(q, o)
<1>2. /\ r \in Seq(Ops) /\ Len(r) = Len(q) + 1 /\ r[Len(q) + 1] = o
      /\ \A i \in 1..Len(q) : r[i] = q[i]
  BY AppendProperties
<1>3. Items(r) = Items(q) \cup {o}
  BY AppendItems
<1> HIDE DEF r
<1>4. q \o <<o>> = r
  BY <1>1 DEF r
<1> QED BY <1>2, <1>3, <1>4

\* The steps of a rename.
LEMMA RenamePlanIs ==
    ASSUME NEW e \in Entities, NEW n \in Names, NEW t \in Topics, t[1] = e
    PROVE  /\ RenamePlan(e, n, t) \in Seq(Ops)
           /\ Plan("api", RenamePlan(e, n, t)) /\ NoLoad(RenamePlan(e, n, t))
           /\ Items(RenamePlan(e, n, t)) = Clears({t}) \cup Retracts({t}) \cup Saves
                 \cup {[op |-> "alias", entity |-> e, name |-> n], [op |-> "resync"],
                       [op |-> "announce", entity |-> e, topic |-> t]}
<1> DEFINE a == [op |-> "alias", entity |-> e, name |-> n]
           s == [op |-> "resync"]
           c == [op |-> "announce", entity |-> e, topic |-> t]
           p == Clearing(t)
<1>1. a \in Ops /\ s \in Ops /\ c \in Ops
  BY DEF Ops
<1>2. a.op = "alias" /\ s.op = "resync" /\ c.op = "announce" /\ c.topic[1] = c.entity
  OBVIOUS
<1>3. Work(p) /\ Items(p) = Clears({t}) \cup Retracts({t}) \cup Saves
  BY ClearingIs
<1>4. p \in Seq(Ops) /\ SaveFollows(p) /\ \A i \in 1..Len(p) : p[i].op \in Works
  BY <1>3 DEF Work, Items
<1>5. RenamePlan(e, n, t) = p \o <<a>> \o <<s>> \o <<c>>
  BY DEF RenamePlan, Op
<1> HIDE DEF a, s, c, p
<1> DEFINE pa == p \o <<a>>
<1>6. /\ pa \in Seq(Ops) /\ Len(pa) = Len(p) + 1 /\ pa[Len(p) + 1] = a
      /\ \A i \in 1..Len(p) : pa[i] = p[i]
      /\ Items(pa) = Items(p) \cup {a}
  BY <1>1, <1>4, OneMore
<1> HIDE DEF pa
<1> DEFINE ps == pa \o <<s>>
<1>7. /\ ps \in Seq(Ops) /\ Len(ps) = Len(pa) + 1 /\ ps[Len(pa) + 1] = s
      /\ \A i \in 1..Len(pa) : ps[i] = pa[i]
      /\ Items(ps) = Items(pa) \cup {s}
  BY <1>1, <1>6, OneMore
<1> HIDE DEF ps
<1> DEFINE r == ps \o <<c>>
<1>8. /\ r \in Seq(Ops) /\ Len(r) = Len(ps) + 1 /\ r[Len(ps) + 1] = c
      /\ \A i \in 1..Len(ps) : r[i] = ps[i]
      /\ Items(r) = Items(ps) \cup {c}
  BY <1>1, <1>7, OneMore
<1>9. RenamePlan(e, n, t) = r
  BY <1>5 DEF pa, ps
<1> HIDE DEF r
<1> DEFINE l == Len(p)
<1>10. l \in Nat
  BY <1>4, LenProperties
<1>11. /\ Len(r) = l + 3 /\ r[l + 1] = a /\ r[l + 2] = s /\ r[l + 3] = c
       /\ \A i \in 1..l : r[i] = p[i]
  <2>1. Len(pa) = l + 1 /\ Len(ps) = l + 2 /\ Len(r) = l + 3
    BY <1>6, <1>7, <1>8, <1>10
  <2>2. l + 1 \in 1..Len(pa) /\ l + 1 \in 1..Len(ps) /\ l + 2 \in 1..Len(ps)
    BY <1>10, <2>1
  <2>3. \A i \in 1..l : i \in 1..Len(pa) /\ i \in 1..Len(ps)
    BY <1>10, <2>1
  <2>4. r[l + 1] = a
    BY <1>6, <1>7, <1>8, <2>2
  <2>5. ps[l + 2] = s /\ r[l + 3] = c
    BY <1>7, <1>8, <1>10, <2>1
  <2>6. r[l + 2] = s
    BY <1>8, <2>2, <2>5
  <2>7. \A i \in 1..l : r[i] = p[i]
    BY <1>6, <1>7, <1>8, <2>3
  <2> QED BY <2>1, <2>4, <2>5, <2>6, <2>7
<1>12. \A i \in 1..l : p[i].op \in Works
  BY <1>4
<1> HIDE DEF l
<1>13. \A i \in 1..Len(r) : i \in 1..l \/ i = l + 1 \/ i = l + 2 \/ i = l + 3
  BY <1>10, <1>11
<1>14. SaveFollows(r)
  <2> SUFFICES ASSUME NEW i \in 1..Len(r), r[i].op \in Setters
               PROVE  \E j \in i + 1..Len(r) : r[j].op = "save"
    BY DEF SaveFollows
  <2>1. i \in 1..l
    BY <1>2, <1>11, <1>13 DEF Setters
  <2>2. PICK j \in i + 1..l : p[j].op = "save"
    BY <1>4, <1>11, <2>1 DEF SaveFollows, l
  <2>3. j \in 1..l /\ j \in i + 1..Len(r)
    BY <1>10, <1>11, <2>1, <2>2
  <2> QED BY <1>11, <2>2, <2>3
<1>15. {"alias", "announce", "resync", "load"} \cap Works = {}
  BY DEF Works, Setters
<1>16. NoLoad(r)
  BY <1>2, <1>11, <1>12, <1>13, <1>15 DEF NoLoad
<1>17. Ordered("api", r)
  <2> SUFFICES ASSUME NEW i \in 1..Len(r)
               PROVE  /\ r[i].op = "alias" => i < Len(r) /\ r[i + 1].op = "resync"
                      /\ r[i].op = "announce" => i = Len(r) /\ r[i].topic[1] = r[i].entity
                      /\ r[i].op = "resync" => i < Len(r) /\ r[i + 1].op = "announce"
                      /\ r[i].op # "load"
    BY Zenon DEF Ordered
  <2>1. CASE i \in 1..l
    BY <1>11, <1>12, <1>15, <2>1
  <2>2. CASE i = l + 1
    BY <1>2, <1>10, <1>11, <2>2
  <2>3. CASE i = l + 2
    BY <1>2, <1>10, <1>11, <2>3
  <2>4. CASE i = l + 3
    BY <1>2, <1>10, <1>11, <2>4
  <2> QED BY <1>13, <2>1, <2>2, <2>3, <2>4
<1>18. Plan("api", r)
  BY <1>14, <1>17 DEF Plan
<1>19. Items(r) = Items(p) \cup {a, s, c}
  BY <1>6, <1>7, <1>8
<1> QED BY <1>3, <1>8, <1>9, <1>16, <1>18, <1>19 DEF a, s, c

\* Task w begins the plan q.
Begins(w, q) ==
    /\ todo[w] = <<>>
    /\ todo' \in [Tasks -> Seq(Ops)]
    /\ \A v \in Tasks : v # w => todo'[v] = todo[v]
    /\ todo'[w] = q /\ Plan(w, q)

\* An idle task that gets a plan begins it.
LEMMA BeginsPlan ==
    ASSUME TypeOK, NEW w \in Tasks, todo[w] = <<>>, NEW q \in Seq(Ops), Plan(w, q),
           todo' = [todo EXCEPT ![w] = q]
    PROVE  Begins(w, q)
  BY DEF TypeOK, Begins

\* A rename begins its plan.
LEMMA Renames ==
    ASSUME TypeOK, NEW e \in Entities, NEW n \in Names, Rename(e, n)
    PROVE  /\ Begins("api", RenamePlan(e, n, TopicOf(model, e)))
           /\ NoLoad(RenamePlan(e, n, TopicOf(model, e)))
<1>1. "api" \in Tasks /\ todo["api"] = <<>> /\ Has(model, e) /\ model \in Models
  BY DEF Tasks, Rename, Idle, TypeOK
<1> DEFINE t == TopicOf(model, e)
<1>2. t \in Topics /\ t[1] = e
  BY <1>1, TopicsOf
<1>3. todo' = [todo EXCEPT !["api"] = RenamePlan(e, n, t)]
  BY DEF Rename, RenamePlan
<1> HIDE DEF t
<1>4. Begins("api", RenamePlan(e, n, t)) /\ NoLoad(RenamePlan(e, n, t))
  BY <1>1, <1>2, <1>3, RenamePlanIs, BeginsPlan
<1> QED BY <1>4 DEF t

\* Work is a plan of any task.
LEMMA WorkPlan ==
    ASSUME NEW w, NEW q, Work(q)
    PROVE  q \in Seq(Ops) /\ Plan(w, q) /\ NoLoad(q)
<1>1. q \in Seq(Ops) /\ SaveFollows(q) /\ \A i \in 1..Len(q) : q[i].op \in Works
  BY DEF Work, Items
<1>2. {"alias", "announce", "resync", "load"} \cap Works = {}
  BY DEF Works, Setters
<1>3. \A i \in 1..Len(q) : q[i].op \notin {"alias", "announce", "resync", "load"}
  BY <1>1, <1>2
<1> QED BY <1>1, <1>3 DEF Plan, Ordered, NoLoad

\* A republish begins its plan.
LEMMA Republishes ==
    ASSUME TypeOK, NEW w \in {"api", "birth"}, Republish(w)
    PROVE  /\ Begins(w, Publishing("publish", model)) /\ NoLoad(Publishing("publish", model))
           /\ Items(Publishing("publish", model)) = Publishes("publish", model) \cup Saves
<1>1. w \in Tasks /\ todo[w] = <<>> /\ model \in Models
  BY DEF Tasks, Republish, Idle, TypeOK
<1> DEFINE q == Publishing("publish", model)
<1>2. Work(q) /\ Items(q) = Publishes("publish", model) \cup Saves
  BY <1>1, PublishingIs
<1>3. todo' = [todo EXCEPT ![w] = q]
  BY DEF Republish
<1> HIDE DEF q
<1>4. Begins(w, q) /\ NoLoad(q)
  BY <1>1, <1>2, <1>3, WorkPlan, BeginsPlan
<1> QED BY <1>2, <1>4 DEF q

\* A task that begins with one step.
LEMMA OnePlan ==
    ASSUME TypeOK, NEW o \in {"load", "resync"}, todo["main"] = <<>>,
           todo' = [todo EXCEPT !["main"] = Op(o)]
    PROVE  Begins("main", Op(o)) /\ Items(Op(o)) = {[op |-> o]} /\ Head(Op(o)) = [op |-> o]
<1> DEFINE q == Op(o)
<1>1. q \in Seq(Ops) /\ Len(q) = 1 /\ q[1] = [op |-> o] /\ Items(q) = {[op |-> o]}
  BY SaveIs
<1>2. Head(q) = [op |-> o]
  BY DEF Op
<1>3. "main" \in Tasks /\ todo' = [todo EXCEPT !["main"] = q]
  BY DEF Tasks
<1> HIDE DEF q
<1>4. \A i \in 1..Len(q) : i = 1 /\ q[i].op = o
  BY <1>1
<1>5. Plan("main", q)
  BY <1>1, <1>4 DEF Plan, Ordered, SaveFollows, Setters
<1>6. Begins("main", q)
  BY <1>1, <1>3, <1>5, BeginsPlan
<1> QED BY <1>1, <1>2, <1>6 DEF q

\* The broker takes the publish that a task awaits.
LEMMA Delivers ==
    ASSUME TypeOK, AllPlans, Awaited, Deliver, Head(wire).kind = "config"
    PROVE  /\ Head(wire) \in Messages /\ Head(wire).by \in Tasks
           /\ Onward(Head(wire).by, <<>>, Marked(Head(wire)), TRUE)
           /\ SentBy(Head(wire), Head(wire).by)
<1> DEFINE m == Head(wire)
<1>1. wire # <<>> /\ wire \in Seq(Messages)
  BY DEF Deliver, TypeOK
<1>2. m \in Messages /\ m \in Items(wire)
  BY <1>1, TailItems
<1>3. Continue(m.by, Tail(todo[m.by]), Marked(m), TRUE)
  BY DEF Deliver
<1> HIDE DEF m
<1>4. m.by \in Tasks
  BY <1>2 DEF Messages
<1>5. SentBy(m, m.by)
  BY <1>2 DEF Awaited, m
<1>6. Onward(m.by, <<>>, Marked(m), TRUE)
  BY <1>3, <1>4, <1>5, Simply DEF SentBy
<1> QED BY <1>2, <1>4, <1>5, <1>6 DEF m

----------------------------------------------------------------------------
(* The plans of all tasks over a step.                                     *)

\* What holds of the plans, the wire and the writes together.
PlansInv == AllPlans /\ Awaited /\ Writing

\* Who sends what.
LEMMA WireTypes ==
    ASSUME Base
    PROVE  /\ wire \in Seq(Messages) /\ Once(wire)
           /\ \A m \in Items(wire) : m \in Messages /\ m.by \in Tasks /\ m.topic \in Topics
<1>1. wire \in Seq(Messages) /\ Once(wire)
  BY DEF Base, TypeOK, Once
<1>2. \A m \in Items(wire) : m \in Messages
  BY <1>1, ElementOfSeq DEF Items
<1> QED BY <1>1, <1>2 DEF Messages

\* A task goes on, which does not wait any more.
LEMMA OnwardKeeps ==
    ASSUME Base, NEW w \in Tasks, NEW more, NEW marks, NEW toSave, Onward(w, more, marks, toSave),
           \A m \in Items(wire') : m.kind = "config" => m \in Items(wire) /\ m.by # w /\ m.by \in Tasks,
           \A v \in Tasks : v # w => writes'[v] = writes[v] /\ unsaved'[v] = unsaved[v],
           writes'[w] = None
    PROVE  PlansInv' /\ ~Loading'
<1>1. AllPlans'
  BY DEF Base, AllPlans, Onward
<1>2. Awaited'
  <2> SUFFICES ASSUME NEW m \in Items(wire'), m.kind = "config"
               PROVE  SentBy(m, m.by)'
    BY DEF Awaited
  <2>1. m \in Items(wire) /\ m.by # w /\ m.by \in Tasks
    OBVIOUS
  <2>2. SentBy(m, m.by)
    BY <2>1 DEF Base, Awaited
  <2>3. todo'[m.by] = todo[m.by] /\ writes'[m.by] = writes[m.by]
    BY <2>1 DEF Onward
  <2> QED BY <2>2, <2>3 DEF SentBy
<1>3. Writing'
  <2> SUFFICES ASSUME NEW v \in Tasks, writes'[v] # None
               PROVE  todo'[v] # <<>> /\ Head(todo'[v]).op = "save" /\ ~unsaved'[v]
    BY DEF Writing
  <2>1. v # w
    OBVIOUS
  <2>2. writes'[v] = writes[v] /\ unsaved'[v] = unsaved[v] /\ todo'[v] = todo[v]
    BY <2>1 DEF Onward
  <2> QED BY <2>2 DEF Base, Writing
<1>4. ~Loading'
  <2>1. CASE w = "main"
    <3>1. todo'["main"] # <<>> => Head(todo'["main"]).op # "load"
      <4> SUFFICES ASSUME todo'["main"] # <<>> PROVE Head(todo'["main"]).op # "load"
        OBVIOUS
      <4>1. todo'["main"] \in Seq(Ops) /\ NoLoad(todo'["main"])
        BY <2>1 DEF Onward
      <4>2. 1 \in 1..Len(todo'["main"]) /\ Head(todo'["main"]) = todo'["main"][1]
        BY <4>1, EmptySeq
      <4> QED BY <4>1, <4>2 DEF NoLoad
    <3> QED BY <3>1 DEF Loading
  <2>2. CASE w # "main"
    <3>1. w \in {"api", "birth"} /\ todo[w] # <<>> /\ todo'["main"] = todo["main"]
      BY <2>2 DEF Tasks, Onward
    <3>2. ~Loading
      BY <3>1 DEF Base, LoadsAlone, Idle
    <3> QED BY <3>1, <3>2 DEF Loading
  <2> QED BY <2>1, <2>2
<1> QED BY <1>1, <1>2, <1>3, <1>4 DEF PlansInv

\* An idle task begins a plan.
LEMMA BeginsKeeps ==
    ASSUME Base, NEW w \in Tasks, NEW q, Begins(w, q),
           wire' = wire, writes' = writes, unsaved' = unsaved
    PROVE  PlansInv'
<1>1. AllPlans'
  BY DEF Base, AllPlans, Begins
<1>2. Awaited'
  <2> SUFFICES ASSUME NEW m \in Items(wire), m.kind = "config"
               PROVE  SentBy(m, m.by)'
    BY DEF Awaited
  <2>1. SentBy(m, m.by)
    BY DEF Base, Awaited
  <2>2. m.by # w
    BY <2>1 DEF SentBy, Begins
  <2>3. m.by \in Tasks
    BY WireTypes
  <2>4. todo'[m.by] = todo[m.by]
    BY <2>2, <2>3 DEF Begins
  <2> QED BY <2>1, <2>4 DEF SentBy
<1>3. Writing'
  BY DEF Base, Writing, Begins
<1> QED BY <1>1, <1>2, <1>3 DEF PlansInv

\* No task goes on; a message that is awaited is sent by its task.
LEMMA StandsKeeps ==
    ASSUME Base, todo' = todo, writes' = writes, unsaved' = unsaved,
           \A m \in Items(wire') : m.kind = "config" => m \in Items(wire) \/ SentBy(m, m.by)
    PROVE  PlansInv'
<1>1. AllPlans' /\ Writing'
  BY DEF Base, AllPlans, Writing
<1>2. \A m \in Items(wire') : m.kind = "config" => SentBy(m, m.by)
  BY DEF Base, Awaited
<1>3. Awaited'
  BY <1>2 DEF Awaited, SentBy
<1> QED BY <1>1, <1>3 DEF PlansInv

\* To do nothing is a plan.
LEMMA EmptyPlan ==
    ASSUME NEW w
    PROVE  <<>> \in Seq(Ops) /\ Plan(w, <<>>) /\ NoLoad(<<>>)
  BY OpWork, WorkPlan

\* Some tasks fail.
LEMMA FailKeeps ==
    ASSUME Base, NEW ws \in SUBSET Tasks, NEW lost, Fail(ws, lost),
           \A m \in Items(wire') : m.kind = "config" => m \in Items(wire) /\ m.by \notin ws /\ m.by \in Tasks
    PROVE  /\ PlansInv' /\ todo' \in [Tasks -> Seq(Ops)]
           /\ Loading' => Loading
<1>1. /\ \A w \in ws : todo'[w] = <<>> /\ writes'[w] = None /\ unsaved'[w] = FALSE
      /\ \A w \in Tasks \ ws : todo'[w] = todo[w] /\ writes'[w] = writes[w] /\ unsaved'[w] = unsaved[w]
  BY DEF Fail
<1>2. AllPlans'
  BY <1>1, EmptyPlan DEF Base, AllPlans
<1>3. Awaited'
  <2> SUFFICES ASSUME NEW m \in Items(wire'), m.kind = "config"
               PROVE  SentBy(m, m.by)'
    BY DEF Awaited
  <2>1. SentBy(m, m.by) /\ m.by \in Tasks \ ws
    BY DEF Base, Awaited
  <2> QED BY <1>1, <2>1 DEF SentBy
<1>4. Writing'
  BY <1>1 DEF Base, Writing
<1>5. todo' \in [Tasks -> Seq(Ops)]
  <2>1. todo' = [w \in Tasks |-> IF w \in ws THEN <<>> ELSE todo[w]]
    BY DEF Fail
  <2>2. \A w \in Tasks : todo[w] \in Seq(Ops)
    BY DEF Base, TypeOK
  <2> QED BY <2>1, <2>2, EmptySeq
<1>6. Loading' => Loading
  <2>1. "main" \in Tasks
    BY DEF Tasks
  <2> QED BY <1>1, <2>1 DEF Loading
<1> QED BY <1>2, <1>3, <1>4, <1>5, <1>6 DEF PlansInv

\* The process ends.
LEMMA DiesKeeps ==
    ASSUME Base, NEW n \in 0..Len(wire), Dies(n)
    PROVE  /\ PlansInv' /\ ~Loading' /\ DownIsDown' /\ ~Up'
           /\ todo' \in [Tasks -> Seq(Ops)] /\ wire' \in Seq(Messages) /\ Once(wire')
           /\ FewRecorded'
<1>1. /\ \A w \in Tasks : todo'[w] = <<>> /\ writes'[w] = None /\ unsaved'[w] = FALSE
      /\ wire' = <<>> /\ model' = NoModel /\ phase' = "down"
      /\ todo' = [w \in Tasks |-> <<>>]
  BY DEF Dies
<1>2. Items(wire') = {} /\ wire' \in Seq(Messages) /\ Len(wire') = 0
  BY <1>1, EmptySeq DEF Items
<1>3. AllPlans' /\ Awaited' /\ Writing'
  BY <1>1, <1>2, EmptyPlan DEF AllPlans, Awaited, Writing
<1>4. ~Loading' /\ ~Up' /\ DownIsDown'
  BY <1>1 DEF Loading, Up, DownIsDown, Idle, Tasks
<1>5. todo' \in [Tasks -> Seq(Ops)]
  BY <1>1, EmptyPlan
<1>6. Once(wire')
  BY <1>2 DEF Once
<1>7. FewRecorded'
  <2>1. disk' = disk \/ \E w \in Tasks : writes[w] # None /\ disk' = writes[w]
    BY DEF Dies
  <2>2. store' = store
    BY DEF Dies
  <2> QED BY <1>1, <2>1, <2>2 DEF Base, FewRecorded, Recorded
<1> QED BY <1>2, <1>3, <1>4, <1>5, <1>6, <1>7 DEF PlansInv

\* What messages a step adds.
LEMMA WrittenIs ==
    ASSUME Base, NEW w \in Tasks, NEW t \in Topics, NEW kind \in {"clear", "state", "config"},
           NEW look \in Looks \cup {None}, Written(w, t, kind, look),
           kind = "config" => \A m \in Items(wire) : ~IsOf(m, w)
    PROVE  /\ wire' \in Seq(Messages) /\ Once(wire')
           /\ Items(wire') = Items(wire) \cup {[by |-> w, topic |-> t, kind |-> kind, look |-> look]}
<1> DEFINE m == [by |-> w, topic |-> t, kind |-> kind, look |-> look]
<1>1. m \in Messages /\ m.by = w /\ m.kind = kind
  BY DEF Messages
<1>2. wire' = Append(wire, m)
  BY DEF Written
<1>3. wire \in Seq(Messages) /\ Once(wire)
  BY DEF Base, TypeOK, Once
<1> HIDE DEF m
<1>4. wire' \in Seq(Messages) /\ Items(wire') = Items(wire) \cup {m}
  BY <1>1, <1>2, <1>3, AppendItems
<1>5. Once(wire')
  BY <1>1, <1>2, <1>3, OnceAppend
<1> QED BY <1>4, <1>5 DEF m

FlushOf(w, d) ==
    {[by |-> w, topic |-> TopicOf(model, e), kind |-> "state", look |-> None] :
        e \in {e \in d : Has(model, e)}}

\* What a flush publishes, behind everything else.
LEMMA FlushedIs ==
    ASSUME Base, NEW w \in Tasks, NEW d \in SUBSET Entities, Flushed(w, d)
    PROVE  /\ \E f \in Seq(Messages) : wire' = wire \o f /\ Items(f) = FlushOf(w, d)
           /\ wire' \in Seq(Messages) /\ Once(wire')
           /\ Items(wire') = Items(wire) \cup FlushOf(w, d)
           /\ \A m \in FlushOf(w, d) : m.kind = "state"
           /\ dirty' = {}
<1> DEFINE S == {e \in d : Has(model, e)}
           M(e) == [by |-> w, topic |-> TopicOf(model, e), kind |-> "state", look |-> None]
           of == [e \in S |-> <<M(e)>>]
<1>1. IsFiniteSet(S)
  BY EntitiesAssumption, FS_Subset
<1>2. model \in Models /\ wire \in Seq(Messages) /\ Once(wire)
  BY DEF Base, TypeOK, Once
<1>3. \A e \in S : M(e) \in Messages /\ M(e).kind = "state"
  BY <1>2, TopicsOf DEF Messages
<1>4. \A e \in S : of[e] = <<M(e)>> /\ <<M(e)>> \in Seq(Messages) /\ Items(<<M(e)>>) = {M(e)}
  BY <1>3, OneStep
<1>5. of \in [S -> Seq(Messages)]
  BY <1>4
<1> DEFINE f == ForEach(of)
<1>6. f \in Seq(Messages) /\ Items(f) = UNION {Items(of[e]) : e \in S}
  <2> HIDE DEF of, S
  <2> QED BY <1>1, <1>5, ForEachItems
<1>7. Items(f) = {M(e) : e \in S}
  <2>1. \A e \in S : Items(of[e]) = {M(e)}
    <3> HIDE DEF of, S, M
    <3> QED BY <1>4
  <2> HIDE DEF of, S, M, f
  <2>2. \A x : x \in UNION {Items(of[e]) : e \in S} <=> x \in {M(e) : e \in S}
    BY <2>1
  <2> QED BY <1>6, <2>2
<1>8. {M(e) : e \in S} = FlushOf(w, d)
  BY DEF FlushOf
<1>9. wire' = wire \o f /\ dirty' = {}
  BY DEF Flushed
<1>10. \A m \in FlushOf(w, d) : m.kind = "state"
  BY DEF FlushOf
<1> HIDE DEF of, S, M, f
<1>11. Items(f) = FlushOf(w, d)
  BY <1>7, <1>8
<1>12. wire' \in Seq(Messages) /\ Items(wire') = Items(wire) \cup Items(f)
  BY <1>2, <1>6, <1>9, ConcatProperties, ConcatItems
<1>13. Once(wire')
  BY <1>2, <1>6, <1>9, <1>10, <1>11, OnceConcat
<1> QED BY <1>6, <1>9, <1>10, <1>11, <1>12, <1>13

\* What is left on the wire when the oldest message has arrived.
LEMMA TailOfWire ==
    ASSUME Base, wire # <<>>, wire' = Tail(wire)
    PROVE  /\ wire' \in Seq(Messages) /\ Once(wire')
           /\ Items(wire) = {Head(wire)} \cup Items(wire') /\ Head(wire) \in Messages
           /\ Head(wire).kind = "config" => \A m \in Items(wire') : ~IsOf(m, Head(wire).by)
<1>1. wire \in Seq(Messages) /\ Once(wire)
  BY WireTypes
<1> QED BY <1>1, OnceTail, TailItems, HeadTailProperties

\* The plans are in order after the step.
Fine ==
    /\ PlansInv' /\ LoadsAlone' /\ DownIsDown'
    /\ todo' \in [Tasks -> Seq(Ops)] /\ wire' \in Seq(Messages) /\ Once(wire')

\* A task goes on from a step: the plans are in order.
LEMMA GoOn ==
    ASSUME Base, NEW w \in Tasks, NEW o, Head1(w, o),
           NEW more, NEW marks, NEW toSave, Onward(w, more, marks, toSave),
           writes' = writes, unsaved' = unsaved, Up',
           wire' \in Seq(Messages), Once(wire'),
           \A m \in Items(wire') : m.kind = "config" => m \in Items(wire)
    PROVE  Fine
<1>1. writes[w] = None /\ \A m \in Items(wire) : ~IsOf(m, w)
  BY AtStep DEF Base
<1>2. \A m \in Items(wire') : m.kind = "config" => m \in Items(wire) /\ m.by # w /\ m.by \in Tasks
  BY <1>1, WireTypes DEF IsOf
<1>3. PlansInv' /\ ~Loading'
  BY <1>1, <1>2, OnwardKeeps
<1>4. todo' \in [Tasks -> Seq(Ops)]
  BY DEF Onward
<1> QED BY <1>3, <1>4 DEF Fine, LoadsAlone, DownIsDown

\* No task goes on: the plans are in order.
LEMMA StandStill ==
    ASSUME Base, todo' = todo, writes' = writes, unsaved' = unsaved, model' = model, Up',
           wire' \in Seq(Messages), Once(wire'),
           \A m \in Items(wire') : m.kind = "config" => m \in Items(wire) \/ SentBy(m, m.by)
    PROVE  Fine
<1>1. PlansInv'
  BY StandsKeeps
<1>2. LoadsAlone' /\ todo' \in [Tasks -> Seq(Ops)]
  BY DEF Base, TypeOK, LoadsAlone, Loading, Idle
<1> QED BY <1>1, <1>2 DEF Fine, DownIsDown

\* A process that is down only starts.
LEMMA UpOrStart ==
    ASSUME Base, Next
    PROVE  Up \/ Start \/ \E e \in Entities : Change(e)
<1> SUFFICES ASSUME ~Up PROVE Start \/ \E e \in Entities : Change(e)
  OBVIOUS
<1>1. /\ phase = "down" /\ wire = <<>> /\ model = NoModel
      /\ \A w \in Tasks : todo[w] = <<>> /\ writes[w] = None
  BY DEF Base, DownIsDown, Up, Idle
<1>2. \A w \in Tasks : \A o : ~Head1(w, o)
  BY <1>1 DEF Head1, Idle
<1>3. "main" \in Tasks
  BY DEF Tasks
<1>4. ~Load /\ ~Ready
  BY <1>2, <1>3 DEF Load, Ready
<1>5. ~Crash /\ ~Stop /\ ~Reload /\ ~Deliver /\ ~Lose
  BY <1>1 DEF Crash, Stop, Reload, Deliver, Lose
<1>6. \A w \in Tasks : ~Run(w) /\ ~Raise(w) /\ ~DiskFull(w)
  BY <1>1, <1>2 DEF Run, Raise, DiskFull, Alias, Resync, Flush, Announce, Clear, Retract, Publish,
     BeginSave, EndSave
<1>7. ~Requested
  BY <1>1 DEF Requested
<1>8. \A e \in Entities : ~LivePublish(e) /\ (\A n \in Names : ~Rename(e, n))
                          /\ (\A on \in BOOLEAN : ~Options(e, on))
  BY <1>1, <1>7 DEF LivePublish, Rename, Options
<1>9. \A w \in {"api", "birth"} : ~Republish(w)
  BY <1>7 DEF Republish
<1> QED BY <1>4, <1>5, <1>6, <1>8, <1>9 DEF Next

\* The phases of the process.
LEMMA PhaseIs ==
    ASSUME Base
    PROVE  phase \in {"down", "starting", "running"}
  BY DEF Base, TypeOK

\* The start.
LEMMA StartFine ==
    ASSUME Base, Start PROVE Fine /\ Loading' /\ Items(todo'["main"]) = {[op |-> "load"]}
<1>1. "main" \in Tasks /\ "api" \in Tasks /\ "birth" \in Tasks /\ ~Up
  BY DEF Tasks, Start, Up
<1>2. /\ wire = <<>> /\ model = NoModel
      /\ \A w \in Tasks : todo[w] = <<>> /\ ~unsaved[w] /\ writes[w] = None
  BY <1>1 DEF Base, DownIsDown, Idle
<1>3. /\ todo' = [todo EXCEPT !["main"] = Op("load")]
      /\ wire' = wire /\ writes' = writes /\ unsaved' = unsaved /\ model' = model
      /\ phase' = "starting"
  BY DEF Start, files
<1>4. TypeOK
  BY DEF Base
<1>5. Begins("main", Op("load")) /\ Items(Op("load")) = {[op |-> "load"]} /\ Head(Op("load")) = [op |-> "load"]
  BY <1>1, <1>2, <1>3, <1>4, OnePlan
<1>6. PlansInv'
  BY <1>1, <1>3, <1>5, BeginsKeeps
<1>7. todo'["main"] = Op("load") /\ todo'["api"] = <<>> /\ todo'["birth"] = <<>>
      /\ todo' \in [Tasks -> Seq(Ops)]
  BY <1>1, <1>2, <1>5 DEF Begins
<1>8. LoadsAlone'
  BY <1>2, <1>3, <1>7 DEF LoadsAlone, Idle
<1>9. Up' /\ DownIsDown'
  BY <1>3 DEF Up, DownIsDown
<1>10. Op("load") # <<>>
  BY DEF Op
<1> QED BY <1>3, <1>5, <1>6, <1>7, <1>8, <1>9, <1>10, WireTypes DEF Fine, Loading

\* A task that is at a step is one of a process that is up.
LEMMA UpKeeps ==
    ASSUME Base, NEW w \in Tasks, NEW o, Head1(w, o), phase' = phase
    PROVE  Up'
  BY AtStep DEF Base, Up

\* The first compile.
LEMMA LoadFine ==
    ASSUME Base, Load PROVE Fine
<1>1. "main" \in Tasks /\ Head1("main", "load")
  BY DEF Tasks, Load
<1>2. wire' = wire /\ writes' = writes /\ unsaved' = unsaved /\ phase' = phase
  BY DEF Load, files
<1>3. Onward("main", LoadPlan, store, unsaved["main"])
  BY Loads DEF Base
<1>4. Up'
  BY <1>1, <1>2, UpKeeps
<1> QED BY <1>1, <1>2, <1>3, <1>4, WireTypes, GoOn

\* The end of the cold start.
LEMMA ReadyFine ==
    ASSUME Base, Ready PROVE Fine /\ Onward("main", <<>>, store, unsaved["main"])
<1>1. "main" \in Tasks /\ Head1("main", "ready")
  BY DEF Tasks, Ready
<1>2. wire' = wire /\ writes' = writes /\ unsaved' = unsaved /\ phase' = "running"
  BY DEF Ready, files
<1>3. todo["main"] # <<>>
  BY <1>1 DEF Head1, Idle
<1>4. Onward("main", <<>>, store, unsaved["main"])
  BY <1>1, <1>3, Simply DEF Base, Ready, Proceed
<1>5. Up'
  BY <1>2 DEF Up
<1> QED BY <1>1, <1>2, <1>4, <1>5, WireTypes, GoOn

\* A step that does nothing else with the plans than to go on.
LEMMA ProceedFine ==
    ASSUME Base, NEW w \in Tasks, NEW o, Head1(w, o), Proceed(w, <<>>),
           writes' = writes, unsaved' = unsaved, phase' = phase,
           wire' \in Seq(Messages), Once(wire'),
           \A m \in Items(wire') : m.kind = "config" => m \in Items(wire)
    PROVE  Fine /\ Onward(w, <<>>, store, unsaved[w])
<1>1. todo[w] # <<>>
  BY DEF Head1, Idle
<1>2. Onward(w, <<>>, store, unsaved[w])
  BY <1>1, Simply DEF Base, Proceed
<1>3. Up'
  BY UpKeeps
<1> QED BY <1>2, <1>3, GoOn

\* The alias of a rename.
LEMMA AliasFine ==
    ASSUME Base, NEW w \in Tasks, Alias(w) PROVE Fine /\ Onward(w, <<>>, store, unsaved[w])
<1>1. /\ Head1(w, "alias") /\ Proceed(w, <<>>)
      /\ wire' = wire /\ writes' = writes /\ unsaved' = unsaved /\ phase' = phase
  BY DEF Alias, files
<1> QED BY <1>1, WireTypes, ProceedFine

\* A resync.
LEMMA ResyncFine ==
    ASSUME Base, NEW w \in Tasks, Resync(w) PROVE Fine
<1>1. /\ Head1(w, "resync")
      /\ wire' = wire /\ writes' = writes /\ unsaved' = unsaved /\ phase' = phase
  BY DEF Resync, files
<1>2. Onward(w, ResyncPlan, store, unsaved[w])
  BY Resyncs DEF Base
<1>3. Up'
  BY <1>1, UpKeeps
<1> QED BY <1>1, <1>2, <1>3, WireTypes, GoOn

\* A flush.
LEMMA FlushFine ==
    ASSUME Base, NEW w \in Tasks, Flush(w) PROVE Fine /\ Onward(w, <<>>, store, unsaved[w])
<1>1. /\ Head1(w, "flush") /\ Proceed(w, <<>>) /\ Flushed(w, dirty)
      /\ writes' = writes /\ unsaved' = unsaved /\ phase' = phase
  BY DEF Flush, files
<1>2. dirty \in SUBSET Entities
  BY DEF Base, TypeOK
<1>3. /\ wire' \in Seq(Messages) /\ Once(wire')
      /\ \A m \in Items(wire') : m.kind = "config" => m \in Items(wire)
  BY <1>1, <1>2, FlushedIs
<1> QED BY <1>1, <1>3, ProceedFine

\* What an announcement flushes.
LEMMA AnnounceIs ==
    ASSUME Base, NEW w \in Tasks, Announce(w)
    PROVE  /\ Head1(w, "announce") /\ Head(todo[w]).entity \in Entities
           /\ Flushed(w, dirty \cup {Head(todo[w]).entity})
           /\ dirty \cup {Head(todo[w]).entity} \in SUBSET Entities
<1>1. Head1(w, "announce") /\ Flushed(w, dirty \cup {Head(todo[w]).entity})
  BY DEF Announce, Announced
<1>2. Head(todo[w]) \in Ops /\ Head(todo[w]).op = "announce"
  BY <1>1, AtStep DEF Base
<1>3. Head(todo[w]).entity \in Entities
  BY <1>2, OpsAre
<1> QED BY <1>1, <1>3 DEF Base, TypeOK

\* An announcement.
LEMMA AnnounceFine ==
    ASSUME Base, NEW w \in Tasks, Announce(w) PROVE Fine /\ Onward(w, <<>>, store, unsaved[w])
<1>1. /\ Head1(w, "announce") /\ Proceed(w, <<>>)
      /\ writes' = writes /\ unsaved' = unsaved /\ phase' = phase
  BY DEF Announce, files
<1> DEFINE d == dirty \cup {Head(todo[w]).entity}
<1>2. Flushed(w, d) /\ d \in SUBSET Entities
  BY AnnounceIs
<1> HIDE DEF d
<1>3. /\ wire' \in Seq(Messages) /\ Once(wire')
      /\ \A m \in Items(wire') : m.kind = "config" => m \in Items(wire)
  BY <1>2, FlushedIs
<1> QED BY <1>1, <1>3, ProceedFine

\* What a clear sends.
LEMMA ClearIs ==
    ASSUME Base, NEW w \in Tasks, Clear(w)
    PROVE  /\ Head1(w, "clear") /\ Head(todo[w]).topic \in Topics
           /\ wire' \in Seq(Messages) /\ Once(wire')
           /\ Items(wire') = Items(wire) \cup
                 {[by |-> w, topic |-> Head(todo[w]).topic, kind |-> "clear", look |-> None]}
           /\ wire' = Append(wire, [by |-> w, topic |-> Head(todo[w]).topic, kind |-> "clear", look |-> None])
           /\ \A m \in Items(wire') : m.kind = "config" => m \in Items(wire)
<1>1. Head1(w, "clear") /\ Written(w, Head(todo[w]).topic, "clear", None)
  BY DEF Clear
<1>2. Head(todo[w]) \in Ops /\ Head(todo[w]).op = "clear"
  BY <1>1, AtStep DEF Base
<1>3. Head(todo[w]).topic \in Topics
  BY <1>2, OpsAre
<1> DEFINE c == [by |-> w, topic |-> Head(todo[w]).topic, kind |-> "clear", look |-> None]
<1>4. wire' \in Seq(Messages) /\ Once(wire') /\ Items(wire') = Items(wire) \cup {c} /\ wire' = Append(wire, c)
  BY <1>1, <1>3, WrittenIs DEF Written
<1>5. c.kind = "clear"
  OBVIOUS
<1> HIDE DEF c
<1>6. \A m \in Items(wire') : m.kind = "config" => m \in Items(wire)
  BY <1>4, <1>5
<1> QED BY <1>1, <1>3, <1>4, <1>6 DEF c

\* A clear.
LEMMA ClearFine ==
    ASSUME Base, NEW w \in Tasks, Clear(w) PROVE Fine /\ Onward(w, <<>>, store, unsaved[w])
<1>1. /\ Head1(w, "clear") /\ Proceed(w, <<>>)
      /\ writes' = writes /\ unsaved' = unsaved /\ phase' = phase
  BY DEF Clear, files
<1>2. /\ wire' \in Seq(Messages) /\ Once(wire')
      /\ \A m \in Items(wire') : m.kind = "config" => m \in Items(wire)
  BY ClearIs
<1> QED BY <1>1, <1>2, ProceedFine

\* A publish or a retraction is sent and awaited.
LEMMA SendsFine ==
    ASSUME Base, NEW w \in Tasks, Retract(w) \/ Publish(w)
    PROVE  /\ Fine
           /\ Items(wire') = Items(wire) \cup {[by |-> w, topic |-> Head(todo[w]).topic, kind |-> "config",
                                                look |-> ValueOf(Head(todo[w]))]}
<1>1. /\ \E o \in Setters : Head1(w, o)
      /\ writes' = writes /\ unsaved' = unsaved /\ phase' = phase /\ todo' = todo /\ model' = model
  BY DEF Retract, Publish, Setters, files, plans, memory
<1>2. PICK o \in Setters : Head1(w, o)
  BY <1>1
<1> DEFINE h == Head(todo[w])
<1>3. /\ h.op \in Setters /\ h \in Ops /\ todo[w] # <<>> /\ writes[w] = None
      /\ \A m \in Items(wire) : ~IsOf(m, w)
  BY <1>2, AtStep DEF Base
<1>4. h.topic \in Topics /\ ValueOf(h) \in Looks \cup {None}
  BY <1>3, OpsAre DEF Setters, ValueOf
<1>5. Written(w, h.topic, "config", ValueOf(h))
  <2>1. CASE Retract(w)
    <3>1. h.op = "retract" /\ Written(w, h.topic, "config", None)
      BY <2>1 DEF Retract, Head1
    <3> QED BY <3>1 DEF ValueOf
  <2>2. CASE Publish(w)
    <3>1. h.op # "retract" /\ Written(w, h.topic, "config", h.look)
      BY <2>2 DEF Publish, Head1
    <3> QED BY <3>1 DEF ValueOf
  <2> QED BY <2>1, <2>2
<1> DEFINE m == [by |-> w, topic |-> h.topic, kind |-> "config", look |-> ValueOf(h)]
<1> HIDE DEF h
<1>6. wire' \in Seq(Messages) /\ Once(wire') /\ Items(wire') = Items(wire) \cup {m}
  BY <1>3, <1>4, <1>5, WrittenIs
<1>7. SentBy(m, m.by)
  BY <1>3 DEF SentBy, h
<1>8. Up'
  BY <1>1, <1>2, UpKeeps
<1> HIDE DEF m
<1>9. Fine
  BY <1>1, <1>6, <1>7, <1>8, StandStill
<1> QED BY <1>6, <1>9 DEF m, h

\* A save begins.
LEMMA BeginSaveFine ==
    ASSUME Base, NEW w \in Tasks, BeginSave(w) PROVE Fine
<1>1. /\ Head1(w, "save") /\ phase' = phase /\ todo' = todo /\ model' = model /\ wire' = wire
      /\ writes' = [writes EXCEPT ![w] = store] /\ unsaved' = [unsaved EXCEPT ![w] = FALSE]
  BY DEF BeginSave, memory
<1>2. /\ todo[w] # <<>> /\ Head(todo[w]).op = "save" /\ writes[w] = None
      /\ \A m \in Items(wire) : ~IsOf(m, w)
  BY <1>1, AtStep DEF Base
<1>3. Up'
  BY <1>1, UpKeeps
<1>4. /\ \A v \in Tasks : v # w => writes'[v] = writes[v] /\ unsaved'[v] = unsaved[v]
      /\ unsaved'[w] = FALSE
  BY <1>1 DEF Base, TypeOK
<1>5. AllPlans'
  BY <1>1 DEF Base, AllPlans
<1>6. Awaited'
  <2> SUFFICES ASSUME NEW m \in Items(wire), m.kind = "config"
               PROVE  SentBy(m, m.by)'
    BY <1>1 DEF Awaited
  <2>1. SentBy(m, m.by) /\ m.by # w /\ m.by \in Tasks
    BY <1>2, WireTypes DEF Base, Awaited, IsOf
  <2>2. writes'[m.by] = writes[m.by] /\ todo'[m.by] = todo[m.by]
    BY <1>1, <1>4, <2>1
  <2> QED BY <2>1, <2>2 DEF SentBy
<1>7. Writing'
  BY <1>1, <1>2, <1>4 DEF Base, Writing
<1>8. LoadsAlone' /\ todo' \in [Tasks -> Seq(Ops)]
  BY <1>1 DEF Base, TypeOK, LoadsAlone, Loading, Idle
<1> QED BY <1>1, <1>3, <1>5, <1>6, <1>7, <1>8, WireTypes DEF Fine, PlansInv, DownIsDown

\* A save ends.
LEMMA EndSaveFine ==
    ASSUME Base, NEW w \in Tasks, EndSave(w) PROVE Fine /\ Onward(w, <<>>, store, unsaved[w])
<1>1. /\ writes[w] # None /\ Proceed(w, <<>>) /\ wire' = wire /\ phase' = phase
      /\ writes' = [writes EXCEPT ![w] = None] /\ unsaved' = unsaved
  BY DEF EndSave
<1>2. todo[w] # <<>> /\ Up
  BY <1>1 DEF Base, Writing, DownIsDown
<1>3. Onward(w, <<>>, store, unsaved[w])
  BY <1>1, <1>2, Simply DEF Base, Proceed
<1>4. writes'[w] = None /\ \A v \in Tasks : v # w => writes'[v] = writes[v]
  BY <1>1 DEF Base, TypeOK
<1>5. \A m \in Items(wire) : m.kind = "config" => m.by # w /\ m.by \in Tasks
  BY <1>1, WireTypes DEF Base, Awaited, SentBy
<1>6. PlansInv' /\ ~Loading'
  BY <1>1, <1>3, <1>4, <1>5, OnwardKeeps
<1>7. Up' /\ todo' \in [Tasks -> Seq(Ops)]
  BY <1>1, <1>2, <1>3 DEF Up, Onward
<1> QED BY <1>1, <1>3, <1>6, <1>7, WireTypes DEF Fine, LoadsAlone, DownIsDown

\* A message arrives.
LEMMA DeliverFine ==
    ASSUME Base, Deliver PROVE Fine
<1>1. wire # <<>> /\ wire' = Tail(wire) /\ phase' = phase /\ model' = model /\ writes' = writes
  BY DEF Deliver, files
<1>2. /\ wire' \in Seq(Messages) /\ Once(wire')
      /\ Items(wire) = {Head(wire)} \cup Items(wire') /\ Head(wire) \in Messages
      /\ Head(wire).kind = "config" => \A m \in Items(wire') : ~IsOf(m, Head(wire).by)
  BY <1>1, TailOfWire
<1>3. Up'
  BY <1>1 DEF Base, DownIsDown, Up
<1>4. CASE Head(wire).kind = "config"
  <2> DEFINE w == Head(wire).by
  <2>1. /\ w \in Tasks /\ Onward(w, <<>>, Marked(Head(wire)), TRUE)
        /\ SentBy(Head(wire), w)
    BY <1>4, Delivers DEF Base
  <2>2. unsaved' = [unsaved EXCEPT ![w] = TRUE]
    BY <1>4 DEF Deliver
  <2> HIDE DEF w
  <2>3. writes'[w] = None /\ \A v \in Tasks : v # w => writes'[v] = writes[v] /\ unsaved'[v] = unsaved[v]
    BY <1>1, <2>1, <2>2 DEF SentBy, Base, TypeOK
  <2>4. \A m \in Items(wire') : m.kind = "config" => m \in Items(wire) /\ m.by # w /\ m.by \in Tasks
    BY <1>2, <1>4, WireTypes DEF IsOf, w
  <2>5. PlansInv' /\ ~Loading'
    BY <2>1, <2>3, <2>4, OnwardKeeps
  <2>6. todo' \in [Tasks -> Seq(Ops)]
    BY <2>1 DEF Onward
  <2> QED BY <1>2, <1>3, <2>5, <2>6 DEF Fine, LoadsAlone, DownIsDown
<1>5. CASE Head(wire).kind # "config"
  <2>1. todo' = todo /\ unsaved' = unsaved
    BY <1>5 DEF Deliver, plans
  <2> QED BY <1>1, <1>2, <1>3, <2>1, StandStill
<1> QED BY <1>4, <1>5

\* The debounced resync begins.
LEMMA ReloadFine ==
    ASSUME Base, Reload
    PROVE  /\ Fine /\ Items(todo'["main"]) = {[op |-> "resync"]} /\ Head(todo'["main"]) = [op |-> "resync"]
           /\ todo'["main"] # <<>> /\ \A v \in Tasks : v # "main" => todo'[v] = todo[v]
           /\ todo["main"] = <<>>
<1>1. "main" \in Tasks /\ todo["main"] = <<>>
  BY DEF Tasks, Reload, Idle
<1>2. /\ todo' = [todo EXCEPT !["main"] = Op("resync")]
      /\ wire' = wire /\ writes' = writes /\ unsaved' = unsaved /\ phase' = "running"
  BY DEF Reload, files
<1>3. TypeOK
  BY DEF Base
<1>4. /\ Begins("main", Op("resync")) /\ Items(Op("resync")) = {[op |-> "resync"]}
      /\ Head(Op("resync")) = [op |-> "resync"]
  BY <1>1, <1>2, <1>3, OnePlan
<1>5. PlansInv'
  BY <1>1, <1>2, <1>4, BeginsKeeps
<1>6. todo'["main"] = Op("resync") /\ todo' \in [Tasks -> Seq(Ops)] /\ \A v \in Tasks : v # "main" => todo'[v] = todo[v]
  BY <1>4 DEF Begins
<1>7. ~Loading'
  BY <1>4, <1>6 DEF Loading
<1>8. Up'
  BY <1>2 DEF Up
<1>9. Op("resync") # <<>>
  BY DEF Op
<1> QED BY <1>1, <1>2, <1>4, <1>5, <1>6, <1>7, <1>8, <1>9, WireTypes DEF Fine, LoadsAlone, DownIsDown

\* A task other than main begins a plan when there is a model.
LEMMA BeginsFine ==
    ASSUME Base, NEW w \in {"api", "birth"}, NEW q, Begins(w, q), model # NoModel,
           wire' = wire, writes' = writes, unsaved' = unsaved, phase' = phase, phase # "down"
    PROVE  Fine
<1>1. w \in Tasks /\ w # "main" /\ "main" \in Tasks
  BY DEF Tasks
<1>2. PlansInv'
  BY <1>1, BeginsKeeps
<1>3. ~Loading
  BY DEF Base, LoadsAlone
<1>4. ~Loading' /\ todo' \in [Tasks -> Seq(Ops)]
  BY <1>1, <1>3 DEF Loading, Begins
<1> QED BY <1>2, <1>4, WireTypes DEF Fine, LoadsAlone, DownIsDown, Up

\* With an entity there is a model.
LEMMA HasModel ==
    ASSUME NEW e \in Entities, Has(model, e)
    PROVE  model # NoModel
  BY DEF Has, NoModel

\* A rename.
LEMMA RenameFine ==
    ASSUME Base, NEW e \in Entities, NEW n \in Names, Rename(e, n) PROVE Fine
<1>1. /\ Has(model, e) /\ wire' = wire /\ writes' = writes /\ unsaved' = unsaved
      /\ phase' = phase /\ phase # "down"
  BY DEF Rename, Requested, files
<1>2. Begins("api", RenamePlan(e, n, TopicOf(model, e)))
  BY Renames DEF Base
<1> QED BY <1>1, <1>2, HasModel, BeginsFine

\* A republish.
LEMMA RepublishFine ==
    ASSUME Base, NEW w \in {"api", "birth"}, Republish(w) PROVE Fine
<1>1. /\ Live(model) # {} /\ wire' = wire /\ writes' = writes /\ unsaved' = unsaved
      /\ phase' = phase /\ phase # "down"
  BY DEF Republish, Requested, files
<1>2. Begins(w, Publishing("publish", model))
  BY Republishes DEF Base
<1>3. model # NoModel
  BY <1>1, LiveTopics, HasModel DEF Base, TypeOK
<1> QED BY <1>1, <1>2, <1>3, BeginsFine

\* What a live value sends.
LEMMA LivePublishIs ==
    ASSUME Base, NEW e \in Entities, LivePublish(e)
    PROVE  /\ Has(model, e) /\ TopicOf(model, e) \in Topics
           /\ wire' = Append(wire, [by |-> "main", topic |-> TopicOf(model, e), kind |-> "state", look |-> None])
           /\ wire' \in Seq(Messages) /\ Once(wire')
           /\ Items(wire') = Items(wire) \cup
                 {[by |-> "main", topic |-> TopicOf(model, e), kind |-> "state", look |-> None]}
           /\ \A m \in Items(wire') : m.kind = "config" => m \in Items(wire)
<1>1. "main" \in Tasks /\ Has(model, e) /\ model \in Models
  BY DEF Tasks, LivePublish, Base, TypeOK
<1>2. TopicOf(model, e) \in Topics
  BY <1>1, TopicsOf
<1>3. Written("main", TopicOf(model, e), "state", None)
  BY DEF LivePublish
<1> DEFINE c == [by |-> "main", topic |-> TopicOf(model, e), kind |-> "state", look |-> None]
<1>4. wire' \in Seq(Messages) /\ Once(wire') /\ Items(wire') = Items(wire) \cup {c} /\ wire' = Append(wire, c)
  BY <1>1, <1>2, <1>3, WrittenIs DEF Written
<1>5. c.kind = "state"
  OBVIOUS
<1> HIDE DEF c
<1>6. \A m \in Items(wire') : m.kind = "config" => m \in Items(wire)
  BY <1>4, <1>5
<1> QED BY <1>1, <1>2, <1>4, <1>6 DEF c

\* A live value.
LEMMA LivePublishFine ==
    ASSUME Base, NEW e \in Entities, LivePublish(e) PROVE Fine
<1>1. /\ todo' = todo /\ writes' = writes /\ unsaved' = unsaved /\ model' = model
      /\ phase' = phase /\ phase = "running"
  BY DEF LivePublish, memory, files, plans
<1>2. Up'
  BY <1>1 DEF Up
<1> QED BY <1>1, <1>2, LivePublishIs, StandStill

\* Nothing that concerns the plans changes.
LEMMA ElseFine ==
    ASSUME Base, todo' = todo, writes' = writes, unsaved' = unsaved, model' = model,
           wire' = wire, phase' = phase
    PROVE  Fine
<1>1. PlansInv'
  BY StandsKeeps
<1>2. LoadsAlone' /\ todo' \in [Tasks -> Seq(Ops)] /\ DownIsDown'
  BY DEF Base, TypeOK, LoadsAlone, Loading, Idle, DownIsDown, Up
<1> QED BY <1>1, <1>2, WireTypes DEF Fine

\* A change at the SysAP, or an option.
LEMMA ChangeFine ==
    ASSUME Base, \/ \E e \in Entities : Change(e)
                 \/ \E e \in Entities : \E on \in BOOLEAN : Options(e, on)
    PROVE  Fine
<1>1. /\ todo' = todo /\ writes' = writes /\ unsaved' = unsaved /\ model' = model
      /\ wire' = wire /\ phase' = phase
  BY DEF Change, Options, Requested, files, plans
<1> QED BY <1>1, ElseFine

\* The process ends.
LEMMA DiesFine ==
    ASSUME Base, NEW n \in 0..Len(wire), Dies(n)
    PROVE  Fine /\ FewRecorded'
  BY DiesKeeps DEF Fine, LoadsAlone

\* The tasks that await a publish.
Awaiting == {wire[i].by : i \in {i \in 1..Len(wire) : wire[i].kind = "config"}}

\* The states that are lost with all but the first n messages.
LostStates(n) == {wire[i].topic : i \in {i \in n+1..Len(wire) : wire[i].kind = "state"}}

\* What becomes of the world when tasks ws fail: the connection is lost, or
\* nothing was on its way.
Fails(ws, lost) ==
    /\ ws \in SUBSET Tasks /\ lost \in SUBSET Topics
    /\ Fail(ws, lost)
    /\ \A w \in ws : todo[w] # <<>> /\ Head(todo[w]).op \in Setters \cup {"clear", "save"}
    /\ \/ \E n \in 0..Len(wire) :
             /\ ws = Awaiting /\ lost = LostStates(n)
             /\ Arrived(n) /\ wire' = <<>>
             /\ doubt' = doubt \cup {t \in Topics : broker'[t] # broker[t]}
       \/ wire' = wire /\ lost = {} /\ broker' = broker /\ states' = states /\ doubt' = doubt
    /\ \A m \in Items(wire') : m.kind = "config" => m \in Items(wire) /\ m.by \notin ws /\ m.by \in Tasks
    /\ ~("main" \in ws /\ phase = "starting")
    /\ phase' = phase /\ phase # "down"
    /\ model' = model /\ dirty' = dirty /\ fresh' = fresh /\ reload' = reload /\ ent' = ent /\ store' = store
    /\ disk' = disk

\* Each failure is a death or the failure of some tasks.
LEMMA Failures ==
    ASSUME Base, Lose \/ \E w \in Tasks : Raise(w) \/ DiskFull(w)
    PROVE  /\ Fault
           /\ \/ \E n \in 0..Len(wire) : Dies(n)
              \/ \E ws, lost : Fails(ws, lost)
<1>1. CASE Lose
  <2>1. /\ Awaiting \in SUBSET Tasks
        /\ \A n \in 0..Len(wire) : LostStates(n) \in SUBSET Topics
    <3>1. Len(wire) \in Nat
      BY WireTypes, LenProperties
    <3>2. \A i \in 1..Len(wire) : wire[i] \in Items(wire)
      BY DEF Items
    <3>3. \A i \in 1..Len(wire) : wire[i].by \in Tasks /\ wire[i].topic \in Topics
      BY <3>2, WireTypes
    <3>4. \A n \in 0..Len(wire) : \A i \in n+1..Len(wire) : i \in 1..Len(wire)
      BY <3>1
    <3> QED BY <3>3, <3>4 DEF Awaiting, LostStates
  <2>2. PICK n \in 0..Len(wire) :
          IF Fatal(Awaiting) THEN Dies(n)
          ELSE /\ Fail(Awaiting, LostStates(n))
               /\ wire' = <<>>
               /\ Arrived(n)
               /\ doubt' = doubt \cup {t \in Topics : broker'[t] # broker[t]}
               /\ UNCHANGED <<phase, memory, disk>>
    BY <1>1 DEF Lose, Awaiting, LostStates
  <2>3. CASE Fatal(Awaiting)
    BY <1>1, <2>2, <2>3 DEF Lose
  <2>4. CASE ~Fatal(Awaiting)
    <3>1. Items(wire') = {}
      BY <2>2, <2>4, OpWork
    <3>2. phase # "down"
      BY <1>1 DEF Lose, Base, DownIsDown, Up
    <3>3. \A w \in Awaiting : todo[w] # <<>> /\ Head(todo[w]).op \in Setters
      <4> SUFFICES ASSUME NEW i \in 1..Len(wire), wire[i].kind = "config"
                   PROVE  SentBy(wire[i], wire[i].by)
        BY DEF Awaiting, SentBy
      <4> QED BY DEF Base, Awaited, Items
    <3>4. Fails(Awaiting, LostStates(n))
      BY <2>1, <2>2, <2>4, <3>1, <3>2, <3>3 DEF Fails, memory, Fatal
    <3> QED BY <1>1, <3>4 DEF Lose
  <2> QED BY <2>3, <2>4
<1>2. ASSUME NEW w \in Tasks, Raise(w) \/ DiskFull(w)
      PROVE  /\ Fault
             /\ \/ \E n \in 0..Len(wire) : Dies(n)
                \/ \E ws, lost : Fails(ws, lost)
  <2>1. /\ Fault
        /\ IF Fatal({w}) THEN \E n \in 0..Len(wire) : Dies(n)
           ELSE Fail({w}, {}) /\ UNCHANGED <<phase, memory, disk, wire, world, doubt>>
    BY <1>2 DEF Raise, DiskFull
  <2>2. CASE Fatal({w})
    BY <2>1, <2>2
  <2>3. CASE ~Fatal({w})
    <3>1. \A m \in Items(wire) : m.kind = "config" => m.by # w /\ m.by \in Tasks
      <4>1. CASE Raise(w)
        <5>1. wire = <<>>
          BY <4>1 DEF Raise
        <5> QED BY <5>1, OpWork
      <4>2. CASE DiskFull(w)
        <5>1. writes[w] # None
          BY <4>2 DEF DiskFull
        <5> QED BY <5>1, WireTypes DEF Base, Awaited, SentBy
      <4> QED BY <1>2, <4>1, <4>2
    <3>2. phase # "down"
      <4>1. CASE Raise(w)
        <5>1. \E o : Head1(w, o)
          BY <4>1 DEF Raise
        <5> QED BY <5>1, AtStep DEF Base, Up
      <4>2. CASE DiskFull(w)
        BY <4>2 DEF DiskFull, Base, DownIsDown, Up
      <4> QED BY <1>2, <4>1, <4>2
    <3>3. todo[w] # <<>> /\ Head(todo[w]).op \in Setters \cup {"clear", "save"}
      <4>1. CASE Raise(w)
        BY <4>1, AtStep DEF Raise, Base, Setters
      <4>2. CASE DiskFull(w)
        BY <4>2 DEF DiskFull, Base, Writing
      <4> QED BY <1>2, <4>1, <4>2
    <3>4. Fails({w}, {})
      BY <2>1, <2>3, <3>1, <3>2, <3>3 DEF Fails, memory, Fatal, world
    <3> QED BY <2>1, <3>4
  <2> QED BY <2>2, <2>3
<1> QED BY <1>1, <1>2

\* Some tasks fail: the plans are in order.
LEMMA FailsFine ==
    ASSUME Base, NEW ws, NEW lost, Fails(ws, lost)
    PROVE  Fine
<1>1. ws \in SUBSET Tasks /\ Fail(ws, lost) /\ model' = model /\ phase' = phase /\ phase # "down"
      /\ \A m \in Items(wire') : m.kind = "config" => m \in Items(wire) /\ m.by \notin ws /\ m.by \in Tasks
  BY DEF Fails
<1>2. PlansInv' /\ todo' \in [Tasks -> Seq(Ops)] /\ (Loading' => Loading)
  BY <1>1, FailKeeps
<1>3. wire' \in Seq(Messages) /\ Once(wire')
  <2>1. CASE wire' = wire
    BY <2>1, WireTypes
  <2>2. CASE wire' = <<>>
    <3>1. wire' \in Seq(Messages) /\ Len(wire') = 0
      BY <2>2, EmptySeq
    <3> QED BY <3>1 DEF Once
  <2> QED BY <2>1, <2>2 DEF Fails
<1>4. LoadsAlone'
  <2> SUFFICES ASSUME Loading' PROVE model = NoModel /\ todo'["api"] = <<>> /\ todo'["birth"] = <<>>
    BY <1>1 DEF LoadsAlone, Idle
  <2>1. model = NoModel /\ todo["api"] = <<>> /\ todo["birth"] = <<>>
    BY <1>2 DEF Base, LoadsAlone, Idle
  <2>2. "api" \in Tasks /\ "birth" \in Tasks /\ \A w \in Tasks : todo'[w] = <<>> \/ todo'[w] = todo[w]
    BY <1>1 DEF Fail, Tasks
  <2> QED BY <2>1, <2>2
<1> QED BY <1>1, <1>2, <1>3, <1>4 DEF Fine, DownIsDown, Up

\* The plans stay in order.
LEMMA NextFine ==
    ASSUME Base, [Next]_vars
    PROVE  Fine
<1>1. CASE Next
  <2>1. CASE Start
    BY <2>1, StartFine
  <2>2. CASE Load \/ Ready
    BY <2>2, LoadFine, ReadyFine
  <2>3. CASE Crash \/ Stop
    BY <2>3, DiesFine DEF Crash, Stop
  <2>4. CASE Reload \/ Deliver
    BY <2>4, ReloadFine, DeliverFine
  <2>5. CASE Lose \/ \E w \in Tasks : Raise(w) \/ DiskFull(w)
    BY <2>5, Failures, FailsFine, DiesFine
  <2>6. ASSUME NEW w \in Tasks, Run(w) PROVE Fine
    BY <2>6, AliasFine, ResyncFine, FlushFine, AnnounceFine, ClearFine, SendsFine, BeginSaveFine,
       EndSaveFine DEF Run
  <2>7. ASSUME NEW e \in Entities, NEW n \in Names, Rename(e, n) PROVE Fine
    BY <2>7, RenameFine
  <2>8. CASE \E e \in Entities : Change(e) \/ \E on \in BOOLEAN : Options(e, on)
    BY <2>8, ChangeFine
  <2>9. ASSUME NEW e \in Entities, LivePublish(e) PROVE Fine
    BY <2>9, LivePublishFine
  <2>10. ASSUME NEW w \in {"api", "birth"}, Republish(w) PROVE Fine
    BY <2>10, RepublishFine
  <2> QED BY <1>1, <2>1, <2>2, <2>3, <2>4, <2>5, <2>6, <2>7, <2>8, <2>9, <2>10 DEF Next
<1>2. CASE UNCHANGED vars
  BY <1>2, ElseFine DEF vars, memory, files, plans, world, bounds, history
<1> QED BY <1>1, <1>2

----------------------------------------------------------------------------
(* Type correctness.                                                       *)

FailureSteps == Lose \/ \E w \in Tasks : Raise(w) \/ DiskFull(w)

\* The actions, with what they are of.
LEMMA Steps ==
    ASSUME Next
    PROVE  \/ Start \/ Load \/ Ready \/ Crash \/ Stop \/ Reload \/ Deliver \/ FailureSteps
           \/ \E w \in Tasks : \/ Alias(w) \/ Resync(w) \/ Flush(w) \/ Announce(w) \/ Clear(w)
                               \/ Retract(w) \/ Publish(w) \/ BeginSave(w) \/ EndSave(w)
           \/ \E e \in Entities : Change(e)
           \/ \E e \in Entities : LivePublish(e)
           \/ \E e \in Entities : \E n \in Names : Rename(e, n)
           \/ \E e \in Entities : \E on \in BOOLEAN : Options(e, on)
           \/ \E w \in {"api", "birth"} : Republish(w)
  BY DEF Next, Run, FailureSteps

\* A death, or the failure of some tasks.
LEMMA FailureIs ==
    ASSUME Base, FailureSteps
    PROVE  /\ Fault
           /\ \/ \E n \in 0..Len(wire) : Dies(n)
              \/ \E ws, lost : Fails(ws, lost)
  BY Failures DEF FailureSteps

\* A crash and a stop are deaths.
LEMMA DeathIs ==
    ASSUME Crash \/ Stop
    PROVE  \E n \in 0..Len(wire) : Dies(n)
  BY DEF Crash, Stop

\* The control: phase, flags and counters.
LEMMA ControlTyped ==
    ASSUME Base, Next
    PROVE  /\ phase' \in {"down", "starting", "running"}
           /\ fresh' \in BOOLEAN /\ reload' \in BOOLEAN
           /\ changes' \in 0..MaxChanges /\ requests' \in 0..MaxRequests
           /\ faults' \in 0..MaxFaults /\ restarts' \in 0..MaxRestarts
<1>1. /\ phase \in {"down", "starting", "running"}
      /\ fresh \in BOOLEAN /\ reload \in BOOLEAN
      /\ changes \in 0..MaxChanges /\ requests \in 0..MaxRequests
      /\ faults \in 0..MaxFaults /\ restarts \in 0..MaxRestarts
  BY DEF Base, TypeOK
<1>2. MaxChanges \in Nat /\ MaxRequests \in Nat /\ MaxFaults \in Nat /\ MaxRestarts \in Nat
  BY BoundsAssumption
<1>3. phase' \in {phase, "down", "starting", "running"}
  <2>1. CASE Start \/ Load \/ Ready \/ Reload \/ Deliver
    BY <2>1 DEF Start, Load, Ready, Reload, Deliver
  <2>2. CASE Crash \/ Stop
    BY <2>2, DeathIs DEF Dies
  <2>3. CASE FailureSteps
    BY <2>3, FailureIs DEF Dies, Fails
  <2>4. CASE \E w \in Tasks : \/ Alias(w) \/ Resync(w) \/ Flush(w) \/ Announce(w) \/ Clear(w)
                              \/ Retract(w) \/ Publish(w) \/ BeginSave(w) \/ EndSave(w)
    BY <2>4 DEF Alias, Resync, Flush, Announce, Clear, Retract, Publish, BeginSave, EndSave
  <2>5. CASE \/ \E e \in Entities : Change(e)
             \/ \E e \in Entities : LivePublish(e)
             \/ \E e \in Entities : \E n \in Names : Rename(e, n)
             \/ \E e \in Entities : \E on \in BOOLEAN : Options(e, on)
             \/ \E w \in {"api", "birth"} : Republish(w)
    BY <2>5 DEF Change, LivePublish, Rename, Options, Republish, Requested
  <2> QED BY <2>1, <2>2, <2>3, <2>4, <2>5, Steps
<1>4. fresh' \in BOOLEAN
  <2>1. fresh' = fresh \/ fresh' = TRUE \/ fresh' = FALSE
    <3>1. CASE Start \/ Load \/ Ready \/ Reload \/ Deliver
      BY <3>1 DEF Start, Load, Ready, Reload, Deliver, memory
    <3>2. CASE Crash \/ Stop
      BY <3>2, DeathIs DEF Dies
    <3>3. CASE FailureSteps
      BY <3>3, FailureIs DEF Dies, Fails
    <3>4. CASE \E w \in Tasks : \/ Alias(w) \/ Resync(w) \/ Flush(w) \/ Announce(w) \/ Clear(w)
                                \/ Retract(w) \/ Publish(w) \/ BeginSave(w) \/ EndSave(w)
      BY <3>4 DEF Alias, Resync, Flush, Announce, Clear, Retract, Publish, BeginSave, EndSave, memory
    <3>5. CASE \/ \E e \in Entities : Change(e)
               \/ \E e \in Entities : LivePublish(e)
               \/ \E e \in Entities : \E n \in Names : Rename(e, n)
               \/ \E e \in Entities : \E on \in BOOLEAN : Options(e, on)
               \/ \E w \in {"api", "birth"} : Republish(w)
      BY <3>5 DEF Change, LivePublish, Rename, Options, Republish, Requested, memory
    <3> QED BY <3>1, <3>2, <3>3, <3>4, <3>5, Steps
  <2> QED BY <1>1, <2>1
<1>5. reload' \in BOOLEAN
  <2>1. reload' = reload \/ reload' = TRUE \/ reload' = FALSE \/ reload' = (reload \/ phase = "running")
    <3>1. CASE Start \/ Load \/ Ready \/ Reload \/ Deliver
      BY <3>1 DEF Start, Load, Ready, Reload, Deliver, memory
    <3>2. CASE Crash \/ Stop
      BY <3>2, DeathIs DEF Dies
    <3>3. CASE FailureSteps
      BY <3>3, FailureIs DEF Dies, Fails
    <3>4. CASE \E w \in Tasks : \/ Alias(w) \/ Resync(w) \/ Flush(w) \/ Announce(w) \/ Clear(w)
                                \/ Retract(w) \/ Publish(w) \/ BeginSave(w) \/ EndSave(w)
      BY <3>4 DEF Alias, Resync, Flush, Announce, Clear, Retract, Publish, BeginSave, EndSave, memory
    <3>5. CASE \/ \E e \in Entities : Change(e)
               \/ \E e \in Entities : LivePublish(e)
               \/ \E e \in Entities : \E n \in Names : Rename(e, n)
               \/ \E e \in Entities : \E on \in BOOLEAN : Options(e, on)
               \/ \E w \in {"api", "birth"} : Republish(w)
      BY <3>5, Zenon DEF Change, LivePublish, Rename, Options, Republish, Requested, memory
    <3> QED BY <3>1, <3>2, <3>3, <3>4, <3>5, Steps
  <2> QED BY <1>1, <2>1
<1>6. /\ changes' = changes \/ (changes' = changes + 1 /\ changes < MaxChanges)
      /\ requests' = requests \/ (requests' = requests + 1 /\ requests < MaxRequests)
      /\ faults' = faults \/ (faults' = faults + 1 /\ faults < MaxFaults)
      /\ restarts' = restarts \/ (restarts' = restarts + 1 /\ restarts < MaxRestarts)
  <2>1. CASE Start \/ Load \/ Ready \/ Reload \/ Deliver
    BY <2>1 DEF Start, Load, Ready, Reload, Deliver, bounds
  <2>2. CASE Crash \/ Stop
    BY <2>2 DEF Crash, Stop
  <2>3. CASE FailureSteps
    BY <2>3, FailureIs DEF Fault
  <2>4. CASE \E w \in Tasks : \/ Alias(w) \/ Resync(w) \/ Flush(w) \/ Announce(w) \/ Clear(w)
                              \/ Retract(w) \/ Publish(w) \/ BeginSave(w) \/ EndSave(w)
    BY <2>4 DEF Alias, Resync, Flush, Announce, Clear, Retract, Publish, BeginSave, EndSave, bounds
  <2>5. CASE \/ \E e \in Entities : Change(e)
             \/ \E e \in Entities : LivePublish(e)
             \/ \E e \in Entities : \E n \in Names : Rename(e, n)
             \/ \E e \in Entities : \E on \in BOOLEAN : Options(e, on)
             \/ \E w \in {"api", "birth"} : Republish(w)
    BY <2>5 DEF Change, LivePublish, Rename, Options, Republish, Requested, bounds
  <2> QED BY <2>1, <2>2, <2>3, <2>4, <2>5, Steps
<1>7. changes' \in 0..MaxChanges /\ requests' \in 0..MaxRequests
  BY <1>1, <1>2, <1>6
<1>8. faults' \in 0..MaxFaults /\ restarts' \in 0..MaxRestarts
  BY <1>1, <1>2, <1>6
<1> QED BY <1>1, <1>3, <1>4, <1>5, <1>7, <1>8

\* The configuration: the channels, the model, the aliases.
LEMMA ModelTyped ==
    ASSUME Base, Next
    PROVE  /\ sysap' \in [Entities -> Shapes \cup {Gone}]
           /\ model' \in Models /\ dirty' \in SUBSET Entities
           /\ ent' \in [Entities -> Records] /\ entDisk' \in [Entities -> Records]
<1>1. /\ sysap \in [Entities -> Shapes \cup {Gone}]
      /\ model \in Models /\ dirty \in SUBSET Entities
      /\ ent \in [Entities -> Records] /\ entDisk \in [Entities -> Records]
  BY DEF Base, TypeOK
<1>2. Compile \in Models /\ NoModel \in Models
  BY <1>1, CompileIsModel DEF NoModel, Models
<1>3. sysap' \in [Entities -> Shapes \cup {Gone}]
  <2>1. ASSUME NEW e \in Entities, Change(e) PROVE sysap' \in [Entities -> Shapes \cup {Gone}]
    BY <1>1, <2>1 DEF Change
  <2>2. CASE \A e \in Entities : ~Change(e)
    <3>1. sysap' = sysap
      <4>1. CASE Start \/ Load \/ Ready \/ Reload \/ Deliver \/ Crash \/ Stop
        BY <4>1 DEF Start, Load, Ready, Reload, Deliver, Crash, Stop
      <4>3. CASE FailureSteps
        BY <4>3, FailureIs DEF Fault
      <4>4. CASE \E w \in Tasks : \/ Alias(w) \/ Resync(w) \/ Flush(w) \/ Announce(w) \/ Clear(w)
                                  \/ Retract(w) \/ Publish(w) \/ BeginSave(w) \/ EndSave(w)
        BY <4>4 DEF Alias, Resync, Flush, Announce, Clear, Retract, Publish, BeginSave, EndSave
      <4>5. CASE \/ \E e \in Entities : LivePublish(e)
                 \/ \E e \in Entities : \E n \in Names : Rename(e, n)
                 \/ \E e \in Entities : \E on \in BOOLEAN : Options(e, on)
                 \/ \E w \in {"api", "birth"} : Republish(w)
        BY <4>5 DEF LivePublish, Rename, Options, Republish, Requested
      <4> QED BY <2>2, <4>1, <4>3, <4>4, <4>5, Steps
    <3> QED BY <1>1, <3>1
  <2> QED BY <2>1, <2>2
<1>4. model' \in {model, NoModel, Compile} /\ dirty' \in SUBSET Entities
  <2>1. CASE Start \/ Load \/ Ready \/ Reload \/ Deliver
    BY <1>1, <2>1 DEF Start, Load, Ready, Reload, Deliver, memory
  <2>2. CASE Crash \/ Stop
    BY <2>2, DeathIs DEF Dies
  <2>3. CASE FailureSteps
    BY <1>1, <2>3, FailureIs DEF Dies, Fails
  <2>4. CASE \E w \in Tasks : \/ Alias(w) \/ Resync(w) \/ Flush(w) \/ Announce(w) \/ Clear(w)
                              \/ Retract(w) \/ Publish(w) \/ BeginSave(w) \/ EndSave(w)
    BY <1>1, <2>4 DEF Alias, Resync, Flush, Announce, Announced, Flushed, Clear, Retract, Publish,
       BeginSave, EndSave, memory
  <2>5. CASE \/ \E e \in Entities : Change(e)
             \/ \E e \in Entities : LivePublish(e)
             \/ \E e \in Entities : \E n \in Names : Rename(e, n)
             \/ \E e \in Entities : \E on \in BOOLEAN : Options(e, on)
             \/ \E w \in {"api", "birth"} : Republish(w)
    BY <1>1, <2>5 DEF Change, LivePublish, Rename, Options, Republish, Requested, memory
  <2> QED BY <2>1, <2>2, <2>3, <2>4, <2>5, Steps
<1>5. ent' \in [Entities -> Records] /\ entDisk' \in [Entities -> Records]
  <2>1. CASE Start \/ Load \/ Ready \/ Reload \/ Deliver
    BY <1>1, <2>1 DEF Start, Load, Ready, Reload, Deliver, memory, files
  <2>2. CASE Crash \/ Stop
    BY <1>1, <2>2 DEF Crash, Stop, Dies
  <2>3. CASE FailureSteps
    BY <1>1, <2>3, FailureIs DEF Dies, Fails, Fault
  <2>4. ASSUME NEW w \in Tasks, Alias(w)
        PROVE  ent' \in [Entities -> Records] /\ entDisk' \in [Entities -> Records]
    <3> DEFINE o == Head(todo[w])
    <3>1. o \in Ops /\ o.op = "alias"
      BY <2>4, AtStep DEF Alias, Base
    <3>2. ent' = [ent EXCEPT ![o.entity].alias = o.name] /\ entDisk' = entDisk
      BY <2>4 DEF Alias, files
    <3> HIDE DEF o
    <3>3. o.entity \in Entities /\ o.name \in Names
      BY <3>1, OpsAre
    <3>4. ent[o.entity] \in Records
      BY <1>1, <3>3
    <3>5. [ent[o.entity] EXCEPT !.alias = o.name] \in Records
      BY <3>3, <3>4, Zenon DEF Records
    <3>6. ent' = [ent EXCEPT ![o.entity] = [ent[o.entity] EXCEPT !.alias = o.name]]
      BY <3>2
    <3> QED BY <1>1, <3>2, <3>3, <3>5, <3>6
  <2>5. CASE \E w \in Tasks : \/ Resync(w) \/ Flush(w) \/ Announce(w) \/ Clear(w)
                              \/ Retract(w) \/ Publish(w) \/ BeginSave(w) \/ EndSave(w)
    BY <1>1, <2>5 DEF Resync, Flush, Announce, Clear, Retract, Publish, BeginSave, EndSave, memory, files
  <2>6. CASE \/ \E e \in Entities : Change(e)
             \/ \E e \in Entities : LivePublish(e)
             \/ \E e \in Entities : \E n \in Names : Rename(e, n)
             \/ \E w \in {"api", "birth"} : Republish(w)
    BY <1>1, <2>6 DEF Change, LivePublish, Rename, Republish, Requested, memory, files
  <2>7. ASSUME NEW e \in Entities, NEW on \in BOOLEAN, Options(e, on)
        PROVE  ent' \in [Entities -> Records] /\ entDisk' \in [Entities -> Records]
    <3>1. ent' = [ent EXCEPT ![e].enabled = on] /\ entDisk' = entDisk
      BY <2>7 DEF Options, Requested, files
    <3>2. ent[e] \in Records
      BY <1>1
    <3>3. [ent[e] EXCEPT !.enabled = on] \in Records
      BY <3>2, Zenon DEF Records
    <3>4. ent' = [ent EXCEPT ![e] = [ent[e] EXCEPT !.enabled = on]]
      BY <3>1
    <3> QED BY <1>1, <3>1, <3>3, <3>4
  <2> QED BY <2>1, <2>2, <2>3, <2>4, <2>5, <2>6, <2>7, Steps
<1> QED BY <1>1, <1>2, <1>3, <1>4, <1>5

\* The record, its file and the broker.
LEMMA StoreTyped ==
    ASSUME Base, Next
    PROVE  /\ store' \in Hashes /\ disk' \in Hashes /\ broker' \in Hashes
           /\ states' \in SUBSET Topics
           /\ writes' \in [Tasks -> Hashes \cup {None}] /\ unsaved' \in [Tasks -> BOOLEAN]
           /\ FewRecorded'
<1> DEFINE Good ==
           /\ store' \in Hashes /\ disk' \in Hashes /\ broker' \in Hashes
           /\ states' \in SUBSET Topics
           /\ writes' \in [Tasks -> Hashes \cup {None}] /\ unsaved' \in [Tasks -> BOOLEAN]
           /\ FewRecorded'
<1> SUFFICES Good
  OBVIOUS
<1>1. /\ store \in Hashes /\ disk \in Hashes /\ broker \in Hashes
      /\ states \in SUBSET Topics
      /\ writes \in [Tasks -> Hashes \cup {None}] /\ unsaved \in [Tasks -> BOOLEAN]
      /\ FewRecorded
      /\ wire \in Seq(Messages)
  BY DEF Base, TypeOK
<1>2. ASSUME store' = store, disk' = disk, broker' = broker, states' = states, writes' = writes,
             unsaved' = unsaved
      PROVE  Good
  BY <1>1, <1>2 DEF FewRecorded, Recorded
<1>3. ASSUME NEW n \in 0..Len(wire), Dies(n) PROVE Good
  <2>1. /\ store' = store /\ Arrived(n) /\ writes' = [w \in Tasks |-> None]
        /\ unsaved' = [w \in Tasks |-> FALSE]
        /\ disk' = disk \/ \E w \in Tasks : writes[w] # None /\ disk' = writes[w]
    BY <1>3 DEF Dies
  <2>2. broker' \in Hashes /\ states' \in SUBSET Topics
    BY <1>1, <2>1, ArrivedIs
  <2>3. FewRecorded'
    BY <1>3, DiesFine
  <2> QED BY <1>1, <2>1, <2>2, <2>3
<1>4. ASSUME NEW ws, NEW lost, Fails(ws, lost) PROVE Good
  <2>1. store' = store /\ disk' = disk /\ Fail(ws, lost)
    BY <1>4 DEF Fails
  <2>2. broker' \in Hashes /\ states' \in SUBSET Topics
    BY <1>1, <1>4, ArrivedIs DEF Fails
  <2>3. /\ writes' = [w \in Tasks |-> IF w \in ws THEN None ELSE writes[w]]
        /\ unsaved' = [w \in Tasks |-> IF w \in ws THEN FALSE ELSE unsaved[w]]
    BY <2>1 DEF Fail
  <2>4. FewRecorded'
    BY <1>1, <2>1, <2>3 DEF FewRecorded, Recorded
  <2> QED BY <1>1, <2>1, <2>2, <2>3, <2>4
<1>5. CASE Start
  <2>1. store' = disk /\ disk' = disk /\ broker' = broker /\ states' = states /\ writes' = writes
        /\ unsaved' = unsaved
    BY <1>5 DEF Start, files, world
  <2> QED BY <1>1, <2>1 DEF FewRecorded, Recorded
<1>6. CASE Load \/ Ready \/ Reload
  BY <1>2, <1>6 DEF Load, Ready, Reload, memory, files, world
<1>7. CASE Crash \/ Stop
  BY <1>3, <1>7, DeathIs
<1>8. CASE FailureSteps
  BY <1>3, <1>4, <1>8, FailureIs
<1>9. CASE Deliver
  <2> DEFINE m == Head(wire)
  <2>1. wire # <<>> /\ Arrived(1) /\ disk' = disk /\ writes' = writes /\ m \in Messages
    BY <1>1, <1>9, HeadTailProperties DEF Deliver, files
  <2>2. broker' \in Hashes /\ states' \in SUBSET Topics
    BY <1>1, <2>1, ArrivedOne
  <2>3. CASE m.kind = "config"
    <3>1. store' = [store EXCEPT ![m.topic] = m.look] /\ unsaved' = [unsaved EXCEPT ![m.by] = TRUE]
      BY <1>9, <2>3 DEF Deliver, Marked
    <3> HIDE DEF m
    <3>2. m.by \in Tasks /\ m.topic \in Topics /\ m.look \in Looks \cup {None}
      BY <2>1 DEF Messages
    <3>3. store' \in Hashes /\ unsaved' \in [Tasks -> BOOLEAN]
      BY <1>1, <3>1, <3>2 DEF Hashes
    <3>4. Recorded(store') \subseteq Recorded(store) \cup {m.topic}
      BY <1>1, <3>1, <3>2 DEF Recorded, Hashes
    <3>5. IsFiniteSet(Recorded(store'))
      <4>1. IsFiniteSet(Recorded(store) \cup {m.topic})
        BY <1>1, FS_AddElement DEF FewRecorded
      <4> QED BY <3>4, <4>1, FS_Subset
    <3>6. FewRecorded'
      BY <1>1, <2>1, <3>5 DEF FewRecorded, Recorded
    <3> QED BY <1>1, <2>1, <2>2, <3>3, <3>6
  <2>4. CASE m.kind # "config"
    <3>1. store' = store /\ unsaved' = unsaved
      BY <1>9, <2>4 DEF Deliver, plans
    <3>2. FewRecorded'
      BY <1>1, <2>1, <3>1 DEF FewRecorded, Recorded
    <3> QED BY <1>1, <2>1, <2>2, <3>1, <3>2
  <2> QED BY <2>3, <2>4
<1>10. ASSUME NEW w \in Tasks, BeginSave(w) PROVE Good
  <2>1. /\ store' = store /\ disk' = disk /\ broker' = broker /\ states' = states
        /\ writes' = [writes EXCEPT ![w] = store] /\ unsaved' = [unsaved EXCEPT ![w] = FALSE]
    BY <1>10 DEF BeginSave, memory, world
  <2>2. writes' \in [Tasks -> Hashes \cup {None}] /\ unsaved' \in [Tasks -> BOOLEAN]
    BY <1>1, <2>1
  <2>3. FewRecorded'
    BY <1>1, <2>1 DEF FewRecorded, Recorded
  <2> QED BY <1>1, <2>1, <2>2, <2>3
<1>11. ASSUME NEW w \in Tasks, EndSave(w) PROVE Good
  <2>1. /\ store' = store /\ disk' = writes[w] /\ writes[w] # None /\ broker' = broker /\ states' = states
        /\ writes' = [writes EXCEPT ![w] = None] /\ unsaved' = unsaved
    BY <1>11 DEF EndSave, memory, world
  <2>2. writes' \in [Tasks -> Hashes \cup {None}] /\ writes[w] \in Hashes
    BY <1>1, <2>1
  <2>3. FewRecorded'
    BY <1>1, <2>1 DEF FewRecorded, Recorded
  <2> QED BY <1>1, <2>1, <2>2, <2>3
<1>12. CASE \E w \in Tasks : \/ Alias(w) \/ Resync(w) \/ Flush(w) \/ Announce(w) \/ Clear(w)
                             \/ Retract(w) \/ Publish(w)
  BY <1>2, <1>12 DEF Alias, Resync, Flush, Announce, Clear, Retract, Publish, memory, files, plans, world
<1>13. CASE \/ \E e \in Entities : Change(e)
            \/ \E e \in Entities : LivePublish(e)
            \/ \E e \in Entities : \E n \in Names : Rename(e, n)
            \/ \E e \in Entities : \E on \in BOOLEAN : Options(e, on)
            \/ \E w \in {"api", "birth"} : Republish(w)
  BY <1>2, <1>13 DEF Change, LivePublish, Rename, Options, Republish, Requested, memory, files, plans, world
<1> HIDE DEF Good
<1>14. ASSUME NEW w \in Tasks, Run(w) PROVE Good
  <2>1. CASE BeginSave(w)
    BY <1>10, <2>1
  <2>2. CASE EndSave(w)
    BY <1>11, <2>2
  <2>3. CASE \/ Alias(w) \/ Resync(w) \/ Flush(w) \/ Announce(w) \/ Clear(w) \/ Retract(w)
             \/ Publish(w)
    BY <1>12, <2>3
  <2> QED BY <1>14, <2>1, <2>2, <2>3 DEF Run
<1> QED BY <1>5, <1>6, <1>7, <1>8, <1>9, <1>13, <1>14 DEF Next, FailureSteps

\* The topics of the steps that are to come.
LEMMA AheadTopics ==
    ASSUME Base, NEW w \in Tasks
    PROVE  /\ Ahead(w) \subseteq Topics
           /\ \A o \in Items(todo[w]) : o.op \in Setters \cup {"clear", "announce"} => o.topic \in Ahead(w)
<1>1. \A i \in 1..Len(todo[w]) : todo[w][i] \in Ops
  BY ElementOfSeq DEF Base, TypeOK
<1>2. Ahead(w) \subseteq Topics
  BY <1>1, OpsAre DEF Ahead
<1>3. \A o \in Items(todo[w]) : o.op \in Setters \cup {"clear", "announce"} => o.topic \in Ahead(w)
  <2> SUFFICES ASSUME NEW i \in 1..Len(todo[w]), todo[w][i].op \in Setters \cup {"clear", "announce"}
               PROVE  todo[w][i].topic \in Ahead(w)
    BY DEF Items
  <2>1. "topic" \in DOMAIN todo[w][i]
    BY <1>1, OpsAre
  <2> QED BY <2>1 DEF Ahead
<1> QED BY <1>2, <1>3

\* The history.
LEMMA HistoryTyped ==
    ASSUME Base, Next
    PROVE  /\ doubt' \in SUBSET Topics /\ stray' \in SUBSET Topics /\ silent' \in SUBSET Topics
           /\ overtaken' \in BOOLEAN
<1> DEFINE Good == /\ doubt' \in SUBSET Topics /\ stray' \in SUBSET Topics /\ silent' \in SUBSET Topics
                   /\ overtaken' \in BOOLEAN
<1> SUFFICES Good
  OBVIOUS
<1>1. /\ doubt \in SUBSET Topics /\ stray \in SUBSET Topics /\ silent \in SUBSET Topics
      /\ overtaken \in BOOLEAN /\ model \in Models
      /\ \A w \in Tasks : Ahead(w) \subseteq Topics
  BY AheadTopics DEF Base, TypeOK
<1>2. ASSUME doubt' = doubt, stray' = stray, silent' = silent, overtaken' = overtaken
      PROVE  Good
  BY <1>1, <1>2
<1>3. ASSUME NEW n \in 0..Len(wire), Dies(n) PROVE Good
  BY <1>2, <1>3 DEF Dies, history
<1>4. ASSUME NEW ws, NEW lost, Fails(ws, lost) PROVE Good
  <2>1. ws \in SUBSET Tasks /\ lost \in SUBSET Topics
    BY <1>4 DEF Fails
  <2>2. \A w \in Tasks : Unannounced(w) \subseteq Topics
    BY <1>1, TopicsOf DEF Unannounced
  <2>3. /\ stray' = stray \cup UNION {Ahead(w) : w \in ws}
        /\ silent' = silent \cup lost \cup (UNION {Ahead(w) \cup Unannounced(w) : w \in ws})
        /\ overtaken' = (overtaken \/ \E w \in ws : unsaved[w] \/ writes[w] # None)
    BY <1>4 DEF Fails, Fail
  <2>4. doubt' \subseteq doubt \cup Topics
    BY <1>4 DEF Fails
  <2>5. stray' \in SUBSET Topics
    BY <1>1, <2>1, <2>3
  <2>6. silent' \in SUBSET Topics
    BY <1>1, <2>1, <2>2, <2>3
  <2>7. overtaken' \in BOOLEAN
    BY <2>3
  <2> QED BY <1>1, <2>4, <2>5, <2>6, <2>7
<1>5. CASE Start
  BY <1>5 DEF Start
<1>6. CASE Load \/ Ready \/ Reload
  BY <1>2, <1>6 DEF Load, Ready, Reload, history
<1>7. CASE Crash \/ Stop
  BY <1>3, <1>7, DeathIs
<1>8. CASE FailureSteps
  BY <1>3, <1>4, <1>8, FailureIs
<1>9. CASE Deliver
  <2>1. doubt' \subseteq doubt /\ silent' \subseteq silent /\ stray' = stray /\ overtaken' = overtaken
    BY <1>9 DEF Deliver
  <2> QED BY <1>1, <2>1
<1>10. ASSUME NEW w \in Tasks, BeginSave(w) PROVE Good
  <2>1. doubt' = doubt /\ stray' = stray /\ silent' = silent
        /\ overtaken' = (\E v \in Tasks : writes[v] # None)
    BY <1>10 DEF BeginSave
  <2>2. overtaken' \in BOOLEAN
    BY <2>1
  <2> QED BY <1>1, <2>1, <2>2
<1>11. ASSUME NEW w \in Tasks, Resync(w) PROVE Good
  <2> DEFINE renamed == {e \in Entities : Has(model, e) /\ Has(Compile, e)
                                        /\ TopicOf(model, e) # TopicOf(Compile, e)
                                        /\ (w = "main" \/ TopicOf(model, e) # todo[w][2].topic)}
  <2> DEFINE moved == UNION {{TopicOf(model, e), TopicOf(Compile, e)} : e \in renamed}
             new == {TopicOf(Compile, e) : e \in renamed \cup Debts(Compile)}
             ahead == UNION {Ahead(v) : v \in Tasks \ {w}}
  <2>1. Compile \in Models
    BY CompileIsModel DEF Base, TypeOK
  <2>2. \A e \in Entities : /\ Has(model, e) => TopicOf(model, e) \in Topics
                            /\ Has(Compile, e) => TopicOf(Compile, e) \in Topics
    BY <1>1, <2>1, TopicsOf
  <2>3. /\ stray' = (stray \ Live(Compile)) \cup moved \cup ahead
        /\ silent' = silent \cup new \cup ahead
        /\ doubt' = doubt /\ overtaken' = overtaken
    BY <1>11 DEF Resync
  <2>4. \A e \in renamed \cup Debts(Compile) : e \in Entities /\ Has(Compile, e)
    BY DEF Debts, Base, TypeOK
  <2>5. \A e \in renamed : e \in Entities /\ Has(model, e) /\ Has(Compile, e)
    OBVIOUS
  <2> HIDE DEF renamed
  <2>8. moved \subseteq Topics
    BY <2>2, <2>5
  <2>9. new \subseteq Topics
    BY <2>2, <2>4
  <2>10. ahead \subseteq Topics
    BY <1>1
  <2> HIDE DEF moved, new, ahead
  <2>6. stray' \subseteq stray \cup moved \cup ahead /\ silent' \subseteq silent \cup new \cup ahead
    BY <2>3
  <2> QED BY <1>1, <2>3, <2>6, <2>8, <2>9, <2>10
<1>12. CASE \E w \in Tasks : \/ Alias(w) \/ Flush(w) \/ Announce(w) \/ Clear(w)
                             \/ Retract(w) \/ Publish(w) \/ EndSave(w)
  BY <1>2, <1>12 DEF Alias, Flush, Announce, Clear, Retract, Publish, EndSave, history
<1>13. CASE \/ \E e \in Entities : Change(e)
            \/ \E e \in Entities : LivePublish(e)
            \/ \E e \in Entities : \E on \in BOOLEAN : Options(e, on)
  BY <1>2, <1>13 DEF Change, LivePublish, Options, Requested, history
<1>14. CASE \/ \E e \in Entities : \E n \in Names : Rename(e, n)
            \/ \E w \in {"api", "birth"} : Republish(w)
  <2>1. doubt' = doubt /\ silent' = silent /\ overtaken' = overtaken
    BY <1>14 DEF Rename, Republish, Requested
  <2>2. \A t \in stray' : t \in stray \/ \E v \in Tasks : t \in Ahead(v) \/ t \in Leaving(v)
    <3>1. ASSUME NEW e \in Entities, NEW n \in Names, Rename(e, n)
          PROVE  \A t \in stray' : t \in stray \/ \E v \in Tasks : t \in Ahead(v)
      BY <3>1 DEF Rename
    <3>2. ASSUME NEW w \in {"api", "birth"}, Republish(w)
          PROVE  \A t \in stray' : t \in stray \/ \E v \in Tasks : t \in Leaving(v)
      BY <3>2 DEF Republish
    <3> QED BY <1>14, <3>1, <3>2
  <2>3. \A v \in Tasks : Leaving(v) \subseteq Topics
    <3> TAKE v \in Tasks
    <3>1. \A i \in 1..Len(todo[v]) : todo[v][i] \in Items(todo[v])
      BY DEF Items
    <3>2. {"retract", "announce"} \subseteq Setters \cup {"clear", "announce"}
      BY DEF Setters
    <3> QED BY <1>1, <3>1, <3>2, AheadTopics DEF Leaving
  <2>4. stray' \in SUBSET Topics
    BY <1>1, <2>2, <2>3
  <2> QED BY <1>1, <2>1, <2>4
<1> HIDE DEF Good
<1>15. ASSUME NEW w \in Tasks, Run(w) PROVE Good
  <2>1. CASE BeginSave(w)
    BY <1>10, <2>1
  <2>2. CASE Resync(w)
    BY <1>11, <2>2
  <2>3. CASE \/ Alias(w) \/ Flush(w) \/ Announce(w) \/ Clear(w) \/ Retract(w) \/ Publish(w)
             \/ EndSave(w)
    BY <1>12, <2>3
  <2> QED BY <1>15, <2>1, <2>2, <2>3 DEF Run
<1> QED BY <1>5, <1>6, <1>7, <1>8, <1>9, <1>13, <1>14, <1>15 DEF Next, FailureSteps

----------------------------------------------------------------------------
(* The base is inductive.                                                  *)

\* The base holds at first.
LEMMA BaseInit ==
    ASSUME Init PROVE Base
<1>1. /\ TypeOK
  <2>2. 0 \in 0..MaxChanges /\ 0 \in 0..MaxRequests /\ 0 \in 0..MaxFaults /\ 0 \in 0..MaxRestarts
    BY BoundsAssumption
  <2>3. sysap \in [Entities -> Shapes \cup {Gone}] /\ model \in Models
    BY ShapesAssumption DEF Init, NoModel, Models
  <2>4. ent \in [Entities -> Records] /\ entDisk \in [Entities -> Records]
    <3>1. [alias |-> None, enabled |-> TRUE] \in Records
      BY Zenon DEF Records
    <3>2. ent = [e \in Entities |-> [alias |-> None, enabled |-> TRUE]] /\ entDisk = ent
      BY DEF Init
    <3> QED BY <3>1, <3>2
  <2>5. store \in Hashes /\ disk \in Hashes /\ broker \in Hashes
    BY DEF Init, NoHashes, Hashes
  <2>6. writes \in [Tasks -> Hashes \cup {None}] /\ unsaved \in [Tasks -> BOOLEAN]
    BY DEF Init
  <2>7. todo \in [Tasks -> Seq(Ops)] /\ wire \in Seq(Messages) /\ Len(wire) = 0
    <3>1. <<>> \in Seq(Ops) /\ <<>> \in Seq(Messages) /\ Len(<<>>) = 0
      BY EmptySeq
    <3> QED BY <3>1 DEF Init
  <2>8. \A i, j \in 1..Len(wire) :
          wire[i].kind = "config" /\ wire[j].kind = "config" /\ wire[i].by = wire[j].by => i = j
    BY <2>7
  <2>9. /\ phase \in {"down", "starting", "running"}
        /\ dirty \in SUBSET Entities /\ states \in SUBSET Topics
        /\ fresh \in BOOLEAN /\ reload \in BOOLEAN /\ overtaken \in BOOLEAN
        /\ {doubt, stray, silent} \subseteq SUBSET Topics
    BY DEF Init
  <2>10. changes \in 0..MaxChanges /\ requests \in 0..MaxRequests
         /\ faults \in 0..MaxFaults /\ restarts \in 0..MaxRestarts
    BY <2>2 DEF Init
  <2> QED BY <2>3, <2>4, <2>5, <2>6, <2>7, <2>8, <2>9, <2>10 DEF TypeOK
<1>2. FewRecorded
  <2>1. Recorded(NoHashes) = {}
    BY DEF Recorded, NoHashes
  <2> QED BY <2>1, FS_EmptySet DEF FewRecorded, Init
<1>3. wire = <<>> /\ \A w \in Tasks : todo[w] = <<>> /\ ~unsaved[w] /\ writes[w] = None
  BY DEF Init
<1>4. DownIsDown
  BY <1>3 DEF DownIsDown, Init, Idle
<1>5. Awaited
  <2>1. Items(wire) = {}
    BY <1>3, OpWork
  <2> QED BY <2>1 DEF Awaited
<1>6. Writing
  BY <1>3 DEF Writing
<1>7. AllPlans
  BY <1>3, EmptyPlan DEF AllPlans
<1>8. LoadsAlone
  BY <1>3 DEF LoadsAlone, Loading, Tasks
<1> QED BY <1>1, <1>2, <1>4, <1>5, <1>6, <1>7, <1>8 DEF Base

\* Every step keeps the base.
LEMMA BaseNext ==
    ASSUME Base, [Next]_vars PROVE Base'
<1>1. Fine
  BY NextFine
<1>2. CASE Next
  <2>1. /\ phase' \in {"down", "starting", "running"}
        /\ fresh' \in BOOLEAN /\ reload' \in BOOLEAN
        /\ changes' \in 0..MaxChanges /\ requests' \in 0..MaxRequests
        /\ faults' \in 0..MaxFaults /\ restarts' \in 0..MaxRestarts
    BY <1>2, ControlTyped
  <2>2. /\ sysap' \in [Entities -> Shapes \cup {Gone}]
        /\ model' \in Models /\ dirty' \in SUBSET Entities
        /\ ent' \in [Entities -> Records] /\ entDisk' \in [Entities -> Records]
    BY <1>2, ModelTyped
  <2>3. /\ store' \in Hashes /\ disk' \in Hashes /\ broker' \in Hashes
        /\ states' \in SUBSET Topics
        /\ writes' \in [Tasks -> Hashes \cup {None}] /\ unsaved' \in [Tasks -> BOOLEAN]
        /\ FewRecorded'
    BY <1>2, StoreTyped
  <2>4. /\ doubt' \in SUBSET Topics /\ stray' \in SUBSET Topics /\ silent' \in SUBSET Topics
        /\ overtaken' \in BOOLEAN
    BY <1>2, HistoryTyped
  <2>5. /\ todo' \in [Tasks -> Seq(Ops)] /\ wire' \in Seq(Messages)
        /\ \A i, j \in 1..Len(wire') :
             wire'[i].kind = "config" /\ wire'[j].kind = "config" /\ wire'[i].by = wire'[j].by => i = j
    BY <1>1 DEF Fine, Once
  <2>6. {doubt', stray', silent'} \subseteq SUBSET Topics
    BY <2>4
  <2>7. TypeOK'
    BY <2>1, <2>2, <2>3, <2>4, <2>5, <2>6 DEF TypeOK
  <2> QED BY <1>1, <2>3, <2>7 DEF Base, Fine, PlansInv
<1>3. CASE UNCHANGED vars
  <2>1. TypeOK' /\ FewRecorded'
    BY <1>3 DEF Base, TypeOK, FewRecorded, Recorded, vars, memory, files, plans, world, bounds, history
  <2> QED BY <1>1, <2>1 DEF Base, Fine, PlansInv
<1> QED BY <1>2, <1>3

\* The variables keep their types, every task its plan, and no task awaits two
\* publishes at once.
THEOREM BaseHolds == Spec => []Base
<1>1. Init => Base
  BY BaseInit
<1>2. Base /\ [Next]_vars => Base'
  BY BaseNext
<1> QED BY <1>1, <1>2, PTL DEF Spec

\* The state of the bridge, of its files, of the wire and of the broker is of
\* its type, with at most one awaited publish of each task on its way.
THEOREM TypeCorrect == Spec => []TypeOK
<1>1. Base => TypeOK
  BY DEF Base
<1> QED BY <1>1, BaseHolds, PTL

----------------------------------------------------------------------------
(* The record is true.                                                     *)

\* Of the steps, only the start, a delivery and a failure touch the record, the
\* broker or the doubt about them.
LEMMA RecordStands ==
    ASSUME Base, [Next]_vars, ~Start, ~Deliver, ~FailureSteps, ~Crash, ~Stop
    PROVE  store' = store /\ broker' = broker /\ states' = states /\ doubt' = doubt /\ (Up' => Up)
<1> DEFINE Stands == store' = store /\ broker' = broker /\ states' = states /\ doubt' = doubt /\ (Up' => Up)
<1> SUFFICES Stands
  OBVIOUS
<1>1. CASE Load \/ Ready
  <2>1. Up
    <3>1. "main" \in Tasks
      BY DEF Tasks
    <3>2. \E o : Head1("main", o)
      BY <1>1 DEF Load, Ready
    <3> QED BY <3>1, <3>2, AtStep DEF Base
  <2> QED BY <1>1, <2>1 DEF Load, Ready, memory, world, history
<1>2. CASE Reload
  BY <1>2 DEF Reload, world, history, Up
<1>3. ASSUME NEW w \in Tasks, Run(w) PROVE Stands
  <2>1. phase' = phase
    BY <1>3 DEF Run, Alias, Resync, Flush, Announce, Clear, Retract, Publish, BeginSave, EndSave
  <2>2. store' = store /\ broker' = broker /\ states' = states /\ doubt' = doubt
    BY <1>3 DEF Run, Alias, Resync, Flush, Announce, Clear, Retract, Publish, BeginSave, EndSave,
       memory, world, history
  <2> QED BY <2>1, <2>2 DEF Up
<1>4. CASE \/ \E e \in Entities : Change(e)
           \/ \E e \in Entities : LivePublish(e)
           \/ \E e \in Entities : \E n \in Names : Rename(e, n)
           \/ \E e \in Entities : \E on \in BOOLEAN : Options(e, on)
           \/ \E w \in {"api", "birth"} : Republish(w)
  BY <1>4 DEF Change, LivePublish, Rename, Options, Republish, Requested, memory, world, history, Up
<1>5. CASE UNCHANGED vars
  BY <1>5 DEF vars, memory, world, history, Up
<1> HIDE DEF Stands
<1> QED BY <1>1, <1>2, <1>3, <1>4, <1>5 DEF Next, FailureSteps

\* Every step keeps the record true.
LEMMA RecordNext ==
    ASSUME Base, RecordIsTrue, [Next]_vars PROVE RecordIsTrue'
<1>0. store \in Hashes /\ broker \in Hashes /\ states \in SUBSET Topics /\ wire \in Seq(Messages)
  BY DEF Base, TypeOK
<1>1. CASE Start
  BY <1>1 DEF Start, RecordIsTrue, world
<1>2. CASE Deliver
  <2> DEFINE m == Head(wire)
  <2>1. wire # <<>> /\ Arrived(1) /\ m \in Messages /\ Up
    BY <1>0, <1>2, HeadTailProperties DEF Deliver, Base, DownIsDown
  <2>2. \A t \in Topics : broker'[t] = IF IsConfig(m, t) THEN m.look ELSE broker[t]
    BY <1>0, <2>1, ArrivedOne
  <2>3. \A t \in Topics \ doubt : store[t] = broker[t]
    BY <2>1 DEF RecordIsTrue, Up
  <2>4. CASE m.kind = "config"
    <3>1. store' = [store EXCEPT ![m.topic] = m.look] /\ doubt' = doubt \ {m.topic}
      BY <1>2, <2>4 DEF Deliver, Marked
    <3> HIDE DEF m
    <3> QED BY <1>0, <2>2, <2>3, <2>4, <3>1 DEF RecordIsTrue, IsConfig, Hashes
  <2>5. CASE m.kind # "config"
    <3>1. store' = store /\ doubt' = doubt
      BY <1>2, <2>5 DEF Deliver
    <3> HIDE DEF m
    <3> QED BY <2>2, <2>3, <2>5, <3>1 DEF RecordIsTrue, IsConfig
  <2> QED BY <2>4, <2>5
<1>3. CASE FailureSteps
  <2>1. ASSUME NEW n \in 0..Len(wire), Dies(n) PROVE RecordIsTrue'
    BY <2>1 DEF Dies, RecordIsTrue
  <2>2. ASSUME NEW ws, NEW lost, Fails(ws, lost) PROVE RecordIsTrue'
    <3>1. store' = store /\ phase # "down"
          /\ \/ doubt' = doubt \cup {t \in Topics : broker'[t] # broker[t]}
             \/ broker' = broker /\ doubt' = doubt
      BY <2>2 DEF Fails
    <3> QED BY <3>1 DEF RecordIsTrue
  <2> QED BY <1>3, <2>1, <2>2, FailureIs
<1>4. CASE Crash \/ Stop
  BY <1>4, DeathIs DEF Dies, RecordIsTrue
<1>5. CASE ~Start /\ ~Deliver /\ ~FailureSteps /\ ~Crash /\ ~Stop
  BY <1>5, RecordStands DEF RecordIsTrue, Up
<1> QED BY <1>1, <1>2, <1>3, <1>4, <1>5

\* What the store remembers is what the broker has.
THEOREM RecordHolds == Spec => []RecordIsTrue
<1>1. Init => RecordIsTrue
  BY DEF Init, RecordIsTrue
<1>2. Base /\ RecordIsTrue /\ [Next]_vars => RecordIsTrue'
  BY RecordNext
<1> QED BY <1>1, <1>2, BaseHolds, PTL DEF Spec

----------------------------------------------------------------------------
(* How the plans go on.                                                    *)

Same == store' = store /\ disk' = disk /\ unsaved' = unsaved /\ writes' = writes /\ overtaken' = overtaken

\* Task w is about to compile the model.
Compiles(w) == todo[w] # <<>> /\ Head(todo[w]).op \in {"load", "resync"}

\* Task w goes on from a step that neither publishes nor saves.
Moves(w) ==
    /\ Same /\ Up
    /\ \E o : Head1(w, o) /\ o \notin Setters \cup {"save"}
    /\ \E more : Onward(w, more, store, unsaved[w])
    /\ Compiles(w) => Load \/ Resync(w)

Flows ==
    \/ ~Up'
    \/ Start
    \/ Same /\ todo' = todo /\ Up
    \/ \E w \in Tasks : Moves(w)
    \/ \E w \in Tasks : \E q : Same /\ Up /\ Begins(w, q)
    \/ \E w \in Tasks : BeginSave(w) \/ EndSave(w)
    \/ Deliver
    \/ \E ws, lost : Fails(ws, lost)

\* A task at such a step moves.
LEMMA Moving1 ==
    ASSUME Base, NEW w \in Tasks, NEW o, Head1(w, o), o \notin Setters \cup {"save"}, Same,
           NEW more, Onward(w, more, store, unsaved[w]),
           o \in {"load", "resync"} => Load \/ Resync(w)
    PROVE  Flows
<1>1. Head(todo[w]).op = o /\ Up
  BY AtStep DEF Base
<1> QED BY <1>1 DEF Moves, Flows, Compiles

\* How the plans of the tasks go on in any step.
LEMMA PlansFlow ==
    ASSUME Base, [Next]_vars
    PROVE  Flows
<1>0. "main" \in Tasks /\ "api" \in Tasks /\ {"api", "birth"} \subseteq Tasks
  BY DEF Tasks
<1>14. {"load", "ready", "alias", "resync", "flush", "announce", "clear"} \cap (Setters \cup {"save"}) = {}
  BY DEF Setters
<1>1. CASE Start \/ Deliver
  BY <1>1 DEF Flows
<1>2. CASE Load
  <2>1. Same
    BY <1>2 DEF Load, Same, files, history
  <2>2. Head1("main", "load") /\ Onward("main", LoadPlan, store, unsaved["main"])
    BY <1>2, Loads DEF Base, Load
  <2> QED BY <1>0, <1>14, <1>2, <2>1, <2>2, Moving1
<1>3. CASE Ready
  <2>1. Same
    BY <1>3 DEF Ready, Same, memory, files, history
  <2>2. Head1("main", "ready") /\ Onward("main", <<>>, store, unsaved["main"])
    BY <1>3, ReadyFine DEF Ready
  <2> QED BY <1>0, <1>14, <2>1, <2>2, Moving1
<1>4. CASE Crash \/ Stop
  BY <1>4, DeathIs DEF Dies, Up, Flows
<1>5. CASE FailureSteps
  BY <1>5, FailureIs DEF Dies, Up, Flows
<1>6. CASE Reload
  <2>1. Same /\ Up
    BY <1>6 DEF Reload, Same, files, history, Up
  <2>2. Begins("main", Op("resync"))
    <3>1. TypeOK /\ todo["main"] = <<>> /\ todo' = [todo EXCEPT !["main"] = Op("resync")]
      BY <1>6 DEF Reload, Idle, Base
    <3> QED BY <3>1, OnePlan
  <2> QED BY <1>0, <2>1, <2>2 DEF Flows
<1>7. ASSUME NEW w \in Tasks, Run(w) PROVE Flows
  <2>1. CASE Alias(w)
    <3>1. Same
      BY <2>1 DEF Alias, Same, files, history
    <3>2. Head1(w, "alias") /\ Onward(w, <<>>, store, unsaved[w])
      BY <2>1, AliasFine DEF Alias
    <3> QED BY <1>14, <3>1, <3>2, Moving1
  <2>2. CASE Resync(w)
    <3>1. Same
      BY <2>2 DEF Resync, Same, files
    <3>2. Head1(w, "resync") /\ Onward(w, ResyncPlan, store, unsaved[w])
      BY <2>2, Resyncs DEF Resync, Base
    <3> QED BY <1>14, <2>2, <3>1, <3>2, Moving1
  <2>3. CASE Flush(w)
    <3>1. Same
      BY <2>3 DEF Flush, Same, files, history
    <3>2. Head1(w, "flush") /\ Onward(w, <<>>, store, unsaved[w])
      BY <2>3, FlushFine DEF Flush
    <3> QED BY <1>14, <3>1, <3>2, Moving1
  <2>4. CASE Announce(w)
    <3>1. Same
      BY <2>4 DEF Announce, Same, files, history
    <3>2. Head1(w, "announce") /\ Onward(w, <<>>, store, unsaved[w])
      BY <2>4, AnnounceFine DEF Announce
    <3> QED BY <1>14, <3>1, <3>2, Moving1
  <2>5. CASE Clear(w)
    <3>1. Same
      BY <2>5 DEF Clear, Same, memory, files, history
    <3>2. Head1(w, "clear") /\ Onward(w, <<>>, store, unsaved[w])
      BY <2>5, ClearFine DEF Clear
    <3> QED BY <1>14, <3>1, <3>2, Moving1
  <2>6. CASE Retract(w) \/ Publish(w)
    <3>1. Same /\ todo' = todo
      BY <2>6 DEF Retract, Publish, Same, memory, files, history, plans
    <3>2. \E o : Head1(w, o)
      BY <2>6 DEF Retract, Publish
    <3> QED BY <3>1, <3>2, AtStep DEF Flows, Base
  <2>7. CASE BeginSave(w) \/ EndSave(w)
    BY <2>7 DEF Flows
  <2> QED BY <1>7, <2>1, <2>2, <2>3, <2>4, <2>5, <2>6, <2>7 DEF Run
<1>8. CASE \/ \E e \in Entities : LivePublish(e)
           \/ \E e \in Entities : \E on \in BOOLEAN : Options(e, on)
  <2>1. Same /\ todo' = todo /\ phase # "down"
    BY <1>8 DEF LivePublish, Options, Requested, Same, memory, files, history, plans
  <2> QED BY <2>1 DEF Flows, Up
<1>9. CASE \E e \in Entities : Change(e)
  <2>1. Same /\ todo' = todo /\ phase' = phase
    BY <1>9 DEF Change, Same, files, history, plans
  <2> QED BY <2>1 DEF Flows, Up
<1>10. ASSUME NEW e \in Entities, NEW n \in Names, Rename(e, n) PROVE Flows
  <2>1. Same /\ Up
    BY <1>10 DEF Rename, Requested, Same, files, Up
  <2>2. \E q : Begins("api", q)
    BY <1>10, Renames DEF Base
  <2> QED BY <1>0, <2>1, <2>2 DEF Flows
<1>11. ASSUME NEW w \in {"api", "birth"}, Republish(w) PROVE Flows
  <2>1. Same /\ Up
    BY <1>11 DEF Republish, Requested, Same, files, Up
  <2>2. \E q : Begins(w, q)
    BY <1>11, Republishes DEF Base
  <2> QED BY <1>0, <2>1, <2>2 DEF Flows
<1>12. CASE UNCHANGED vars
  <2>1. Same /\ todo' = todo /\ phase' = phase
    BY <1>12 DEF vars, memory, files, plans, history, Same
  <2> QED BY <2>1 DEF Flows, Up
<1> QED BY <1>1, <1>2, <1>3, <1>4, <1>5, <1>6, <1>7, <1>8, <1>9, <1>10, <1>11, <1>12 DEF Next, FailureSteps

----------------------------------------------------------------------------
(* The record is saved.                                                    *)

\* Whoever marked or removed a topic has a save before it.
SavesAhead == \A w \in Tasks : unsaved[w] => \E o \in Items(todo[w]) : o.op = "save"

Writes(w) == writes[w] # None

OneWrites == Up /\ ~overtaken => \A v, w \in Tasks : Writes(v) /\ Writes(w) => v = w

WillBeSaved == Up /\ ~overtaken =>
    \/ \E w \in Tasks : unsaved[w]
    \/ \E w \in Tasks : Writes(w) /\ writes[w] = store
    \/ disk = store /\ \A w \in Tasks : ~Writes(w)

Saved == SavesAhead /\ OneWrites /\ WillBeSaved

\* The save that is behind the head of a plan is not lost as the task goes on.
LEMMA SaveStays ==
    ASSUME Base, NEW w \in Tasks, NEW more, NEW marks, Onward(w, more, marks, TRUE),
           NEW o \in Items(Tail(todo[w])), o.op = "save"
    PROVE  \E p \in Items(todo'[w]) : p.op = "save"
<1>1. ~Passed(o, marks, TRUE)
  BY DEF Passed
<1> QED BY <1>1 DEF Onward

\* The steps of a plan are its first one and those behind it.
LEMMA BehindHead ==
    ASSUME Base, NEW w \in Tasks, todo[w] # <<>>
    PROVE  /\ Head(todo[w]) \in Ops
           /\ Items(todo[w]) = {Head(todo[w])} \cup Items(Tail(todo[w]))
           /\ Head(todo[w]).op \in Setters => \E o \in Items(Tail(todo[w])) : o.op = "save"
<1> DEFINE q == todo[w]
<1>1. q \in Seq(Ops) /\ q # <<>> /\ SaveFollows(q)
  BY DEF Base, TypeOK, AllPlans, Plan
<1> HIDE DEF q
<1>2. Head(q) \in Ops /\ Items(q) = {Head(q)} \cup Items(Tail(q))
  BY <1>1, TailItems, HeadTailProperties
<1>3. ASSUME Head(q).op \in Setters PROVE \E o \in Items(Tail(q)) : o.op = "save"
  <2>1. Len(q) \in Nat \ {0} /\ Head(q) = q[1] /\ 1 \in 1..Len(q)
    BY <1>1, EmptySeq
  <2>2. PICK j \in 1 + 1..Len(q) : q[j].op = "save"
    BY <1>1, <1>3, <2>1 DEF SaveFollows
  <2>3. Len(Tail(q)) = Len(q) - 1 /\ \A i \in 1..Len(Tail(q)) : Tail(q)[i] = q[i + 1]
    BY <1>1, HeadTailProperties
  <2> DEFINE i == j - 1
  <2>4. i \in 1..Len(q) - 1 /\ i + 1 = j
    BY <2>1
  <2> HIDE DEF i
  <2>5. i \in 1..Len(Tail(q)) /\ Tail(q)[i] = q[j]
    BY <2>3, <2>4
  <2> QED BY <2>2, <2>5 DEF Items
<1> QED BY <1>2, <1>3 DEF q

\* Every step keeps a save ahead of who marked a topic.
LEMMA SavesAheadNext ==
    ASSUME Base, SavesAhead, [Next]_vars
    PROVE  SavesAhead'
<1> SUFFICES ASSUME NEW v \in Tasks, unsaved'[v]
             PROVE  \E o \in Items(todo'[v]) : o.op = "save"
  BY DEF SavesAhead
<1> DEFINE Good == \E o \in Items(todo'[v]) : o.op = "save"
<1> SUFFICES Good
  OBVIOUS
<1>0. Base'
  BY BaseNext
<1>1. CASE ~Up'
  BY <1>0, <1>1 DEF Base, DownIsDown
<1>2. CASE Start
  <2>1. ~Up /\ unsaved' = unsaved
    BY <1>2 DEF Start, Up
  <2> QED BY <2>1 DEF Base, DownIsDown
<1>3. CASE Same /\ todo' = todo
  BY <1>3 DEF Same, SavesAhead
<1>4. ASSUME NEW w \in Tasks, Moves(w) PROVE Good
  <2>1. unsaved' = unsaved /\ \E o \in Items(todo[v]) : o.op = "save"
    BY <1>4 DEF Moves, Same, SavesAhead
  <2>2. PICK o, more : Head1(w, o) /\ o \notin Setters \cup {"save"} /\ Onward(w, more, store, unsaved[w])
    BY <1>4 DEF Moves
  <2>3. CASE v # w
    BY <2>1, <2>2, <2>3 DEF Onward
  <2>4. CASE v = w
    <3>1. todo[w] # <<>> /\ Head(todo[w]).op # "save"
      BY <2>2 DEF Head1, Idle
    <3>2. \E p \in Items(Tail(todo[w])) : p.op = "save"
      BY <2>1, <2>4, <3>1, BehindHead
    <3>3. unsaved[w] = TRUE
      BY <2>1, <2>4 DEF Base, TypeOK
    <3> QED BY <2>2, <2>4, <3>2, <3>3, SaveStays
  <2> QED BY <2>3, <2>4
<1>5. ASSUME NEW w \in Tasks, NEW q, Same, Begins(w, q) PROVE Good
  <2>1. unsaved' = unsaved /\ \E o \in Items(todo[v]) : o.op = "save"
    BY <1>5 DEF Same, SavesAhead
  <2>2. v # w
    BY <1>5, <2>1, OpWork DEF Begins
  <2> QED BY <1>5, <2>1, <2>2 DEF Begins
<1>6. ASSUME NEW w \in Tasks, BeginSave(w) PROVE Good
  <2>1. unsaved' = [unsaved EXCEPT ![w] = FALSE] /\ todo' = todo
    BY <1>6 DEF BeginSave
  <2>2. unsaved[v]
    BY <2>1 DEF Base, TypeOK
  <2> QED BY <2>1, <2>2 DEF SavesAhead
<1>7. ASSUME NEW w \in Tasks, EndSave(w) PROVE Good
  <2>1. unsaved' = unsaved /\ writes[w] # None /\ Onward(w, <<>>, store, unsaved[w])
    BY <1>7, EndSaveFine DEF EndSave
  <2>2. v # w
    BY <2>1 DEF Base, Writing
  <2> QED BY <2>1, <2>2 DEF SavesAhead, Onward
<1>8. CASE Deliver
  <2> DEFINE w == Head(wire).by
  <2>1. CASE Head(wire).kind = "config"
    <3>1. w \in Tasks /\ Onward(w, <<>>, Marked(Head(wire)), TRUE) /\ SentBy(Head(wire), w)
      BY <1>8, <2>1, Delivers DEF Base
    <3>2. unsaved' = [unsaved EXCEPT ![w] = TRUE]
      BY <1>8, <2>1 DEF Deliver
    <3> HIDE DEF w
    <3>3. CASE v # w
      BY <3>1, <3>2, <3>3 DEF SavesAhead, Onward, Base, TypeOK
    <3>4. CASE v = w
      <4>1. \E o \in Items(Tail(todo[w])) : o.op = "save"
        BY <3>1, BehindHead DEF SentBy
      <4> QED BY <3>1, <3>4, <4>1, SaveStays
    <3> QED BY <3>3, <3>4
  <2>2. CASE Head(wire).kind # "config"
    BY <1>8, <2>2 DEF Deliver, plans, SavesAhead
  <2> QED BY <2>1, <2>2
<1>9. ASSUME NEW ws, NEW lost, Fails(ws, lost) PROVE Good
  <2>1. /\ todo' = [w \in Tasks |-> IF w \in ws THEN <<>> ELSE todo[w]]
        /\ unsaved' = [w \in Tasks |-> IF w \in ws THEN FALSE ELSE unsaved[w]]
    BY <1>9 DEF Fails, Fail
  <2> QED BY <2>1 DEF SavesAhead
<1> HIDE DEF Good
<1> QED BY <1>1, <1>2, <1>3, <1>4, <1>5, <1>6, <1>7, <1>8, <1>9, PlansFlow DEF Flows, Moves

\* Every step keeps the record saved or to be saved.
LEMMA SavedNext ==
    ASSUME Base, Saved, [Next]_vars
    PROVE  Saved'
<1>0. Base' /\ SavesAhead'
  BY BaseNext, SavesAheadNext DEF Saved
<1> DEFINE Good == OneWrites' /\ WillBeSaved'
<1> SUFFICES Good
  BY <1>0 DEF Saved
<1>t. /\ writes \in [Tasks -> Hashes \cup {None}] /\ unsaved \in [Tasks -> BOOLEAN]
      /\ store \in Hashes /\ None \notin Hashes
  BY ShapesAssumption DEF Base, TypeOK, Hashes
<1>1. CASE ~Up'
  BY <1>1 DEF OneWrites, WillBeSaved
<1>2. CASE Start
  <2>1. ~Up /\ writes' = writes /\ store' = disk /\ disk' = disk
    BY <1>2 DEF Start, Up, files
  <2> QED BY <2>1 DEF Base, DownIsDown, OneWrites, WillBeSaved, Writes
<1>3. CASE Same /\ Up
  BY <1>3 DEF Same, Saved, OneWrites, WillBeSaved, Writes
<1>4. ASSUME NEW w \in Tasks, BeginSave(w) PROVE Good
  <2>1. /\ writes' = [writes EXCEPT ![w] = store] /\ store' = store
        /\ overtaken' = (\E v \in Tasks : Writes(v))
    BY <1>4 DEF BeginSave, memory, Writes
  <2>2. writes'[w] = store' /\ Writes(w)'
    BY <1>t, <2>1 DEF Writes
  <2>3. ASSUME ~overtaken', NEW v \in Tasks, v # w PROVE ~Writes(v)'
    BY <1>t, <2>1, <2>3 DEF Writes
  <2> QED BY <2>2, <2>3 DEF OneWrites, WillBeSaved
<1>5. ASSUME NEW w \in Tasks, EndSave(w) PROVE Good
  <2>1. /\ writes' = [writes EXCEPT ![w] = None] /\ store' = store /\ disk' = writes[w]
        /\ Writes(w) /\ unsaved' = unsaved /\ overtaken' = overtaken /\ phase' = phase
    BY <1>5 DEF EndSave, memory, history, Writes
  <2>2. ASSUME Up', ~overtaken'
        PROVE  /\ \A v \in Tasks : ~Writes(v)'
               /\ disk' = store' \/ \E v \in Tasks : unsaved'[v]
    <3>1. \A v \in Tasks : Writes(v) => v = w
      BY <2>1, <2>2 DEF Saved, OneWrites, Up
    <3>2. \A v \in Tasks : ~Writes(v)'
      BY <1>t, <2>1, <3>1 DEF Writes
    <3>3. writes[w] = store \/ \E v \in Tasks : unsaved[v]
      BY <2>1, <2>2, <3>1 DEF Saved, WillBeSaved, Up
    <3> QED BY <2>1, <3>2, <3>3
  <2> QED BY <2>2 DEF OneWrites, WillBeSaved
<1>6. CASE Deliver
  <2>0. Up /\ writes' = writes /\ disk' = disk /\ overtaken' = overtaken
    BY <1>6 DEF Deliver, Base, DownIsDown, files
  <2>1. CASE Head(wire).kind = "config"
    <3>1. Head(wire).by \in Tasks
      BY <1>6, <2>1, Delivers DEF Base
    <3>2. unsaved' = [unsaved EXCEPT ![Head(wire).by] = TRUE]
      BY <1>6, <2>1 DEF Deliver
    <3>3. unsaved'[Head(wire).by]
      BY <1>t, <3>1, <3>2
    <3> QED BY <2>0, <3>1, <3>3 DEF Saved, OneWrites, WillBeSaved, Writes
  <2>2. CASE Head(wire).kind # "config"
    <3>1. store' = store /\ unsaved' = unsaved
      BY <1>6, <2>2 DEF Deliver, plans
    <3> QED BY <2>0, <3>1 DEF Saved, OneWrites, WillBeSaved, Writes
  <2> QED BY <2>1, <2>2
<1>7. ASSUME NEW ws, NEW lost, Fails(ws, lost) PROVE Good
  <2>1. /\ unsaved' = [w \in Tasks |-> IF w \in ws THEN FALSE ELSE unsaved[w]]
        /\ writes' = [w \in Tasks |-> IF w \in ws THEN None ELSE writes[w]]
        /\ overtaken' = (overtaken \/ \E w \in ws : unsaved[w] \/ writes[w] # None)
        /\ ws \in SUBSET Tasks /\ Up /\ store' = store /\ disk' = disk
    BY <1>7 DEF Fails, Fail, Up
  <2>2. ASSUME ~overtaken'
        PROVE  /\ ~overtaken
               /\ \A w \in Tasks : (unsaved'[w] <=> unsaved[w]) /\ writes'[w] = writes[w]
    <3>1. ~overtaken /\ \A w \in ws : ~unsaved[w] /\ writes[w] = None
      BY <2>1, <2>2
    <3> QED BY <2>1, <3>1
  <2> QED BY <2>1, <2>2 DEF Saved, OneWrites, WillBeSaved, Writes
<1> HIDE DEF Good
<1>8. CASE \E w \in Tasks : Moves(w)
  BY <1>3, <1>8 DEF Moves
<1> QED BY <1>1, <1>2, <1>3, <1>4, <1>5, <1>6, <1>7, <1>8, PlansFlow DEF Flows

\* discovery.json has the record once the tasks are through.
THEOREM RecordSaved == Spec => []RecordIsSaved
<1>1. Init => Saved
  <2> SUFFICES ASSUME Init PROVE Saved
    OBVIOUS
  <2>1. ~Up /\ \A w \in Tasks : ~unsaved[w]
    BY DEF Init, Up
  <2> QED BY <2>1 DEF Saved, SavesAhead, OneWrites, WillBeSaved
<1>2. Base /\ Saved /\ [Next]_vars => Saved'
  BY SavedNext
<1>3. Base /\ Saved => RecordIsSaved
  <2> SUFFICES ASSUME Base, Saved, Quiet, ~overtaken PROVE disk = store
    BY DEF RecordIsSaved
  <2>1. Up /\ \A w \in Tasks : todo[w] = <<>>
    BY DEF Quiet, Up, Idle
  <2>2. \A w \in Tasks : ~unsaved[w] /\ ~Writes(w)
    BY <2>1, OpWork DEF Saved, SavesAhead, Base, Writing, Writes
  <2> QED BY <2>1, <2>2 DEF Saved, WillBeSaved
<1> QED BY <1>1, <1>2, <1>3, BaseHolds, PTL DEF Spec

----------------------------------------------------------------------------
(* Requests are obeyed.                                                    *)

Agrees ==
    \A e \in Entities :
        /\ ~ent[e].enabled => ~Has(model, e)
        /\ Has(model, e) /\ ent[e].alias # None => model[e].name = ent[e].alias

WillBeObeyed == Up => Agrees \/ reload \/ \E w \in Tasks : Compiles(w)

\* What is left of a plan that is at its alias.
LEMMA AfterAlias ==
    ASSUME TypeOK, AllPlans, NEW w \in Tasks, todo[w] # <<>>, Head(todo[w]).op = "alias"
    PROVE  /\ \E r \in Items(Tail(todo[w])) : r.op = "resync"
           /\ \A o \in Items(Tail(todo[w])) : o.op \in {"resync", "announce"}
<1> DEFINE q == todo[w]
           r == Tail(q)
<1>1. q \in Seq(Ops) /\ q # <<>> /\ Head(q).op = "alias" /\ Ordered(w, q)
  BY DEF TypeOK, AllPlans, Plan
<1> HIDE DEF q
<1>2. /\ Len(q) \in Nat \ {0} /\ Head(q) = q[1] /\ 1 \in 1..Len(q)
  BY <1>1, EmptySeq
<1>3. /\ r \in Seq(Ops) /\ Len(r) = Len(q) - 1
      /\ \A i \in 1..Len(r) : r[i] = q[i + 1]
  BY <1>1, HeadTailProperties
<1>4. 1 < Len(q) /\ q[1 + 1].op = "resync"
  BY <1>1, <1>2 DEF Ordered
<1>5. 2 \in 1..Len(q) /\ q[2].op = "resync"
  BY <1>2, <1>4
<1>6. Len(q) = 2 \/ (2 < Len(q) /\ q[2 + 1].op = "announce")
  BY <1>1, <1>5 DEF Ordered
<1>7. 2 < Len(q) => Len(q) = 3 /\ q[3].op = "announce"
  <2> SUFFICES ASSUME 2 < Len(q) PROVE Len(q) = 3 /\ q[3].op = "announce"
    OBVIOUS
  <2>1. 3 \in 1..Len(q) /\ q[3].op = "announce"
    BY <1>2, <1>6
  <2> QED BY <1>1, <2>1 DEF Ordered
<1> HIDE DEF r
<1>8. 1 \in 1..Len(r) /\ r[1].op = "resync"
  BY <1>2, <1>3, <1>5
<1>9. \A i \in 1..Len(r) : r[i].op \in {"resync", "announce"}
  <2> SUFFICES ASSUME NEW i \in 1..Len(r) PROVE r[i].op \in {"resync", "announce"}
    OBVIOUS
  <2>1. i = 1 \/ i = 2
    BY <1>2, <1>3, <1>6, <1>7
  <2>2. CASE i = 2
    <3>1. r[2] = q[3] /\ 2 < Len(q)
      BY <1>2, <1>3, <2>2
    <3> QED BY <1>7, <2>2, <3>1
  <2> QED BY <1>8, <2>1, <2>2
<1> QED BY <1>8, <1>9 DEF Items, q, r

\* After an alias comes the resync.
LEMMA ThenResync ==
    ASSUME Base, NEW w \in Tasks, Alias(w)
    PROVE  Compiles(w)'
<1>1. todo[w] # <<>> /\ Head(todo[w]).op = "alias" /\ Onward(w, <<>>, store, unsaved[w])
  BY AliasFine DEF Alias, Head1, Idle
<1>2. PICK r \in Items(Tail(todo[w])) : r.op = "resync"
  BY <1>1, AfterAlias DEF Base
<1>3. \A o \in Items(Tail(todo[w])) : o.op \in {"resync", "announce"}
  BY <1>1, AfterAlias DEF Base
<1> DEFINE q == todo'[w]
<1>4. /\ q \in Seq(Ops) /\ Ordered(w, q) /\ r \in Items(q)
      /\ \A o \in Items(q) : o.op \in {"resync", "announce"}
  BY <1>1, <1>2, <1>3, OpWork DEF Onward, Plan, Passed
<1> HIDE DEF q
<1>5. PICK i \in 1..Len(q) : q[i] = r
  BY <1>4 DEF Items
<1>6. q # <<>> /\ Head(q) = q[1] /\ 1 \in 1..Len(q)
  BY <1>4, <1>5, EmptySeq
<1>7. q[1].op = "resync"
  <2> SUFFICES ASSUME q[1].op = "announce" PROVE FALSE
    BY <1>4, <1>6 DEF Items
  <2>1. Len(q) = 1
    BY <1>4, <1>6 DEF Ordered
  <2>2. i = 1
    BY <2>1
  <2> QED BY <1>2, <1>5, <2>2
<1> QED BY <1>6, <1>7 DEF Compiles, q

\* Who is about to compile still is, unless he does.
LEMMA StillCompiles ==
    ASSUME Base, NEW v \in Tasks, Compiles(v), [Next]_vars, Up', ~Load, ~Resync(v)
    PROVE  Compiles(v)'
<1> DEFINE Good == Compiles(v)'
<1> SUFFICES Good
  OBVIOUS
<1>1. CASE Start
  <2>1. ~Up
    BY <1>1 DEF Start, Up
  <2> QED BY <2>1 DEF Base, DownIsDown, Compiles, Idle
<1>2. CASE todo' = todo
  BY <1>2 DEF Compiles
<1>3. ASSUME NEW w \in Tasks, w # v, todo'[v] = todo[v] PROVE Good
  BY <1>3 DEF Compiles
<1>4. ASSUME NEW w \in Tasks, NEW o, Head1(w, o), o \notin {"load", "resync"}, Onward(w, <<>>, store, unsaved[w])
      PROVE  Good
  <2>1. w # v
    BY <1>4 DEF Head1, Compiles
  <2> QED BY <1>3, <1>4, <2>1 DEF Onward
<1>5. CASE Deliver
  <2>1. CASE Head(wire).kind = "config"
    <3>1. Onward(Head(wire).by, <<>>, Marked(Head(wire)), TRUE) /\ SentBy(Head(wire), Head(wire).by)
          /\ Head(wire).by \in Tasks
      BY <1>5, <2>1, Delivers DEF Base
    <3>2. Head(wire).by # v
      BY <3>1 DEF SentBy, Compiles, Setters
    <3> QED BY <1>3, <3>1, <3>2 DEF Onward
  <2>2. CASE Head(wire).kind # "config"
    BY <1>2, <1>5, <2>2 DEF Deliver, plans
  <2> QED BY <2>1, <2>2
<1>6. ASSUME NEW ws, NEW lost, Fails(ws, lost) PROVE Good
  <2>1. v \notin ws
    BY <1>6 DEF Fails, Compiles, Setters
  <2>2. todo' = [w \in Tasks |-> IF w \in ws THEN <<>> ELSE todo[w]]
    BY <1>6 DEF Fails, Fail
  <2> QED BY <2>1, <2>2 DEF Compiles
<1>7. ASSUME NEW w \in Tasks, NEW q, Begins(w, q) PROVE Good
  <2>1. w # v
    BY <1>7 DEF Begins, Compiles
  <2> QED BY <1>3, <1>7, <2>1 DEF Begins
<1>8. ASSUME NEW w \in Tasks, BeginSave(w) \/ EndSave(w) PROVE Good
  <2>1. CASE BeginSave(w)
    BY <1>2, <2>1 DEF BeginSave
  <2>2. CASE EndSave(w)
    <3>1. Onward(w, <<>>, store, unsaved[w]) /\ writes[w] # None
      BY <2>2, EndSaveFine DEF EndSave
    <3>2. w # v
      BY <3>1 DEF Base, Writing, Compiles
    <3> QED BY <1>3, <3>1, <3>2 DEF Onward
  <2> QED BY <1>8, <2>1, <2>2
<1>9. ASSUME NEW w \in Tasks, Moves(w) PROVE Good
  <2>1. w # v
    BY <1>9 DEF Moves
  <2> QED BY <1>3, <1>9, <2>1 DEF Moves, Onward
<1> HIDE DEF Good
<1> QED BY <1>1, <1>2, <1>5, <1>6, <1>7, <1>8, <1>9, PlansFlow DEF Flows

\* A process that is up was up, or it starts.
LEMMA ChangeUp ==
    ASSUME Base, [Next]_vars, Up', ~Start
    PROVE  Up
<1>1. CASE Next
  BY <1>1, UpOrStart DEF Change, Up
<1>2. CASE UNCHANGED vars
  BY <1>2 DEF vars, Up
<1> QED BY <1>1, <1>2

\* Every step keeps the requests obeyed or to be obeyed.
LEMMA ObeyedNext ==
    ASSUME Base, WillBeObeyed, [Next]_vars
    PROVE  WillBeObeyed'
<1> SUFFICES ASSUME Up' PROVE Agrees' \/ reload' \/ \E w \in Tasks : Compiles(w)'
  BY DEF WillBeObeyed
<1> DEFINE Good == Agrees' \/ reload' \/ \E w \in Tasks : Compiles(w)'
<1> SUFFICES Good
  OBVIOUS
<1>0. "main" \in Tasks
  BY DEF Tasks
<1>1. CASE Start
  <2>1. Loading'
    BY <1>1, StartFine
  <2> QED BY <1>0, <2>1 DEF Loading, Compiles
<1>2. ASSUME NEW w \in Tasks, Load \/ Resync(w) PROVE Good
  <2>1. model' = Compile /\ ent' = ent
    BY <1>2 DEF Load, Resync
  <2> QED BY <2>1, CompileValue DEF Agrees
<1>3. ASSUME NEW w \in Tasks, Alias(w) PROVE Good
  BY <1>3, ThenResync
<1>4. CASE Reload
  <2>1. Head(todo'["main"]).op = "resync" /\ todo'["main"] # <<>>
    BY <1>4, ReloadFine
  <2> QED BY <1>0, <2>1 DEF Compiles
<1>5. CASE \E e \in Entities : \E on \in BOOLEAN : Options(e, on)
  BY <1>5 DEF Options
<1>6. ASSUME ~Start, ~Load, \A w \in Tasks : ~Resync(w) /\ ~Alias(w), ~Reload,
             ~\E e \in Entities : \E on \in BOOLEAN : Options(e, on)
      PROVE  Good
  <2>1. ASSUME Up
        PROVE  /\ model' = model /\ ent' = ent
               /\ reload' = reload \/ reload' = (reload \/ phase = "running")
    <3> DEFINE Keeps == /\ model' = model /\ ent' = ent
                        /\ reload' = reload \/ reload' = (reload \/ phase = "running")
    <3> SUFFICES Keeps
      OBVIOUS
    <3>1. CASE Ready \/ Deliver
      BY <3>1 DEF Ready, Deliver, memory
    <3>2. CASE Crash \/ Stop
      BY <3>2, DeathIs DEF Dies, Up
    <3>3. CASE FailureSteps
      BY <3>3, FailureIs DEF Dies, Up, Fails
    <3>4. ASSUME NEW w \in Tasks, Run(w) PROVE Keeps
      BY <1>6, <3>4 DEF Run, Flush, Announce, Clear, Retract, Publish, BeginSave, EndSave, memory
    <3>5. CASE \/ \E e \in Entities : LivePublish(e)
               \/ \E e \in Entities : Change(e)
               \/ \E e \in Entities : \E n \in Names : Rename(e, n)
               \/ \E w \in {"api", "birth"} : Republish(w)
      BY <3>5, Zenon DEF Change, LivePublish, Rename, Republish, Requested, memory
    <3>6. CASE UNCHANGED vars
      BY <3>6 DEF vars, memory
    <3> HIDE DEF Keeps
    <3> QED BY <1>6, <3>1, <3>2, <3>3, <3>4, <3>5, <3>6 DEF Next, FailureSteps
  <2>2. Up
    BY <1>6, ChangeUp
  <2>3. Agrees \/ reload \/ \E w \in Tasks : Compiles(w)
    BY <2>2 DEF WillBeObeyed
  <2>4. Agrees => Agrees'
    BY <2>1, <2>2 DEF Agrees
  <2>5. ASSUME NEW w \in Tasks, Compiles(w) PROVE Compiles(w)'
    BY <1>6, <2>5, StillCompiles
  <2>6. reload => reload'
    BY <2>1, <2>2
  <2> QED BY <2>3, <2>4, <2>5, <2>6
<1> QED BY <1>0, <1>1, <1>2, <1>3, <1>4, <1>5, <1>6

\* A request that was obeyed stays obeyed.
THEOREM RequestsHold == Spec => []RequestsAreObeyed
<1>1. Init => WillBeObeyed
  BY DEF Init, WillBeObeyed, Up
<1>2. Base /\ WillBeObeyed /\ [Next]_vars => WillBeObeyed'
  BY ObeyedNext
<1>3. Base /\ WillBeObeyed => RequestsAreObeyed
  <2> SUFFICES ASSUME Base, WillBeObeyed, Quiet PROVE Agrees
    BY DEF RequestsAreObeyed, Agrees
  <2>1. Up /\ ~reload /\ \A w \in Tasks : todo[w] = <<>>
    BY DEF Quiet, Up, Idle
  <2> QED BY <2>1 DEF WillBeObeyed, Compiles
<1> QED BY <1>1, <1>2, <1>3, BaseHolds, PTL DEF Spec

----------------------------------------------------------------------------
(* Discovery is current.                                                   *)

Treats(w, t) == \E o \in Items(todo[w]) : o.op \in Setters /\ o.topic = t

\* A rename of the entity of topic t is under way: its topics are gone, and its
\* resync is to come.
Underway(t) ==
    /\ \E o \in Items(todo["api"]) : o.op = "resync"
    /\ \E o \in Items(todo["api"]) : o.op = "announce" /\ o.topic = t

\* What the broker is to have at topic t.
Aim(t) == IF Underway(t) THEN None ELSE Wanted(model)[t]

\* Every step that is still to come aims at it, and without one the broker has it.
Right(t) ==
    /\ \A w \in Tasks : \A o \in Items(todo[w]) :
          o.op \in Setters /\ o.topic = t => ValueOf(o) = Aim(t)
    /\ ~Loading /\ t \notin doubt /\ (\A w \in Tasks : ~Treats(w, t)) => broker[t] = Aim(t)

Current == Up => \A t \in Topics \ stray : Right(t)

HeadSets(w, t) == Head(todo[w]).op \in Setters /\ Head(todo[w]).topic = t

\* An announcement is the last step of a plan.
LEMMA AfterAnnounce ==
    ASSUME Base, NEW w \in Tasks, todo[w] # <<>>, Head(todo[w]).op = "announce"
    PROVE  w = "api" /\ Items(Tail(todo[w])) = {}
<1> DEFINE q == todo[w]
<1>1. q \in Seq(Ops) /\ q # <<>> /\ Head(q).op = "announce" /\ Ordered(w, q)
  BY DEF Base, TypeOK, AllPlans, Plan
<1> HIDE DEF q
<1>2. /\ Len(q) \in Nat \ {0} /\ Head(q) = q[1] /\ 1 \in 1..Len(q)
  BY <1>1, EmptySeq
<1>3. w = "api" /\ Len(q) = 1
  BY <1>1, <1>2 DEF Ordered
<1>4. Len(Tail(q)) = 0
  BY <1>1, <1>3, HeadTailProperties
<1>5. Items(Tail(q)) = {}
  BY <1>4 DEF Items
<1> QED BY <1>3, <1>5 DEF q

\* The first compile is the only step of its plan.
LEMMA AfterLoad ==
    ASSUME Base, NEW w \in Tasks, todo[w] # <<>>, Head(todo[w]).op = "load"
    PROVE  w = "main" /\ Items(Tail(todo[w])) = {}
<1> DEFINE q == todo[w]
<1>1. q \in Seq(Ops) /\ q # <<>> /\ Head(q).op = "load" /\ Ordered(w, q)
  BY DEF Base, TypeOK, AllPlans, Plan
<1> HIDE DEF q
<1>2. /\ Len(q) \in Nat \ {0} /\ Head(q) = q[1] /\ 1 \in 1..Len(q)
  BY <1>1, EmptySeq
<1>3. w = "main" /\ Len(q) = 1
  BY <1>1, <1>2 DEF Ordered
<1>4. Len(Tail(q)) = 0
  BY <1>1, <1>3, HeadTailProperties
<1>5. Items(Tail(q)) = {}
  BY <1>4 DEF Items
<1> QED BY <1>3, <1>5 DEF q

\* A task that goes on without a resync leaves a rename under way as it is.
LEMMA UnderwayStays ==
    ASSUME Base, NEW w \in Tasks, todo[w] # <<>>, Head(todo[w]).op # "resync",
           NEW marks, NEW toSave, Onward(w, <<>>, marks, toSave), NEW t
    PROVE  Underway(t)' <=> Underway(t)
<1>1. "api" \in Tasks
  BY DEF Tasks
<1>2. CASE w # "api"
  BY <1>1, <1>2 DEF Onward, Underway
<1>3. CASE w = "api"
  <2>1. Items(todo[w]) = {Head(todo[w])} \cup Items(Tail(todo[w]))
    BY BehindHead
  <2>2. Items(todo'[w]) \subseteq Items(Tail(todo[w]))
    BY OpWork DEF Onward
  <2>3. \A o \in Items(Tail(todo[w])) : o.op \in {"resync", "announce"} => o \in Items(todo'[w])
    BY DEF Onward, Passed
  <2>4. Underway(t)' => Underway(t)
    BY <1>3, <2>1, <2>2 DEF Underway
  <2>5. ASSUME Underway(t) PROVE Underway(t)'
    <3>1. PICK r \in Items(todo["api"]) : r.op = "resync"
      BY <2>5 DEF Underway
    <3>2. PICK a \in Items(todo["api"]) : a.op = "announce" /\ a.topic = t
      BY <2>5 DEF Underway
    <3>3. r \in Items(Tail(todo[w]))
      BY <1>3, <2>1, <3>1
    <3>4. a # Head(todo[w])
      BY <3>2, <3>3, AfterAnnounce
    <3>5. r \in Items(todo'[w]) /\ a \in Items(todo'[w])
      BY <1>3, <2>1, <2>3, <3>1, <3>2, <3>3, <3>4
    <3> QED BY <1>3, <3>1, <3>2, <3>5 DEF Underway
  <2> QED BY <2>4, <2>5
<1> QED BY <1>2, <1>3

\* A task goes on; what it does not do for topic t it found recorded.
LEMMA RightOn ==
    ASSUME Base, RecordIsTrue', Up', NEW w \in Tasks, todo[w] # <<>>,
           Head(todo[w]).op \notin {"load", "resync"},
           NEW toSave, Onward(w, <<>>, store', toSave), model' = model,
           NEW t \in Topics, Right(t),
           t \notin doubt' => IF HeadSets(w, t) THEN broker'[t] = ValueOf(Head(todo[w]))
                              ELSE t \notin doubt /\ broker'[t] = broker[t]
    PROVE  Right(t)'
<1>1. Aim(t)' = Aim(t)
  BY UnderwayStays DEF Aim, Wanted, Live, Has
<1>2. Items(todo[w]) = {Head(todo[w])} \cup Items(Tail(todo[w]))
  BY BehindHead
<1>3. \A v \in Tasks : Items(todo'[v]) \subseteq Items(todo[v])
  BY <1>2, OpWork DEF Onward
<1>4. \A v \in Tasks : \A o \in Items(todo'[v]) : o.op \in Setters /\ o.topic = t => ValueOf(o) = Aim(t)
  BY <1>3 DEF Right
<1>5. ASSUME t \notin doubt', \A v \in Tasks : ~Treats(v, t)'
      PROVE  broker'[t] = Aim(t)
  <2>1. CASE \E o \in Items(Tail(todo[w])) : o.op \in Setters /\ o.topic = t
    <3>1. PICK o \in Items(Tail(todo[w])) : o.op \in Setters /\ o.topic = t
      BY <2>1
    <3>2. o \notin Items(todo'[w])
      BY <1>5, <3>1 DEF Treats
    <3>3. Passed(o, store', toSave)
      BY <3>1, <3>2 DEF Onward
    <3>4. o.op = "changed" /\ store'[t] = o.look
      BY <3>1, <3>3 DEF Passed, Setters
    <3>5. broker'[t] = store'[t]
      BY <1>5 DEF RecordIsTrue, Up
    <3>6. ValueOf(o) = Aim(t)
      BY <1>2, <3>1 DEF Right
    <3> QED BY <3>4, <3>5, <3>6 DEF ValueOf
  <2>2. CASE HeadSets(w, t)
    <3>1. ValueOf(Head(todo[w])) = Aim(t)
      BY <1>2, <2>2 DEF Right, HeadSets
    <3> QED BY <1>5, <2>2, <3>1
  <2>3. CASE ~HeadSets(w, t) /\ ~\E o \in Items(Tail(todo[w])) : o.op \in Setters /\ o.topic = t
    <3>1. \A v \in Tasks : ~Treats(v, t)
      BY <1>2, <1>5, <2>3 DEF Treats, HeadSets, Onward
    <3>2. ~Loading
      <4>1. CASE w = "main"
        BY <4>1 DEF Loading
      <4>2. CASE w # "main"
        BY <4>2 DEF Tasks, Base, LoadsAlone, Idle
      <4> QED BY <4>1, <4>2
    <3> QED BY <1>5, <2>3, <3>1, <3>2 DEF Right
  <2> QED BY <2>1, <2>2, <2>3
<1> QED BY <1>1, <1>4, <1>5 DEF Right

\* Nothing that concerns topic t changes.
LEMMA RightStays ==
    ASSUME todo' = todo, model' = model, NEW t \in Topics, Right(t),
           t \notin doubt' => t \notin doubt /\ broker'[t] = broker[t]
    PROVE  Right(t)'
<1>1. Aim(t)' = Aim(t) /\ (Loading' <=> Loading)
  BY DEF Aim, Wanted, Live, Has, Underway, Loading
<1> QED BY <1>1 DEF Right, Treats

\* The first compile.
LEMMA RightAfterLoad ==
    ASSUME Base, RecordIsTrue, Load, NEW t \in Topics
    PROVE  Right(t)'
<1>0. "main" \in Tasks /\ "api" \in Tasks /\ "birth" \in Tasks /\ \A w \in Tasks : w \in {"main", "api", "birth"}
  BY DEF Tasks
<1>1. todo["main"] # <<>> /\ Head(todo["main"]).op = "load" /\ Onward("main", LoadPlan, store, unsaved["main"])
      /\ model' = Compile /\ store' = store /\ broker' = broker /\ doubt' = doubt
  BY Loads DEF Load, Head1, Idle, Base, world, history
<1>2. Loading /\ todo["api"] = <<>> /\ todo["birth"] = <<>> /\ Up
  BY <1>1 DEF Base, LoadsAlone, Loading, Idle, DownIsDown, Tasks
<1>3. todo'["api"] = <<>> /\ todo'["birth"] = <<>>
  BY <1>0, <1>1, <1>2 DEF Onward
<1>4. Compile \in Models
  BY CompileIsModel DEF Base, TypeOK
<1>5. Aim(t)' = Wanted(Compile)[t]
  <2>1. ~Underway(t)'
    BY <1>3, OpWork DEF Underway
  <2> QED BY <1>1, <2>1 DEF Aim, Wanted, Live, Has
<1>6. Items(Tail(todo["main"])) = {}
  BY <1>0, <1>1, AfterLoad
<1>7. Items(LoadPlan) = Retracts(Recorded(store) \ Live(Compile))
                 \cup Publishes("changed", Compile) \cup Saves
                 \cup {[op |-> "flush"], [op |-> "ready"]}
  BY LoadPlanIs DEF Base
<1>8. \A o \in Items(LoadPlan) : o.op \in Setters =>
         \/ o.op = "retract" /\ o.topic \in Recorded(store) \ Live(Compile)
         \/ o.op = "changed" /\ o.topic \in Live(Compile) /\ o.look = Wanted(Compile)[o.topic]
  BY <1>7 DEF Retracts, Publishes, Saves, Setters
<1>9. \A w \in Tasks : \A o \in Items(todo'[w]) : w = "main" /\ o \in Items(LoadPlan)
  BY <1>0, <1>1, <1>3, <1>6, OpWork DEF Onward
<1>10. \A w \in Tasks : \A o \in Items(todo'[w]) : o.op \in Setters /\ o.topic = t => ValueOf(o) = Aim(t)'
  <2> SUFFICES ASSUME NEW w \in Tasks, NEW o \in Items(todo'[w]), o.op \in Setters, o.topic = t
               PROVE  ValueOf(o) = Wanted(Compile)[t]
    BY <1>5
  <2>1. \/ o.op = "retract" /\ t \notin Live(Compile)
        \/ o.op = "changed" /\ o.look = Wanted(Compile)[t]
    BY <1>8, <1>9
  <2> QED BY <1>4, <2>1, WantedIs DEF ValueOf
<1>11. ASSUME t \notin doubt, \A w \in Tasks : ~Treats(w, t)'
       PROVE  broker[t] = Wanted(Compile)[t]
  <2>1. store[t] = broker[t]
    BY <1>2, <1>11 DEF RecordIsTrue, Up
  <2>2. CASE t \in Live(Compile)
    <3> DEFINE o == [op |-> "changed", topic |-> t, look |-> Wanted(Compile)[t]]
    <3>1. o \in Items(LoadPlan)
      BY <1>7, <2>2 DEF Publishes
    <3>2. o.op = "changed" /\ o.topic = t /\ o.look = Wanted(Compile)[t]
      OBVIOUS
    <3> HIDE DEF o
    <3>3. o \notin Items(todo'["main"])
      BY <1>0, <1>11, <3>2 DEF Treats, Setters
    <3>4. Passed(o, store, unsaved["main"])
      BY <1>1, <3>1, <3>3 DEF Onward
    <3> QED BY <2>1, <3>2, <3>4 DEF Passed
  <2>3. CASE t \notin Live(Compile)
    <3>1. ASSUME t \in Recorded(store) PROVE FALSE
      <4> DEFINE o == [op |-> "retract", topic |-> t]
      <4>1. o \in Items(LoadPlan)
        BY <1>7, <2>3, <3>1 DEF Retracts
      <4>2. o.op = "retract" /\ o.topic = t
        OBVIOUS
      <4> HIDE DEF o
      <4>3. o \notin Items(todo'["main"])
        BY <1>0, <1>11, <4>2 DEF Treats, Setters
      <4>4. Passed(o, store, unsaved["main"])
        BY <1>1, <4>1, <4>3 DEF Onward
      <4> QED BY <4>2, <4>4 DEF Passed
    <3>2. store[t] = None
      BY <3>1 DEF Recorded
    <3> QED BY <1>4, <2>1, <2>3, <3>2, WantedIs
  <2> QED BY <2>2, <2>3
<1> QED BY <1>1, <1>5, <1>10, <1>11 DEF Right

\* What a resync leaves alone of the history.
LEMMA StrayAfterResync ==
    ASSUME Base, NEW w \in Tasks, Resync(w), NEW t \in Topics \ stray'
    PROVE  /\ t \in Live(Compile) \/ t \notin stray
           /\ \A v \in Tasks : v # w => t \notin Ahead(v)
           /\ \A e \in Entities : Has(model, e) /\ Has(Compile, e) /\ TopicOf(model, e) # TopicOf(Compile, e) =>
                 \/ t # TopicOf(model, e) /\ t # TopicOf(Compile, e)
                 \/ w # "main" /\ TopicOf(model, e) = todo[w][2].topic
<1> DEFINE renamed == {e \in Entities : Has(model, e) /\ Has(Compile, e)
                                        /\ TopicOf(model, e) # TopicOf(Compile, e)
                                        /\ (w = "main" \/ TopicOf(model, e) # todo[w][2].topic)}
           moved == UNION {{TopicOf(model, e), TopicOf(Compile, e)} : e \in renamed}
           ahead == UNION {Ahead(v) : v \in Tasks \ {w}}
<1>1. stray' = (stray \ Live(Compile)) \cup moved \cup ahead
  BY DEF Resync
<1>2. \A e \in renamed : TopicOf(model, e) \in moved /\ TopicOf(Compile, e) \in moved
  OBVIOUS
<1>3. \A v \in Tasks : v # w => Ahead(v) \subseteq ahead
  OBVIOUS
<1>4. \A e \in Entities : Has(model, e) /\ Has(Compile, e) /\ TopicOf(model, e) # TopicOf(Compile, e) =>
         e \in renamed \/ (w # "main" /\ TopicOf(model, e) = todo[w][2].topic)
  OBVIOUS
<1> HIDE DEF moved, ahead, renamed
<1> QED BY <1>1, <1>2, <1>3, <1>4

\* A resync: what the new model lacks is retracted, what it has is published or
\* recorded already.
LEMMA RightAfterResync ==
    ASSUME Base, RecordIsTrue, NEW w \in Tasks, Resync(w), Current, NEW t \in Topics \ stray'
    PROVE  Right(t)'
<1>0. "main" \in Tasks /\ "api" \in Tasks
  BY DEF Tasks
<1>1. /\ todo[w] # <<>> /\ Head(todo[w]).op = "resync" /\ Onward(w, ResyncPlan, store, unsaved[w])
      /\ model' = Compile /\ store' = store /\ broker' = broker /\ doubt' = doubt
  BY Resyncs DEF Resync, Head1, Idle, Base, world
<1>2. Up /\ ~Loading
  <2>1. Up
    BY <1>1 DEF Base, DownIsDown, Idle
  <2>2. ~Loading
    <3>1. CASE w = "main"
      BY <1>1, <3>1 DEF Loading
    <3>2. CASE w # "main"
      BY <1>1, <3>2 DEF Tasks, Base, LoadsAlone, Idle
    <3> QED BY <3>1, <3>2
  <2> QED BY <2>1, <2>2
<1>3. Compile \in Models /\ model \in Models
  BY CompileIsModel DEF Base, TypeOK
<1>4. /\ t \in Live(Compile) \/ t \notin stray
      /\ \A v \in Tasks : v # w => t \notin Ahead(v)
      /\ \A e \in Entities : Has(model, e) /\ Has(Compile, e) /\ TopicOf(model, e) # TopicOf(Compile, e) =>
                 \/ t # TopicOf(model, e) /\ t # TopicOf(Compile, e)
                 \/ w # "main" /\ TopicOf(model, e) = todo[w][2].topic
  BY StrayAfterResync
<1>5. \/ w = "main" /\ Items(Tail(todo[w])) = {}
      \/ /\ w = "api" /\ Items(Tail(todo[w])) = {todo[w][2]} /\ todo[w][2] \in Ops
         /\ todo[w][2].op = "announce" /\ todo[w][2].topic[1] = todo[w][2].entity
  BY <1>1, AfterResync DEF Base
<1>6. /\ Items(ResyncPlan) \subseteq Clears(Removed) \cup Retracts(Removed)
            \cup Publishes("changed", Compile) \cup Saves \cup {[op |-> "flush"]}
      /\ Publishes("changed", Compile) \cup Retracts(Removed) \subseteq Items(ResyncPlan)
  BY ResyncPlanIs DEF Base
<1>7. \A o \in Items(ResyncPlan) :
         /\ o.op \notin {"resync", "announce"}
         /\ o.op \in Setters =>
               \/ o.op = "retract" /\ o.topic \in Removed
               \/ o.op = "changed" /\ o.topic \in Live(Compile) /\ o.look = Wanted(Compile)[o.topic]
  BY <1>6 DEF Clears, Retracts, Publishes, Saves, Setters
<1>8. \A v \in Tasks : v # w =>
         /\ todo'[v] = todo[v]
         /\ \A o \in Items(todo[v]) : o.op \in Setters \cup {"clear", "announce"} => o.topic # t
  BY <1>1, <1>4, AheadTopics DEF Onward
<1>9. \A o \in Items(todo'[w]) :
         \/ o \in Items(ResyncPlan)
         \/ w = "api" /\ o.op = "announce"
  BY <1>1, <1>5 DEF Onward
<1>10. ~Underway(t)'
  <2>1. CASE w = "api"
    <3>1. \A o \in Items(todo'["api"]) : o.op # "resync"
      BY <1>7, <1>9, <2>1
    <3> QED BY <3>1 DEF Underway
  <2>2. CASE w # "api"
    <3>1. \A o \in Items(todo'["api"]) : o.op = "announce" => o.topic # t
      BY <1>0, <1>8, <2>2
    <3> QED BY <3>1 DEF Underway
  <2> QED BY <2>1, <2>2
<1>11. Aim(t)' = Wanted(Compile)[t]
  BY <1>1, <1>10 DEF Aim, Wanted, Live, Has
<1>12. \A v \in Tasks : \A o \in Items(todo'[v]) : o.op \in Setters /\ o.topic = t => ValueOf(o) = Aim(t)'
  <2> SUFFICES ASSUME NEW v \in Tasks, NEW o \in Items(todo'[v]), o.op \in Setters, o.topic = t
               PROVE  ValueOf(o) = Wanted(Compile)[t]
    BY <1>11
  <2>1. v = w
    BY <1>8
  <2>2. o \in Items(ResyncPlan)
    BY <1>9, <2>1 DEF Setters
  <2>3. CASE o.op = "retract" /\ t \in Removed
    <3>1. ~Has(Compile, t[1])
      BY <2>3, RemovedIs DEF Base
    <3>2. t \notin Live(Compile)
      BY <1>3, <3>1, LiveTopics
    <3> QED BY <1>3, <2>3, <3>2, WantedIs DEF ValueOf
  <2>4. CASE o.op = "changed" /\ o.look = Wanted(Compile)[t]
    BY <2>4 DEF ValueOf
  <2> QED BY <1>7, <2>2, <2>3, <2>4
<1>13. ASSUME t \notin doubt, \A v \in Tasks : ~Treats(v, t)'
       PROVE  broker[t] = Wanted(Compile)[t]
  <2>1. store[t] = broker[t]
    BY <1>2, <1>13 DEF RecordIsTrue, Up
  <2>2. CASE t \in Live(Compile)
    <3> DEFINE o == [op |-> "changed", topic |-> t, look |-> Wanted(Compile)[t]]
    <3>1. o \in Items(ResyncPlan)
      BY <1>6, <2>2 DEF Publishes
    <3>2. o.op = "changed" /\ o.topic = t /\ o.look = Wanted(Compile)[t]
      OBVIOUS
    <3> HIDE DEF o
    <3>3. o \notin Items(todo'[w])
      BY <1>13, <3>2 DEF Treats, Setters
    <3>4. Passed(o, store, unsaved[w])
      BY <1>1, <3>1, <3>3 DEF Onward
    <3> QED BY <2>1, <3>2, <3>4 DEF Passed
  <2>3. CASE t \notin Live(Compile)
    <3>1. t \notin Removed
      <4> SUFFICES ASSUME t \in Removed PROVE FALSE
        OBVIOUS
      <4> DEFINE o == [op |-> "retract", topic |-> t]
      <4>1. o \in Items(ResyncPlan)
        BY <1>6 DEF Retracts
      <4>2. o.op = "retract" /\ o.topic = t
        OBVIOUS
      <4> HIDE DEF o
      <4>3. o \notin Items(todo'[w])
        BY <1>13, <4>2 DEF Treats, Setters
      <4>4. Passed(o, store, unsaved[w])
        BY <1>1, <4>1, <4>3 DEF Onward
      <4> QED BY <4>2, <4>4 DEF Passed
    <3>2. \A v \in Tasks : ~Treats(v, t)
      <4> SUFFICES ASSUME NEW v \in Tasks, NEW o \in Items(todo[v]), o.op \in Setters, o.topic = t
                   PROVE  FALSE
        BY DEF Treats
      <4>1. v = w
        BY <1>8
      <4>2. o = Head(todo[w]) \/ o \in Items(Tail(todo[w]))
        BY <1>1, <4>1, BehindHead
      <4> QED BY <1>1, <1>5, <4>2 DEF Setters
    <3>3. Right(t)
      BY <1>2, <1>4, <2>3 DEF Current
    <3>4. broker[t] = Aim(t)
      BY <1>2, <1>13, <3>2, <3>3 DEF Right
    <3>5. Aim(t) = None
      <4>1. CASE t \notin Live(model)
        BY <1>3, <4>1, WantedIs DEF Aim
      <4>2. CASE t \in Live(model)
        <5>1. t[1] \in Entities /\ Has(model, t[1]) /\ t = TopicOf(model, t[1])
          BY <1>3, <4>2, LiveTopics
        <5>2. Has(Compile, t[1])
          BY <3>1, <4>2, RemovedIs DEF Base
        <5>3. TopicOf(Compile, t[1]) # t
          BY <1>3, <2>3, <5>1, <5>2, TopicsOf
        <5>4. w # "main" /\ t = todo[w][2].topic
          BY <1>4, <5>1, <5>2, <5>3
        <5>5. w = "api" /\ Head(todo["api"]) \in Items(todo["api"]) /\ todo["api"][2] \in Items(todo["api"])
              /\ todo["api"][2].op = "announce" /\ todo["api"][2].topic = t
          BY <1>1, <1>5, <5>4, BehindHead
        <5>6. Underway(t)
          BY <1>1, <5>5 DEF Underway
        <5> QED BY <5>6 DEF Aim
      <4> QED BY <4>1, <4>2
    <3> QED BY <1>3, <2>3, <3>4, <3>5, WantedIs
  <2> QED BY <2>2, <2>3
<1> QED BY <1>1, <1>11, <1>12, <1>13 DEF Right

\* A task begins a plan: it treats topics no other one means something else with.
LEMMA RightAfterBegin ==
    ASSUME Base, Up, NEW w \in Tasks, NEW q, Begins(w, q), model' = model, broker' = broker, doubt' = doubt,
           NEW t \in Topics, Right(t), ~Loading,
           \A o \in Items(q) : o.op \in Setters /\ o.topic = t => ValueOf(o) = Aim(t)',
           \/ Aim(t)' = Aim(t)
           \/ /\ \E o \in Items(q) : o.op \in Setters /\ o.topic = t
              /\ \A v \in Tasks : \A o \in Items(todo[v]) : ~(o.op \in Setters /\ o.topic = t)
    PROVE  Right(t)'
<1>1. /\ todo'[w] = q /\ todo[w] = <<>>
      /\ \A v \in Tasks : v # w => todo'[v] = todo[v]
  BY DEF Begins
<1>2. \A v \in Tasks : \A o \in Items(todo'[v]) : o.op \in Setters /\ o.topic = t => ValueOf(o) = Aim(t)'
  BY <1>1 DEF Right
<1>3. ASSUME t \notin doubt, \A v \in Tasks : ~Treats(v, t)'
      PROVE  broker[t] = Aim(t)'
  <2>1. Aim(t)' = Aim(t)
    BY <1>1, <1>3 DEF Treats
  <2>2. \A v \in Tasks : ~Treats(v, t)
    BY <1>1, <1>3, OpWork DEF Treats
  <2> QED BY <1>3, <2>1, <2>2 DEF Right
<1> QED BY <1>2, <1>3 DEF Right

\* A rename retracts the topic of its entity.
LEMMA RightAfterRename ==
    ASSUME Base, NEW e \in Entities, NEW n \in Names, Rename(e, n), NEW t \in Topics \ stray', Right(t)
    PROVE  Right(t)' /\ t \notin stray
<1>0. "api" \in Tasks /\ model \in Models /\ Has(model, e)
  BY DEF Tasks, Base, TypeOK, Rename
<1> DEFINE s == TopicOf(model, e)
           q == RenamePlan(e, n, s)
<1>1. /\ Begins("api", q)
      /\ stray' = stray \cup ({s} \cap UNION {Ahead(v) : v \in Tasks})
      /\ model' = model /\ broker' = broker /\ doubt' = doubt /\ Up
  BY Renames DEF Rename, Requested, Base, world, Up
<1>2. s \in Topics /\ s[1] = e
  BY <1>0, TopicsOf
<1>3. Items(q) = Clears({s}) \cup Retracts({s}) \cup Saves
                 \cup {[op |-> "alias", entity |-> e, name |-> n], [op |-> "resync"],
                       [op |-> "announce", entity |-> e, topic |-> s]}
  BY <1>2, RenamePlanIs
<1> HIDE DEF q, s
<1>4. /\ todo["api"] = <<>> /\ todo'["api"] = q
  BY <1>1 DEF Begins
<1>5. ~Loading
  <2>1. model # NoModel
    BY <1>0, HasModel
  <2> QED BY <2>1 DEF Base, LoadsAlone
<1>6. ~Underway(t)
  BY <1>4, OpWork DEF Underway
<1>7. \A o \in Items(q) :
         /\ o.op \in Setters => o.op = "retract" /\ o.topic = s
         /\ o.op = "announce" => o.topic = s
  BY <1>3 DEF Clears, Retracts, Saves, Setters
<1>8. /\ \E o \in Items(q) : o.op = "retract" /\ o.topic = s
      /\ \E o \in Items(q) : o.op = "resync"
      /\ \E o \in Items(q) : o.op = "announce" /\ o.topic = s
  <2>1. \E o \in Items(q) : o.op = "retract" /\ o.topic = s
    <3> DEFINE o == [op |-> "retract", topic |-> s]
    <3>1. o \in Items(q) /\ o.op = "retract" /\ o.topic = s
      BY <1>3 DEF Retracts
    <3> QED BY <3>1
  <2>2. \E o \in Items(q) : o.op = "resync"
    <3> DEFINE o == [op |-> "resync"]
    <3>1. o \in Items(q) /\ o.op = "resync"
      BY <1>3
    <3> QED BY <3>1
  <2>3. \E o \in Items(q) : o.op = "announce" /\ o.topic = s
    <3> DEFINE o == [op |-> "announce", entity |-> e, topic |-> s]
    <3>1. o \in Items(q) /\ o.op = "announce" /\ o.topic = s
      BY <1>3
    <3> QED BY <3>1
  <2> QED BY <2>1, <2>2, <2>3
<1>9. CASE t = s
  <2>1. Underway(t)'
    BY <1>4, <1>8, <1>9 DEF Underway
  <2>2. Aim(t)' = None
    BY <2>1 DEF Aim
  <2>3. \A v \in Tasks : t \notin Ahead(v)
    BY <1>1, <1>9
  <2>4. \A v \in Tasks : \A o \in Items(todo[v]) : ~(o.op \in Setters /\ o.topic = t)
    BY <2>3, AheadTopics
  <2>5. \A o \in Items(q) : o.op \in Setters /\ o.topic = t => ValueOf(o) = Aim(t)'
    BY <1>7, <2>2 DEF ValueOf
  <2>6. \E o \in Items(q) : o.op \in Setters /\ o.topic = t
    BY <1>8, <1>9 DEF Setters
  <2> QED BY <1>0, <1>1, <1>5, <2>4, <2>5, <2>6, RightAfterBegin
<1>10. CASE t # s
  <2>1. ~Underway(t)'
    BY <1>4, <1>7, <1>10 DEF Underway
  <2>2. Aim(t)' = Aim(t)
    BY <1>1, <1>6, <2>1 DEF Aim, Wanted, Live, Has
  <2>3. \A o \in Items(q) : ~(o.op \in Setters /\ o.topic = t)
    BY <1>7, <1>10
  <2> QED BY <1>0, <1>1, <1>5, <2>2, <2>3, RightAfterBegin
<1> QED BY <1>9, <1>10

\* A republish sends what the model has.
LEMMA RightAfterRepublish ==
    ASSUME Base, NEW w \in {"api", "birth"}, Republish(w), NEW t \in Topics \ stray', Right(t)
    PROVE  Right(t)' /\ t \notin stray
<1>0. w \in Tasks /\ "api" \in Tasks /\ model \in Models
  BY DEF Tasks, Base, TypeOK
<1> DEFINE q == Publishing("publish", model)
<1>1. /\ Begins(w, q) /\ Items(q) = Publishes("publish", model) \cup Saves
      /\ model' = model /\ broker' = broker /\ doubt' = doubt /\ Up
      /\ stray' = stray \cup (Live(model) \cap UNION {Leaving(v) : v \in Tasks})
      /\ Live(model) # {}
  BY Republishes DEF Republish, Requested, Base, world, Up
<1> HIDE DEF q
<1>2. ~Loading
  <2>1. model # NoModel
    BY <1>0, <1>1, LiveTopics, HasModel
  <2> QED BY <2>1 DEF Base, LoadsAlone
<1>3. \A o \in Items(q) :
         /\ o.op \notin {"resync", "announce"}
         /\ o.op \in Setters => o.op = "publish" /\ o.topic \in Live(model) /\ o.look = Wanted(model)[o.topic]
  BY <1>1 DEF Publishes, Saves, Setters
<1>4. Underway(t)' <=> Underway(t)
  <2>1. CASE w = "api"
    <3>1. ~Underway(t)
      BY <1>1, <2>1, OpWork DEF Begins, Underway
    <3>2. ~Underway(t)'
      BY <1>1, <1>3, <2>1 DEF Begins, Underway
    <3> QED BY <3>1, <3>2
  <2>2. CASE w # "api"
    BY <1>0, <1>1, <2>2 DEF Begins, Underway
  <2> QED BY <2>1, <2>2
<1>5. Aim(t)' = Aim(t)
  BY <1>1, <1>4 DEF Aim, Wanted, Live, Has
<1>6. t \in Live(model) => ~Underway(t)
  <2> SUFFICES ASSUME t \in Live(model), Underway(t) PROVE FALSE
    OBVIOUS
  <2>1. PICK i \in 1..Len(todo["api"]) : todo["api"][i].op = "announce" /\ todo["api"][i].topic = t
    BY DEF Underway, Items
  <2>2. t \in Leaving("api")
    BY <2>1 DEF Leaving
  <2> QED BY <1>0, <1>1, <2>2
<1>7. \A o \in Items(q) : o.op \in Setters /\ o.topic = t => ValueOf(o) = Aim(t)'
  BY <1>3, <1>5, <1>6 DEF ValueOf, Aim
<1> QED BY <1>0, <1>1, <1>2, <1>5, <1>7, RightAfterBegin

\* The plans of the tasks that fail are gone; their topics are strays.
LEMMA RightAfterFailure ==
    ASSUME Base, NEW ws, NEW lost, Fails(ws, lost), NEW t \in Topics \ stray', Right(t)
    PROVE  Right(t)' /\ t \notin stray
<1>0. "api" \in Tasks /\ "main" \in Tasks
  BY DEF Tasks
<1>1. /\ todo' = [w \in Tasks |-> IF w \in ws THEN <<>> ELSE todo[w]]
      /\ stray' = stray \cup (UNION {Ahead(w) : w \in ws})
      /\ ws \in SUBSET Tasks /\ model' = model
      /\ \A w \in ws : todo[w] # <<>> /\ Head(todo[w]).op \in Setters \cup {"clear", "save"}
      /\ \/ doubt' = doubt \cup {u \in Topics : broker'[u] # broker[u]}
         \/ broker' = broker /\ doubt' = doubt
  BY DEF Fails, Fail
<1>2. t \notin stray /\ \A w \in ws : t \notin Ahead(w)
  BY <1>1
<1>3. \A w \in ws : \A o \in Items(todo[w]) : o.op \in Setters \cup {"announce"} => o.topic # t
  BY <1>1, <1>2, AheadTopics
<1>4. Underway(t)' <=> Underway(t)
  <2>1. CASE "api" \in ws
    <3>1. ~Underway(t)
      BY <1>3, <2>1 DEF Underway
    <3>2. todo'["api"] = <<>>
      BY <1>0, <1>1, <2>1
    <3> QED BY <3>1, <3>2, OpWork DEF Underway
  <2>2. CASE "api" \notin ws
    BY <1>0, <1>1, <2>2 DEF Underway
  <2> QED BY <2>1, <2>2
<1>5. Aim(t)' = Aim(t)
  BY <1>1, <1>4 DEF Aim, Wanted, Live, Has
<1>6. \A v \in Tasks : \A o \in Items(todo'[v]) : o \in Items(todo[v])
  BY <1>1, OpWork
<1>7. Loading => Loading'
  <2>1. Loading => "main" \notin ws
    BY <1>1 DEF Loading, Setters
  <2> QED BY <1>0, <1>1, <2>1 DEF Loading
<1>8. (\A v \in Tasks : ~Treats(v, t)') => \A v \in Tasks : ~Treats(v, t)
  BY <1>1, <1>3 DEF Treats
<1>9. t \notin doubt' => t \notin doubt /\ broker'[t] = broker[t]
  BY <1>1
<1> QED BY <1>2, <1>5, <1>6, <1>7, <1>8, <1>9 DEF Right

\* A message arrives.
LEMMA RightAfterDelivery ==
    ASSUME Base, RecordIsTrue', Deliver, NEW t \in Topics, Right(t)
    PROVE  Right(t)'
<1> DEFINE m == Head(wire)
<1>0. wire # <<>> /\ wire \in Seq(Messages) /\ Arrived(1) /\ broker \in Hashes /\ states \in SUBSET Topics
      /\ model' = model /\ Up /\ Up'
  BY DEF Deliver, Base, TypeOK, DownIsDown, Up
<1>1. \A u \in Topics : broker'[u] = IF IsConfig(m, u) THEN m.look ELSE broker[u]
  BY <1>0, ArrivedOne
<1>2. CASE m.kind = "config"
  <2> DEFINE w == m.by
  <2>1. w \in Tasks /\ Onward(w, <<>>, Marked(m), TRUE) /\ SentBy(m, w)
    BY <1>2, Delivers DEF Base
  <2>2. store' = Marked(m) /\ doubt' = doubt \ {m.topic}
    BY <1>2 DEF Deliver
  <2>3. Onward(w, <<>>, store', TRUE)
    BY <2>1, <2>2
  <2> HIDE DEF m, w
  <2>4. todo[w] # <<>> /\ Head(todo[w]).op \in Setters /\ m.topic = Head(todo[w]).topic
        /\ m.look = ValueOf(Head(todo[w]))
    BY <2>1 DEF SentBy
  <2>5. t \notin doubt' => IF HeadSets(w, t) THEN broker'[t] = ValueOf(Head(todo[w]))
                           ELSE t \notin doubt /\ broker'[t] = broker[t]
    BY <1>1, <1>2, <2>2, <2>4 DEF HeadSets, IsConfig
  <2>6. Head(todo[w]).op \notin {"load", "resync"}
    BY <2>4 DEF Setters
  <2> QED BY <1>0, <2>1, <2>3, <2>4, <2>5, <2>6, RightOn
<1>3. CASE m.kind # "config"
  <2>1. todo' = todo /\ doubt' = doubt
    BY <1>3 DEF Deliver, plans
  <2>2. broker'[t] = broker[t]
    BY <1>1, <1>3 DEF IsConfig
  <2> QED BY <1>0, <2>1, <2>2, RightStays
<1> QED BY <1>2, <1>3

\* A task goes on from a step that is neither a setter nor a compile.
LEMMA RightAfterStep ==
    ASSUME Base, RecordIsTrue', NEW w \in Tasks, NEW o, Head1(w, o),
           o \notin Setters \cup {"load", "resync"}, Onward(w, <<>>, store, unsaved[w]),
           store' = store, broker' = broker, doubt' = doubt, model' = model, Up',
           NEW t \in Topics, Right(t)
    PROVE  Right(t)'
<1>1. todo[w] # <<>> /\ Head(todo[w]).op = o
  BY DEF Head1, Idle
<1>2. ~HeadSets(w, t)
  BY <1>1 DEF HeadSets
<1> QED BY <1>1, <1>2, RightOn

\* Each step of a task.
LEMMA RightAfterRun ==
    ASSUME Base, RecordIsTrue, RecordIsTrue', Current, Up, NEW w \in Tasks, Run(w), NEW t \in Topics \ stray'
    PROVE  Right(t)'
<1>1. CASE Resync(w)
  BY <1>1, RightAfterResync
<1>2. CASE ~Resync(w)
  <2>1. /\ stray' = stray /\ doubt' = doubt /\ store' = store /\ broker' = broker /\ model' = model
        /\ phase' = phase
    BY <1>2 DEF Run, Alias, Flush, Announce, Clear, Retract, Publish, BeginSave, EndSave,
       memory, world, history
  <2>2. Right(t) /\ Up'
    BY <2>1 DEF Current, Up
  <2>3. CASE Alias(w)
    <3>1. Head1(w, "alias") /\ Onward(w, <<>>, store, unsaved[w])
      BY <2>3, AliasFine DEF Alias
    <3> QED BY <2>1, <2>2, <3>1, RightAfterStep DEF Setters
  <2>4. CASE Flush(w)
    <3>1. Head1(w, "flush") /\ Onward(w, <<>>, store, unsaved[w])
      BY <2>4, FlushFine DEF Flush
    <3> QED BY <2>1, <2>2, <3>1, RightAfterStep DEF Setters
  <2>5. CASE Announce(w)
    <3>1. Head1(w, "announce") /\ Onward(w, <<>>, store, unsaved[w])
      BY <2>5, AnnounceFine DEF Announce
    <3> QED BY <2>1, <2>2, <3>1, RightAfterStep DEF Setters
  <2>6. CASE Clear(w)
    <3>1. Head1(w, "clear") /\ Onward(w, <<>>, store, unsaved[w])
      BY <2>6, ClearFine DEF Clear
    <3> QED BY <2>1, <2>2, <3>1, RightAfterStep DEF Setters
  <2>7. CASE Retract(w) \/ Publish(w) \/ BeginSave(w)
    <3>1. todo' = todo
      BY <2>7 DEF Retract, Publish, BeginSave, plans
    <3> QED BY <2>1, <2>2, <3>1, RightStays
  <2>8. CASE EndSave(w)
    <3>1. Onward(w, <<>>, store', unsaved[w]) /\ writes[w] # None
      BY <2>1, <2>8, EndSaveFine DEF EndSave
    <3>2. todo[w] # <<>> /\ Head(todo[w]).op = "save"
      BY <3>1 DEF Base, Writing
    <3>3. ~HeadSets(w, t)
      BY <3>2 DEF HeadSets, Setters
    <3> QED BY <2>1, <2>2, <3>1, <3>2, <3>3, RightOn
  <2> QED BY <1>2, <2>3, <2>4, <2>5, <2>6, <2>7, <2>8 DEF Run
<1> QED BY <1>1, <1>2

\* The start: nothing is to be done but to load.
LEMMA RightAfterStart ==
    ASSUME Base, Start, NEW t \in Topics
    PROVE  Right(t)'
<1>1. Fine /\ Loading' /\ Items(todo'["main"]) = {[op |-> "load"]}
  BY StartFine
<1>2. todo'["api"] = <<>> /\ todo'["birth"] = <<>>
  BY <1>1 DEF Fine, LoadsAlone, Idle
<1>3. \A w \in Tasks : \A o \in Items(todo'[w]) : o.op \notin Setters
  <2> SUFFICES ASSUME NEW w \in Tasks, NEW o \in Items(todo'[w]) PROVE o.op \notin Setters
    OBVIOUS
  <2>1. w = "main"
    BY <1>2, OpWork DEF Tasks
  <2>2. o.op = "load"
    BY <1>1, <2>1
  <2> QED BY <2>2 DEF Setters
<1> QED BY <1>1, <1>3 DEF Right

\* Every step keeps discovery current or to become so.
LEMMA CurrentNext ==
    ASSUME Base, RecordIsTrue, Current, [Next]_vars
    PROVE  Current'
<1> SUFFICES ASSUME Up', NEW t \in Topics \ stray' PROVE Right(t)'
  BY DEF Current
<1> DEFINE Good == Right(t)'
<1> SUFFICES Good
  OBVIOUS
<1>0. RecordIsTrue'
  BY RecordNext
<1>1. CASE Start
  BY <1>1, RightAfterStart
<1>2. CASE Load
  BY <1>2, RightAfterLoad
<1>4. CASE Ready
  <2>1. /\ stray' = stray /\ doubt' = doubt /\ store' = store /\ broker' = broker /\ model' = model
        /\ ~Start
    BY <1>4, AtStep DEF Ready, memory, world, history, Start, Base, Up, Tasks
  <2>2. Right(t)
    BY <2>1, ChangeUp DEF Current
  <2>3. Head1("main", "ready") /\ Onward("main", <<>>, store, unsaved["main"]) /\ "main" \in Tasks
    BY <1>4, ReadyFine DEF Ready, Tasks
  <2> QED BY <1>0, <2>1, <2>2, <2>3, RightAfterStep DEF Setters
<1>5. CASE Crash \/ Stop
  BY <1>5, DeathIs DEF Dies, Up
<1>6. CASE FailureSteps
  <2>1. ASSUME NEW ws, NEW lost, Fails(ws, lost) PROVE Good
    <3>1. stray \subseteq stray' /\ Up
      BY <2>1 DEF Fails, Fail, Up
    <3> QED BY <2>1, <3>1, RightAfterFailure DEF Current
  <2> QED BY <1>6, <2>1, FailureIs DEF Dies, Up
<1>7. CASE Reload
  <2>1. /\ stray' = stray /\ doubt' = doubt /\ broker' = broker /\ model' = model /\ Up
    BY <1>7 DEF Reload, world, history, Up
  <2>2. /\ Items(todo'["main"]) = {[op |-> "resync"]}
        /\ todo'["main"] # <<>> /\ \A v \in Tasks : v # "main" => todo'[v] = todo[v]
        /\ todo["main"] = <<>> /\ Head(todo'["main"]) = [op |-> "resync"]
    BY <1>7, ReloadFine
  <2>3. Right(t)
    BY <2>1 DEF Current
  <2>4. Aim(t)' = Aim(t)
    BY <2>1, <2>2 DEF Aim, Wanted, Live, Has, Underway, Tasks
  <2>5. ~Loading
    BY <2>2 DEF Loading
  <2>6. \A v \in Tasks : \A o \in Items(todo'[v]) : o \in Items(todo[v]) \/ o.op \notin Setters
    BY <2>2 DEF Setters
  <2>7. \A v \in Tasks : Treats(v, t) => Treats(v, t)'
    BY <2>2, OpWork DEF Treats
  <2> QED BY <2>1, <2>3, <2>4, <2>5, <2>6, <2>7 DEF Right
<1>8. CASE Deliver
  <2>1. stray' = stray /\ Up
    BY <1>8 DEF Deliver, Base, DownIsDown
  <2> QED BY <1>0, <1>8, <2>1, RightAfterDelivery DEF Current
<1>9. ASSUME NEW w \in Tasks, Run(w) PROVE Good
  <2>1. Up
    <3>1. ~Start
      BY <1>9 DEF Start, Run, Alias, Resync, Flush, Announce, Clear, Retract, Publish, BeginSave,
         EndSave
    <3> QED BY <3>1, ChangeUp
  <2> QED BY <1>0, <1>9, <2>1, RightAfterRun
<1>10. ASSUME NEW e \in Entities, NEW n \in Names, Rename(e, n) PROVE Good
  <2>1. stray \subseteq stray' /\ Up
    BY <1>10 DEF Rename, Requested, Up
  <2> QED BY <1>10, <2>1, RightAfterRename DEF Current
<1>11. ASSUME NEW w \in {"api", "birth"}, Republish(w) PROVE Good
  <2>1. stray \subseteq stray' /\ Up
    BY <1>11 DEF Republish, Requested, Up
  <2> QED BY <1>11, <2>1, RightAfterRepublish DEF Current
<1>12. CASE \/ \E e \in Entities : LivePublish(e)
            \/ \E e \in Entities : Change(e)
            \/ \E e \in Entities : \E on \in BOOLEAN : Options(e, on)
            \/ UNCHANGED vars
  <2>1. /\ stray' = stray /\ doubt' = doubt /\ broker' = broker /\ model' = model /\ todo' = todo
        /\ phase' = phase
    BY <1>12 DEF LivePublish, Change, Options, Requested, memory, plans, world, history, vars
  <2> QED BY <2>1, RightStays DEF Current, Up
<1> HIDE DEF Good
<1> QED BY <1>1, <1>2, <1>4, <1>5, <1>6, <1>7, <1>8, <1>9, <1>10, <1>11, <1>12 DEF Next, FailureSteps

\* Home Assistant is told of exactly the entities there are.
THEOREM DiscoveryHolds == Spec => []DiscoveryIsCurrent
<1>1. Init => Current /\ RecordIsTrue
  BY DEF Init, Current, RecordIsTrue, Up
<1>2. Base /\ RecordIsTrue /\ Current /\ [Next]_vars => RecordIsTrue' /\ Current'
  BY RecordNext, CurrentNext
<1>3. Base /\ Current => DiscoveryIsCurrent
  <2> SUFFICES ASSUME Base, Current, Quiet, NEW t \in Topics \ (doubt \cup stray)
               PROVE  broker[t] = Wanted(model)[t]
    BY DEF DiscoveryIsCurrent
  <2>1. Up /\ \A w \in Tasks : todo[w] = <<>>
    BY DEF Quiet, Up, Idle
  <2>2. ~Loading /\ ~Underway(t) /\ \A w \in Tasks : ~Treats(w, t)
    BY <2>1, OpWork DEF Loading, Underway, Treats, Tasks
  <2> QED BY <2>1, <2>2 DEF Current, Right, Aim
<1> QED BY <1>1, <1>2, <1>3, BaseHolds, PTL DEF Spec

----------------------------------------------------------------------------
(* States are there.                                                       *)

\* Of the messages q and the retained states s: topic t has a state once the
\* messages have arrived.
Comes(q, s, t) ==
    \/ \E i \in 1..Len(q) : IsState(q[i], t) /\ \A j \in i + 1..Len(q) : ~IsClear(q[j], t)
    \/ t \in s /\ \A i \in 1..Len(q) : ~IsClear(q[i], t)

\* Messages that clear nothing are put on the wire.
LEMMA ComesAfter ==
    ASSUME NEW q \in Seq(Messages), NEW f \in Seq(Messages), NEW s, NEW t,
           \A m \in Items(f) : ~IsClear(m, t),
           Comes(q, s, t) \/ \E m \in Items(f) : IsState(m, t)
    PROVE  Comes(q \o f, s, t)
<1> DEFINE r == q \o f
<1>1. /\ Len(r) = Len(q) + Len(f)
      /\ \A i \in 1..Len(q) + Len(f) : r[i] = IF i <= Len(q) THEN q[i] ELSE f[i - Len(q)]
  BY ConcatProperties
<1>2. Len(q) \in Nat /\ Len(f) \in Nat
  BY LenProperties
<1> HIDE DEF r
<1>3. \A i \in 1..Len(q) : i \in 1..Len(r) /\ r[i] = q[i]
  BY <1>1, <1>2
<1>4. \A i \in 1..Len(r) : i \in 1..Len(q) \/ (i - Len(q) \in 1..Len(f) /\ r[i] = f[i - Len(q)])
  BY <1>1, <1>2
<1>5. \A i \in 1..Len(f) : i + Len(q) \in 1..Len(r) /\ r[i + Len(q)] = f[i]
  <2> SUFFICES ASSUME NEW i \in 1..Len(f) PROVE i + Len(q) \in 1..Len(r) /\ r[i + Len(q)] = f[i]
    OBVIOUS
  <2>1. i + Len(q) \in 1..Len(r) /\ ~(i + Len(q) <= Len(q)) /\ (i + Len(q)) - Len(q) = i
    BY <1>1, <1>2
  <2> QED BY <1>1, <2>1
<1>6. \A i \in 1..Len(f) : ~IsClear(f[i], t)
  BY DEF Items
<1>7. \A i \in 1..Len(r) : IsClear(r[i], t) => i \in 1..Len(q) /\ IsClear(q[i], t)
  BY <1>3, <1>4, <1>6
<1>8. CASE \E i \in 1..Len(q) : IsState(q[i], t) /\ \A j \in i + 1..Len(q) : ~IsClear(q[j], t)
  <2>1. PICK i \in 1..Len(q) : IsState(q[i], t) /\ \A j \in i + 1..Len(q) : ~IsClear(q[j], t)
    BY <1>8
  <2>2. i \in 1..Len(r) /\ IsState(r[i], t)
    BY <1>3, <2>1
  <2>3. \A j \in i + 1..Len(r) : j \in 1..Len(r) /\ (j \in 1..Len(q) => j \in i + 1..Len(q))
    BY <1>2, <2>1
  <2>4. \A j \in i + 1..Len(r) : ~IsClear(r[j], t)
    BY <1>7, <2>1, <2>3
  <2> QED BY <2>2, <2>4 DEF Comes, r
<1>9. CASE t \in s /\ \A i \in 1..Len(q) : ~IsClear(q[i], t)
  <2>1. \A i \in 1..Len(r) : ~IsClear(r[i], t)
    BY <1>7, <1>9
  <2> QED BY <1>9, <2>1 DEF Comes, r
<1>10. CASE \E m \in Items(f) : IsState(m, t)
  <2>1. PICK i \in 1..Len(f) : IsState(f[i], t)
    BY <1>10 DEF Items
  <2> DEFINE k == i + Len(q)
  <2>2. k \in 1..Len(r) /\ IsState(r[k], t)
    BY <1>5, <2>1
  <2>3. \A j \in k + 1..Len(r) : j \in 1..Len(r) /\ j \notin 1..Len(q)
    BY <1>1, <1>2, <2>1
  <2> HIDE DEF k
  <2>4. \A j \in k + 1..Len(r) : ~IsClear(r[j], t)
    BY <1>7, <2>3
  <2> QED BY <2>2, <2>4 DEF Comes, r
<1> QED BY <1>8, <1>9, <1>10 DEF Comes

\* A message that does not clear the topic is put on the wire.
LEMMA ComesOne ==
    ASSUME NEW q \in Seq(Messages), NEW m \in Messages, NEW s, NEW t, ~IsClear(m, t),
           Comes(q, s, t) \/ IsState(m, t)
    PROVE  Comes(Append(q, m), s, t)
<1> DEFINE f == <<m>>
<1>1. f \in Seq(Messages) /\ Items(f) = {m}
  BY OneStep
<1>2. Append(q, m) = q \o f
  BY AppendIsConcat
<1> HIDE DEF f
<1>3. Comes(q \o f, s, t)
  BY <1>1, ComesAfter
<1> QED BY <1>2, <1>3

\* The oldest message arrives.
LEMMA ComesFirst ==
    ASSUME NEW q \in Seq(Messages), q # <<>>, NEW s, NEW u, NEW t,
           t \in u <=> IsState(Head(q), t) \/ (t \in s /\ ~IsClear(Head(q), t))
    PROVE  /\ Comes(q, s, t) => Comes(Tail(q), u, t)
           /\ IsState(Head(q), t) /\ (\A i \in 2..Len(q) : ~IsClear(q[i], t)) => Comes(Tail(q), u, t)
<1> DEFINE r == Tail(q)
<1>1. /\ Len(r) = Len(q) - 1
      /\ \A i \in 1..Len(r) : r[i] = q[i + 1]
  BY HeadTailProperties
<1>2. Len(q) \in Nat \ {0} /\ Head(q) = q[1] /\ 1 \in 1..Len(q)
  BY EmptySeq
<1> HIDE DEF r
<1>3. \A i \in 1..Len(r) : i + 1 \in 2..Len(q) /\ i + 1 \in 1..Len(q) /\ r[i] = q[i + 1]
  BY <1>1, <1>2
<1>4. ASSUME IsState(Head(q), t), \A i \in 2..Len(q) : ~IsClear(q[i], t)
      PROVE  Comes(r, u, t)
  <2>1. \A i \in 1..Len(r) : ~IsClear(r[i], t)
    BY <1>3, <1>4
  <2> QED BY <1>4, <2>1 DEF Comes
<1>5. ASSUME NEW i \in 1..Len(q), IsState(q[i], t), \A j \in i + 1..Len(q) : ~IsClear(q[j], t)
      PROVE  Comes(r, u, t)
  <2>1. CASE i = 1
    <3>1. \A j \in 2..Len(q) : ~IsClear(q[j], t)
      BY <1>5, <2>1
    <3> QED BY <1>2, <1>4, <1>5, <2>1, <3>1
  <2>2. CASE i # 1
    <3> DEFINE k == i - 1
    <3>1. k \in 1..Len(r) /\ k + 1 = i
      BY <1>1, <1>2, <2>2
    <3>2. \A j \in k + 1..Len(r) : j \in 1..Len(r) /\ j + 1 \in i + 1..Len(q)
      BY <1>1, <1>2, <2>2
    <3> HIDE DEF k
    <3>3. IsState(r[k], t)
      BY <1>3, <1>5, <3>1
    <3>4. \A j \in k + 1..Len(r) : ~IsClear(r[j], t)
      BY <1>3, <1>5, <3>2
    <3> QED BY <3>1, <3>3, <3>4 DEF Comes
  <2> QED BY <2>1, <2>2
<1>6. ASSUME t \in s, \A i \in 1..Len(q) : ~IsClear(q[i], t)
      PROVE  Comes(r, u, t)
  <2>1. t \in u
    BY <1>2, <1>6
  <2>2. \A i \in 1..Len(r) : ~IsClear(r[i], t)
    BY <1>3, <1>6
  <2> QED BY <2>1, <2>2 DEF Comes
<1>7. Comes(q, s, t) => Comes(r, u, t)
  BY <1>5, <1>6 DEF Comes
<1> QED BY <1>4, <1>7 DEF r

\* The connection is lost: the first n messages arrived.
LEMMA ComesOfSome ==
    ASSUME Base, NEW n \in 0..Len(wire), Arrived(n), NEW t \in Topics, Comes(wire, states, t),
           \A i \in n + 1..Len(wire) : ~IsState(wire[i], t)
    PROVE  t \in states'
<1>1. wire \in Seq(Messages) /\ broker \in Hashes /\ states \in SUBSET Topics
  BY DEF Base, TypeOK
<1>2. t \in states' <=>
          \/ \E i \in 1..n : IsState(wire[i], t) /\ \A j \in i + 1..n : ~IsClear(wire[j], t)
          \/ t \in states /\ \A i \in 1..n : ~IsClear(wire[i], t)
  BY <1>1, ArrivedIs
<1>3. n \in Nat /\ n <= Len(wire) /\ Len(wire) \in Nat
  BY <1>1, LenProperties
<1>4. CASE t \in states /\ \A i \in 1..Len(wire) : ~IsClear(wire[i], t)
  BY <1>2, <1>3, <1>4
<1>5. ASSUME NEW i \in 1..Len(wire), IsState(wire[i], t), \A j \in i + 1..Len(wire) : ~IsClear(wire[j], t)
      PROVE  t \in states'
  <2>1. i \in 1..n
    BY <1>3, <1>5
  <2>2. \A j \in i + 1..n : j \in i + 1..Len(wire)
    BY <1>3
  <2> QED BY <1>2, <1>5, <2>1, <2>2
<1> QED BY <1>4, <1>5 DEF Comes

\* With nothing on the wire, what comes is there.
LEMMA ComesNow ==
    ASSUME NEW s, NEW t
    PROVE  Comes(<<>>, s, t) <=> t \in s
<1>1. Len(<<>>) = 0
  BY EmptySeq
<1> QED BY <1>1 DEF Comes

Announcing(w, e) == \E o \in Items(todo[w]) : o.op = "announce" /\ o.entity = e
ClearsIn(w, t) == \E o \in Items(todo[w]) : o.op = "clear" /\ o.topic = t

\* Whoever is to clear the state of entity e is to announce the entity after it.
ClearsAnnounced(e) == \A w \in Tasks : ClearsIn(w, TopicOf(model, e)) => Announcing(w, e)

StateComes(e) ==
    e \in dirty \/ Comes(wire, states, TopicOf(model, e)) \/ \E w \in Tasks : Announcing(w, e)

HasState(e) ==
    Has(model, e) /\ TopicOf(model, e) \notin silent => ClearsAnnounced(e) /\ StateComes(e)

StatesCome == Up => \A e \in Entities : HasState(e)

\* A task that goes on from another step keeps its announcement and clears no
\* more than before.
LEMMA AnnouncingOn ==
    ASSUME Base, NEW w \in Tasks, todo[w] # <<>>, NEW marks, NEW toSave, Onward(w, <<>>, marks, toSave),
           NEW e, Head(todo[w]).op = "announce" => Head(todo[w]).entity # e
    PROVE  /\ \A v \in Tasks : Announcing(v, e) => Announcing(v, e)'
           /\ \A v \in Tasks, t \in Topics : ClearsIn(v, t)' => ClearsIn(v, t)
<1>1. Items(todo[w]) = {Head(todo[w])} \cup Items(Tail(todo[w]))
  BY BehindHead
<1>2. \A v \in Tasks : Items(todo'[v]) \subseteq Items(todo[v])
  BY <1>1, OpWork DEF Onward
<1>3. \A o \in Items(Tail(todo[w])) : o.op = "announce" => o \in Items(todo'[w])
  BY DEF Onward, Passed
<1>4. \A v \in Tasks : Announcing(v, e) => Announcing(v, e)'
  <2> SUFFICES ASSUME NEW v \in Tasks, Announcing(v, e) PROVE Announcing(v, e)'
    OBVIOUS
  <2>1. CASE v # w
    BY <2>1 DEF Onward, Announcing
  <2>2. CASE v = w
    <3>1. PICK o \in Items(todo[w]) : o.op = "announce" /\ o.entity = e
      BY <2>2 DEF Announcing
    <3>2. o \in Items(Tail(todo[w]))
      BY <1>1, <3>1
    <3> QED BY <1>3, <2>2, <3>1, <3>2 DEF Announcing
  <2> QED BY <2>1, <2>2
<1>5. \A v \in Tasks, t \in Topics : ClearsIn(v, t)' => ClearsIn(v, t)
  BY <1>2 DEF ClearsIn
<1> QED BY <1>4, <1>5

\* The plans, the model and what was dirty stay; the state keeps coming.
LEMMA StateStays ==
    ASSUME Base, NEW e \in Entities, HasState(e), model' = model, silent \subseteq silent',
           \A v \in Tasks : Announcing(v, e) => Announcing(v, e)',
           \A v \in Tasks, t \in Topics : ClearsIn(v, t)' => ClearsIn(v, t),
           e \in dirty => e \in dirty' \/ Comes(wire, states, TopicOf(model, e))',
           Comes(wire, states, TopicOf(model, e)) => Comes(wire, states, TopicOf(model, e))'
    PROVE  HasState(e)'
<1> SUFFICES ASSUME Has(model, e), TopicOf(model, e) \notin silent' PROVE ClearsAnnounced(e)' /\ StateComes(e)'
  BY DEF HasState, Has, TopicOf
<1>1. TopicOf(model, e) \in Topics /\ TopicOf(model, e)' = TopicOf(model, e)
  BY TopicsOf DEF Base, TypeOK, TopicOf
<1>2. ClearsAnnounced(e) /\ StateComes(e)
  BY DEF HasState
<1>3. ClearsAnnounced(e)'
  BY <1>1, <1>2 DEF ClearsAnnounced
<1>4. StateComes(e)'
  BY <1>2 DEF StateComes
<1> QED BY <1>3, <1>4

\* Nothing that concerns states changes.
LEMMA StateStands ==
    ASSUME Base, NEW e \in Entities, HasState(e), model' = model, silent' = silent, dirty' = dirty,
           wire' = wire, states' = states,
           \/ todo' = todo
           \/ \E w \in Tasks : \E marks, toSave :
                  /\ todo[w] # <<>> /\ Onward(w, <<>>, marks, toSave)
                  /\ Head(todo[w]).op # "announce"
    PROVE  HasState(e)'
<1>1. Comes(wire, states, TopicOf(model, e)) => Comes(wire, states, TopicOf(model, e))'
  BY DEF Comes, TopicOf
<1>2. CASE todo' = todo
  BY <1>1, <1>2, StateStays DEF Announcing, ClearsIn
<1>3. ASSUME NEW w \in Tasks, NEW marks, NEW toSave, todo[w] # <<>>, Onward(w, <<>>, marks, toSave),
             Head(todo[w]).op # "announce"
      PROVE  HasState(e)'
  BY <1>1, <1>3, AnnouncingOn, StateStays
<1> QED BY <1>2, <1>3

\* The messages a task appends are no clear of the topic of entity e.
LEMMA StateAfterSend ==
    ASSUME Base, NEW e \in Entities, HasState(e), model' = model, silent' = silent, dirty' = dirty,
           todo' = todo, states' = states, NEW m \in Messages, m.kind # "clear", wire' = Append(wire, m)
    PROVE  HasState(e)'
<1>1. wire \in Seq(Messages) /\ ~IsClear(m, TopicOf(model, e))
  BY DEF Base, TypeOK, IsClear
<1>2. Comes(wire, states, TopicOf(model, e)) => Comes(Append(wire, m), states, TopicOf(model, e))
  BY <1>1, ComesOne
<1>3. Comes(wire, states, TopicOf(model, e)) => Comes(wire, states, TopicOf(model, e))'
  BY <1>2 DEF Comes, TopicOf
<1> QED BY <1>3, StateStays DEF Announcing, ClearsIn

\* A task clears a topic: it is to announce the entity if it has one.
LEMMA StateAfterClear ==
    ASSUME Base, NEW w \in Tasks, Clear(w), NEW e \in Entities, HasState(e)
    PROVE  HasState(e)'
<1> DEFINE m == [by |-> w, topic |-> Head(todo[w]).topic, kind |-> "clear", look |-> None]
           t == TopicOf(model, e)
<1>1. /\ Head1(w, "clear") /\ Head(todo[w]).topic \in Topics /\ wire' = Append(wire, m)
      /\ Onward(w, <<>>, store, unsaved[w])
      /\ model' = model /\ dirty' = dirty /\ states' = states /\ silent' = silent
  BY ClearIs, ClearFine DEF Clear, memory, world, history
<1>2. todo[w] # <<>> /\ Head(todo[w]).op = "clear"
  BY <1>1 DEF Head1, Idle
<1>3. /\ \A v \in Tasks : Announcing(v, e) => Announcing(v, e)'
      /\ \A v \in Tasks, u \in Topics : ClearsIn(v, u)' => ClearsIn(v, u)
  BY <1>1, <1>2, AnnouncingOn
<1>4. CASE Head(todo[w]).topic # t
  <2>1. m \in Messages /\ m.kind = "clear" /\ m.topic # t
    BY <1>1, <1>4 DEF Messages
  <2>2. wire \in Seq(Messages) /\ ~IsClear(m, t)
    BY <2>1 DEF Base, TypeOK, IsClear
  <2> HIDE DEF m, t
  <2>3. Comes(wire, states, t) => Comes(Append(wire, m), states, t)
    BY <2>1, <2>2, ComesOne
  <2>4. Comes(wire, states, TopicOf(model, e)) => Comes(wire, states, TopicOf(model, e))'
    BY <1>1, <2>3 DEF Comes, TopicOf, t
  <2> QED BY <1>1, <1>3, <2>4, StateStays
<1>5. CASE Head(todo[w]).topic = t
  <2> SUFFICES ASSUME Has(model, e), t \notin silent PROVE ClearsAnnounced(e)' /\ StateComes(e)'
    BY <1>1 DEF HasState, Has, TopicOf
  <2>1. t \in Topics /\ TopicOf(model, e)' = t
    BY <1>1, TopicsOf DEF Base, TypeOK, TopicOf
  <2>2. ClearsAnnounced(e)
    BY DEF HasState
  <2>3. ClearsIn(w, t)
    BY <1>2, <1>5, BehindHead DEF ClearsIn
  <2>4. Announcing(w, e)'
    BY <1>3, <2>2, <2>3 DEF ClearsAnnounced
  <2>5. ClearsAnnounced(e)'
    BY <1>3, <2>1, <2>2 DEF ClearsAnnounced
  <2> QED BY <2>4, <2>5 DEF StateComes
<1> QED BY <1>4, <1>5

\* A flush of the entities d, by a task that announces none but those.
LEMMA StateAfterFlush ==
    ASSUME Base, NEW w \in Tasks, NEW d \in SUBSET Entities, Flushed(w, d), dirty \subseteq d,
           todo[w] # <<>>, Onward(w, <<>>, store, unsaved[w]),
           model' = model, states' = states, silent' = silent, NEW e \in Entities, HasState(e),
           Head(todo[w]).op = "announce" =>
              Head(todo[w]).entity \in d /\ Items(Tail(todo[w])) = {}
    PROVE  HasState(e)'
<1> DEFINE t == TopicOf(model, e)
<1> SUFFICES ASSUME Has(model, e), t \notin silent PROVE ClearsAnnounced(e)' /\ StateComes(e)'
  BY DEF HasState, Has, TopicOf
<1>1. t \in Topics /\ TopicOf(model, e)' = t
  BY TopicsOf DEF Base, TypeOK, TopicOf
<1>2. PICK f \in Seq(Messages) : wire' = wire \o f /\ Items(f) = FlushOf(w, d)
  BY FlushedIs
<1>3. wire \in Seq(Messages) /\ \A m \in Items(f) : ~IsClear(m, t)
  BY <1>2, FlushedIs DEF Base, TypeOK, IsClear
<1>4. ClearsAnnounced(e) /\ StateComes(e)
  BY DEF HasState
<1>5. ASSUME e \in d PROVE Comes(wire, states, TopicOf(model, e))'
  <2> DEFINE m == [by |-> w, topic |-> t, kind |-> "state", look |-> None]
  <2>1. m \in Items(f)
    BY <1>2, <1>5 DEF FlushOf
  <2>2. m.kind = "state" /\ m.topic = t
    OBVIOUS
  <2> HIDE DEF m, t
  <2>3. Comes(wire \o f, states, t)
    BY <1>3, <2>1, <2>2, ComesAfter DEF IsState
  <2> QED BY <1>1, <1>2, <2>3 DEF Comes
<1>6. ASSUME Comes(wire, states, t) PROVE Comes(wire, states, TopicOf(model, e))'
  <2> HIDE DEF t
  <2>1. Comes(wire \o f, states, t)
    BY <1>3, <1>6, ComesAfter
  <2> QED BY <1>1, <1>2, <2>1 DEF Comes
<1>7. CASE Head(todo[w]).op = "announce" /\ Head(todo[w]).entity = e
  <2>1. \A u \in Topics : ~ClearsIn(w, u)'
    BY <1>7, OpWork DEF Onward, ClearsIn
  <2>2. \A v \in Tasks : v # w => todo'[v] = todo[v]
    BY DEF Onward
  <2>3. ClearsAnnounced(e)'
    BY <1>1, <1>4, <2>1, <2>2 DEF ClearsAnnounced, ClearsIn, Announcing
  <2> QED BY <1>5, <1>7, <2>3 DEF StateComes
<1>8. CASE ~(Head(todo[w]).op = "announce" /\ Head(todo[w]).entity = e)
  <2>1. /\ \A v \in Tasks : Announcing(v, e) => Announcing(v, e)'
        /\ \A v \in Tasks, u \in Topics : ClearsIn(v, u)' => ClearsIn(v, u)
    BY <1>8, AnnouncingOn
  <2>2. ClearsAnnounced(e)'
    BY <1>1, <1>4, <2>1 DEF ClearsAnnounced
  <2>3. StateComes(e)'
    BY <1>4, <1>5, <1>6, <2>1 DEF StateComes
  <2> QED BY <2>2, <2>3
<1> QED BY <1>7, <1>8

\* A message arrives.
LEMMA StateAfterDelivery ==
    ASSUME Base, Deliver, NEW e \in Entities, HasState(e)
    PROVE  HasState(e)'
<1> DEFINE m == Head(wire)
           t == TopicOf(model, e)
<1> SUFFICES ASSUME Has(model, e), t \notin silent' PROVE ClearsAnnounced(e)' /\ StateComes(e)'
  BY DEF Deliver, HasState, Has, TopicOf
<1>1. /\ wire # <<>> /\ wire \in Seq(Messages) /\ wire' = Tail(wire) /\ Arrived(1)
      /\ broker \in Hashes /\ states \in SUBSET Topics /\ model' = model /\ dirty' = dirty
  BY DEF Deliver, Base, TypeOK
<1>2. t \in Topics /\ TopicOf(model, e)' = t
  BY <1>1, TopicsOf DEF Base, TypeOK, TopicOf
<1>3. t \in states' <=> IsState(m, t) \/ (t \in states /\ ~IsClear(m, t))
  BY <1>1, <1>2, ArrivedOne
<1>4. /\ Comes(wire, states, t) => Comes(wire', states', t)
      /\ IsState(m, t) /\ (\A i \in 2..Len(wire) : ~IsClear(wire[i], t)) => Comes(wire', states', t)
  <2> HIDE DEF t
  <2> QED BY <1>1, <1>3, ComesFirst
<1>5. Comes(wire', states', t) => Comes(wire, states, TopicOf(model, e))'
  BY <1>2 DEF Comes
<1> HIDE DEF t, m
<1>6. CASE m.kind = "config"
  <2>1. silent' = silent
    BY <1>6 DEF Deliver, m
  <2>2. m.by \in Tasks /\ Onward(m.by, <<>>, Marked(m), TRUE) /\ SentBy(m, m.by)
    BY <1>6, Delivers DEF Base, m
  <2>3. todo[m.by] # <<>> /\ Head(todo[m.by]).op # "announce"
    BY <2>2 DEF SentBy, Setters
  <2>4. /\ \A v \in Tasks : Announcing(v, e) => Announcing(v, e)'
        /\ \A v \in Tasks, u \in Topics : ClearsIn(v, u)' => ClearsIn(v, u)
    BY <2>2, <2>3, AnnouncingOn
  <2>5. ClearsAnnounced(e) /\ StateComes(e)
    BY <2>1 DEF HasState, t
  <2>6. ClearsAnnounced(e)'
    BY <1>2, <2>4, <2>5 DEF ClearsAnnounced, t
  <2>7. StateComes(e)'
    BY <1>1, <1>4, <1>5, <2>4, <2>5 DEF StateComes, t
  <2> QED BY <2>6, <2>7
<1>7. CASE m.kind # "config"
  <2>1. /\ todo' = todo
        /\ silent' = IF m.kind = "state" /\ ~Doomed(m.topic) THEN silent \ {m.topic} ELSE silent
    BY <1>7 DEF Deliver, plans, m
  <2>2. /\ \A v \in Tasks : Announcing(v, e) => Announcing(v, e)'
        /\ \A v \in Tasks, u \in Topics : ClearsIn(v, u)' => ClearsIn(v, u)
    BY <2>1 DEF Announcing, ClearsIn
  <2>3. CASE t \notin silent
    <3>1. ClearsAnnounced(e) /\ StateComes(e)
      BY <2>3 DEF HasState, t
    <3>2. ClearsAnnounced(e)'
      BY <1>2, <2>2, <3>1 DEF ClearsAnnounced, t
    <3>3. StateComes(e)'
      BY <1>1, <1>4, <1>5, <2>2, <3>1 DEF StateComes, t
    <3> QED BY <3>2, <3>3
  <2>4. CASE t \in silent
    <3>1. m.kind = "state" /\ m.topic = t /\ ~Doomed(t)
      BY <2>1, <2>4
    <3>2. \A i \in 2..Len(wire) : ~IsClear(wire[i], t)
      BY <3>1 DEF Doomed, IsClear
    <3>3. StateComes(e)'
      BY <1>4, <1>5, <3>1, <3>2 DEF StateComes, IsState
    <3>4. \A v \in Tasks : ~ClearsIn(v, t)
      BY <3>1 DEF Doomed, ClearsIn, Items
    <3>5. ClearsAnnounced(e)'
      BY <1>2, <2>2, <3>4 DEF ClearsAnnounced
    <3> QED BY <3>3, <3>5
  <2> QED BY <2>3, <2>4
<1> QED BY <1>6, <1>7

\* The cold start: every entity is dirty, and nothing is to be cleared.
LEMMA StateAfterLoad ==
    ASSUME Base, Load, NEW e \in Entities
    PROVE  HasState(e)'
<1>0. "main" \in Tasks
  BY DEF Tasks
<1>1. todo["main"] # <<>> /\ Head(todo["main"]).op = "load" /\ Onward("main", LoadPlan, store, unsaved["main"])
      /\ model' = Compile /\ dirty' = {x \in Entities : Has(Compile, x)}
  BY Loads DEF Load, Head1, Idle, Base
<1>2. todo["api"] = <<>> /\ todo["birth"] = <<>>
  BY <1>1 DEF Base, LoadsAlone, Loading, Idle
<1>3. Items(Tail(todo["main"])) = {}
  BY <1>0, <1>1, AfterLoad
<1>4. \A o \in Items(LoadPlan) : o.op # "clear"
  BY LoadPlanIs DEF Base, Retracts, Publishes, Saves
<1>5. \A w \in Tasks : \A o \in Items(todo'[w]) : o.op # "clear"
  <2> SUFFICES ASSUME NEW w \in Tasks, NEW o \in Items(todo'[w]) PROVE o.op # "clear"
    OBVIOUS
  <2>1. CASE w = "main"
    BY <1>1, <1>3, <1>4, <2>1 DEF Onward
  <2>2. CASE w # "main"
    <3>1. todo'[w] = <<>>
      BY <1>1, <1>2, <2>2 DEF Tasks, Onward
    <3> QED BY <3>1, OpWork
  <2> QED BY <2>1, <2>2
<1>6. ClearsAnnounced(e)'
  BY <1>5 DEF ClearsAnnounced, ClearsIn
<1>7. Has(model, e)' => e \in dirty'
  BY <1>1 DEF Has
<1> QED BY <1>6, <1>7 DEF HasState, StateComes

\* A rename announces the entity it clears.
LEMMA StateAfterRename ==
    ASSUME Base, NEW x \in Entities, NEW n \in Names, Rename(x, n), NEW e \in Entities, HasState(e)
    PROVE  HasState(e)'
<1>0. "api" \in Tasks /\ model \in Models /\ Has(model, x)
  BY DEF Tasks, Base, TypeOK, Rename
<1> DEFINE s == TopicOf(model, x)
           q == RenamePlan(x, n, s)
           t == TopicOf(model, e)
<1>1. /\ Begins("api", q) /\ model' = model /\ silent' = silent /\ dirty' = dirty
      /\ wire' = wire /\ states' = states
  BY Renames DEF Rename, Requested, Base, world
<1> SUFFICES ASSUME Has(model, e), t \notin silent PROVE ClearsAnnounced(e)' /\ StateComes(e)'
  BY <1>1 DEF HasState, Has, TopicOf
<1>2. s \in Topics /\ s[1] = x /\ t \in Topics /\ t[1] = e /\ TopicOf(model, e)' = t
  BY <1>0, <1>1, TopicsOf DEF TopicOf
<1>3. Items(q) = Clears({s}) \cup Retracts({s}) \cup Saves
                 \cup {[op |-> "alias", entity |-> x, name |-> n], [op |-> "resync"],
                       [op |-> "announce", entity |-> x, topic |-> s]}
  BY <1>2, RenamePlanIs
<1>4. ClearsAnnounced(e) /\ StateComes(e)
  BY DEF HasState
<1>5. Comes(wire, states, t) => Comes(wire, states, TopicOf(model, e))'
  BY <1>1, <1>2 DEF Comes
<1> HIDE DEF q, s, t
<1>6. \A o \in Items(q) : o.op = "clear" => o.topic = s
  BY <1>3 DEF Clears, Retracts, Saves
<1>7. \E o \in Items(q) : o.op = "announce" /\ o.entity = x
  <2> DEFINE o == [op |-> "announce", entity |-> x, topic |-> s]
  <2>1. o \in Items(q) /\ o.op = "announce" /\ o.entity = x
    BY <1>3
  <2> QED BY <2>1
<1>8. /\ todo["api"] = <<>> /\ todo'["api"] = q
      /\ \A v \in Tasks : v # "api" => todo'[v] = todo[v]
  BY <1>1 DEF Begins
<1>9. \A v \in Tasks : Announcing(v, e) => Announcing(v, e)'
  BY <1>8, OpWork DEF Announcing
<1>10. ASSUME NEW v \in Tasks, ClearsIn(v, TopicOf(model, e))' PROVE Announcing(v, e)'
  <2>1. CASE v = "api"
    <3>1. PICK o \in Items(q) : o.op = "clear" /\ o.topic = t
      BY <1>2, <1>8, <1>10, <2>1 DEF ClearsIn
    <3>2. x = e
      BY <1>2, <1>6, <3>1
    <3> QED BY <1>7, <1>8, <2>1, <3>2 DEF Announcing
  <2>2. CASE v # "api"
    <3>1. todo'[v] = todo[v]
      BY <1>8, <2>2
    <3>2. ClearsIn(v, t)
      BY <1>2, <1>10, <3>1 DEF ClearsIn
    <3> QED BY <1>4, <1>9, <3>2 DEF ClearsAnnounced, t
  <2> QED BY <2>1, <2>2
<1>11. ClearsAnnounced(e)'
  BY <1>10 DEF ClearsAnnounced
<1>12. StateComes(e)'
  BY <1>1, <1>4, <1>5, <1>9 DEF StateComes, t
<1> QED BY <1>11, <1>12

\* A task begins a plan that clears nothing.
LEMMA StateAfterBegin ==
    ASSUME Base, NEW w \in Tasks, NEW q, Begins(w, q), \A o \in Items(q) : o.op # "clear",
           model' = model, silent' = silent, dirty' = dirty, wire' = wire, states' = states,
           NEW e \in Entities, HasState(e)
    PROVE  HasState(e)'
<1>1. /\ todo[w] = <<>> /\ todo'[w] = q
      /\ \A v \in Tasks : v # w => todo'[v] = todo[v]
  BY DEF Begins
<1>2. \A v \in Tasks : Announcing(v, e) => Announcing(v, e)'
  BY <1>1, OpWork DEF Announcing
<1>3. \A v \in Tasks, t \in Topics : ClearsIn(v, t)' => ClearsIn(v, t)
  BY <1>1 DEF ClearsIn
<1>4. Comes(wire, states, TopicOf(model, e)) => Comes(wire, states, TopicOf(model, e))'
  BY DEF Comes, TopicOf
<1> QED BY <1>2, <1>3, <1>4, StateStays

\* What a resync does not silence.
LEMMA SilentAfterResync ==
    ASSUME Base, NEW w \in Tasks, Resync(w), NEW e \in Entities, Has(Compile, e),
           TopicOf(Compile, e) \notin silent'
    PROVE  /\ TopicOf(Compile, e) \notin silent
           /\ \A v \in Tasks : v # w => TopicOf(Compile, e) \notin Ahead(v)
           /\ Has(model, e) => /\ e \notin dirty
                               /\ \/ TopicOf(model, e) = TopicOf(Compile, e)
                                  \/ w # "main" /\ TopicOf(model, e) = todo[w][2].topic
<1> DEFINE renamed == {x \in Entities : Has(model, x) /\ Has(Compile, x)
                                        /\ TopicOf(model, x) # TopicOf(Compile, x)
                                        /\ (w = "main" \/ TopicOf(model, x) # todo[w][2].topic)}
           moved == {TopicOf(Compile, x) : x \in renamed \cup Debts(Compile)}
           ahead == UNION {Ahead(v) : v \in Tasks \ {w}}
<1>1. silent' = silent \cup moved \cup ahead
  BY DEF Resync
<1>2. \A x \in renamed \cup Debts(Compile) : TopicOf(Compile, x) \in moved
  OBVIOUS
<1>3. \A v \in Tasks : v # w => Ahead(v) \subseteq ahead
  OBVIOUS
<1>4. Has(model, e) => \/ TopicOf(model, e) = TopicOf(Compile, e)
                       \/ w # "main" /\ TopicOf(model, e) = todo[w][2].topic
                       \/ e \in renamed
  OBVIOUS
<1>5. Has(model, e) /\ e \in dirty => e \in Debts(Compile)
  BY DEF Debts
<1> HIDE DEF moved, ahead, renamed
<1> QED BY <1>1, <1>2, <1>3, <1>4, <1>5

\* A resync: an entity that is new is dirty, one that has another topic is
\* announced.
LEMMA StateAfterResync ==
    ASSUME Base, NEW w \in Tasks, Resync(w), NEW e \in Entities, HasState(e)
    PROVE  HasState(e)'
<1>1. /\ todo[w] # <<>> /\ Head(todo[w]).op = "resync" /\ Onward(w, ResyncPlan, store, unsaved[w])
      /\ model' = Compile /\ wire' = wire /\ states' = states
      /\ dirty' = {x \in Entities : Has(Compile, x) /\ ~Has(model, x)}
  BY Resyncs DEF Resync, Head1, Idle, Base, world
<1> DEFINE t == TopicOf(Compile, e)
<1> SUFFICES ASSUME Has(Compile, e), t \notin silent' PROVE ClearsAnnounced(e)' /\ StateComes(e)'
  BY <1>1 DEF HasState, Has, TopicOf
<1>2. /\ t \notin silent
      /\ \A v \in Tasks : v # w => t \notin Ahead(v)
      /\ Has(model, e) => /\ e \notin dirty
                          /\ \/ TopicOf(model, e) = t
                             \/ w # "main" /\ TopicOf(model, e) = todo[w][2].topic
  BY SilentAfterResync
<1>3. Compile \in Models /\ model \in Models
  BY CompileIsModel DEF Base, TypeOK
<1>4. t \in Topics /\ t[1] = e /\ TopicOf(model, e)' = t
  BY <1>1, <1>3, TopicsOf DEF TopicOf
<1> HIDE DEF t
<1>5. \/ w = "main" /\ Items(Tail(todo[w])) = {}
      \/ /\ w = "api" /\ Items(Tail(todo[w])) = {todo[w][2]} /\ todo[w][2] \in Ops
         /\ todo[w][2].op = "announce" /\ todo[w][2].topic[1] = todo[w][2].entity
  BY <1>1, AfterResync DEF Base
<1>6. \A o \in Items(ResyncPlan) : o.op = "clear" => o.topic \in Removed
  BY ResyncPlanIs DEF Base, Clears, Retracts, Publishes, Saves
<1>7. \A v \in Tasks : v # w => todo'[v] = todo[v]
  BY <1>1 DEF Onward
<1>8. ASSUME NEW v \in Tasks, NEW o \in Items(todo'[v]), o.op = "clear", o.topic = t PROVE FALSE
  <2>1. CASE v # w
    <3>1. o.topic \in Ahead(v)
      BY <1>7, <1>8, <2>1, AheadTopics
    <3> QED BY <1>2, <1>8, <2>1, <3>1
  <2>2. CASE v = w
    <3>1. o \in Items(ResyncPlan)
      BY <1>1, <1>5, <1>8, <2>2 DEF Onward
    <3>2. ~Has(Compile, t[1])
      BY <1>6, <1>8, <3>1, RemovedIs DEF Base
    <3> QED BY <1>4, <3>2
  <2> QED BY <2>1, <2>2
<1>9. ClearsAnnounced(e)'
  BY <1>4, <1>8 DEF ClearsAnnounced, ClearsIn
<1>10. CASE ~Has(model, e)
  <2>1. e \in dirty'
    BY <1>1, <1>10
  <2> QED BY <1>9, <2>1 DEF StateComes
<1>11. ASSUME w = "api", todo[w][2].op = "announce", todo[w][2].entity = e, todo[w][2] \in Items(Tail(todo[w]))
       PROVE  Announcing(w, e)'
  <2>1. todo[w][2] \in Items(todo'[w])
    BY <1>1, <1>11 DEF Onward, Passed
  <2> QED BY <1>11, <2>1 DEF Announcing
<1>12. CASE Has(model, e) /\ w # "main" /\ TopicOf(model, e) = todo[w][2].topic
  <2>1. TopicOf(model, e)[1] = e
    BY <1>3, <1>12, TopicsOf
  <2>2. Announcing(w, e)'
    BY <1>5, <1>11, <1>12, <2>1
  <2> QED BY <1>9, <2>2 DEF StateComes
<1>13. CASE Has(model, e) /\ TopicOf(model, e) = t
  <2>1. StateComes(e) /\ e \notin dirty
    BY <1>2, <1>13 DEF HasState
  <2>2. CASE Comes(wire, states, TopicOf(model, e))
    <3>1. Comes(wire, states, TopicOf(model, e))'
      BY <1>1, <1>4, <1>13, <2>2 DEF Comes
    <3> QED BY <1>9, <3>1 DEF StateComes
  <2>3. ASSUME NEW v \in Tasks, Announcing(v, e) PROVE Announcing(v, e)'
    <3>1. CASE v # w
      BY <1>7, <2>3, <3>1 DEF Announcing
    <3>2. CASE v = w
      <4>1. PICK o \in Items(todo[w]) : o.op = "announce" /\ o.entity = e
        BY <2>3, <3>2 DEF Announcing
      <4>2. o \in Items(Tail(todo[w]))
        BY <1>1, <4>1, BehindHead
      <4> QED BY <1>5, <1>11, <3>2, <4>1, <4>2
    <3> QED BY <3>1, <3>2
  <2> QED BY <1>9, <2>1, <2>2, <2>3 DEF StateComes
<1> QED BY <1>2, <1>10, <1>12, <1>13

\* Some tasks fail: the entities they were to announce, and the topics they were
\* to clear, are silent, as are the states that were lost.
LEMMA StateAfterFailure ==
    ASSUME Base, NEW ws, NEW lost, Fails(ws, lost), NEW e \in Entities, HasState(e)
    PROVE  HasState(e)'
<1> DEFINE t == TopicOf(model, e)
           left == UNION {Ahead(w) \cup Unannounced(w) : w \in ws}
<1>1. /\ todo' = [w \in Tasks |-> IF w \in ws THEN <<>> ELSE todo[w]]
      /\ silent' = silent \cup lost \cup left
      /\ ws \in SUBSET Tasks /\ model' = model /\ dirty' = dirty
  BY DEF Fails, Fail
<1> SUFFICES ASSUME Has(model, e), t \notin silent' PROVE ClearsAnnounced(e)' /\ StateComes(e)'
  BY <1>1 DEF HasState, Has, TopicOf
<1>2. \A w \in ws : Unannounced(w) \subseteq left
  OBVIOUS
<1>3. t \in Topics /\ TopicOf(model, e)' = t
  BY <1>1, TopicsOf DEF Base, TypeOK, TopicOf
<1> HIDE DEF left
<1>4. t \notin silent /\ t \notin lost /\ \A w \in ws : t \notin Unannounced(w)
  BY <1>1, <1>2
<1>5. ClearsAnnounced(e) /\ StateComes(e)
  BY <1>4 DEF HasState
<1>6. \A w \in ws : ~Announcing(w, e)
  <2> SUFFICES ASSUME NEW w \in ws, Announcing(w, e) PROVE FALSE
    OBVIOUS
  <2>1. PICK i \in 1..Len(todo[w]) : todo[w][i].op = "announce" /\ todo[w][i].entity = e
    BY DEF Announcing, Items
  <2>2. t \in Unannounced(w)
    BY <2>1 DEF Unannounced
  <2> QED BY <1>4, <2>2
<1>7. \A v \in Tasks : Announcing(v, e) => Announcing(v, e)'
  BY <1>1, <1>6 DEF Announcing
<1>8. \A v \in Tasks, u \in Topics : ClearsIn(v, u)' => ClearsIn(v, u)
  BY <1>1, OpWork DEF ClearsIn
<1>9. ClearsAnnounced(e)'
  BY <1>3, <1>5, <1>7, <1>8 DEF ClearsAnnounced
<1>10. ASSUME Comes(wire, states, t) PROVE Comes(wire, states, TopicOf(model, e))'
  <2>1. CASE wire' = wire /\ states' = states
    BY <1>3, <1>10, <2>1 DEF Comes
  <2>2. ASSUME NEW n \in 0..Len(wire), lost = LostStates(n), Arrived(n), wire' = <<>>
        PROVE  Comes(wire, states, TopicOf(model, e))'
    <3>1. \A i \in n + 1..Len(wire) : ~IsState(wire[i], t)
      BY <1>4, <2>2 DEF LostStates, IsState
    <3> HIDE DEF t
    <3>2. t \in states'
      BY <1>3, <1>10, <2>2, <3>1, ComesOfSome
    <3>3. Comes(<<>>, states', t)
      BY <3>2, ComesNow
    <3> QED BY <1>3, <2>2, <3>3 DEF Comes
  <2> QED BY <2>1, <2>2 DEF Fails
<1>11. StateComes(e)'
  BY <1>1, <1>5, <1>7, <1>10 DEF StateComes
<1> QED BY <1>9, <1>11

\* Each step of a task.
LEMMA StateAfterRun ==
    ASSUME Base, NEW w \in Tasks, Run(w), NEW e \in Entities, HasState(e)
    PROVE  HasState(e)'
<1>1. CASE Alias(w)
  <2>1. Head1(w, "alias") /\ Onward(w, <<>>, store, unsaved[w])
    BY <1>1, AliasFine DEF Alias
  <2>2. model' = model /\ silent' = silent /\ dirty' = dirty /\ wire' = wire /\ states' = states
    BY <1>1 DEF Alias, world, history
  <2> QED BY <2>1, <2>2, StateStands DEF Head1, Idle
<1>2. CASE Resync(w)
  BY <1>2, StateAfterResync
<1>3. CASE Flush(w)
  <2>1. Head1(w, "flush") /\ Onward(w, <<>>, store, unsaved[w]) /\ Flushed(w, dirty)
        /\ model' = model /\ silent' = silent /\ states' = states
    BY <1>3, FlushFine DEF Flush, world, history
  <2>2. dirty \in SUBSET Entities /\ dirty \subseteq dirty /\ todo[w] # <<>> /\ Head(todo[w]).op # "announce"
    BY <2>1 DEF Base, TypeOK, Head1, Idle
  <2> QED BY <2>1, <2>2, StateAfterFlush
<1>4. CASE Announce(w)
  <2> DEFINE d == dirty \cup {Head(todo[w]).entity}
  <2>1. Head1(w, "announce") /\ Flushed(w, d) /\ d \in SUBSET Entities
    BY <1>4, AnnounceIs
  <2>2. Onward(w, <<>>, store, unsaved[w]) /\ model' = model /\ silent' = silent /\ states' = states
    BY <1>4, AnnounceFine DEF Announce, world, history
  <2>3. todo[w] # <<>> /\ Items(Tail(todo[w])) = {} /\ Head(todo[w]).entity \in d /\ dirty \subseteq d
    BY <2>1, AfterAnnounce DEF Head1, Idle
  <2> HIDE DEF d
  <2> QED BY <2>1, <2>2, <2>3, StateAfterFlush
<1>5. CASE Clear(w)
  BY <1>5, StateAfterClear
<1>6. CASE Retract(w) \/ Publish(w)
  <2>1. \E look \in Looks \cup {None} : Written(w, Head(todo[w]).topic, "config", look)
    <3>1. CASE Retract(w)
      BY <3>1 DEF Retract
    <3>2. CASE Publish(w)
      <4>1. Head(todo[w]) \in Ops /\ Head(todo[w]).op \in {"publish", "changed"}
        BY <3>2, AtStep DEF Publish, Base
      <4>2. Head(todo[w]).look \in Looks
        BY <4>1, OpsAre
      <4> QED BY <3>2, <4>2 DEF Publish
    <3> QED BY <1>6, <3>1, <3>2
  <2>2. Head(todo[w]).topic \in Topics
    <3>1. Head(todo[w]) \in Ops /\ Head(todo[w]).op \in Setters
      BY <1>6, AtStep DEF Retract, Publish, Base, Setters
    <3> QED BY <3>1, OpsAre
  <2>3. PICK look \in Looks \cup {None} : Written(w, Head(todo[w]).topic, "config", look)
    BY <2>1
  <2> DEFINE m == [by |-> w, topic |-> Head(todo[w]).topic, kind |-> "config", look |-> look]
  <2>4. m \in Messages /\ m.kind # "clear" /\ wire' = Append(wire, m)
    BY <2>2, <2>3 DEF Messages, Written
  <2> HIDE DEF m
  <2>5. model' = model /\ silent' = silent /\ dirty' = dirty /\ todo' = todo /\ states' = states
    BY <1>6 DEF Retract, Publish, memory, plans, world, history
  <2> QED BY <2>4, <2>5, StateAfterSend
<1>7. CASE BeginSave(w)
  <2>1. model' = model /\ silent' = silent /\ dirty' = dirty /\ todo' = todo /\ wire' = wire /\ states' = states
    BY <1>7 DEF BeginSave, memory, world
  <2> QED BY <2>1, StateStands
<1>8. CASE EndSave(w)
  <2>1. Onward(w, <<>>, store, unsaved[w]) /\ writes[w] # None
    BY <1>8, EndSaveFine DEF EndSave
  <2>2. todo[w] # <<>> /\ Head(todo[w]).op = "save"
    BY <2>1 DEF Base, Writing
  <2>3. model' = model /\ silent' = silent /\ dirty' = dirty /\ wire' = wire /\ states' = states
    BY <1>8 DEF EndSave, memory, world, history
  <2> QED BY <2>1, <2>2, <2>3, StateStands
<1> QED BY <1>1, <1>2, <1>3, <1>4, <1>5, <1>6, <1>7, <1>8 DEF Run

\* Every step keeps the states coming.
LEMMA StatesComeNext ==
    ASSUME Base, StatesCome, [Next]_vars
    PROVE  StatesCome'
<1> SUFFICES ASSUME Up', NEW e \in Entities PROVE HasState(e)'
  BY DEF StatesCome
<1> DEFINE Good == HasState(e)'
<1> SUFFICES Good
  OBVIOUS
<1>1. CASE Start
  <2>1. model' = NoModel
    BY <1>1 DEF Start, Base, DownIsDown, Up
  <2> QED BY <2>1 DEF HasState, Has, NoModel
<1>2. CASE Load
  BY <1>2, StateAfterLoad
<1>3. ASSUME ~Start PROVE HasState(e)
  BY <1>3, ChangeUp DEF StatesCome
<1>4. CASE Ready
  <2>1. Head1("main", "ready") /\ Onward("main", <<>>, store, unsaved["main"]) /\ "main" \in Tasks
    BY <1>4, ReadyFine DEF Ready, Tasks
  <2>2. model' = model /\ silent' = silent /\ dirty' = dirty /\ wire' = wire /\ states' = states
    BY <1>4 DEF Ready, memory, world, history
  <2>3. ~Start
    BY <2>1, AtStep DEF Start, Base, Up
  <2> QED BY <1>3, <2>1, <2>2, <2>3, StateStands DEF Head1, Idle
<1>5. CASE Crash \/ Stop
  BY <1>5, DeathIs DEF Dies, Up
<1>6. CASE FailureSteps
  <2>1. ASSUME NEW ws, NEW lost, Fails(ws, lost) PROVE Good
    <3>1. HasState(e)
      BY <2>1 DEF Fails, StatesCome, Up
    <3> QED BY <2>1, <3>1, StateAfterFailure
  <2> QED BY <1>6, <2>1, FailureIs DEF Dies, Up
<1>7. CASE Reload
  <2>1. /\ model' = model /\ silent' = silent /\ dirty' = dirty /\ wire' = wire /\ states' = states
        /\ todo' = [todo EXCEPT !["main"] = Op("resync")] /\ todo["main"] = <<>> /\ ~Start
    BY <1>7 DEF Reload, Idle, world, history, Start
  <2>2. Begins("main", Op("resync")) /\ Items(Op("resync")) = {[op |-> "resync"]} /\ "main" \in Tasks
    BY <2>1, OnePlan DEF Base, Tasks
  <2>3. \A o \in Items(Op("resync")) : o.op # "clear"
    BY <2>2
  <2> QED BY <1>3, <2>1, <2>2, <2>3, StateAfterBegin
<1>8. CASE Deliver
  <2>1. ~Start
    BY <1>8 DEF Deliver, Start, Base, DownIsDown, Up
  <2> QED BY <1>3, <1>8, <2>1, StateAfterDelivery
<1>9. ASSUME NEW w \in Tasks, Run(w) PROVE Good
  <2>1. ~Start
    BY <1>9 DEF Start, Run, Alias, Resync, Flush, Announce, Clear, Retract, Publish, BeginSave, EndSave
  <2> QED BY <1>3, <1>9, <2>1, StateAfterRun
<1>10. ASSUME NEW x \in Entities, NEW n \in Names, Rename(x, n) PROVE Good
  <2>1. HasState(e)
    BY <1>10 DEF Rename, Requested, StatesCome, Up
  <2> QED BY <1>10, <2>1, StateAfterRename
<1>11. ASSUME NEW w \in {"api", "birth"}, Republish(w) PROVE Good
  <2>1. /\ HasState(e) /\ model' = model /\ silent' = silent /\ dirty' = dirty /\ wire' = wire
        /\ states' = states
    BY <1>11 DEF Republish, Requested, StatesCome, Up, world
  <2>2. w \in Tasks /\ Begins(w, Publishing("publish", model))
        /\ Items(Publishing("publish", model)) = Publishes("publish", model) \cup Saves
    BY <1>11, Republishes DEF Base, Tasks
  <2>3. \A o \in Items(Publishing("publish", model)) : o.op # "clear"
    BY <2>2 DEF Publishes, Saves
  <2> QED BY <2>1, <2>2, <2>3, StateAfterBegin
<1>12. ASSUME NEW x \in Entities, LivePublish(x) PROVE Good
  <2> DEFINE m == [by |-> "main", topic |-> TopicOf(model, x), kind |-> "state", look |-> None]
  <2>1. TopicOf(model, x) \in Topics /\ wire' = Append(wire, m)
    BY <1>12, LivePublishIs
  <2>2. m \in Messages /\ m.kind # "clear"
    BY <2>1 DEF Messages, Tasks
  <2>3. /\ HasState(e) /\ model' = model /\ silent' = silent /\ dirty' = dirty /\ todo' = todo
        /\ states' = states
    BY <1>12 DEF LivePublish, StatesCome, Up, memory, plans, world, history
  <2> HIDE DEF m
  <2> QED BY <2>1, <2>2, <2>3, StateAfterSend
<1>13. CASE \/ \E x \in Entities : Change(x)
            \/ \E x \in Entities : \E on \in BOOLEAN : Options(x, on)
            \/ UNCHANGED vars
  <2>1. /\ model' = model /\ silent' = silent /\ dirty' = dirty /\ todo' = todo
        /\ wire' = wire /\ states' = states /\ phase' = phase
    BY <1>13 DEF Change, Options, Requested, memory, plans, world, history, vars
  <2>2. HasState(e)
    BY <2>1 DEF StatesCome, Up
  <2> QED BY <2>1, <2>2, StateStands
<1> HIDE DEF Good
<1> QED BY <1>1, <1>2, <1>4, <1>5, <1>6, <1>7, <1>8, <1>9, <1>10, <1>11, <1>12, <1>13 DEF Next, FailureSteps

\* No entity is without its state.
THEOREM StatesHold == Spec => []StatesAreThere
<1>1. Init => StatesCome
  BY DEF Init, StatesCome, Up
<1>2. Base /\ StatesCome /\ [Next]_vars => StatesCome'
  BY StatesComeNext
<1>3. Base /\ StatesCome => StatesAreThere
  <2> SUFFICES ASSUME Base, StatesCome, Quiet, NEW e \in Entities \ dirty, Has(model, e),
                      TopicOf(model, e) \notin silent
               PROVE  TopicOf(model, e) \in states
    BY DEF StatesAreThere
  <2>1. Up /\ wire = <<>> /\ \A w \in Tasks : todo[w] = <<>>
    BY DEF Quiet, Up, Idle
  <2>2. StateComes(e) /\ \A w \in Tasks : ~Announcing(w, e)
    BY <2>1, OpWork DEF StatesCome, HasState, Announcing
  <2>3. Comes(<<>>, states, TopicOf(model, e))
    BY <2>1, <2>2 DEF StateComes
  <2> QED BY <2>3, ComesNow
<1> QED BY <1>1, <1>2, <1>3, BaseHolds, PTL DEF Spec

====
