---- MODULE CommandPathProofs ----
(***************************************************************************)
(* Proofs about CommandPath, for every finite set of attributes, every set *)
(* of values and every bound.                                              *)
(***************************************************************************)
EXTENDS CommandPath, FiniteSetTheorems, SequenceTheorems, TLAPS

----------------------------------------------------------------------------
(* Sequences.                                                              *)

\* What is left of a sequence without its i-th element keeps its order.
LEMMA RemoveAtFacts ==
    ASSUME NEW S, NEW q \in Seq(S), NEW i \in DOMAIN q
    PROVE  /\ RemoveAt(q, i) \in Seq(S)
           /\ DOMAIN RemoveAt(q, i) = 1..(Len(q) - 1)
           /\ \A j \in 1..(Len(q) - 1) :
                 RemoveAt(q, i)[j] = IF j < i THEN q[j] ELSE q[j + 1]
<1> DEFINE before == SubSeq(q, 1, i - 1)
           after  == SubSeq(q, i + 1, Len(q))
<1>1. Len(q) \in Nat /\ i \in 1..Len(q) /\ \A j \in 1..Len(q) : q[j] \in S
  BY LenProperties, ElementOfSeq
<1>2. /\ before \in Seq(S) /\ Len(before) = i - 1
      /\ \A j \in 1..(i - 1) : before[j] = q[j]
  BY <1>1, SubSeqProperties
<1>3. /\ after \in Seq(S) /\ Len(after) = Len(q) - i
      /\ \A j \in 1..(Len(q) - i) : after[j] = q[i + j]
  BY <1>1, SubSeqProperties
<1>4. /\ before \o after \in Seq(S)
      /\ Len(before \o after) = Len(before) + Len(after)
      /\ \A j \in 1..(Len(before) + Len(after)) :
            (before \o after)[j] = IF j <= Len(before) THEN before[j] ELSE after[j - Len(before)]
  <2> HIDE DEF before, after
  <2> QED BY <1>2, <1>3, ConcatProperties
<1>5. before \o after = RemoveAt(q, i)
  BY DEF RemoveAt
<1> HIDE DEF before, after
<1>6. Len(before) + Len(after) = Len(q) - 1
  BY <1>1, <1>2, <1>3
<1>7. ASSUME NEW j \in 1..(Len(q) - 1)
      PROVE  (before \o after)[j] = IF j < i THEN q[j] ELSE q[j + 1]
  <2>1. (before \o after)[j] = IF j <= Len(before) THEN before[j] ELSE after[j - Len(before)]
    BY <1>4, <1>6, <1>7
  <2>2. CASE j < i
    BY <1>1, <1>2, <2>1, <2>2
  <2>3. CASE ~(j < i)
    <3>1. j - Len(before) = j - (i - 1) /\ j - (i - 1) \in 1..(Len(q) - i) /\ i + (j - (i - 1)) = j + 1
      BY <1>1, <1>2, <2>3
    <3>2. after[j - (i - 1)] = q[i + (j - (i - 1))]
      BY <1>3, <3>1
    <3> QED BY <1>1, <1>2, <2>1, <2>3, <3>1, <3>2
  <2> QED BY <2>2, <2>3
<1>8. DOMAIN (before \o after) = 1..(Len(q) - 1)
  BY <1>4, <1>6, LenProperties
<1> QED BY <1>4, <1>5, <1>7, <1>8

\* A finite set, enumerated: every element has a place and nothing else does.
LEMMA SetToSeqFacts ==
    ASSUME NEW S, IsFiniteSet(S)
    PROVE  /\ SetToSeq(S) \in [1..Cardinality(S) -> S]
           /\ \A x \in S : \E i \in 1..Cardinality(S) : SetToSeq(S)[i] = x
<1>1. Cardinality(S) \in Nat /\ ExistsBijection(1..Cardinality(S), S)
  BY FS_CardinalityType
<1>2. \E f \in [1..Cardinality(S) -> S] : IsInjective(f)
  BY <1>1 DEF ExistsBijection, Bijection, Injection
<1>3. SetToSeq(S) \in [1..Cardinality(S) -> S] /\ IsInjective(SetToSeq(S))
  BY <1>2 DEF SetToSeq
<1>4. SetToSeq(S) \in Injection(1..Cardinality(S), S)
  BY <1>3 DEF Injection
<1>5. IsFiniteSet(1..Cardinality(S)) /\ Cardinality(1..Cardinality(S)) = Cardinality(S)
  BY <1>1, FS_Interval
<1>6. SetToSeq(S) \in Surjection(1..Cardinality(S), S)
  BY <1>4, <1>5, FS_Injection
<1> QED BY <1>3, <1>6 DEF Surjection

\* A set of naturals with an upper bound and an element has a greatest one.
LEMMA Greatest ==
    ASSUME NEW S \in SUBSET Nat, NEW n \in Nat, \A s \in S : s <= n, S # {}
    PROVE  \E k \in S : \A j \in S : j <= k
<1> DEFINE T == {k..n : k \in S}
<1>1. T \subseteq FiniteSubsetsOf(Nat) /\ T # {}
  <2>1. \A k \in S : k..n \in SUBSET Nat /\ IsFiniteSet(k..n)
    BY FS_Interval
  <2> QED BY <2>1 DEF FiniteSubsetsOf
<1>2. PICK x \in T : \A y \in T : ~ (<<y, x>> \in StrictSubsetOrdering(Nat))
  BY <1>1, FS_StrictSubsetOrderingWellFounded, WFMin
<1>3. PICK k \in S : x = k..n
  OBVIOUS
<1>4. ASSUME NEW j \in S PROVE j <= k
  <2> SUFFICES ASSUME ~(j <= k) PROVE FALSE
    OBVIOUS
  <2>1. j..n \subseteq k..n /\ k \in k..n /\ k \notin j..n
    OBVIOUS
  <2>2. <<j..n, k..n>> \in StrictSubsetOrdering(Nat)
    BY <2>1 DEF StrictSubsetOrdering
  <2> QED BY <1>2, <1>3, <2>2
<1> QED BY <1>4

----------------------------------------------------------------------------
(* The invariants, strengthened.                                           *)

\* The k-th element of a queue is the last one of attribute a.
LastOf(q, a, k) ==
    /\ k \in DOMAIN q
    /\ q[k].attr = a
    /\ \A j \in DOMAIN q : q[j].attr = a => j <= k

NoneOf(q, a) == \A j \in DOMAIN q : q[j].attr # a

\* The last frame on its way tells what the SysAP has, and without a frame an
\* unmarked value of the store is what it has.
StoreInv ==
    /\ \A a \in Attrs \ silent : \A k \in DOMAIN echoes :
          LastOf(echoes, a, k) => echoes[k].val = sysap[a]
    /\ Alive => \A a \in Attrs \ (unconfirmed \cup silent \cup staleRead) :
          NoneOf(echoes, a) => values[a] = sysap[a]

\* What FinalValueSent needs of a dispatcher that no resync replaced: its open
\* windows hold the last command, and what it remembers to have sent last is
\* what it sent last.
WindowInv ==
    /\ stage # "running" => window = {}
    /\ \A a \in Attrs \ cut :
          /\ old[a] = None
          /\ a \notin window => commanded[a] = sent[a]
          /\ a \in window => pending[a] = commanded[a] /\ lastSent[a] = sent[a]

\* While nothing else changes the SysAP, the last PUT of an attribute carries
\* what was sent last, and with no PUT left the SysAP has it.
PutInv ==
    Alive /\ foreign = 0 => \A a \in Attrs \ (cut \cup faulted \cup reordered) :
        /\ \A k \in DOMAIN puts : LastOf(puts, a, k) => puts[k].val = sent[a]
        /\ NoneOf(puts, a) => sent[a] \in {None, sysap[a]}

----------------------------------------------------------------------------
(* The last element of an attribute, as queues grow and shrink.            *)

LEMMA LastExists ==
    ASSUME NEW S, NEW q \in Seq(S), NEW a, ~NoneOf(q, a)
    PROVE  \E k \in DOMAIN q : LastOf(q, a, k)
<1> DEFINE T == {k \in DOMAIN q : q[k].attr = a}
<1>1. Len(q) \in Nat /\ DOMAIN q = 1..Len(q)
  BY LenProperties
<1>2. T \in SUBSET Nat /\ T # {} /\ \A k \in T : k <= Len(q)
  BY <1>1 DEF NoneOf
<1>3. PICK k \in T : \A l \in T : l <= k
  <2> HIDE DEF T
  <2> QED BY <1>1, <1>2, Greatest
<1> QED BY <1>3 DEF LastOf

LEMMA LastIsUnique ==
    ASSUME NEW S, NEW q \in Seq(S), NEW a, NEW k, NEW l, LastOf(q, a, k), LastOf(q, a, l)
    PROVE  k = l
  BY LenProperties DEF LastOf

LEMMA LastAppended ==
    ASSUME NEW S, NEW q \in Seq(S), NEW e \in S, NEW a, NEW k, LastOf(Append(q, e), a, k)
    PROVE  \/ e.attr = a /\ Append(q, e)[k] = e
           \/ e.attr # a /\ LastOf(q, a, k) /\ Append(q, e)[k] = q[k]
<1>1. /\ Append(q, e) \in Seq(S) /\ Len(Append(q, e)) = Len(q) + 1
      /\ \A j \in 1..Len(q) : Append(q, e)[j] = q[j]
      /\ Append(q, e)[Len(q) + 1] = e
  BY AppendProperties
<1>2. Len(q) \in Nat /\ DOMAIN q = 1..Len(q) /\ DOMAIN Append(q, e) = 1..(Len(q) + 1)
  BY <1>1, LenProperties
<1>3. CASE e.attr = a
  <2>1. k = Len(q) + 1
    BY <1>1, <1>2, <1>3 DEF LastOf
  <2> QED BY <1>1, <1>3, <2>1
<1>4. CASE e.attr # a
  <2>1. k \in 1..Len(q)
    BY <1>1, <1>2, <1>4 DEF LastOf
  <2> QED BY <1>1, <1>2, <1>4, <2>1 DEF LastOf
<1> QED BY <1>3, <1>4

LEMMA NoneAppended ==
    ASSUME NEW S, NEW q \in Seq(S), NEW e \in S, NEW a, NoneOf(Append(q, e), a)
    PROVE  NoneOf(q, a) /\ e.attr # a
<1>1. /\ Append(q, e) \in Seq(S) /\ Len(Append(q, e)) = Len(q) + 1
      /\ \A j \in 1..Len(q) : Append(q, e)[j] = q[j]
      /\ Append(q, e)[Len(q) + 1] = e
  BY AppendProperties
<1>2. Len(q) \in Nat /\ DOMAIN q = 1..Len(q) /\ DOMAIN Append(q, e) = 1..(Len(q) + 1)
  BY <1>1, LenProperties
<1> QED BY <1>1, <1>2 DEF NoneOf

\* Removing an element that overtakes none of its attribute leaves the last one
\* of every attribute the last, unless it was that one.
LEMMA LastRemoved ==
    ASSUME NEW S, NEW q \in Seq(S), NEW i \in DOMAIN q, NEW a, NEW k,
           q[i].attr = a => \A j \in 1..(i - 1) : q[j].attr # a,
           LastOf(RemoveAt(q, i), a, k)
    PROVE  \E m \in DOMAIN q : LastOf(q, a, m) /\ q[m] = RemoveAt(q, i)[k]
<1>1. Len(q) \in Nat /\ DOMAIN q = 1..Len(q)
  BY LenProperties
<1>2. /\ DOMAIN RemoveAt(q, i) = 1..(Len(q) - 1)
      /\ \A j \in 1..(Len(q) - 1) : RemoveAt(q, i)[j] = IF j < i THEN q[j] ELSE q[j + 1]
  BY RemoveAtFacts
<1>3. k \in 1..(Len(q) - 1) /\ RemoveAt(q, i)[k].attr = a
  BY <1>2 DEF LastOf
<1> DEFINE m == IF k < i THEN k ELSE k + 1
<1>4. m \in DOMAIN q /\ q[m] = RemoveAt(q, i)[k]
  BY <1>1, <1>2, <1>3
<1>5. ASSUME NEW j \in DOMAIN q, q[j].attr = a PROVE j <= m
  <2>1. CASE j < i
    <3>1. j \in 1..(Len(q) - 1) /\ RemoveAt(q, i)[j] = q[j]
      BY <1>1, <1>2, <2>1
    <3>2. j <= k
      BY <1>2, <1>5, <3>1 DEF LastOf
    <3> QED BY <1>1, <1>3, <3>2
  <2>2. CASE j > i
    <3>1. j - 1 \in 1..(Len(q) - 1) /\ ~(j - 1 < i) /\ (j - 1) + 1 = j
      BY <1>1, <2>2
    <3>2. RemoveAt(q, i)[j - 1] = q[j]
      BY <1>2, <3>1
    <3>3. j - 1 <= k
      BY <1>2, <1>5, <3>1, <3>2 DEF LastOf
    <3> QED BY <1>1, <1>3, <2>2, <3>3
  <2>3. CASE j = i
    <3>1. ~(k < i)
      BY <1>1, <1>2, <1>3, <1>5, <2>3
    <3> QED BY <1>1, <1>3, <2>3, <3>1
  <2> QED BY <1>1, <2>1, <2>2, <2>3
<1> QED BY <1>3, <1>4, <1>5 DEF LastOf

LEMMA NoneRemoved ==
    ASSUME NEW S, NEW q \in Seq(S), NEW i \in DOMAIN q, NEW a, NoneOf(RemoveAt(q, i), a)
    PROVE  NoneOf(q, a) \/ LastOf(q, a, i)
<1>1. Len(q) \in Nat /\ DOMAIN q = 1..Len(q)
  BY LenProperties
<1>2. /\ DOMAIN RemoveAt(q, i) = 1..(Len(q) - 1)
      /\ \A j \in 1..(Len(q) - 1) : RemoveAt(q, i)[j] = IF j < i THEN q[j] ELSE q[j + 1]
  BY RemoveAtFacts
<1>3. ASSUME NEW j \in DOMAIN q, q[j].attr = a PROVE j = i
  <2>1. CASE j < i
    <3>1. j \in 1..(Len(q) - 1) /\ RemoveAt(q, i)[j] = q[j]
      BY <1>1, <1>2, <2>1
    <3> QED BY <1>2, <1>3, <3>1 DEF NoneOf
  <2>2. CASE j > i
    <3>1. j - 1 \in 1..(Len(q) - 1) /\ ~(j - 1 < i) /\ (j - 1) + 1 = j
      BY <1>1, <2>2
    <3>2. RemoveAt(q, i)[j - 1] = q[j]
      BY <1>2, <3>1
    <3> QED BY <1>2, <1>3, <3>1, <3>2 DEF NoneOf
  <2> QED BY <1>1, <2>1, <2>2
<1> QED BY <1>1, <1>3 DEF NoneOf, LastOf

LEMMA LastOfTail ==
    ASSUME NEW S, NEW q \in Seq(S), q # <<>>, NEW a, NEW k, LastOf(Tail(q), a, k)
    PROVE  k + 1 \in DOMAIN q /\ LastOf(q, a, k + 1) /\ Tail(q)[k] = q[k + 1]
<1>1. /\ Tail(q) \in Seq(S) /\ Len(Tail(q)) = Len(q) - 1
      /\ \A i \in 1..Len(Tail(q)) : Tail(q)[i] = q[i + 1]
  BY HeadTailProperties
<1>2. Len(q) \in Nat /\ DOMAIN q = 1..Len(q) /\ DOMAIN Tail(q) = 1..(Len(q) - 1)
  BY <1>1, LenProperties
<1>3. k \in 1..(Len(q) - 1) /\ Tail(q)[k].attr = a /\ Tail(q)[k] = q[k + 1]
  BY <1>1, <1>2 DEF LastOf
<1>4. ASSUME NEW j \in DOMAIN q, q[j].attr = a PROVE j <= k + 1
  <2>1. CASE j > 1
    <3>1. j - 1 \in DOMAIN Tail(q) /\ Tail(q)[j - 1] = q[(j - 1) + 1] /\ (j - 1) + 1 = j
      BY <1>1, <1>2, <2>1
    <3>2. j - 1 <= k
      BY <1>4, <3>1 DEF LastOf
    <3> QED BY <1>2, <1>3, <3>2
  <2> QED BY <1>2, <1>3, <2>1
<1> QED BY <1>2, <1>3, <1>4 DEF LastOf

LEMMA NoneOfTail ==
    ASSUME NEW S, NEW q \in Seq(S), q # <<>>, NEW a, NoneOf(Tail(q), a), Head(q).attr # a
    PROVE  NoneOf(q, a)
<1>1. /\ Tail(q) \in Seq(S) /\ Len(Tail(q)) = Len(q) - 1
      /\ \A i \in 1..Len(Tail(q)) : Tail(q)[i] = q[i + 1]
  BY HeadTailProperties
<1>2. Len(q) \in Nat /\ DOMAIN q = 1..Len(q) /\ DOMAIN Tail(q) = 1..(Len(q) - 1) /\ Head(q) = q[1]
  BY <1>1, LenProperties
<1>3. ASSUME NEW j \in DOMAIN q PROVE q[j].attr # a
  <2>1. CASE j > 1
    <3>1. j - 1 \in DOMAIN Tail(q) /\ Tail(q)[j - 1] = q[(j - 1) + 1] /\ (j - 1) + 1 = j
      BY <1>1, <1>2, <2>1
    <3> QED BY <3>1 DEF NoneOf
  <2> QED BY <1>2, <2>1
<1> QED BY <1>3 DEF NoneOf

----------------------------------------------------------------------------
(* Types.                                                                  *)

USE AttrsAssumption, NoneAssumption, LimitsAssumption
USE DEF sysapVars, storeVars, debounceVars, reconVars, bounds, sendHistory, truthHistory, history

\* What the queues are made of.
LEMMA Elements ==
    /\ \A a \in Attrs, v \in Values : [attr |-> a, val |-> v] \in Echo
    /\ \A a \in Attrs, v \in Values, c \in BOOLEAN :
          [attr |-> a, val |-> v, current |-> c] \in Put
    /\ \A a \in Attrs, v \in Maybe, r \in SUBSET Attrs :
          [attr |-> a, val |-> v, rest |-> r] \in Read
    /\ \A e \in Echo : e.attr \in Attrs /\ e.val \in Values
    /\ \A e \in Put : e.attr \in Attrs /\ e.val \in Values
    /\ \A e \in Read : e.attr \in Attrs /\ e.val \in Maybe /\ e.rest \in SUBSET Attrs
  BY DEF Echo, Put, Read

\* The PUT of a replaced dispatcher.
LEMMA Retired ==
    ASSUME NEW e \in Put
    PROVE  /\ [e EXCEPT !.current = FALSE] \in Put
           /\ [e EXCEPT !.current = FALSE].attr = e.attr
           /\ [e EXCEPT !.current = FALSE].val = e.val
<1>1. [e EXCEPT !.current = FALSE] \in Put
  BY Zenon DEF Put
<1> QED BY <1>1 DEF Put

LEMMA FlagsAreBoolean == TRUE \in BOOLEAN /\ FALSE \in BOOLEAN
  OBVIOUS

\* The element a handler works on.
LEMMA PutAt ==
    ASSUME TypeOK, NEW i \in DOMAIN puts
    PROVE  puts[i].attr \in Attrs /\ puts[i].val \in Values
<1>1. puts \in Seq(Put)
  BY DEF TypeOK
<1>2. puts[i] \in Put
  BY <1>1, LenProperties, ElementOfSeq
<1> QED BY <1>2, Elements

LEMMA ReadAt ==
    ASSUME TypeOK, NEW i \in DOMAIN reads
    PROVE  reads[i].attr \in Attrs /\ reads[i].val \in Maybe /\ reads[i].rest \in SUBSET Attrs
<1>1. reads \in Seq(Read)
  BY DEF TypeOK
<1>2. reads[i] \in Read
  BY <1>1, LenProperties, ElementOfSeq
<1> QED BY <1>2, Elements

LEMMA SendTypes ==
    ASSUME TypeOK, NEW a \in Attrs, NEW v \in Values, Send(a, v)
    PROVE  lastSent' \in [Attrs -> Maybe] /\ sent' \in [Attrs -> Maybe] /\ puts' \in Seq(Put)
<1>1. [attr |-> a, val |-> v, current |-> TRUE] \in Put
  BY Elements, FlagsAreBoolean
<1>2. puts' \in Seq(Put)
  BY <1>1, AppendProperties DEF Send, TypeOK
<1> QED BY <1>2 DEF Send, TypeOK, Maybe

LEMMA EnqueueTypes ==
    ASSUME TypeOK, NEW a \in Attrs, NEW v \in Values, Enqueue(a, v)
    PROVE  /\ lastSent' \in [Attrs -> Maybe] /\ sent' \in [Attrs -> Maybe] /\ puts' \in Seq(Put)
           /\ window' \in SUBSET Continuous /\ pending' \in [Attrs -> Maybe]
           /\ \A b \in Attrs : b \in window' <=> pending'[b] # None
<1>1. lastSent' \in [Attrs -> Maybe] /\ sent' \in [Attrs -> Maybe] /\ puts' \in Seq(Put)
  BY SendTypes DEF Enqueue, TypeOK
<1>2. window' \in SUBSET Continuous /\ pending' \in [Attrs -> Maybe]
  <2>1. [pending EXCEPT ![a] = v] \in [Attrs -> Maybe]
    BY DEF TypeOK, Maybe
  <2>2. CASE a \in Continuous
    BY <2>1, <2>2 DEF Enqueue, TypeOK
  <2>3. CASE a \notin Continuous
    BY <2>3 DEF Enqueue, TypeOK
  <2> QED BY <2>2, <2>3
<1>3. \A b \in Attrs : b \in window' <=> pending'[b] # None
  BY DEF Enqueue, TypeOK
<1> QED BY <1>1, <1>2, <1>3

LEMMA ReconcileTypes ==
    ASSUME TypeOK, NEW a \in Attrs, Reconcile(a)
    PROVE  cooling' \in BOOLEAN /\ reads' \in Seq(Read) /\ givenUp' \in SUBSET Attrs
<1>1. cooling' \in BOOLEAN
  BY DEF Reconcile, TypeOK
<1>2. [attr |-> a, val |-> None, rest |-> {}] \in Read
  BY Elements DEF Maybe
<1>3. reads' \in Seq(Read)
  <2>1. reads \in Seq(Read)
    BY DEF TypeOK
  <2>2. Append(reads, [attr |-> a, val |-> None, rest |-> {}]) \in Seq(Read)
    BY <1>2, <2>1, AppendProperties
  <2> QED BY <2>1, <2>2 DEF Reconcile
<1>4. givenUp' \in SUBSET Attrs
  BY DEF Reconcile, GiveUp, TypeOK
<1> QED BY <1>1, <1>3, <1>4

LEMMA ReportTypes ==
    ASSUME TypeOK, NEW a \in Attrs, NEW v \in Values, Report(a, v)
    PROVE  sysap' \in [Attrs -> Values] /\ echoes' \in Seq(Echo) /\ silent' \in SUBSET Attrs
<1>1. [attr |-> a, val |-> v] \in Echo
  BY Elements
<1>2. echoes' \in Seq(Echo)
  <2>1. echoes \in Seq(Echo)
    BY DEF TypeOK
  <2>2. Append(echoes, [attr |-> a, val |-> v]) \in Seq(Echo)
    BY <1>1, <2>1, AppendProperties
  <2> QED BY <2>1, <2>2 DEF Report
<1> QED BY <1>2 DEF Report, TypeOK

LEMMA NextReadTypes ==
    ASSUME TypeOK, NEW i \in DOMAIN reads, NextRead(i)
    PROVE  reads' \in Seq(Read)
<1>1. reads \in Seq(Read) /\ DOMAIN reads = 1..Len(reads)
  BY LenProperties DEF TypeOK
<1>2. CASE reads[i].rest = {}
  BY <1>1, <1>2, RemoveAtFacts DEF NextRead
<1>3. CASE reads[i].rest # {}
  <2>1. PICK a \in reads[i].rest :
            reads' = [reads EXCEPT ![i] = [attr |-> a, val |-> None, rest |-> reads[i].rest \ {a}]]
    BY <1>3 DEF NextRead
  <2>2. [attr |-> a, val |-> None, rest |-> reads[i].rest \ {a}] \in Read
    BY ReadAt, Elements DEF Maybe
  <2> QED BY <1>1, <2>1, <2>2, ExceptSeq
<1> QED BY <1>2, <1>3

LEMMA FaultTypes ==
    ASSUME TypeOK, NEW f, Fault(f)
    PROVE  faults' \in 0..MaxFaults
  BY DEF Fault, TypeOK

LEMMA InitTypes == Init => TypeOK
<1> SUFFICES ASSUME Init PROVE TypeOK
  OBVIOUS
<1>1. Nothing \in [Attrs -> Maybe] /\ \A a \in Attrs : Nothing[a] = None
  BY DEF Nothing, Maybe
<1>2. cooling \in BOOLEAN
  BY DEF Init
<1>3. echoes \in Seq(Echo) /\ puts \in Seq(Put) /\ reads \in Seq(Read)
  BY EmptySeq DEF Init
<1> QED BY <1>1, <1>2, <1>3 DEF Init, TypeOK

\* What the shutdown flush begins: one PUT for each open window, with what the
\* window holds.
Flushed == [i \in DOMAIN SetToSeq(window) |->
    [attr |-> SetToSeq(window)[i], val |-> pending[SetToSeq(window)[i]], current |-> TRUE]]

LEMMA FlushedFacts ==
    ASSUME TypeOK, Stop
    PROVE  /\ Flushed \in Seq(Put)
           /\ puts' = puts \o Flushed
           /\ puts' \in Seq(Put)
           /\ \A i \in DOMAIN Flushed :
                 Flushed[i].attr \in window /\ Flushed[i].val = pending[Flushed[i].attr]
           /\ \A a \in window : \E i \in DOMAIN Flushed : Flushed[i].attr = a
<1>1. IsFiniteSet(window) /\ window \subseteq Attrs
  BY FS_Subset DEF TypeOK
<1>2. Cardinality(window) \in Nat
  BY <1>1, FS_CardinalityType
<1>3. /\ SetToSeq(window) \in [1..Cardinality(window) -> window]
      /\ \A a \in window : \E i \in 1..Cardinality(window) : SetToSeq(window)[i] = a
  BY <1>1, SetToSeqFacts
<1>4. DOMAIN Flushed = 1..Cardinality(window)
  BY <1>3 DEF Flushed
<1>5. ASSUME NEW i \in 1..Cardinality(window)
      PROVE  /\ Flushed[i] \in Put
             /\ Flushed[i].attr = SetToSeq(window)[i] /\ Flushed[i].attr \in window
             /\ Flushed[i].val = pending[Flushed[i].attr]
  <2>1. SetToSeq(window)[i] \in window
    BY <1>3
  <2>2. pending[SetToSeq(window)[i]] \in Values /\ SetToSeq(window)[i] \in Attrs
    BY <1>1, <2>1 DEF TypeOK, Maybe
  <2>3. Flushed[i] = [attr |-> SetToSeq(window)[i], val |-> pending[SetToSeq(window)[i]], current |-> TRUE]
    BY <1>3 DEF Flushed
  <2>4. Flushed[i] \in Put
    BY <2>2, <2>3, Elements, FlagsAreBoolean
  <2>5. Flushed[i].attr = SetToSeq(window)[i] /\ Flushed[i].val = pending[SetToSeq(window)[i]]
    BY <2>3
  <2> QED BY <2>1, <2>4, <2>5
<1>6. Flushed \in Seq(Put)
  <2>1. Flushed = [i \in 1..Cardinality(window) |-> Flushed[i]]
    BY <1>4 DEF Flushed
  <2>2. Flushed \in [1..Cardinality(window) -> Put]
    BY <1>5, <2>1
  <2> QED BY <1>2, <2>2
<1>7. puts' = puts \o Flushed
  BY DEF Stop, Flushed
<1>8. puts' \in Seq(Put)
  BY <1>6, <1>7, ConcatProperties DEF TypeOK
<1>9. ASSUME NEW a \in window PROVE \E i \in DOMAIN Flushed : Flushed[i].attr = a
  BY <1>3, <1>4, <1>5
<1> QED BY <1>4, <1>5, <1>6, <1>7, <1>8, <1>9

LEMMA StepTypes == TypeOK /\ [Next]_vars => TypeOK'
<1> SUFFICES ASSUME TypeOK, [Next]_vars PROVE TypeOK'
  OBVIOUS
<1>1. CASE UNCHANGED vars
  BY <1>1 DEF vars, TypeOK
<1>2. ASSUME NEW a \in Attrs, NEW v \in Values, NEW o \in BOOLEAN, Set(a, v, o) PROVE TypeOK'
  <2>1. /\ values' \in [Attrs -> Values] /\ unconfirmed' \in SUBSET Attrs
        /\ timers' \in SUBSET Confirmed /\ givenUp' \in SUBSET Attrs
    BY <1>2 DEF Set, Arm, TypeOK
  <2>2. /\ lastSent' \in [Attrs -> Maybe] /\ sent' \in [Attrs -> Maybe] /\ puts' \in Seq(Put)
        /\ window' \in SUBSET Continuous /\ pending' \in [Attrs -> Maybe]
        /\ \A b \in Attrs : b \in window' <=> pending'[b] # None
    BY <1>2, EnqueueTypes DEF Set
  <2>3. commanded' \in [Attrs -> Maybe] /\ commands' \in 0..MaxCommands
    BY <1>2 DEF Set, TypeOK, Maybe
  <2> QED BY <1>2, <2>1, <2>2, <2>3 DEF Set, TypeOK
<1>3. ASSUME NEW a \in Attrs, NEW v \in Values, Foreign(a, v) PROVE TypeOK'
  <2>1. [attr |-> a, val |-> v] \in Echo /\ echoes \in Seq(Echo)
    BY Elements DEF TypeOK
  <2>2. echoes' \in Seq(Echo)
    BY <1>3, <2>1, AppendProperties DEF Foreign
  <2>3. sysap' \in [Attrs -> Values] /\ foreign' \in 0..MaxForeign /\ silent' \in SUBSET Attrs
    BY <1>3 DEF Foreign, TypeOK
  <2> QED BY <1>3, <2>2, <2>3 DEF Foreign, TypeOK
<1>4. ASSUME NEW a \in Attrs, CloseWindow(a) PROVE TypeOK'
  <2>1. pending[a] \in Values
    BY <1>4 DEF CloseWindow, TypeOK, Maybe
  <2>2. lastSent' \in [Attrs -> Maybe] /\ sent' \in [Attrs -> Maybe] /\ puts' \in Seq(Put)
    BY <1>4, <2>1, SendTypes DEF CloseWindow, TypeOK
  <2>3. /\ window' \in SUBSET Continuous /\ pending' \in [Attrs -> Maybe]
        /\ \A b \in Attrs : b \in window' <=> pending'[b] # None
    BY <1>4 DEF CloseWindow, TypeOK, Maybe
  <2> QED BY <1>4, <2>2, <2>3 DEF CloseWindow, TypeOK
<1>5. ASSUME NEW a \in Attrs, TimerFires(a) PROVE TypeOK'
  <2>1. cooling' \in BOOLEAN /\ reads' \in Seq(Read) /\ givenUp' \in SUBSET Attrs
    BY <1>5, ReconcileTypes DEF TimerFires, TypeOK
  <2>2. timers' \in SUBSET Confirmed
    BY <1>5 DEF TimerFires, TypeOK
  <2> QED BY <1>5, <2>1, <2>2 DEF TimerFires, TypeOK
<1>6. ASSUME NEW a \in Attrs, OldWindowCloses(a) PROVE TypeOK'
  <2>1. old[a] \in Values
    BY <1>6 DEF OldWindowCloses, TypeOK, Maybe
  <2>2. [attr |-> a, val |-> old[a], current |-> FALSE] \in Put /\ puts \in Seq(Put)
    BY <2>1, Elements, FlagsAreBoolean DEF TypeOK
  <2>3. puts' \in Seq(Put)
    BY <1>6, <2>2, AppendProperties DEF OldWindowCloses
  <2>4. old' \in [Attrs -> Maybe] /\ sent' \in [Attrs -> Maybe]
    BY <1>6, <2>1 DEF OldWindowCloses, TypeOK, Maybe
  <2> QED BY <1>6, <2>3, <2>4 DEF OldWindowCloses, TypeOK
<1>7. ASSUME NEW i \in DOMAIN puts, Execute(i) PROVE TypeOK'
  <2>1. puts[i].attr \in Attrs /\ puts[i].val \in Values
    BY PutAt
  <2>2. puts \in Seq(Put) /\ RemoveAt(puts, i) \in Seq(Put)
    BY RemoveAtFacts DEF TypeOK
  <2>3. puts' \in Seq(Put)
    BY <1>7, <2>2 DEF Execute
  <2>4. sysap' \in [Attrs -> Values] /\ echoes' \in Seq(Echo) /\ silent' \in SUBSET Attrs
    <3>1. CASE Report(puts[i].attr, puts[i].val)
      BY <2>1, <3>1, ReportTypes
    <3>2. CASE ~Report(puts[i].attr, puts[i].val)
      BY <1>7, <2>1, <3>2 DEF Execute, TypeOK
    <3> QED BY <3>1, <3>2
  <2>5. reordered' \in SUBSET Attrs /\ faulted' \in SUBSET Attrs
    BY <1>7, <2>1 DEF Execute, TypeOK
  <2>6. faults' \in 0..MaxFaults
    BY <1>7, FaultTypes DEF Execute, TypeOK
  <2> QED BY <1>7, <2>3, <2>4, <2>5, <2>6 DEF Execute, TypeOK
<1>8. ASSUME NEW i \in DOMAIN puts, Refused(i) PROVE TypeOK'
  <2>1. puts[i].attr \in Attrs
    BY PutAt
  <2>2. puts' \in Seq(Put)
    BY <1>8, RemoveAtFacts DEF Refused, TypeOK
  <2>3. cooling' \in BOOLEAN /\ reads' \in Seq(Read) /\ givenUp' \in SUBSET Attrs
    BY <1>8, <2>1, ReconcileTypes DEF Refused, TypeOK
  <2>4. faulted' \in SUBSET Attrs
    BY <1>8, <2>1 DEF Refused, TypeOK
  <2>5. faults' \in 0..MaxFaults
    BY <1>8, FaultTypes DEF Refused
  <2> QED BY <1>8, <2>2, <2>3, <2>4, <2>5 DEF Refused, TypeOK
<1>9. ASSUME NEW i \in DOMAIN puts, Broken(i) PROVE TypeOK'
  <2>1. puts' \in Seq(Put)
    BY <1>9, RemoveAtFacts DEF Broken, TypeOK
  <2>2. faulted' \in SUBSET Attrs
    BY <1>9, PutAt DEF Broken, TypeOK
  <2>3. faults' \in 0..MaxFaults
    BY <1>9, FaultTypes DEF Broken
  <2> QED BY <1>9, <2>1, <2>2, <2>3 DEF Broken, TypeOK
<1>10. ASSUME NEW i \in DOMAIN reads, AnswerRead(i) PROVE TypeOK'
  <2>1. reads \in Seq(Read) /\ DOMAIN reads = 1..Len(reads) /\ reads[i] \in Read
    BY LenProperties, ElementOfSeq DEF TypeOK
  <2>2. sysap[reads[i].attr] \in Maybe
    BY ReadAt DEF TypeOK, Maybe
  <2>3. [reads[i] EXCEPT !.val = sysap[reads[i].attr]] \in Read
    BY <2>1, <2>2 DEF Read
  <2>4. reads' \in Seq(Read)
    BY <1>10, <2>1, <2>3, ExceptSeq DEF AnswerRead
  <2> QED BY <1>10, <2>4 DEF AnswerRead, TypeOK
<1>11. ASSUME NEW i \in DOMAIN reads, ApplyRead(i) PROVE TypeOK'
  <2>1. reads[i].attr \in Attrs /\ reads[i].val \in Values
    BY <1>11, ReadAt DEF ApplyRead, Maybe
  <2>2. reads' \in Seq(Read)
    BY <1>11, NextReadTypes DEF ApplyRead
  <2>3. /\ values' \in [Attrs -> Values] /\ unconfirmed' \in SUBSET Attrs
        /\ silent' \in SUBSET Attrs /\ staleRead' \in SUBSET Attrs
    BY <1>11, <2>1 DEF ApplyRead, Apply, TypeOK
  <2> QED BY <1>11, <2>2, <2>3 DEF ApplyRead, TypeOK
<1>12. ASSUME NEW i \in DOMAIN reads, ReadFails(i) PROVE TypeOK'
  <2>1. reads' \in Seq(Read)
    BY <1>12, NextReadTypes DEF ReadFails
  <2>2. givenUp' \in SUBSET Attrs
    BY <1>12, ReadAt DEF ReadFails, GiveUp, TypeOK
  <2>3. faults' \in 0..MaxFaults
    BY <1>12, FaultTypes DEF ReadFails
  <2> QED BY <1>12, <2>1, <2>2, <2>3 DEF ReadFails, TypeOK
<1>13. CASE TakeEcho
  <2>1. echoes \in Seq(Echo) /\ Head(echoes) \in Echo /\ echoes' \in Seq(Echo)
    BY <1>13, HeadTailProperties DEF TakeEcho, TypeOK
  <2>2. values' \in [Attrs -> Values] /\ unconfirmed' \in SUBSET Attrs
    BY <1>13, <2>1, Elements DEF TakeEcho, Apply, TypeOK
  <2> QED BY <1>13, <2>1, <2>2 DEF TakeEcho, TypeOK
<1>14. CASE CoolDown
  <2>1. cooling' \in BOOLEAN
    BY <1>14 DEF CoolDown
  <2> QED BY <1>14, <2>1 DEF CoolDown, TypeOK
<1>15. ASSUME NEW targets \in SUBSET Attrs, Get(targets) PROVE TypeOK'
  <2>1. cooling' \in BOOLEAN
    BY <1>15 DEF Get
  <2>2. PICK a \in targets : reads' = Append(reads, [attr |-> a, val |-> None, rest |-> targets \ {a}])
    BY <1>15 DEF Get
  <2>3. [attr |-> a, val |-> None, rest |-> targets \ {a}] \in Read
    BY <2>2, Elements DEF Maybe
  <2>4. reads' \in Seq(Read)
    BY <2>2, <2>3, AppendProperties DEF TypeOK
  <2>5. gets' \in 0..MaxGets
    BY <1>15 DEF Get, TypeOK
  <2> QED BY <1>15, <2>1, <2>4, <2>5 DEF Get, TypeOK
<1>16. CASE Resync
  <2>1. Nothing \in [Attrs -> Maybe] /\ \A a \in Attrs : Nothing[a] = None
    BY DEF Nothing, Maybe
  <2>2. puts \in Seq(Put) /\ DOMAIN puts = 1..Len(puts) /\ Len(puts) \in Nat
    BY LenProperties DEF TypeOK
  <2>3. ASSUME NEW i \in DOMAIN puts PROVE [puts[i] EXCEPT !.current = FALSE] \in Put
    <3>1. puts[i] \in Put
      BY <2>2, ElementOfSeq
    <3> QED BY <3>1, Retired
  <2>4. puts' \in Seq(Put)
    BY <1>16, <2>2, <2>3 DEF Resync
  <2>5. reads' \in Seq(Read) /\ cooling' \in BOOLEAN
    BY <1>16, EmptySeq DEF Resync
  <2>6. /\ old' \in [Attrs -> Maybe] /\ cut' \in SUBSET Attrs /\ silent' \in SUBSET Attrs
        /\ resyncs' \in 0..MaxResyncs
    BY <1>16 DEF Resync, TypeOK
  <2> QED BY <1>16, <2>1, <2>4, <2>5, <2>6 DEF Resync, TypeOK
<1>17. CASE Stop
  <2>1. Nothing \in [Attrs -> Maybe] /\ \A a \in Attrs : Nothing[a] = None
    BY DEF Nothing, Maybe
  <2>2. lastSent' \in [Attrs -> Maybe] /\ sent' \in [Attrs -> Maybe]
    BY <1>17 DEF Stop, TypeOK
  <2>3. puts' \in Seq(Put)
    BY <1>17, FlushedFacts
  <2> QED BY <1>17, <2>1, <2>2, <2>3 DEF Stop, TypeOK
<1>18. CASE Close
  <2>1. puts' \in Seq(Put) /\ reads' \in Seq(Read)
    BY <1>18, EmptySeq DEF Close
  <2> QED BY <1>18, <2>1 DEF Close, TypeOK
<1> QED BY <1>1, <1>2, <1>3, <1>4, <1>5, <1>6, <1>7, <1>8, <1>9, <1>10, <1>11, <1>12, <1>13, <1>14,
           <1>15, <1>16, <1>17, <1>18 DEF Next, ReadStep

LEMMA Typed == Spec => []TypeOK
<1> QED BY InitTypes, StepTypes, PTL DEF Spec

\* TypeOK, for every instance: in particular a window is open exactly where a
\* value is pending.
THEOREM TypeCorrect == Spec => []TypeOK
<1> QED BY Typed

----------------------------------------------------------------------------
(* A guess is watched.                                                     *)

ReadOf(a) == \E i \in DOMAIN reads : reads[i].attr = a

\* Reads end only by their answer or their failure.
LEMMA ReadsStay ==
    ASSUME TypeOK, NEW e \in Read, reads' = Append(reads, e)
    PROVE  ReadOf(e.attr)' /\ \A a : ReadOf(a) => ReadOf(a)'
<1>1. reads \in Seq(Read) /\ Len(reads) \in Nat /\ DOMAIN reads = 1..Len(reads)
  BY LenProperties DEF TypeOK
<1>2. /\ reads' \in Seq(Read) /\ Len(reads') = Len(reads) + 1
      /\ \A j \in 1..Len(reads) : reads'[j] = reads[j]
      /\ reads'[Len(reads) + 1] = e
  BY <1>1, AppendProperties
<1>3. DOMAIN reads' = 1..(Len(reads) + 1)
  BY <1>2, LenProperties
<1> QED BY <1>1, <1>2, <1>3 DEF ReadOf

LEMMA OtherReadsStay ==
    ASSUME TypeOK, NEW i \in DOMAIN reads, NextRead(i), NEW a, a # reads[i].attr, ReadOf(a)
    PROVE  ReadOf(a)'
<1>1. reads \in Seq(Read) /\ Len(reads) \in Nat /\ DOMAIN reads = 1..Len(reads)
  BY LenProperties DEF TypeOK
<1>2. PICK j \in DOMAIN reads : reads[j].attr = a
  BY DEF ReadOf
<1>3. CASE reads[i].rest = {}
  <2>1. /\ DOMAIN reads' = 1..(Len(reads) - 1)
        /\ \A k \in 1..(Len(reads) - 1) : reads'[k] = IF k < i THEN reads[k] ELSE reads[k + 1]
    BY <1>1, <1>3, RemoveAtFacts DEF NextRead
  <2>2. CASE j < i
    <3>1. j \in DOMAIN reads' /\ reads'[j] = reads[j]
      BY <1>1, <2>1, <2>2
    <3> QED BY <1>2, <3>1 DEF ReadOf
  <2>3. CASE j > i
    <3>1. j - 1 \in 1..(Len(reads) - 1) /\ ~(j - 1 < i) /\ (j - 1) + 1 = j
      BY <1>1, <2>3
    <3>2. j - 1 \in DOMAIN reads' /\ reads'[j - 1] = reads[j]
      BY <2>1, <3>1
    <3> QED BY <1>2, <3>2 DEF ReadOf
  <2> QED BY <1>1, <1>2, <2>2, <2>3
<1>4. CASE reads[i].rest # {}
  <2>1. PICK b \in reads[i].rest :
            reads' = [reads EXCEPT ![i] = [attr |-> b, val |-> None, rest |-> reads[i].rest \ {b}]]
    BY <1>4 DEF NextRead
  <2>2. j # i
    BY <1>2
  <2>3. j \in DOMAIN reads' /\ reads'[j] = reads[j]
    BY <1>1, <2>1, <2>2
  <2> QED BY <1>2, <2>3 DEF ReadOf
<1> QED BY <1>3, <1>4

\* What reconcile_now leaves: a read, or a mark given up.
LEMMA ReconcileWatches ==
    ASSUME TypeOK, NEW a \in Attrs, Reconcile(a)
    PROVE  /\ a \in timers' \cup givenUp' \/ ReadOf(a)'
           /\ givenUp \subseteq givenUp'
           /\ \A b : ReadOf(b) => ReadOf(b)'
<1> DEFINE e == [attr |-> a, val |-> None, rest |-> {}]
<1>1. e \in Read /\ e.attr = a
  BY Elements DEF Maybe
<1>2. CASE cooling
  BY <1>2 DEF Reconcile, GiveUp, ReadOf
<1>3. CASE ~cooling
  <2>1. reads' = Append(reads, e) /\ givenUp' = givenUp
    BY <1>3 DEF Reconcile
  <2> QED BY <1>1, <2>1, ReadsStay
<1> QED BY <1>2, <1>3

LEMMA WatchedInit == Init => GuessIsWatched
  BY DEF Init, GuessIsWatched

LEMMA WatchedStep == TypeOK /\ GuessIsWatched /\ [Next]_vars => GuessIsWatched'
<1> SUFFICES ASSUME TypeOK, GuessIsWatched, [Next]_vars, Alive',
                    NEW a \in Attrs, a \in unconfirmed', a \in Confirmed
             PROVE  a \in timers' \cup givenUp' \/ ReadOf(a)'
  BY DEF GuessIsWatched, ReadOf, TypeOK
<1>1. a \in unconfirmed /\ Alive => a \in timers \cup givenUp \/ ReadOf(a)
  BY DEF GuessIsWatched, ReadOf
<1>2. CASE UNCHANGED <<unconfirmed, timers, givenUp, reads>> /\ Alive
  BY <1>1, <1>2 DEF ReadOf
<1>3. ASSUME NEW b \in Attrs, NEW v \in Values, NEW o \in BOOLEAN, Set(b, v, o)
      PROVE  a \in timers' \cup givenUp' \/ ReadOf(a)'
  <2>1. Alive /\ UNCHANGED reads
    BY <1>3 DEF Set, Alive
  <2>2. CASE o
    <3>1. unconfirmed' = unconfirmed \cup {b} /\ givenUp' = givenUp \ {b}
          /\ timers' = timers \cup ({b} \cap Confirmed)
      BY <1>3, <2>2 DEF Set, Arm
    <3> QED BY <1>1, <2>1, <3>1 DEF ReadOf
  <2>3. CASE ~o
    BY <1>2, <1>3, <2>1, <2>3 DEF Set
  <2> QED BY <2>2, <2>3
<1>4. ASSUME NEW b \in Attrs, TimerFires(b) PROVE a \in timers' \cup givenUp' \/ ReadOf(a)'
  <2>1. Alive /\ UNCHANGED unconfirmed /\ timers' = timers \ {b}
    BY <1>4 DEF TimerFires
  <2>2. CASE b \in unconfirmed
    <3>1. /\ b \in timers' \cup givenUp' \/ ReadOf(b)'
          /\ givenUp \subseteq givenUp' /\ \A c : ReadOf(c) => ReadOf(c)'
      BY <1>4, <2>2, ReconcileWatches DEF TimerFires
    <3> QED BY <1>1, <2>1, <3>1
  <2>3. CASE b \notin unconfirmed
    <3>1. UNCHANGED <<reads, givenUp>>
      BY <1>4, <2>3 DEF TimerFires
    <3> QED BY <1>1, <2>1, <2>3, <3>1 DEF ReadOf
  <2> QED BY <2>2, <2>3
<1>5. ASSUME NEW i \in DOMAIN puts, Refused(i) PROVE a \in timers' \cup givenUp' \/ ReadOf(a)'
  <2>1. UNCHANGED <<stage, unconfirmed, timers>>
    BY <1>5 DEF Refused
  <2>2. givenUp \subseteq givenUp' /\ (ReadOf(a) => ReadOf(a)')
    <3>1. CASE puts[i].current
      BY <1>5, <3>1, PutAt, ReconcileWatches DEF Refused
    <3>2. CASE ~puts[i].current
      BY <1>5, <3>2 DEF Refused, ReadOf
    <3> QED BY <3>1, <3>2
  <2> QED BY <1>1, <2>1, <2>2 DEF Alive
<1>6. ASSUME NEW i \in DOMAIN reads, AnswerRead(i) PROVE a \in timers' \cup givenUp' \/ ReadOf(a)'
  <2>1. UNCHANGED <<stage, unconfirmed, timers, givenUp>>
    BY <1>6 DEF AnswerRead
  <2>2. reads \in Seq(Read) /\ reads[i] \in Read
    BY LenProperties, ElementOfSeq DEF TypeOK
  <2>3. DOMAIN reads' = DOMAIN reads /\ \A k \in DOMAIN reads : reads'[k].attr = reads[k].attr
    BY <1>6, <2>2 DEF AnswerRead, Read
  <2> QED BY <1>1, <2>1, <2>3 DEF ReadOf, Alive
<1>7. ASSUME NEW i \in DOMAIN reads, ApplyRead(i) PROVE a \in timers' \cup givenUp' \/ ReadOf(a)'
  <2>1. UNCHANGED <<stage, timers, givenUp>> /\ unconfirmed' = unconfirmed \ {reads[i].attr}
    BY <1>7 DEF ApplyRead, Apply
  <2>2. ReadOf(a) => ReadOf(a)'
    BY <1>7, <2>1, OtherReadsStay DEF ApplyRead
  <2> QED BY <1>1, <2>1, <2>2 DEF Alive
<1>8. ASSUME NEW i \in DOMAIN reads, ReadFails(i) PROVE a \in timers' \cup givenUp' \/ ReadOf(a)'
  <2>1. UNCHANGED <<stage, timers, unconfirmed>> /\ givenUp' = givenUp \cup ({reads[i].attr} \ timers')
    BY <1>8 DEF ReadFails, GiveUp
  <2>2. CASE a = reads[i].attr
    BY <2>1, <2>2
  <2>3. CASE a # reads[i].attr
    BY <1>1, <1>8, <2>1, <2>3, OtherReadsStay DEF ReadFails, Alive
  <2> QED BY <2>2, <2>3
<1>9. CASE TakeEcho
  <2>1. unconfirmed' \subseteq unconfirmed /\ Alive /\ UNCHANGED <<timers, givenUp, reads>>
    BY <1>9 DEF TakeEcho, Apply
  <2> QED BY <1>1, <2>1 DEF ReadOf
<1>10. ASSUME NEW targets \in SUBSET Attrs, Get(targets) PROVE a \in timers' \cup givenUp' \/ ReadOf(a)'
  <2>1. PICK b \in targets : reads' = Append(reads, [attr |-> b, val |-> None, rest |-> targets \ {b}])
    BY <1>10 DEF Get
  <2>2. [attr |-> b, val |-> None, rest |-> targets \ {b}] \in Read
    BY <2>1, Elements DEF Maybe
  <2>3. ReadOf(a) => ReadOf(a)'
    BY <2>1, <2>2, ReadsStay
  <2>4. Alive /\ UNCHANGED <<unconfirmed, timers, givenUp>>
    BY <1>10 DEF Get, Alive
  <2> QED BY <1>1, <2>3, <2>4
<1>11. CASE Resync
  BY <1>11 DEF Resync
<1>12. CASE Stop \/ Close
  <2>1. stage = "running" /\ UNCHANGED <<unconfirmed, timers, givenUp, reads>>
    BY <1>12 DEF Stop, Close, Alive
  <2> QED BY <1>2, <2>1 DEF Alive
<1>13. ASSUME NEW b \in Attrs, NEW v \in Values, Foreign(b, v) PROVE a \in timers' \cup givenUp' \/ ReadOf(a)'
  BY <1>2, <1>13 DEF Foreign, Alive
<1>14. ASSUME NEW b \in Attrs, CloseWindow(b) \/ OldWindowCloses(b) PROVE a \in timers' \cup givenUp' \/ ReadOf(a)'
  BY <1>2, <1>14 DEF CloseWindow, OldWindowCloses
<1>15. ASSUME NEW i \in DOMAIN puts, Execute(i) \/ Broken(i) PROVE a \in timers' \cup givenUp' \/ ReadOf(a)'
  BY <1>2, <1>15 DEF Execute, Broken, Alive
<1>16. CASE CoolDown
  BY <1>2, <1>16 DEF CoolDown, Alive
<1>17. CASE UNCHANGED vars
  BY <1>2, <1>17 DEF vars, Alive
<1> QED BY <1>3, <1>4, <1>5, <1>6, <1>7, <1>8, <1>9, <1>10, <1>11, <1>12, <1>13, <1>14, <1>15, <1>16,
           <1>17 DEF Next, ReadStep

\* GuessIsWatched, for every instance: whatever timers, reads, refusals and
\* resyncs do to each other, no optimistic mark is left without a timer or a
\* read, but for a reconcile that was skipped or failed.
THEOREM GuessesAreWatched == Spec => []GuessIsWatched
<1> QED BY Typed, WatchedInit, WatchedStep, PTL DEF Spec

----------------------------------------------------------------------------
(* The last value is sent.                                                 *)

LEMMA WindowInit == Init => WindowInv
  BY DEF Init, WindowInv, Nothing

LEMMA WindowStep == TypeOK /\ WindowInv /\ [Next]_vars => WindowInv'
<1> SUFFICES ASSUME TypeOK, WindowInv, [Next]_vars PROVE WindowInv'
  OBVIOUS
<1>1. CASE UNCHANGED <<stage, window, pending, lastSent, old, commanded, sent, cut>>
  BY <1>1 DEF WindowInv
<1>2. ASSUME NEW a \in Attrs, NEW v \in Values, NEW o \in BOOLEAN, Set(a, v, o) PROVE WindowInv'
  <2>1. /\ stage = "running" /\ stage' = "running" /\ UNCHANGED <<old, cut>>
        /\ commanded' = [commanded EXCEPT ![a] = v] /\ Enqueue(a, v)
    BY <1>2 DEF Set
  <2>2. CASE a \in window
    <3>1. window' = window /\ pending' = [pending EXCEPT ![a] = v] /\ UNCHANGED <<lastSent, sent>>
      BY <2>1, <2>2 DEF Enqueue, TypeOK
    <3> QED BY <2>1, <2>2, <3>1 DEF WindowInv, TypeOK
  <2>3. CASE a \notin window
    <3>1. lastSent' = [lastSent EXCEPT ![a] = v] /\ sent' = [sent EXCEPT ![a] = v]
      BY <2>1, <2>3 DEF Enqueue, Send
    <3>2. CASE a \in Continuous
      <4>1. window' = window \cup {a} /\ pending' = [pending EXCEPT ![a] = v]
        BY <2>1, <3>2 DEF Enqueue
      <4> QED BY <2>1, <3>1, <4>1 DEF WindowInv, TypeOK
    <3>3. CASE a \notin Continuous
      <4>1. UNCHANGED <<window, pending>>
        BY <2>1, <3>3 DEF Enqueue
      <4> QED BY <2>1, <2>3, <3>1, <4>1 DEF WindowInv, TypeOK
    <3> QED BY <3>2, <3>3
  <2> QED BY <2>2, <2>3
<1>3. ASSUME NEW a \in Attrs, CloseWindow(a) PROVE WindowInv'
  <2>1. /\ a \in window /\ window' = window \ {a} /\ pending' = [pending EXCEPT ![a] = None]
        /\ UNCHANGED <<stage, old, commanded, cut>>
    BY <1>3 DEF CloseWindow
  <2>2. CASE pending[a] # lastSent[a]
    <3>1. lastSent' = [lastSent EXCEPT ![a] = pending[a]] /\ sent' = [sent EXCEPT ![a] = pending[a]]
      BY <1>3, <2>2 DEF CloseWindow, Send
    <3> QED BY <2>1, <3>1 DEF WindowInv, TypeOK
  <2>3. CASE pending[a] = lastSent[a]
    <3>1. UNCHANGED <<lastSent, sent>>
      BY <1>3, <2>3 DEF CloseWindow
    <3> QED BY <2>1, <2>3, <3>1 DEF WindowInv, TypeOK
  <2> QED BY <2>2, <2>3
<1>4. ASSUME NEW a \in Attrs, OldWindowCloses(a) PROVE WindowInv'
  <2>1. /\ a \in cut /\ sent' = [sent EXCEPT ![a] = old[a]] /\ old' = [old EXCEPT ![a] = None]
        /\ UNCHANGED <<stage, window, pending, lastSent, commanded, cut>>
    BY <1>4 DEF OldWindowCloses, WindowInv
  <2> QED BY <2>1 DEF WindowInv, TypeOK
<1>5. CASE Resync
  <2>1. /\ window' = {} /\ cut' = cut \cup window /\ UNCHANGED <<commanded, sent>>
        /\ \A a \in Attrs \ window : old'[a] = old[a]
    BY <1>5 DEF Resync
  <2> QED BY <2>1 DEF WindowInv
<1>6. CASE Stop
  <2>1. /\ window' = {} /\ UNCHANGED <<commanded, old, cut>>
        /\ \A a \in Attrs : sent'[a] = IF a \in window THEN pending[a] ELSE sent[a]
    BY <1>6 DEF Stop
  <2> QED BY <2>1 DEF WindowInv
<1>7. CASE Close
  BY <1>7 DEF Close, WindowInv
<1>8. ASSUME NEW a \in Attrs, NEW v \in Values, Foreign(a, v) PROVE WindowInv'
  BY <1>1, <1>8 DEF Foreign
<1>9. ASSUME NEW a \in Attrs, TimerFires(a) PROVE WindowInv'
  BY <1>1, <1>9 DEF TimerFires
<1>10. ASSUME NEW i \in DOMAIN puts, Execute(i) \/ Refused(i) \/ Broken(i) PROVE WindowInv'
  BY <1>1, <1>10 DEF Execute, Refused, Broken
<1>11. ASSUME NEW i \in DOMAIN reads, ReadStep(i) \/ ReadFails(i) PROVE WindowInv'
  BY <1>1, <1>11 DEF ReadStep, AnswerRead, ApplyRead, ReadFails
<1>12. CASE TakeEcho \/ CoolDown
  BY <1>1, <1>12 DEF TakeEcho, CoolDown
<1>13. ASSUME NEW targets, Get(targets) PROVE WindowInv'
  BY <1>1, <1>13 DEF Get
<1>14. CASE UNCHANGED vars
  BY <1>1, <1>14 DEF vars
<1> QED BY <1>2, <1>3, <1>4, <1>5, <1>6, <1>7, <1>8, <1>9, <1>10, <1>11, <1>12, <1>13, <1>14 DEF Next

LEMMA Windows == Spec => []WindowInv
<1> QED BY Typed, WindowInit, WindowStep, PTL DEF Spec

LEMMA WindowsSend == WindowInv => FinalValueSent
  BY DEF WindowInv, FinalValueSent

\* FinalValueSent, for every instance: whatever bursts, windows and the
\* shutdown flush do to each other, the debouncing never loses the last value.
THEOREM LastValueIsSent == Spec => []FinalValueSent
<1> QED BY Windows, WindowsSend, PTL

----------------------------------------------------------------------------
(* An unmarked value is true.                                              *)

LEMMA HeadIsLast ==
    ASSUME NEW S, NEW q \in Seq(S), q # <<>>, NEW a, NoneOf(Tail(q), a), Head(q).attr = a
    PROVE  1 \in DOMAIN q /\ LastOf(q, a, 1) /\ Head(q) = q[1]
<1>1. /\ Tail(q) \in Seq(S) /\ Len(Tail(q)) = Len(q) - 1
      /\ \A i \in 1..Len(Tail(q)) : Tail(q)[i] = q[i + 1]
  BY HeadTailProperties
<1>2. Len(q) \in Nat \ {0} /\ DOMAIN q = 1..Len(q) /\ DOMAIN Tail(q) = 1..(Len(q) - 1) /\ Head(q) = q[1]
  BY <1>1, LenProperties, EmptySeq
<1>3. ASSUME NEW j \in DOMAIN q, q[j].attr = a PROVE j <= 1
  <2>1. CASE j > 1
    <3>1. j - 1 \in DOMAIN Tail(q) /\ Tail(q)[j - 1] = q[(j - 1) + 1] /\ (j - 1) + 1 = j
      BY <1>1, <1>2, <2>1
    <3> QED BY <1>3, <3>1 DEF NoneOf
  <2> QED BY <1>2, <2>1
<1> QED BY <1>2, <1>3 DEF LastOf

\* The last frame of an attribute when it arrives is what the store will have.
LEMMA ComingIsLast ==
    ASSUME TypeOK, NEW a, NEW k, LastOf(echoes, a, k)
    PROVE  Coming(a) = echoes[k].val
<1> DEFINE mine == {j \in DOMAIN echoes : echoes[j].attr = a}
<1>1. k \in mine /\ \A j \in mine : j <= k
  BY DEF LastOf
<1>2. \A l \in mine : (\A j \in mine : j <= l) => l = k
  BY <1>1, LenProperties DEF TypeOK
<1>3. (CHOOSE l \in mine : \A j \in mine : j <= l) = k
  <2> HIDE DEF mine
  <2> QED BY <1>1, <1>2
<1> QED BY <1>1, <1>3 DEF Coming

LEMMA ComingIsStored ==
    ASSUME NEW a, NoneOf(echoes, a)
    PROVE  Coming(a) = values[a]
  BY DEF Coming, NoneOf

LEMMA StoreIsTrue == TypeOK /\ StoreInv => UnmarkedIsTrue
<1> SUFFICES ASSUME TypeOK, StoreInv, Alive, NEW a \in Attrs \ (unconfirmed \cup silent \cup staleRead)
             PROVE  Coming(a) = sysap[a]
  BY DEF UnmarkedIsTrue
<1>1. CASE NoneOf(echoes, a)
  BY <1>1, ComingIsStored DEF StoreInv
<1>2. CASE ~NoneOf(echoes, a)
  <2>1. PICK k \in DOMAIN echoes : LastOf(echoes, a, k)
    BY <1>2, LastExists DEF TypeOK
  <2> QED BY <2>1, ComingIsLast DEF StoreInv
<1> QED BY <1>1, <1>2

\* A frame of what the SysAP now has joins the others.
LEMMA FrameTells ==
    ASSUME TypeOK, StoreInv, NEW b \in Attrs, NEW v \in Values,
           sysap' = [sysap EXCEPT ![b] = v],
           echoes' = Append(echoes, [attr |-> b, val |-> v]),
           silent' = silent \ {b}, UNCHANGED <<values, unconfirmed, stage, staleRead>>
    PROVE  StoreInv'
<1> DEFINE e == [attr |-> b, val |-> v]
<1>1. e \in Echo /\ echoes \in Seq(Echo) /\ echoes' = Append(echoes, e) /\ e.attr = b /\ e.val = v
  BY Elements DEF TypeOK
<1> HIDE DEF e
<1>2. ASSUME NEW a \in Attrs \ silent', NEW k \in DOMAIN echoes', LastOf(echoes', a, k)
      PROVE  echoes'[k].val = sysap'[a]
  <2>1. CASE a = b
    BY <1>1, <1>2, <2>1, LastAppended DEF TypeOK
  <2>2. CASE a # b
    <3>1. LastOf(echoes, a, k) /\ echoes'[k] = echoes[k]
      BY <1>1, <1>2, <2>2, LastAppended
    <3>2. k \in DOMAIN echoes /\ a \in Attrs \ silent
      BY <2>2, <3>1 DEF LastOf
    <3> QED BY <2>2, <3>1, <3>2 DEF StoreInv, TypeOK
  <2> QED BY <2>1, <2>2
<1>3. ASSUME Alive', NEW a \in Attrs \ (unconfirmed' \cup silent' \cup staleRead'), NoneOf(echoes', a)
      PROVE  values'[a] = sysap'[a]
  <2>1. NoneOf(echoes, a) /\ a # b
    BY <1>1, <1>3, NoneAppended
  <2> QED BY <1>3, <2>1 DEF StoreInv, TypeOK, Alive
<1> QED BY <1>2, <1>3 DEF StoreInv

LEMMA StoreInit == Init => StoreInv
  BY DEF Init, StoreInv, LastOf

LEMMA StoreStep == TypeOK /\ StoreInv /\ [Next]_vars => StoreInv'
<1> SUFFICES ASSUME TypeOK, StoreInv, [Next]_vars PROVE StoreInv'
  OBVIOUS
<1>0. echoes \in Seq(Echo)
  BY DEF TypeOK
<1>1. CASE UNCHANGED <<sysap, echoes, values, unconfirmed, silent, staleRead>> /\ (Alive' => Alive)
  BY <1>1 DEF StoreInv
<1>2. ASSUME NEW a \in Attrs, NEW v \in Values, NEW o \in BOOLEAN, Set(a, v, o) PROVE StoreInv'
  <2>1. Alive /\ UNCHANGED <<sysap, echoes, silent, staleRead, stage>>
    BY <1>2 DEF Set, Alive
  <2>2. CASE o
    <3>1. values' = [values EXCEPT ![a] = v] /\ unconfirmed' = unconfirmed \cup {a}
      BY <1>2, <2>2 DEF Set
    <3> QED BY <2>1, <3>1 DEF StoreInv, TypeOK
  <2>3. CASE ~o
    BY <1>1, <1>2, <2>1, <2>3 DEF Set
  <2> QED BY <2>2, <2>3
<1>3. ASSUME NEW a \in Attrs, NEW v \in Values, Foreign(a, v) PROVE StoreInv'
  BY <1>3, FrameTells DEF Foreign
<1>4. ASSUME NEW i \in DOMAIN puts, Execute(i) PROVE StoreInv'
  <2> DEFINE a == puts[i].attr
             v == puts[i].val
  <2>1. a \in Attrs /\ v \in Values
    BY PutAt
  <2>2. UNCHANGED <<values, unconfirmed, stage, staleRead>>
    BY <1>4 DEF Execute
  <2>3. \/ Report(a, v)
        \/ sysap' = [sysap EXCEPT ![a] = v] /\ silent' = silent \cup {a} /\ UNCHANGED echoes
        \/ UNCHANGED <<sysap, echoes, silent>>
    BY <1>4 DEF Execute
  <2> HIDE DEF a, v
  <2>4. CASE Report(a, v)
    <3>1. CASE echoes' = Append(echoes, [attr |-> a, val |-> v]) /\ silent' = silent \ {a}
      BY <2>1, <2>2, <2>4, <3>1, FrameTells DEF Report
    <3>2. CASE sysap[a] = v /\ UNCHANGED <<echoes, silent>>
      <4>1. UNCHANGED sysap
        BY <2>1, <2>4, <3>2 DEF Report, TypeOK
      <4> QED BY <1>1, <2>2, <3>2, <4>1 DEF Alive
    <3> QED BY <2>4, <3>1, <3>2 DEF Report
  <2>5. CASE sysap' = [sysap EXCEPT ![a] = v] /\ silent' = silent \cup {a} /\ UNCHANGED echoes
    BY <2>1, <2>2, <2>5 DEF StoreInv, TypeOK, Alive
  <2>6. CASE UNCHANGED <<sysap, echoes, silent>>
    BY <1>1, <2>2, <2>6 DEF Alive
  <2> QED BY <2>3, <2>4, <2>5, <2>6
<1>5. CASE TakeEcho
  <2>1. /\ Alive /\ echoes # <<>> /\ echoes' = Tail(echoes)
        /\ values' = [values EXCEPT ![Head(echoes).attr] = Head(echoes).val]
        /\ unconfirmed' = unconfirmed \ {Head(echoes).attr}
        /\ UNCHANGED <<sysap, silent, staleRead, stage>>
    BY <1>5 DEF TakeEcho, Apply
  <2>2. Head(echoes) \in Echo
    BY <1>0, <2>1, HeadTailProperties
  <2>3. ASSUME NEW a \in Attrs \ silent', NEW k \in DOMAIN echoes', LastOf(echoes', a, k)
        PROVE  echoes'[k].val = sysap'[a]
    <3>1. k + 1 \in DOMAIN echoes /\ LastOf(echoes, a, k + 1) /\ echoes'[k] = echoes[k + 1]
      BY <1>0, <2>1, <2>3, LastOfTail
    <3> QED BY <2>1, <2>3, <3>1 DEF StoreInv
  <2>4. ASSUME NEW a \in Attrs \ (unconfirmed' \cup silent' \cup staleRead'), NoneOf(echoes', a)
        PROVE  values'[a] = sysap'[a]
    <3>1. CASE Head(echoes).attr = a
      <4>1. 1 \in DOMAIN echoes /\ LastOf(echoes, a, 1) /\ Head(echoes) = echoes[1]
        BY <1>0, <2>1, <2>4, <3>1, HeadIsLast
      <4>2. Head(echoes).val = sysap[a]
        <5>1. a \in Attrs \ silent
          BY <2>1, <2>4
        <5>2. echoes[1].val = sysap[a]
          BY <4>1, <5>1 DEF StoreInv
        <5> QED BY <4>1, <5>2
      <4> QED BY <2>1, <2>4, <3>1, <4>2 DEF TypeOK
    <3>2. CASE Head(echoes).attr # a
      <4>1. NoneOf(echoes, a)
        BY <1>0, <2>1, <2>4, <3>2, NoneOfTail
      <4> QED BY <2>1, <2>4, <3>2, <4>1 DEF StoreInv, TypeOK
    <3> QED BY <3>1, <3>2
  <2> QED BY <2>3, <2>4 DEF StoreInv
<1>6. ASSUME NEW i \in DOMAIN reads, ApplyRead(i) PROVE StoreInv'
  <2> DEFINE a == reads[i].attr
             v == reads[i].val
  <2>1. /\ values' = [values EXCEPT ![a] = v] /\ unconfirmed' = unconfirmed \ {a}
        /\ silent' = (IF v = sysap[a] /\ ~EchoComing(a) THEN silent \ {a} ELSE silent)
        /\ staleRead' = (IF v # sysap[a] /\ ~EchoComing(a) THEN staleRead \cup {a} ELSE staleRead)
        /\ UNCHANGED <<sysap, echoes, stage>>
    BY <1>6 DEF ApplyRead, Apply
  <2>2. a \in Attrs
    BY ReadAt
  <2> HIDE DEF a, v
  <2>3. EchoComing(a) <=> ~NoneOf(echoes, a)
    BY DEF EchoComing, NoneOf
  <2>4. ASSUME NEW b \in Attrs \ silent', NEW k \in DOMAIN echoes', LastOf(echoes', b, k)
        PROVE  echoes'[k].val = sysap'[b]
    <3>1. b \notin silent
      BY <2>1, <2>3, <2>4 DEF LastOf, NoneOf
    <3> QED BY <2>1, <2>4, <3>1 DEF StoreInv
  <2>5. ASSUME Alive', NEW b \in Attrs \ (unconfirmed' \cup silent' \cup staleRead'), NoneOf(echoes', b)
        PROVE  values'[b] = sysap'[b]
    <3>1. CASE b = a
      BY <2>1, <2>2, <2>3, <2>5, <3>1 DEF TypeOK
    <3>2. CASE b # a
      BY <2>1, <2>5, <3>2 DEF StoreInv, TypeOK, Alive
    <3> QED BY <3>1, <3>2
  <2> QED BY <2>4, <2>5 DEF StoreInv
<1>7. CASE Resync
  <2>1. values' = sysap /\ silent' = {a \in silent : EchoComing(a)} /\ UNCHANGED <<sysap, echoes>>
    BY <1>7 DEF Resync
  <2>2. ASSUME NEW a \in Attrs \ silent', NEW k \in DOMAIN echoes', LastOf(echoes', a, k)
        PROVE  echoes'[k].val = sysap'[a]
    <3>1. EchoComing(a)
      BY <2>1, <2>2 DEF LastOf, EchoComing
    <3> QED BY <2>1, <2>2, <3>1 DEF StoreInv
  <2> QED BY <2>1, <2>2 DEF StoreInv
<1>8. ASSUME NEW a \in Attrs, CloseWindow(a) \/ TimerFires(a) \/ OldWindowCloses(a) PROVE StoreInv'
  BY <1>1, <1>8 DEF CloseWindow, TimerFires, OldWindowCloses
<1>9. ASSUME NEW i \in DOMAIN puts, Refused(i) \/ Broken(i) PROVE StoreInv'
  BY <1>1, <1>9 DEF Refused, Broken, Alive
<1>10. ASSUME NEW i \in DOMAIN reads, AnswerRead(i) \/ ReadFails(i) PROVE StoreInv'
  BY <1>1, <1>10 DEF AnswerRead, ReadFails, Alive
<1>11. CASE CoolDown \/ Stop \/ Close
  BY <1>1, <1>11 DEF CoolDown, Stop, Close, Alive
<1>12. ASSUME NEW targets, Get(targets) PROVE StoreInv'
  BY <1>1, <1>12 DEF Get, Alive
<1>13. CASE UNCHANGED vars
  BY <1>1, <1>13 DEF vars, Alive
<1> QED BY <1>2, <1>3, <1>4, <1>5, <1>6, <1>7, <1>8, <1>9, <1>10, <1>11, <1>12, <1>13 DEF Next, ReadStep

\* UnmarkedIsTrue, for every instance: once the frames on their way have
\* arrived, an unmarked value of the store is what the SysAP has, whatever the
\* optimistic marks, reads and resyncs did, but for a change that no frame told
\* and a read that a frame overtook.
THEOREM UnmarkedValuesAreTrue == Spec => []UnmarkedIsTrue
<1>1. Spec => []StoreInv
  BY Typed, StoreInit, StoreStep, PTL DEF Spec
<1> QED BY <1>1, Typed, StoreIsTrue, PTL

----------------------------------------------------------------------------
(* The SysAP obeys.                                                        *)

PutTells(a) ==
    /\ \A k \in DOMAIN puts : LastOf(puts, a, k) => puts[k].val = sent[a]
    /\ NoneOf(puts, a) => sent[a] \in {None, sysap[a]}

\* A PUT is begun with what is then sent last.
LEMMA BegunPutTells ==
    ASSUME TypeOK, NEW e \in Put, NEW a \in Attrs, PutTells(a),
           puts' = Append(puts, e), sent' = [sent EXCEPT ![e.attr] = e.val], UNCHANGED sysap
    PROVE  PutTells(a)'
<1>1. puts \in Seq(Put)
  BY DEF TypeOK
<1>2. ASSUME NEW k \in DOMAIN puts', LastOf(puts', a, k) PROVE puts'[k].val = sent'[a]
  <2>1. CASE e.attr = a
    BY <1>1, <1>2, <2>1, LastAppended DEF TypeOK
  <2>2. CASE e.attr # a
    <3>1. LastOf(puts, a, k) /\ puts'[k] = puts[k]
      BY <1>1, <1>2, <2>2, LastAppended
    <3>2. k \in DOMAIN puts
      BY <3>1 DEF LastOf
    <3> QED BY <2>2, <3>1, <3>2 DEF PutTells, TypeOK
  <2> QED BY <2>1, <2>2
<1>3. ASSUME NoneOf(puts', a) PROVE sent'[a] \in {None, sysap'[a]}
  <2>1. NoneOf(puts, a) /\ e.attr # a
    BY <1>1, <1>3, NoneAppended
  <2> QED BY <2>1 DEF PutTells, TypeOK
<1> QED BY <1>2, <1>3 DEF PutTells

\* A PUT of another attribute is over, or one that overtook none.
LEMMA EndedPutTells ==
    ASSUME TypeOK, NEW i \in DOMAIN puts, NEW a \in Attrs, PutTells(a),
           puts' = RemoveAt(puts, i), UNCHANGED sent,
           puts[i].attr = a => /\ \A j \in 1..(i - 1) : puts[j].attr # a
                               /\ sysap'[a] = puts[i].val,
           puts[i].attr # a => sysap'[a] = sysap[a]
    PROVE  PutTells(a)'
<1>1. puts \in Seq(Put)
  BY DEF TypeOK
<1>2. ASSUME NEW k \in DOMAIN puts', LastOf(puts', a, k) PROVE puts'[k].val = sent'[a]
  <2>1. PICK m \in DOMAIN puts : LastOf(puts, a, m) /\ puts[m] = puts'[k]
    BY <1>1, <1>2, LastRemoved
  <2> QED BY <2>1 DEF PutTells
<1>3. ASSUME NoneOf(puts', a) PROVE sent'[a] \in {None, sysap'[a]}
  <2>1. CASE NoneOf(puts, a)
    BY <2>1 DEF PutTells, NoneOf
  <2>2. CASE LastOf(puts, a, i)
    BY <2>2 DEF PutTells, LastOf
  <2> QED BY <1>1, <1>3, <2>1, <2>2, NoneRemoved
<1> QED BY <1>2, <1>3 DEF PutTells

\* The flush begins one PUT for each open window, behind all others.
LEMMA FlushTells ==
    ASSUME TypeOK, Stop, NEW a \in Attrs, PutTells(a)
    PROVE  PutTells(a)'
<1>1. /\ Flushed \in Seq(Put) /\ puts \in Seq(Put) /\ puts' = puts \o Flushed
      /\ \A i \in DOMAIN Flushed :
            Flushed[i].attr \in window /\ Flushed[i].val = pending[Flushed[i].attr]
      /\ \A b \in window : \E i \in DOMAIN Flushed : Flushed[i].attr = b
  BY FlushedFacts DEF TypeOK
<1>2. /\ Len(puts) \in Nat /\ DOMAIN puts = 1..Len(puts)
      /\ Len(Flushed) \in Nat /\ DOMAIN Flushed = 1..Len(Flushed)
  BY <1>1, LenProperties
<1>3. /\ DOMAIN puts' = 1..(Len(puts) + Len(Flushed))
      /\ \A j \in 1..(Len(puts) + Len(Flushed)) :
            puts'[j] = IF j <= Len(puts) THEN puts[j] ELSE Flushed[j - Len(puts)]
  BY <1>1, ConcatProperties, LenProperties
<1>4. ASSUME NEW j \in DOMAIN Flushed
      PROVE  Len(puts) + j \in DOMAIN puts' /\ puts'[Len(puts) + j] = Flushed[j]
  <2>1. /\ Len(puts) + j \in 1..(Len(puts) + Len(Flushed)) /\ ~(Len(puts) + j <= Len(puts))
        /\ (Len(puts) + j) - Len(puts) = j
    BY <1>2
  <2> QED BY <1>3, <2>1
<1>5. ASSUME NEW j \in DOMAIN puts PROVE j \in DOMAIN puts' /\ puts'[j] = puts[j]
  BY <1>2, <1>3
<1>6. sent'[a] = (IF a \in window THEN pending[a] ELSE sent[a]) /\ UNCHANGED sysap
  BY DEF Stop
<1>7. CASE a \in window
  <2>1. PICK i \in DOMAIN Flushed : Flushed[i].attr = a
    BY <1>1, <1>7
  <2>2. ~NoneOf(puts', a)
    BY <1>4, <2>1 DEF NoneOf
  <2>3. ASSUME NEW k \in DOMAIN puts', LastOf(puts', a, k) PROVE puts'[k].val = sent'[a]
    <3>1. Len(puts) + i <= k
      BY <1>4, <2>1, <2>3 DEF LastOf
    <3>2. k - Len(puts) \in DOMAIN Flushed /\ puts'[k] = Flushed[k - Len(puts)]
      BY <1>2, <1>3, <3>1
    <3>3. Flushed[k - Len(puts)].attr = a
      BY <2>3, <3>2 DEF LastOf
    <3> QED BY <1>1, <1>6, <1>7, <3>2, <3>3
  <2> QED BY <2>2, <2>3 DEF PutTells
<1>8. CASE a \notin window
  <2>1. ASSUME NEW k \in DOMAIN puts', puts'[k].attr = a PROVE k \in DOMAIN puts /\ puts'[k] = puts[k]
    <3>1. CASE k <= Len(puts)
      BY <1>2, <1>3, <3>1
    <3>2. CASE ~(k <= Len(puts))
      <4>1. k - Len(puts) \in DOMAIN Flushed /\ puts'[k] = Flushed[k - Len(puts)]
        BY <1>2, <1>3, <3>2
      <4> QED BY <1>1, <1>8, <2>1, <4>1
    <3> QED BY <3>1, <3>2
  <2>2. ASSUME NEW k \in DOMAIN puts', LastOf(puts', a, k) PROVE puts'[k].val = sent'[a]
    <3>1. k \in DOMAIN puts /\ puts'[k] = puts[k]
      BY <2>1, <2>2 DEF LastOf
    <3>2. LastOf(puts, a, k)
      BY <1>5, <2>2, <3>1 DEF LastOf
    <3> QED BY <1>6, <1>8, <3>1, <3>2 DEF PutTells
  <2>3. ASSUME NoneOf(puts', a) PROVE sent'[a] \in {None, sysap'[a]}
    <3>1. NoneOf(puts, a)
      BY <1>5, <2>3 DEF NoneOf
    <3> QED BY <1>6, <1>8, <3>1 DEF PutTells
  <2> QED BY <2>2, <2>3 DEF PutTells
<1> QED BY <1>7, <1>8

LEMMA PutInit == Init => PutInv
  BY DEF Init, PutInv, LastOf, Nothing

LEMMA PutStep == TypeOK /\ PutInv /\ [Next]_vars => PutInv'
<1> SUFFICES ASSUME TypeOK, PutInv, [Next]_vars, Alive', foreign' = 0,
                    NEW a \in Attrs, a \notin cut' \cup faulted' \cup reordered'
             PROVE  PutTells(a)'
  BY DEF PutInv, PutTells
<1>1. Alive /\ foreign = 0 /\ a \notin cut \cup faulted \cup reordered => PutTells(a)
  BY DEF PutInv, PutTells
<1>2. CASE UNCHANGED <<sysap, puts, sent>> /\ PutTells(a)
  BY <1>2 DEF PutTells
<1>3. ASSUME NEW b \in Attrs, NEW v \in Values, NEW o \in BOOLEAN, Set(b, v, o) PROVE PutTells(a)'
  <2>1. PutTells(a) /\ UNCHANGED sysap
    BY <1>1, <1>3 DEF Set, Alive
  <2>2. CASE b \in window
    BY <1>2, <1>3, <2>1, <2>2 DEF Set, Enqueue
  <2>3. CASE b \notin window
    <3> DEFINE e == [attr |-> b, val |-> v, current |-> TRUE]
    <3>1. e \in Put /\ e.attr = b /\ e.val = v
      BY Elements, FlagsAreBoolean
    <3>2. puts' = Append(puts, e) /\ sent' = [sent EXCEPT ![b] = v]
      BY <1>3, <2>3 DEF Set, Enqueue, Send
    <3> HIDE DEF e
    <3> QED BY <2>1, <3>1, <3>2, BegunPutTells
  <2> QED BY <2>2, <2>3
<1>4. ASSUME NEW b \in Attrs, CloseWindow(b) PROVE PutTells(a)'
  <2>1. PutTells(a) /\ UNCHANGED sysap /\ pending[b] \in Values
    BY <1>1, <1>4 DEF CloseWindow, TypeOK, Maybe
  <2>2. CASE pending[b] = lastSent[b]
    BY <1>2, <1>4, <2>1, <2>2 DEF CloseWindow
  <2>3. CASE pending[b] # lastSent[b]
    <3> DEFINE e == [attr |-> b, val |-> pending[b], current |-> TRUE]
    <3>1. e \in Put /\ e.attr = b /\ e.val = pending[b]
      BY <2>1, Elements, FlagsAreBoolean
    <3>2. puts' = Append(puts, e) /\ sent' = [sent EXCEPT ![b] = pending[b]]
      BY <1>4, <2>3 DEF CloseWindow, Send
    <3> HIDE DEF e
    <3> QED BY <2>1, <3>1, <3>2, BegunPutTells
  <2> QED BY <2>2, <2>3
<1>5. ASSUME NEW b \in Attrs, OldWindowCloses(b) PROVE PutTells(a)'
  <2> DEFINE e == [attr |-> b, val |-> old[b], current |-> FALSE]
  <2>1. PutTells(a) /\ UNCHANGED sysap /\ old[b] \in Values
    BY <1>1, <1>5 DEF OldWindowCloses, TypeOK, Maybe
  <2>2. e \in Put /\ e.attr = b /\ e.val = old[b]
    BY <2>1, Elements, FlagsAreBoolean
  <2>3. puts' = Append(puts, e) /\ sent' = [sent EXCEPT ![b] = old[b]]
    BY <1>5 DEF OldWindowCloses
  <2> HIDE DEF e
  <2> QED BY <2>1, <2>2, <2>3, BegunPutTells
<1>6. ASSUME NEW i \in DOMAIN puts, Execute(i) PROVE PutTells(a)'
  <2> DEFINE b == puts[i].attr
             v == puts[i].val
  <2>1. PutTells(a) /\ UNCHANGED sent /\ b \in Attrs
    BY <1>1, <1>6, PutAt DEF Execute, Alive
  <2>2. b = a => \A j \in 1..(i - 1) : puts[j].attr # a
    BY <1>6 DEF Execute
  <2>3. \/ sysap' = [sysap EXCEPT ![b] = v] /\ puts' = RemoveAt(puts, i)
        \/ b # a /\ UNCHANGED sysap /\ puts' = RemoveAt(puts, i)
        \/ b # a /\ sysap' = [sysap EXCEPT ![b] = v] /\ UNCHANGED puts
    BY <1>6 DEF Execute, Report
  <2> HIDE DEF b, v
  <2>4. CASE UNCHANGED puts
    <3>1. b # a => sysap'[a] = sysap[a]
      BY <2>3 DEF TypeOK
    <3>2. b # a
      BY <2>1, <2>3, <2>4, RemoveAtFacts, LenProperties DEF TypeOK
    <3> QED BY <2>1, <2>4, <3>1, <3>2 DEF PutTells
  <2>5. CASE puts' = RemoveAt(puts, i) /\ sysap' = [sysap EXCEPT ![b] = v]
    <3>1. sysap'[a] = IF b = a THEN v ELSE sysap[a]
      BY <2>5 DEF TypeOK
    <3> QED BY <2>1, <2>2, <2>5, <3>1, EndedPutTells DEF b, v
  <2>6. CASE puts' = RemoveAt(puts, i) /\ b # a /\ UNCHANGED sysap
    BY <2>1, <2>6, EndedPutTells DEF b
  <2> QED BY <2>3, <2>4, <2>5, <2>6
<1>7. ASSUME NEW i \in DOMAIN puts, Refused(i) \/ Broken(i) PROVE PutTells(a)'
  <2>1. /\ PutTells(a) /\ puts[i].attr # a
        /\ puts' = RemoveAt(puts, i) /\ UNCHANGED <<sysap, sent>>
    BY <1>1, <1>7 DEF Refused, Broken, Alive
  <2> QED BY <2>1, EndedPutTells
<1>8. CASE Resync
  <2>1. PutTells(a) /\ UNCHANGED <<sysap, sent>>
    BY <1>1, <1>8 DEF Resync, Alive
  <2>2. puts \in Seq(Put) /\ DOMAIN puts = 1..Len(puts)
    BY LenProperties DEF TypeOK
  <2>3. DOMAIN puts' = DOMAIN puts
    BY <1>8 DEF Resync
  <2>4. ASSUME NEW j \in DOMAIN puts PROVE puts'[j].attr = puts[j].attr /\ puts'[j].val = puts[j].val
    <3>1. puts[j] \in Put
      BY <2>2, ElementOfSeq
    <3>2. puts'[j] = [puts[j] EXCEPT !.current = FALSE]
      BY <1>8 DEF Resync
    <3> QED BY <3>1, <3>2, Retired
  <2> QED BY <2>1, <2>3, <2>4 DEF PutTells, LastOf, NoneOf
<1>9. CASE Stop
  <2>1. PutTells(a)
    BY <1>1, <1>9 DEF Stop, Alive
  <2> QED BY <1>9, <2>1, FlushTells
<1>10. CASE Close
  BY <1>10 DEF Close, Alive
<1>11. ASSUME NEW b \in Attrs, NEW v \in Values, Foreign(b, v) PROVE PutTells(a)'
  BY <1>11 DEF Foreign, TypeOK
<1>12. ASSUME NEW b \in Attrs, TimerFires(b) PROVE PutTells(a)'
  BY <1>1, <1>2, <1>12 DEF TimerFires
<1>13. ASSUME NEW i \in DOMAIN reads, ReadStep(i) \/ ReadFails(i) PROVE PutTells(a)'
  BY <1>1, <1>2, <1>13 DEF ReadStep, AnswerRead, ApplyRead, ReadFails, Alive
<1>14. CASE TakeEcho \/ CoolDown
  BY <1>1, <1>2, <1>14 DEF TakeEcho, CoolDown, Alive
<1>15. ASSUME NEW targets, Get(targets) PROVE PutTells(a)'
  BY <1>1, <1>2, <1>15 DEF Get, Alive
<1>16. CASE UNCHANGED vars
  BY <1>1, <1>2, <1>16 DEF vars, Alive
<1> QED BY <1>3, <1>4, <1>5, <1>6, <1>7, <1>8, <1>9, <1>10, <1>11, <1>12, <1>13, <1>14, <1>15, <1>16
        DEF Next

LEMMA PutsObey == TypeOK /\ WindowInv /\ PutInv => Obeyed
<1> SUFFICES ASSUME TypeOK, WindowInv, PutInv, stage # "closed", puts = <<>>, window = {}, foreign = 0,
                    NEW a \in Attrs \ (cut \cup faulted \cup reordered)
             PROVE  commanded[a] \in {None, sysap[a]}
  BY DEF Obeyed
<1>1. NoneOf(puts, a)
  BY DEF NoneOf
<1>2. sent[a] \in {None, sysap[a]}
  BY <1>1 DEF PutInv, Alive
<1>3. commanded[a] = sent[a]
  BY DEF WindowInv
<1> QED BY <1>2, <1>3

\* Obeyed, for every instance: with nothing left to send and nothing changed
\* elsewhere, the SysAP has the value commanded last, unless it failed a PUT, a
\* PUT overtook another or a resync cut a window off.
THEOREM CommandsAreObeyed == Spec => []Obeyed
<1>1. Spec => []PutInv
  BY Typed, PutInit, PutStep, PTL DEF Spec
<1> QED BY <1>1, Typed, Windows, PutsObey, PTL

====
