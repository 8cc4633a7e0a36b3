---- MODULE ResyncProofs ----
(***************************************************************************)
(* Proofs about Resync, for every set of datapoints and values, every      *)
(* length of the buffer and every bound.                                   *)
(***************************************************************************)
EXTENDS Resync, FiniteSetTheorems, SequenceTheorems, TLAPS

----------------------------------------------------------------------------
(* The invariants, strengthened.                                           *)

\* No frame tells of key k.
Silent(frames, k) == \A i \in DOMAIN frames : frames[i].key # k

\* What frames make of the value that base has for key k.
Overlay(base, frames, k) ==
    LET mine == {i \in DOMAIN frames : frames[i].key = k}
    IN  IF mine = {} THEN base[k] ELSE frames[Max(mine)].val

\* A coroutine that has fetched holds a configuration.
Fetched == \A s \in Slots : pc[s] = "fetched" => snap[s] \in Config

\* The frames on their way end with what the SysAP has.
FramesTell == connected => \A k \in Keys : Overlay(truth, buffer \o wire, k) = truth[k]

\* Where frames may be.
FramesInv ==
    /\ ~connected => wire = <<>>
    /\ ~buffering => buffer = <<>>
    /\ FramesTell

\* No debt is forgotten, also before the cold start is done.
DebtInv ==
    windows \cap {"dirty dropped", "old publish"} = {} =>
        \A p \in Points : p \in dirty \/ published[p] = store[p]

\* None of the races that lose a frame was entered.
Calm == windows \subseteq {"dirty dropped", "old publish"}

Resyncers == Slots \ {"refresh"}

\* The resyncs that buffer do not overlap.
AloneInv ==
    Calm => /\ \A s, o \in Resyncers : Active(s) /\ Active(o) => s = o
            /\ pc["refresh"] = "publishing" => \A s \in Resyncers : ~Active(s)

\* A resync that a new connection does not wait to redo: the reader buffers from
\* before its fetch, and its snapshot with those frames is what the SysAP has.
SnapshotInv ==
    Calm /\ connected /\ pc["reconnect"] # "spawned" =>
        \A s \in Resyncers :
            /\ pc[s] \in {"fetching", "fetched"} => buffering
            /\ pc[s] = "fetched" =>
                  \A k \in Keys : Overlay(snap[s], buffer \o wire, k) = truth[k]

\* A resync that buffers has yet to apply what it fetches.
Fetching == \E s \in Resyncers : pc[s] \in {"spawned", "fetching", "fetched"}

\* The store is wrong only where the hash is that of a configuration that is
\* wrong too.
HashInv ==
    connected /\ ~Fetching /\ windows \cap {"startup gap", "refused fetch"} = {} =>
        \A p \in Points : Overlay(store, buffer \o wire, p) \in {truth[p], lastConfig[p]}

----------------------------------------------------------------------------
(* Sequences of frames.                                                    *)

\* A set of naturals with an upper bound and an element has a greatest one.
LEMMA Greatest ==
    ASSUME NEW S \in SUBSET Nat, NEW n \in Nat, \A s \in S : s <= n, S # {}
    PROVE  \E k \in S : \A j \in S : j <= k
<1> DEFINE T == {k..n : k \in S}
<1>1. T \subseteq FiniteSubsetsOf(Nat) /\ T # {}
  <2>1. \A k \in S : k..n \in SUBSET Nat /\ IsFiniteSet(k..n)
    BY FS_Interval
  <2> QED BY <2>1 DEF FiniteSubsetsOf
<1>2. PICK x \in T : \A y \in T : ~ (<<y, x>> \in StrictSubsetOrdering(Nat))
  BY <1>1, FS_StrictSubsetOrderingWellFounded, WFMin
<1>3. PICK k \in S : x = k..n
  OBVIOUS
<1>4. ASSUME NEW j \in S PROVE j <= k
  <2> SUFFICES ASSUME ~(j <= k) PROVE FALSE
    OBVIOUS
  <2>1. j..n \subseteq k..n /\ k \in k..n /\ k \notin j..n
    OBVIOUS
  <2>2. <<j..n, k..n>> \in StrictSubsetOrdering(Nat)
    BY <2>1 DEF StrictSubsetOrdering
  <2> QED BY <1>2, <1>3, <2>2
<1> QED BY <1>4

\* What a greatest element is, Max finds.
LEMMA MaxIs ==
    ASSUME NEW S \in SUBSET Nat, NEW k \in S, \A j \in S : j <= k
    PROVE  Max(S) = k
<1>1. \A y \in S : k >= y
  OBVIOUS
<1>2. Max(S) \in S /\ \A y \in S : Max(S) >= y
  BY <1>1 DEF Max
<1> DEFINE m == Max(S)
<1>3. m \in Nat /\ k \in Nat /\ m <= k /\ m >= k
  BY <1>2
<1> HIDE DEF m
<1>4. m = k
  BY <1>3
<1> QED BY <1>4 DEF m

\* The i-th frame is the last one of key k.
Final(frames, k, i) ==
    /\ i \in DOMAIN frames
    /\ frames[i].key = k
    /\ \A j \in DOMAIN frames : frames[j].key = k => j <= i

LEMMA FinalExists ==
    ASSUME NEW S, NEW f \in Seq(S), NEW k, ~Silent(f, k)
    PROVE  \E i \in DOMAIN f : Final(f, k, i)
<1> DEFINE T == {i \in DOMAIN f : f[i].key = k}
<1>1. Len(f) \in Nat /\ DOMAIN f = 1..Len(f)
  BY LenProperties
<1>2. T \in SUBSET Nat /\ T # {} /\ \A i \in T : i <= Len(f)
  BY <1>1 DEF Silent
<1>3. PICK i \in T : \A l \in T : l <= i
  <2> HIDE DEF T
  <2> QED BY <1>1, <1>2, Greatest
<1> QED BY <1>3 DEF Final

LEMMA OverlaySilent ==
    ASSUME NEW f, NEW k, Silent(f, k), NEW b
    PROVE  Overlay(b, f, k) = b[k]
  BY DEF Silent, Overlay

LEMMA OverlayFinal ==
    ASSUME NEW S, NEW f \in Seq(S), NEW k, NEW i, Final(f, k, i), NEW b
    PROVE  Overlay(b, f, k) = f[i].val
<1> DEFINE T == {j \in DOMAIN f : f[j].key = k}
<1>1. T \in SUBSET Nat /\ i \in T /\ \A j \in T : j <= i
  BY LenProperties DEF Final
<1>2. Max(T) = i
  <2> HIDE DEF T
  <2> QED BY <1>1, MaxIs
<1> QED BY <1>1, <1>2 DEF Overlay

\* The base matters only where no frame tells.
LEMMA OverlaySame ==
    ASSUME NEW S, NEW f \in Seq(S), NEW k, ~Silent(f, k), NEW b, NEW c
    PROVE  Overlay(b, f, k) = Overlay(c, f, k)
<1>1. PICK i \in DOMAIN f : Final(f, k, i)
  BY FinalExists
<1> QED BY <1>1, OverlayFinal

\* Values stay values.
LEMMA OverlayType ==
    ASSUME NEW f \in Seq(Frame), NEW k \in Keys, NEW b, b[k] \in Values
    PROVE  Overlay(b, f, k) \in Values
<1>1. CASE Silent(f, k)
  BY <1>1, OverlaySilent
<1>2. CASE ~Silent(f, k)
  <2>1. PICK i \in DOMAIN f : Final(f, k, i)
    BY <1>2, FinalExists
  <2>2. f[i] \in Frame
    BY LenProperties, ElementOfSeq
  <2> QED BY <2>1, <2>2, OverlayFinal DEF Frame
<1> QED BY <1>1, <1>2

LEMMA OverlayConcat ==
    ASSUME NEW S, NEW f \in Seq(S), NEW g \in Seq(S), NEW k, NEW b
    PROVE  /\ Silent(f \o g, k) <=> Silent(f, k) /\ Silent(g, k)
           /\ Overlay(b, f \o g, k) = IF Silent(g, k) THEN Overlay(b, f, k) ELSE Overlay(b, g, k)
<1>1. /\ f \o g \in Seq(S) /\ Len(f \o g) = Len(f) + Len(g)
      /\ \A i \in 1..(Len(f) + Len(g)) : (f \o g)[i] = IF i <= Len(f) THEN f[i] ELSE g[i - Len(f)]
  BY ConcatProperties
<1>2. /\ Len(f) \in Nat /\ Len(g) \in Nat /\ DOMAIN f = 1..Len(f) /\ DOMAIN g = 1..Len(g)
      /\ DOMAIN (f \o g) = 1..(Len(f) + Len(g))
  BY <1>1, LenProperties
<1> DEFINE h == f \o g
<1>3. \A i \in DOMAIN f : i \in DOMAIN h /\ h[i] = f[i]
  BY <1>1, <1>2
<1>4. \A i \in DOMAIN g : Len(f) + i \in DOMAIN h /\ h[Len(f) + i] = g[i]
  <2> SUFFICES ASSUME NEW i \in DOMAIN g PROVE Len(f) + i \in DOMAIN h /\ h[Len(f) + i] = g[i]
    OBVIOUS
  <2>1. Len(f) + i \in 1..(Len(f) + Len(g)) /\ ~(Len(f) + i <= Len(f)) /\ (Len(f) + i) - Len(f) = i
    BY <1>2
  <2> QED BY <1>1, <1>2, <2>1
<1>5. \A j \in DOMAIN h : j \in DOMAIN f \/ \E i \in DOMAIN g : j = Len(f) + i
  <2> SUFFICES ASSUME NEW j \in DOMAIN h, j \notin DOMAIN f PROVE \E i \in DOMAIN g : j = Len(f) + i
    OBVIOUS
  <2>1. j - Len(f) \in DOMAIN g /\ j = Len(f) + (j - Len(f))
    BY <1>2
  <2> QED BY <2>1
<1>h. h \in Seq(S) /\ \A i \in DOMAIN f, j \in DOMAIN g : i < Len(f) + j
  BY <1>1, <1>2
<1> HIDE DEF h
<1>6. Silent(h, k) <=> Silent(f, k) /\ Silent(g, k)
  BY <1>3, <1>4, <1>5 DEF Silent
<1>7. Overlay(b, h, k) = IF Silent(g, k) THEN Overlay(b, f, k) ELSE Overlay(b, g, k)
  <2>1. CASE ~Silent(g, k)
    <3>1. PICK i \in DOMAIN g : Final(g, k, i)
      BY <2>1, FinalExists
    <3>2. Final(h, k, Len(f) + i)
      <4>1. Len(f) + i \in DOMAIN h /\ h[Len(f) + i].key = k
        BY <1>4, <3>1 DEF Final
      <4>2. ASSUME NEW j \in DOMAIN h, h[j].key = k PROVE j <= Len(f) + i
        <5>1. CASE j \in DOMAIN f
          BY <1>2, <1>h, <5>1
        <5>2. ASSUME NEW l \in DOMAIN g, j = Len(f) + l PROVE j <= Len(f) + i
          <6>1. l <= i
            BY <1>4, <3>1, <4>2, <5>2 DEF Final
          <6> QED BY <1>2, <5>2, <6>1
        <5> QED BY <1>5, <5>1, <5>2
      <4> QED BY <4>1, <4>2 DEF Final
    <3>3. Overlay(b, h, k) = h[Len(f) + i].val
      BY <1>h, <3>2, OverlayFinal
    <3>4. Overlay(b, g, k) = g[i].val
      BY <3>1, OverlayFinal
    <3> QED BY <1>4, <2>1, <3>3, <3>4
  <2>2. CASE Silent(g, k) /\ ~Silent(f, k)
    <3>1. PICK i \in DOMAIN f : Final(f, k, i)
      BY <2>2, FinalExists
    <3>2. Final(h, k, i)
      BY <1>3, <1>4, <1>5, <2>2, <3>1 DEF Final, Silent
    <3>3. Overlay(b, h, k) = h[i].val /\ Overlay(b, f, k) = f[i].val
      BY <1>h, <3>1, <3>2, OverlayFinal
    <3> QED BY <1>3, <2>2, <3>3
  <2>3. CASE Silent(g, k) /\ Silent(f, k)
    BY <1>6, <2>3, OverlaySilent
  <2> QED BY <2>1, <2>2, <2>3
<1> QED BY <1>6, <1>7 DEF h

\* Frames applied to what earlier frames have made.
LEMMA OverlayStacked ==
    ASSUME NEW S, NEW f \in Seq(S), NEW g \in Seq(S), NEW k, NEW b, NEW c,
           c[k] = Overlay(b, f, k)
    PROVE  Overlay(c, g, k) = Overlay(b, f \o g, k)
<1>1. CASE Silent(g, k)
  BY <1>1, OverlayConcat, OverlaySilent
<1>2. CASE ~Silent(g, k)
  BY <1>2, OverlayConcat, OverlaySame
<1> QED BY <1>1, <1>2

\* Frames that end with a value end with it when the first ones are dropped,
\* and lead to it or leave what was there.
LEMMA OverlaySuffix ==
    ASSUME NEW S, NEW f \in Seq(S), NEW g \in Seq(S), NEW k, NEW t,
           Overlay(t, f \o g, k) = t[k]
    PROVE  Overlay(t, g, k) = t[k]
<1>1. CASE Silent(g, k)
  BY <1>1, OverlaySilent
<1>2. CASE ~Silent(g, k)
  BY <1>2, OverlayConcat
<1> QED BY <1>1, <1>2

LEMMA OverlayTold ==
    ASSUME NEW S, NEW f \in Seq(S), NEW k, NEW t, Overlay(t, f, k) = t[k], NEW b
    PROVE  /\ Overlay(b, f, k) \in {b[k], t[k]}
           /\ b[k] = t[k] => Overlay(b, f, k) = t[k]
<1>1. CASE Silent(f, k)
  BY <1>1, OverlaySilent
<1>2. CASE ~Silent(f, k)
  BY <1>2, OverlaySame
<1> QED BY <1>1, <1>2

LEMMA OverlayOne ==
    ASSUME NEW e, NEW k, NEW b
    PROVE  /\ Silent(<<e>>, k) <=> e.key # k
           /\ Overlay(b, <<e>>, k) = IF e.key = k THEN e.val ELSE b[k]
<1> DEFINE one == <<e>>
<1>1. one \in Seq({e}) /\ DOMAIN one = {1} /\ one[1] = e
  OBVIOUS
<1> HIDE DEF one
<1>2. Silent(one, k) <=> e.key # k
  BY <1>1 DEF Silent
<1>3. Overlay(b, one, k) = IF e.key = k THEN e.val ELSE b[k]
  <2>1. CASE e.key = k
    <3>1. Final(one, k, 1)
      BY <1>1, <2>1 DEF Final
    <3> QED BY <1>1, <2>1, <3>1, OverlayFinal
  <2>2. CASE e.key # k
    BY <1>2, <2>2, OverlaySilent
  <2> QED BY <2>1, <2>2
<1> QED BY <1>2, <1>3 DEF one

LEMMA OverlayAppend ==
    ASSUME NEW S, NEW f \in Seq(S), NEW e \in S, NEW k, NEW b
    PROVE  Overlay(b, Append(f, e), k) = IF e.key = k THEN e.val ELSE Overlay(b, f, k)
<1> DEFINE one == <<e>>
<1>1. one \in Seq(S) /\ Append(f, e) = f \o one
  BY AppendIsConcat
<1>2. /\ Silent(one, k) <=> e.key # k
      /\ Overlay(b, one, k) = IF e.key = k THEN e.val ELSE b[k]
  BY OverlayOne
<1> HIDE DEF one
<1>3. Overlay(b, f \o one, k) = IF Silent(one, k) THEN Overlay(b, f, k) ELSE Overlay(b, one, k)
  BY <1>1, OverlayConcat
<1> QED BY <1>1, <1>2, <1>3

\* A sequence is its head and its tail.
LEMMA HeadAndTail ==
    ASSUME NEW S, NEW q \in Seq(S), q # <<>>
    PROVE  <<Head(q)>> \in Seq(S) /\ Tail(q) \in Seq(S) /\ q = <<Head(q)>> \o Tail(q)
<1>1. Head(q) \in S /\ Tail(q) \in Seq(S)
  BY HeadTailProperties
<1>2. Len(q) \in Nat \ {0} /\ Head(q) = q[1] /\ Tail(q) = SubSeq(q, 2, Len(q)) /\ SubSeq(q, 1, Len(q)) = q
  BY EmptySeq, TailIsSubSeq, SubSeqFull
<1>3. SubSeq(q, 1, Len(q)) = <<q[1]>> \o SubSeq(q, 2, Len(q))
  BY <1>2, SubSeqRecursiveFirst
<1> QED BY <1>1, <1>2, <1>3

----------------------------------------------------------------------------
(* Types.                                                                  *)

USE KeysAssumption, LimitsAssumption
USE DEF readerVars, storeVars, slotVars, reloadVars, mqttVars, bounds

\* Frames applied to a configuration make a configuration, in which they tell
\* of every datapoint, and of nothing else.
LEMMA AppliedFacts ==
    ASSUME NEW values \in Config, NEW frames \in Seq(Frame)
    PROVE  /\ Applied(values, frames) \in Config
           /\ \A p \in Points : Applied(values, frames)[p] = Overlay(values, frames, p)
           /\ Applied(values, frames)[Topology] = values[Topology]
<1>1. \A k \in Keys : Applied(values, frames)[k] =
                         IF k = Topology THEN values[k] ELSE Overlay(values, frames, k)
  BY DEF Applied, Overlay
<1>2. \A k \in Keys : values[k] \in Values /\ Overlay(values, frames, k) \in Values
  BY OverlayType DEF Config
<1>3. Applied(values, frames) = [k \in Keys |-> Applied(values, frames)[k]]
  BY DEF Applied
<1>4. Applied(values, frames) \in Config
  BY <1>1, <1>2, <1>3 DEF Config
<1>5. Points \subseteq Keys /\ Topology \in Keys /\ Topology \notin Points
  BY DEF Keys
<1> QED BY <1>1, <1>4, <1>5

Flags ==
    /\ connected \in BOOLEAN /\ buffering \in BOOLEAN /\ rebuilt \in BOOLEAN
    /\ coldDone \in BOOLEAN /\ broker \in BOOLEAN
    /\ timer \in BOOLEAN /\ reloadAgain \in BOOLEAN /\ again \in BOOLEAN

Queues == wire \in Seq(Frame) /\ buffer \in Seq(Frame) /\ Len(buffer) <= BufferLimit

Contents ==
    /\ truth \in Config /\ store \in Config /\ lastConfig \in Config
    /\ dirty \in SUBSET Points
    /\ published \in [Points -> Values]
    /\ orphan \in SUBSET Frame

Places ==
    /\ pc \in [Slots -> {"idle", "spawned", "fetching", "fetched", "publishing", "flushing"}]
    /\ snap \in [Slots -> Config \cup {Gone}]

Counts ==
    /\ changes \in 0..MaxChanges /\ losses \in 0..MaxLosses
    /\ outages \in 0..MaxOutages /\ requests \in 0..MaxRequests

Entered == windows \in SUBSET Windows

LEMMA Parts ==
    TypeOK <=> Flags /\ Queues /\ Contents /\ Places /\ Counts /\ Entered
  BY DEF TypeOK, Flags, Queues, Contents, Places, Counts, Entered

LEMMA NextCount ==
    ASSUME NEW n, NEW m \in Nat, n \in 0..m, n < m
    PROVE  n + 1 \in 0..m
  OBVIOUS

LEMMA StepFlags == TypeOK /\ [Next]_vars => Flags'
<1> SUFFICES ASSUME TypeOK, [Next]_vars PROVE Flags'
  OBVIOUS
<1> USE DEF TypeOK, Flags
<1>1. ASSUME NEW k \in Keys, Change(k) PROVE Flags'
  BY <1>1 DEF Change
<1>2. CASE Lose
  BY <1>2 DEF Lose, Disconnect
<1>3. CASE RequestReload
  BY <1>3 DEF RequestReload, Request
<1>4. CASE Reconnect
  BY <1>4 DEF Reconnect, StartBuffering
<1>5. CASE BufferFrame
  BY <1>5 DEF BufferFrame
<1>6. CASE Overflow
  BY <1>6 DEF Overflow, Disconnect
<1>7. CASE LiveFrame
  BY <1>7 DEF LiveFrame, Request
<1>8. CASE BeginReconnect
  BY <1>8 DEF BeginReconnect, StartBuffering, EnterWindows
<1>9. CASE BeginReload
  BY <1>9 DEF BeginReload, StartBuffering, EnterWindows
<1>10. CASE BeginRefresh
  BY <1>10 DEF BeginRefresh
<1>11. CASE LoadStartup
  BY <1>11 DEF LoadStartup, Drain
<1>12. CASE SkipRefresh
  BY <1>12 DEF SkipRefresh, Ends
<1>13. ASSUME NEW s \in Slots, Snapshot(s) PROVE Flags'
  BY <1>13 DEF Snapshot
<1>14. ASSUME NEW s \in Slots, Rebuild(s) PROVE Flags'
  BY <1>14 DEF Rebuild, Drain
<1>15. ASSUME NEW s \in Slots, DrainPublished(s) PROVE Flags'
  BY <1>15 DEF DrainPublished, Drain
<1>16. ASSUME NEW s \in Slots, Finish(s) PROVE Flags'
  BY <1>16 DEF Finish, Flush, Ends, Request
<1>17. ASSUME NEW s \in Slots, Fail(s) PROVE Flags'
  BY <1>17 DEF Fail, Ends
<1>18. ASSUME NEW s \in Slots, FetchFails(s) PROVE Flags'
  BY <1>18 DEF FetchFails, Ends
<1>19. CASE LivePublish
  BY <1>19 DEF LivePublish, Flush
<1>20. CASE PublishOld
  BY <1>20 DEF PublishOld
<1>21. CASE AbandonOld
  BY <1>21 DEF AbandonOld
<1>22. CASE LoseBroker
  BY <1>22 DEF LoseBroker
<1>23. CASE RegainBroker
  BY <1>23 DEF RegainBroker, Flush
<1>24. CASE UNCHANGED vars
  BY <1>24 DEF vars
<1> QED
  BY <1>1, <1>2, <1>3, <1>4, <1>5, <1>6, <1>7, <1>8, <1>9, <1>10, <1>11, <1>12,
         <1>13, <1>14, <1>15, <1>16, <1>17, <1>18, <1>19, <1>20, <1>21, <1>22, <1>23,
         <1>24
  DEF Next, Reader, Step

\* What a frame that arrives is, and what is left of the queue.
LEMMA Arrival ==
    ASSUME TypeOK, wire # <<>>
    PROVE  /\ Head(wire) \in Frame /\ Tail(wire) \in Seq(Frame)
           /\ <<Head(wire)>> \in Seq(Frame) /\ wire = <<Head(wire)>> \o Tail(wire)
  BY HeadTailProperties, HeadAndTail DEF TypeOK

LEMMA NoFrames == <<>> \in Seq(Frame) /\ Len(<<>>) <= BufferLimit
  BY EmptySeq

LEMMA StepQueues == TypeOK /\ [Next]_vars => Queues'
<1> SUFFICES ASSUME TypeOK, [Next]_vars PROVE Queues'
  OBVIOUS
<1> USE DEF TypeOK, Queues
<1>1. ASSUME NEW k \in Keys, Change(k) PROVE Queues'
  <2>1. PICK v \in Values : wire' = IF connected THEN Append(wire, [key |-> k, val |-> v]) ELSE wire
    BY <1>1 DEF Change
  <2>2. [key |-> k, val |-> v] \in Frame
    BY DEF Frame
  <2>3. Append(wire, [key |-> k, val |-> v]) \in Seq(Frame)
    BY <2>2, AppendProperties
  <2> QED BY <1>1, <2>1, <2>3 DEF Change
<1>2. CASE Lose
  BY <1>2, NoFrames DEF Lose, Disconnect
<1>3. CASE RequestReload
  BY <1>3 DEF RequestReload, Request
<1>4. CASE Reconnect
  <2>1. buffer' = <<>> /\ wire' = wire
    BY <1>4 DEF Reconnect, StartBuffering
  <2> QED BY <2>1, NoFrames
<1>5. CASE BufferFrame
  <2>1. Head(wire) \in Frame /\ Tail(wire) \in Seq(Frame)
    BY <1>5, Arrival DEF BufferFrame
  <2>2. Append(buffer, Head(wire)) \in Seq(Frame) /\ Len(Append(buffer, Head(wire))) = Len(buffer) + 1
    BY <2>1, AppendProperties
  <2>3. Len(buffer) \in Nat /\ BufferLimit \in Nat
    BY LenProperties
  <2> QED BY <1>5, <2>1, <2>2, <2>3 DEF BufferFrame
<1>6. CASE Overflow
  BY <1>6, NoFrames DEF Overflow, Disconnect
<1>7. CASE LiveFrame
  BY <1>7, Arrival DEF LiveFrame
<1>8. CASE BeginReconnect
  BY <1>8, NoFrames DEF BeginReconnect, StartBuffering, EnterWindows
<1>9. CASE BeginReload
  BY <1>9, NoFrames DEF BeginReload, StartBuffering, EnterWindows
<1>10. CASE BeginRefresh
  BY <1>10 DEF BeginRefresh
<1>11. CASE LoadStartup
  <2>1. buffer' = <<>> /\ wire' = wire
    BY <1>11 DEF LoadStartup, Drain
  <2> QED BY <2>1, NoFrames
<1>12. CASE SkipRefresh
  BY <1>12 DEF SkipRefresh, Ends
<1>13. ASSUME NEW s \in Slots, Snapshot(s) PROVE Queues'
  BY <1>13 DEF Snapshot
<1>14. ASSUME NEW s \in Slots, Rebuild(s) PROVE Queues'
  <2>1. buffer' \in {<<>>, buffer} /\ wire' = wire
    BY <1>14 DEF Rebuild, Drain
  <2> QED BY <2>1, NoFrames
<1>15. ASSUME NEW s \in Slots, DrainPublished(s) PROVE Queues'
  <2>1. buffer' = <<>> /\ wire' = wire
    BY <1>15 DEF DrainPublished, Drain
  <2> QED BY <2>1, NoFrames
<1>16. ASSUME NEW s \in Slots, Finish(s) PROVE Queues'
  BY <1>16 DEF Finish, Flush, Ends, Request
<1>17. ASSUME NEW s \in Slots, Fail(s) PROVE Queues'
  BY <1>17 DEF Fail, Ends
<1>18. ASSUME NEW s \in Slots, FetchFails(s) PROVE Queues'
  BY <1>18 DEF FetchFails, Ends
<1>19. CASE LivePublish
  BY <1>19 DEF LivePublish, Flush
<1>20. CASE PublishOld
  BY <1>20 DEF PublishOld
<1>21. CASE AbandonOld
  BY <1>21 DEF AbandonOld
<1>22. CASE LoseBroker
  BY <1>22 DEF LoseBroker
<1>23. CASE RegainBroker
  BY <1>23 DEF RegainBroker, Flush
<1>24. CASE UNCHANGED vars
  BY <1>24 DEF vars
<1> QED
  BY <1>1, <1>2, <1>3, <1>4, <1>5, <1>6, <1>7, <1>8, <1>9, <1>10, <1>11, <1>12,
         <1>13, <1>14, <1>15, <1>16, <1>17, <1>18, <1>19, <1>20, <1>21, <1>22, <1>23,
         <1>24
  DEF Next, Reader, Step

LEMMA StepContents == TypeOK /\ Fetched /\ [Next]_vars => Contents'
<1> SUFFICES ASSUME TypeOK, Fetched, [Next]_vars PROVE Contents'
  OBVIOUS
<1> USE DEF TypeOK, Contents
<1>1. ASSUME NEW k \in Keys, Change(k) PROVE Contents'
  BY <1>1 DEF Change, Config
<1>2. CASE Lose
  BY <1>2 DEF Lose, Disconnect
<1>3. CASE RequestReload
  BY <1>3 DEF RequestReload, Request
<1>4. CASE Reconnect
  BY <1>4 DEF Reconnect, StartBuffering
<1>5. CASE BufferFrame
  BY <1>5 DEF BufferFrame
<1>6. CASE Overflow
  BY <1>6 DEF Overflow, Disconnect
<1>7. CASE LiveFrame
  <2>1. Applied(store, <<Head(wire)>>) \in Config
    BY <1>7, Arrival, AppliedFacts DEF LiveFrame
  <2> QED BY <1>7, <2>1 DEF LiveFrame, Dirtied
<1>8. CASE BeginReconnect
  BY <1>8 DEF BeginReconnect, StartBuffering, EnterWindows
<1>9. CASE BeginReload
  BY <1>9 DEF BeginReload, StartBuffering, EnterWindows
<1>10. CASE BeginRefresh
  BY <1>10 DEF BeginRefresh
<1>11. CASE LoadStartup
  <2>1. snap["startup"] \in Config
    BY <1>11 DEF LoadStartup, Fetched, Slots
  <2>2. Applied(snap["startup"], buffer) \in Config
    BY <2>1, AppliedFacts
  <2> QED BY <1>11, <2>1, <2>2 DEF LoadStartup, Drain, Dirtied
<1>12. CASE SkipRefresh
  BY <1>12 DEF SkipRefresh, Ends
<1>13. ASSUME NEW s \in Slots, Snapshot(s) PROVE Contents'
  BY <1>13 DEF Snapshot
<1>14. ASSUME NEW s \in Slots, Rebuild(s) PROVE Contents'
  <2>1. snap[s] \in Config
    BY <1>14 DEF Rebuild, Fetched
  <2>2. Applied(snap[s], buffer) \in Config /\ Applied(snap[s], <<>>) \in Config
    BY <2>1, NoFrames, AppliedFacts
  <2>3. orphan' \in SUBSET Frame
    <3>1. \A p \in Points : [key |-> p, val |-> store[p]] \in Frame
      BY DEF Frame, Config, Keys
    <3>2. orphan' = orphan \/ orphan' = {[key |-> p, val |-> store[p]] : p \in dirty}
      BY <1>14 DEF Rebuild
    <3> QED BY <3>1, <3>2
  <2>4. lastConfig' \in Config /\ truth' = truth /\ published' = published
    BY <1>14, <2>1 DEF Rebuild
  <2>5. store' \in Config /\ dirty' \in SUBSET Points
    BY <1>14, <2>1, <2>2 DEF Rebuild, Drain, Dirtied, Differing
  <2> QED BY <2>3, <2>4, <2>5
<1>15. ASSUME NEW s \in Slots, DrainPublished(s) PROVE Contents'
  <2>1. Applied(store, buffer) \in Config
    BY AppliedFacts
  <2> QED BY <1>15, <2>1 DEF DrainPublished, Drain, Dirtied
<1>16. ASSUME NEW s \in Slots, Finish(s) PROVE Contents'
  BY <1>16 DEF Finish, Flush, Ends, Request, Config, Keys
<1>17. ASSUME NEW s \in Slots, Fail(s) PROVE Contents'
  BY <1>17 DEF Fail, Ends
<1>18. ASSUME NEW s \in Slots, FetchFails(s) PROVE Contents'
  BY <1>18 DEF FetchFails, Ends
<1>19. CASE LivePublish
  BY <1>19 DEF LivePublish, Flush, Config, Keys
<1>20. CASE PublishOld
  <2>1. \A p \in Points : (\E f \in orphan : f.key = p) =>
                          (CHOOSE f \in orphan : f.key = p).val \in Values
    BY DEF Frame
  <2> QED BY <1>20, <2>1 DEF PublishOld
<1>21. CASE AbandonOld
  BY <1>21 DEF AbandonOld
<1>22. CASE LoseBroker
  BY <1>22 DEF LoseBroker
<1>23. CASE RegainBroker
  BY <1>23 DEF RegainBroker, Flush, Config, Keys
<1>24. CASE UNCHANGED vars
  BY <1>24 DEF vars
<1> QED
  BY <1>1, <1>2, <1>3, <1>4, <1>5, <1>6, <1>7, <1>8, <1>9, <1>10, <1>11, <1>12,
         <1>13, <1>14, <1>15, <1>16, <1>17, <1>18, <1>19, <1>20, <1>21, <1>22, <1>23,
         <1>24
  DEF Next, Reader, Step

LEMMA StepPlaces == TypeOK /\ [Next]_vars => Places'
<1> SUFFICES ASSUME TypeOK, [Next]_vars PROVE Places'
  OBVIOUS
<1> USE DEF TypeOK, Places
<1>1. ASSUME NEW k \in Keys, Change(k) PROVE Places'
  BY <1>1 DEF Change
<1>2. CASE Lose
  BY <1>2 DEF Lose, Disconnect
<1>3. CASE RequestReload
  BY <1>3 DEF RequestReload, Request
<1>4. CASE Reconnect
  BY <1>4 DEF Reconnect, StartBuffering
<1>5. CASE BufferFrame
  BY <1>5 DEF BufferFrame
<1>6. CASE Overflow
  BY <1>6 DEF Overflow, Disconnect
<1>7. CASE LiveFrame
  BY <1>7 DEF LiveFrame
<1>8. CASE BeginReconnect
  BY <1>8 DEF BeginReconnect, StartBuffering, EnterWindows
<1>9. CASE BeginReload
  BY <1>9 DEF BeginReload, StartBuffering, EnterWindows
<1>10. CASE BeginRefresh
  BY <1>10 DEF BeginRefresh
<1>11. CASE LoadStartup
  BY <1>11 DEF LoadStartup, Slots
<1>12. CASE SkipRefresh
  BY <1>12 DEF SkipRefresh, Ends, Slots
<1>13. ASSUME NEW s \in Slots, Snapshot(s) PROVE Places'
  BY <1>13 DEF Snapshot
<1>14. ASSUME NEW s \in Slots, Rebuild(s) PROVE Places'
  BY <1>14 DEF Rebuild
<1>15. ASSUME NEW s \in Slots, DrainPublished(s) PROVE Places'
  BY <1>15 DEF DrainPublished
<1>16. ASSUME NEW s \in Slots, Finish(s) PROVE Places'
  BY <1>16 DEF Finish, Flush, Ends, Request, Slots
<1>17. ASSUME NEW s \in Slots, Fail(s) PROVE Places'
  BY <1>17 DEF Fail, Ends, Slots
<1>18. ASSUME NEW s \in Slots, FetchFails(s) PROVE Places'
  BY <1>18 DEF FetchFails, Ends, Slots
<1>19. CASE LivePublish
  BY <1>19 DEF LivePublish
<1>20. CASE PublishOld
  BY <1>20 DEF PublishOld
<1>21. CASE AbandonOld
  BY <1>21 DEF AbandonOld
<1>22. CASE LoseBroker
  BY <1>22 DEF LoseBroker
<1>23. CASE RegainBroker
  BY <1>23 DEF RegainBroker, Flush
<1>24. CASE UNCHANGED vars
  BY <1>24 DEF vars
<1> QED
  BY <1>1, <1>2, <1>3, <1>4, <1>5, <1>6, <1>7, <1>8, <1>9, <1>10, <1>11, <1>12,
         <1>13, <1>14, <1>15, <1>16, <1>17, <1>18, <1>19, <1>20, <1>21, <1>22, <1>23,
         <1>24
  DEF Next, Reader, Step

LEMMA StepCounts == TypeOK /\ [Next]_vars => Counts'
<1> SUFFICES ASSUME TypeOK, [Next]_vars PROVE Counts'
  OBVIOUS
<1> USE DEF TypeOK, Counts
<1>1. ASSUME NEW k \in Keys, Change(k) PROVE Counts'
  BY <1>1, NextCount DEF Change
<1>2. CASE Lose
  BY <1>2, NextCount DEF Lose, Disconnect
<1>3. CASE RequestReload
  BY <1>3, NextCount DEF RequestReload, Request
<1>4. CASE Reconnect
  BY <1>4 DEF Reconnect, StartBuffering
<1>5. CASE BufferFrame
  BY <1>5 DEF BufferFrame
<1>6. CASE Overflow
  BY <1>6 DEF Overflow, Disconnect
<1>7. CASE LiveFrame
  BY <1>7 DEF LiveFrame, Request
<1>8. CASE BeginReconnect
  BY <1>8 DEF BeginReconnect, StartBuffering, EnterWindows
<1>9. CASE BeginReload
  BY <1>9 DEF BeginReload, StartBuffering, EnterWindows
<1>10. CASE BeginRefresh
  BY <1>10 DEF BeginRefresh
<1>11. CASE LoadStartup
  BY <1>11 DEF LoadStartup, Drain
<1>12. CASE SkipRefresh
  BY <1>12 DEF SkipRefresh, Ends
<1>13. ASSUME NEW s \in Slots, Snapshot(s) PROVE Counts'
  BY <1>13 DEF Snapshot
<1>14. ASSUME NEW s \in Slots, Rebuild(s) PROVE Counts'
  BY <1>14 DEF Rebuild, Drain
<1>15. ASSUME NEW s \in Slots, DrainPublished(s) PROVE Counts'
  BY <1>15 DEF DrainPublished, Drain
<1>16. ASSUME NEW s \in Slots, Finish(s) PROVE Counts'
  BY <1>16 DEF Finish, Flush, Ends, Request
<1>17. ASSUME NEW s \in Slots, Fail(s) PROVE Counts'
  BY <1>17 DEF Fail, Ends
<1>18. ASSUME NEW s \in Slots, FetchFails(s) PROVE Counts'
  BY <1>18, NextCount DEF FetchFails, Ends
<1>19. CASE LivePublish
  BY <1>19 DEF LivePublish, Flush
<1>20. CASE PublishOld
  BY <1>20 DEF PublishOld
<1>21. CASE AbandonOld
  BY <1>21 DEF AbandonOld
<1>22. CASE LoseBroker
  BY <1>22, NextCount DEF LoseBroker
<1>23. CASE RegainBroker
  BY <1>23 DEF RegainBroker, Flush
<1>24. CASE UNCHANGED vars
  BY <1>24 DEF vars
<1> QED
  BY <1>1, <1>2, <1>3, <1>4, <1>5, <1>6, <1>7, <1>8, <1>9, <1>10, <1>11, <1>12,
         <1>13, <1>14, <1>15, <1>16, <1>17, <1>18, <1>19, <1>20, <1>21, <1>22, <1>23,
         <1>24
  DEF Next, Reader, Step

LEMMA StepWindows == TypeOK /\ [Next]_vars => Entered'
<1> SUFFICES ASSUME TypeOK, [Next]_vars PROVE Entered'
  OBVIOUS
<1> USE DEF TypeOK, Entered, Windows
<1>1. ASSUME NEW k \in Keys, Change(k) PROVE Entered'
  BY <1>1 DEF Change
<1>2. CASE Lose
  BY <1>2 DEF Lose, Disconnect
<1>3. CASE RequestReload
  BY <1>3 DEF RequestReload, Request
<1>4. CASE Reconnect
  BY <1>4 DEF Reconnect, StartBuffering
<1>5. CASE BufferFrame
  BY <1>5 DEF BufferFrame
<1>6. CASE Overflow
  BY <1>6 DEF Overflow, Disconnect
<1>7. CASE LiveFrame
  BY <1>7 DEF LiveFrame, Request
<1>8. CASE BeginReconnect
  BY <1>8 DEF BeginReconnect, StartBuffering, EnterWindows
<1>9. CASE BeginReload
  BY <1>9 DEF BeginReload, StartBuffering, EnterWindows
<1>10. CASE BeginRefresh
  BY <1>10 DEF BeginRefresh
<1>11. CASE LoadStartup
  BY <1>11 DEF LoadStartup, Drain
<1>12. CASE SkipRefresh
  BY <1>12 DEF SkipRefresh, Ends
<1>13. ASSUME NEW s \in Slots, Snapshot(s) PROVE Entered'
  BY <1>13 DEF Snapshot
<1>14. ASSUME NEW s \in Slots, Rebuild(s) PROVE Entered'
  BY <1>14 DEF Rebuild, Drain
<1>15. ASSUME NEW s \in Slots, DrainPublished(s) PROVE Entered'
  BY <1>15 DEF DrainPublished, Drain
<1>16. ASSUME NEW s \in Slots, Finish(s) PROVE Entered'
  BY <1>16 DEF Finish, Flush, Ends, Request
<1>17. ASSUME NEW s \in Slots, Fail(s) PROVE Entered'
  BY <1>17 DEF Fail, Ends
<1>18. ASSUME NEW s \in Slots, FetchFails(s) PROVE Entered'
  BY <1>18 DEF FetchFails, Ends
<1>19. CASE LivePublish
  BY <1>19 DEF LivePublish, Flush
<1>20. CASE PublishOld
  BY <1>20 DEF PublishOld
<1>21. CASE AbandonOld
  BY <1>21 DEF AbandonOld
<1>22. CASE LoseBroker
  BY <1>22 DEF LoseBroker
<1>23. CASE RegainBroker
  BY <1>23 DEF RegainBroker, Flush
<1>24. CASE UNCHANGED vars
  BY <1>24 DEF vars
<1> QED
  BY <1>1, <1>2, <1>3, <1>4, <1>5, <1>6, <1>7, <1>8, <1>9, <1>10, <1>11, <1>12,
         <1>13, <1>14, <1>15, <1>16, <1>17, <1>18, <1>19, <1>20, <1>21, <1>22, <1>23,
         <1>24
  DEF Next, Reader, Step

LEMMA StepFetched == TypeOK /\ Fetched /\ [Next]_vars => Fetched'
<1> SUFFICES ASSUME TypeOK, Fetched, [Next]_vars PROVE Fetched'
  OBVIOUS
<1> USE DEF TypeOK, Fetched
<1>1. ASSUME NEW k \in Keys, Change(k) PROVE Fetched'
  BY <1>1 DEF Change
<1>2. CASE Lose
  BY <1>2 DEF Lose, Disconnect
<1>3. CASE RequestReload
  BY <1>3 DEF RequestReload, Request
<1>4. CASE Reconnect
  BY <1>4 DEF Reconnect, StartBuffering
<1>5. CASE BufferFrame
  BY <1>5 DEF BufferFrame
<1>6. CASE Overflow
  BY <1>6 DEF Overflow, Disconnect
<1>7. CASE LiveFrame
  BY <1>7 DEF LiveFrame
<1>8. CASE BeginReconnect
  BY <1>8 DEF BeginReconnect, StartBuffering, EnterWindows
<1>9. CASE BeginReload
  BY <1>9 DEF BeginReload, StartBuffering, EnterWindows
<1>10. CASE BeginRefresh
  BY <1>10 DEF BeginRefresh
<1>11. CASE LoadStartup
  <2>1. snap' = snap /\ pc' = [pc EXCEPT !["startup"] = "flushing"]
    BY <1>11 DEF LoadStartup
  <2> QED BY <2>1
<1>12. CASE SkipRefresh
  BY <1>12 DEF SkipRefresh, Ends
<1>13. ASSUME NEW s \in Slots, Snapshot(s) PROVE Fetched'
  <2>1. truth \in Config /\ snap' = [snap EXCEPT ![s] = truth] /\ pc' = [pc EXCEPT ![s] = "fetched"]
    BY <1>13 DEF Snapshot
  <2> QED BY <2>1
<1>14. ASSUME NEW s \in Slots, Rebuild(s) PROVE Fetched'
  <2>1. snap' = snap /\ (pc' = [pc EXCEPT ![s] = "flushing"] \/ pc' = [pc EXCEPT ![s] = "publishing"])
    BY <1>14 DEF Rebuild
  <2> QED BY <2>1
<1>15. ASSUME NEW s \in Slots, DrainPublished(s) PROVE Fetched'
  <2>1. snap' = snap /\ pc' = [pc EXCEPT ![s] = "flushing"]
    BY <1>15 DEF DrainPublished
  <2> QED BY <2>1
<1>16. ASSUME NEW s \in Slots, Finish(s) PROVE Fetched'
  <2>1. Ends(s)
    BY <1>16 DEF Finish
  <2> QED BY <2>1 DEF Ends
<1>17. ASSUME NEW s \in Slots, Fail(s) PROVE Fetched'
  BY <1>17 DEF Fail, Ends
<1>18. ASSUME NEW s \in Slots, FetchFails(s) PROVE Fetched'
  BY <1>18 DEF FetchFails, Ends
<1>19. CASE LivePublish
  BY <1>19 DEF LivePublish
<1>20. CASE PublishOld
  BY <1>20 DEF PublishOld
<1>21. CASE AbandonOld
  BY <1>21 DEF AbandonOld
<1>22. CASE LoseBroker
  BY <1>22 DEF LoseBroker
<1>23. CASE RegainBroker
  BY <1>23 DEF RegainBroker, Flush
<1>24. CASE UNCHANGED vars
  BY <1>24 DEF vars
<1> QED
  BY <1>1, <1>2, <1>3, <1>4, <1>5, <1>6, <1>7, <1>8, <1>9, <1>10, <1>11, <1>12,
         <1>13, <1>14, <1>15, <1>16, <1>17, <1>18, <1>19, <1>20, <1>21, <1>22, <1>23,
         <1>24
  DEF Next, Reader, Step

LEMMA InitTypes == Init => TypeOK /\ Fetched
<1> SUFFICES ASSUME Init PROVE TypeOK /\ Fetched
  OBVIOUS
<1>1. truth \in Config /\ \A p \in Points : truth[p] \in Values
  BY DEF Init, Config, Keys
<1>2. Flags /\ Entered
  BY DEF Init, Flags, Entered
<1>3. Counts
  BY DEF Init, Counts
<1>4. Contents
  BY <1>1 DEF Init, Contents
<1>5. Places
  BY DEF Init, Places
<1>6. Queues
  BY NoFrames DEF Init, Queues
<1>7. Fetched
  BY DEF Init, Fetched
<1> QED BY <1>2, <1>3, <1>4, <1>5, <1>6, <1>7, Parts

LEMMA StepTypes == TypeOK /\ Fetched /\ [Next]_vars => TypeOK' /\ Fetched'
<1>1. Flags' /\ Queues' /\ Contents' /\ Places' /\ Counts' /\ Entered' => TypeOK'
  BY DEF TypeOK, Flags, Queues, Contents, Places, Counts, Entered
<1> QED
  BY <1>1, StepFlags, StepQueues, StepContents, StepPlaces, StepCounts, StepWindows, StepFetched

LEMMA Typed == Spec => [](TypeOK /\ Fetched)
  BY InitTypes, StepTypes, PTL DEF Spec

\* Every variable has its type, whatever the coroutines interleave: the buffer
\* never holds more frames than its limit, and a coroutine that goes on after
\* its fetch has a configuration to go on with.
THEOREM TypeCorrect == Spec => []TypeOK
  BY Typed, PTL

----------------------------------------------------------------------------
(* No debt is forgotten.                                                   *)

\* A datapoint that no frame makes dirty keeps its value.
LEMMA UndirtiedStays ==
    ASSUME NEW values \in Config, NEW f \in Seq(Frame), NEW p \in Points \ Dirtied(values, f)
    PROVE  Applied(values, f)[p] = values[p]
<1>1. Len(f) \in Nat /\ DOMAIN f = 1..Len(f)
  BY LenProperties
<1> DEFINE Odd == {i \in DOMAIN f : f[i].key = p /\ f[i].val # values[p]}
<1>2. Odd = {}
  <2> SUFFICES ASSUME Odd # {} PROVE FALSE
    OBVIOUS
  <2> DEFINE Mirror == {Len(f) - i : i \in Odd}
  <2>1. Mirror \in SUBSET Nat /\ Mirror # {} /\ \A m \in Mirror : m <= Len(f)
    BY <1>1
  <2>2. PICK m \in Mirror : \A l \in Mirror : l <= m
    <3> HIDE DEF Mirror
    <3> QED BY <1>1, <2>1, Greatest
  <2>3. PICK i \in Odd : m = Len(f) - i
    OBVIOUS
  <2>4. ASSUME NEW j \in Odd PROVE i <= j
    <3>1. Len(f) - j \in Mirror
      OBVIOUS
    <3>2. Len(f) - j <= Len(f) - i
      <4> HIDE DEF Mirror
      <4> QED BY <2>2, <2>3, <3>1
    <3>3. i \in Nat /\ j \in Nat
      BY <1>1
    <3> QED BY <1>1, <3>2, <3>3
  <2> DEFINE before == SubSeq(f, 1, i - 1)
  <2>5. /\ before \in Seq(Frame) /\ Len(before) = i - 1
        /\ \A j \in 1..(i - 1) : before[j] = f[j]
    <3>1. \A j \in 1..(i - 1) : f[j] \in Frame
      BY <1>1, ElementOfSeq
    <3> QED BY <1>1, <3>1, SubSeqProperties
  <2>6. DOMAIN before = 1..(i - 1)
    BY <2>5, LenProperties
  <2>7. f[i].val = Applied(values, before)[p]
    BY <1>1 DEF Dirtied
  <2>8. Applied(values, before)[p] = Overlay(values, before, p)
    BY <2>5, AppliedFacts
  <2> HIDE DEF before
  <2>9. Overlay(values, before, p) = values[p]
    <3>1. CASE Silent(before, p)
      BY <3>1, OverlaySilent
    <3>2. CASE ~Silent(before, p)
      <4>1. PICK j \in DOMAIN before : Final(before, p, j)
        BY <2>5, <3>2, FinalExists
      <4>2. j \in DOMAIN f /\ before[j] = f[j] /\ j < i
        BY <1>1, <2>5, <2>6
      <4>3. f[j].val = values[p]
        BY <1>1, <2>4, <4>1, <4>2 DEF Final
      <4> QED BY <2>5, <4>1, <4>2, <4>3, OverlayFinal
    <3> QED BY <3>1, <3>2
  <2>10. i \in Odd /\ f[i].val # values[p]
    OBVIOUS
  <2> QED
    BY <2>7, <2>8, <2>9, <2>10
<1>3. Applied(values, f)[p] = Overlay(values, f, p)
  BY AppliedFacts
<1>4. CASE Silent(f, p)
  BY <1>3, <1>4, OverlaySilent
<1>5. CASE ~Silent(f, p)
  <2>1. PICK j \in DOMAIN f : Final(f, p, j)
    BY <1>5, FinalExists
  <2>2. f[j].val = values[p]
    BY <1>2, <2>1 DEF Final
  <2> QED BY <1>3, <2>1, <2>2, OverlayFinal
<1> QED BY <1>4, <1>5

LEMMA DebtInit == Init => DebtInv
  BY DEF Init, DebtInv, Keys

LEMMA DebtStep == TypeOK /\ Fetched /\ DebtInv /\ [Next]_vars => DebtInv'
<1> SUFFICES ASSUME TypeOK, Fetched, DebtInv, [Next]_vars PROVE DebtInv'
  OBVIOUS
<1> USE DEF DebtInv
<1>1. ASSUME UNCHANGED <<store, dirty, published>>, windows \subseteq windows'
      PROVE  DebtInv'
  BY <1>1
<1>2. ASSUME NEW k \in Keys, Change(k) PROVE DebtInv'
  BY <1>2, <1>1 DEF Change
<1>3. CASE Lose
  BY <1>3, <1>1 DEF Lose, Disconnect
<1>4. CASE RequestReload
  BY <1>4, <1>1 DEF RequestReload, Request
<1>5. CASE Reconnect
  BY <1>5, <1>1 DEF Reconnect, StartBuffering
<1>6. CASE BufferFrame
  BY <1>6, <1>1 DEF BufferFrame
<1>7. CASE Overflow
  BY <1>7, <1>1 DEF Overflow, Disconnect
<1>8. CASE LiveFrame
  <2> DEFINE frames == <<Head(wire)>>
  <2>1. frames \in Seq(Frame) /\ windows \subseteq windows' /\ published' = published
    BY <1>8, Arrival DEF LiveFrame, TypeOK
  <2>2. store' = Applied(store, frames) /\ dirty' = dirty \cup Dirtied(store, frames)
    BY <1>8 DEF LiveFrame
  <2> HIDE DEF frames
  <2>3. CASE windows' \cap {"dirty dropped", "old publish"} = {}
    <3>1. store \in Config /\ \A p \in Points : p \in dirty \/ published[p] = store[p]
      BY <2>1, <2>3 DEF TypeOK
    <3>2. \A p \in Points : p \in dirty \cup Dirtied(store, frames)
                            \/ published[p] = Applied(store, frames)[p]
      <4>1. \A p \in Points \ Dirtied(store, frames) : Applied(store, frames)[p] = store[p]
        BY <2>1, <3>1, UndirtiedStays
      <4> QED BY <3>1, <4>1
    <3> QED BY <2>1, <2>2, <3>2
  <2>4. CASE windows' \cap {"dirty dropped", "old publish"} # {}
    BY <2>4
  <2> QED BY <2>3, <2>4
<1>9. CASE BeginReconnect
  BY <1>9, <1>1 DEF BeginReconnect, StartBuffering, EnterWindows
<1>10. CASE BeginReload
  BY <1>10, <1>1 DEF BeginReload, StartBuffering, EnterWindows
<1>11. CASE BeginRefresh
  BY <1>11, <1>1 DEF BeginRefresh
<1>12. CASE LoadStartup
  <2>1. dirty' = Points \cup Dirtied(snap["startup"], buffer)
    BY <1>12 DEF LoadStartup, Drain
  <2> QED BY <2>1
<1>13. CASE SkipRefresh
  BY <1>13, <1>1 DEF SkipRefresh, Ends
<1>14. ASSUME NEW s \in Slots, Snapshot(s) PROVE DebtInv'
  BY <1>14, <1>1 DEF Snapshot
<1>15. ASSUME NEW s \in Slots, Rebuild(s) PROVE DebtInv'
  <2> DEFINE config == snap[s]
             frames == IF s = "refresh" THEN <<>> ELSE buffer
  <2>1. config \in Config /\ frames \in Seq(Frame) /\ published' = published
    BY <1>15, NoFrames DEF Rebuild, Fetched, TypeOK
  <2>2. /\ windows \subseteq windows'
        /\ ~(dirty \subseteq Differing(config)) => "dirty dropped" \in windows'
    BY <1>15 DEF Rebuild
  <2>3. \/ /\ store' = Applied(config, frames)
           /\ dirty' = Differing(config) \cup Dirtied(config, frames)
        \/ store' = config /\ dirty' = Differing(config)
    BY <1>15 DEF Rebuild, Drain
  <2> HIDE DEF config, frames
  <2>4. CASE windows' \cap {"dirty dropped", "old publish"} = {}
    <3>1. \A p \in Points : p \in Differing(config) \/ published[p] = config[p]
      BY <2>2, <2>4 DEF Differing
    <3>2. \A p \in Points : p \in Differing(config) \cup Dirtied(config, frames)
                            \/ published[p] = Applied(config, frames)[p]
      <4>1. \A p \in Points \ Dirtied(config, frames) : Applied(config, frames)[p] = config[p]
        BY <2>1, <3>1, UndirtiedStays
      <4> QED BY <3>1, <4>1
    <3>3. \A p \in Points : p \in dirty' \/ published'[p] = store'[p]
      BY <2>1, <2>3, <3>1, <3>2
    <3> QED BY <3>3
  <2>5. CASE windows' \cap {"dirty dropped", "old publish"} # {}
    BY <2>5
  <2> QED BY <2>4, <2>5
<1>16. ASSUME NEW s \in Slots, DrainPublished(s) PROVE DebtInv'
  <2> DEFINE frames == buffer
  <2>1. frames \in Seq(Frame) /\ windows \subseteq windows' /\ published' = published
    BY <1>16, Arrival DEF DrainPublished, TypeOK
  <2>2. store' = Applied(store, frames) /\ dirty' = dirty \cup Dirtied(store, frames)
    BY <1>16 DEF DrainPublished, Drain
  <2> HIDE DEF frames
  <2>3. CASE windows' \cap {"dirty dropped", "old publish"} = {}
    <3>1. store \in Config /\ \A p \in Points : p \in dirty \/ published[p] = store[p]
      BY <2>1, <2>3 DEF TypeOK
    <3>2. \A p \in Points : p \in dirty \cup Dirtied(store, frames)
                            \/ published[p] = Applied(store, frames)[p]
      <4>1. \A p \in Points \ Dirtied(store, frames) : Applied(store, frames)[p] = store[p]
        BY <2>1, <3>1, UndirtiedStays
      <4> QED BY <3>1, <4>1
    <3> QED BY <2>1, <2>2, <3>2
  <2>4. CASE windows' \cap {"dirty dropped", "old publish"} # {}
    BY <2>4
  <2> QED BY <2>3, <2>4
<1>17. ASSUME NEW s \in Slots, Finish(s) PROVE DebtInv'
  <2>1. Flush /\ store' = store /\ windows' = windows
    BY <1>17 DEF Finish, Flush, Ends, Request
  <2>2. \A p \in Points : published'[p] = IF p \in dirty THEN store[p] ELSE published[p]
    BY <2>1 DEF Flush
  <2> QED BY <2>1, <2>2
<1>18. ASSUME NEW s \in Slots, Fail(s) PROVE DebtInv'
  BY <1>18, <1>1 DEF Fail, Ends
<1>19. ASSUME NEW s \in Slots, FetchFails(s) PROVE DebtInv'
  BY <1>19, <1>1 DEF FetchFails, Ends
<1>20. CASE LivePublish
  <2>1. Flush /\ store' = store /\ windows' = windows
    BY <1>20 DEF LivePublish, Flush
  <2>2. \A p \in Points : published'[p] = IF p \in dirty THEN store[p] ELSE published[p]
    BY <2>1 DEF Flush
  <2> QED BY <2>1, <2>2
<1>21. CASE PublishOld
  BY <1>21 DEF PublishOld
<1>22. CASE AbandonOld
  BY <1>22, <1>1 DEF AbandonOld
<1>23. CASE LoseBroker
  BY <1>23, <1>1 DEF LoseBroker
<1>24. CASE RegainBroker
  <2>1. Flush /\ store' = store /\ windows' = windows
    BY <1>24 DEF RegainBroker, Flush
  <2>2. \A p \in Points : published'[p] = IF p \in dirty THEN store[p] ELSE published[p]
    BY <2>1 DEF Flush
  <2> QED BY <2>1, <2>2
<1>25. CASE UNCHANGED vars
  BY <1>25, <1>1 DEF vars
<1> QED
  BY <1>2, <1>3, <1>4, <1>5, <1>6, <1>7, <1>8, <1>9, <1>10, <1>11, <1>12, <1>13,
         <1>14, <1>15, <1>16, <1>17, <1>18, <1>19, <1>20, <1>21, <1>22, <1>23, <1>24,
         <1>25
  DEF Next, Reader, Step

LEMMA Debts == Spec => []DebtInv
  BY DebtInit, DebtStep, Typed, PTL DEF Spec

\* A value that the broker does not have stays marked in every store a resync
\* rebuilds, whichever coroutines interleave and whatever breaks: no update is
\* forgotten, unless a resync dropped a mark or the replaced Publisher was late.
THEOREM NoDebtIsForgotten == Spec => []DirtyOrPublished
<1>1. DebtInv => DirtyOrPublished
  BY DEF DebtInv, DirtyOrPublished
<1> QED BY <1>1, Debts, PTL

----------------------------------------------------------------------------
(* The frames on their way.                                                *)

\* A frame that is buffered keeps its place.
LEMMA Moved ==
    ASSUME TypeOK, wire # <<>>
    PROVE  Append(buffer, Head(wire)) \o Tail(wire) = buffer \o wire
<1> DEFINE one == <<Head(wire)>>
           rest == Tail(wire)
<1>1. one \in Seq(Frame) /\ rest \in Seq(Frame) /\ wire = one \o rest /\ buffer \in Seq(Frame)
  BY Arrival DEF TypeOK
<1>2. Append(buffer, Head(wire)) = buffer \o one
  BY Arrival, AppendIsConcat DEF TypeOK
<1> HIDE DEF one, rest
<1>3. (buffer \o one) \o rest = buffer \o (one \o rest)
  BY <1>1, ConcatAssociative
<1> QED BY <1>1, <1>2, <1>3 DEF rest

\* A change that is reported comes last.
LEMMA Reported ==
    ASSUME TypeOK, NEW e \in Frame, NEW k, NEW b
    PROVE  Overlay(b, buffer \o Append(wire, e), k) =
               IF e.key = k THEN e.val ELSE Overlay(b, buffer \o wire, k)
<1> DEFINE one == <<e>>
           all == buffer \o wire
<1>1. /\ one \in Seq(Frame) /\ buffer \in Seq(Frame) /\ wire \in Seq(Frame)
      /\ Append(wire, e) = wire \o one
  BY AppendIsConcat DEF TypeOK
<1>2. all \in Seq(Frame)
  BY <1>1, ConcatProperties
<1>3. Append(all, e) = all \o one
  BY <1>2, AppendIsConcat
<1> HIDE DEF one
<1>4. (buffer \o wire) \o one = buffer \o (wire \o one)
  BY <1>1, ConcatAssociative
<1>5. Overlay(b, Append(all, e), k) = IF e.key = k THEN e.val ELSE Overlay(b, all, k)
  <2> HIDE DEF all
  <2> QED BY <1>2, OverlayAppend
<1> QED BY <1>1, <1>3, <1>4, <1>5

\* Buffered frames may be applied or dropped, the others tell the same.
LEMMA Kept ==
    ASSUME TypeOK, FramesInv, UNCHANGED <<connected, wire, truth>>,
           buffer' \in {<<>>, buffer}, ~buffering' => buffer' = <<>>
    PROVE  FramesInv'
<1>1. buffer \in Seq(Frame) /\ wire \in Seq(Frame) /\ <<>> \o wire = wire
  BY ConcatEmptySeq DEF TypeOK
<1>2. ASSUME connected, NEW k \in Keys PROVE Overlay(truth, buffer' \o wire, k) = truth[k]
  <2>1. Overlay(truth, buffer \o wire, k) = truth[k]
    BY <1>2 DEF FramesInv, FramesTell
  <2>2. Overlay(truth, wire, k) = truth[k]
    BY <1>1, <2>1, OverlaySuffix
  <2> QED BY <1>1, <2>1, <2>2
<1> QED BY <1>2 DEF FramesInv, FramesTell

LEMMA FramesInit == Init => FramesInv
<1> SUFFICES ASSUME Init PROVE FramesInv
  OBVIOUS
<1>1. buffer \o wire = <<>> /\ buffering /\ connected
  BY DEF Init
<1>2. \A k \in Keys : Overlay(truth, <<>>, k) = truth[k]
  BY OverlaySilent DEF Silent
<1> QED BY <1>1, <1>2 DEF FramesInv, FramesTell

LEMMA FramesStep == TypeOK /\ FramesInv /\ [Next]_vars => FramesInv'
<1> SUFFICES ASSUME TypeOK, FramesInv, [Next]_vars PROVE FramesInv'
  OBVIOUS
<1>1. ASSUME UNCHANGED <<connected, wire, buffering, buffer, truth>> PROVE FramesInv'
  BY <1>1 DEF FramesInv, FramesTell
<1>2. ASSUME NEW k \in Keys, Change(k) PROVE FramesInv'
  <2>1. PICK v \in Values :
           /\ truth' = [truth EXCEPT ![k] = v]
           /\ wire' = IF connected THEN Append(wire, [key |-> k, val |-> v]) ELSE wire
    BY <1>2 DEF Change
  <2>2. UNCHANGED <<connected, buffering, buffer>>
    BY <1>2 DEF Change
  <2> DEFINE e == [key |-> k, val |-> v]
  <2>3. e \in Frame /\ e.key = k /\ e.val = v
    BY DEF Frame
  <2>4. ASSUME connected, NEW j \in Keys
        PROVE  Overlay(truth', buffer \o Append(wire, e), j) = truth'[j]
    <3>1. Overlay(truth', buffer \o Append(wire, e), j) =
             IF e.key = j THEN e.val ELSE Overlay(truth', buffer \o wire, j)
      <4> HIDE DEF e
      <4> QED BY <2>3, Reported
    <3>2. CASE j = k
      BY <2>1, <2>3, <3>1, <3>2 DEF TypeOK, Config
    <3>3. CASE j # k
      <4>1. truth'[j] = truth[j] /\ Overlay(truth, buffer \o wire, j) = truth[j]
        BY <2>1, <2>4, <3>3 DEF TypeOK, Config, FramesInv, FramesTell
      <4>2. buffer \o wire \in Seq(Frame)
        BY ConcatProperties DEF TypeOK
      <4>3. Overlay(truth', buffer \o wire, j) = truth[j]
        BY <4>1, <4>2, OverlayTold
      <4> QED BY <2>3, <3>1, <3>3, <4>1, <4>3
    <3> QED BY <3>2, <3>3
  <2>5. ~connected => wire' = <<>>
    BY <2>1 DEF FramesInv
  <2>6. ~buffering => buffer = <<>>
    BY DEF FramesInv
  <2> QED BY <2>1, <2>2, <2>4, <2>5, <2>6 DEF FramesInv, FramesTell
<1>3. CASE Lose
  <2>1. connected' = FALSE /\ wire' = <<>> /\ UNCHANGED <<buffering, buffer>>
    BY <1>3 DEF Lose, Disconnect
  <2> QED BY <2>1 DEF FramesInv, FramesTell
<1>4. CASE RequestReload
  BY <1>4, <1>1 DEF RequestReload, Request
<1>5. CASE Reconnect
  <2>1. buffer' = <<>> /\ wire' = <<>> /\ buffering' = TRUE /\ connected' = TRUE
    BY <1>5 DEF Reconnect, StartBuffering, FramesInv
  <2>2. buffer' \o wire' = <<>>
    BY <2>1
  <2>3. \A k \in Keys : Overlay(truth', <<>>, k) = truth'[k]
    BY OverlaySilent DEF Silent
  <2> QED BY <2>1, <2>2, <2>3 DEF FramesInv, FramesTell
<1>6. CASE BufferFrame
  <2>1. /\ wire # <<>> /\ connected /\ buffering
        /\ wire' = Tail(wire) /\ buffer' = Append(buffer, Head(wire))
        /\ UNCHANGED <<truth, connected, buffering>>
    BY <1>6 DEF BufferFrame
  <2>2. buffer' \o wire' = buffer \o wire
    BY <2>1, Moved
  <2> QED BY <2>1, <2>2 DEF FramesInv, FramesTell
<1>7. CASE Overflow
  <2>1. connected' = FALSE /\ wire' = <<>> /\ UNCHANGED <<buffering, buffer>>
    BY <1>7 DEF Overflow, Disconnect
  <2> QED BY <2>1 DEF FramesInv, FramesTell
<1>8. CASE LiveFrame
  <2> DEFINE one == <<Head(wire)>>
             rest == Tail(wire)
  <2>1. /\ wire # <<>> /\ connected /\ ~buffering /\ wire' = rest
        /\ UNCHANGED <<truth, connected, buffering, buffer>>
    BY <1>8 DEF LiveFrame
  <2>2. one \in Seq(Frame) /\ rest \in Seq(Frame) /\ wire = one \o rest
    BY <2>1, Arrival
  <2>3. buffer = <<>> /\ \A k \in Keys : Overlay(truth, buffer \o wire, k) = truth[k]
    BY <2>1 DEF FramesInv, FramesTell
  <2> HIDE DEF one, rest
  <2>4. <<>> \o wire = wire /\ <<>> \o rest = rest
    BY <2>2, ConcatEmptySeq DEF TypeOK
  <2>5. \A k \in Keys : Overlay(truth, one \o rest, k) = truth[k]
    BY <2>2, <2>3, <2>4
  <2>6. \A k \in Keys : Overlay(truth, rest, k) = truth[k]
    BY <2>2, <2>5, OverlaySuffix
  <2> QED BY <2>1, <2>3, <2>4, <2>6 DEF FramesInv, FramesTell
<1>9. CASE BeginReconnect
  <2>1. UNCHANGED <<connected, wire, truth>> /\ buffer' = <<>>
    BY <1>9 DEF BeginReconnect, StartBuffering, EnterWindows
  <2> QED BY <2>1, Kept
<1>10. CASE BeginReload
  <2>1. UNCHANGED <<connected, wire, truth>> /\ buffer' = <<>>
    BY <1>10 DEF BeginReload, StartBuffering, EnterWindows
  <2> QED BY <2>1, Kept
<1>11. CASE BeginRefresh
  BY <1>11, <1>1 DEF BeginRefresh
<1>12. CASE LoadStartup
  <2>1. UNCHANGED <<connected, wire, truth>> /\ buffer' = <<>>
    BY <1>12 DEF LoadStartup, Drain
  <2> QED BY <2>1, Kept
<1>13. CASE SkipRefresh
  BY <1>13, <1>1 DEF SkipRefresh, Ends
<1>14. ASSUME NEW s \in Slots, Snapshot(s) PROVE FramesInv'
  BY <1>14, <1>1 DEF Snapshot
<1>15. ASSUME NEW s \in Slots, Rebuild(s) PROVE FramesInv'
  <2>1. UNCHANGED <<connected, wire, truth>> /\ buffer' \in {<<>>, buffer}
    BY <1>15 DEF Rebuild, Drain
  <2>2. ~buffering' => buffer' = <<>>
    BY <1>15 DEF Rebuild, Drain, FramesInv
  <2> QED BY <2>1, <2>2, Kept
<1>16. ASSUME NEW s \in Slots, DrainPublished(s) PROVE FramesInv'
  <2>1. UNCHANGED <<connected, wire, truth>> /\ buffer' = <<>>
    BY <1>16 DEF DrainPublished, Drain
  <2> QED BY <2>1, Kept
<1>17. ASSUME NEW s \in Slots, Finish(s) PROVE FramesInv'
  BY <1>17, <1>1 DEF Finish, Flush, Ends, Request
<1>18. ASSUME NEW s \in Slots, Fail(s) PROVE FramesInv'
  BY <1>18, <1>1 DEF Fail, Ends
<1>19. ASSUME NEW s \in Slots, FetchFails(s) PROVE FramesInv'
  BY <1>19, <1>1 DEF FetchFails, Ends
<1>20. CASE LivePublish
  BY <1>20, <1>1 DEF LivePublish, Flush
<1>21. CASE PublishOld
  BY <1>21, <1>1 DEF PublishOld
<1>22. CASE AbandonOld
  BY <1>22, <1>1 DEF AbandonOld
<1>23. CASE LoseBroker
  BY <1>23, <1>1 DEF LoseBroker
<1>24. CASE RegainBroker
  BY <1>24, <1>1 DEF RegainBroker, Flush
<1>25. CASE UNCHANGED vars
  BY <1>25, <1>1 DEF vars
<1> QED
  BY <1>2, <1>3, <1>4, <1>5, <1>6, <1>7, <1>8, <1>9, <1>10, <1>11, <1>12, <1>13,
         <1>14, <1>15, <1>16, <1>17, <1>18, <1>19, <1>20, <1>21, <1>22, <1>23, <1>24,
         <1>25
  DEF Next, Reader, Step

LEMMA Frames == Spec => []FramesInv
  BY FramesInit, FramesStep, Typed, PTL DEF Spec

----------------------------------------------------------------------------
(* What the refresher can tell.                                            *)

\* A drained buffer tells what it told before, but of the topology.
LEMMA Drained ==
    ASSUME NEW values \in Config, NEW f \in Seq(Frame), NEW g \in Seq(Frame), NEW k \in Keys,
           k = Topology => Silent(f, Topology)
    PROVE  Overlay(Applied(values, f), <<>> \o g, k) = Overlay(values, f \o g, k)
<1>1. <<>> \o g = g
  BY ConcatEmptySeq
<1> DEFINE c == Applied(values, f)
<1>2. c[k] = Overlay(values, f, k)
  <2>1. CASE k = Topology
    BY <2>1, AppliedFacts, OverlaySilent
  <2>2. CASE k # Topology
    BY <2>2, AppliedFacts DEF Keys
  <2> QED BY <2>1, <2>2
<1> HIDE DEF c
<1>3. Overlay(c, g, k) = Overlay(values, f \o g, k)
  BY <1>2, OverlayStacked
<1> QED BY <1>1, <1>3 DEF c

\* Whatever a configuration says, with the frames on their way it says that or
\* what the SysAP has.
LEMMA Refetched ==
    ASSUME TypeOK, FramesInv, connected, NEW config, NEW frames \in {<<>>, buffer}, NEW k \in Keys
    PROVE  /\ frames \o wire \in Seq(Frame)
           /\ Overlay(config, frames \o wire, k) \in {config[k], truth[k]}
           /\ config[k] = truth[k] => Overlay(config, frames \o wire, k) = truth[k]
<1>1. buffer \in Seq(Frame) /\ wire \in Seq(Frame) /\ <<>> \o wire = wire
  BY ConcatEmptySeq DEF TypeOK
<1>2. Overlay(truth, buffer \o wire, k) = truth[k]
  BY DEF FramesInv, FramesTell
<1>3. Overlay(truth, wire, k) = truth[k]
  BY <1>1, <1>2, OverlaySuffix
<1> DEFINE f == frames \o wire
<1>4. f \in Seq(Frame) /\ Overlay(truth, f, k) = truth[k]
  BY <1>1, <1>2, <1>3, ConcatProperties
<1> HIDE DEF f
<1>5. /\ Overlay(config, f, k) \in {config[k], truth[k]}
      /\ config[k] = truth[k] => Overlay(config, f, k) = truth[k]
  BY <1>4, OverlayTold
<1> QED BY <1>4, <1>5 DEF f

LEMMA HashInit == Init => HashInv
<1>1. Init => Fetching
  BY DEF Init, Fetching, Resyncers, Slots
<1> QED BY <1>1 DEF HashInv

LEMMA HashStep == TypeOK /\ Fetched /\ FramesInv /\ HashInv /\ [Next]_vars => HashInv'
<1> SUFFICES ASSUME TypeOK, Fetched, FramesInv, HashInv, [Next]_vars PROVE HashInv'
  OBVIOUS
<1>1. ASSUME UNCHANGED <<connected, wire, buffer, truth, store, lastConfig>>,
             windows \subseteq windows', Fetching => Fetching'
      PROVE  HashInv'
  BY <1>1 DEF HashInv
<1>2. ASSUME NEW k \in Keys, Change(k) PROVE HashInv'
  <2>1. PICK v \in Values :
           /\ truth' = [truth EXCEPT ![k] = v]
           /\ wire' = IF connected THEN Append(wire, [key |-> k, val |-> v]) ELSE wire
    BY <1>2 DEF Change
  <2>2. UNCHANGED <<connected, buffer, store, lastConfig, pc, windows>>
    BY <1>2 DEF Change
  <2> DEFINE e == [key |-> k, val |-> v]
  <2>3. e \in Frame /\ e.key = k /\ e.val = v
    BY DEF Frame
  <2> SUFFICES ASSUME connected, ~Fetching, windows \cap {"startup gap", "refused fetch"} = {},
                      NEW p \in Points
               PROVE  Overlay(store, buffer \o wire', p) \in {truth'[p], lastConfig[p]}
    BY <2>2 DEF HashInv, Fetching
  <2>4. Overlay(store, buffer \o wire, p) \in {truth[p], lastConfig[p]}
    BY DEF HashInv
  <2>5. wire' = Append(wire, e) /\ p \in Keys
    BY <2>1 DEF Keys
  <2> HIDE DEF e
  <2>6. Overlay(store, buffer \o Append(wire, e), p) =
           IF e.key = p THEN e.val ELSE Overlay(store, buffer \o wire, p)
    BY <2>3, Reported
  <2>7. truth'[p] = IF p = k THEN v ELSE truth[p]
    BY <2>1, <2>5 DEF TypeOK, Config
  <2> QED BY <2>3, <2>4, <2>5, <2>6, <2>7
<1>3. CASE Lose
  BY <1>3 DEF Lose, Disconnect, HashInv
<1>4. CASE RequestReload
  BY <1>4, <1>1 DEF RequestReload, Request, Fetching
<1>5. CASE Reconnect
  <2>1. coldDone => pc'["reconnect"] = "spawned"
    BY <1>5 DEF Reconnect, TypeOK, Slots
  <2>2. ~coldDone => "startup gap" \in windows'
    BY <1>5 DEF Reconnect
  <2> QED BY <2>1, <2>2 DEF HashInv, Fetching, Resyncers, Slots
<1>6. CASE BufferFrame
  <2>1. /\ wire # <<>> /\ wire' = Tail(wire) /\ buffer' = Append(buffer, Head(wire))
        /\ UNCHANGED <<truth, connected, store, lastConfig, pc, windows>>
    BY <1>6 DEF BufferFrame
  <2>2. buffer' \o wire' = buffer \o wire
    BY <2>1, Moved
  <2> QED BY <2>1, <2>2 DEF HashInv, Fetching
<1>7. CASE Overflow
  BY <1>7 DEF Overflow, Disconnect, HashInv
<1>8. CASE LiveFrame
  <2> DEFINE one == <<Head(wire)>>
             rest == Tail(wire)
  <2>1. /\ wire # <<>> /\ connected /\ ~buffering /\ wire' = rest /\ store' = Applied(store, one)
        /\ windows \subseteq windows'
        /\ UNCHANGED <<truth, connected, buffer, lastConfig, pc>>
    BY <1>8 DEF LiveFrame
  <2>2. one \in Seq(Frame) /\ rest \in Seq(Frame) /\ wire = one \o rest
    BY <2>1, Arrival
  <2>3. buffer = <<>> /\ store \in Config /\ wire \in Seq(Frame)
    BY <2>1 DEF FramesInv, TypeOK
  <2> HIDE DEF one, rest
  <2>4. <<>> \o wire = wire
    BY <2>3, ConcatEmptySeq
  <2>5. \A p \in Points : Overlay(Applied(store, one), <<>> \o rest, p) = Overlay(store, one \o rest, p)
    BY <2>2, <2>3, Drained DEF Keys
  <2>6. \A p \in Points : Overlay(store', buffer' \o wire', p) = Overlay(store, buffer \o wire, p)
    BY <2>1, <2>2, <2>3, <2>4, <2>5
  <2> QED BY <2>1, <2>6 DEF HashInv, Fetching
<1>9. CASE BeginReconnect
  <2>1. pc'["reconnect"] = "fetching"
    BY <1>9 DEF BeginReconnect, TypeOK, Slots
  <2> QED BY <2>1 DEF HashInv, Fetching, Resyncers, Slots
<1>10. CASE BeginReload
  <2>1. pc'["reload"] = "fetching"
    BY <1>10 DEF BeginReload, TypeOK, Slots
  <2> QED BY <2>1 DEF HashInv, Fetching, Resyncers, Slots
<1>11. CASE BeginRefresh
  <2>1. UNCHANGED <<connected, wire, buffer, truth, store, lastConfig, windows>>
    BY <1>11 DEF BeginRefresh
  <2>2. Fetching => Fetching'
    BY <1>11 DEF BeginRefresh, Fetching, Resyncers, TypeOK
  <2> QED BY <1>1, <2>1, <2>2
<1>12. CASE LoadStartup
  <2> DEFINE config == snap["startup"]
             frames == buffer
  <2>1. /\ config \in Config /\ frames \in {<<>>, buffer} /\ frames \in Seq(Frame)
        /\ lastConfig' = config
        /\ UNCHANGED <<truth, connected, wire>>
    BY <1>12, NoFrames DEF LoadStartup, Fetched, TypeOK, Slots
  <2>2. \/ store' = Applied(config, frames) /\ buffer' = <<>>
        \/ store' = config /\ buffer' = frames
    BY <1>12 DEF LoadStartup, Drain
  <2> HIDE DEF config, frames
  <2>3. ASSUME connected, NEW p \in Points
        PROVE  Overlay(store', buffer' \o wire', p) \in {truth[p], config[p]}
    <3>1. p \in Keys /\ p # Topology /\ wire \in Seq(Frame)
      BY DEF Keys, TypeOK
    <3>2. Overlay(config, frames \o wire, p) \in {config[p], truth[p]}
      BY <2>1, <2>3, <3>1, Refetched
    <3>3. Overlay(Applied(config, frames), <<>> \o wire, p) = Overlay(config, frames \o wire, p)
      BY <2>1, <3>1, Drained
    <3> QED BY <2>1, <2>2, <3>2, <3>3
  <2> QED BY <2>1, <2>3 DEF HashInv
<1>13. CASE SkipRefresh
  <2>1. UNCHANGED <<connected, wire, buffer, truth, store, lastConfig, windows>>
    BY <1>13 DEF SkipRefresh, Ends
  <2>2. Fetching => Fetching'
    BY <1>13 DEF SkipRefresh, Ends, Fetching, Resyncers, TypeOK
  <2> QED BY <1>1, <2>1, <2>2
<1>14. ASSUME NEW s \in Slots, Snapshot(s) PROVE HashInv'
  <2>1. UNCHANGED <<connected, wire, buffer, truth, store, lastConfig, windows>>
    BY <1>14 DEF Snapshot
  <2>2. Fetching => Fetching'
    BY <1>14 DEF Snapshot, Fetching, Resyncers, TypeOK
  <2> QED BY <1>1, <2>1, <2>2
<1>15. ASSUME NEW s \in Slots, Rebuild(s) PROVE HashInv'
  <2> DEFINE config == snap[s]
             frames == IF s = "refresh" THEN <<>> ELSE buffer
  <2>1. /\ config \in Config /\ frames \in {<<>>, buffer} /\ frames \in Seq(Frame)
        /\ lastConfig' = config
        /\ UNCHANGED <<truth, connected, wire>>
    BY <1>15, NoFrames DEF Rebuild, Fetched, TypeOK, Slots
  <2>2. \/ store' = Applied(config, frames) /\ buffer' = <<>>
        \/ store' = config /\ buffer' = frames
    BY <1>15 DEF Rebuild, Drain
  <2> HIDE DEF config, frames
  <2>3. ASSUME connected, NEW p \in Points
        PROVE  Overlay(store', buffer' \o wire', p) \in {truth[p], config[p]}
    <3>1. p \in Keys /\ p # Topology /\ wire \in Seq(Frame)
      BY DEF Keys, TypeOK
    <3>2. Overlay(config, frames \o wire, p) \in {config[p], truth[p]}
      BY <2>1, <2>3, <3>1, Refetched
    <3>3. Overlay(Applied(config, frames), <<>> \o wire, p) = Overlay(config, frames \o wire, p)
      BY <2>1, <3>1, Drained
    <3> QED BY <2>1, <2>2, <3>2, <3>3
  <2> QED BY <2>1, <2>3 DEF HashInv
<1>16. ASSUME NEW s \in Slots, DrainPublished(s) PROVE HashInv'
  <2>1. /\ store' = Applied(store, buffer) /\ buffer' = <<>>
        /\ windows \subseteq windows'
        /\ pc[s] = "publishing" /\ pc' = [pc EXCEPT ![s] = "flushing"]
        /\ UNCHANGED <<truth, connected, wire, lastConfig>>
    BY <1>16 DEF DrainPublished, Drain
  <2>2. \A p \in Points : Overlay(Applied(store, buffer), <<>> \o wire, p) = Overlay(store, buffer \o wire, p)
    BY Drained DEF TypeOK, Keys
  <2>3. Fetching => Fetching'
    BY <2>1 DEF Fetching, TypeOK, Resyncers
  <2> QED BY <2>1, <2>2, <2>3 DEF HashInv
<1>17. ASSUME NEW s \in Slots, Finish(s) PROVE HashInv'
  <2>1. UNCHANGED <<connected, wire, buffer, truth, store, lastConfig, windows>>
    BY <1>17 DEF Finish, Flush, Ends, Request
  <2>2. Fetching => Fetching'
    BY <1>17 DEF Finish, Flush, Ends, Request, Fetching, Resyncers, TypeOK
  <2> QED BY <1>1, <2>1, <2>2
<1>18. ASSUME NEW s \in Slots, Fail(s) PROVE HashInv'
  <2>1. UNCHANGED <<connected, wire, buffer, truth, store, lastConfig, windows>>
    BY <1>18 DEF Fail, Ends
  <2>2. Fetching => Fetching'
    BY <1>18 DEF Fail, Ends, Fetching, Resyncers, TypeOK
  <2> QED BY <1>1, <2>1, <2>2
<1>19. ASSUME NEW s \in Slots, FetchFails(s) PROVE HashInv'
  <2>1. s # "refresh" => "refused fetch" \in windows'
    BY <1>19 DEF FetchFails
  <2>2. CASE s = "refresh"
    <3>1. /\ UNCHANGED <<connected, wire, buffer, truth, store, lastConfig, windows>>
          /\ pc' = [pc EXCEPT !["refresh"] = "idle"]
      BY <1>19, <2>2 DEF FetchFails, Ends
    <3>2. Fetching => Fetching'
      BY <3>1 DEF Fetching, Resyncers, TypeOK
    <3> QED BY <1>1, <3>1, <3>2
  <2> QED BY <2>1, <2>2 DEF HashInv
<1>20. CASE LivePublish
  BY <1>20, <1>1 DEF LivePublish, Flush, Fetching
<1>21. CASE PublishOld
  BY <1>21, <1>1 DEF PublishOld, Fetching
<1>22. CASE AbandonOld
  BY <1>22, <1>1 DEF AbandonOld, Fetching
<1>23. CASE LoseBroker
  BY <1>23, <1>1 DEF LoseBroker, Fetching
<1>24. CASE RegainBroker
  BY <1>24, <1>1 DEF RegainBroker, Flush, Fetching
<1>25. CASE UNCHANGED vars
  BY <1>25, <1>1 DEF vars, Fetching
<1> QED
  BY <1>2, <1>3, <1>4, <1>5, <1>6, <1>7, <1>8, <1>9, <1>10, <1>11, <1>12, <1>13,
         <1>14, <1>15, <1>16, <1>17, <1>18, <1>19, <1>20, <1>21, <1>22, <1>23, <1>24,
         <1>25
  DEF Next, Reader, Step

\* A hash that equals the SysAP's vouches for the store: what a lost race left
\* wrong the periodic refresh sees, for any number of coroutines, losses and
\* outages, unless a fetch was refused.
THEOREM RefreshTells == Spec => []RefreshCatches
<1>1. HashInv => RefreshCatches
  BY DEF HashInv, RefreshCatches, Pending, Fetching, Resyncers, Settled, Overlay
<1>2. Spec => []HashInv
  BY HashInit, HashStep, Typed, Frames, PTL DEF Spec
<1> QED BY <1>1, <1>2, PTL

----------------------------------------------------------------------------
(* No frame is missed.                                                     *)

LEMMA AloneInit == Init => AloneInv
  BY DEF Init, AloneInv, Active, Resyncers, Slots

LEMMA AloneStep == TypeOK /\ AloneInv /\ [Next]_vars => AloneInv'
<1> SUFFICES ASSUME TypeOK, AloneInv, [Next]_vars PROVE AloneInv'
  OBVIOUS
<1>1. ASSUME windows \subseteq windows',
             \A s \in Resyncers : Active(s)' => Active(s),
             pc'["refresh"] = "publishing" => pc["refresh"] = "publishing"
      PROVE  AloneInv'
  BY <1>1 DEF AloneInv, Calm
<1>2. ASSUME NEW k \in Keys, Change(k) PROVE AloneInv'
  BY <1>2, <1>1 DEF Change, Active
<1>3. CASE Lose
  BY <1>3, <1>1 DEF Lose, Disconnect, Active
<1>4. CASE RequestReload
  BY <1>4, <1>1 DEF RequestReload, Request, Active
<1>5. CASE Reconnect
  <2>1. windows \subseteq windows' /\ (pc'["refresh"] = "publishing" => pc["refresh"] = "publishing")
    BY <1>5 DEF Reconnect, StartBuffering, TypeOK, Slots
  <2>2. \A o \in Resyncers : Active(o)' => Active(o)
    BY <1>5 DEF Reconnect, StartBuffering, Active, Resyncers, TypeOK
  <2> QED BY <1>1, <2>1, <2>2
<1>6. CASE BufferFrame
  BY <1>6, <1>1 DEF BufferFrame, Active
<1>7. CASE Overflow
  BY <1>7, <1>1 DEF Overflow, Disconnect, Active
<1>8. CASE LiveFrame
  BY <1>8, <1>1 DEF LiveFrame, Request, Active
<1>9. CASE BeginReconnect
  <2>1. /\ pc' = [pc EXCEPT !["reconnect"] = "fetching"] /\ windows \subseteq windows'
        /\ "overlap" \notin windows' => ~Overlapping("reconnect") /\ pc["refresh"] # "publishing"
    BY <1>9 DEF BeginReconnect, EnterWindows
  <2>2. \A s \in Resyncers : s # "reconnect" => (Active(s)' <=> Active(s))
    BY <2>1 DEF Active, Resyncers, TypeOK
  <2>3. Calm' => \A s \in Resyncers : s # "reconnect" => ~Active(s)
    BY <2>1 DEF Calm, Overlapping, Resyncers
  <2>4. pc'["refresh"] = pc["refresh"]
    BY <2>1 DEF TypeOK, Slots
  <2>5. Calm' => pc["refresh"] # "publishing"
    BY <2>1 DEF Calm
  <2> QED BY <2>2, <2>3, <2>4, <2>5 DEF AloneInv
<1>10. CASE BeginReload
  <2>1. /\ pc' = [pc EXCEPT !["reload"] = "fetching"] /\ windows \subseteq windows'
        /\ "overlap" \notin windows' => ~Overlapping("reload") /\ pc["refresh"] # "publishing"
    BY <1>10 DEF BeginReload, EnterWindows
  <2>2. \A s \in Resyncers : s # "reload" => (Active(s)' <=> Active(s))
    BY <2>1 DEF Active, Resyncers, TypeOK
  <2>3. Calm' => \A s \in Resyncers : s # "reload" => ~Active(s)
    BY <2>1 DEF Calm, Overlapping, Resyncers
  <2>4. pc'["refresh"] = pc["refresh"]
    BY <2>1 DEF TypeOK, Slots
  <2>5. Calm' => pc["refresh"] # "publishing"
    BY <2>1 DEF Calm
  <2> QED BY <2>2, <2>3, <2>4, <2>5 DEF AloneInv
<1>11. CASE BeginRefresh
  <2>1. windows \subseteq windows' /\ (pc'["refresh"] = "publishing" => pc["refresh"] = "publishing")
    BY <1>11 DEF BeginRefresh, TypeOK, Slots
  <2>2. \A o \in Resyncers : Active(o)' => Active(o)
    BY <1>11 DEF BeginRefresh, Active, Resyncers, TypeOK
  <2> QED BY <1>1, <2>1, <2>2
<1>12. CASE LoadStartup
  <2>1. windows \subseteq windows' /\ (pc'["refresh"] = "publishing" => pc["refresh"] = "publishing")
    BY <1>12 DEF LoadStartup, Drain, TypeOK, Slots
  <2>2. \A o \in Resyncers : Active(o)' => Active(o)
    BY <1>12 DEF LoadStartup, Drain, Active, Resyncers, TypeOK
  <2> QED BY <1>1, <2>1, <2>2
<1>13. CASE SkipRefresh
  <2>1. windows \subseteq windows' /\ (pc'["refresh"] = "publishing" => pc["refresh"] = "publishing")
    BY <1>13 DEF SkipRefresh, Ends, TypeOK, Slots
  <2>2. \A o \in Resyncers : Active(o)' => Active(o)
    BY <1>13 DEF SkipRefresh, Ends, Active, Resyncers, TypeOK
  <2> QED BY <1>1, <2>1, <2>2
<1>14. ASSUME NEW s \in Slots, Snapshot(s) PROVE AloneInv'
  <2>1. windows \subseteq windows' /\ (pc'["refresh"] = "publishing" => pc["refresh"] = "publishing")
    BY <1>14 DEF Snapshot, TypeOK, Slots
  <2>2. \A o \in Resyncers : Active(o)' => Active(o)
    BY <1>14 DEF Snapshot, Active, Resyncers, TypeOK
  <2> QED BY <1>1, <2>1, <2>2
<1>15. ASSUME NEW s \in Slots, Rebuild(s) PROVE AloneInv'
  <2>1. windows \subseteq windows' /\ (s = "refresh" /\ Overlapping(s) => "overlap" \in windows')
    BY <1>15 DEF Rebuild
  <2>2. pc[s] = "fetched" /\ pc' \in {[pc EXCEPT ![s] = "flushing"], [pc EXCEPT ![s] = "publishing"]}
    BY <1>15 DEF Rebuild
  <2>3. \A o \in Resyncers : Active(o)' => Active(o)
    BY <2>2 DEF Active, Resyncers, TypeOK
  <2>4. CASE s = "refresh"
    <3>1. Calm' => \A o \in Resyncers : ~Active(o)
      BY <2>1, <2>4 DEF Calm, Overlapping, Resyncers
    <3> QED BY <2>3, <3>1 DEF AloneInv
  <2>5. CASE s # "refresh"
    <3>1. pc'["refresh"] = pc["refresh"]
      BY <2>2, <2>5 DEF TypeOK, Slots
    <3> QED BY <1>1, <2>1, <2>3, <3>1
  <2> QED BY <2>4, <2>5
<1>16. ASSUME NEW s \in Slots, DrainPublished(s) PROVE AloneInv'
  <2>1. windows \subseteq windows' /\ (pc'["refresh"] = "publishing" => pc["refresh"] = "publishing")
    BY <1>16 DEF DrainPublished, Drain, TypeOK, Slots
  <2>2. \A o \in Resyncers : Active(o)' => Active(o)
    BY <1>16 DEF DrainPublished, Drain, Active, Resyncers, TypeOK
  <2> QED BY <1>1, <2>1, <2>2
<1>17. ASSUME NEW s \in Slots, Finish(s) PROVE AloneInv'
  <2>1. windows \subseteq windows' /\ (pc'["refresh"] = "publishing" => pc["refresh"] = "publishing")
    BY <1>17 DEF Finish, Flush, Ends, Request, TypeOK, Slots
  <2>2. \A o \in Resyncers : Active(o)' => Active(o)
    BY <1>17 DEF Finish, Flush, Ends, Request, Active, Resyncers, TypeOK
  <2> QED BY <1>1, <2>1, <2>2
<1>18. ASSUME NEW s \in Slots, Fail(s) PROVE AloneInv'
  <2>1. windows \subseteq windows' /\ (pc'["refresh"] = "publishing" => pc["refresh"] = "publishing")
    BY <1>18 DEF Fail, Ends, TypeOK, Slots
  <2>2. \A o \in Resyncers : Active(o)' => Active(o)
    BY <1>18 DEF Fail, Ends, Active, Resyncers, TypeOK
  <2> QED BY <1>1, <2>1, <2>2
<1>19. ASSUME NEW s \in Slots, FetchFails(s) PROVE AloneInv'
  <2>1. windows \subseteq windows' /\ (pc'["refresh"] = "publishing" => pc["refresh"] = "publishing")
    BY <1>19 DEF FetchFails, Ends, TypeOK, Slots
  <2>2. \A o \in Resyncers : Active(o)' => Active(o)
    BY <1>19 DEF FetchFails, Ends, Active, Resyncers, TypeOK
  <2> QED BY <1>1, <2>1, <2>2
<1>20. CASE LivePublish
  BY <1>20, <1>1 DEF LivePublish, Flush, Active
<1>21. CASE PublishOld
  BY <1>21, <1>1 DEF PublishOld, Active
<1>22. CASE AbandonOld
  BY <1>22, <1>1 DEF AbandonOld, Active
<1>23. CASE LoseBroker
  BY <1>23, <1>1 DEF LoseBroker, Active
<1>24. CASE RegainBroker
  BY <1>24, <1>1 DEF RegainBroker, Flush, Active
<1>25. CASE UNCHANGED vars
  BY <1>25, <1>1 DEF vars, Active
<1> QED
  BY <1>2, <1>3, <1>4, <1>5, <1>6, <1>7, <1>8, <1>9, <1>10, <1>11, <1>12, <1>13,
         <1>14, <1>15, <1>16, <1>17, <1>18, <1>19, <1>20, <1>21, <1>22, <1>23, <1>24,
         <1>25
  DEF Next, Reader, Step

LEMMA SnapshotInit == Init => SnapshotInv
  BY DEF Init, SnapshotInv, Resyncers, Slots

LEMMA SnapshotStep == TypeOK /\ FramesInv /\ AloneInv /\ SnapshotInv /\ [Next]_vars => SnapshotInv'
<1> SUFFICES ASSUME TypeOK, FramesInv, AloneInv, SnapshotInv, [Next]_vars PROVE SnapshotInv'
  OBVIOUS
<1>1. ASSUME UNCHANGED <<connected, wire, buffer, truth>>, windows \subseteq windows',
             buffering => buffering',
             pc'["reconnect"] # "spawned" => pc["reconnect"] # "spawned",
             \A s \in Resyncers : pc'[s] \in {"fetching", "fetched"} =>
                 pc'[s] = pc[s] /\ snap'[s] = snap[s]
      PROVE  SnapshotInv'
  BY <1>1 DEF SnapshotInv, Calm
<1>2. ASSUME NEW k \in Keys, Change(k) PROVE SnapshotInv'
  <2>1. PICK v \in Values :
           /\ truth' = [truth EXCEPT ![k] = v]
           /\ wire' = IF connected THEN Append(wire, [key |-> k, val |-> v]) ELSE wire
    BY <1>2 DEF Change
  <2>2. UNCHANGED <<connected, buffering, buffer, pc, snap, windows>>
    BY <1>2 DEF Change
  <2> DEFINE e == [key |-> k, val |-> v]
  <2>3. e \in Frame /\ e.key = k /\ e.val = v
    BY DEF Frame
  <2> SUFFICES ASSUME Calm, connected, pc["reconnect"] # "spawned", NEW s \in Resyncers,
                      pc[s] = "fetched", NEW j \in Keys
               PROVE  Overlay(snap[s], buffer \o wire', j) = truth'[j]
    BY <2>2 DEF SnapshotInv, Calm
  <2>4. Overlay(snap[s], buffer \o wire, j) = truth[j]
    BY DEF SnapshotInv
  <2>5. wire' = Append(wire, e)
    BY <2>1
  <2> HIDE DEF e
  <2>6. Overlay(snap[s], buffer \o Append(wire, e), j) =
           IF e.key = j THEN e.val ELSE Overlay(snap[s], buffer \o wire, j)
    BY <2>3, Reported
  <2>7. truth'[j] = IF j = k THEN v ELSE truth[j]
    BY <2>1 DEF TypeOK, Config
  <2> QED BY <2>3, <2>4, <2>5, <2>6, <2>7
<1>3. CASE Lose
  BY <1>3 DEF Lose, Disconnect, SnapshotInv
<1>4. CASE RequestReload
  BY <1>4, <1>1 DEF RequestReload, Request
<1>5. CASE Reconnect
  <2>1. coldDone => pc'["reconnect"] = "spawned"
    BY <1>5 DEF Reconnect, TypeOK, Slots
  <2>2. ~coldDone => "startup gap" \in windows'
    BY <1>5 DEF Reconnect
  <2> QED BY <2>1, <2>2 DEF SnapshotInv, Calm
<1>6. CASE BufferFrame
  <2>1. /\ wire # <<>> /\ wire' = Tail(wire) /\ buffer' = Append(buffer, Head(wire))
        /\ UNCHANGED <<truth, connected, buffering, pc, snap, windows>>
    BY <1>6 DEF BufferFrame
  <2>2. buffer' \o wire' = buffer \o wire
    BY <2>1, Moved
  <2> QED BY <2>1, <2>2 DEF SnapshotInv, Calm
<1>7. CASE Overflow
  BY <1>7 DEF Overflow, Disconnect, SnapshotInv
<1>8. CASE LiveFrame
  <2>1. /\ connected /\ ~buffering /\ windows \subseteq windows'
        /\ UNCHANGED <<connected, pc>>
    BY <1>8 DEF LiveFrame
  <2> QED BY <2>1 DEF SnapshotInv, Calm
<1>9. CASE BeginReconnect
  <2>1. /\ pc' = [pc EXCEPT !["reconnect"] = "fetching"] /\ buffering' = TRUE
        /\ "overlap" \notin windows' => ~Overlapping("reconnect")
    BY <1>9 DEF BeginReconnect, EnterWindows, StartBuffering
  <2>2. Calm' => \A s \in Resyncers : s # "reconnect" => ~Active(s)
    BY <2>1 DEF Calm, Overlapping, Resyncers
  <2>3. Calm' => \A s \in Resyncers : pc'[s] # "fetched"
    BY <2>1, <2>2 DEF Active, Resyncers, TypeOK
  <2> QED BY <2>1, <2>3 DEF SnapshotInv
<1>10. CASE BeginReload
  <2>1. /\ pc' = [pc EXCEPT !["reload"] = "fetching"] /\ buffering' = TRUE
        /\ "overlap" \notin windows' => ~Overlapping("reload")
    BY <1>10 DEF BeginReload, EnterWindows, StartBuffering
  <2>2. Calm' => \A s \in Resyncers : s # "reload" => ~Active(s)
    BY <2>1 DEF Calm, Overlapping, Resyncers
  <2>3. Calm' => \A s \in Resyncers : pc'[s] # "fetched"
    BY <2>1, <2>2 DEF Active, Resyncers, TypeOK
  <2> QED BY <2>1, <2>3 DEF SnapshotInv
<1>11. CASE BeginRefresh
  <2>1. /\ UNCHANGED <<connected, wire, buffer, buffering, truth>> /\ windows \subseteq windows'
        /\ pc'["reconnect"] # "spawned" => pc["reconnect"] # "spawned"
    BY <1>11 DEF BeginRefresh, TypeOK, Slots
  <2>2. \A o \in Resyncers : pc'[o] \in {"fetching", "fetched"} =>
                                pc'[o] = pc[o] /\ snap'[o] = snap[o]
    BY <1>11 DEF BeginRefresh, Resyncers, TypeOK
  <2> QED BY <1>1, <2>1, <2>2
<1>12. CASE LoadStartup
  <2>1. /\ pc["startup"] = "fetched" /\ pc' = [pc EXCEPT !["startup"] = "flushing"]
        /\ windows \subseteq windows'
    BY <1>12 DEF LoadStartup
  <2>2. Calm' => \A o \in Resyncers : pc'[o] \notin {"fetching", "fetched"}
    BY <2>1 DEF AloneInv, Calm, Active, Resyncers, Slots, TypeOK
  <2> QED BY <2>2 DEF SnapshotInv
<1>13. CASE SkipRefresh
  <2>1. /\ UNCHANGED <<connected, wire, buffer, buffering, truth>> /\ windows \subseteq windows'
        /\ pc'["reconnect"] # "spawned" => pc["reconnect"] # "spawned"
    BY <1>13 DEF SkipRefresh, Ends, TypeOK, Slots
  <2>2. \A o \in Resyncers : pc'[o] \in {"fetching", "fetched"} =>
                                pc'[o] = pc[o] /\ snap'[o] = snap[o]
    BY <1>13 DEF SkipRefresh, Ends, Resyncers, TypeOK
  <2> QED BY <1>1, <2>1, <2>2
<1>14. ASSUME NEW s \in Slots, Snapshot(s) PROVE SnapshotInv'
  <2>1. /\ pc[s] = "fetching" /\ pc' = [pc EXCEPT ![s] = "fetched"]
        /\ snap' = [snap EXCEPT ![s] = truth]
        /\ UNCHANGED <<connected, wire, buffering, buffer, truth, windows>>
    BY <1>14 DEF Snapshot
  <2>2. connected => \A k \in Keys : Overlay(truth, buffer \o wire, k) = truth[k]
    BY DEF FramesInv, FramesTell
  <2>3. \A o \in Resyncers :
           /\ o # s => pc'[o] = pc[o] /\ snap'[o] = snap[o]
           /\ o = s => pc'[o] = "fetched" /\ snap'[o] = truth
    BY <2>1 DEF Resyncers, TypeOK
  <2>4. pc'["reconnect"] # "spawned" => pc["reconnect"] # "spawned"
    BY <2>1 DEF TypeOK, Slots
  <2> SUFFICES ASSUME Calm, connected, pc["reconnect"] # "spawned", NEW o \in Resyncers
               PROVE  /\ pc'[o] \in {"fetching", "fetched"} => buffering
                      /\ pc'[o] = "fetched" =>
                            \A k \in Keys : Overlay(snap'[o], buffer \o wire, k) = truth[k]
    BY <2>1, <2>4 DEF SnapshotInv, Calm
  <2>5. CASE o = s
    BY <2>1, <2>2, <2>3, <2>5 DEF SnapshotInv
  <2>6. CASE o # s
    <3>1. pc'[o] = pc[o] /\ snap'[o] = snap[o]
      BY <2>3, <2>6
    <3>2. /\ pc[o] \in {"fetching", "fetched"} => buffering
          /\ pc[o] = "fetched" => \A k \in Keys : Overlay(snap[o], buffer \o wire, k) = truth[k]
      BY DEF SnapshotInv
    <3> QED BY <3>1, <3>2
  <2> QED BY <2>5, <2>6
<1>15. ASSUME NEW s \in Slots, Rebuild(s) PROVE SnapshotInv'
  <2>1. /\ pc[s] = "fetched"
        /\ pc' \in {[pc EXCEPT ![s] = "flushing"], [pc EXCEPT ![s] = "publishing"]}
        /\ windows \subseteq windows'
        /\ s = "refresh" /\ Overlapping(s) => "overlap" \in windows'
    BY <1>15 DEF Rebuild
  <2>2. Calm' => \A o \in Resyncers \ {s} : ~Active(o)
    <3>1. CASE s = "refresh"
      BY <2>1, <3>1 DEF Calm, Overlapping, Resyncers
    <3>2. CASE s # "refresh"
      BY <2>1, <3>2 DEF AloneInv, Calm, Active, Resyncers
    <3> QED BY <3>1, <3>2
  <2>3. Calm' => \A o \in Resyncers : pc'[o] \notin {"fetching", "fetched"}
    BY <2>1, <2>2 DEF Active, Resyncers, TypeOK
  <2> QED BY <2>3 DEF SnapshotInv
<1>16. ASSUME NEW s \in Slots, DrainPublished(s) PROVE SnapshotInv'
  <2>1. /\ pc[s] = "publishing" /\ pc' = [pc EXCEPT ![s] = "flushing"]
        /\ windows \subseteq windows'
    BY <1>16 DEF DrainPublished
  <2>2. Calm' => \A o \in Resyncers \ {s} : ~Active(o)
    BY <2>1 DEF AloneInv, Calm, Active, Resyncers
  <2>3. Calm' => \A o \in Resyncers : pc'[o] \notin {"fetching", "fetched"}
    BY <2>1, <2>2 DEF Active, Resyncers, TypeOK
  <2> QED BY <2>3 DEF SnapshotInv
<1>17. ASSUME NEW s \in Slots, Finish(s) PROVE SnapshotInv'
  <2>1. /\ UNCHANGED <<connected, wire, buffer, buffering, truth>> /\ windows \subseteq windows'
        /\ pc'["reconnect"] # "spawned" => pc["reconnect"] # "spawned"
    BY <1>17 DEF Finish, Flush, Ends, Request, TypeOK, Slots
  <2>2. \A o \in Resyncers : pc'[o] \in {"fetching", "fetched"} =>
                                pc'[o] = pc[o] /\ snap'[o] = snap[o]
    BY <1>17 DEF Finish, Flush, Ends, Request, Resyncers, TypeOK
  <2> QED BY <1>1, <2>1, <2>2
<1>18. ASSUME NEW s \in Slots, Fail(s) PROVE SnapshotInv'
  <2>1. /\ UNCHANGED <<connected, wire, buffer, buffering, truth>> /\ windows \subseteq windows'
        /\ pc'["reconnect"] # "spawned" => pc["reconnect"] # "spawned"
    BY <1>18 DEF Fail, Ends, TypeOK, Slots
  <2>2. \A o \in Resyncers : pc'[o] \in {"fetching", "fetched"} =>
                                pc'[o] = pc[o] /\ snap'[o] = snap[o]
    BY <1>18 DEF Fail, Ends, Resyncers, TypeOK
  <2> QED BY <1>1, <2>1, <2>2
<1>19. ASSUME NEW s \in Slots, FetchFails(s) PROVE SnapshotInv'
  <2>1. /\ UNCHANGED <<connected, wire, buffer, buffering, truth>> /\ windows \subseteq windows'
        /\ pc'["reconnect"] # "spawned" => pc["reconnect"] # "spawned"
    BY <1>19 DEF FetchFails, Ends, TypeOK, Slots
  <2>2. \A o \in Resyncers : pc'[o] \in {"fetching", "fetched"} =>
                                pc'[o] = pc[o] /\ snap'[o] = snap[o]
    BY <1>19 DEF FetchFails, Ends, Resyncers, TypeOK
  <2> QED BY <1>1, <2>1, <2>2
<1>20. CASE LivePublish
  BY <1>20, <1>1 DEF LivePublish, Flush
<1>21. CASE PublishOld
  BY <1>21, <1>1 DEF PublishOld
<1>22. CASE AbandonOld
  BY <1>22, <1>1 DEF AbandonOld
<1>23. CASE LoseBroker
  BY <1>23, <1>1 DEF LoseBroker
<1>24. CASE RegainBroker
  BY <1>24, <1>1 DEF RegainBroker, Flush
<1>25. CASE UNCHANGED vars
  BY <1>25, <1>1 DEF vars
<1> QED
  BY <1>2, <1>3, <1>4, <1>5, <1>6, <1>7, <1>8, <1>9, <1>10, <1>11, <1>12, <1>13,
         <1>14, <1>15, <1>16, <1>17, <1>18, <1>19, <1>20, <1>21, <1>22, <1>23, <1>24,
         <1>25
  DEF Next, Reader, Step

\* The same as Pending.
Awaited == timer \/ Fetching

\* NothingMissed, of the overlay.
StoreInv ==
    Calm /\ connected /\ ~Awaited =>
        \A k \in Keys : Overlay(store, buffer \o wire, k) = truth[k]

LEMMA StoreTells == StoreInv <=> NothingMissed
<1>1. Awaited <=> Pending
  BY DEF Awaited, Pending, Fetching, Resyncers
<1>2. \A k \in Keys : Overlay(store, buffer \o wire, k) = Settled(k)
  BY DEF Settled, Overlay
<1> QED BY <1>1, <1>2 DEF StoreInv, NothingMissed, Calm

LEMMA StoreInit == Init => StoreInv
<1>1. Init => Fetching
  BY DEF Init, Fetching, Resyncers, Slots
<1> QED BY <1>1 DEF StoreInv, Awaited

LEMMA StoreStep == TypeOK /\ Fetched /\ FramesInv /\ SnapshotInv /\ StoreInv /\ [Next]_vars => StoreInv'
<1> SUFFICES ASSUME TypeOK, Fetched, FramesInv, SnapshotInv, StoreInv, [Next]_vars PROVE StoreInv'
  OBVIOUS
<1>1. ASSUME UNCHANGED <<connected, wire, buffer, truth, store>>,
             windows \subseteq windows', Awaited => Awaited'
      PROVE  StoreInv'
  BY <1>1 DEF StoreInv, Calm
<1>2. ASSUME NEW k \in Keys, Change(k) PROVE StoreInv'
  <2>1. PICK v \in Values :
           /\ truth' = [truth EXCEPT ![k] = v]
           /\ wire' = IF connected THEN Append(wire, [key |-> k, val |-> v]) ELSE wire
    BY <1>2 DEF Change
  <2>2. UNCHANGED <<connected, buffer, store, pc, timer, windows>>
    BY <1>2 DEF Change
  <2> DEFINE e == [key |-> k, val |-> v]
  <2>3. e \in Frame /\ e.key = k /\ e.val = v
    BY DEF Frame
  <2> SUFFICES ASSUME Calm, connected, ~Awaited, NEW j \in Keys
               PROVE  Overlay(store, buffer \o wire', j) = truth'[j]
    BY <2>2 DEF StoreInv, Awaited, Fetching, Calm
  <2>4. Overlay(store, buffer \o wire, j) = truth[j]
    BY DEF StoreInv
  <2>5. wire' = Append(wire, e)
    BY <2>1
  <2> HIDE DEF e
  <2>6. Overlay(store, buffer \o Append(wire, e), j) =
           IF e.key = j THEN e.val ELSE Overlay(store, buffer \o wire, j)
    BY <2>3, Reported
  <2>7. truth'[j] = IF j = k THEN v ELSE truth[j]
    BY <2>1 DEF TypeOK, Config
  <2> QED BY <2>3, <2>4, <2>5, <2>6, <2>7
<1>3. CASE Lose
  BY <1>3 DEF Lose, Disconnect, StoreInv
<1>4. CASE RequestReload
  BY <1>4, <1>1 DEF RequestReload, Request, Awaited, Fetching
<1>5. CASE Reconnect
  <2>1. coldDone => pc'["reconnect"] = "spawned"
    BY <1>5 DEF Reconnect, TypeOK, Slots
  <2>2. ~coldDone => "startup gap" \in windows'
    BY <1>5 DEF Reconnect
  <2> QED BY <2>1, <2>2 DEF StoreInv, Awaited, Fetching, Calm, Resyncers, Slots
<1>6. CASE BufferFrame
  <2>1. /\ wire # <<>> /\ wire' = Tail(wire) /\ buffer' = Append(buffer, Head(wire))
        /\ UNCHANGED <<truth, connected, store, pc, timer, windows>>
    BY <1>6 DEF BufferFrame
  <2>2. buffer' \o wire' = buffer \o wire
    BY <2>1, Moved
  <2> QED BY <2>1, <2>2 DEF StoreInv, Awaited, Fetching, Calm
<1>7. CASE Overflow
  BY <1>7 DEF Overflow, Disconnect, StoreInv
<1>8. CASE LiveFrame
  <2> DEFINE one == <<Head(wire)>>
             rest == Tail(wire)
  <2>1. /\ wire # <<>> /\ connected /\ ~buffering /\ wire' = rest /\ store' = Applied(store, one)
        /\ windows \subseteq windows'
        /\ UNCHANGED <<truth, connected, buffer, pc>>
    BY <1>8 DEF LiveFrame
  <2>2. Head(wire).key = Topology => timer' = TRUE \/ "unseen topology" \in windows'
    BY <1>8 DEF LiveFrame, Request, TypeOK
  <2>3. timer => timer'
    BY <1>8 DEF LiveFrame, Request
  <2>4. Silent(one, Topology) <=> Head(wire).key # Topology
    BY OverlayOne
  <2>5. one \in Seq(Frame) /\ rest \in Seq(Frame) /\ wire = one \o rest
    BY <2>1, Arrival
  <2>6. buffer = <<>> /\ store \in Config /\ wire \in Seq(Frame)
    BY <2>1 DEF FramesInv, TypeOK
  <2> HIDE DEF one, rest
  <2>7. <<>> \o wire = wire
    BY <2>6, ConcatEmptySeq
  <2>8. CASE Head(wire).key = Topology
    BY <2>2, <2>8 DEF StoreInv, Awaited, Calm
  <2>9. CASE Head(wire).key # Topology
    <3>1. \A k \in Keys : Overlay(Applied(store, one), <<>> \o rest, k) = Overlay(store, one \o rest, k)
      BY <2>4, <2>5, <2>6, <2>9, Drained
    <3>2. \A k \in Keys : Overlay(store', buffer' \o wire', k) = Overlay(store, buffer \o wire, k)
      BY <2>1, <2>5, <2>6, <2>7, <3>1
    <3> QED BY <2>1, <2>3, <3>2 DEF StoreInv, Awaited, Fetching, Calm
  <2> QED BY <2>8, <2>9
<1>9. CASE BeginReconnect
  <2>1. pc'["reconnect"] = "fetching"
    BY <1>9 DEF BeginReconnect, TypeOK, Slots
  <2> QED BY <2>1 DEF StoreInv, Awaited, Fetching, Resyncers, Slots
<1>10. CASE BeginReload
  <2>1. pc'["reload"] = "fetching"
    BY <1>10 DEF BeginReload, TypeOK, Slots
  <2> QED BY <2>1 DEF StoreInv, Awaited, Fetching, Resyncers, Slots
<1>11. CASE BeginRefresh
  <2>1. /\ UNCHANGED <<connected, wire, buffer, truth, store, windows>>
        /\ timer => timer'
    BY <1>11 DEF BeginRefresh
  <2>2. Fetching => Fetching'
    BY <1>11 DEF BeginRefresh, Fetching, Resyncers, TypeOK
  <2> QED BY <1>1, <2>1, <2>2 DEF Awaited
<1>12. CASE LoadStartup
  <2> DEFINE config == snap["startup"]
  <2>1. /\ config \in Config /\ pc["startup"] = "fetched" /\ pc' = [pc EXCEPT !["startup"] = "flushing"]
        /\ store' = Applied(config, buffer) /\ buffer' = <<>>
        /\ windows \subseteq windows' /\ (Unseen(buffer) => "unseen topology" \in windows')
        /\ UNCHANGED <<truth, connected, wire, timer>>
    BY <1>12 DEF LoadStartup, Drain, Fetched, Slots
  <2> SUFFICES ASSUME Calm', connected, ~Awaited', NEW k \in Keys
               PROVE  Overlay(store', buffer' \o wire, k) = truth[k]
    BY <2>1 DEF StoreInv
  <2>2. pc["reconnect"] # "spawned"
    BY <2>1 DEF Awaited, Fetching, Resyncers, Slots, TypeOK
  <2>3. Overlay(config, buffer \o wire, k) = truth[k]
    BY <2>1, <2>2 DEF SnapshotInv, Calm, Resyncers, Slots
  <2>4. Silent(buffer, Topology)
    BY <2>1 DEF Calm, Unseen, Silent
  <2>5. Overlay(Applied(config, buffer), <<>> \o wire, k) = Overlay(config, buffer \o wire, k)
    <3>1. config \in Config /\ buffer \in Seq(Frame) /\ wire \in Seq(Frame)
      BY <2>1 DEF TypeOK
    <3> HIDE DEF config
    <3> QED BY <2>4, <3>1, Drained
  <2> QED BY <2>1, <2>3, <2>5
<1>13. CASE SkipRefresh
  <2>1. /\ UNCHANGED <<connected, wire, buffer, truth, store, windows>>
        /\ timer => timer'
    BY <1>13 DEF SkipRefresh, Ends
  <2>2. Fetching => Fetching'
    BY <1>13 DEF SkipRefresh, Ends, Fetching, Resyncers, TypeOK
  <2> QED BY <1>1, <2>1, <2>2 DEF Awaited
<1>14. ASSUME NEW s \in Slots, Snapshot(s) PROVE StoreInv'
  <2>1. /\ UNCHANGED <<connected, wire, buffer, truth, store, windows>>
        /\ timer => timer'
    BY <1>14 DEF Snapshot
  <2>2. Fetching => Fetching'
    BY <1>14 DEF Snapshot, Fetching, Resyncers, TypeOK
  <2> QED BY <1>1, <2>1, <2>2 DEF Awaited
<1>15. ASSUME NEW s \in Slots, Rebuild(s) PROVE StoreInv'
  <2> DEFINE config == snap[s]
             frames == IF s = "refresh" THEN <<>> ELSE buffer
  <2>1. /\ config \in Config /\ frames \in {<<>>, buffer} /\ frames \in Seq(Frame)
        /\ pc[s] = "fetched"
        /\ pc' \in {[pc EXCEPT ![s] = "flushing"], [pc EXCEPT ![s] = "publishing"]}
        /\ windows \subseteq windows'
        /\ UNCHANGED <<truth, connected, wire, timer>>
    BY <1>15, NoFrames DEF Rebuild, Fetched, TypeOK
  <2>2. \/ /\ store' = Applied(config, frames) /\ buffer' = <<>>
           /\ Unseen(frames) => "unseen topology" \in windows'
        \/ store' = config /\ buffer' = frames
    BY <1>15 DEF Rebuild, Drain
  <2>3. s = "refresh" => frames = <<>> /\ (config # truth => "stale snapshot" \in windows')
    BY <1>15 DEF Rebuild
  <2>4. s # "refresh" => frames = buffer
    OBVIOUS
  <2> SUFFICES ASSUME Calm', connected, ~Awaited', NEW k \in Keys
               PROVE  Overlay(store', buffer' \o wire, k) = truth[k]
    BY <2>1 DEF StoreInv
  <2>5. Overlay(config, frames \o wire, k) = truth[k]
    <3>1. CASE s = "refresh"
      <4>1. config = truth
        BY <2>3, <3>1 DEF Calm
      <4> HIDE DEF config, frames
      <4> QED BY <2>1, <4>1, Refetched
    <3>2. CASE s # "refresh"
      <4>1. pc["reconnect"] # "spawned"
        BY <2>1 DEF Awaited, Fetching, Resyncers, Slots, TypeOK
      <4> QED BY <2>1, <2>4, <3>2, <4>1 DEF SnapshotInv, Calm, Resyncers
    <3> QED BY <3>1, <3>2
  <2> HIDE DEF config, frames
  <2>6. Silent(frames, Topology) =>
           Overlay(Applied(config, frames), <<>> \o wire, k) = Overlay(config, frames \o wire, k)
    BY <2>1, Drained DEF TypeOK
  <2>7. ~Silent(frames, Topology) => Unseen(frames)
    BY DEF Unseen, Silent
  <2> QED BY <2>2, <2>5, <2>6, <2>7 DEF Calm
<1>16. ASSUME NEW s \in Slots, DrainPublished(s) PROVE StoreInv'
  <2>1. /\ store' = Applied(store, buffer) /\ buffer' = <<>>
        /\ windows \subseteq windows' /\ (Unseen(buffer) => "unseen topology" \in windows')
        /\ pc[s] = "publishing" /\ pc' = [pc EXCEPT ![s] = "flushing"]
        /\ UNCHANGED <<truth, connected, wire, timer>>
    BY <1>16 DEF DrainPublished, Drain
  <2>2. Awaited => Awaited'
    BY <2>1 DEF Awaited, Fetching, TypeOK, Resyncers
  <2>3. CASE Silent(buffer, Topology)
    <3>1. \A k \in Keys : Overlay(Applied(store, buffer), <<>> \o wire, k) = Overlay(store, buffer \o wire, k)
      BY <2>3, Drained DEF TypeOK
    <3> QED BY <2>1, <2>2, <3>1 DEF StoreInv, Calm
  <2>4. CASE ~Silent(buffer, Topology)
    <3>1. Unseen(buffer)
      BY <2>4 DEF Unseen, Silent
    <3> QED BY <2>1, <3>1 DEF StoreInv, Calm
  <2> QED BY <2>3, <2>4
<1>17. ASSUME NEW s \in Slots, Finish(s) PROVE StoreInv'
  <2>1. /\ UNCHANGED <<connected, wire, buffer, truth, store, windows>>
        /\ timer => timer'
    BY <1>17 DEF Finish, Flush, Ends, Request
  <2>2. Fetching => Fetching'
    BY <1>17 DEF Finish, Flush, Ends, Request, Fetching, Resyncers, TypeOK
  <2> QED BY <1>1, <2>1, <2>2 DEF Awaited
<1>18. ASSUME NEW s \in Slots, Fail(s) PROVE StoreInv'
  <2>1. /\ UNCHANGED <<connected, wire, buffer, truth, store, windows>>
        /\ timer => timer'
    BY <1>18 DEF Fail, Ends
  <2>2. Fetching => Fetching'
    BY <1>18 DEF Fail, Ends, Fetching, Resyncers, TypeOK
  <2> QED BY <1>1, <2>1, <2>2 DEF Awaited
<1>19. ASSUME NEW s \in Slots, FetchFails(s) PROVE StoreInv'
  <2>1. s # "refresh" => "refused fetch" \in windows'
    BY <1>19 DEF FetchFails
  <2>2. CASE s = "refresh"
    <3>1. /\ UNCHANGED <<connected, wire, buffer, truth, store, timer, windows>>
          /\ pc' = [pc EXCEPT !["refresh"] = "idle"]
      BY <1>19, <2>2 DEF FetchFails, Ends
    <3>2. Awaited => Awaited'
      BY <3>1 DEF Awaited, Fetching, Resyncers, TypeOK
    <3> QED BY <1>1, <3>1, <3>2
  <2> QED BY <2>1, <2>2 DEF StoreInv, Calm
<1>20. CASE LivePublish
  BY <1>20, <1>1 DEF LivePublish, Flush, Awaited, Fetching
<1>21. CASE PublishOld
  BY <1>21, <1>1 DEF PublishOld, Awaited, Fetching
<1>22. CASE AbandonOld
  BY <1>22, <1>1 DEF AbandonOld, Awaited, Fetching
<1>23. CASE LoseBroker
  BY <1>23, <1>1 DEF LoseBroker, Awaited, Fetching
<1>24. CASE RegainBroker
  BY <1>24, <1>1 DEF RegainBroker, Flush, Awaited, Fetching
<1>25. CASE UNCHANGED vars
  BY <1>25, <1>1 DEF vars, Awaited, Fetching
<1> QED
  BY <1>2, <1>3, <1>4, <1>5, <1>6, <1>7, <1>8, <1>9, <1>10, <1>11, <1>12, <1>13,
         <1>14, <1>15, <1>16, <1>17, <1>18, <1>19, <1>20, <1>21, <1>22, <1>23, <1>24,
         <1>25
  DEF Next, Reader, Step

\* The cycle of buffering, fetching, applying and draining loses no frame, for
\* any number of datapoints, changes and coroutines, with the connection lost
\* and the buffer overflowing at any moment: what the store says with the frames
\* on their way is what the SysAP has, unless one of the races was entered.
THEOREM NoFrameIsMissed == Spec => []NothingMissed
<1>1. Spec => []AloneInv
  BY AloneInit, AloneStep, Typed, PTL DEF Spec
<1>2. Spec => []SnapshotInv
  BY <1>1, SnapshotInit, SnapshotStep, Typed, Frames, PTL DEF Spec
<1>3. Spec => []StoreInv
  BY <1>2, StoreInit, StoreStep, Typed, Frames, PTL DEF Spec
<1> QED BY <1>3, StoreTells, PTL
====
