---- MODULE PublishPathProofs ----
(***************************************************************************)
(* Proofs about PublishPath, for every set of entities and every bound.    *)
(***************************************************************************)
EXTENDS PublishPath, FiniteSetTheorems, SequenceTheorems, TLAPS

\* The bound on store writes bounds the versions; a live publisher is below
\* the escalation threshold.
Bounded ==
    /\ \A e \in Entities : values[e] <= writes + 1
    /\ Alive => attempt < EscalationThreshold

\* A payload that a flush still awaits is the stored value, or its entity raced.
InFlightCurrent ==
    \A i \in DOMAIN outbox :
        outbox[i].by \in Flushers /\ outbox[i].idx \notin raced
            => outbox[i].payload = values[outbox[i].idx]

\* Nothing published or on its way to be is newer than the store.
NothingNewer ==
    /\ \A e \in Entities : lastPublished[e] <= values[e]
    /\ \A i \in DOMAIN outbox : outbox[i].payload <= values[outbox[i].idx]

IInv == TypeOK /\ Bounded /\ InFlightCurrent /\ NothingNewer /\ NoSilentDrop

USE EntitiesAssumption, BoundsAssumption

\* What leaves a queue is a message of it, what stays keeps its order.
LEMMA HeadTail ==
    ASSUME NEW q \in Seq(Message), q # <<>>
    PROVE  /\ Head(q) \in Message
           /\ Head(q) = q[1]
           /\ 1 \in DOMAIN q
           /\ Tail(q) \in Seq(Message)
           /\ \A i \in DOMAIN Tail(q) : i + 1 \in DOMAIN q /\ Tail(q)[i] = q[i + 1]
  OBVIOUS

\* What enters a queue is its last message.
LEMMA Appended ==
    ASSUME NEW q \in Seq(Message), NEW m \in Message
    PROVE  /\ Append(q, m) \in Seq(Message)
           /\ \A i \in DOMAIN Append(q, m) :
                 \/ Append(q, m)[i] = m
                 \/ i \in DOMAIN q /\ Append(q, m)[i] = q[i]
  OBVIOUS

LEMMA MessageFields ==
    ASSUME NEW m \in Message
    PROVE  m.idx \in Entities /\ m.payload \in Values /\ m.by \in Tasks
  BY DEF Message

LEMMA InitInv == Init => IInv
<1> SUFFICES ASSUME Init PROVE IInv
  OBVIOUS
<1>1. TypeOK
  <2>1. outbox \in Seq(Message) /\ wire \in Seq(Message)
    BY DEF Init
  <2>2. values \in [Entities -> Values] /\ attempt \in 0..EscalationThreshold
        /\ writes \in 0..MaxWrites /\ drops \in 0..MaxDrops
    BY DEF Init, Values
  <2> QED BY <2>1, <2>2 DEF Init, TypeOK
<1>2. Bounded /\ NothingNewer /\ NoSilentDrop /\ InFlightCurrent
  BY DEF Init, Bounded, InFlightCurrent, NothingNewer, NoSilentDrop
<1> QED BY <1>1, <1>2 DEF IInv

\* An action that leaves the store, the outbox and the recorded payloads alone
\* preserves what relates them.
LEMMA Undisturbed ==
    ASSUME IInv, TypeOK', Alive' => attempt' < EscalationThreshold,
           UNCHANGED <<values, dirty, writes, outbox, lastPublished, raced>>
    PROVE  IInv'
  BY DEF IInv, Bounded, InFlightCurrent, NothingNewer, NoSilentDrop

\* The await of the oldest message returns: a payload that is not current
\* belongs to a raced entity, so discarding its index drops nothing.
LEMMA ResumeInv ==
    ASSUME IInv, outbox # <<>>, Resume(Head(outbox)), TypeOK',
           UNCHANGED <<values, writes, runPc, attempt, raced>>
    PROVE  IInv'
<1> DEFINE m == Head(outbox)
<1> USE DEF IInv
<1>1. m \in Message /\ m = outbox[1] /\ 1 \in DOMAIN outbox
  BY HeadTail DEF TypeOK
<1>2. m.idx \in Entities
  BY <1>1, MessageFields
<1>3. \A i \in DOMAIN outbox' : i + 1 \in DOMAIN outbox /\ outbox'[i] = outbox[i + 1]
  BY HeadTail DEF TypeOK, Resume
<1>4. Bounded'
  BY DEF Bounded, Alive
<1>5. InFlightCurrent'
  BY <1>3 DEF InFlightCurrent
<1>6. CASE m.by \in Flushers
  <2>1. lastPublished' = [lastPublished EXCEPT ![m.idx] = m.payload] /\ dirty' = dirty \ {m.idx}
    BY <1>6 DEF Resume
  <2>2. m.payload <= values[m.idx]
    BY <1>1 DEF NothingNewer
  <2>3. m.idx \in raced \/ m.payload = values[m.idx]
    BY <1>1, <1>6 DEF InFlightCurrent
  <2>4. NothingNewer'
    BY <1>2, <1>3, <2>1, <2>2 DEF NothingNewer, TypeOK
  <2>5. NoSilentDrop'
    BY <1>2, <2>1, <2>3 DEF NoSilentDrop, TypeOK
  <2> QED BY <1>4, <1>5, <2>4, <2>5
<1>7. CASE m.by \notin Flushers
  <2>1. UNCHANGED <<lastPublished, dirty>>
    BY <1>7 DEF Resume
  <2>2. NothingNewer' /\ NoSilentDrop'
    BY <1>3, <2>1 DEF NothingNewer, NoSilentDrop
  <2> QED BY <1>4, <1>5, <2>2
<1> QED BY <1>6, <1>7

LEMMA StepInv == IInv /\ [Next]_vars => IInv'
<1> SUFFICES ASSUME IInv, [Next]_vars PROVE IInv'
  OBVIOUS
<1> USE DEF IInv
<1>1. ASSUME NEW e \in Entities, Apply(e) PROVE IInv'
  <2>1. /\ values' = [values EXCEPT ![e] = @ + 1] /\ writes' = writes + 1 /\ writes < MaxWrites
        /\ dirty' = dirty \cup {e} /\ UNCHANGED <<outbox, lastPublished, runPc, attempt>>
        /\ raced' = IF InFlight(e) THEN raced \cup {e} ELSE raced \ {e}
    BY <1>1 DEF Apply, Race, vars, storeVars, runVars, connVars, flushVars,
           repVars, netVars, history
  <2>2. values[e] + 1 \in Values /\ writes + 1 \in 0..MaxWrites
    BY <2>1 DEF TypeOK, Bounded, Values
  <2>3. TypeOK'
    BY <1>1, <2>1, <2>2 DEF Apply, Race, TypeOK, vars, storeVars, runVars, connVars, flushVars,
           repVars, netVars, history
  <2>4. Bounded'
    BY <2>1 DEF Bounded, TypeOK, Values, Alive
  <2>5. InFlightCurrent'
    <3>1. ASSUME NEW i \in DOMAIN outbox, outbox[i].by \in Flushers, outbox[i].idx \notin raced'
          PROVE  outbox[i].payload = values'[outbox[i].idx]
      <4>1. outbox[i].idx # e
        BY <2>1, <3>1 DEF InFlight
      <4>2. outbox[i].idx \notin raced
        BY <2>1, <3>1, <4>1
      <4> QED BY <2>1, <3>1, <4>1, <4>2 DEF InFlightCurrent, TypeOK
    <3> QED BY <2>1, <3>1 DEF InFlightCurrent
  <2>6. NothingNewer'
    <3>1. \A f \in Entities : values[f] <= values'[f]
      BY <2>1 DEF TypeOK, Values
    <3>2. \A i \in DOMAIN outbox : outbox[i].idx \in Entities /\ outbox[i].payload \in Nat
      BY MessageFields DEF TypeOK, Values
    <3> QED BY <2>1, <2>2, <3>1, <3>2 DEF NothingNewer, TypeOK, Values
  <2>7. NoSilentDrop'
    BY <2>1 DEF NoSilentDrop, TypeOK
  <2> QED BY <2>3, <2>4, <2>5, <2>6, <2>7
<1>2. ASSUME NEW e \in Entities, MarkUnchanged(e) PROVE IInv'
  <2>1. TypeOK'
    BY <1>2 DEF MarkUnchanged, TypeOK, vars, storeVars, runVars, connVars, flushVars,
           repVars, netVars, history
  <2>2. Bounded'
    BY <1>2 DEF MarkUnchanged, Bounded, TypeOK, Values, Alive, vars, storeVars, runVars, connVars, flushVars,
           repVars, netVars, history
  <2>3. InFlightCurrent' /\ NothingNewer' /\ NoSilentDrop'
    BY <1>2 DEF MarkUnchanged, InFlightCurrent, NothingNewer, NoSilentDrop, vars, storeVars, runVars, connVars, flushVars,
           repVars, netVars, history
  <2> QED BY <2>1, <2>2, <2>3
<1>3. ASSUME NEW t \in Flushers, PublishNext(t) PROVE IInv'
  <2>1. /\ UNCHANGED <<values, dirty, writes, runPc, attempt, lastPublished, raced, wire, broker>>
        /\ batch' \in [Flushers -> SUBSET Entities]
    BY <1>3 DEF PublishNext, TypeOK, vars, storeVars, runVars, connVars, flushVars,
           repVars, netVars, history
  <2>2. CASE UNCHANGED outbox
    <3>1. awaiting' \in [Tasks -> {"none", "queued", "broken"}]
      BY <1>3 DEF PublishNext, TypeOK
    <3>2. TypeOK'
      BY <1>3, <2>1, <2>2, <3>1 DEF PublishNext, TypeOK, vars, storeVars, runVars, connVars, flushVars,
           repVars, netVars, history
    <3> QED BY <2>1, <2>2, <3>2, Undisturbed DEF Alive, Bounded
  <2>3. ASSUME NEW e \in Entities,
               outbox' = Append(outbox, [idx |-> e, payload |-> values[e], by |-> t])
        PROVE  IInv'
    <3> DEFINE m == [idx |-> e, payload |-> values[e], by |-> t]
    <3>1. m \in Message
      BY <1>3 DEF Message, TypeOK, Flushers, Tasks
    <3>2. /\ outbox' \in Seq(Message)
          /\ \A i \in DOMAIN outbox' :
                outbox'[i] = m \/ (i \in DOMAIN outbox /\ outbox'[i] = outbox[i])
      BY <2>3, <3>1, Appended DEF TypeOK
    <3>3. TypeOK'
      BY <1>3, <2>1, <3>2 DEF PublishNext, TypeOK, vars, storeVars, runVars, connVars, flushVars,
           repVars, netVars, history
    <3>4. InFlightCurrent'
      BY <2>1, <3>2 DEF InFlightCurrent
    <3>5. values[e] <= values[e]
      BY DEF TypeOK, Values
    <3>6. NothingNewer'
      BY <2>1, <3>2, <3>5 DEF NothingNewer
    <3> QED BY <2>1, <3>3, <3>4, <3>6 DEF Bounded, NoSilentDrop, Alive
  <2>4. PICK e \in batch[t] :
            \/ UNCHANGED outbox
            \/ outbox' = Append(outbox, [idx |-> e, payload |-> values[e], by |-> t])
    BY <1>3 DEF PublishNext
  <2> QED BY <1>3, <2>2, <2>3, <2>4 DEF TypeOK
<1>4. CASE Written
  <2>1. Head(outbox) \in Message /\ Tail(outbox) \in Seq(Message)
    BY <1>4, HeadTail DEF Written, TypeOK
  <2>2. wire' \in Seq(Message)
    BY <1>4, <2>1, Appended DEF Written, TypeOK
  <2>3. TypeOK'
    BY <1>4, <2>1, <2>2, MessageFields DEF Written, Resume, TypeOK, vars, storeVars, runVars, connVars, flushVars,
           repVars, netVars, history
  <2> QED BY <1>4, <2>3, ResumeInv DEF Written, vars, storeVars, runVars, connVars, flushVars,
           repVars, netVars, history
<1>5. CASE Acked
  <2>1. Head(outbox) \in Message /\ Tail(outbox) \in Seq(Message)
    BY <1>5, HeadTail DEF Acked, TypeOK
  <2>2. broker' \in [Entities -> Values \cup {Forgotten}]
    BY <1>5, <2>1, MessageFields DEF Acked, Receive, TypeOK
  <2>3. TypeOK'
    BY <1>5, <2>1, <2>2, MessageFields DEF Acked, Resume, TypeOK, vars, storeVars, runVars, connVars, flushVars,
           repVars, netVars, history
  <2> QED BY <1>5, <2>3, ResumeInv DEF Acked, vars, storeVars, runVars, connVars, flushVars,
           repVars, netVars, history
<1>6. CASE RunFails
  <2>1. runPc' # "dead" => attempt' < EscalationThreshold
    BY <1>6 DEF RunFails, Escalates, TypeOK
  <2>2. attempt' \in 0..EscalationThreshold
    BY <1>6 DEF RunFails, TypeOK, Bounded, Alive
  <2>3. TypeOK'
    BY <1>6, <2>2 DEF RunFails, TypeOK, Flushers, Tasks, vars, storeVars, runVars, connVars, flushVars,
           repVars, netVars, history
  <2>4. UNCHANGED <<values, dirty, writes, outbox, lastPublished, raced>>
    BY <1>6 DEF RunFails, vars, storeVars, runVars, connVars, flushVars,
           repVars, netVars, history
  <2> QED BY <2>1, <2>3, <2>4, Undisturbed DEF Alive
<1>7. CASE Drop
  <2>1. outbox' = <<>> /\ wire' = <<>>
    BY <1>7 DEF Drop
  <2>2. outbox' \in Seq(Message) /\ wire' \in Seq(Message)
    BY <2>1
  <2>3. drops' \in 0..MaxDrops /\ awaiting' \in [Tasks -> {"none", "queued", "broken"}]
    BY <1>7 DEF Drop, TypeOK
  <2>4. broker' \in [Entities -> Values \cup {Forgotten}]
    BY <1>7 DEF Drop, TypeOK
  <2>5. TypeOK'
    BY <1>7, <2>2, <2>3, <2>4 DEF Drop, TypeOK, vars, storeVars, runVars, connVars, flushVars,
           repVars, netVars, history
  <2>6. InFlightCurrent' /\ (\A i \in DOMAIN outbox' : outbox'[i].payload <= values'[outbox'[i].idx])
    BY <2>1 DEF InFlightCurrent
  <2>7. UNCHANGED <<values, dirty, writes, runPc, attempt, lastPublished, raced>>
    BY <1>7 DEF Drop, vars, storeVars, runVars, connVars, flushVars,
           repVars, netVars, history
  <2> QED BY <2>5, <2>6, <2>7 DEF Bounded, NothingNewer, NoSilentDrop, Alive
<1>8. CASE RepublishNext
  <2>1. /\ UNCHANGED <<values, dirty, writes, runPc, attempt, lastPublished, raced, wire, broker>>
        /\ repTodo' \in SUBSET Entities
    BY <1>8 DEF RepublishNext, TypeOK, vars, storeVars, runVars, connVars, flushVars,
           repVars, netVars, history
  <2>2. awaiting' \in [Tasks -> {"none", "queued", "broken"}] /\ overtaken' \in SUBSET Entities
    <3>1. awaiting' \in [Tasks -> {"none", "queued", "broken"}]
      BY <1>8 DEF RepublishNext, TypeOK
    <3>2. PICK e \in repTodo : overtaken' = overtaken \/ overtaken' = overtaken \cup {e}
      BY <1>8 DEF RepublishNext
    <3>3. overtaken' \in SUBSET Entities
      <4>1. e \in Entities /\ overtaken \in SUBSET Entities
        BY DEF TypeOK
      <4> QED BY <3>2, <4>1, Zenon
    <3> QED BY <3>1, <3>3
  <2>3. CASE UNCHANGED outbox
    <3>1. TypeOK'
      BY <1>8, <2>1, <2>2, <2>3 DEF RepublishNext, TypeOK, vars, storeVars, runVars, connVars, flushVars,
           repVars, netVars, history
    <3> QED BY <2>1, <2>3, <3>1, Undisturbed DEF Alive, Bounded
  <2>4. ASSUME NEW e \in Entities,
               outbox' = Append(outbox, [idx |-> e, payload |-> lastPublished[e],
                                         by |-> "republish"])
        PROVE  IInv'
    <3> DEFINE m == [idx |-> e, payload |-> lastPublished[e], by |-> "republish"]
    <3>1. m \in Message /\ m.by \notin Flushers
      BY DEF Message, TypeOK, Flushers, Tasks
    <3>2. /\ outbox' \in Seq(Message)
          /\ \A i \in DOMAIN outbox' :
                outbox'[i] = m \/ (i \in DOMAIN outbox /\ outbox'[i] = outbox[i])
      BY <2>4, <3>1, Appended DEF TypeOK
    <3>3. TypeOK'
      BY <1>8, <2>1, <2>2, <3>2 DEF RepublishNext, TypeOK, vars, storeVars, runVars, connVars, flushVars,
           repVars, netVars, history
    <3>4. InFlightCurrent'
      BY <2>1, <3>1, <3>2 DEF InFlightCurrent
    <3>5. NothingNewer'
      BY <2>1, <3>2 DEF NothingNewer
    <3> QED BY <2>1, <3>3, <3>4, <3>5 DEF Bounded, NoSilentDrop, Alive
  <2>5. PICK e \in repTodo :
            \/ UNCHANGED outbox
            \/ outbox' = Append(outbox, [idx |-> e, payload |-> lastPublished[e],
                                         by |-> "republish"])
    BY <1>8 DEF RepublishNext
  <2> QED BY <2>3, <2>4, <2>5 DEF TypeOK
<1>9. CASE Arrive
  <2>1. Head(wire) \in Message /\ Tail(wire) \in Seq(Message)
    BY <1>9, HeadTail DEF Arrive, TypeOK
  <2>2. broker' \in [Entities -> Values \cup {Forgotten}]
    BY <1>9, <2>1, MessageFields DEF Arrive, Receive, TypeOK
  <2>3. TypeOK'
    BY <1>9, <2>1, <2>2 DEF Arrive, TypeOK, vars, storeVars, runVars, connVars, flushVars,
           repVars, netVars, history
  <2>4. UNCHANGED <<values, dirty, writes, runPc, attempt, outbox, lastPublished, raced>>
    BY <1>9 DEF Arrive, vars, storeVars, runVars, connVars, flushVars,
           repVars, netVars, history
  <2> QED BY <2>3, <2>4, Undisturbed DEF Alive, Bounded
<1>10. CASE Unacked
  <2>1. Head(outbox) \in Message
    BY <1>10, HeadTail DEF Unacked, TypeOK
  <2>2. broker' \in [Entities -> Values \cup {Forgotten}]
    BY <1>10, <2>1, MessageFields DEF Unacked, Receive, TypeOK
  <2>3. TypeOK'
    BY <1>10, <2>1, <2>2 DEF Unacked, TypeOK, vars, storeVars, runVars, connVars, flushVars,
           repVars, netVars, history
  <2>4. UNCHANGED <<values, dirty, writes, runPc, attempt, outbox, lastPublished, raced>>
    BY <1>10 DEF Unacked, vars, storeVars, runVars, connVars, flushVars,
           repVars, netVars, history
  <2> QED BY <2>3, <2>4, Undisturbed DEF Alive, Bounded
<1>11. CASE RunWakes
  <2>1. TypeOK'
    BY <1>11 DEF RunWakes, TypeOK, vars, storeVars, runVars, connVars, flushVars,
           repVars, netVars, history
  <2>2. Alive' => attempt' < EscalationThreshold
    BY <1>11 DEF RunWakes, Alive, Bounded, vars, storeVars, runVars, connVars, flushVars,
           repVars, netVars, history
  <2>3. UNCHANGED <<values, dirty, writes, outbox, lastPublished, raced>>
    BY <1>11 DEF RunWakes, vars, storeVars, runVars, connVars, flushVars,
           repVars, netVars, history
  <2> QED BY <2>1, <2>2, <2>3, Undisturbed
<1>12. CASE RunFlushes
  <2>1. TypeOK'
    BY <1>12 DEF RunFlushes, TypeOK, Flushers, Tasks, vars, storeVars, runVars, connVars, flushVars,
           repVars, netVars, history
  <2>2. Alive' => attempt' < EscalationThreshold
    BY <1>12 DEF RunFlushes, Alive, Bounded, vars, storeVars, runVars, connVars, flushVars,
           repVars, netVars, history
  <2>3. UNCHANGED <<values, dirty, writes, outbox, lastPublished, raced>>
    BY <1>12 DEF RunFlushes, vars, storeVars, runVars, connVars, flushVars,
           repVars, netVars, history
  <2> QED BY <2>1, <2>2, <2>3, Undisturbed
<1>13. CASE RunFlushed
  <2>1. TypeOK'
    BY <1>13 DEF RunFlushed, TypeOK, vars, storeVars, runVars, connVars, flushVars,
           repVars, netVars, history
  <2>2. Alive' => attempt' < EscalationThreshold
    BY <1>13 DEF RunFlushed, Alive, Bounded, vars, storeVars, runVars, connVars, flushVars,
           repVars, netVars, history
  <2>3. UNCHANGED <<values, dirty, writes, outbox, lastPublished, raced>>
    BY <1>13 DEF RunFlushed, vars, storeVars, runVars, connVars, flushVars,
           repVars, netVars, history
  <2> QED BY <2>1, <2>2, <2>3, Undisturbed
<1>14. CASE RunRestarts
  <2>1. TypeOK'
    BY <1>14 DEF RunRestarts, TypeOK, vars, storeVars, runVars, connVars, flushVars,
           repVars, netVars, history
  <2>2. Alive' => attempt' < EscalationThreshold
    BY <1>14 DEF RunRestarts, Alive, Bounded, vars, storeVars, runVars, connVars, flushVars,
           repVars, netVars, history
  <2>3. UNCHANGED <<values, dirty, writes, outbox, lastPublished, raced>>
    BY <1>14 DEF RunRestarts, vars, storeVars, runVars, connVars, flushVars,
           repVars, netVars, history
  <2> QED BY <2>1, <2>2, <2>3, Undisturbed
<1>15. CASE Connect
  <2>1. TypeOK'
    BY <1>15 DEF Connect, TypeOK, vars, storeVars, runVars, connVars, flushVars,
           repVars, netVars, history
  <2>2. Alive' => attempt' < EscalationThreshold
    BY <1>15 DEF Connect, Alive, Bounded, vars, storeVars, runVars, connVars, flushVars,
           repVars, netVars, history
  <2>3. UNCHANGED <<values, dirty, writes, outbox, lastPublished, raced>>
    BY <1>15 DEF Connect, vars, storeVars, runVars, connVars, flushVars,
           repVars, netVars, history
  <2> QED BY <2>1, <2>2, <2>3, Undisturbed
<1>16. CASE ReconnectFlushes
  <2>1. TypeOK'
    BY <1>16 DEF ReconnectFlushes, TypeOK, Flushers, Tasks, vars, storeVars, runVars, connVars, flushVars,
           repVars, netVars, history
  <2>2. Alive' => attempt' < EscalationThreshold
    BY <1>16 DEF ReconnectFlushes, Alive, Bounded, vars, storeVars, runVars, connVars, flushVars,
           repVars, netVars, history
  <2>3. UNCHANGED <<values, dirty, writes, outbox, lastPublished, raced>>
    BY <1>16 DEF ReconnectFlushes, vars, storeVars, runVars, connVars, flushVars,
           repVars, netVars, history
  <2> QED BY <2>1, <2>2, <2>3, Undisturbed
<1>17. CASE ReconnectFlushed
  <2>1. TypeOK'
    BY <1>17 DEF ReconnectFlushed, TypeOK, vars, storeVars, runVars, connVars, flushVars,
           repVars, netVars, history
  <2>2. Alive' => attempt' < EscalationThreshold
    BY <1>17 DEF ReconnectFlushed, Alive, Bounded, vars, storeVars, runVars, connVars, flushVars,
           repVars, netVars, history
  <2>3. UNCHANGED <<values, dirty, writes, outbox, lastPublished, raced>>
    BY <1>17 DEF ReconnectFlushed, vars, storeVars, runVars, connVars, flushVars,
           repVars, netVars, history
  <2> QED BY <2>1, <2>2, <2>3, Undisturbed
<1>18. CASE ReconnectFails
  <2>1. TypeOK'
    BY <1>18 DEF ReconnectFails, TypeOK, Flushers, Tasks, vars, storeVars, runVars, connVars, flushVars,
           repVars, netVars, history
  <2>2. Alive' => attempt' < EscalationThreshold
    BY <1>18 DEF ReconnectFails, Alive, Bounded, vars, storeVars, runVars, connVars, flushVars,
           repVars, netVars, history
  <2>3. UNCHANGED <<values, dirty, writes, outbox, lastPublished, raced>>
    BY <1>18 DEF ReconnectFails, vars, storeVars, runVars, connVars, flushVars,
           repVars, netVars, history
  <2> QED BY <2>1, <2>2, <2>3, Undisturbed
<1>19. CASE ConnectionLost
  <2>1. TypeOK'
    BY <1>19 DEF ConnectionLost, TypeOK, Flushers, Tasks, vars, storeVars, runVars, connVars, flushVars,
           repVars, netVars, history
  <2>2. Alive' => attempt' < EscalationThreshold
    BY <1>19 DEF ConnectionLost, Alive, Bounded, vars, storeVars, runVars, connVars, flushVars,
           repVars, netVars, history
  <2>3. UNCHANGED <<values, dirty, writes, outbox, lastPublished, raced>>
    BY <1>19 DEF ConnectionLost, vars, storeVars, runVars, connVars, flushVars,
           repVars, netVars, history
  <2> QED BY <2>1, <2>2, <2>3, Undisturbed
<1>20. CASE RepublishStarts
  <2>1. TypeOK'
    BY <1>20 DEF RepublishStarts, TypeOK, vars, storeVars, runVars, connVars, flushVars,
           repVars, netVars, history
  <2>2. Alive' => attempt' < EscalationThreshold
    BY <1>20 DEF RepublishStarts, Alive, Bounded, vars, storeVars, runVars, connVars, flushVars,
           repVars, netVars, history
  <2>3. UNCHANGED <<values, dirty, writes, outbox, lastPublished, raced>>
    BY <1>20 DEF RepublishStarts, vars, storeVars, runVars, connVars, flushVars,
           repVars, netVars, history
  <2> QED BY <2>1, <2>2, <2>3, Undisturbed
<1>21. CASE RepublishEnds
  <2>1. TypeOK'
    BY <1>21 DEF RepublishEnds, TypeOK, Flushers, Tasks, vars, storeVars, runVars, connVars, flushVars,
           repVars, netVars, history
  <2>2. Alive' => attempt' < EscalationThreshold
    BY <1>21 DEF RepublishEnds, Alive, Bounded, vars, storeVars, runVars, connVars, flushVars,
           repVars, netVars, history
  <2>3. UNCHANGED <<values, dirty, writes, outbox, lastPublished, raced>>
    BY <1>21 DEF RepublishEnds, vars, storeVars, runVars, connVars, flushVars,
           repVars, netVars, history
  <2> QED BY <2>1, <2>2, <2>3, Undisturbed
<1>22. CASE UNCHANGED vars
  <2>1. TypeOK' /\ (Alive' => attempt' < EscalationThreshold)
    BY <1>22 DEF TypeOK, Alive, Bounded, vars, storeVars, runVars, connVars, flushVars,
           repVars, netVars, history
  <2> QED BY <1>22, <2>1, Undisturbed DEF vars, storeVars, runVars, connVars, flushVars,
           repVars, netVars, history
<1> QED
  BY <1>1, <1>2, <1>3, <1>4, <1>5, <1>6, <1>7, <1>8, <1>9, <1>10, <1>11, <1>12,
     <1>13, <1>14, <1>15, <1>16, <1>17, <1>18, <1>19, <1>20, <1>21, <1>22
     DEF Next, Runner, Connection, Republish, Network, Flushers

LEMMA Invariance == Spec => []IInv
<1>1. Init => IInv
  BY InitInv
<1>2. IInv /\ [Next]_vars => IInv'
  BY StepInv
<1> QED BY <1>1, <1>2, PTL DEF Spec

\* Every variable of the publish path keeps its type.
THEOREM TypeCorrect == Spec => []TypeOK
<1>1. IInv => TypeOK
  BY DEF IInv
<1> QED BY <1>1, Invariance, PTL

\* A stored value that was never published successfully keeps its entity dirty,
\* unless it was stored while flush awaited a publish of the same entity.
THEOREM NothingDropped == Spec => []NoSilentDrop
<1>1. IInv => NoSilentDrop
  BY DEF IInv
<1> QED BY <1>1, Invariance, PTL

\* The return of an awaited publish is a confirmation: of the stored value, or
\* of an outdated one for an entity that stays owed.
LEMMA ResumeConfirms ==
    ASSUME IInv, outbox # <<>>, Resume(Head(outbox)), UNCHANGED <<values, raced>>
    PROVE  [Delivery!Next]_Delivery!vars
<1> DEFINE m == Head(outbox)
<1> USE DEF IInv
<1>1. m \in Message /\ m = outbox[1] /\ 1 \in DOMAIN outbox
  BY HeadTail DEF TypeOK
<1>2. m.idx \in Entities /\ m.payload \in Values
  BY <1>1, MessageFields
<1>3. CASE m.by \notin Flushers
  BY <1>3 DEF Resume, Delivery!vars
<1>4. CASE m.by \in Flushers
  <2>1. lastPublished' = [lastPublished EXCEPT ![m.idx] = m.payload] /\ dirty' = dirty \ {m.idx}
    BY <1>4 DEF Resume
  <2>2. CASE m.idx \in raced
    <3>1. m.payload <= values[m.idx]
      BY <1>1 DEF NothingNewer
    <3>2. dirty' \cup raced' = dirty \cup raced
      BY <2>1, <2>2
    <3>3. Delivery!ConfirmOutdated(m.idx)
      BY <1>2, <2>1, <2>2, <3>1, <3>2 DEF Delivery!ConfirmOutdated
    <3> QED BY <1>2, <3>3 DEF Delivery!Next
  <2>3. CASE m.idx \notin raced
    <3>1. m.payload = values[m.idx]
      BY <1>1, <1>4, <2>3 DEF InFlightCurrent
    <3>2. dirty' \cup raced' = (dirty \cup raced) \ {m.idx}
      BY <2>1, <2>3
    <3>3. Delivery!Confirm(m.idx)
      BY <2>1, <3>1, <3>2 DEF Delivery!Confirm
    <3> QED BY <1>2, <3>3 DEF Delivery!Next
  <2> QED BY <2>2, <2>3
<1> QED BY <1>3, <1>4

LEMMA StepDelivers == IInv /\ TypeOK' /\ [Next]_vars => [Delivery!Next]_Delivery!vars
<1> SUFFICES ASSUME IInv, TypeOK', [Next]_vars PROVE [Delivery!Next]_Delivery!vars
  OBVIOUS
<1>1. ASSUME NEW e \in Entities, Apply(e) PROVE Delivery!Next
  <2>1. /\ values' = [values EXCEPT ![e] = @ + 1] /\ UNCHANGED lastPublished
        /\ dirty' = dirty \cup {e}
        /\ raced' = IF InFlight(e) THEN raced \cup {e} ELSE raced \ {e}
    BY <1>1 DEF Apply, Race
  <2>2. values[e] \in Nat /\ values'[e] = values[e] + 1 /\ values'[e] \in Values
    BY <2>1 DEF IInv, TypeOK, Values
  <2>3. dirty' \cup raced' = (dirty \cup raced) \cup {e}
    BY <2>1
  <2>4. \E v \in Values : v >= values[e] /\ values' = [values EXCEPT ![e] = v]
    <3>1. values' = [values EXCEPT ![e] = values[e] + 1]
      BY <2>1
    <3>2. values[e] + 1 \in Values /\ values[e] + 1 >= values[e]
      BY <2>2
    <3> QED BY <3>1, <3>2
  <2>5. UNCHANGED lastPublished
    BY <2>1
  <2>6. Delivery!Change(e)
    BY <2>3, <2>4, <2>5 DEF Delivery!Change
  <2> QED BY <2>6 DEF Delivery!Next
<1>2. ASSUME NEW e \in Entities, MarkUnchanged(e) PROVE Delivery!Next
  <2>1. UNCHANGED <<values, lastPublished, raced>> /\ dirty' = dirty \cup {e}
    BY <1>2 DEF MarkUnchanged, history
  <2>2. \E v \in Values : v >= values[e] /\ values' = [values EXCEPT ![e] = v]
    <3>1. values[e] \in Values /\ values[e] >= values[e]
      BY DEF IInv, TypeOK, Values
    <3>2. values' = [values EXCEPT ![e] = values[e]]
      BY <2>1 DEF IInv, TypeOK
    <3> QED BY <3>1, <3>2
  <2>3. dirty' \cup raced' = (dirty \cup raced) \cup {e}
    BY <2>1
  <2>4. Delivery!Change(e)
    BY <2>1, <2>2, <2>3 DEF Delivery!Change
  <2> QED BY <2>4 DEF Delivery!Next
<1>3. CASE Written
  BY <1>3, ResumeConfirms DEF Written, history
<1>4. CASE Acked
  BY <1>4, ResumeConfirms DEF Acked, history
<1>5. ASSUME UNCHANGED <<values, dirty, lastPublished, raced>>
      PROVE  [Delivery!Next]_Delivery!vars
  BY <1>5 DEF Delivery!vars
<1>6. ASSUME NEW t \in Flushers, PublishNext(t) PROVE [Delivery!Next]_Delivery!vars
  BY <1>5, <1>6 DEF PublishNext, storeVars, history
<1>7. CASE RunWakes
  BY <1>5, <1>7 DEF RunWakes, storeVars, history
<1>8. CASE RunFlushes
  BY <1>5, <1>8 DEF RunFlushes, storeVars, history
<1>9. CASE RunFlushed
  BY <1>5, <1>9 DEF RunFlushed, storeVars, history
<1>10. CASE RunFails
  BY <1>5, <1>10 DEF RunFails, storeVars, history
<1>11. CASE RunRestarts
  BY <1>5, <1>11 DEF RunRestarts, storeVars, history
<1>12. CASE Connect
  BY <1>5, <1>12 DEF Connect, storeVars, history
<1>13. CASE ReconnectFlushes
  BY <1>5, <1>13 DEF ReconnectFlushes, storeVars, history
<1>14. CASE ReconnectFlushed
  BY <1>5, <1>14 DEF ReconnectFlushed, storeVars, history
<1>15. CASE ReconnectFails
  BY <1>5, <1>15 DEF ReconnectFails, storeVars, history
<1>16. CASE ConnectionLost
  BY <1>5, <1>16 DEF ConnectionLost, storeVars, history
<1>17. CASE RepublishStarts
  BY <1>5, <1>17 DEF RepublishStarts, storeVars, history
<1>18. CASE RepublishNext
  BY <1>5, <1>18 DEF RepublishNext, storeVars, history
<1>19. CASE RepublishEnds
  BY <1>5, <1>19 DEF RepublishEnds, storeVars, history
<1>20. CASE Arrive
  BY <1>5, <1>20 DEF Arrive, storeVars, history
<1>21. CASE Unacked
  BY <1>5, <1>21 DEF Unacked, storeVars, history
<1>22. CASE Drop
  BY <1>5, <1>22 DEF Drop, storeVars, history
<1>23. CASE UNCHANGED vars
  BY <1>5, <1>23 DEF vars, storeVars, history
<1> QED
  BY <1>1, <1>2, <1>3, <1>4, <1>5, <1>6, <1>7, <1>8, <1>9, <1>10, <1>11, <1>12,
     <1>13, <1>14, <1>15, <1>16, <1>17, <1>18, <1>19, <1>20, <1>21, <1>22, <1>23
     DEF Next, Runner, Connection, Republish, Network, Flushers

\* The publish path implements the abstract promise: outside the owed entities
\* the payload last published is the stored one.
THEOREM Implements == Spec => DeliverySpec
<1>1. Init => Delivery!Init
  <2> SUFFICES ASSUME Init PROVE Delivery!Init
    OBVIOUS
  <2>1. TypeOK
    BY InitInv DEF IInv
  <2> QED BY <2>1 DEF Init, Delivery!Init, TypeOK
<1>2. IInv /\ IInv' /\ [Next]_vars => [Delivery!Next]_Delivery!vars
  BY StepDelivers DEF IInv
<1> QED BY <1>1, <1>2, Invariance, PTL DEF Spec, DeliverySpec, Delivery!Spec
----------------------------------------------------------------------------
(* What the broker retains once a queue of messages has arrived.           *)

\* No message of the queue is of entity e.
Without(q, e) == \A i \in DOMAIN q : q[i].idx # e

\* What the broker, that retains b for e, retains after the queue.
Retained(q, b, e) ==
    LET mine == {i \in DOMAIN q : q[i].idx = e}
    IN  IF mine = {} THEN b ELSE q[Max(mine)].payload

\* The i-th message is the last one of entity e.
LastOf(q, e, i) ==
    /\ i \in DOMAIN q
    /\ q[i].idx = e
    /\ \A j \in DOMAIN q : q[j].idx = e => j <= i

\* A nonempty set of numbers below a bound has a greatest one.
LEMMA Greatest ==
    ASSUME NEW S \in SUBSET Nat, NEW n \in Nat, \A s \in S : s <= n, S # {}
    PROVE  \E k \in S : \A j \in S : j <= k
<1> DEFINE T == {k..n : k \in S}
<1>1. T \subseteq FiniteSubsetsOf(Nat) /\ T # {}
  <2>1. \A k \in S : k..n \in SUBSET Nat /\ IsFiniteSet(k..n)
    BY FS_Interval
  <2> QED BY <2>1 DEF FiniteSubsetsOf
<1>2. PICK x \in T : \A y \in T : ~ (<<y, x>> \in StrictSubsetOrdering(Nat))
  BY <1>1, FS_StrictSubsetOrderingWellFounded, WFMin
<1>3. PICK k \in S : x = k..n
  OBVIOUS
<1>4. ASSUME NEW j \in S PROVE j <= k
  <2> SUFFICES ASSUME ~(j <= k) PROVE FALSE
    OBVIOUS
  <2>1. j..n \subseteq k..n /\ k \in k..n /\ k \notin j..n
    OBVIOUS
  <2>2. <<j..n, k..n>> \in StrictSubsetOrdering(Nat)
    BY <2>1 DEF StrictSubsetOrdering
  <2> QED BY <1>2, <1>3, <2>2
<1> QED BY <1>4

\* Max returns the greatest element.
LEMMA MaxIs ==
    ASSUME NEW S \in SUBSET Nat, NEW k \in S, \A j \in S : j <= k
    PROVE  Max(S) = k
<1>1. \A y \in S : k >= y
  OBVIOUS
<1>2. Max(S) \in S /\ \A y \in S : Max(S) >= y
  BY <1>1 DEF Max
<1> DEFINE m == Max(S)
<1>3. m \in Nat /\ k \in Nat /\ m <= k /\ m >= k
  BY <1>2
<1> HIDE DEF m
<1>4. m = k
  BY <1>3
<1> QED BY <1>4 DEF m

LEMMA LastExists ==
    ASSUME NEW q \in Seq(Message), NEW e, ~Without(q, e)
    PROVE  \E i \in DOMAIN q : LastOf(q, e, i)
<1> DEFINE T == {i \in DOMAIN q : q[i].idx = e}
<1>1. Len(q) \in Nat /\ DOMAIN q = 1..Len(q)
  BY LenProperties
<1>2. T \in SUBSET Nat /\ T # {} /\ \A i \in T : i <= Len(q)
  BY <1>1 DEF Without
<1>3. PICK i \in T : \A l \in T : l <= i
  <2> HIDE DEF T
  <2> QED BY <1>1, <1>2, Greatest
<1> QED BY <1>3 DEF LastOf

LEMMA RetainedWithout ==
    ASSUME NEW q, NEW e, Without(q, e), NEW b
    PROVE  Retained(q, b, e) = b
  BY DEF Without, Retained

LEMMA RetainedLast ==
    ASSUME NEW q \in Seq(Message), NEW e, NEW i, LastOf(q, e, i), NEW b
    PROVE  Retained(q, b, e) = q[i].payload
<1> DEFINE T == {j \in DOMAIN q : q[j].idx = e}
<1>1. T \in SUBSET Nat /\ i \in T /\ \A j \in T : j <= i
  BY LenProperties DEF LastOf
<1>2. Max(T) = i
  <2> HIDE DEF T
  <2> QED BY <1>1, MaxIs
<1> QED BY <1>1, <1>2 DEF Retained

\* What was retained before matters only where the queue is silent.
LEMMA RetainedAnyway ==
    ASSUME NEW q \in Seq(Message), NEW e, ~Without(q, e), NEW b, NEW c
    PROVE  Retained(q, b, e) = Retained(q, c, e)
<1>1. PICK i \in DOMAIN q : LastOf(q, e, i)
  BY LastExists
<1> QED BY <1>1, RetainedLast

\* One queue behind another.
LEMMA RetainedConcat ==
    ASSUME NEW f \in Seq(Message), NEW g \in Seq(Message), NEW e, NEW b
    PROVE  Retained(f \o g, b, e) = Retained(g, Retained(f, b, e), e)
<1>1. /\ f \o g \in Seq(Message) /\ Len(f \o g) = Len(f) + Len(g)
      /\ \A i \in 1..(Len(f) + Len(g)) : (f \o g)[i] = IF i <= Len(f) THEN f[i] ELSE g[i - Len(f)]
  BY ConcatProperties
<1>2. /\ Len(f) \in Nat /\ Len(g) \in Nat /\ DOMAIN f = 1..Len(f) /\ DOMAIN g = 1..Len(g)
      /\ DOMAIN (f \o g) = 1..(Len(f) + Len(g))
  BY <1>1, LenProperties
<1> DEFINE h == f \o g
<1>3. \A i \in DOMAIN f : i \in DOMAIN h /\ h[i] = f[i]
  BY <1>1, <1>2
<1>4. ASSUME NEW i \in DOMAIN g PROVE Len(f) + i \in DOMAIN h /\ h[Len(f) + i] = g[i]
  <2>1. Len(f) + i \in 1..(Len(f) + Len(g)) /\ ~(Len(f) + i <= Len(f)) /\ (Len(f) + i) - Len(f) = i
    BY <1>2
  <2> QED BY <1>1, <1>2, <2>1
<1>5. ASSUME NEW j \in DOMAIN h PROVE j \in DOMAIN f \/ \E i \in DOMAIN g : j = Len(f) + i
  <2>1. CASE ~(j <= Len(f))
    <3>1. j - Len(f) \in DOMAIN g /\ j = Len(f) + (j - Len(f))
      BY <1>2, <2>1
    <3> QED BY <3>1
  <2>2. CASE j <= Len(f)
    BY <1>2, <2>2
  <2> QED BY <2>1, <2>2
<1>6. h \in Seq(Message) /\ \A i \in DOMAIN f, j \in DOMAIN g : i < Len(f) + j
  BY <1>1, <1>2
<1> HIDE DEF h
<1>7. CASE ~Without(g, e)
  <2>1. PICK i \in DOMAIN g : LastOf(g, e, i)
    BY <1>7, LastExists
  <2>2. LastOf(h, e, Len(f) + i)
    <3>1. Len(f) + i \in DOMAIN h /\ h[Len(f) + i].idx = e
      BY <1>4, <2>1 DEF LastOf
    <3>2. ASSUME NEW j \in DOMAIN h, h[j].idx = e PROVE j <= Len(f) + i
      <4>1. CASE j \in DOMAIN f
        BY <1>2, <1>6, <4>1
      <4>2. ASSUME NEW l \in DOMAIN g, j = Len(f) + l PROVE j <= Len(f) + i
        <5>1. l <= i
          BY <1>4, <2>1, <3>2, <4>2 DEF LastOf
        <5> QED BY <1>2, <4>2, <5>1
      <4> QED BY <1>5, <4>1, <4>2
    <3> QED BY <3>1, <3>2 DEF LastOf
  <2>3. Retained(h, b, e) = h[Len(f) + i].payload
    BY <1>6, <2>2, RetainedLast
  <2>4. Retained(g, Retained(f, b, e), e) = g[i].payload
    BY <2>1, RetainedLast
  <2> QED BY <1>4, <2>3, <2>4 DEF h
<1>8. CASE Without(g, e) /\ ~Without(f, e)
  <2>1. PICK i \in DOMAIN f : LastOf(f, e, i)
    BY <1>8, LastExists
  <2>2. LastOf(h, e, i)
    BY <1>3, <1>4, <1>5, <1>8, <2>1 DEF LastOf, Without
  <2>3. Retained(h, b, e) = h[i].payload /\ Retained(f, b, e) = f[i].payload
    BY <1>6, <2>1, <2>2, RetainedLast
  <2> QED BY <1>3, <1>8, <2>3, RetainedWithout DEF h
<1>9. CASE Without(g, e) /\ Without(f, e)
  <2>1. Without(h, e)
    BY <1>3, <1>4, <1>5, <1>9 DEF Without
  <2> QED BY <1>9, <2>1, RetainedWithout DEF h
<1> QED BY <1>7, <1>8, <1>9

\* What one message leaves.
Leaves(m, b, e) == IF m.idx = e THEN m.payload ELSE b

LEMMA RetainedOne ==
    ASSUME NEW m \in Message, NEW e, NEW b
    PROVE  Retained(<<m>>, b, e) = Leaves(m, b, e)
<1> DEFINE one == <<m>>
<1>1. one \in Seq(Message) /\ DOMAIN one = {1} /\ one[1] = m
  OBVIOUS
<1> HIDE DEF one
<1>2. CASE m.idx = e
  <2>1. LastOf(one, e, 1)
    BY <1>1, <1>2 DEF LastOf
  <2>2. Retained(one, b, e) = m.payload
    BY <1>1, <2>1, RetainedLast
  <2> QED BY <1>2, <2>2 DEF one, Leaves
<1>3. CASE m.idx # e
  <2>1. Without(one, e)
    BY <1>1, <1>3 DEF Without
  <2>2. Retained(one, b, e) = b
    BY <2>1, RetainedWithout
  <2> QED BY <1>3, <2>2 DEF one, Leaves
<1> QED BY <1>2, <1>3

LEMMA RetainedAppend ==
    ASSUME NEW q \in Seq(Message), NEW m \in Message, NEW e, NEW b
    PROVE  Retained(Append(q, m), b, e) = Leaves(m, Retained(q, b, e), e)
<1> DEFINE one == <<m>>
<1>1. one \in Seq(Message) /\ Append(q, m) = q \o one
  BY AppendIsConcat
<1>2. \A c : Retained(one, c, e) = Leaves(m, c, e)
  BY RetainedOne
<1> HIDE DEF one
<1>3. Retained(q \o one, b, e) = Retained(one, Retained(q, b, e), e)
  BY <1>1, RetainedConcat
<1> QED BY <1>1, <1>2, <1>3

\* The oldest message may arrive, and arrive again, before the others.
LEMMA RetainedHead ==
    ASSUME NEW q \in Seq(Message), q # <<>>, NEW e, NEW b
    PROVE  /\ Retained(Tail(q), Leaves(Head(q), b, e), e) = Retained(q, b, e)
           /\ Retained(q, Leaves(Head(q), b, e), e) = Retained(q, b, e)
<1> DEFINE one == <<Head(q)>>
<1> DEFINE rest == Tail(q)
<1>1. Head(q) \in Message /\ rest \in Seq(Message) /\ one \in Seq(Message)
  BY HeadTail
<1>2. q = one \o rest
  <2>1. Len(q) \in Nat \ {0} /\ Head(q) = q[1] /\ Tail(q) = SubSeq(q, 2, Len(q)) /\ SubSeq(q, 1, Len(q)) = q
    BY EmptySeq, TailIsSubSeq, SubSeqFull
  <2>2. SubSeq(q, 1, Len(q)) = <<q[1]>> \o SubSeq(q, 2, Len(q))
    BY <2>1, SubSeqRecursiveFirst
  <2> QED BY <2>1, <2>2
<1>3. \A c : Retained(one, c, e) = Leaves(Head(q), c, e)
  BY <1>1, RetainedOne
<1>4. ASSUME NEW c PROVE Retained(q, c, e) = Retained(rest, Leaves(Head(q), c, e), e)
  <2> HIDE DEF one, rest
  <2>1. Retained(one \o rest, c, e) = Retained(rest, Retained(one, c, e), e)
    BY <1>1, RetainedConcat
  <2> QED BY <1>2, <1>3, <2>1
<1>5. Leaves(Head(q), Leaves(Head(q), b, e), e) = Leaves(Head(q), b, e)
  BY DEF Leaves
<1> QED BY <1>4, <1>5
----------------------------------------------------------------------------
(* What is clean reaches the broker.                                       *)

\* The republish runs while the connection serves, and its publish breaks only
\* with the connection.
RepublishServes ==
    /\ repPc # "none" => connPc = "serving"
    /\ awaiting["republish"] # "none" => repPc = "running"
    /\ awaiting["republish"] = "broken" => ~link

\* A republish queued behind a flush of its entity carries the stored value, or
\* history records the race.
OvertakersMarked ==
    \A i, j \in DOMAIN outbox :
        /\ j < i
        /\ outbox[j].by \in Flushers
        /\ outbox[i].by = "republish"
        /\ outbox[i].idx = outbox[j].idx
        /\ outbox[i].idx \notin raced \cup overtaken
        => outbox[i].payload = values[outbox[i].idx]

\* What BrokerFollows says of one entity.
Follows(e) ==
    \/ e \in dirty \cup raced \cup overtaken
    \/ RepublishOwed(e)
    \/ Settled(e) = values[e]

FollowInv == RepublishServes /\ OvertakersMarked /\ \A e \in Entities : Follows(e)

USE DEF storeVars, runVars, connVars, flushVars, repVars, netVars, history

LEMMA InitFollows == Init => FollowInv
<1> SUFFICES ASSUME Init PROVE FollowInv
  OBVIOUS
<1>1. RepublishServes /\ OvertakersMarked
  BY DEF Init, RepublishServes, OvertakersMarked, Tasks
<1>2. ASSUME NEW e \in Entities PROVE Follows(e)
  <2>1. wire \o outbox = <<>>
    BY DEF Init
  <2>2. Settled(e) = broker[e]
    BY <2>1 DEF Settled
  <2> QED BY <2>2 DEF Init, Follows
<1> QED BY <1>1, <1>2 DEF FollowInv

LEMMA ServesStep == TypeOK /\ RepublishServes /\ [Next]_vars => RepublishServes'
<1> SUFFICES ASSUME TypeOK, RepublishServes, [Next]_vars PROVE RepublishServes'
  OBVIOUS
<1> USE DEF RepublishServes, Tasks, Flushers
<1>1. awaiting \in [Tasks -> {"none", "queued", "broken"}]
  BY DEF TypeOK
<1>2. ASSUME NEW e \in Entities, Apply(e) \/ MarkUnchanged(e) PROVE RepublishServes'
  BY <1>2 DEF Apply, MarkUnchanged
<1>3. ASSUME NEW t \in Flushers, PublishNext(t) PROVE RepublishServes'
  BY <1>1, <1>3 DEF PublishNext
<1>4. CASE Written \/ Acked
  BY <1>1, <1>4, HeadTail, MessageFields DEF Written, Acked, Resume, TypeOK
<1>5. CASE Arrive \/ Unacked
  BY <1>5 DEF Arrive, Unacked
<1>6. CASE RunWakes \/ RunFlushes \/ RunFlushed \/ RunRestarts
  BY <1>6 DEF RunWakes, RunFlushes, RunFlushed, RunRestarts
<1>7. CASE RunFails
  BY <1>1, <1>7 DEF RunFails
<1>8. CASE Drop
  BY <1>1, <1>8 DEF Drop
<1>9. CASE Connect \/ ReconnectFlushes
  BY <1>9 DEF Connect, ReconnectFlushes
<1>10. CASE ReconnectFlushed
  BY <1>10 DEF ReconnectFlushed
<1>11. CASE ReconnectFails
  BY <1>1, <1>11 DEF ReconnectFails
<1>12. CASE ConnectionLost
  BY <1>1, <1>12 DEF ConnectionLost
<1>13. CASE RepublishStarts
  BY <1>13 DEF RepublishStarts
<1>14. CASE RepublishNext
  BY <1>1, <1>14 DEF RepublishNext
<1>15. CASE RepublishEnds
  BY <1>1, <1>15 DEF RepublishEnds
<1>16. CASE UNCHANGED vars
  BY <1>16 DEF vars
<1> QED
  BY <1>2, <1>3, <1>4, <1>5, <1>6, <1>7, <1>8, <1>9, <1>10, <1>11, <1>12, <1>13,
     <1>14, <1>15, <1>16 DEF Next, Runner, Connection, Republish, Network

\* The actions that change nothing that the order of the outbox is about.
LEMMA QueueStands ==
    ASSUME [Next]_vars
    PROVE  \/ UNCHANGED <<outbox, values, raced, overtaken>>
           \/ \E e \in Entities : Apply(e)
           \/ \E t \in Flushers : PublishNext(t)
           \/ Written \/ Acked \/ Drop \/ RepublishNext
<1> USE DEF Flushers
<1>1. ASSUME NEW e \in Entities, MarkUnchanged(e) PROVE UNCHANGED <<outbox, values, raced, overtaken>>
  BY <1>1 DEF MarkUnchanged
<1>2. CASE Arrive \/ Unacked \/ RunWakes \/ RunFlushes \/ RunFlushed \/ RunRestarts \/ RunFails
  BY <1>2 DEF Arrive, Unacked, RunWakes, RunFlushes, RunFlushed, RunRestarts, RunFails
<1>3. CASE Connect \/ ReconnectFlushes \/ ReconnectFlushed \/ ReconnectFails \/ ConnectionLost
  BY <1>3 DEF Connect, ReconnectFlushes, ReconnectFlushed, ReconnectFails, ConnectionLost
<1>4. CASE RepublishStarts \/ RepublishEnds
  BY <1>4 DEF RepublishStarts, RepublishEnds
<1>5. CASE UNCHANGED vars
  BY <1>5 DEF vars
<1> QED
  BY <1>1, <1>2, <1>3, <1>4, <1>5 DEF Next, Runner, Connection, Republish, Network

LEMMA MarkedStep == TypeOK /\ OvertakersMarked /\ [Next]_vars => OvertakersMarked'
<1> SUFFICES ASSUME TypeOK, OvertakersMarked, [Next]_vars
             PROVE  OvertakersMarked'
  OBVIOUS
<1>0. outbox \in Seq(Message) /\ Len(outbox) \in Nat /\ DOMAIN outbox = 1..Len(outbox)
  BY LenProperties DEF TypeOK
<1>1. CASE UNCHANGED <<outbox, values, raced, overtaken>>
  BY <1>1 DEF OvertakersMarked
<1>2. ASSUME NEW e \in Entities, Apply(e) PROVE OvertakersMarked'
  <2>1. /\ values' = [values EXCEPT ![e] = @ + 1] /\ UNCHANGED outbox
        /\ raced' = IF InFlight(e) THEN raced \cup {e} ELSE raced \ {e}
        /\ overtaken' = IF InFlight(e) THEN overtaken ELSE overtaken \ {e}
    BY <1>2 DEF Apply, Race
  <2> SUFFICES ASSUME NEW i \in DOMAIN outbox, NEW j \in DOMAIN outbox, j < i,
                      outbox[j].by \in Flushers, outbox[i].by = "republish",
                      outbox[i].idx = outbox[j].idx, outbox[i].idx \notin raced' \cup overtaken'
               PROVE  outbox[i].payload = values'[outbox[i].idx]
    BY <2>1 DEF OvertakersMarked
  <2>2. outbox[i].idx # e
    BY <2>1 DEF InFlight
  <2>3. outbox[i].idx \notin raced \cup overtaken
    BY <2>1, <2>2
  <2> QED BY <2>1, <2>2, <2>3 DEF OvertakersMarked, TypeOK
<1>3. ASSUME NEW m \in Message, outbox' = Append(outbox, m), UNCHANGED <<values, raced>>,
             overtaken \subseteq overtaken',
             \/ m.by # "republish"
             \/ InFlight(m.idx) => m.idx \in raced \cup overtaken' \/ m.payload = values[m.idx]
      PROVE  OvertakersMarked'
  <2>1. /\ DOMAIN outbox' = 1..(Len(outbox) + 1)
        /\ \A i \in DOMAIN outbox : outbox'[i] = outbox[i]
        /\ outbox'[Len(outbox) + 1] = m
    BY <1>0, <1>3, AppendProperties
  <2> SUFFICES ASSUME NEW i \in DOMAIN outbox', NEW j \in DOMAIN outbox', j < i,
                      outbox'[j].by \in Flushers, outbox'[i].by = "republish",
                      outbox'[i].idx = outbox'[j].idx, outbox'[i].idx \notin raced' \cup overtaken'
               PROVE  outbox'[i].payload = values'[outbox'[i].idx]
    BY DEF OvertakersMarked
  <2>2. j \in DOMAIN outbox /\ outbox'[j] = outbox[j]
    BY <1>0, <2>1
  <2>3. CASE i \in DOMAIN outbox
    BY <1>3, <2>1, <2>2, <2>3 DEF OvertakersMarked
  <2>4. CASE i = Len(outbox) + 1
    <3>1. outbox'[i] = m /\ InFlight(m.idx)
      BY <2>1, <2>2, <2>4 DEF InFlight
    <3> QED BY <1>3, <3>1
  <2> QED BY <1>0, <2>1, <2>3, <2>4
<1>4. ASSUME NEW t \in Flushers, PublishNext(t) PROVE OvertakersMarked'
  <2>1. UNCHANGED <<values, raced, overtaken>>
    BY <1>4 DEF PublishNext
  <2>2. PICK e \in batch[t] :
            \/ UNCHANGED outbox
            \/ outbox' = Append(outbox, [idx |-> e, payload |-> values[e], by |-> t])
    BY <1>4 DEF PublishNext
  <2> DEFINE m == [idx |-> e, payload |-> values[e], by |-> t]
  <2>3. m \in Message /\ m.by # "republish"
    BY DEF Message, TypeOK, Flushers, Tasks
  <2>4. CASE UNCHANGED outbox
    BY <1>1, <2>1, <2>4
  <2>5. CASE outbox' = Append(outbox, m)
    <3> HIDE DEF m
    <3> QED BY <1>3, <2>1, <2>3, <2>5
  <2> QED BY <2>2, <2>4, <2>5
<1>5. CASE RepublishNext
  <2>1. UNCHANGED <<values, raced>>
    BY <1>5 DEF RepublishNext
  <2>2. PICK e \in repTodo :
            \/ UNCHANGED <<outbox, overtaken>>
            \/ /\ outbox' = Append(outbox, [idx |-> e, payload |-> lastPublished[e],
                                            by |-> "republish"])
               /\ overtaken' = IF InFlight(e) /\ lastPublished[e] # values[e]
                               THEN overtaken \cup {e} ELSE overtaken
    BY <1>5 DEF RepublishNext
  <2> DEFINE m == [idx |-> e, payload |-> lastPublished[e], by |-> "republish"]
  <2>3. m \in Message /\ m.idx = e /\ m.payload = lastPublished[e]
    BY DEF Message, TypeOK, Flushers, Tasks
  <2>4. CASE UNCHANGED <<outbox, overtaken>>
    BY <1>1, <2>1, <2>4
  <2>5. CASE /\ outbox' = Append(outbox, m)
             /\ overtaken' = IF InFlight(e) /\ lastPublished[e] # values[e]
                             THEN overtaken \cup {e} ELSE overtaken
    <3> HIDE DEF m
    <3>1. /\ overtaken \subseteq overtaken'
          /\ InFlight(m.idx) => m.idx \in raced \cup overtaken' \/ m.payload = values[m.idx]
      BY <2>3, <2>5
    <3> QED BY <1>3, <2>1, <2>3, <2>5, <3>1
  <2> QED BY <2>2, <2>4, <2>5
<1>6. CASE Written \/ Acked
  <2>1. outbox # <<>> /\ outbox' = Tail(outbox) /\ UNCHANGED <<values, raced, overtaken>>
    BY <1>6 DEF Written, Acked, Resume
  <2>2. /\ DOMAIN outbox' \subseteq Nat
        /\ \A i \in DOMAIN outbox' : i + 1 \in DOMAIN outbox /\ outbox'[i] = outbox[i + 1]
    BY <1>0, <2>1, HeadTail, LenProperties
  <2> SUFFICES ASSUME NEW i \in DOMAIN outbox', NEW j \in DOMAIN outbox', j < i,
                      outbox'[j].by \in Flushers, outbox'[i].by = "republish",
                      outbox'[i].idx = outbox'[j].idx, outbox'[i].idx \notin raced' \cup overtaken'
               PROVE  outbox'[i].payload = values'[outbox'[i].idx]
    BY DEF OvertakersMarked
  <2>3. i + 1 \in DOMAIN outbox /\ j + 1 \in DOMAIN outbox /\ j + 1 < i + 1
    BY <2>2
  <2> QED BY <2>1, <2>2, <2>3 DEF OvertakersMarked
<1>7. CASE Drop
  BY <1>7 DEF Drop, OvertakersMarked
<1> QED BY <1>1, <1>2, <1>4, <1>5, <1>6, <1>7, QueueStands

\* What the broker will retain, by the two queues a message passes.
LEMMA SettledIs ==
    ASSUME TypeOK, NEW e
    PROVE  Settled(e) = Retained(outbox, Retained(wire, broker[e], e), e)
<1>1. Settled(e) = Retained(wire \o outbox, broker[e], e)
  BY DEF Settled, Retained
<1> QED BY <1>1, RetainedConcat DEF TypeOK

LEMMA SettledNext ==
    ASSUME TypeOK', NEW e
    PROVE  Settled(e)' = Retained(outbox', Retained(wire', broker'[e], e), e)
<1>1. Settled(e)' = Retained(wire' \o outbox', broker'[e], e)
  BY DEF Settled, Retained
<1>2. wire' \in Seq(Message) /\ outbox' \in Seq(Message)
  BY DEF TypeOK
<1> QED BY <1>1, <1>2, RetainedConcat

\* A message handed to the library settles its entity.
LEMMA SettledQueued ==
    ASSUME TypeOK, TypeOK', NEW m \in Message, outbox' = Append(outbox, m),
           UNCHANGED <<wire, broker>>, NEW e
    PROVE  Settled(e)' = Leaves(m, Settled(e), e)
<1> DEFINE b == Retained(wire, broker[e], e)
<1>1. outbox \in Seq(Message)
  BY DEF TypeOK
<1>2. Settled(e) = Retained(outbox, b, e) /\ Settled(e)' = Retained(outbox', b, e)
  BY SettledIs, SettledNext
<1> HIDE DEF b
<1> QED BY <1>1, <1>2, RetainedAppend

\* Nothing that the network does changes what the broker retains in the end.
LEMMA SettledDelivers ==
    ASSUME TypeOK, TypeOK', Written \/ Arrive \/ Acked \/ Unacked, NEW e \in Entities
    PROVE  Settled(e)' = Settled(e)
<1>1. outbox \in Seq(Message) /\ wire \in Seq(Message) /\ broker \in [Entities -> Values \cup {Forgotten}]
  BY DEF TypeOK
<1>2. /\ Settled(e) = Retained(outbox, Retained(wire, broker[e], e), e)
      /\ Settled(e)' = Retained(outbox', Retained(wire', broker'[e], e), e)
  BY SettledIs, SettledNext
<1>3. CASE Written
  <2>1. /\ outbox # <<>> /\ outbox' = Tail(outbox) /\ wire' = Append(wire, Head(outbox))
        /\ UNCHANGED broker
    BY <1>3 DEF Written, Resume
  <2>2. Head(outbox) \in Message
    BY <1>1, <2>1, HeadTail
  <2> DEFINE m == Head(outbox)
  <2> DEFINE b == Retained(wire, broker[e], e)
  <2>3. Retained(wire', broker'[e], e) = Leaves(m, b, e)
    <3> HIDE DEF m
    <3> QED BY <1>1, <2>1, <2>2, RetainedAppend DEF m
  <2>4. Retained(Tail(outbox), Leaves(m, b, e), e) = Retained(outbox, b, e)
    <3> HIDE DEF b
    <3> QED BY <1>1, <2>1, RetainedHead
  <2> QED BY <1>2, <2>1, <2>3, <2>4
<1>4. ASSUME NEW m, m \in Message, Receive(m) PROVE broker'[e] = Leaves(m, broker[e], e)
  BY <1>1, <1>4 DEF Receive, Leaves
<1>5. CASE Arrive
  <2>1. wire # <<>> /\ wire' = Tail(wire) /\ Receive(Head(wire)) /\ UNCHANGED outbox
    BY <1>5 DEF Arrive
  <2>2. broker'[e] = Leaves(Head(wire), broker[e], e)
    BY <1>1, <1>4, <2>1, HeadTail
  <2>3. Retained(Tail(wire), Leaves(Head(wire), broker[e], e), e) = Retained(wire, broker[e], e)
    BY <1>1, <2>1, RetainedHead
  <2> QED BY <1>2, <2>1, <2>2, <2>3
<1>6. \A b : Retained(<<>>, b, e) = b
  <2>1. Without(<<>>, e)
    BY DEF Without
  <2> QED BY <2>1, RetainedWithout
<1>7. CASE Acked \/ Unacked
  <2>1. /\ outbox # <<>> /\ wire = <<>> /\ wire' = <<>> /\ Receive(Head(outbox))
        /\ outbox' = outbox \/ outbox' = Tail(outbox)
    BY <1>7 DEF Acked, Unacked, Resume
  <2>2. broker'[e] = Leaves(Head(outbox), broker[e], e)
    BY <1>1, <1>4, <2>1, HeadTail
  <2>3. /\ Retained(Tail(outbox), Leaves(Head(outbox), broker[e], e), e) = Retained(outbox, broker[e], e)
        /\ Retained(outbox, Leaves(Head(outbox), broker[e], e), e) = Retained(outbox, broker[e], e)
    BY <1>1, <2>1, RetainedHead
  <2> QED BY <1>2, <1>6, <2>1, <2>2, <2>3
<1> QED BY <1>3, <1>5, <1>7

\* When the await of a flush returns for an entity that no race caught, whatever
\* else of it is queued carries the stored value.
LEMMA ResumeSettles ==
    ASSUME TypeOK, InFlightCurrent, OvertakersMarked, outbox # <<>>,
           Head(outbox).by \in Flushers, NEW e, Head(outbox).idx = e,
           e \notin raced \cup overtaken
    PROVE  Settled(e) = values[e]
<1>1. /\ outbox \in Seq(Message) /\ Head(outbox) = outbox[1] /\ 1 \in DOMAIN outbox
      /\ \A i \in DOMAIN outbox : outbox[i] \in Message /\ (i = 1 \/ 1 < i)
  BY HeadTail, LenProperties, ElementOfSeq DEF TypeOK
<1>2. ASSUME NEW i \in DOMAIN outbox, outbox[i].idx = e PROVE outbox[i].payload = values[e]
  <2>1. CASE outbox[i].by \in Flushers
    BY <1>2, <2>1 DEF InFlightCurrent
  <2>2. CASE outbox[i].by = "republish"
    <3>1. 1 < i
      BY <1>1, <2>2 DEF Flushers
    <3> QED BY <1>1, <1>2, <2>2, <3>1 DEF OvertakersMarked
  <2>3. outbox[i].by \in Flushers \cup {"republish"}
    BY <1>1, MessageFields DEF Tasks
  <2> QED BY <2>1, <2>2, <2>3
<1>3. ~Without(outbox, e)
  BY <1>1 DEF Without
<1> DEFINE b == Retained(wire, broker[e], e)
<1>4. Retained(outbox, b, e) = values[e]
  <2> HIDE DEF b
  <2>1. PICK i \in DOMAIN outbox : LastOf(outbox, e, i)
    BY <1>1, <1>3, LastExists
  <2>2. Retained(outbox, b, e) = outbox[i].payload
    BY <1>1, <2>1, RetainedLast
  <2> QED BY <1>2, <2>1, <2>2 DEF LastOf
<1> QED BY <1>4, SettledIs

\* An entity of which a step changes nothing stays repaired.
LEMMA FollowsOn ==
    ASSUME NEW e, Follows(e), values'[e] = values[e], UNCHANGED <<raced, overtaken>>,
           e \in dirty => e \in dirty', Settled(e)' = Settled(e),
           RepublishOwed(e) => RepublishOwed(e)'
    PROVE  Follows(e)'
  BY DEF Follows

LEMMA FollowsStep ==
    ASSUME IInv, TypeOK', RepublishServes, OvertakersMarked, [Next]_vars,
           NEW e \in Entities, Follows(e)
    PROVE  Follows(e)'
<1> USE DEF IInv
<1>1. ASSUME NEW f \in Entities, Apply(f) PROVE Follows(e)'
  <2>1. /\ values' = [values EXCEPT ![f] = @ + 1] /\ dirty' = dirty \cup {f}
        /\ UNCHANGED <<link, connPc, repPc, repTodo, wire, outbox, broker>>
        /\ raced' \cup {f} = raced \cup {f} /\ overtaken' \cup {f} = overtaken \cup {f}
    BY <1>1 DEF Apply, Race
  <2>2. CASE e = f
    BY <2>1, <2>2 DEF Follows
  <2>3. CASE e # f
    <3>1. values'[e] = values[e] /\ (e \in raced <=> e \in raced') /\ (e \in overtaken <=> e \in overtaken')
      BY <2>1, <2>3 DEF TypeOK
    <3>2. Settled(e)' = Settled(e) /\ (RepublishOwed(e) => RepublishOwed(e)')
      BY <2>1, SettledIs, SettledNext DEF RepublishOwed
    <3> QED BY <2>1, <3>1, <3>2 DEF Follows
  <2> QED BY <2>2, <2>3
<1>2. ASSUME NEW f \in Entities, MarkUnchanged(f) PROVE Follows(e)'
  <2>1. /\ UNCHANGED <<values, raced, overtaken, link, connPc, repPc, repTodo, wire, outbox, broker>>
        /\ dirty' = dirty \cup {f}
    BY <1>2 DEF MarkUnchanged
  <2>2. Settled(e)' = Settled(e) /\ (RepublishOwed(e) => RepublishOwed(e)')
    BY <2>1, SettledIs, SettledNext DEF RepublishOwed
  <2> QED BY <2>1, <2>2, FollowsOn
<1>3. ASSUME UNCHANGED <<values, dirty, raced, overtaken, wire, outbox, broker>>,
             RepublishOwed(e) => RepublishOwed(e)'
      PROVE  Follows(e)'
  <2>1. Settled(e)' = Settled(e)
    BY <1>3, SettledIs, SettledNext
  <2> QED BY <1>3, <2>1, FollowsOn
<1>4. ASSUME NEW t \in Flushers, PublishNext(t) PROVE Follows(e)'
  <2>1. UNCHANGED <<values, dirty, raced, overtaken, link, connPc, repPc, repTodo, wire, broker>>
    BY <1>4 DEF PublishNext
  <2>2. RepublishOwed(e) => RepublishOwed(e)'
    BY <2>1 DEF RepublishOwed
  <2>3. PICK f \in batch[t] :
            \/ UNCHANGED outbox
            \/ outbox' = Append(outbox, [idx |-> f, payload |-> values[f], by |-> t])
    BY <1>4 DEF PublishNext
  <2> DEFINE m == [idx |-> f, payload |-> values[f], by |-> t]
  <2>4. m \in Message /\ m.idx = f /\ m.payload = values[f]
    BY DEF Message, TypeOK, Flushers, Tasks
  <2>5. CASE UNCHANGED outbox
    BY <1>3, <2>1, <2>2, <2>5
  <2>6. CASE outbox' = Append(outbox, m)
    <3> HIDE DEF m
    <3>1. Settled(e)' = Leaves(m, Settled(e), e)
      BY <2>1, <2>4, <2>6, SettledQueued
    <3>2. Settled(e)' = Settled(e) \/ Settled(e)' = values[e]
      BY <2>4, <3>1 DEF Leaves
    <3> QED BY <2>1, <2>2, <3>2 DEF Follows
  <2> QED BY <2>3, <2>5, <2>6
<1>5. CASE Written \/ Acked
  <2>1. /\ outbox # <<>> /\ Resume(Head(outbox))
        /\ UNCHANGED <<values, raced, overtaken, link, connPc, repPc, repTodo>>
    BY <1>5 DEF Written, Acked
  <2>2. RepublishOwed(e) => RepublishOwed(e)'
    BY <2>1 DEF RepublishOwed
  <2>3. Settled(e)' = Settled(e)
    BY <1>5, SettledDelivers
  <2>4. CASE e \in dirty /\ e \notin dirty'
    <3>1. Head(outbox).by \in Flushers /\ Head(outbox).idx = e
      BY <2>1, <2>4 DEF Resume
    <3> QED BY <2>1, <2>3, <3>1, ResumeSettles DEF Follows
  <2>5. CASE e \in dirty => e \in dirty'
    BY <2>1, <2>2, <2>3, <2>5, FollowsOn
  <2> QED BY <2>4, <2>5
<1>6. CASE Arrive \/ Unacked
  <2>1. UNCHANGED <<values, dirty, raced, overtaken, link, connPc, repPc, repTodo>>
    BY <1>6 DEF Arrive, Unacked
  <2>2. RepublishOwed(e) => RepublishOwed(e)'
    BY <2>1 DEF RepublishOwed
  <2> QED BY <1>6, <2>1, <2>2, SettledDelivers, FollowsOn
<1>7. CASE RunWakes \/ RunFlushes \/ RunFlushed \/ RunRestarts \/ RunFails
  BY <1>3, <1>7 DEF RunWakes, RunFlushes, RunFlushed, RunRestarts, RunFails, RepublishOwed
<1>8. CASE Drop
  BY <1>8 DEF Drop, Follows, RepublishOwed
<1>9. CASE Connect \/ ReconnectFlushes
  BY <1>9 DEF Connect, ReconnectFlushes, Follows, RepublishOwed
<1>10. CASE ReconnectFlushed
  BY <1>10 DEF ReconnectFlushed, Follows, RepublishOwed
<1>11. CASE ReconnectFails \/ ConnectionLost
  BY <1>11 DEF ReconnectFails, ConnectionLost, Follows, RepublishOwed
<1>12. CASE RepublishStarts
  BY <1>12 DEF RepublishStarts, Follows, RepublishOwed
<1>13. CASE RepublishNext
  <2>1. /\ UNCHANGED <<values, dirty, raced, link, connPc, repPc, wire, broker>>
        /\ overtaken \subseteq overtaken'
    BY <1>13 DEF RepublishNext
  <2>2. CASE ~link
    BY <2>1, <2>2 DEF Follows, RepublishOwed
  <2>3. CASE link
    <3>1. PICK f \in repTodo :
              /\ repTodo' = repTodo \ {f}
              /\ outbox' = Append(outbox, [idx |-> f, payload |-> lastPublished[f],
                                           by |-> "republish"])
      BY <1>13, <2>3 DEF RepublishNext
    <3> DEFINE m == [idx |-> f, payload |-> lastPublished[f], by |-> "republish"]
    <3>2. m \in Message /\ m.idx = f /\ m.payload = lastPublished[f]
      BY DEF Message, TypeOK, Flushers, Tasks
    <3>3. outbox' = Append(outbox, m)
      BY <3>1
    <3> HIDE DEF m
    <3>4. Settled(e)' = Leaves(m, Settled(e), e)
      BY <2>1, <3>2, <3>3, SettledQueued
    <3>5. CASE e = f
      <4>1. Settled(e)' = lastPublished[e]
        BY <3>2, <3>4, <3>5 DEF Leaves
      <4> QED BY <2>1, <4>1 DEF NoSilentDrop, Follows
    <3>6. CASE e # f
      <4>1. Settled(e)' = Settled(e)
        BY <3>2, <3>4, <3>6 DEF Leaves
      <4>2. RepublishOwed(e) => RepublishOwed(e)'
        BY <2>1, <3>1, <3>6 DEF RepublishOwed
      <4> QED BY <2>1, <4>1, <4>2 DEF Follows
    <3> QED BY <3>5, <3>6
  <2> QED BY <2>2, <2>3
<1>14. CASE RepublishEnds
  <2>1. /\ UNCHANGED <<values, dirty, raced, overtaken, link, connPc, wire, outbox, broker>>
        /\ repPc = "running"
        /\ repTodo = {} \/ awaiting["republish"] = "broken"
    BY <1>14 DEF RepublishEnds
  <2>2. RepublishOwed(e) => RepublishOwed(e)'
    BY <2>1 DEF RepublishOwed, RepublishServes
  <2> QED BY <1>3, <2>1, <2>2
<1>15. CASE UNCHANGED vars
  BY <1>3, <1>15 DEF vars, RepublishOwed
<1> QED
  BY <1>1, <1>2, <1>4, <1>5, <1>6, <1>7, <1>8, <1>9, <1>10, <1>11, <1>12, <1>13,
     <1>14, <1>15 DEF Next, Runner, Connection, Republish, Network, Flushers

\* What is clean, and caught by no race, is what the broker will retain once
\* all messages on their way arrive, or its retained republish is still owed.
THEOREM CleanReachesBroker == Spec => []BrokerFollows
<1>1. Init => FollowInv
  BY InitFollows
<1>2. IInv /\ TypeOK' /\ FollowInv /\ [Next]_vars => FollowInv'
  BY ServesStep, MarkedStep, FollowsStep DEF FollowInv, IInv
<1>3. IInv => TypeOK
  BY DEF IInv
<1>4. FollowInv => BrokerFollows
  BY DEF FollowInv, Follows, BrokerFollows
<1> QED BY <1>1, <1>2, <1>3, <1>4, Invariance, PTL DEF Spec
====
