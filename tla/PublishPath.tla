---- MODULE PublishPath ----
(***************************************************************************)
(* The path of a state change from StateStore to the broker:               *)
(*   bus/state.py      values, dirty, wake                                 *)
(*   bus/publisher.py  Publisher.run and Publisher.flush                   *)
(*   mqtt/client.py    MqttClient: connect, reconnect flush, publish,      *)
(*                     last_published, the delayed retained republish      *)
(*   supervisor.py     restart_on_failure around the publisher             *)
(* One event loop interleaves the coroutines at their awaits; an action is *)
(* what one of them does between two awaits.  An entity's whole payload is *)
(* abstracted to a version number that grows with every change.            *)
(***************************************************************************)
EXTENDS Naturals, Sequences, FiniteSetsExt

CONSTANTS
    Entities,            \* entity indices, published in sorted order
    MaxWrites,           \* bound on the writes to the store
    MaxDrops,            \* bound on the lost broker connections
    MaxWire,             \* bound on the written messages not yet received
    EscalationThreshold  \* _ESCALATION_THRESHOLD

ASSUME EntitiesAssumption == Entities \subseteq Nat
ASSUME BoundsAssumption ==
    /\ MaxWrites \in Nat
    /\ MaxDrops \in Nat
    /\ MaxWire \in Nat \ {0}
    /\ EscalationThreshold \in Nat \ {0}

Values == 1..(MaxWrites + 1)
Forgotten == 0                       \* the broker retains nothing

\* The two coroutines that run Publisher.flush, and the one that republishes.
Flushers == {"publisher", "reconnect"}
Tasks == Flushers \cup {"republish"}

Message == [idx : Entities, payload : Values, by : Tasks]

VARIABLES
    values,         \* StateStore.values, one version per entity
    dirty,          \* StateStore.dirty
    wake,           \* StateStore.wake.is_set()
    runPc,          \* where Publisher.run is, under its restart shim
    attempt,        \* restart_on_failure's count of rapid failures
    connPc,         \* where MqttClient._connect_and_serve is
    client,         \* MqttClient._client is not None
    link,           \* the current client's connection works
    batch,          \* per flusher: what flush's loop has left of sorted(dirty)
    awaiting,       \* per task: the publish it awaits, "none", "queued", "broken"
    lastPublished,  \* MqttClient._last_published
    repPc,          \* where _delayed_republish_retained is
    repTodo,        \* what _republish_retained's loop has left
    outbox,         \* messages handed to the MQTT library, not yet written
    wire,           \* QoS 0 messages written to the socket, not yet received
    broker,         \* the retained payload of each state topic
    qosState,       \* the configured mqtt qos_state
    writes,         \* writes to the store so far
    drops,          \* connections lost so far
    raced,          \* history: last changed while its own publish was awaited
    overtaken       \* history: its older payload was republished behind a newer

storeVars == <<values, dirty, wake, writes>>
runVars   == <<runPc, attempt>>
connVars  == <<connPc, client, link>>
flushVars == <<batch, awaiting>>
repVars   == <<repPc, repTodo>>
netVars   == <<outbox, wire, broker>>
history   == <<raced, overtaken>>
vars == <<storeVars, runVars, connVars, flushVars, lastPublished, repVars,
          netVars, qosState, drops, history>>

TypeOK ==
    /\ values \in [Entities -> Values]
    /\ dirty \in SUBSET Entities
    /\ wake \in BOOLEAN
    /\ runPc \in {"waiting", "coalescing", "flushing", "backoff", "dead"}
    /\ attempt \in 0..EscalationThreshold
    /\ connPc \in {"backoff", "subscribing", "flushing", "serving"}
    /\ client \in BOOLEAN
    /\ link \in BOOLEAN
    /\ batch \in [Flushers -> SUBSET Entities]
    /\ awaiting \in [Tasks -> {"none", "queued", "broken"}]
    /\ lastPublished \in [Entities -> Values]
    /\ repPc \in {"none", "delayed", "running"}
    /\ repTodo \in SUBSET Entities
    /\ outbox \in Seq(Message)
    /\ wire \in Seq(Message)
    /\ broker \in [Entities -> Values \cup {Forgotten}]
    /\ qosState \in {0, 1}
    /\ writes \in 0..MaxWrites
    /\ drops \in 0..MaxDrops
    /\ raced \in SUBSET Entities
    /\ overtaken \in SUBSET Entities

\* _startup has flushed every entity and the broker has its state.
Init ==
    /\ values = [e \in Entities |-> 1]
    /\ dirty = {}
    /\ wake = FALSE
    /\ runPc = "waiting"
    /\ attempt = 0
    /\ connPc = "serving"
    /\ client = TRUE
    /\ link = TRUE
    /\ batch = [t \in Flushers |-> {}]
    /\ awaiting = [t \in Tasks |-> "none"]
    /\ lastPublished = values
    /\ repPc = "none"
    /\ repTodo = {}
    /\ outbox = <<>>
    /\ wire = <<>>
    /\ broker = values
    /\ qosState \in {0, 1}
    /\ writes = 0
    /\ drops = 0
    /\ raced = {}
    /\ overtaken = {}

\* The bridge process has not exited with TaskDiedTooManyTimesError.
Alive == runPc # "dead"

\* A flush awaits the publish of entity e.
InFlight(e) ==
    \E i \in DOMAIN outbox : outbox[i].idx = e /\ outbox[i].by \in Flushers

----------------------------------------------------------------------------
(* StateStore: the two writers of values; neither awaits.                  *)

\* A change in the await of its own publish is the race flush leaves open; a
\* change at any other time starts a clean debt.
Race(e) ==
    /\ raced' = IF InFlight(e) THEN raced \cup {e} ELSE raced \ {e}
    /\ overtaken' = IF InFlight(e) THEN overtaken ELSE overtaken \ {e}

\* apply of a value that differs (one that does not differ changes nothing).
Apply(e) ==
    /\ Alive
    /\ writes < MaxWrites
    /\ writes' = writes + 1
    /\ values' = [values EXCEPT ![e] = @ + 1]
    /\ dirty' = dirty \cup {e}
    /\ wake' = TRUE
    /\ Race(e)
    /\ UNCHANGED <<runVars, connVars, flushVars, lastPublished, repVars, netVars,
                   qosState, drops>>

\* mark_optimistic of the value already held: dirty and awake all the same.
MarkUnchanged(e) ==
    /\ Alive
    /\ writes < MaxWrites
    /\ writes' = writes + 1
    /\ dirty' = dirty \cup {e}
    /\ wake' = TRUE
    /\ UNCHANGED <<values, runVars, connVars, flushVars, lastPublished, repVars,
                   netVars, qosState, drops, history>>

----------------------------------------------------------------------------
(* MqttClient.publish as a flush calls it, and its outcomes.               *)

\* Slip: the index is discarded before its publish is awaited.
PublishNextDiscarding(t) ==
    /\ Alive
    /\ awaiting[t] = "none"
    /\ \E e \in batch[t] :
          /\ \A f \in batch[t] : e <= f
          /\ batch' = [batch EXCEPT ![t] = @ \ {e}]
          /\ dirty' = dirty \ {e}
          /\ IF client /\ link
             THEN /\ outbox' = Append(outbox, [idx |-> e, payload |-> values[e], by |-> t])
                  /\ awaiting' = [awaiting EXCEPT ![t] = "queued"]
             ELSE /\ awaiting' = [awaiting EXCEPT ![t] = "broken"]
                  /\ UNCHANGED outbox
    /\ UNCHANGED <<values, wake, writes, runVars, connVars, lastPublished, repVars, wire,
                   broker, qosState, drops, history>>

\* The next iteration of flush's loop: the payload is built from values here,
\* and the publish is awaited.  Without a working connection the call raises.
PublishNext(t) ==
    /\ Alive
    /\ awaiting[t] = "none"
    /\ \E e \in batch[t] :
          /\ \A f \in batch[t] : e <= f
          /\ batch' = [batch EXCEPT ![t] = @ \ {e}]
          /\ IF client /\ link
             THEN /\ outbox' = Append(outbox, [idx |-> e, payload |-> values[e], by |-> t])
                  /\ awaiting' = [awaiting EXCEPT ![t] = "queued"]
             ELSE /\ awaiting' = [awaiting EXCEPT ![t] = "broken"]
                  /\ UNCHANGED outbox
    /\ UNCHANGED <<storeVars, runVars, connVars, lastPublished, repVars, wire,
                   broker, qosState, drops, history>>

\* The await of the message at the head of the outbox returns: publish records
\* the payload, flush discards the index.  (A republish does neither.)
Resume(m) ==
    /\ awaiting' = [awaiting EXCEPT ![m.by] = "none"]
    /\ outbox' = Tail(outbox)
    /\ IF m.by \in Flushers
       THEN /\ lastPublished' = [lastPublished EXCEPT ![m.idx] = m.payload]
            /\ dirty' = dirty \ {m.idx}
       ELSE UNCHANGED <<lastPublished, dirty>>

Qos(m) == IF m.by = "republish" THEN 0 ELSE qosState

\* QoS 0: the await returns once the packet is written to the socket.
Written ==
    /\ Alive
    /\ Len(wire) < MaxWire
    /\ outbox # <<>>
    /\ Qos(Head(outbox)) = 0
    /\ wire' = Append(wire, Head(outbox))
    /\ Resume(Head(outbox))
    /\ UNCHANGED <<values, wake, writes, runVars, connVars, batch, repVars, broker,
                   qosState, drops, history>>

Receive(m) == broker' = [broker EXCEPT ![m.idx] = m.payload]

\* The broker receives a written message, in order.
Arrive ==
    /\ wire # <<>>
    /\ wire' = Tail(wire)
    /\ Receive(Head(wire))
    /\ UNCHANGED <<storeVars, runVars, connVars, flushVars, lastPublished, repVars,
                   outbox, qosState, drops, history>>

\* QoS 1: the broker has the message, its PUBACK is still on the way.
Unacked ==
    /\ outbox # <<>>
    /\ wire = <<>>
    /\ Qos(Head(outbox)) = 1
    /\ Receive(Head(outbox))
    /\ UNCHANGED <<storeVars, runVars, connVars, flushVars, lastPublished, repVars,
                   outbox, wire, qosState, drops, history>>

\* QoS 1: the await returns on the PUBACK.
Acked ==
    /\ Alive
    /\ outbox # <<>>
    /\ wire = <<>>
    /\ Qos(Head(outbox)) = 1
    /\ Receive(Head(outbox))
    /\ Resume(Head(outbox))
    /\ UNCHANGED <<values, wake, writes, runVars, connVars, batch, repVars, wire,
                   qosState, drops, history>>

----------------------------------------------------------------------------
(* Publisher.run under restart_on_failure.                                 *)

RunWakes ==
    /\ runPc = "waiting"
    /\ wake
    /\ wake' = FALSE
    /\ runPc' = "coalescing"
    /\ UNCHANGED <<values, dirty, writes, attempt, connVars, flushVars, lastPublished,
                   repVars, netVars, qosState, drops, history>>

\* Slip: the batch is swapped out of dirty before it is published (take_dirty).
RunFlushesTaking ==
    /\ runPc = "coalescing"
    /\ batch' = [batch EXCEPT !["publisher"] = dirty]
    /\ dirty' = {}
    /\ runPc' = "flushing"
    /\ UNCHANGED <<values, wake, writes, attempt, connVars, awaiting, lastPublished, repVars,
                   netVars, qosState, drops, history>>

RunFlushes ==
    /\ runPc = "coalescing"
    /\ batch' = [batch EXCEPT !["publisher"] = dirty]
    /\ runPc' = "flushing"
    /\ UNCHANGED <<storeVars, attempt, connVars, awaiting, lastPublished, repVars,
                   netVars, qosState, drops, history>>

RunFlushed ==
    /\ runPc = "flushing"
    /\ batch["publisher"] = {}
    /\ awaiting["publisher"] = "none"
    /\ runPc' = "waiting"
    /\ UNCHANGED <<storeVars, attempt, connVars, flushVars, lastPublished, repVars,
                   netVars, qosState, drops, history>>

\* The publish raised: the shim counts the failure as rapid (the run lasted less
\* than _RAPID_FAILURE_WINDOW_S) or starts a new streak, and escalates or sleeps.
Escalates(a) == a >= EscalationThreshold

RunFails ==
    /\ runPc = "flushing"
    /\ awaiting["publisher"] = "broken"
    /\ awaiting' = [awaiting EXCEPT !["publisher"] = "none"]
    /\ batch' = [batch EXCEPT !["publisher"] = {}]
    /\ attempt' \in {attempt + 1, 1}
    /\ runPc' = IF Escalates(attempt') THEN "dead" ELSE "backoff"
    /\ UNCHANGED <<storeVars, connVars, lastPublished, repVars, netVars, qosState,
                   drops, history>>

RunRestarts ==
    /\ runPc = "backoff"
    /\ runPc' = "waiting"
    /\ UNCHANGED <<storeVars, attempt, connVars, flushVars, lastPublished, repVars,
                   netVars, qosState, drops, history>>

----------------------------------------------------------------------------
(* MqttClient.run and _connect_and_serve.                                  *)

\* The connection breaks; awaited publishes will raise, messages not received
\* are lost, and a broker that restarted may have forgotten what it retained.
Drop ==
    /\ link
    /\ drops < MaxDrops
    /\ drops' = drops + 1
    /\ link' = FALSE
    /\ outbox' = <<>>
    /\ wire' = <<>>
    /\ awaiting' = [t \in Tasks |-> IF awaiting[t] = "queued" THEN "broken" ELSE awaiting[t]]
    /\ broker' \in {broker, [e \in Entities |-> Forgotten]}
    /\ UNCHANGED <<storeVars, runVars, connPc, client, batch, lastPublished, repVars,
                   qosState, history>>

Connect ==
    /\ Alive
    /\ connPc = "backoff"
    /\ connPc' = "subscribing"
    /\ client' = TRUE
    /\ link' = TRUE
    /\ UNCHANGED <<storeVars, runVars, flushVars, lastPublished, repVars, netVars,
                   qosState, drops, history>>

\* Slip: the reconnect leaves the dirty batch to the publisher's wake loop.
ReconnectFlushesNothing ==
    /\ Alive
    /\ connPc = "subscribing"
    /\ link
    /\ connPc' = "flushing"
    /\ UNCHANGED <<storeVars, runVars, client, link, flushVars, lastPublished, repVars,
                   netVars, qosState, drops, history>>

\* _on_connected has subscribed and awaits on_reconnected, which flushes.
ReconnectFlushes ==
    /\ Alive
    /\ connPc = "subscribing"
    /\ link
    /\ connPc' = "flushing"
    /\ batch' = [batch EXCEPT !["reconnect"] = dirty]
    /\ UNCHANGED <<storeVars, runVars, client, link, awaiting, lastPublished, repVars,
                   netVars, qosState, drops, history>>

\* Slip: no retained republish is scheduled.
ReconnectFlushedOnly ==
    /\ Alive
    /\ connPc = "flushing"
    /\ link
    /\ batch["reconnect"] = {}
    /\ awaiting["reconnect"] = "none"
    /\ connPc' = "serving"
    /\ UNCHANGED <<storeVars, runVars, client, link, flushVars, lastPublished, repVars,
                   netVars, qosState, drops, history>>

\* The flush is done: schedule the retained republish and serve messages.
ReconnectFlushed ==
    /\ Alive
    /\ connPc = "flushing"
    /\ link
    /\ batch["reconnect"] = {}
    /\ awaiting["reconnect"] = "none"
    /\ connPc' = "serving"
    /\ repPc' = "delayed"
    /\ UNCHANGED <<storeVars, runVars, client, link, flushVars, lastPublished, repTodo,
                   netVars, qosState, drops, history>>

\* _on_connected raises: it is awaited outside the try, so _client stays set.
ReconnectFails ==
    /\ Alive
    /\ connPc \in {"subscribing", "flushing"}
    /\ ~link
    /\ connPc' = "backoff"
    /\ awaiting' = [awaiting EXCEPT !["reconnect"] = "none"]
    /\ batch' = [batch EXCEPT !["reconnect"] = {}]
    /\ UNCHANGED <<storeVars, runVars, client, link, lastPublished, repVars, netVars,
                   qosState, drops, history>>

\* Slip: what was published last is forgotten with the connection.
ConnectionLostForgetting ==
    /\ Alive
    /\ connPc = "serving"
    /\ ~link
    /\ connPc' = "backoff"
    /\ client' = FALSE
    /\ repPc' = "none"
    /\ repTodo' = {}
    /\ awaiting' = [awaiting EXCEPT !["republish"] = "none"]
    /\ lastPublished' = [e \in Entities |-> Forgotten]
    /\ UNCHANGED <<storeVars, runVars, link, batch, netVars, qosState, drops, history>>

\* The message loop raises: cancel the republish, forget the client.
ConnectionLost ==
    /\ Alive
    /\ connPc = "serving"
    /\ ~link
    /\ connPc' = "backoff"
    /\ client' = FALSE
    /\ repPc' = "none"
    /\ repTodo' = {}
    /\ awaiting' = [awaiting EXCEPT !["republish"] = "none"]
    /\ UNCHANGED <<storeVars, runVars, link, batch, lastPublished, netVars, qosState,
                   drops, history>>

----------------------------------------------------------------------------
(* MqttClient._republish_retained, retained_republish_delay after connecting. *)

RepublishStarts ==
    /\ Alive
    /\ repPc = "delayed"
    /\ repPc' = "running"
    /\ repTodo' = Entities
    /\ UNCHANGED <<storeVars, runVars, connVars, flushVars, lastPublished, netVars,
                   qosState, drops, history>>

\* One topic of the loop: whatever _last_published holds now goes out, also
\* behind a publish of a newer payload whose await has not returned.
RepublishNext ==
    /\ Alive
    /\ repPc = "running"
    /\ awaiting["republish"] = "none"
    /\ \E e \in repTodo :
          /\ repTodo' = repTodo \ {e}
          /\ IF link
             THEN /\ outbox' = Append(outbox, [idx |-> e, payload |-> lastPublished[e],
                                               by |-> "republish"])
                  /\ awaiting' = [awaiting EXCEPT !["republish"] = "queued"]
                  /\ overtaken' = IF InFlight(e) /\ lastPublished[e] # values[e]
                                  THEN overtaken \cup {e} ELSE overtaken
             ELSE /\ awaiting' = [awaiting EXCEPT !["republish"] = "broken"]
                  /\ UNCHANGED <<outbox, overtaken>>
    /\ UNCHANGED <<storeVars, runVars, connVars, batch, lastPublished, repPc, wire,
                   broker, qosState, drops, raced>>

\* The loop ends, or a publish raised inside the task.
RepublishEnds ==
    /\ Alive
    /\ repPc = "running"
    /\ \/ repTodo = {} /\ awaiting["republish"] = "none"
       \/ awaiting["republish"] = "broken"
    /\ repPc' = "none"
    /\ repTodo' = {}
    /\ awaiting' = [awaiting EXCEPT !["republish"] = "none"]
    /\ UNCHANGED <<storeVars, runVars, connVars, batch, lastPublished, netVars,
                   qosState, drops, history>>

----------------------------------------------------------------------------
Runner == RunWakes \/ RunFlushes \/ PublishNext("publisher") \/ RunFlushed
          \/ RunFails \/ RunRestarts
Connection == Connect \/ ReconnectFlushes \/ PublishNext("reconnect")
              \/ ReconnectFlushed \/ ReconnectFails \/ ConnectionLost
Republish == RepublishStarts \/ RepublishNext \/ RepublishEnds
Network == Written \/ Arrive \/ Acked

Next ==
    \/ \E e \in Entities : Apply(e) \/ MarkUnchanged(e)
    \/ Runner
    \/ Connection
    \/ Republish
    \/ Network
    \/ Unacked
    \/ Drop

\* The loop schedules every ready coroutine, timers fire, reconnects succeed
\* in the end and TCP delivers while the connection lasts.  Nothing obliges a
\* device to change or a connection to break.
Fairness ==
    /\ WF_vars(Runner)
    /\ WF_vars(Connection)
    /\ WF_vars(Republish)
    /\ WF_vars(Network)

Spec == Init /\ [][Next]_vars /\ Fairness

----------------------------------------------------------------------------
(* Properties.                                                             *)

\* flush's promise over every interleaving of the two flushes, the ingress and
\* a broken connection: a stored value that was never published successfully
\* keeps its entity dirty, unless it was stored while flush awaited a publish
\* of that same entity.
NoSilentDrop ==
    \A e \in Entities : e \in dirty \cup raced \/ lastPublished[e] = values[e]

\* The payload the broker retains for e once everything on its way arrives.
Settled(e) ==
    LET msgs == wire \o outbox
        mine == {i \in DOMAIN msgs : msgs[i].idx = e}
    IN  IF mine = {} THEN broker[e] ELSE msgs[Max(mine)].payload

\* A reconnect or its retained republish is still to come for e.
RepublishOwed(e) ==
    \/ ~link
    \/ connPc \in {"subscribing", "flushing"}
    \/ repPc = "delayed"
    \/ e \in repTodo

\* What is clean reaches the broker as it is, or the retained republish that
\* every reconnect schedules is still owed: neither a QoS 0 message lost after
\* its await returned nor a broker that forgot its retained topics goes
\* unrepaired.
BrokerFollows ==
    \A e \in Entities \ (dirty \cup raced \cup overtaken) :
        RepublishOwed(e) \/ Settled(e) = values[e]

\* The publish path implements the abstract promise of StateDelivery.
Delivery == INSTANCE StateDelivery
    WITH held <- values, confirmed <- lastPublished, owed <- dirty \cup raced

DeliverySpec == Delivery!Spec

\* Once changes and drops stop, the broker retains the stored value of every
\* entity that neither race caught: no wake-up is lost between a failed flush,
\* the restart of the publisher and the reconnect.
Converges ==
    \A e \in Entities :
        <>[](~Alive \/ e \in raced \cup overtaken \/ broker[e] = values[e])
====
