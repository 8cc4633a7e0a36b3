---- MODULE BridgeState ----
(***************************************************************************)
(* The retained availability topics of the bridge and of one device:       *)
(*   availability.py   BridgeAvailability, DeviceAvailabilityPublisher     *)
(*   mqtt/client.py    connection, last will, publish, delayed republish   *)
(*   supervisor.py     cold start, MQTT and WS callbacks, resync, shutdown *)
(* as far as they decide what the broker says of the bridge.  A timer may  *)
(* fire as soon as it is set, the broker may notice a loss at any time.    *)
(***************************************************************************)
EXTENDS Naturals, Sequences, SequencesExt

CONSTANTS
    MaxDrops,   \* bound on the lost MQTT connections
    MaxResyncs, \* bound on the resyncs
    MaxChanges  \* bound on the changes of the device

ASSUME BoundsAssumption == MaxDrops \in Nat /\ MaxResyncs \in Nat /\ MaxChanges \in Nat

Topics == {"bridge", "device"}
States == {"online", "offline"}
Unset == "unset"

\* The tasks that publish and await: _on_connected, _startup, _resync, the
\* grace timer and _graceful_shutdown.
Tasks == {"connect", "start", "resync", "grace", "stop"}
Message == [topic : Topics, state : States, by : Tasks \cup {"republish"}]

VARIABLES
    link,      \* MQTT: "down", "subscribing", "flushing", "publishing", "serving"
    client,    \* MqttClient._client is set
    ws,        \* the WebSocket is connected
    mqttUp, sysapUp, loaded,  \* the flags of BridgeAvailability
    grace,     \* _grace_task sleeps
    claimed,   \* _published_online, and _last_published of the device
    last,      \* MqttClient._last_published of the topics
    republish, \* topics the delayed republish of this connection is still to send
    wire,      \* messages between bridge and broker
    awaiting,  \* publishes a task awaits
    acks,      \* those that are acknowledged; the tasks resume in order
    broker,    \* the retained messages
    will,      \* the broker is to publish the last will
    stage,     \* of the process: "mqtt", "sysap", "loading", "seeded", "starting",
               \* "running", "stopping", "closing" or "stopped"
    resyncing, \* where _resync is
    device,    \* the device at the SysAP, and as the last fetch saw it
    fetched,
    drops, resyncs, changes,
    lost,      \* history: topics whose publish failed after it was claimed, or was
               \* skipped by a resync that failed
    raced,     \* history: topics republished while a publish was awaited
    late       \* history: bridge/state was published after the explicit offline

flags   == <<mqttUp, sysapUp, loaded>>
mqtt    == <<client, last, republish>>
net     == <<wire, broker, will>>
calls   == <<awaiting, acks>>
world   == <<ws, device, fetched>>
bounds  == <<drops, resyncs, changes>>
history == <<lost, raced, late>>
vars == <<link, mqtt, flags, grace, claimed, net, calls, stage, resyncing, world, bounds, history>>

Init ==
    /\ link = "down" /\ client = FALSE /\ ws = FALSE
    /\ mqttUp = FALSE /\ sysapUp = FALSE /\ loaded = FALSE
    /\ grace = FALSE
    /\ claimed = [t \in Topics |-> Unset]
    /\ last = [t \in Topics |-> Unset]
    /\ republish = {}
    /\ wire = <<>>
    /\ awaiting = {} /\ acks = <<>>
    /\ broker = [t \in Topics |-> Unset]
    /\ will = FALSE
    /\ stage = "mqtt"
    /\ resyncing = "no"
    /\ device \in States
    /\ fetched = device
    /\ drops = 0 /\ resyncs = 0 /\ changes = 0
    /\ lost = {} /\ raced = {} /\ late = FALSE

Up == link # "down"
Ended == stage = "stopped"

----------------------------------------------------------------------------
(* BridgeAvailability.                                                     *)

\* The property online, of the three flags.
Online(m, s, l) == m /\ s /\ l

StateOf(isOnline) == IF isOnline THEN "online" ELSE "offline"

Now == StateOf(Online(mqttUp, sysapUp, loaded))

\* _on_change: the timer runs while the bridge is not online.
OnChange(m, s) == grace' = ~Online(m, s, loaded)

\* mqtt.publish of a topic by a task: written, and awaited.
Send(c, t, s) ==
    LET m == [topic |-> t, state |-> s, by |-> c] IN
    /\ wire' = Append(wire, m)
    /\ awaiting' = awaiting \cup {m}
    /\ UNCHANGED acks

\* Slip: without a connection the publish is skipped.
PublishIfUp(c, t, s) ==
    IF claimed[t] = s THEN UNCHANGED <<claimed, wire, calls, lost>>
    ELSE /\ claimed' = [claimed EXCEPT ![t] = s]
         /\ IF Up THEN Send(c, t, s) ELSE UNCHANGED <<wire, calls>>
         /\ UNCHANGED lost

\* _publish, and DeviceAvailabilityPublisher.publish of its topic: nothing if it
\* was said before; else the claim comes first, then the publish, which raises
\* without a connection.
Publish(c, t, s) ==
    IF claimed[t] = s THEN UNCHANGED <<claimed, wire, calls, lost>>
    ELSE /\ claimed' = [claimed EXCEPT ![t] = s]
         /\ IF Up THEN Send(c, t, s) /\ UNCHANGED lost
                  ELSE lost' = lost \cup {t} /\ UNCHANGED <<wire, calls>>

Raises(t, s) == claimed[t] # s /\ ~Up

Idle(c) == \A m \in awaiting : m.by # c

\* _grace_then_publish_offline after its sleep (one such publish at a time).
GraceEnds ==
    /\ grace
    /\ ~Ended
    /\ Idle("grace")
    /\ grace' = FALSE
    /\ Publish("grace", "bridge", "offline")
    /\ UNCHANGED <<link, mqtt, flags, broker, will, stage, resyncing, world, bounds, raced, late>>

----------------------------------------------------------------------------
(* The MQTT connection.                                                    *)

\* A new connection; the broker ends the old session, with its will.
Connect ==
    /\ link = "down"
    /\ ~Ended
    /\ link' = "subscribing"
    /\ client' = TRUE
    /\ broker' = IF will THEN [broker EXCEPT !["bridge"] = "offline"] ELSE broker
    /\ will' = FALSE
    /\ UNCHANGED <<last, republish, flags, grace, claimed, wire, calls, stage, resyncing, world,
                   bounds, history>>

\* _on_connected has subscribed; _on_mqtt_reconnected flushes.
Subscribed ==
    /\ link = "subscribing"
    /\ link' = "flushing"
    /\ mqttUp' = TRUE
    /\ OnChange(TRUE, sysapUp)
    /\ UNCHANGED <<mqtt, sysapUp, loaded, claimed, net, calls, stage, resyncing, world, bounds,
                   history>>

\* publish_now at the end of _on_mqtt_reconnected.
Flushed ==
    /\ link = "flushing"
    /\ link' = "publishing"
    /\ grace' = FALSE
    /\ Publish("connect", "bridge", Now)
    /\ late' = (late \/ (stage \in {"stopping", "closing"} /\ Now = "online"))
    /\ UNCHANGED <<mqtt, flags, broker, will, stage, resyncing, world, bounds, raced>>

\* It returned, and the republish is scheduled.
Serve ==
    /\ link = "publishing"
    /\ Idle("connect")
    /\ link' = "serving"
    /\ republish' = Topics
    /\ UNCHANGED <<client, last, flags, grace, claimed, net, calls, stage, resyncing, world,
                   bounds, history>>

\* Slip: nothing is republished.
RepublishNothing(t) ==
    /\ republish' = republish \ {t}
    /\ UNCHANGED <<wire, raced>>

\* _republish_retained of a topic: its last confirmed payload.
RepublishTopic(t) ==
    /\ republish' = republish \ {t}
    /\ wire' = IF last[t] = Unset THEN wire
               ELSE Append(wire, [topic |-> t, state |-> last[t], by |-> "republish"])
    /\ raced' = IF \E m \in awaiting : m.topic = t THEN raced \cup {t} ELSE raced

Republish ==
    /\ link = "serving"
    /\ \E t \in republish : RepublishTopic(t)
    /\ UNCHANGED <<link, client, last, flags, grace, claimed, broker, will, calls, stage,
                   resyncing, world, bounds, lost, late>>

\* What was not delivered is gone, and the will is armed.
BreakOff ==
    /\ link' = "down"
    /\ wire' = <<>>
    /\ will' = TRUE

\* The connection is lost.  A publish that is awaited raises, also when only its
\* answer was lost.  Only a client that was serving runs the finally of
\* _connect_and_serve.  A publish that raises ends its task: the process, if it
\* is that of the cold start or of the shutdown (an MqttError is not caught).
Lose ==
    /\ Up
    /\ ~Ended
    /\ drops < MaxDrops
    /\ drops' = drops + 1
    /\ BreakOff
    /\ IF link = "serving"
       THEN /\ client' = FALSE
            /\ republish' = {}
            /\ mqttUp' = FALSE
            /\ OnChange(FALSE, sysapUp)
       ELSE UNCHANGED <<client, republish, mqttUp, grace>>
    /\ awaiting' = {}
    /\ acks' = <<>>
    /\ lost' = lost \cup {m.topic : m \in awaiting} \cup (IF Idle("resync") THEN {} ELSE Topics)
    /\ stage' = IF Idle("start") /\ Idle("stop") THEN stage ELSE "stopped"
    /\ resyncing' = IF Idle("resync") THEN resyncing ELSE "no"
    /\ UNCHANGED <<last, sysapUp, loaded, claimed, broker, world, resyncs, changes, raced,
                   late>>

\* A publish comes back; the client remembers what it said.
Return ==
    /\ acks # <<>>
    /\ ~Ended
    /\ acks' = Tail(acks)
    /\ LET m == Head(acks) IN
          /\ awaiting' = awaiting \ {m}
          /\ last' = [last EXCEPT ![m.topic] = m.state]
          /\ lost' = IF m.state = claimed[m.topic] THEN lost \ {m.topic} ELSE lost
    /\ UNCHANGED <<link, client, republish, flags, grace, claimed, net, stage, resyncing,
                   world, bounds, raced, late>>

----------------------------------------------------------------------------
(* The broker.                                                             *)

\* It takes the next message; a QoS 1 message is acknowledged.
Receive ==
    /\ wire # <<>>
    /\ wire' = Tail(wire)
    /\ LET m == Head(wire) IN
          /\ broker' = [broker EXCEPT ![m.topic] = m.state]
          /\ acks' = IF m \in awaiting THEN Append(acks, m) ELSE acks
    /\ UNCHANGED <<link, mqtt, flags, grace, claimed, will, awaiting, stage, resyncing, world,
                   bounds, history>>

\* It notices the loss of the connection.
PublishWill ==
    /\ will
    /\ will' = FALSE
    /\ broker' = [broker EXCEPT !["bridge"] = "offline"]
    /\ UNCHANGED <<link, mqtt, flags, grace, claimed, wire, calls, stage, resyncing, world,
                   bounds, history>>

----------------------------------------------------------------------------
(* The cold start.                                                         *)

\* The broker was reached: the reader is started.
StartReader ==
    /\ stage = "mqtt"
    /\ client \/ drops > 0
    /\ stage' = "sysap"
    /\ UNCHANGED <<link, mqtt, flags, grace, claimed, net, calls, resyncing, world, bounds, history>>

\* The first load up to device_availability.publish; a publish raises without
\* a connection, and the process ends.
Load ==
    /\ stage = "loading"
    /\ fetched' = device
    /\ IF Up THEN stage' = "seeded" /\ Publish("start", "device", device)
             ELSE stage' = "stopped" /\ UNCHANGED <<claimed, wire, calls, lost>>
    /\ UNCHANGED <<link, mqtt, flags, grace, broker, will, resyncing, ws, device, bounds, raced, late>>

\* set_model_loaded and publish_now.
FinishLoad ==
    /\ stage = "seeded"
    /\ Idle("start")
    /\ loaded' = TRUE
    /\ grace' = FALSE
    /\ LET s == StateOf(Online(mqttUp, sysapUp, TRUE)) IN
          /\ Publish("start", "bridge", s)
          /\ stage' = IF Raises("bridge", s) THEN "stopped" ELSE "starting"
    /\ UNCHANGED <<link, mqtt, mqttUp, sysapUp, broker, will, resyncing, world, bounds, raced, late>>

\* _cold_start_done.
Started ==
    /\ stage = "starting"
    /\ Idle("start")
    /\ stage' = "running"
    /\ UNCHANGED <<link, mqtt, flags, grace, claimed, net, calls, resyncing, world, bounds, history>>

----------------------------------------------------------------------------
(* The SysAP and the resync.                                               *)

DeviceChanges ==
    /\ changes < MaxChanges
    /\ changes' = changes + 1
    /\ device' \in States \ {device}
    /\ UNCHANGED <<link, mqtt, flags, grace, claimed, net, calls, stage, resyncing, ws, fetched,
                   drops, resyncs, history>>

\* The WebSocket is lost: nobody is told.
WsLost ==
    /\ ws
    /\ ws' = FALSE
    /\ UNCHANGED <<link, mqtt, flags, grace, claimed, net, calls, stage, resyncing, device,
                   fetched, bounds, history>>

\* A resync has fetched (one at a time).
BeginResync ==
    /\ resyncing = "no"
    /\ resyncs < MaxResyncs
    /\ resyncs' = resyncs + 1
    /\ resyncing' = "fetched"
    /\ fetched' = device

\* _on_ws_connected.
WsConnected ==
    /\ ~ws
    /\ stage \notin {"mqtt", "stopped"}
    /\ ws' = TRUE
    /\ sysapUp' = TRUE
    /\ OnChange(mqttUp, TRUE)
    /\ stage' = IF stage = "sysap" THEN "loading" ELSE stage
    /\ IF stage \in {"running", "stopping", "closing"} THEN BeginResync
       ELSE UNCHANGED <<resyncing, resyncs, fetched>>
    /\ UNCHANGED <<link, mqtt, mqttUp, loaded, claimed, net, calls, device, drops, changes, history>>

\* A reload or the periodic refresh.
Reload ==
    /\ stage = "running"
    /\ BeginResync
    /\ UNCHANGED <<link, mqtt, flags, grace, claimed, net, calls, stage, ws, device, drops,
                   changes, history>>

\* publish_now of a resync.
ResyncBridge ==
    /\ resyncing = "fetched"
    /\ ~Ended
    /\ grace' = FALSE
    /\ IF Raises("bridge", Now)
       THEN /\ claimed' = [claimed EXCEPT !["bridge"] = Now]
            /\ lost' = Topics
            /\ resyncing' = "no"
            /\ UNCHANGED <<wire, calls>>
       ELSE /\ Publish("resync", "bridge", Now)
            /\ resyncing' = "bridge"
    /\ late' = (late \/ (stage \in {"stopping", "closing"} /\ Now = "online"))
    /\ UNCHANGED <<link, mqtt, flags, broker, will, stage, world, bounds, raced>>

\* device_availability.publish of a resync.
ResyncDevice ==
    /\ resyncing = "bridge"
    /\ ~Ended
    /\ Idle("resync")
    /\ Publish("resync", "device", fetched)
    /\ resyncing' = IF Raises("device", fetched) THEN "no" ELSE "device"
    /\ UNCHANGED <<link, mqtt, flags, grace, broker, will, stage, world, bounds, raced, late>>

ResyncEnds ==
    /\ resyncing = "device"
    /\ Idle("resync")
    /\ resyncing' = "no"
    /\ UNCHANGED <<link, mqtt, flags, grace, claimed, net, calls, stage, world, bounds, history>>

----------------------------------------------------------------------------
(* The shutdown.                                                           *)


\* The publish of publish_forced_offline.  Without a client it is skipped; with
\* one that _on_connected left behind it raises, which ends the process.
ForceOffline ==
    IF Up THEN stage' = "stopping" /\ Send("stop", "bridge", "offline")
    ELSE /\ stage' = IF client THEN "stopped" ELSE "closing"
         /\ UNCHANGED <<wire, calls>>

Stop ==
    /\ stage = "running"
    /\ grace' = FALSE
    /\ claimed' = [claimed EXCEPT !["bridge"] = "offline"]
    /\ ForceOffline
    /\ UNCHANGED <<link, mqtt, flags, broker, will, resyncing, world, bounds, history>>

\* The explicit offline is out; entities.json is saved, the WebSocket and the
\* session are closed.
Stopping ==
    /\ stage = "stopping"
    /\ Idle("stop")
    /\ stage' = "closing"
    /\ UNCHANGED <<link, mqtt, flags, grace, claimed, net, calls, resyncing, world, bounds, history>>

\* mqtt.stop: a clean disconnect, without the will.
Close ==
    /\ stage = "closing"
    /\ stage' = "stopped"
    /\ link' = "down"
    /\ client' = FALSE
    /\ ws' = FALSE
    /\ UNCHANGED <<last, republish, flags, grace, claimed, net, calls, resyncing, device, fetched,
                   bounds, history>>

----------------------------------------------------------------------------
Run ==
    \/ GraceEnds \/ Subscribed \/ Flushed \/ Serve \/ Republish \/ Return
    \/ Receive \/ PublishWill
    \/ StartReader \/ Load \/ FinishLoad \/ Started
    \/ ResyncBridge \/ ResyncDevice \/ ResyncEnds
    \/ Stopping \/ Close

Next ==
    \/ Run
    \/ Connect \/ Lose
    \/ DeviceChanges \/ WsLost \/ WsConnected \/ Reload
    \/ Stop

\* Timers fire, tasks run and the broker takes what it is sent.  Neither a new
\* connection nor the end of an outage is promised.
Fairness == WF_vars(Run) /\ WF_vars(Receive) /\ WF_vars(PublishWill) /\ WF_vars(GraceEnds)

Spec == Init /\ [][Next]_vars /\ Fairness

----------------------------------------------------------------------------
(* Properties.                                                             *)

\* Nothing is on its way between bridge and broker.
Settled ==
    /\ link = "serving" /\ republish = {} /\ wire = <<>> /\ ~will
    /\ awaiting = {}

\* Whatever the broker, the will, the grace timer and the reconnects did in
\* between: once the connection has settled a running bridge is online at the
\* broker, unless a publish it had claimed failed or the delayed republish met
\* one under way.  A will published within the grace period is repaired by the
\* republish alone.
RunningIsOnline ==
    Settled /\ stage = "running" /\ "bridge" \notin lost \cup raced => broker["bridge"] = "online"

\* The same of the device: the broker has what the last resync fetched.
DeviceIsCurrent ==
    Settled /\ stage = "running" /\ resyncing = "no" /\ "device" \notin lost \cup raced
        => broker["device"] = fetched

====
