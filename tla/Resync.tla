---- MODULE Resync ----
(***************************************************************************)
(* How the bridge keeps its StateStore equal to the SysAP:                 *)
(*   sysap/ws.py    WsReader: connection, buffering, dispatch              *)
(*   supervisor.py  _startup, _resync, _diff_and_apply, _ReloadDebouncer,  *)
(*                  _config_refresh_loop and the WS and MQTT callbacks     *)
(* Four coroutines fetch the configuration and rebuild the store from it:  *)
(* startup, the resync a WS reconnect spawns, the debounced reload and the *)
(* periodic refresh.  They interleave at their awaits with each other and  *)
(* with the frames.  A configuration is its datapoint values and one key   *)
(* for everything else in it.  A flush of the publisher is one step here   *)
(* (PublishPath has its interleaving).                                     *)
(***************************************************************************)
EXTENDS Naturals, Sequences, FiniteSetsExt

CONSTANTS
    Points,       \* datapoints, one state attribute each
    Topology,     \* the key of what is no datapoint: devices, names, channels
    Values,       \* raw values
    BufferLimit,  \* WsReader._buffer_limit
    MaxChanges,   \* bound on the changes at the SysAP
    MaxLosses,    \* bound on the lost WS connections and refused fetches
    MaxOutages,   \* bound on the broker outages
    MaxRequests   \* bound on the reload requests of the bridge API

ASSUME KeysAssumption == Topology \notin Points
ASSUME LimitsAssumption ==
    /\ BufferLimit \in Nat \ {0}
    /\ MaxChanges \in Nat
    /\ MaxLosses \in Nat
    /\ MaxOutages \in Nat
    /\ MaxRequests \in Nat

Keys == Points \cup {Topology}
Config == [Keys -> Values]
Frame == [key : Keys, val : Values]
Gone == <<>>      \* the local variable of a coroutine that is not running

\* One coroutine of each kind at a time: a second reconnect, or a second
\* debounced reload, waits for the first one's resync (a bound of the model).
Slots == {"startup", "reconnect", "reload", "refresh"}

Windows == {"stale snapshot", "overlap", "startup gap", "unseen topology",
            "refused fetch", "dirty dropped", "old publish"}

VARIABLES
    truth,       \* the SysAP's configuration
    connected,   \* the WS connection is up
    wire,        \* frames sent and not yet received
    buffering,   \* WsReader._buffering
    buffer,      \* WsReader._buffer
    store,       \* the values of the current StateStore, the model it belongs to
    dirty,       \* StateStore.dirty
    rebuilt,     \* a resync has replaced the Publisher that the publisher task runs
    lastConfig,  \* what _last_config_hash is the hash of
    coldDone,    \* _cold_start_done
    pc,          \* per slot: where its coroutine is
    snap,        \* per slot: the configuration it has fetched
    timer,       \* _ReloadDebouncer._timer is set
    reloadAgain, \* _ReloadDebouncer._reload_again
    again,       \* reload_again captured by the running _wait_then_resync
    broker,      \* the MQTT connection is up
    published,   \* the last published value of each datapoint
    orphan,      \* what the replaced Publisher's store had dirty, as frames
    changes, losses, outages, requests,
    windows      \* history: the races entered so far

readerVars  == <<connected, wire, buffering, buffer>>
storeVars   == <<store, dirty, rebuilt, lastConfig>>
slotVars    == <<pc, snap, coldDone>>
reloadVars  == <<timer, reloadAgain, again>>
mqttVars    == <<broker, published, orphan>>
bounds      == <<changes, losses, outages, requests>>
vars == <<truth, readerVars, storeVars, slotVars, reloadVars, mqttVars, bounds, windows>>

TypeOK ==
    /\ truth \in Config
    /\ connected \in BOOLEAN
    /\ wire \in Seq(Frame)
    /\ buffering \in BOOLEAN
    /\ buffer \in Seq(Frame) /\ Len(buffer) <= BufferLimit
    /\ store \in Config
    /\ dirty \in SUBSET Points
    /\ rebuilt \in BOOLEAN
    /\ lastConfig \in Config
    /\ coldDone \in BOOLEAN
    /\ pc \in [Slots -> {"idle", "spawned", "fetching", "fetched", "publishing", "flushing"}]
    /\ snap \in [Slots -> Config \cup {Gone}]
    /\ timer \in BOOLEAN
    /\ reloadAgain \in BOOLEAN
    /\ again \in BOOLEAN
    /\ broker \in BOOLEAN
    /\ published \in [Points -> Values]
    /\ orphan \in SUBSET Frame
    /\ changes \in 0..MaxChanges
    /\ losses \in 0..MaxLosses
    /\ outages \in 0..MaxOutages
    /\ requests \in 0..MaxRequests
    /\ windows \in SUBSET Windows

\* _startup has armed the buffer, the WS is connected and the fetch begins; what
\* the store and the broker held before is the previous run's.
Init ==
    /\ truth \in {[k \in Keys |-> v] : v \in Values}
    /\ connected = TRUE
    /\ wire = <<>>
    /\ buffering = TRUE
    /\ buffer = <<>>
    /\ store = truth
    /\ dirty = {}
    /\ rebuilt = FALSE
    /\ lastConfig = truth
    /\ coldDone = FALSE
    /\ pc = [s \in Slots |-> IF s = "startup" THEN "fetching" ELSE "idle"]
    /\ snap = [s \in Slots |-> Gone]
    /\ timer = FALSE
    /\ reloadAgain = FALSE
    /\ again = FALSE
    /\ broker = TRUE
    /\ published = [p \in Points |-> truth[p]]
    /\ orphan = {}
    /\ changes = 0
    /\ losses = 0
    /\ outages = 0
    /\ requests = 0
    /\ windows = {}

----------------------------------------------------------------------------
(* The SysAP and the WS connection.                                        *)

\* A change is reported to the connection that is up, and to no later one.
Change(k) ==
    /\ changes < MaxChanges
    /\ changes' = changes + 1
    /\ \E v \in Values \ {truth[k]} :
          /\ truth' = [truth EXCEPT ![k] = v]
          /\ wire' = IF connected THEN Append(wire, [key |-> k, val |-> v]) ELSE wire
    /\ UNCHANGED <<connected, buffering, buffer, storeVars, slotVars, reloadVars, mqttVars,
                   losses, outages, requests, windows>>

Disconnect ==
    /\ connected' = FALSE
    /\ wire' = <<>>

Lose ==
    /\ connected
    /\ losses < MaxLosses
    /\ losses' = losses + 1
    /\ Disconnect
    /\ UNCHANGED <<truth, buffering, buffer, storeVars, slotVars, reloadVars, mqttVars,
                   changes, outages, requests, windows>>

\* start_buffering empties the buffer it may find.
StartBuffering ==
    /\ buffering' = TRUE
    /\ buffer' = <<>>

\* _on_ws_connected: buffer from here, and resync once the cold start is over.
Reconnect ==
    /\ ~connected
    /\ pc["reconnect"] = "idle"
    /\ connected' = TRUE
    /\ StartBuffering
    /\ pc' = IF coldDone THEN [pc EXCEPT !["reconnect"] = "spawned"] ELSE pc
    /\ windows' = IF coldDone THEN windows ELSE windows \cup {"startup gap"}
    /\ UNCHANGED <<truth, wire, storeVars, snap, coldDone, reloadVars, mqttVars, bounds>>

----------------------------------------------------------------------------
(* Frames: buffered, or applied by Ingress and StateStore.apply.           *)

\* The values after the datapoints among frames are applied in order.
Applied(values, frames) ==
    [k \in Keys |->
        LET mine == {i \in DOMAIN frames : frames[i].key = k}
        IN  IF k = Topology \/ mine = {} THEN values[k] ELSE frames[Max(mine)].val]

\* The entities that change on the way are dirty, even if they change back.
Dirtied(values, frames) ==
    {p \in Points : \E i \in DOMAIN frames : frames[i].key = p
                        /\ frames[i].val # Applied(values, SubSeq(frames, 1, i - 1))[p]}

\* _ReloadDebouncer.request
Request ==
    IF timer THEN reloadAgain' = TRUE /\ UNCHANGED timer
             ELSE timer' = TRUE /\ UNCHANGED reloadAgain

\* The reload command of the bridge API; the debouncer is there before the
\* cold start is done.
RequestReload ==
    /\ requests < MaxRequests
    /\ requests' = requests + 1
    /\ Request
    /\ UNCHANGED <<truth, readerVars, storeVars, slotVars, again, mqttVars, changes,
                   losses, outages, windows>>

\* Slip: one frame more than the limit.
BufferFramePastLimit ==
    /\ connected
    /\ wire # <<>>
    /\ buffering
    /\ Len(buffer) <= BufferLimit
    /\ wire' = Tail(wire)
    /\ buffer' = Append(buffer, Head(wire))
    /\ UNCHANGED <<truth, connected, buffering, storeVars, slotVars, reloadVars, mqttVars,
                   bounds, windows>>

\* _dispatch_one while buffering.
BufferFrame ==
    /\ connected
    /\ wire # <<>>
    /\ buffering
    /\ Len(buffer) < BufferLimit
    /\ wire' = Tail(wire)
    /\ buffer' = Append(buffer, Head(wire))
    /\ UNCHANGED <<truth, connected, buffering, storeVars, slotVars, reloadVars, mqttVars,
                   bounds, windows>>

\* WsBufferOverflowError: the reader dies and its shim restarts it.
Overflow ==
    /\ connected
    /\ wire # <<>>
    /\ buffering
    /\ Len(buffer) >= BufferLimit
    /\ Disconnect
    /\ UNCHANGED <<truth, buffering, buffer, storeVars, slotVars, reloadVars, mqttVars,
                   bounds, windows>>

\* _on_ws_frame: the ingress takes the datapoints, a topology frame requests a
\* reload (not before the cold start is done).
LiveFrame ==
    /\ connected
    /\ wire # <<>>
    /\ ~buffering
    /\ wire' = Tail(wire)
    /\ store' = Applied(store, <<Head(wire)>>)
    /\ dirty' = dirty \cup Dirtied(store, <<Head(wire)>>)
    /\ IF Head(wire).key = Topology /\ coldDone
       THEN Request /\ UNCHANGED windows
       ELSE /\ UNCHANGED <<timer, reloadAgain>>
            /\ windows' = IF Head(wire).key = Topology
                          THEN windows \cup {"unseen topology"} ELSE windows
    /\ UNCHANGED <<truth, connected, buffering, buffer, rebuilt, lastConfig, slotVars,
                   again, mqttVars, bounds>>

----------------------------------------------------------------------------
(* The steps of a resync.                                                  *)

Active(s) == pc[s] \notin {"idle", "spawned"}
Overlapping(s) == \E o \in Slots \ {s, "refresh"} : Active(o)
EnterWindows(stale, overlap) ==
    windows' = windows \cup (IF stale THEN {"stale snapshot"} ELSE {})
                       \cup (IF overlap THEN {"overlap"} ELSE {})

\* The resync a reconnect spawned: buffer, then ask for the configuration.
BeginReconnect ==
    /\ pc["reconnect"] = "spawned"
    /\ pc' = [pc EXCEPT !["reconnect"] = "fetching"]
    /\ StartBuffering
    /\ EnterWindows(FALSE, Overlapping("reconnect") \/ pc["refresh"] = "publishing")
    /\ UNCHANGED <<truth, connected, wire, storeVars, snap, coldDone, reloadVars, mqttVars,
                   bounds>>

\* Slip: the reload fetches without buffering.
BeginReloadUnbuffered ==
    /\ timer
    /\ pc["reload"] = "idle"
    /\ timer' = FALSE
    /\ again' = reloadAgain
    /\ reloadAgain' = FALSE
    /\ pc' = [pc EXCEPT !["reload"] = "fetching"]
    /\ EnterWindows(FALSE, Overlapping("reload") \/ pc["refresh"] = "publishing")
    /\ UNCHANGED <<truth, readerVars, storeVars, snap, coldDone, mqttVars, bounds>>

\* _wait_then_resync after its sleeps: the timer is cleared before the resync,
\* and reload_again is captured.
BeginReload ==
    /\ timer
    /\ pc["reload"] = "idle"
    /\ timer' = FALSE
    /\ again' = reloadAgain
    /\ reloadAgain' = FALSE
    /\ pc' = [pc EXCEPT !["reload"] = "fetching"]
    /\ StartBuffering
    /\ EnterWindows(FALSE, Overlapping("reload") \/ pc["refresh"] = "publishing")
    /\ UNCHANGED <<truth, connected, wire, storeVars, snap, coldDone, mqttVars, bounds>>

\* _config_refresh_loop wakes up and asks for the configuration, not buffering.
BeginRefresh ==
    /\ coldDone
    /\ pc["refresh"] = "idle"
    /\ pc' = [pc EXCEPT !["refresh"] = "fetching"]
    /\ UNCHANGED <<truth, readerVars, storeVars, snap, coldDone, reloadVars, mqttVars,
                   bounds, windows>>

\* The SysAP takes the snapshot it answers with.
Snapshot(s) ==
    /\ pc[s] = "fetching"
    /\ snap' = [snap EXCEPT ![s] = truth]
    /\ pc' = [pc EXCEPT ![s] = "fetched"]
    /\ UNCHANGED <<truth, readerVars, storeVars, coldDone, reloadVars, mqttVars, bounds,
                   windows>>

\* The coroutine of slot s is over, and its local variables with it.
Ends(s) ==
    /\ pc' = [pc EXCEPT ![s] = "idle"]
    /\ snap' = [snap EXCEPT ![s] = Gone]
    /\ again' = (again /\ s # "reload")

\* The SysAP's answer is an error that is not retried: the resync is over and
\* leaves the reader buffering, the refresher's shim restarts it.
FetchFails(s) ==
    /\ s # "startup"
    /\ pc[s] = "fetching"
    /\ losses < MaxLosses
    /\ losses' = losses + 1
    /\ Ends(s)
    /\ windows' = IF s = "refresh" THEN windows ELSE windows \cup {"refused fetch"}
    /\ UNCHANGED <<truth, readerVars, storeVars, coldDone, timer, reloadAgain, mqttVars,
                   changes, outages, requests>>

\* Slip: the newest frame is replayed first.
DrainReversed(values, d, frames) ==
    LET reversed == [i \in DOMAIN frames |-> frames[Len(frames) + 1 - i]]
    IN  /\ buffering' = FALSE
        /\ buffer' = <<>>
        /\ store' = Applied(values, reversed)
        /\ dirty' = d \cup Dirtied(values, reversed)

\* drain_buffer over the store values with dirty set d: buffering is off.
Drain(values, d, frames) ==
    /\ buffering' = FALSE
    /\ buffer' = <<>>
    /\ store' = Applied(values, frames)
    /\ dirty' = d \cup Dirtied(values, frames)

\* Frames drained reach process_frame, which has no use for a topology frame.
Unseen(frames) == \E i \in DOMAIN frames : frames[i].key = Topology

\* Slip: the diff is against the old model's initial snapshot.
DifferingFromSnapshot(config) == {p \in Points : lastConfig[p] # config[p]}

\* The datapoints _diff_and_apply marks dirty: by value, whatever was dirty.
Differing(config) == {p \in Points : store[p] # config[p]}

\* _startup on the response: seed, drain, everything dirty.
LoadStartup ==
    /\ pc["startup"] = "fetched"
    /\ pc' = [pc EXCEPT !["startup"] = "flushing"]
    /\ lastConfig' = snap["startup"]
    /\ Drain(snap["startup"], Points, buffer)
    /\ windows' = IF Unseen(buffer) THEN windows \cup {"unseen topology"} ELSE windows
    /\ UNCHANGED <<truth, connected, wire, rebuilt, snap, coldDone, reloadVars, mqttVars,
                   bounds>>

\* _resync on the response: compile, remember the hash, diff and rebuild.  With
\* a topology that differs, retractions and discovery are published before the
\* drain; with the same one nothing is awaited in between.  The refresher comes
\* here only if the hash differs, and only now empties the buffer.
Rebuild(s) ==
    LET frames == IF s = "refresh" THEN <<>> ELSE buffer
        config == snap[s]
    IN  /\ s # "startup"
        /\ pc[s] = "fetched"
        /\ s = "refresh" => config # lastConfig
        /\ lastConfig' = config
        /\ rebuilt' = coldDone
        /\ orphan' = IF coldDone /\ ~rebuilt
                     THEN {[key |-> p, val |-> store[p]] : p \in dirty} ELSE orphan
        /\ windows' = windows
              \cup (IF s = "refresh" /\ config # truth THEN {"stale snapshot"} ELSE {})
              \cup (IF s = "refresh" /\ Overlapping(s) THEN {"overlap"} ELSE {})
              \cup (IF dirty \subseteq Differing(config) THEN {} ELSE {"dirty dropped"})
              \cup (IF config[Topology] = store[Topology] /\ Unseen(frames)
                    THEN {"unseen topology"} ELSE {})
        /\ IF config[Topology] = store[Topology]
           THEN /\ Drain(config, Differing(config), frames)
                /\ pc' = [pc EXCEPT ![s] = "flushing"]
           ELSE /\ store' = config
                /\ dirty' = Differing(config)
                /\ buffer' = frames
                /\ buffering' = (s = "refresh" \/ buffering)
                /\ pc' = [pc EXCEPT ![s] = "publishing"]
        /\ UNCHANGED <<truth, connected, wire, snap, coldDone, reloadVars, broker,
                       published, bounds>>

\* Slip: the refresher does nothing whatever the hash.
SkipRefreshAlways ==
    /\ pc["refresh"] = "fetched"
    /\ Ends("refresh")
    /\ UNCHANGED <<truth, readerVars, storeVars, coldDone, timer, reloadAgain, mqttVars,
                   bounds, windows>>

\* The refresher's hash comparison: nothing to do.
SkipRefresh ==
    /\ pc["refresh"] = "fetched"
    /\ snap["refresh"] = lastConfig
    /\ Ends("refresh")
    /\ UNCHANGED <<truth, readerVars, storeVars, coldDone, timer, reloadAgain, mqttVars,
                   bounds, windows>>

\* The retractions and the discovery are out: replay the buffer.
DrainPublished(s) ==
    /\ pc[s] = "publishing"
    /\ broker
    /\ Drain(store, dirty, buffer)
    /\ pc' = [pc EXCEPT ![s] = "flushing"]
    /\ windows' = IF Unseen(buffer) THEN windows \cup {"unseen topology"} ELSE windows
    /\ UNCHANGED <<truth, connected, wire, rebuilt, lastConfig, snap, coldDone, reloadVars,
                   mqttVars, bounds>>

\* Publisher.flush of the current store.
Flush ==
    /\ published' = [p \in Points |-> IF p \in dirty THEN store[p] ELSE published[p]]
    /\ dirty' = {}

\* The last flush and the inventory are published: the coroutine is done.
Finish(s) ==
    /\ pc[s] = "flushing"
    /\ broker
    /\ Flush
    /\ Ends(s)
    /\ coldDone' = (coldDone \/ s = "startup")
    /\ IF s = "reload" /\ again THEN Request ELSE UNCHANGED <<timer, reloadAgain>>
    /\ UNCHANGED <<truth, readerVars, store, rebuilt, lastConfig, broker, orphan,
                   bounds, windows>>

\* A publish raises for want of a broker: the coroutine is over, whatever it
\* has not done is not done.
Fail(s) ==
    /\ pc[s] \in {"publishing", "flushing"}
    /\ ~broker
    /\ Ends(s)
    /\ UNCHANGED <<truth, readerVars, storeVars, coldDone, timer, reloadAgain, mqttVars,
                   bounds, windows>>

----------------------------------------------------------------------------
(* Publishing.                                                             *)

\* The supervised publisher runs the Publisher that _startup built; it wakes up
\* for the StateStore of that Publisher and for no later one.
LivePublish ==
    /\ coldDone
    /\ ~rebuilt
    /\ broker
    /\ dirty # {}
    /\ Flush
    /\ UNCHANGED <<truth, readerVars, store, rebuilt, lastConfig, slotVars, reloadVars,
                   broker, orphan, bounds, windows>>

\* The Publisher it still runs after a resync publishes what its own store had
\* dirty, whatever the current store holds by then.
PublishOld ==
    /\ orphan # {}
    /\ broker
    /\ orphan' = {}
    /\ published' = [p \in Points |->
           IF \E f \in orphan : f.key = p THEN (CHOOSE f \in orphan : f.key = p).val
           ELSE published[p]]
    /\ windows' = windows \cup {"old publish"}
    /\ UNCHANGED <<truth, readerVars, storeVars, slotVars, reloadVars, broker, bounds>>

\* Without a broker its publish raises; run starts over with wake cleared.
AbandonOld ==
    /\ orphan # {}
    /\ ~broker
    /\ orphan' = {}
    /\ UNCHANGED <<truth, readerVars, storeVars, slotVars, reloadVars, broker, published,
                   bounds, windows>>

\* An outage before the cold start is done ends the process (not modelled).
LoseBroker ==
    /\ broker
    /\ coldDone
    /\ outages < MaxOutages
    /\ outages' = outages + 1
    /\ broker' = FALSE
    /\ UNCHANGED <<truth, readerVars, storeVars, slotVars, reloadVars, published, orphan,
                   changes, losses, requests, windows>>

\* _on_mqtt_reconnected flushes the current Publisher.
RegainBroker ==
    /\ ~broker
    /\ broker' = TRUE
    /\ Flush
    /\ UNCHANGED <<truth, readerVars, store, rebuilt, lastConfig, slotVars, reloadVars,
                   orphan, bounds, windows>>

----------------------------------------------------------------------------
Reader == Reconnect \/ BufferFrame \/ Overflow \/ LiveFrame
Step(s) == Snapshot(s) \/ Rebuild(s) \/ DrainPublished(s) \/ Finish(s) \/ Fail(s)

Next ==
    \/ \E k \in Keys : Change(k)
    \/ Lose
    \/ RequestReload
    \/ Reader
    \/ BeginReconnect \/ BeginReload \/ BeginRefresh \/ LoadStartup \/ SkipRefresh
    \/ \E s \in Slots : Step(s) \/ FetchFails(s)
    \/ LivePublish
    \/ PublishOld \/ AbandonOld
    \/ LoseBroker
    \/ RegainBroker

\* Connections come back, requests are answered, timers fire and every ready
\* coroutine runs; the replaced Publisher was woken for what its store owes.
Scheduling ==
    /\ WF_vars(Reader)
    /\ \A s \in Slots : WF_vars(Step(s))
    /\ WF_vars(BeginReconnect)
    /\ WF_vars(BeginReload)
    /\ WF_vars(LoadStartup)
    /\ WF_vars(SkipRefresh)
    /\ WF_vars(LivePublish)
    /\ WF_vars(PublishOld \/ AbandonOld)
    /\ WF_vars(RegainBroker)

Spec == Init /\ [][Next]_vars /\ Scheduling /\ WF_vars(BeginRefresh)

\* config_refresh_interval: 0 turns the refresher off; it may as well be late.
SpecWithoutRefresh == Init /\ [][Next]_vars /\ Scheduling

----------------------------------------------------------------------------
(* Properties.                                                             *)

\* The store's value of key k once the frames on their way are applied.
Settled(k) ==
    LET frames == buffer \o wire
        mine == {i \in DOMAIN frames : frames[i].key = k}
    IN  IF mine = {} THEN store[k] ELSE frames[Max(mine)].val

\* A resync that has yet to apply its snapshot (the refresher may never do).
Pending == timer \/ \E s \in Slots \ {"refresh"} : pc[s] \in {"spawned", "fetching", "fetched"}

\* Buffer, fetch, apply, drain loses no frame: with the connection up and no
\* resync pending, the store with the frames on their way is the SysAP's
\* configuration, unless one of the windows was entered before.
NothingMissed ==
    connected /\ ~Pending
      /\ windows \subseteq {"dirty dropped", "old publish"}
        => \A k \in Keys : Settled(k) = truth[k]

\* Whatever a resync got wrong, the periodic refresh can tell: a store that is
\* wrong with nothing on its way has a hash that differs from the SysAP's.  Not
\* so after a refused fetch: the frames its start_buffering dropped, or that
\* were sent while the connection was down, may have set a value back to what
\* the hash was taken of.
RefreshCatches ==
    connected /\ coldDone /\ ~Pending /\ windows \cap {"startup gap", "refused fetch"} = {}
        => lastConfig # truth \/ \A p \in Points : Settled(p) = truth[p]

\* Once changes and faults stop, the store ends up equal to the SysAP, whatever
\* the resyncs lost on the way to each other.
Heals == <>[](store = truth \/ windows \cap {"startup gap", "refused fetch"} # {})

\* A value the broker does not have is dirty, in every store a resync rebuilds,
\* unless the resync dropped a debt or the replaced Publisher was late.
DirtyOrPublished ==
    coldDone /\ windows \cap {"dirty dropped", "old publish"} = {} =>
        \A p \in Points : p \in dirty \/ published[p] = store[p]

\* "A dead publisher task while the process stays up is worse than a crash"
\* (docs/02-architecture.md section 3.1): while the broker is there, what is
\* dirty gets published without waiting for another resync.
DebtsArePaid == dirty # {} ~> dirty = {} \/ ~broker
====
