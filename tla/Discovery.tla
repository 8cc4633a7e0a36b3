---- MODULE Discovery ----
(***************************************************************************)
(* What the bridge leaves behind: the retained discovery and state topics  *)
(* at the broker and its two files.                                        *)
(*   homeassistant/discovery.py  DiscoveryPublisher                        *)
(*   persistence.py              EntitiesStore, DiscoveryStore             *)
(*   supervisor.py               cold start, resync, rename, options,      *)
(*                               republish, Home Assistant's birth         *)
(* Three tasks of the bridge publish, record and save, one await at a time *)
(* and in any interleaving: main (the cold start, then the resyncs of the  *)
(* debouncer, the refresher and the reader), api (a request) and birth.    *)
(* An entity has one discovery topic, which is named after the entity and  *)
(* its name, as is its state topic.                                        *)
(***************************************************************************)
EXTENDS Naturals, Sequences, FiniteSets, FiniteSetsExt

CONSTANTS
    Entities,    \* entity ids
    Names,       \* topic segments
    Looks,       \* discovery payloads, apart from the name
    Shapes,      \* what a channel may be: [name : Names, look : Looks]
    Installed,   \* the channels at the start
    MaxChanges,  \* bound on changes of the SysAP
    MaxRequests, \* bound on requests and births
    MaxFaults,   \* bound on failed publishes and writes
    MaxRestarts, \* bound on restarts
    MaxEvents,   \* bound on all of these together
    None, Gone

Topics == Entities \X Names
Tasks == {"main", "api", "birth"}

ASSUME EntitiesAssumption == IsFiniteSet(Entities)
ASSUME ShapesAssumption ==
    /\ Shapes \subseteq [name : Names, look : Looks]
    /\ Installed \in [Entities -> Shapes \cup {Gone}]
    /\ Gone \notin [name : Names, look : Looks]
    /\ None \notin Looks \cup Names \cup [Topics -> Looks \cup {None}]
ASSUME BoundsAssumption ==
    {MaxChanges, MaxRequests, MaxFaults, MaxRestarts, MaxEvents} \subseteq Nat

VARIABLES
    phase,     \* of the process: "down", "starting", "running"
    sysap,     \* the channels at the SysAP
    model,     \* Supervisor._model
    dirty,     \* the entities StateStore.dirty names
    fresh,     \* the running publisher is that of the current model
    reload,    \* a resync is requested
    ent,       \* EntitiesStore: alias and "enabled" of each entity,
    entDisk,   \*   and entities.json
    store,     \* DiscoveryStore.hashes,
    disk,      \*   and discovery.json
    writes,    \* discovery.json files being written, by task
    todo,      \* what each task is still to do
    unsaved,   \* it has marked or removed a topic since its last save
    wire,      \* messages between bridge and broker
    broker,    \* the retained discovery payloads
    states,    \* topics with a retained state
    changes, requests, faults, restarts,
    doubt,     \* history: topics of which the record was wrong after a restart or a
               \* publish that raised although it was delivered
    stray,     \* history: topics a task meant to treat when it failed, or when
               \* another one changed the model, or whose entity got another name,
               \* or that two tasks treat, one of them to retract it
    silent,    \* history: the same of states, until the topic is published and
               \* nothing is left that clears it
    overtaken  \* history: two writes of discovery.json at once, or marks not saved

memory  == <<model, dirty, fresh, reload, ent, store>>
files   == <<entDisk, disk, writes>>
plans   == <<todo, unsaved>>
world   == <<broker, states>>
bounds  == <<changes, requests, faults, restarts>>
history == <<doubt, stray, silent, overtaken>>
vars == <<phase, sysap, memory, files, plans, wire, world, bounds, history>>

Records == [alias : Names \cup {None}, enabled : BOOLEAN]
Models  == [Entities -> [name : Names, look : Looks] \cup {Gone}]
Hashes  == [Topics -> Looks \cup {None}]
Ops ==
    [op : {"load", "resync", "save", "flush", "ready"}]
    \cup [op : {"clear", "retract"}, topic : Topics]
    \cup [op : {"publish", "changed"}, topic : Topics, look : Looks]
    \cup [op : {"alias"}, entity : Entities, name : Names]
    \cup [op : {"announce"}, entity : Entities, topic : Topics]
Messages == [by : Tasks, topic : Topics, kind : {"clear", "state", "config"}, look : Looks \cup {None}]

TypeOK ==
    /\ phase \in {"down", "starting", "running"}
    /\ sysap \in [Entities -> Shapes \cup {Gone}]
    /\ model \in Models
    /\ dirty \in SUBSET Entities
    /\ fresh \in BOOLEAN /\ reload \in BOOLEAN
    /\ ent \in [Entities -> Records] /\ entDisk \in [Entities -> Records]
    /\ store \in Hashes /\ disk \in Hashes /\ broker \in Hashes
    /\ writes \in [Tasks -> Hashes \cup {None}]
    /\ todo \in [Tasks -> Seq(Ops)]
    /\ unsaved \in [Tasks -> BOOLEAN]
    /\ wire \in Seq(Messages)
    /\ \A i, j \in 1..Len(wire) :
          wire[i].kind = "config" /\ wire[j].kind = "config" /\ wire[i].by = wire[j].by => i = j
    /\ states \in SUBSET Topics
    /\ changes \in 0..MaxChanges /\ requests \in 0..MaxRequests
    /\ faults \in 0..MaxFaults /\ restarts \in 0..MaxRestarts
    /\ {doubt, stray, silent} \subseteq SUBSET Topics
    /\ overtaken \in BOOLEAN

NoModel == [e \in Entities |-> Gone]
NoHashes == [t \in Topics |-> None]

\* A fresh install, before its first start.
Init ==
    /\ phase = "down"
    /\ sysap = Installed
    /\ model = NoModel
    /\ dirty = {} /\ fresh = TRUE /\ reload = FALSE
    /\ ent = [e \in Entities |-> [alias |-> None, enabled |-> TRUE]]
    /\ entDisk = ent
    /\ store = NoHashes /\ disk = NoHashes /\ broker = NoHashes
    /\ writes = [w \in Tasks |-> None]
    /\ todo = [w \in Tasks |-> <<>>]
    /\ unsaved = [w \in Tasks |-> FALSE]
    /\ wire = <<>>
    /\ states = {}
    /\ changes = 0 /\ requests = 0 /\ faults = 0 /\ restarts = 0
    /\ doubt = {} /\ stray = {} /\ silent = {} /\ overtaken = FALSE

----------------------------------------------------------------------------
(* The model and the plans made from it.                                   *)

\* _compile_and_build_discovery: aliases rename, "enabled" excludes.
Compile ==
    [e \in Entities |->
        IF sysap[e] = Gone \/ ~ent[e].enabled THEN Gone
        ELSE [name |-> IF ent[e].alias = None THEN sysap[e].name ELSE ent[e].alias,
              look |-> sysap[e].look]]

Has(m, e) == m[e] # Gone
TopicOf(m, e) == <<e, m[e].name>>
Live(m) == {t \in Topics : Has(m, t[1]) /\ m[t[1]].name = t[2]}
Wanted(m) == [t \in Topics |-> IF t \in Live(m) THEN m[t[1]].look ELSE None]

Op(o) == <<[op |-> o]>>
Save == Op("save")

\* The steps of each plan, one plan after another.
ForEach(of) == FoldSet(LAMBDA x, s : s \o of[x], <<>>, DOMAIN of)

\* Slip: what was published is not saved.
PublishingUnsaved(how, m) ==
    ForEach([t \in Live(m) |-> <<[op |-> how, topic |-> t, look |-> Wanted(m)[t]]>>])

\* publish_changed and publish_all, and retract.
Publishing(how, m) ==
    ForEach([t \in Live(m) |-> <<[op |-> how, topic |-> t, look |-> Wanted(m)[t]]>>]) \o Save

Retracting(topics) == ForEach([t \in topics |-> <<[op |-> "retract", topic |-> t]>>]) \o Save

\* _retract_entity.
Clearing(t) == <<[op |-> "clear", topic |-> t]>> \o Retracting({t})

\* The topics a task is still to treat.
Ahead(w) ==
    UNION {IF "topic" \in DOMAIN todo[w][i] THEN {todo[w][i].topic} ELSE {} : i \in 1..Len(todo[w])}

\* Those it is still to retract, or has retracted for a rename under way.
Leaving(w) ==
    {todo[w][i].topic : i \in {i \in 1..Len(todo[w]) : todo[w][i].op \in {"retract", "announce"}}}

\* The topic of the entity a task is still to announce.
Unannounced(w) ==
    {TopicOf(model, e) : e \in {e \in Entities : Has(model, e) /\
        \E i \in 1..Len(todo[w]) : todo[w][i].op = "announce" /\ todo[w][i].entity = e}}

\* The entities of m that are dirty and were in the model before.
Debts(m) == {e \in dirty : Has(model, e) /\ Has(m, e)}

Event == changes + requests + faults + restarts < MaxEvents

Idle(w) == todo[w] = <<>>

\* Slip: a publish is not awaited.
WaitsForFiles(w) == writes[w] # None

\* Task w awaits its file or its publish.
Waits(w) == writes[w] # None \/ \E i \in 1..Len(wire) : wire[i].by = w /\ wire[i].kind = "config"
Head1(w, o) == ~Idle(w) /\ ~Waits(w) /\ Head(todo[w]).op = o

Written(w, t, kind, look) ==
    wire' = Append(wire, [by |-> w, topic |-> t, kind |-> kind, look |-> look])

\* A step that needs no await: a payload that is recorded is not published, and
\* nothing is saved if nothing was marked.
Passed(o, marks, toSave) ==
    \/ o.op = "changed" /\ marks[o.topic] = o.look
    \/ o.op = "save" /\ ~toSave

\* Task w goes on to the next step that awaits, with the record and the flag it
\* finds when it resumes.
Continue(w, plan, marks, toSave) ==
    LET next == {i \in 1..Len(plan) : ~Passed(plan[i], marks, toSave)} IN
    todo' = [todo EXCEPT ![w] = IF next = {} THEN <<>> ELSE SubSeq(plan, Min(next), Len(plan))]

Proceed(w, more) == Continue(w, more \o Tail(todo[w]), store, unsaved[w])

----------------------------------------------------------------------------
(* The process.                                                            *)

\* Both files are loaded.
Start ==
    /\ phase = "down"
    /\ phase' = "starting"
    /\ ent' = entDisk
    /\ store' = disk
    /\ doubt' = {t \in Topics : disk[t] # broker[t]}
    /\ stray' = {} /\ silent' = {}
    /\ overtaken' = FALSE
    /\ fresh' = TRUE
    /\ todo' = [todo EXCEPT !["main"] = Op("load")]
    /\ UNCHANGED <<sysap, model, dirty, reload, files, unsaved, wire, world, bounds>>

\* Slip: stale topics are not looked for.
LoadKeeping ==
    /\ Head1("main", "load")
    /\ model' = Compile
    /\ dirty' = {e \in Entities : Has(Compile, e)}
    /\ Proceed("main", Publishing("changed", Compile) \o Op("flush") \o Op("ready"))
    /\ UNCHANGED <<phase, sysap, fresh, reload, ent, store, files, unsaved, wire, world,
                   bounds, history>>

\* The first compile: what the record names and the model does not is retracted,
\* then discovery and every state is published.
Load ==
    /\ Head1("main", "load")
    /\ model' = Compile
    /\ dirty' = {e \in Entities : Has(Compile, e)}
    /\ Proceed("main", Retracting({t \in Topics : store[t] # None} \ Live(Compile))
                       \o Publishing("changed", Compile) \o Op("flush") \o Op("ready"))
    /\ UNCHANGED <<phase, sysap, fresh, reload, ent, store, files, unsaved, wire, world,
                   bounds, history>>

Ready ==
    /\ Head1("main", "ready")
    /\ phase' = "running"
    /\ Proceed("main", <<>>)
    /\ UNCHANGED <<sysap, memory, files, unsaved, wire, world, bounds, history>>

\* What the broker holds once it has the first n messages.
Last(t, kinds, n) == Max({0} \cup {i \in 1..n : wire[i].topic = t /\ wire[i].kind \in kinds})
Arrived(n) ==
    /\ broker' = [t \in Topics |-> LET i == Last(t, {"config"}, n) IN
                                   IF i = 0 THEN broker[t] ELSE wire[i].look]
    /\ states' = {t \in Topics : LET i == Last(t, {"clear", "state"}, n) IN
                                   IF i = 0 THEN t \in states ELSE wire[i].kind = "state"}

\* Memory is gone; of the messages the first n were delivered, and of the files
\* being written one may have replaced the old one.
Dies(n) ==
    /\ phase' = "down"
    /\ model' = NoModel /\ dirty' = {} /\ reload' = FALSE
    /\ todo' = [w \in Tasks |-> <<>>]
    /\ unsaved' = [w \in Tasks |-> FALSE]
    /\ wire' = <<>>
    /\ writes' = [w \in Tasks |-> None]
    /\ disk' \in {disk} \cup ({writes[w] : w \in Tasks} \ {None})
    /\ Arrived(n)
    /\ UNCHANGED <<fresh, ent, store, history>>

\* The process is killed.
Crash ==
    /\ phase # "down"
    /\ Event /\ restarts < MaxRestarts
    /\ restarts' = restarts + 1
    /\ \E n \in 0..Len(wire) : Dies(n)
    /\ UNCHANGED <<sysap, entDisk, changes, requests, faults>>

\* The graceful shutdown: entities.json is saved, discovery.json is not; the
\* tasks end with the loop.
Stop ==
    /\ phase = "running"
    /\ Event /\ restarts < MaxRestarts
    /\ restarts' = restarts + 1
    /\ entDisk' = ent
    /\ \E n \in 0..Len(wire) : Dies(n)
    /\ UNCHANGED <<sysap, changes, requests, faults>>

----------------------------------------------------------------------------
(* Requests and events.                                                    *)

\* A channel is added, removed, renamed or changed in the app: its topology
\* frame, or the refresher, asks for a resync.
Change(e) ==
    /\ Event /\ changes < MaxChanges
    /\ changes' = changes + 1
    /\ sysap' \in {[sysap EXCEPT ![e] = s] : s \in Shapes \cup {Gone}} \ {sysap}
    /\ reload' = (reload \/ phase = "running")
    /\ UNCHANGED <<phase, model, dirty, fresh, ent, store, files, plans, wire, world, requests,
                   faults, restarts, history>>

\* The debounced resync begins.
Reload ==
    /\ phase = "running"
    /\ reload
    /\ Idle("main")
    /\ reload' = FALSE
    /\ todo' = [todo EXCEPT !["main"] = Op("resync")]
    /\ UNCHANGED <<phase, sysap, model, dirty, fresh, ent, store, files, unsaved, wire, world,
                   bounds, history>>

Requested ==
    /\ phase # "down"
    /\ Event /\ requests < MaxRequests
    /\ requests' = requests + 1
    /\ UNCHANGED <<phase, sysap, model, dirty, fresh, store, files, unsaved, wire, world,
                   changes, faults, restarts, doubt, silent, overtaken>>

\* entity/rename: the old topics go, the alias is set, the model is compiled
\* anew, the state is published under the new topic.
Rename(e, n) ==
    /\ Idle("api")
    /\ Has(model, e)
    /\ Requested
    /\ LET t == TopicOf(model, e) IN
       /\ todo' = [todo EXCEPT !["api"] =
           Clearing(t) \o <<[op |-> "alias", entity |-> e, name |-> n]>> \o Op("resync")
           \o <<[op |-> "announce", entity |-> e, topic |-> t]>>]
       /\ stray' = stray \cup ({t} \cap UNION {Ahead(v) : v \in Tasks})
    /\ UNCHANGED <<reload, ent>>

\* Slip: the option waits for the next resync.
OptionsQuietly(e, on) ==
    /\ Requested
    /\ ent' = [ent EXCEPT ![e].enabled = on]
    /\ UNCHANGED <<reload, todo, stray>>

\* entity/options and entity/remove ("enabled" only).
Options(e, on) ==
    /\ Requested
    /\ ent' = [ent EXCEPT ![e].enabled = on]
    /\ reload' = TRUE
    /\ UNCHANGED <<todo, stray>>

\* discovery/republish, and Home Assistant's birth after its delay: everything
\* the model has at this moment.
Republish(w) ==
    /\ Idle(w)
    /\ Live(model) # {}
    /\ Requested
    /\ todo' = [todo EXCEPT ![w] = Publishing("publish", model)]
    /\ stray' = stray \cup (Live(model) \cap UNION {Leaving(v) : v \in Tasks})
    /\ UNCHANGED <<reload, ent>>

\* A value changes, and the publisher of the first model publishes it.
LivePublish(e) ==
    /\ phase = "running"
    /\ fresh
    /\ Has(model, e)
    /\ TopicOf(model, e) \notin states
    /\ \A i \in 1..Len(wire) : wire[i].kind # "state"
    /\ Written("main", TopicOf(model, e), "state", None)
    /\ UNCHANGED <<phase, sysap, memory, files, plans, world, bounds, history>>

----------------------------------------------------------------------------
(* The steps of a task.                                                    *)

Alias(w) ==
    /\ Head1(w, "alias")
    /\ LET o == Head(todo[w]) IN ent' = [ent EXCEPT ![o.entity].alias = o.name]
    /\ Proceed(w, <<>>)
    /\ UNCHANGED <<phase, sysap, model, dirty, fresh, reload, store, files, unsaved, wire,
                   world, bounds, history>>

\* _resync from the fetch to its flush: the new model replaces the old one, an
\* entity that is new is dirty, one that is gone is retracted.
Resync(w) ==
    /\ Head1(w, "resync")
    /\ model' = Compile
    /\ dirty' = {e \in Entities : Has(Compile, e) /\ ~Has(model, e)}
    /\ fresh' = FALSE
    /\ LET removed == {TopicOf(model, e) : e \in {e \in Entities : Has(model, e) /\ ~Has(Compile, e)}}
           renamed == {e \in Entities : Has(model, e) /\ Has(Compile, e)
                                        /\ TopicOf(model, e) # TopicOf(Compile, e)
                                        /\ (w = "main" \/ TopicOf(model, e) # todo[w][2].topic)}
       IN /\ Proceed(w, ForEach([t \in removed |-> Clearing(t)]) \o Publishing("changed", Compile) \o Op("flush"))
          /\ stray' = (stray \ Live(Compile))
                      \cup (UNION {{TopicOf(model, e), TopicOf(Compile, e)} : e \in renamed})
                      \cup (UNION {Ahead(v) : v \in Tasks \ {w}})
          /\ silent' = silent \cup {TopicOf(Compile, e) : e \in renamed \cup Debts(Compile)}
                             \cup (UNION {Ahead(v) : v \in Tasks \ {w}})
    /\ UNCHANGED <<phase, sysap, reload, ent, store, files, unsaved, wire, world, bounds,
                   doubt, overtaken>>

\* Publisher.flush of the dirty entities d.
Flushed(w, d) ==
    /\ wire' = wire \o ForEach([e \in {e \in d : Has(model, e)} |->
                    <<[by |-> w, topic |-> TopicOf(model, e), kind |-> "state", look |-> None]>>])
    /\ dirty' = {}

Flush(w) ==
    /\ Head1(w, "flush")
    /\ Flushed(w, dirty)
    /\ Proceed(w, <<>>)
    /\ UNCHANGED <<phase, sysap, model, fresh, reload, ent, store, files, unsaved, world, bounds,
                   history>>

\* Slip: the renamed entity is not made dirty.
AnnouncedOnly(w, e) == Flushed(w, dirty)

\* The renamed entity is dirty whatever its value.
Announced(w, e) == Flushed(w, dirty \cup {e})

Announce(w) ==
    /\ Head1(w, "announce")
    /\ Announced(w, Head(todo[w]).entity)
    /\ Proceed(w, <<>>)
    /\ UNCHANGED <<phase, sysap, model, fresh, reload, ent, store, files, unsaved, world, bounds,
                   history>>

\* The retained state is cleared: QoS 0, the task goes on.
Clear(w) ==
    /\ Head1(w, "clear")
    /\ Written(w, Head(todo[w]).topic, "clear", None)
    /\ Proceed(w, <<>>)
    /\ UNCHANGED <<phase, sysap, memory, files, unsaved, world, bounds, history>>

Retract(w) ==
    /\ Head1(w, "retract")
    /\ Written(w, Head(todo[w]).topic, "config", None)
    /\ UNCHANGED <<phase, sysap, memory, files, plans, world, bounds, history>>

\* Of publish_all, and of publish_changed if the record has another payload.
Publish(w) ==
    /\ Head1(w, "publish") \/ Head1(w, "changed")
    /\ Written(w, Head(todo[w]).topic, "config", Head(todo[w]).look)
    /\ UNCHANGED <<phase, sysap, memory, files, plans, world, bounds, history>>

\* Slip: a retracted topic stays recorded.
MarkedOnly(m) == IF m.look = None THEN store ELSE [store EXCEPT ![m.topic] = m.look]

\* mark and remove.
Marked(m) == [store EXCEPT ![m.topic] = m.look]

\* The state of a topic is still to be cleared, by a task or behind the oldest
\* message.
Doomed(t) ==
    \/ \E w \in Tasks : \E i \in 1..Len(todo[w]) : todo[w][i].op = "clear" /\ todo[w][i].topic = t
    \/ \E i \in 2..Len(wire) : wire[i].kind = "clear" /\ wire[i].topic = t

\* The broker takes a message; if it is awaited, the task records it.
Deliver ==
    /\ wire # <<>>
    /\ wire' = Tail(wire)
    /\ Arrived(1)
    /\ LET m == Head(wire) IN
       IF m.kind = "config"
       THEN /\ store' = Marked(m)
            /\ doubt' = doubt \ {m.topic}
            /\ unsaved' = [unsaved EXCEPT ![m.by] = TRUE]
            /\ Continue(m.by, Tail(todo[m.by]), Marked(m), TRUE)
            /\ UNCHANGED silent
       ELSE /\ silent' = IF m.kind = "state" /\ ~Doomed(m.topic) THEN silent \ {m.topic} ELSE silent
            /\ UNCHANGED <<store, doubt, plans>>
    /\ UNCHANGED <<phase, sysap, model, dirty, fresh, reload, ent, files, bounds, stray,
                   overtaken>>

\* A save writes a snapshot of the record, in a thread.
BeginSave(w) ==
    /\ Head1(w, "save")
    /\ writes' = [writes EXCEPT ![w] = store]
    /\ unsaved' = [unsaved EXCEPT ![w] = FALSE]
    /\ overtaken' = (\E v \in Tasks : writes[v] # None)
    /\ UNCHANGED <<phase, sysap, memory, todo, entDisk, disk, wire, world, bounds, doubt, stray,
                   silent>>

\* os.replace, and the task goes on.
EndSave(w) ==
    /\ writes[w] # None
    /\ disk' = writes[w]
    /\ writes' = [writes EXCEPT ![w] = None]
    /\ Proceed(w, <<>>)
    /\ UNCHANGED <<phase, sysap, memory, entDisk, unsaved, wire, world, bounds, history>>

----------------------------------------------------------------------------
(* Failures.                                                               *)

\* What becomes of the tasks ws when their publish or save raises: a background
\* task ends; the cold start takes the process with it.
Fail(ws, lost) ==
    /\ todo' = [w \in Tasks |-> IF w \in ws THEN <<>> ELSE todo[w]]
    /\ unsaved' = [w \in Tasks |-> IF w \in ws THEN FALSE ELSE unsaved[w]]
    /\ writes' = [w \in Tasks |-> IF w \in ws THEN None ELSE writes[w]]
    /\ stray' = stray \cup (UNION {Ahead(w) : w \in ws})
    /\ silent' = silent \cup lost \cup (UNION {Ahead(w) \cup Unannounced(w) : w \in ws})
    /\ overtaken' = (overtaken \/ \E w \in ws : unsaved[w] \/ writes[w] # None)

Fatal(ws) == phase = "starting" /\ "main" \in ws

Fault ==
    /\ Event /\ faults < MaxFaults
    /\ faults' = faults + 1
    /\ UNCHANGED <<sysap, entDisk, changes, requests, restarts>>

\* The connection is lost: of the messages the first n were delivered, and every
\* publish that is awaited raises.
Lose ==
    /\ wire # <<>>
    /\ Fault
    /\ LET ws == {wire[i].by : i \in {i \in 1..Len(wire) : wire[i].kind = "config"}} IN
       \E n \in 0..Len(wire) :
          IF Fatal(ws) THEN Dies(n)
          ELSE /\ Fail(ws, {wire[i].topic : i \in {i \in n+1..Len(wire) : wire[i].kind = "state"}})
               /\ wire' = <<>>
               /\ Arrived(n)
               /\ doubt' = doubt \cup {t \in Topics : broker'[t] # broker[t]}
               /\ UNCHANGED <<phase, memory, disk>>

\* A publish finds no connection.
Raise(w) ==
    /\ \E o \in {"clear", "retract", "publish"} : Head1(w, o)
    /\ wire = <<>>
    /\ Fault
    /\ IF Fatal({w}) THEN \E n \in 0..Len(wire) : Dies(n)
       ELSE Fail({w}, {}) /\ UNCHANGED <<phase, memory, disk, wire, world, doubt>>

\* A file cannot be written.
DiskFull(w) ==
    /\ writes[w] # None
    /\ Fault
    /\ IF Fatal({w}) THEN \E n \in 0..Len(wire) : Dies(n)
       ELSE Fail({w}, {}) /\ UNCHANGED <<phase, memory, disk, wire, world, doubt>>

----------------------------------------------------------------------------
Run(w) ==
    \/ Alias(w) \/ Resync(w) \/ Flush(w) \/ Announce(w)
    \/ Clear(w) \/ Retract(w) \/ Publish(w)
    \/ BeginSave(w) \/ EndSave(w)

Next ==
    \/ Start \/ Load \/ Ready \/ Crash \/ Stop
    \/ Reload \/ Deliver \/ Lose
    \/ \E w \in Tasks : Run(w) \/ Raise(w) \/ DiskFull(w)
    \/ \E e \in Entities :
          \/ Change(e) \/ LivePublish(e)
          \/ \E n \in Names : Rename(e, n)
          \/ \E on \in BOOLEAN : Options(e, on)
    \/ \E w \in {"api", "birth"} : Republish(w)

Spec == Init /\ [][Next]_vars

----------------------------------------------------------------------------
(* Properties.                                                             *)

Quiet ==
    /\ phase = "running" /\ ~reload /\ wire = <<>>
    /\ \A w \in Tasks : Idle(w)

\* What DiscoveryStore remembers is what the broker has, at every step of every
\* task: a payload is skipped only if the broker has it, and no topic the bridge
\* published is forgotten.  Only a restart, or a publish that raised although it
\* arrived, puts a topic in doubt.
RecordIsTrue == phase # "down" => \A t \in Topics \ doubt : store[t] = broker[t]

\* discovery.json has all of it once the tasks are through, unless two of them
\* wrote it at once or one failed before its save.
RecordIsSaved == Quiet /\ ~overtaken => disk = store

\* Home Assistant is told of exactly the entities there are, over resyncs,
\* renames, removals, republishes, crashes and failures: outside the topics in
\* doubt, and those a failed or overtaken task was to treat.
DiscoveryIsCurrent ==
    Quiet => \A t \in Topics \ (doubt \cup stray) : broker[t] = Wanted(model)[t]

\* A rename moves the retained state, and an entity that comes has one
\* (P-33): no entity is without its state.
StatesAreThere ==
    Quiet => \A e \in Entities \ dirty :
        Has(model, e) => TopicOf(model, e) \in states \cup silent

\* A request that was obeyed stays obeyed: names and exclusions of the model are
\* those asked for, whichever resync compiled it last.
RequestsAreObeyed ==
    Quiet => \A e \in Entities :
        /\ ~ent[e].enabled => ~Has(model, e)
        /\ Has(model, e) /\ ent[e].alias # None => model[e].name = ent[e].alias
====
