---- MODULE Installation ----
(***************************************************************************)
(* An installation that is altered while the bridge runs: channels come,   *)
(* go and change, entities are renamed and excluded, and each time the     *)
(* bridge compiles its tables again (supervisor.py _resync).  Readings     *)
(* arrive through the ingress table, commands leave through the egress     *)
(* table (bus/ingress.py, bus/commands.py), as the clients of the topics   *)
(* see them.  A recompilation is one step here, and every write succeeds:  *)
(* Resync and CommandPath are about the rest.                              *)
(***************************************************************************)
EXTENDS HomeAssistant

CONSTANTS
    Shapes,       \* per channel the shapes it may take
    Start,        \* the configuration at startup
    Names,        \* what an entity may be renamed to
    Payloads,     \* commands: <<name, value>>
    Stray,        \* what an output may report of its own accord: <<pairing, raw>>
    Response,     \* external: per input pairing the output it moves, and to what
    FirstReading, \* per output pairing what a new channel reports
    MaxChanges, MaxReports, MaxCommands    \* bounds

ASSUME StartAssumption ==
    /\ DOMAIN Start \subseteq Channels
    /\ \A channel \in DOMAIN Start : Start[channel] \in Shapes[channel]
    /\ compile_and_build_discovery(Start, <<>>, {}).ok
\* The warmest colour temperature is the lowest, in whole Kelvin.
ASSUME ShapesAssumption ==
    \A channel \in Channels : \A shape \in Shapes[channel] :
        /\ shape.outputs \in Seq(DOMAIN FirstReading) /\ shape.inputs \in Seq(Range(shape.inputs))
        /\ shape.bounds # <<>> => shape.bounds \in Int \X Int /\ shape.bounds[1] <= shape.bounds[2]
ASSUME ValuesAssumption ==
    /\ \A pairing \in DOMAIN FirstReading : FirstReading[pairing] \in RawValues
    /\ \A report \in Stray : report[2] \in RawValues
    /\ \A pairing \in DOMAIN Response :
        \A raw \in DOMAIN Response[pairing].to : Response[pairing].to[raw] \in RawValues
    /\ \A payload \in Payloads : payload[2] \in Values
ASSUME BoundsAssumption == {MaxChanges, MaxReports, MaxCommands} \subseteq Nat

VARIABLES
    config,     \* the configuration
    readings,   \* per channel the raw value of each output
    aliases,    \* entities.json: names given by entity/rename
    excluded,   \* entities.json: entities with enabled false
    model,      \* the compiled tables
    store,      \* StateStore.values
    deaf,       \* a failed compilation left the frames buffered
    wire,       \* writes under way: <<path, raw>>
    inventory,  \* the retained bridge/devices topics
    asked,      \* history: the last command that a client of a channel was not refused,
                \* unless the bridge was deaf: it still writes to what the channel was
    spent       \* changes, reports and commands so far

vars == <<config, readings, aliases, excluded, model, store, deaf, wire, inventory, asked, spent>>

TopicOf(channel) == model.entities[CHOOSE i \in ById(model, channel) : TRUE].topic

Seed(tables, raws) ==
    [i \in DOMAIN tables.entities |->
        LET entity == tables.entities[i]
        IN  [a \in DOMAIN entity.names |->
                LET key == CHOOSE key \in DOMAIN tables.ingress : tables.ingress[key] = [entity |-> i, attr |-> a]
                IN  decode(entity.codecs[a], raws[key[1]][key[2]])]]

\* Parts first, the index that names them last; parts of an earlier inventory stay.
publish_bridge_devices(retained, devices) ==
    LET parts == split_devices_payload(devices)
    IN  IF Len(parts) = 1 THEN [index |-> [parts |-> 0, devices |-> parts[1]], parts |-> retained.parts]
        ELSE [index |-> [parts |-> Len(parts), devices |-> <<>>], parts |-> parts \o
                SubSeq(retained.parts, Len(parts) + 1, Len(retained.parts))]

Fresh(shape) == [key \in DOMAIN shape.outputs |-> FirstReading[shape.outputs[key]]]

Init ==
    /\ config = Start
    /\ aliases = <<>>
    /\ excluded = {}
    /\ readings = [channel \in DOMAIN Start |-> Fresh(Start[channel])]
    /\ model = compile_and_build_discovery(Start, <<>>, {})
    /\ store = Seed(model, readings)
    /\ inventory = publish_bridge_devices([index |-> <<>>, parts |-> <<>>],
                                          build_bridge_devices(Start, model))
    /\ deaf = FALSE
    /\ wire = <<>>
    /\ asked = <<>>
    /\ spent = [changes |-> 0, reports |-> 0, commands |-> 0]

\* A resync.  When the compilation fails, drain_buffer is never reached: the frames
\* that arrive from now on stay in the buffer.
Resync ==
    \E new \in {compile_and_build_discovery(config', aliases', excluded')} :
        IF new.ok
        THEN /\ model' = new
             /\ store' = Seed(new, readings')
             /\ inventory' = publish_bridge_devices(inventory, build_bridge_devices(config', new))
             /\ deaf' = FALSE
        ELSE deaf' = TRUE /\ UNCHANGED <<model, store, inventory>>

Altered == spent.changes < MaxChanges /\ spent' = [spent EXCEPT !.changes = @ + 1]

\* A channel comes, or is wired, named or placed anew.
Install(channel, shape) ==
    /\ Altered
    /\ shape \notin {config[c] : c \in DOMAIN config \cap {channel}}
    /\ config' = Put(config, channel, shape)
    /\ readings' = Put(readings, channel, Fresh(shape))
    /\ asked' = Restrict(asked, DOMAIN asked \ {channel})
    /\ UNCHANGED <<aliases, excluded, wire>>
    /\ Resync

Uninstall(channel) ==
    /\ Altered
    /\ config' = Restrict(config, DOMAIN config \ {channel})
    /\ readings' = Restrict(readings, DOMAIN config')
    /\ asked' = Restrict(asked, DOMAIN asked \ {channel})
    /\ UNCHANGED <<aliases, excluded, wire>>
    /\ Resync

\* entity/rename.
Rename(channel, name) ==
    /\ Altered
    /\ ById(model, channel) # {}
    /\ aliases' = Put(aliases, channel, name)
    /\ UNCHANGED <<config, readings, excluded, wire, asked>>
    /\ Resync

\* entity/remove, and entity/options with enabled true.
Exclude(channel) ==
    /\ Altered
    /\ excluded' = IF channel \in excluded THEN excluded \ {channel} ELSE excluded \cup {channel}
    /\ asked' = Restrict(asked, DOMAIN asked \ {channel})
    /\ UNCHANGED <<config, readings, aliases, wire>>
    /\ Resync

\* Ingress.process_frame.  An event is passed on and leaves no state.
Process(channel, key, raw) ==
    IF deaf \/ <<channel, key>> \notin DOMAIN model.ingress THEN store
    ELSE LET binding == model.ingress[<<channel, key>>]
         IN  IF model.entities[binding.entity].kinds[binding.attr] = "event" THEN store
             ELSE [store EXCEPT ![binding.entity][binding.attr] =
                    decode(model.entities[binding.entity].codecs[binding.attr], raw)]

\* An output changes at the device.
Report(channel, pairing, raw) ==
    LET key == find_datapoint(config[channel].outputs, pairing)
    IN  /\ spent.reports < MaxReports
        /\ key # 0 /\ readings[channel][key] # raw
        /\ readings' = [readings EXCEPT ![channel][key] = raw]
        /\ store' = Process(channel, key, raw)
        /\ asked' = Restrict(asked, DOMAIN asked \ {channel})
        /\ spent' = [spent EXCEPT !.reports = @ + 1]
        /\ UNCHANGED <<config, aliases, excluded, model, deaf, wire, inventory>>

\* CommandDispatcher._parse_topic.
parse_topic(topic) == IF topic \in DOMAIN model.by_topic THEN {model.by_topic[topic]} ELSE {}

\* A transform is offered the command first; what it does not claim is the profile's.
resolve_writes(i, name, value) ==
    LET writes == subWrites(Profiles[model.entities[i].profile].transform, name, value)
    IN  IF writes = Unclaimed THEN <<<<name, value>>>> ELSE writes

\* One write after another, until one is refused.
Apply(so, i, write) ==
    LET binding == model.egress[<<i, write[1]>>]
        valid   == validate(binding.range, write[2])
        raw     == IF valid = Rejected THEN Rejected ELSE encode(binding.codec, valid)
    IN  IF so.ok /\ <<i, write[1]>> \in DOMAIN model.egress /\ raw # Rejected
        THEN [ok    |-> TRUE,
              wire  |-> Append(so.wire, <<binding.path, raw>>),
              store |-> IF binding.optimistic = 0 THEN so.store
                        ELSE [so.store EXCEPT ![i][binding.optimistic] = valid]]
        ELSE [ok |-> FALSE, wire |-> so.wire, store |-> so.store]
apply_command(i, name, value) ==
    LET writes == resolve_writes(i, name, value)
        so[n \in 0..Len(writes)] ==
            IF n = 0 THEN [ok |-> TRUE, wire |-> wire, store |-> store]
            ELSE Apply(so[n - 1], i, writes[n])
    IN  so[Len(writes)]

\* A client publishes to the set topic of an entity.
Command(channel, name, value) ==
    /\ spent.commands < MaxCommands
    /\ ById(model, channel) # {}
    /\ \E done \in IF parse_topic(TopicOf(channel)) = {} THEN {[ok |-> TRUE, wire |-> wire, store |-> store]}
                   ELSE {apply_command(i, name, value) : i \in parse_topic(TopicOf(channel))} :
        /\ wire' = done.wire
        /\ store' = done.store
        /\ asked' = IF done.ok /\ ~deaf THEN Put(asked, channel, <<name, value>>)
                    ELSE Restrict(asked, DOMAIN asked \ {channel})
    /\ spent' = [spent EXCEPT !.commands = @ + 1]
    /\ UNCHANGED <<config, readings, aliases, excluded, model, deaf, inventory>>

\* The input that a path leads to, and the output that follows it at the device.
Input(path) == config[path[1]].inputs[path[2]]
OutputOf(path) ==
    IF path[1] \in DOMAIN config /\ path[2] \in DOMAIN config[path[1]].inputs
       /\ Input(path) \in DOMAIN Response
    THEN find_datapoint(config[path[1]].outputs, Response[Input(path)].output) ELSE 0
Shown(path, raw) ==
    LET to == Response[Input(path)].to IN IF raw \in DOMAIN to THEN to[raw] ELSE raw

\* A write reaches its input; those to one datapoint keep their order.
Deliver(n) ==
    LET path == wire[n][1]
        key  == OutputOf(path)
    IN  /\ \A m \in 1..(n - 1) : wire[m][1] # path
        /\ wire' = RemoveAt(wire, n)
        /\ IF key = 0 THEN UNCHANGED <<readings, store>>
           ELSE /\ readings' = [readings EXCEPT ![path[1]][key] = Shown(path, wire[n][2])]
                /\ store' = Process(path[1], key, Shown(path, wire[n][2]))
        /\ UNCHANGED <<config, aliases, excluded, model, deaf, inventory, asked, spent>>

Next ==
    \/ \E channel \in Channels : \E shape \in Shapes[channel] : Install(channel, shape)
    \/ \E channel \in DOMAIN config :
        \/ Uninstall(channel)
        \/ Exclude(channel)
        \/ \E name \in Names : Rename(channel, name)
        \/ \E report \in Stray : Report(channel, report[1], report[2])
        \/ \E payload \in Payloads : Command(channel, payload[1], payload[2])
    \/ \E n \in DOMAIN wire : Deliver(n)

Spec == Init /\ [][Next]_vars

(***************************************************************************)
(* Properties                                                              *)
(***************************************************************************)

\* The flat tables agree with what they were compiled from: topics and entities are
\* one to one, every key of the ingress table is an output of its entity's channel and
\* every command goes to an input of its own.
TypeOK ==
    /\ Cardinality(DOMAIN model.by_topic) = Len(model.entities)
    /\ \A key \in DOMAIN model.ingress :
        model.entities[model.ingress[key].entity].id = key[1]
    /\ \A key \in DOMAIN model.egress :
        model.entities[key[1]].id = model.egress[key].path[1]
    /\ DOMAIN store = DOMAIN model.entities
    /\ \A i \in DOMAIN store : DOMAIN store[i] = DOMAIN model.entities[i].names
    /\ DOMAIN readings = DOMAIN config
    /\ DOMAIN asked \subseteq DOMAIN config

PositionIn(name, names) == CHOOSE a \in DOMAIN names : names[a] = name

\* Two entities one of whose longer names is a name of the other: "kitchen_lamp" is the
\* lamp in the kitchen, and the kitchen lamp of any room.
Lookalike(one, other) ==
    \E i \in DOMAIN slug_options(one), j \in DOMAIN slug_options(other) :
        i + j > 2 /\ slug_options(one)[i] = slug_options(other)[j]

\* Action property: while a channel stays and keeps its name and area, no other channel
\* takes over its topic, whoever comes, goes or is renamed: retained states and the
\* commands sent to them never change hands (naming.py resolve_slugs, P-39).  Except
\* between lookalikes: a newcomer that has to use its longer name takes it from one that
\* goes by it, if its id comes first.
TopicsNeverChangeHands ==
    [][\A i \in DOMAIN model.entities, j \in DOMAIN model'.entities :
        LET one   == model.entities[i].naming
            other == model'.entities[j].naming
        IN  one.id # other.id /\ model.entities[i].topic = model'.entities[j].topic =>
                \/ \A k \in DOMAIN model'.entities : model'.entities[k].naming # one
                \/ Lookalike(one, other)]_vars

\* Publisher.build_payload: the states, and what the transform makes of them.
payload(i) ==
    LET entity == model.entities[i]
        states == {a \in DOMAIN entity.names : entity.kinds[a] = "state"}
    IN  derive(Profiles[entity.profile].transform, store[i]) @@
            [name \in {entity.names[a] : a \in states} |-> store[i][PositionIn(name, entity.names)]]

\* A slat angle is unknown while the cover is fully open.
Unknown(i, name) ==
    /\ Profiles[model.entities[i].profile].transform = "cover_with_slats"
    /\ name = "slat_position" /\ store[i][1] = FullyOpen

Distance(a, b) == IF a > b THEN a - b ELSE b - a

\* No state that the attribute of a command can show within its range is nearer to the
\* value than the one it does show; a colour temperature in whole Kelvin, for a fraction
\* of one may be rounded away from it twice.
Nearest(i, name, shown, value) ==
    LET codec == model.entities[i].codecs[PositionIn(name, model.entities[i].names)]
        range == model.egress[<<i, name>>].range
    IN  (codec.kind = "color_temp_pct" => Tenths(value) % 10 = 0) =>
        \A percent \in 0..100 :
            LET other == decode(codec, Whole(percent))
            IN  validate(range, other) = other =>
                    Distance(shown[2], Tenths(value)) <= Distance(other[2], Tenths(value))

\* Once its writes are through, an accepted command is what the state of the entity
\* says: the same word, as true as the value, or as near to it as can be.  The way goes
\* through topic lookup, transform, range, codec, input datapoint, device, output
\* datapoint, codec and transform (compiler.py, codecs.py, transforms.py, commands.py).
\* Not while the bridge is deaf after a failed compilation; a command without an
\* attribute of its name, or for the slats of an open cover, shows nothing.
CommandsLand ==
    wire = <<>> /\ ~deaf =>
        \A channel \in DOMAIN asked : \A i \in ById(model, channel) :
            LET name  == asked[channel][1]
                value == asked[channel][2]
                shown == payload(i)[name]
            IN  name \in DOMAIN payload(i) /\ ~Unknown(i, name) =>
                    CASE shown[1] = "bool" -> shown[2] = (value \in {Bool(TRUE), Str("ON"), Whole(1)})
                      [] shown[1] = "num" -> Nearest(i, name, shown, value)
                      [] OTHER -> shown = value

\* What an attribute would show if a command sent it this value: nothing if refused.
Resent(binding, codec, value) ==
    LET valid == validate(binding.range, value)
        raw   == IF valid = Rejected THEN Rejected ELSE encode(binding.codec, valid)
    IN  {decode(codec, Shown(binding.path, raw)) : x \in {raw} \ {Rejected}}

\* A colour temperature has the Kelvin of a whole percentage.
OnScale(codec, value) ==
    codec.kind = "color_temp_pct" => \E percent \in 0..100 : value = decode(codec, Whole(percent))

\* A client may send back a state it has read, as scenes and restarts of home automation
\* do: at rest this changes nothing, whatever the device reports, for every command with
\* an attribute.  Except a reading outside the range of the command (a lamp that is off
\* has the brightness 0, sent back it is raised to 1), an unknown one (null switches off),
\* and a colour temperature reported as a fraction of a percent, which goes to a whole one.
RestoreIsHarmless ==
    wire = <<>> /\ ~deaf =>
        \A key \in DOMAIN model.egress :
            LET binding == model.egress[key]
                value   == store[key[1]][binding.optimistic]
                codec   == model.entities[key[1]].codecs[binding.optimistic]
            IN  binding.optimistic # 0 /\ OutputOf(binding.path) # 0
                /\ value # None /\ validate(binding.range, value) = value /\ OnScale(codec, value) =>
                    Resent(binding, codec, value) \subseteq {value}

\* The device shows what it is told, in the attribute that the command marks at once:
\* on the scale of the command, or in words that come back.
Answers(spec, attribute) ==
    LET told(raw) == IF raw \in DOMAIN Response[spec.pairing].to THEN Response[spec.pairing].to[raw] ELSE raw
    IN  /\ Response[spec.pairing].output = attribute.pairing /\ attribute.kind = "state"
        /\ \/ /\ spec.codec.kind = attribute.codec.kind /\ spec.codec.kind \in NumberKinds
              /\ \A raw \in DOMAIN Response[spec.pairing].to : told(raw) = raw
           \/ /\ spec.codec.kind = "enum" /\ attribute.codec.kind = "enum"
              /\ attribute.codec.default \in Values
              /\ \A word \in DOMAIN spec.codec.values :
                    decode(attribute.codec, told(spec.codec.values[word])) = Str(word)

Encodes(spec) ==
    /\ spec.codec.kind \in NumberKinds \cup {"enum", "trigger"}
    /\ spec.codec.kind = "enum" => Range(spec.codec.values) \subseteq RawValues
    /\ spec.range # <<>> => spec.range \in Int \X Int

\* What the profiles and the devices of the bridge keep to, and the loader does not ask for:
\* a command marks an attribute that no other one marks, and the device answers in it.
DevicesAnswer ==
    \A profile \in Range(Profiles) : \A spec \in Range(profile.commands) :
        /\ Encodes(spec)
        /\ \A attribute \in Range(profile.attributes) : attribute.name = spec.optimistic =>
            /\ spec.pairing \in DOMAIN Response => Answers(spec, attribute)
            /\ \A other \in Range(profile.commands) :
                other.optimistic = spec.optimistic => other.name = spec.name

\* The parts that the retained index leads to.
Inventory ==
    IF inventory.index.parts = 0 THEN <<inventory.index.devices>>
    ELSE SubSeq(inventory.parts, 1, inventory.index.parts)

\* A reader of the retained inventory finds every channel once, with the topic of its
\* entity or the reason it has none, in messages the broker takes unless one device
\* alone is too much (supervisor.py _split_devices_payload, _bd_unsupported_reason).
\* A channel of no room has no other reason than that, even where such channels are
\* included; that of a channel left out by its interface or by request is any.
InventoryIsTrue ==
    /\ \A n \in DOMAIN Inventory : PayloadSize(Inventory[n]) <= MaxPacketSize \/ Len(Inventory[n]) = 1
    /\ ~deaf => LET entries == FlattenSeq(FlattenSeq(Inventory)) IN
        /\ Len(entries) = Cardinality(DOMAIN config)
        /\ \A channel \in DOMAIN config : \E n \in DOMAIN entries :
            /\ entries[n].id = channel
            /\ LET outcome == collect_one_channel(channel, config[channel], excluded)
               IN  outcome \notin {"hidden", "excluded"} =>
                    entries[n].reason = IF outcome # "kept" /\ ~config[channel].placed THEN "orphaned"
                                        ELSE outcome
            /\ \A i \in ById(model, channel) : entries[n].topic = model.entities[i].topic

\* What Home Assistant may send by way of the controls it is told of, the bridge takes:
\* set topics, commands, their values and ranges agree on both sides (components.py,
\* compiler.py, transforms.py, codecs.py), whatever the channel is wired with.  Except
\* where a write needs an input that the channel lacks: switches, lights and modes are
\* announced by what the entity shows.
ControlsAreHeard ==
    \A i \in DOMAIN model.entities :
        LET entity == model.entities[i]
            commands == Profiles[entity.profile].commands
            Wireless(write) == PositionOf(write[1], commands) # 0 /\ ~Takes(entity, write[1])
        IN  \A control \in Controls(entity) : \A value \in control.values :
                \/ parse_topic(entity.topic) = {i} /\ apply_command(i, control.name, value).ok
                \/ \E write \in Range(resolve_writes(i, control.name, value)) : Wireless(write)
====
