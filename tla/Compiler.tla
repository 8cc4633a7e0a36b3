---- MODULE Compiler ----
(***************************************************************************)
(* From the SysAP's configuration and the profiles to the flat tables the  *)
(* bridge runs on (model/compiler.py, model/profiles.py), and the          *)
(* inventory published from both (supervisor.py, bridge/devices).  A       *)
(* configuration is a function from its channels to their shape: name,     *)
(* area, placed (floor and room are known), function, the pairings of its  *)
(* outputs and inputs in the order of their keys, and the physical bounds  *)
(* of its colour temperature, if it states them.                           *)
(***************************************************************************)
EXTENDS Naming, Codecs

CONSTANTS
    Profiles,         \* the registry: a sequence of profiles, in the order of their ids
    KnownFunctions,   \* the function IDs of sysap/codes
    ChannelOrder,     \* every channel <<serial, id>> there may be, in the order of their ids
    DeviceName,       \* per serial the device's displayName, or <<>>
    HiddenDevices,    \* serials excluded by interface or as virtual devices
    IncludeOrphans,   \* include_orphan_channels
    TopicStyle,       \* "slug" or "id"
    MaxPacketSize     \* mqtt.maximum_packet_size, in entries

\* parse_profile and build_registry let nothing else through, but for the pairings:
\* no built-in profile reads one of them twice.
ASSUME ProfilesAssumption ==
    /\ Profiles \in Seq(Range(Profiles))
    /\ \A i \in DOMAIN Profiles :
        /\ Profiles[i].functions \subseteq KnownFunctions
        /\ IsFiniteSet(Profiles[i].requires_outputs) /\ IsFiniteSet(Profiles[i].requires_inputs)
        /\ Profiles[i].attributes \in Seq(Range(Profiles[i].attributes))
        /\ Profiles[i].commands \in Seq(Range(Profiles[i].commands))
        /\ \A a, b \in DOMAIN Profiles[i].attributes :
            Profiles[i].attributes[a].pairing = Profiles[i].attributes[b].pairing => a = b
        /\ \A a \in DOMAIN Profiles[i].attributes : Profiles[i].attributes[a].kind \in {"state", "event"}
ASSUME OptionsAssumption ==
    /\ TopicStyle \in {"slug", "id"}
    /\ IncludeOrphans \in BOOLEAN
    /\ HiddenDevices \subseteq DOMAIN DeviceName
    /\ MaxPacketSize \in Nat

Channels == Range(ChannelOrder)
ASSUME OrderAssumption == ChannelOrder \in Seq(Channels) /\ IsInjective(ChannelOrder)

device_included(serial) == serial \notin HiddenDevices

orphaned(shape) == ~shape.placed /\ ~IncludeOrphans
area(shape) == IF shape.placed THEN shape.area ELSE <<>>

\* A placeholder name gives way to the device's.
channel_name(channel, shape) ==
    IF shape.name # <<>> THEN shape.name
    ELSE IF DeviceName[channel[1]] # <<>> THEN DeviceName[channel[1]]
    ELSE <<"Channel", channel[2]>>

\* The key of the first datapoint with a pairing, 0 if there is none.
find_datapoint(datapoints, pairing) ==
    LET keys == {key \in DOMAIN datapoints : datapoints[key] = pairing}
    IN  IF keys = {} THEN 0 ELSE Min(keys)

Claims(profile, shape) ==
    /\ shape.function \in profile.functions
    /\ profile.requires_outputs \subseteq Range(shape.outputs)
    /\ profile.requires_inputs \subseteq Range(shape.inputs)

specificity(profile) == Cardinality(profile.requires_outputs) + Cardinality(profile.requires_inputs)

\* The indices of the profiles that claim a channel, and the one it is given.
Candidates(shape) == {i \in DOMAIN Profiles : Claims(Profiles[i], shape)}
match_profile(shape) ==
    CHOOSE i \in Candidates(shape) : \A j \in Candidates(shape) \ {i} :
        \/ specificity(Profiles[j]) < specificity(Profiles[i])
        \/ specificity(Profiles[j]) = specificity(Profiles[i]) /\ i < j

\* What becomes of a channel: the reason it is left out, in the order of the checks.
collect_one_channel(channel, shape, excluded) ==
    IF ~device_included(channel[1]) THEN "hidden"
    ELSE IF channel \in excluded THEN "excluded"
    ELSE IF orphaned(shape) THEN "orphaned"
    ELSE IF shape.function \notin KnownFunctions THEN "unknown function"
    ELSE IF Candidates(shape) = {} THEN "unclaimed"
    ELSE "kept"

\* Some of a sequence, in its order.
Picked(s, some) ==
    LET at == {n \in DOMAIN s : s[n] \in some}
    IN  [k \in 1..Cardinality(at) |-> s[CHOOSE n \in at : Cardinality({m \in at : m < n}) = k - 1]]

\* Some of the channels, in the order of their ids.
InOrder(channels) == Picked(ChannelOrder, channels)

collect_channels(config, excluded) ==
    InOrder({channel \in DOMAIN config :
                collect_one_channel(channel, config[channel], excluded) = "kept"})

\* A colour temperature is bound to the channel's own bounds, and dropped without them.
available(codec, shape) == codec.kind # "color_temp_pct" \/ shape.bounds # <<>>
bound(codec, shape) ==
    IF codec.kind = "color_temp_pct"
    THEN [kind |-> codec.kind, warmest |-> shape.bounds[1], coolest |-> shape.bounds[2]]
    ELSE codec

\* CompileError: a command without its input reads an output of that pairing (P-02), or
\* an attribute without its output an input (P-01).
miswired(profile, shape) ==
    \/ \E a \in Range(profile.attributes) :
        a.pairing \in Range(shape.inputs) \ Range(shape.outputs)
    \/ \E c \in Range(profile.commands) :
        c.pairing \in Range(shape.outputs) \ Range(shape.inputs)

build_attributes(profile, shape) ==
    Picked(profile.attributes, {spec \in Range(profile.attributes) :
        spec.pairing \in Range(shape.outputs) /\ available(spec.codec, shape)})

build_commands(profile, shape) ==
    Picked(profile.commands, {spec \in Range(profile.commands) :
        spec.pairing \in Range(shape.inputs) /\ available(spec.codec, shape)})

\* What an entity is named by: an alias stands for the channel's name.
SlugCandidate(channel, config, aliases) ==
    [id   |-> channel,
     name |-> IF channel \in DOMAIN aliases THEN aliases[channel]
              ELSE channel_name(channel, config[channel]),
     area |-> area(config[channel])]

resolve_names_and_slugs(config, kept, aliases) ==
    resolve_slugs([i \in DOMAIN kept |-> SlugCandidate(kept[i], config, aliases)])

PositionOf(name, specs) ==
    LET at == {i \in DOMAIN specs : specs[i].name = name}
    IN  IF at = {} THEN 0 ELSE Min(at)

Entity(candidate, profile, shape, attrs, commands, slug) ==
    [id       |-> candidate.id,
     naming   |-> candidate,
     topic    |-> IF TopicStyle = "id" THEN candidate.id ELSE slug,
     names    |-> [a \in DOMAIN attrs |-> attrs[a].name],
     kinds    |-> [a \in DOMAIN attrs |-> attrs[a].kind],
     codecs   |-> [a \in DOMAIN attrs |-> bound(attrs[a].codec, shape)],
     commands |-> [c \in DOMAIN commands |-> commands[c].name],
     profile  |-> profile]

\* Ingress: which attribute an output datapoint is, by its key; egress: the input
\* datapoint, codec, range and optimistic attribute of a command, by its name.
build_ingress(i, channel, shape, attrs) ==
    LET Key(a) == <<channel, find_datapoint(shape.outputs, attrs[a].pairing)>>
    IN  [key \in {Key(a) : a \in DOMAIN attrs} |->
            [entity |-> i, attr |-> CHOOSE a \in DOMAIN attrs : Key(a) = key]]
build_egress(i, channel, shape, attrs, commands) ==
    [key \in {<<i, spec.name>> : spec \in Range(commands)} |->
        LET spec == commands[PositionOf(key[2], commands)]
        IN  [path       |-> <<channel, find_datapoint(shape.inputs, spec.pairing)>>,
             codec      |-> bound(spec.codec, shape),
             range      |-> spec.range,
             optimistic |-> PositionOf(spec.optimistic, attrs)]]

\* dict.update, one after another: the last one that has a key decides.
Merged(functions) ==
    [key \in UNION {DOMAIN functions[i] : i \in DOMAIN functions} |->
        functions[Max({i \in DOMAIN functions : key \in DOMAIN functions[i]})][key]]

\* One channel of the model.
Built(i, candidate, profile, shape, attrs, commands, slug) ==
    [ok      |-> ~miswired(Profiles[profile], shape),
     entity  |-> Entity(candidate, profile, shape, attrs, commands, slug),
     ingress |-> build_ingress(i, candidate.id, shape, attrs),
     egress  |-> build_egress(i, candidate.id, shape, attrs, commands)]
build_entity(i, candidate, profile, shape, slug) ==
    Built(i, candidate, profile, shape, build_attributes(Profiles[profile], shape),
         build_commands(Profiles[profile], shape), slug)

Joined(parts, slugs) ==
    [ok       |-> Len(parts) = Cardinality(DOMAIN slugs) /\ \A i \in DOMAIN parts : parts[i].ok,
     entities |-> [i \in DOMAIN parts |-> parts[i].entity],
     ingress  |-> Merged([i \in DOMAIN parts |-> parts[i].ingress]),
     egress   |-> Merged([i \in DOMAIN parts |-> parts[i].egress]),
     by_topic |-> [slug \in Range(slugs) |->
                    CHOOSE i \in DOMAIN parts : slugs[parts[i].entity.id] = slug]]

\* The compiled model, or the failure to compile it.
build_model(config, aliases, kept, slugs) ==
    Joined([i \in DOMAIN kept |->
                build_entity(i, SlugCandidate(kept[i], config, aliases), match_profile(config[kept[i]]),
                        config[kept[i]], slugs[kept[i]])], slugs)
Named(config, aliases, kept) ==
    build_model(config, aliases, kept, resolve_names_and_slugs(config, kept, aliases))
compile(config, aliases, excluded) == Named(config, aliases, collect_channels(config, excluded))

ById(model, channel) == {i \in DOMAIN model.entities : model.entities[i].id = channel}

\* What the inventory says of a channel without an entity.
unsupported_reason(shape) ==
    IF ~shape.placed THEN "orphaned"
    ELSE IF shape.function \notin KnownFunctions THEN "unknown function"
    ELSE "unclaimed"

channel_entry(channel, shape, model) ==
    IF ById(model, channel) = {} THEN [id |-> channel, reason |-> unsupported_reason(shape), topic |-> <<>>]
    ELSE [id |-> channel, reason |-> "kept",
          topic |-> model.entities[CHOOSE i \in ById(model, channel) : TRUE].topic]

\* Every device with its channels, in the order of the serials.
AddEntry(devices, entry) ==
    IF devices # <<>> /\ Last(devices)[1].id[1] = entry.id[1]
    THEN Append(Front(devices), Append(Last(devices), entry))
    ELSE Append(devices, <<entry>>)
build_bridge_devices(config, model) ==
    LET channels == InOrder(DOMAIN config)
        devices[n \in 0..Len(channels)] ==
            IF n = 0 THEN <<>>
            ELSE AddEntry(devices[n - 1], channel_entry(channels[n], config[channels[n]], model))
    IN  devices[Len(channels)]

PayloadSize(devices) == Len(FlattenSeq(devices))

\* Slip: the device that does not fit is left out.
PlaceShort(parts, device) ==
    LET candidate == Append(Last(parts), device)
    IN  IF PayloadSize(candidate) > MaxPacketSize /\ Last(parts) # <<>> THEN Append(parts, <<>>)
        ELSE Append(Front(parts), candidate)

\* Greedy: a device starts a part when the one before it is full.
Place(parts, device) ==
    LET candidate == Append(Last(parts), device)
    IN  IF PayloadSize(candidate) > MaxPacketSize /\ Last(parts) # <<>> THEN Append(parts, <<device>>)
        ELSE Append(Front(parts), candidate)
split_devices_payload(devices) ==
    LET parts[n \in 0..Len(devices)] ==
            IF n = 0 THEN <<<<>>>> ELSE Place(parts[n - 1], devices[n])
    IN  parts[Len(devices)]
====
