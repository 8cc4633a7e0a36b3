---- MODULE HomeAssistant ----
(***************************************************************************)
(* The controls that Home Assistant is told of (homeassistant/components.py*)
(* and discovery.py): what each component may send to the set topics of an *)
(* entity, as the bridge decodes it.  The two ends of a slider stand for   *)
(* what lies between.  Discovery is enabled, and every profile has a       *)
(* component; names, devices, units and states are left out.               *)
(***************************************************************************)
EXTENDS Compiler

CONSTANT SetpointLimits    \* external: the ends of Home Assistant's thermostat, in tenths

ASSUME ComponentsAssumption ==
    \A i \in DOMAIN Profiles : Profiles[i].component \in
        {"switch", "light", "cover", "binary_sensor", "sensor", "number", "climate", "event"}

When(condition, controls) == IF condition THEN controls ELSE {}
Slider(name, low, high) == [name |-> name, values |-> {Num(low), Num(high)}]
Choice(name, values) == [name |-> name, values |-> values]

Shows(entity, name) == name \in Range(entity.names)
Takes(entity, name) == name \in Range(entity.commands)

\* A bare ON or OFF goes to the primary command, also where there is none.
Primary(entity) == IF entity.commands = <<>> THEN entity.names[1] ELSE Head(entity.commands)
build_switch(entity) == {Choice(Primary(entity), {Str("ON"), Str("OFF")})}

\* By its attributes: whether it takes a command for them is not looked at.
build_light(entity) ==
    LET kelvin == entity.codecs[CHOOSE a \in DOMAIN entity.names : entity.names[a] = "color_temp"]
    IN  {Choice("state", {Str("ON"), Str("OFF")})}
        \cup When(Shows(entity, "brightness"), {Slider("brightness", 10, 1000)})
        \cup When(Shows(entity, "color_temp"), {Slider("color_temp",
                10 * Min({kelvin.warmest, kelvin.coolest}), 10 * Max({kelvin.warmest, kelvin.coolest}))})

build_cover(entity) ==
    When(Takes(entity, "position"), {Slider("position", 0, 1000)})
    \cup When(Takes(entity, "stop"), {Choice("stop", {Bool(TRUE)})})
    \cup When(Takes(entity, "slat_position"), {Slider("slat_position", 0, 1000)})

build_number(entity) ==
    When(Takes(entity, entity.names[1]), {Slider(entity.names[1], 0, 1000)})

HvacModeToHa == [off |-> "off", eco |-> "auto", heating |-> "heat", cooling |-> "cool"]

\* Slip: the mode is sent in Home Assistant's words.
HvacModeVerbatim(mode) == mode

\* mode_command_template.
HvacModeOf(mode) ==
    IF mode \in Range(HvacModeToHa) THEN CHOOSE ours \in DOMAIN HvacModeToHa : HvacModeToHa[ours] = mode
    ELSE "off"

build_climate(entity) ==
    When(Takes(entity, "setpoint_temperature"),
         {Slider("setpoint_temperature", SetpointLimits[1], SetpointLimits[2])})
    \cup When(Shows(entity, "on_off"),
         {Choice("hvac_mode", {Str(HvacModeOf(mode)) : mode \in Range(HvacModeToHa)})})

Component(entity) == Profiles[entity.profile].component

\* The controls of an entity; sensors and events have none.
Controls(entity) ==
    CASE Component(entity) = "switch" -> build_switch(entity)
      [] Component(entity) = "light" -> build_light(entity)
      [] Component(entity) = "cover" -> build_cover(entity)
      [] Component(entity) = "number" -> build_number(entity)
      [] Component(entity) = "climate" -> build_climate(entity)
      [] OTHER -> {}

\* DiscoveryError: these components are about one attribute.
sole_attribute(entity) ==
    Component(entity) \in {"switch", "binary_sensor", "sensor", "number"} => Len(entity.names) = 1

\* The model with its discovery, or the failure of one of them.
Announced(model) == [model EXCEPT !.ok = @ /\ \A i \in DOMAIN model.entities : sole_attribute(model.entities[i])]
compile_and_build_discovery(config, aliases, excluded) == Announced(compile(config, aliases, excluded))

(***************************************************************************)
(* What the profiles of the bridge keep to (profiles/*.yaml), and the      *)
(* loader does not ask for: the codecs of the commands that a control is   *)
(* for, a command for what a switch or a light shows, and the transforms   *)
(* where they belong.                                                      *)
(***************************************************************************)
Offers(profile) == {spec.name : spec \in Range(profile.attributes)}
Accepts(profile) == {spec.name : spec \in Range(profile.commands)}

NumberKinds == {"bool01", "int", "float", "percent_int", "percent_inverted", "color_temp_pct"}
ForNumbers(profile) ==
    IF profile.component = "number" THEN Accepts(profile)
    ELSE {"stop", "on_off", "eco", "brightness", "color_temp", "position", "slat_position",
          "setpoint_temperature"}
ForWords(profile) == IF profile.component = "switch" THEN Accepts(profile) ELSE {"state"}

RegularCommand(profile, spec) ==
    /\ spec.name \in ForWords(profile) => spec.codec.kind = "bool01" /\ spec.range = <<>>
    /\ spec.name \in ForNumbers(profile) => spec.codec.kind \in NumberKinds
    /\ spec.name = "mode" =>
        /\ spec.codec.kind = "enum" /\ spec.range = <<>>
        /\ \A word \in {"heating", "cooling"} :
            word \in DOMAIN spec.codec.values /\ spec.codec.values[word] \in RawValues

RegularProfiles ==
    \A profile \in Range(Profiles) :
        /\ \A spec \in Range(profile.commands) : RegularCommand(profile, spec)
        /\ profile.component = "switch" => Offers(profile) \subseteq Accepts(profile)
        /\ profile.component = "light" =>
            {"state"} \cup (Offers(profile) \cap {"brightness", "color_temp"}) \subseteq Accepts(profile)
        /\ profile.component = "climate" /\ "on_off" \in Offers(profile) =>
            /\ profile.transform = "room_temperature_controller"
            /\ {"on_off", "eco", "mode"} \subseteq Accepts(profile)
        /\ profile.transform = "room_temperature_controller" => profile.component = "climate"
        /\ profile.transform = "cover_with_slats" =>
            profile.component = "cover" /\ "slat_position" \in Accepts(profile)
====
