---- MODULE MCInstallation ----
EXTENDS Installation

b01 == [kind |-> "bool01"]
percent == [kind |-> "percent_int"]
inverted == [kind |-> "percent_inverted"]
Attribute(name, pairing, codec) == [name |-> name, pairing |-> pairing, codec |-> codec, kind |-> "state"]
Order(name, pairing, codec, range, optimistic) ==
    [name |-> name, pairing |-> pairing, codec |-> codec, range |-> range, optimistic |-> optimistic]
Profile(component, functions, outputs, attributes, commands, transform) ==
    [component |-> component, functions |-> functions, requires_outputs |-> outputs,
     requires_inputs |-> {}, attributes |-> attributes, commands |-> commands, transform |-> transform]

\* Profiles of lighting.yaml, climate.yaml, covers.yaml and sensors.yaml.
State == Attribute("state", "INFO_ON_OFF", b01)
Brightness == Attribute("brightness", "INFO_DIMMING", percent)
Temperature == [kind |-> "color_temp_pct"]
Switch == Order("state", "SWITCH_ON_OFF", b01, <<>>, "state")
Dim == Order("brightness", "SET_DIMMING", percent, <<10, 1000>>, "brightness")
Mode == [kind |-> "enum", values |-> (Whole(0) :> "heating") @@ (Whole(1) :> "cooling"),
         default |-> Str("heating")]
Press == [name |-> "press", pairing |-> "PRESSED", codec |-> [kind |-> "trigger"], kind |-> "event"]
Demand == [kind |-> "enum", values |-> [heating |-> Whole(0), cooling |-> Whole(1)]]

MCProfiles == <<
    Profile("light", {"DIMMING"}, {"INFO_ON_OFF", "INFO_DIMMING", "INFO_TEMPERATURE"},
        <<State, Brightness, Attribute("color_temp", "INFO_TEMPERATURE", Temperature)>>,
        <<Switch, Dim, Order("color_temp", "TEMPERATURE", Temperature, <<>>, "color_temp")>>, ""),
    Profile("cover", {"BLIND"}, {"POSITION"}, <<Attribute("position", "POSITION", inverted)>>,
        <<Order("position", "SET_POSITION", inverted, <<>>, "position")>>, ""),
    Profile("cover", {"BLIND"}, {"POSITION", "SLATS"},
        <<Attribute("position", "POSITION", inverted), Attribute("slat_position", "SLATS", percent)>>,
        <<Order("position", "SET_POSITION", inverted, <<>>, "position"),
          Order("slat_position", "SET_SLATS", percent, <<>>, "slat_position")>>, "cover_with_slats"),
    Profile("light", {"DIMMING"}, {"INFO_ON_OFF", "INFO_DIMMING"}, <<State, Brightness>>, <<Switch, Dim>>, ""),
    Profile("climate", {"RTC"}, {"ON_OFF", "INFO_ECO", "INFO_MODE"},
        <<Attribute("on_off", "ON_OFF", b01), Attribute("eco", "INFO_ECO", b01),
          Attribute("mode", "INFO_MODE", Mode)>>,
        <<Order("on_off", "ON_OFF", b01, <<>>, ""), Order("eco", "ECO", b01, <<>>, ""),
          Order("mode", "SET_MODE", Demand, <<>>, ""),
          Order("setpoint_temperature", "SETPOINT", [kind |-> "float"], <<>>, "")>>,
        "room_temperature_controller"),
    Profile("switch", {"SWITCH"}, {}, <<State>>, <<Switch>>, ""),
    Profile("event", {"BUTTON"}, {"PRESSED"}, <<Press>>, <<>>, "")>>

MCFunctions == {"DIMMING", "BLIND", "RTC", "SCENE", "SWITCH", "BUTTON"}
MCOrder == <<<<"s1", "c1">>, <<"s1", "c2">>, <<"s2", "c1">>>>
MCDeviceName == [s1 |-> <<"Lamp">>, s2 |-> <<>>]
MCSpelling == [Lamp |-> <<"lamp">>, LAMP |-> <<"lamp">>, Kitchen |-> <<"kitchen">>,
               Hall |-> <<"hall">>, Channel |-> <<"channel">>, c1 |-> <<"c1">>, c2 |-> <<"c2">>]

Shape(name, place, function, outputs, inputs, bounds) ==
    [name |-> name, placed |-> place # <<>>, area |-> place, function |-> function,
     outputs |-> outputs, inputs |-> inputs, bounds |-> bounds]

Lamp(name, place) ==
    Shape(name, place, "DIMMING", <<"INFO_ON_OFF", "INFO_DIMMING">>, <<"SET_DIMMING", "SWITCH_ON_OFF">>, <<>>)
White(name, bounds) ==
    Shape(name, <<"Hall">>, "DIMMING", <<"INFO_TEMPERATURE", "INFO_DIMMING", "INFO_ON_OFF">>,
          <<"SWITCH_ON_OFF", "SET_DIMMING", "TEMPERATURE">>, bounds)
Climate(inputs) ==
    Shape(<<>>, <<"Hall">>, "RTC", <<"INFO_MODE", "ON_OFF", "INFO_ECO">>, inputs, <<>>)
Plug(outputs) ==
    Shape(<<"Hall", "Lamp">>, <<"Kitchen">>, "SWITCH", outputs, <<"SWITCH_ON_OFF">>, <<>>)
Blind == Shape(<<"Kitchen", "Lamp">>, <<"Hall">>, "BLIND", <<"POSITION", "SLATS">>,
               <<"SET_SLATS", "SET_POSITION">>, <<>>)

MCShapes == (<<"s1", "c1">> :> {Lamp(<<>>, <<"Kitchen">>), Plug(<<"INFO_ON_OFF">>),
                                Plug(<<>>),
                                Shape(<<>>, <<>>, "unheard", <<>>, <<>>, <<>>)}) @@
            (<<"s1", "c2">> :> {White(<<"LAMP">>, <<2700, 6465>>), White(<<"Hall">>, <<>>),
                                Shape(<<>>, <<"Hall">>, "SCENE", <<>>, <<>>, <<>>),
                                Shape(<<>>, <<"Hall">>, "BUTTON", <<"PRESSED">>, <<>>, <<>>)}) @@
            (<<"s2", "c1">> :> {Climate(<<"SETPOINT", "ON_OFF", "ECO", "SET_MODE">>), Climate(<<"ECO", "SET_MODE">>),
                                Climate(<<"ON_OFF", "SET_MODE">>), Blind})
MCStart == (<<"s1", "c2">> :> White(<<"LAMP">>, <<2700, 6465>>)) @@ (<<"s2", "c1">> :> Blind)
MCNames == {<<"Lamp">>}
MCPayloads == {<<"state", Str("OFF")>>, <<"state", Bool(TRUE)>>, <<"brightness", Num(5)>>,
               <<"brightness", Num(425)>>, <<"color_temp", Num(30000)>>, <<"position", Num(1000)>>,
               <<"position", Decimal(337)>>, <<"state", Whole(0)>>, <<"hvac_mode", Str("heating")>>, <<"hvac_mode", Str("eco")>>,
               <<"hvac_mode", Str("off")>>, <<"brightness", None>>, <<"slat_position", Num(300)>>, <<"color_temp", Num(27941)>>}
MCStray == {<<"INFO_DIMMING", Decimal(995)>>, <<"INFO_TEMPERATURE", Decimal(365)>>, <<"INFO_ECO", Whole(1)>>,
            <<"SLATS", Whole(30)>>, <<"INFO_ON_OFF", Garbled>>, <<"PRESSED", Whole(1)>>, <<"POSITION", Whole(0)>>}
To(output) == [output |-> output, to |-> <<>>]
MCSetpointLimits == <<70, 350>>
MCResponse == [SWITCH_ON_OFF |-> To("INFO_ON_OFF"), SET_DIMMING |-> To("INFO_DIMMING"),
               TEMPERATURE |-> To("INFO_TEMPERATURE"), SET_POSITION |-> To("POSITION"),
               SET_SLATS |-> To("SLATS"), ON_OFF |-> To("ON_OFF"), ECO |-> To("INFO_ECO"),
               SET_MODE |-> To("INFO_MODE")]
MCFirstReading == [INFO_ON_OFF |-> Whole(1), INFO_DIMMING |-> Whole(50), INFO_TEMPERATURE |-> Blank,
                   POSITION |-> Whole(40), SLATS |-> Whole(0), ON_OFF |-> Whole(0),
                   INFO_ECO |-> Whole(0), INFO_MODE |-> Whole(1), PRESSED |-> Blank]

\* The profiles above are regular, as those of the bridge are.
ASSUME MCRegular == RegularProfiles
ASSUME MCAnswers == DevicesAnswer
====
