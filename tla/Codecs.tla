---- MODULE Codecs ----
(***************************************************************************)
(* Wire values to symbolic values and back (model/codecs.py), the range of *)
(* a command (model/compiler.py) and the named transforms                  *)
(* (model/transforms.py).  Numbers are in tenths; a float is the exact     *)
(* rational.  A value is a pair of its Python type and its content; a wire *)
(* value is a pair of its form and the number that it spells:              *)
(* <<"int", 10>> is "1", <<"dec", 10>> is "1.0".  A Python string that a   *)
(* client sends is such a spelling too, or Str(text) if it spells no number.*)
(* The codec "scaled", which no profile uses, is left out.                 *)
(***************************************************************************)
EXTENDS Integers, Sequences, FiniteSetsExt

None == <<"none", 0>>
Bool(b) == <<"bool", b>>
Num(tenths) == <<"num", tenths>>
Str(text) == <<"str", text>>

Whole(n) == <<"int", 10 * n>>
Decimal(tenths) == <<"dec", tenths>>
Blank == <<"blank", 0>>
Garbled == <<"garbled", 0>>
Rejected == <<"rejected", 0>>    \* CommandError, TypeError or ValueError

RawValues == {"int", "dec", "blank", "garbled"} \X Int
Values == {None} \cup ({"bool"} \X BOOLEAN) \cup ({"num", "int", "dec"} \X Int) \cup ({"str"} \X STRING)

\* Slip: rounds down, like int().
RoundDown(numerator, denominator) == numerator \div denominator

\* round() of numerator / denominator: to the nearest, halves to the even neighbour.
Round(numerator, denominator) ==
    LET floor == numerator \div denominator
        rest  == 2 * (numerator % denominator)
    IN  IF rest < denominator \/ (rest = denominator /\ floor % 2 = 0) THEN floor ELSE floor + 1

Between(low, number, high) == Max({low, Min({high, number})})

clamp_percent(tenths) == Between(0, Round(tenths, 10), 100)

parse_finite_float(raw) == raw[1] \in {"int", "dec"}

\* What the two ends of a range can be compared with, and what float() takes: it reads
\* a string as well.  Of both the value in tenths; True is 1.0.
IsNumber(value) == value[1] \in {"num", "bool"}
FloatTakes(value) == IsNumber(value) \/ parse_finite_float(value)
Tenths(value) ==
    IF value[1] = "bool" THEN IF value[2] THEN 10 ELSE 0 ELSE value[2]

\* int() drops the fraction, towards zero.
Truncated(tenths) == IF tenths >= 0 THEN tenths \div 10 ELSE -((-tenths) \div 10)

decode(codec, raw) ==
    CASE codec.kind = "trigger" -> Bool(TRUE)
      [] codec.kind = "enum" -> IF raw \in DOMAIN codec.values THEN Str(codec.values[raw]) ELSE codec.default
      [] codec.kind = "bool01" ->
            IF raw = Whole(1) THEN Bool(TRUE) ELSE IF raw = Whole(0) THEN Bool(FALSE) ELSE None
      [] codec.kind = "string" -> IF raw = Blank THEN None ELSE raw
      [] OTHER -> IF ~parse_finite_float(raw) THEN None ELSE
            CASE codec.kind = "int" -> Num(10 * Truncated(raw[2]))
              [] codec.kind = "float" -> Num(raw[2])
              [] codec.kind = "percent_int" -> Num(10 * clamp_percent(raw[2]))
              [] codec.kind = "percent_inverted" -> Num(10 * (100 - clamp_percent(raw[2])))
              [] codec.kind = "color_temp_pct" ->
                    LET pct == Between(0, raw[2], 1000)
                    IN  Num(10 * Round(1000 * codec.warmest + (codec.coolest - codec.warmest) * pct, 1000))

\* In any case, with blanks around them.
Falsy == {"OFF", "off", "false", "no"}

\* Slip: every string but the empty one is true.
encode_bool01Truthy(value) ==
    CASE value \in {None, Str("")} -> Whole(0)
      [] (value[1] = "str" /\ value[2] # "") \/ parse_finite_float(value) -> Whole(1)
      [] OTHER -> IF Tenths(value) = 0 THEN Whole(0) ELSE Whole(1)

\* A string that is not falsy is truthy unless it is empty: "0.0" is.
encode_bool01(value) ==
    CASE value = None -> Whole(0)
      [] value[1] = "str" -> IF value[2] \in Falsy \cup {""} THEN Whole(0) ELSE Whole(1)
      [] parse_finite_float(value) -> IF value = Whole(0) THEN Whole(0) ELSE Whole(1)
      [] OTHER -> IF Tenths(value) = 0 THEN Whole(0) ELSE Whole(1)

\* int() reads no string with a fraction.
encode(codec, value) ==
    CASE codec.kind = "bool01" -> encode_bool01(value)
      [] codec.kind = "enum" ->
            IF value[1] = "str" /\ value[2] \in DOMAIN codec.values THEN codec.values[value[2]] ELSE Rejected
      [] codec.kind = "trigger" -> Rejected
      [] OTHER -> IF ~FloatTakes(value) \/ (codec.kind = "int" /\ value[1] = "dec") THEN Rejected ELSE
            CASE codec.kind = "int" -> Whole(Truncated(Tenths(value)))
              [] codec.kind = "float" -> Decimal(Tenths(value))
              [] codec.kind = "percent_int" -> Whole(clamp_percent(Tenths(value)))
              [] codec.kind = "percent_inverted" -> Whole(100 - clamp_percent(Tenths(value)))
              [] codec.kind = "color_temp_pct" ->
                    LET span == codec.coolest - codec.warmest
                    IN  IF span = 0 THEN Whole(0)
                        ELSE Whole(Between(0, Round(10 * (Tenths(value) - 10 * codec.warmest), span), 100))

\* _make_range_validator: range is a pair of tenths, or <<>>.
validate(range, value) ==
    IF range = <<>> THEN value
    ELSE IF ~IsNumber(value) THEN Rejected
    ELSE Num(Between(range[1], Tenths(value), range[2]))

FullyOpen == Num(1000)

\* Composite attributes; the values are by position in the profile's attributes.
derive(transform, values) ==
    CASE transform = "room_temperature_controller" ->
            [hvac_mode |-> IF values[1] # Bool(TRUE) THEN Str("off")
                           ELSE IF values[2] = Bool(TRUE) THEN Str("eco") ELSE values[3]]
      [] transform = "cover_with_slats" ->
            [slat_position |-> IF values[1] = FullyOpen THEN None ELSE values[2]]
      [] OTHER -> <<>>

Unclaimed == <<>>    \* CommandError of a transform: the command is the profile's own

\* Transform.command: the writes that one logical command stands for.
subWrites(transform, name, value) ==
    CASE transform = "room_temperature_controller" /\ name = "hvac_mode" ->
            CASE value = Str("off") -> <<<<"on_off", Bool(FALSE)>>>>
              [] value = Str("eco") -> <<<<"on_off", Bool(TRUE)>>, <<"eco", Bool(TRUE)>>>>
              [] value \in {Str("heating"), Str("cooling")} ->
                    <<<<"on_off", Bool(TRUE)>>, <<"eco", Bool(FALSE)>>, <<"mode", value>>>>
              [] OTHER -> Unclaimed
      [] transform = "cover_with_slats" /\ name = "position" ->
            <<<<"position", value>>>> \o (IF value = FullyOpen THEN <<<<"slat_position", Num(0)>>>> ELSE <<>>)
      [] transform = "cover_with_slats" /\ name = "stop" -> <<<<"stop", Bool(TRUE)>>>>
      [] OTHER -> Unclaimed
====
