------------------------------ MODULE Sensors ------------------------------
(***************************************************************************)
(* The codecs of sensors and counters (src/modules/umdk-*.c).  An empty    *)
(* frame is a command the codec did not take.                              *)
(***************************************************************************)
EXTENDS MqttMessage

(* Most commands are a code, with or without one byte of number. *)
(* Mutant: the number is printed as it is. *)
CodedWide(table, c) ==
  IF c.verb \notin DOMAIN table THEN <<>>
  ELSE IF table[c.verb][2] = "byte" THEN <<table[c.verb][1], c.nums[1]>>
  ELSE <<table[c.verb][1]>>
Coded(table, c) ==
  IF c.verb \notin DOMAIN table THEN <<>>
  ELSE IF table[c.verb][2] = "byte" THEN <<table[c.verb][1], U8(c.nums[1])>>
  ELSE <<table[c.verb][1]>>

Msg(w) == Pair("msg", Word(w))
Reported(d, ok, error) ==
  CASE At(d, 0) = ok -> Msg("ok") [] At(d, 0) = error -> Msg("error") [] OTHER -> <<>>
OkOrError(d) == Msg(IF At(d, 0) = 0 THEN "ok" ELSE "error")

LE16(d, i) == Word16(At(d, i + 1), At(d, i))
LE32(d, i) == Word32(At(d, i + 3), At(d, i + 2), At(d, i + 1), At(d, i))
NullOr(w, absent, value) == IF w = absent THEN Word("null") ELSE value

(* ADC: lines 1 to 7 can be enabled, 8 are reported. *)
umdk_adc_command(c) ==
  IF c.verb = "set_lines"
  THEN LET bit[i \in 0..7] ==
             IF i = 0 THEN 0
             ELSE bit[i - 1] + (IF \E k \in DOMAIN c.nums : c.nums[k] = i THEN 2^(i - 1) ELSE 0)
       IN  <<3, bit[7]>>
  ELSE Coded([set_period |-> <<0, "byte">>, get |-> <<1, "">>, set_gpio |-> <<2, "byte">>], c)

umdk_adc_reply(d) ==
  IF Len(d) = 1 THEN OkOrError(d)
  ELSE [i \in 1..8 |->
          [name  |-> <<"adc", i>>,
           value |-> NullOr(LE16(d, 2 * i - 2), 65535, Num(LE16(d, 2 * i - 2)))]]

umdk_lmt01_command(c) == Coded([set_period |-> <<0, "byte">>, get |-> <<1, "">>], c)

(* Names have room for one digit. *)
umdk_lmt01_reply(d) ==
  LET sensor(i) == Int16(LE16(d, 2 * i - 2))
  IN  IF Len(d) = 1 THEN OkOrError(d)
      ELSE [i \in 1..Len(d) \div 2 |->
              [name  |-> <<"s", IF i < 10 THEN i ELSE i \div 10>>,
               value |-> NullOr(sensor(i), 32767, Fixed(sensor(i), 1))]]

umdk_light_command(c) ==
  Coded([set_period |-> <<0, "byte">>, get |-> <<1, "">>, set_i2c |-> <<2, "byte">>], c)

(* Unsigned readings are taken for sign and magnitude too. *)
UnsignedSam(d, i) == Num(U16(Sam16(At(d, i), At(d, i + 1))))

umdk_light_reply(d) ==
  IF At(d, 0) = 0 THEN Pair("luminocity", UnsignedSam(d, 1)) ELSE Reported(d, 1, 255)

umdk_meteo_command(c) == Coded([set_period |-> <<0, "byte">>, get |-> <<1, "">>], c)

umdk_meteo_reply(d) ==
  IF At(d, 0) = 0
  THEN Pair("temperature", Fixed(Sam16(At(d, 1), At(d, 2)), 1)) \o
       Pair("humidity", Fixed(Sam16(At(d, 3), At(d, 4)), 1)) \o
       Pair("pressure", UnsignedSam(d, 5))
  ELSE Reported(d, 1, 255)

umdk_gps_command(c) == Coded([get |-> <<0, "">>], c)

umdk_gps_reply(d) ==
  LET degrees(i) == Fixed(Sam32(At(d, i), At(d, i + 1), At(d, i + 2), At(d, i + 3)), 6)
  IN  IF At(d, 0) = 0
      THEN Pair("valid", Word(IF At(d, 1) > 0 THEN "true" ELSE "false")) \o
           Pair("lat", degrees(2)) \o Pair("lon", degrees(6)) \o
           Pair("vel", UnsignedSam(d, 10)) \o
           Pair("dir", Fixed(U16(Sam16(At(d, 12), At(d, 13))) * 10000, 6))
      ELSE Reported(d, 1, 255)

umdk_mhz19_command(c) == Coded([get |-> <<0, "">>, set_period |-> <<1, "byte">>], c)

(* The first four characters of the number. *)
FourChars(n) ==
  CASE n > 9999   -> n \div 10
    [] n < -9999  -> -((-n) \div 100)
    [] n \in -9999..-1000 -> -((-n) \div 10)
    [] OTHER      -> n

umdk_mhz19_reply(d) ==
  LET status(w) == Pair("type", Num(d[1])) \o Msg(w)
  IN  IF Len(d) = 1
      THEN CASE At(d, 0) = 0 -> status("ok") [] At(d, 0) = 253 -> status("overflow error")
             [] At(d, 0) = 254 -> status("format error") [] At(d, 0) = 255 -> status("error")
             [] OTHER -> <<>>
      ELSE Pair("co2", Num(FourChars(Int16(LE16(d, 0))))) \o
           Pair("temp", Fixed(Int16(LE16(d, 2)), 1)) \o Pair("valid", Num(At(d, 4)))

(* The weight is printed highest byte first, and read lowest byte first. *)
umdk_hx711_command(c) ==
  IF c.verb = "scale" THEN <<3>> \o BE32(c.nums[1])
  ELSE Coded([get |-> <<0, "">>, period |-> <<1, "byte">>, zero |-> <<2, "">>], c)

umdk_hx711_reply(d) ==
  LET word(i) == Unsigned(<<At(d, i + 3), At(d, i + 2), At(d, i + 1), At(d, i)>>)
  IN  IF At(d, 0) = 0 THEN Pair("weight", word(1)) \o Pair("raw", word(5))
      ELSE Reported(d, 1, 2)

umdk_usound_command(c) == Coded([get |-> <<0, "">>], c)
umdk_usound_reply(d) ==
  Pair("distance", Num(Word32(At(d, 0), At(d, 1), At(d, 2), At(d, 3))))

umdk_rssiecho_command(c) == Coded([get |-> <<0, "">>], c)
umdk_rssiecho_reply(d) == Pair("rssi", Num(Int16(Word16(At(d, 0), At(d, 1)))))

umdk_4btn_reply(d) ==
  Pair("btn", Num(d[1])) \o Pair("state", Word(IF d[2] = 0 THEN "pressed" ELSE "released"))

umdk_pir_reply(d) == Pair("pir", Num(d[1]))

umdk_inclinometer_reply(d) == IF At(d, 0) = 1 THEN Pair("state", Word("opened")) ELSE <<>>

umdk_counter_command(c) ==
  Coded([period |-> <<0, "byte">>, get |-> <<1, "">>, reset |-> <<2, "">>], c)

Invalid(status) ==
  CASE status = 0 -> Msg("ok") [] status = 1 -> Msg("invalid command")
    [] status = 2 -> Msg("invalid parameter") [] OTHER -> <<>>

(* Four counters of 24 bits in three words, lowest byte first each. *)
umdk_counter_reply(d) ==
  LET high(k)  == Word16(At(d, 4 * k + 3), At(d, 4 * k + 2))
      low(k)   == Word16(At(d, 4 * k + 1), At(d, 4 * k))
      value(i) == CASE i = 0 -> Word24(At(d, 3), At(d, 2), At(d, 1))
                    [] i = 1 -> 65536 * At(d, 0) + high(1)
                    [] i = 2 -> 256 * low(1) + At(d, 11)
                    [] i = 3 -> Word24(At(d, 10), At(d, 9), At(d, 8))
  IN  IF Len(d) = 1 THEN Invalid(d[1])
      ELSE [i \in 1..4 |-> [name |-> <<"v", i - 1>>, value |-> Num(value(i - 1))]]

(* The words of "values" are swapped before they are printed, so the mote  *)
(* gets each lowest byte first.                                            *)
umdk_pulse_command(c) ==
  IF c.verb = "values"
  THEN <<3, U8(c.nums[1])>> \o Reversed(BE32(c.nums[2])) \o Reversed(BE32(c.nums[3]))
  ELSE Coded([period |-> <<0, "byte">>, get |-> <<1, "">>, reset |-> <<2, "">>,
              coeff |-> <<4, "byte">>, tamper |-> <<5, "">>], c)

(* The last absolute value, then hour by hour the difference to the one    *)
(* before; both bytes of a difference are taken from its first.  A number  *)
(* has room for nine digits.                                               *)
NineDigits(n) ==
  CASE n \in 0..999999999 -> n [] n > 999999999 -> n \div 10
    [] n < 0 -> 429496729 + (n + 6) \div 10
PulseHistory(d, channels, hours, i) ==
  LET delta(k) == 257 * At(d, 2 + 4 * channels + 2 * i * (hours - 1) + 2 * (k - 1))
      value[k \in 0..31] ==
        IF k = 0 THEN LE32(d, 2 + 4 * i)
        ELSE IF k < hours THEN value[k - 1] - delta(k) ELSE 0
  IN  List([k \in 1..hours |-> Num(NineDigits(value[k - 1]))], FALSE)

umdk_pulse_reply(d) ==
  LET channels == 1 + (At(d, 1) % 4)
      hours    == (At(d, 1) \div 4) % 32
  IN  CASE At(d, 0) = 3 ->
             [i \in 1..channels |-> [name  |-> <<"P", i>>,
                                     value |-> PulseHistory(d, channels, hours, i - 1)]] \o
             Pair("tamper", Word(IF d[2] > 127 THEN "broken" ELSE "ok"))
        [] At(d, 0) = 4 -> Msg("leak")
        [] At(d, 0) = 5 -> Msg("tamper")
        [] OTHER    -> Invalid(d[1])
=============================================================================
