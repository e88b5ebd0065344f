----------------------------- MODULE UnwdsMqtt -----------------------------
(***************************************************************************)
(* Between MQTT and the codecs: convert_from and convert_to of             *)
(* src/unwds-mqtt.c, and the routing of a message by my_message_callback   *)
(* (src/mqtt.c).  A message has levels, the words of its topic, a command, *)
(* mid, its packet identifier, and own, whether the gate published it.     *)
(***************************************************************************)
EXTENDS M230, M200, Iec61107, Dali, Modbus, Actuators

CommandOf(type, c) ==
  CASE type = "gpio"      -> umdk_gpio_command(c)
    [] type = "counter"   -> umdk_counter_command(c)
    [] type = "gps"       -> umdk_gps_command(c)
    [] type = "lmt01"     -> umdk_lmt01_command(c)
    [] type = "uart"      -> umdk_uart_command(c)
    [] type = "adc"       -> umdk_adc_command(c)
    [] type = "echo"      -> umdk_rssiecho_command(c)
    [] type = "pwm"       -> umdk_pwm_command(c)
    [] type = "light"     -> umdk_light_command(c)
    [] type = "dali"      -> umdk_dali_command(c)
    [] type = "meteo"     -> umdk_meteo_command(c)
    [] type = "m200"      -> umdk_m200_command(c)
    [] type = "config"    -> umdk_config_command(c)
    [] type = "pulse"     -> umdk_pulse_command(c)
    [] type = "mhz19"     -> umdk_mhz19_command(c)
    [] type = "ibutton"   -> umdk_ibutton_command(c)
    [] type = "switch"    -> umdk_switch_command(c)
    [] type = "m230"      -> umdk_m230_command(c)
    [] type = "inclinometer" -> umdk_inclinometer_command(c)
    [] type = "iec61107"  -> umdk_iec61107_command(c)
    [] type = "hd44780"   -> umdk_hd44780_command(c)
    [] type = "pacs"      -> umdk_pacs_command(c)
    [] type = "idcard"    -> umdk_idcard_command(c)
    [] type = "irblaster" -> umdk_irblaster_command(c)
    [] type = "hx711"     -> umdk_hx711_command(c)
    [] type = "usound"    -> umdk_usound_command(c)
    [] type = "modbus"    -> umdk_modbus_command(c)
    [] type = "wiegand"   -> umdk_wiegand_command(c)
    [] type = "st95"      -> umdk_st95_command(c)

(* What there is after the verb of a command that a client writes whole:   *)
(* the bytes, the key, the points and the numbers, as many as the codec of *)
(* Modbus counts on (where its strtol would read on after the text).  The  *)
(* text the gate publishes itself has none of it.                          *)
IsSequence(s) == s \in Seq({s[i] : i \in DOMAIN s})
Whole(c) ==
  c.verb # "json" =>
    /\ c.nums \in Seq(Int)
    /\ IsSequence(c.text) /\ IsSequence(c.id) /\ IsSequence(c.points)
    /\ c.verb \in DOMAIN ModbusWords => Len(c.nums) >= ModbusWordsOf(c.verb)
    /\ c.verb \in DOMAIN ModbusMultiple => Len(c.nums) >= 3
    /\ c.verb \in DOMAIN ModbusFile => Len(c.nums) >= 5

ReplyOf(type, d) ==
  CASE type = "gpio"      -> umdk_gpio_reply(d)
    [] type = "4btn"      -> umdk_4btn_reply(d)
    [] type = "counter"   -> umdk_counter_reply(d)
    [] type = "gps"       -> umdk_gps_reply(d)
    [] type = "lmt01"     -> umdk_lmt01_reply(d)
    [] type = "uart"      -> umdk_uart_reply(d)
    [] type = "pir"       -> umdk_pir_reply(d)
    [] type = "adc"       -> umdk_adc_reply(d)
    [] type = "echo"      -> umdk_rssiecho_reply(d)
    [] type = "pwm"       -> umdk_pwm_reply(d)
    [] type = "light"     -> umdk_light_reply(d)
    [] type = "dali"      -> umdk_dali_reply(d)
    [] type = "meteo"     -> umdk_meteo_reply(d)
    [] type = "m200"      -> umdk_m200_reply(d)
    [] type = "config"    -> umdk_config_reply(d)
    [] type = "pulse"     -> umdk_pulse_reply(d)
    [] type = "mhz19"     -> umdk_mhz19_reply(d)
    [] type = "ibutton"   -> umdk_ibutton_reply(d)
    [] type = "switch"    -> umdk_switch_reply(d)
    [] type = "m230"      -> umdk_m230_reply(d)
    [] type = "inclinometer" -> umdk_inclinometer_reply(d)
    [] type = "iec61107"  -> umdk_iec61107_reply(d)
    [] type = "hd44780"   -> umdk_hd44780_reply(d)
    [] type = "pacs"      -> umdk_pacs_reply(d)
    [] type = "idcard"    -> umdk_idcard_reply(d)
    [] type = "irblaster" -> umdk_irblaster_reply(d)
    [] type = "hx711"     -> umdk_hx711_reply(d)
    [] type = "usound"    -> umdk_usound_reply(d)
    [] type = "modbus"    -> umdk_modbus_reply(d)
    [] type = "wiegand"   -> umdk_wiegand_reply(d)
    [] type = "st95"      -> umdk_st95_reply(d)

(* The few codecs that refuse an answer do it by its length or first byte. *)
Accepted(type, d) ==
  CASE type \in {"pir", "inclinometer", "irblaster"} -> Len(d) = 1
    [] type = "4btn"               -> Len(d) = 2
    [] type \in {"echo", "usound"} -> Len(d) > 1
    [] type = "uart"               -> At(d, 0) \in {0, 1, 2, 253, 254, 255}
    [] type = "hx711"              -> At(d, 0) \in 0..2
    [] OTHER                       -> TRUE

(* convert_from: none or one frame, the number of the module and what its  *)
(* command made, be it nothing.                                            *)
convert_from(type, c) ==
  IF type \in ModuleNames \ WithoutCommands
  THEN <<<<unwds_modid_by_name(type)>> \o CommandOf(type, c)>>
  ELSE <<>>

(* convert_to: none or one topic with its pairs. *)
convert_to(modid, d) ==
  IF \E type \in ModuleNames : unwds_modid_by_name(type) = modid
  THEN LET type == CHOOSE type \in ModuleNames : unwds_modid_by_name(type) = modid
       IN  IF Accepted(type, d) THEN <<[topic |-> type, pairs |-> Stored(ReplyOf(type, d))]>>
           ELSE <<>>
  ELSE <<>>

(***************************************************************************)
(* my_message_callback.  Levels are compared by their beginnings.          *)
(***************************************************************************)
CONSTANTS
  LongWords,      \* pairs of a word and a longer one that begins with it
  HexAddress      \* the bytes hex_to_bytes makes of a level, by level
ASSUME AddressAssumption ==
  \A level \in DOMAIN HexAddress :
    HexAddress[level] \in Seq(Byte) /\ Len(HexAddress[level]) = 8

(* Neither direction is the beginning of the other. *)
ASSUME DirectionAssumption == <<"mosi", "miso">> \notin LongWords

Level(m, i) == IF i <= Len(m.levels) THEN m.levels[i] ELSE ""
Begins(word, prefix) == word = prefix \/ <<prefix, word>> \in LongWords
GateCommands == {"reboot", "channel", "region", "datarate", "joinkey", "update"}

(* Mutant: the packet identifier is not looked at. *)
ForLoraAny(m) ==
  Len(m.levels) >= 2 /\ Begins(m.levels[1], "devices") /\ Begins(m.levels[2], "lora")
(* Is it for the gate at all? *)
ForLora(m) ==
  /\ m.mid = 0
  /\ Len(m.levels) >= 2
  /\ Begins(m.levels[1], "devices") /\ Begins(m.levels[2], "lora")

ListAsked(m) == ForLora(m) /\ Len(m.levels) = 3 /\ Begins(Level(m, 3), "get")

IsSetting(m) == ForLora(m) /\ Begins(Level(m, 3), "gate")
(* None or one command to the gate board. *)
SettingOf(m) ==
  IF IsSetting(m) /\ \E w \in GateCommands : Begins(Level(m, 4), w)
  THEN <<CHOOSE w \in GateCommands : Begins(Level(m, 4), w)>>
  ELSE <<>>

TypeLevel(m, sepio) == IF sepio THEN Level(m, 5) ELSE Level(m, 4)
(* Mutant: the direction is not looked at. *)
ForMotesBothWays(m, sepio) ==
  /\ ForLora(m) /\ Len(m.levels) > 3
  /\ ~(IsSetting(m) /\ SettingOf(m) = <<>>)
  /\ Level(m, 3) = "*" \/ Level(m, 3) \in DOMAIN HexAddress
ForMotes(m, sepio) ==
  /\ ForLora(m) /\ Len(m.levels) > 3
  /\ ~(IsSetting(m) /\ SettingOf(m) = <<>>)
  /\ Level(m, 3) = "*" \/ Level(m, 3) \in DOMAIN HexAddress
  /\ sepio => Begins(Level(m, 4), "mosi")

(* None or one payload, for a mote or for all of them. *)
PayloadOf(m, sepio) ==
  IF ForMotes(m, sepio) THEN convert_from(TypeLevel(m, sepio), m.command) ELSE <<>>

(* message_to_mote prints the address without the zeros in front. *)
TrimmedAddress(address) ==
  LET kept == {i \in DOMAIN address : \E k \in 1..i : address[k] # 0}
  IN  SubSeq(address, 9 - Cardinality(kept), 8)
=============================================================================
