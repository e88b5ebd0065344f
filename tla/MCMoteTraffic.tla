---------------------------- MODULE MCMoteTraffic ----------------------------
(***************************************************************************)
(* MoteTraffic for TLC: four motes, and scripts of what clients publish    *)
(* and motes report.  Each script is about one thing; how its messages     *)
(* interleave on their way is TLC's.                                       *)
(***************************************************************************)
EXTENDS MoteTraffic

(* The address of zero, printed short and followed by the number of m230,  *)
(* is the address of other.                                                *)
mcAddress ==
  [mote1 |-> <<128, 0, 0, 0, 26, 43, 60, 77>>, mote2 |-> <<128, 0, 0, 0, 26, 43, 60, 78>>,
   zero  |-> <<0, 128, 0, 0, 0, 26, 43, 60>>,  other |-> <<128, 0, 0, 0, 26, 43, 60, 54>>]
mcEquipped ==
  [mote \in DOMAIN mcAddress |-> IF mote = "mote2" THEN {"dali", "config"} ELSE ModuleNames]
mcLongWords == {<<"gate", "gateway">>, <<"get", "getall">>, <<"lora", "lorawan">>}
mcBallasts == {0, 5, 63}

Base == [verb |-> "", words |-> <<>>, nums |-> <<>>, dest |-> 0, days |-> {}, points |-> <<>>,
         text |-> <<>>, padded |-> TRUE, to |-> "dev", id |-> <<0, 0, 0, 17, 34, 51, 68, 85>>]
C(verb, words, nums, dest) ==
  [Base EXCEPT !.verb = verb, !.words = words, !.nums = nums, !.dest = dest]
P(tariff, hour, min) == [tariff |-> tariff, hour |-> hour, min |-> min]
WithPoints(c, points) == [c EXCEPT !.points = points]

Publish(levels, c, mid) ==
  [levels |-> <<"devices", "lora">> \o levels, command |-> c, mid |-> mid, own |-> FALSE]
To(mote, type, c) == Publish(<<mote, type>>, c, 0)
AllTo(mote, type, commands) == [i \in DOMAIN commands |-> To(mote, type, commands[i])]

Script(messages, readings) ==
  [config |-> [qos |-> 1, sepio |-> FALSE], messages |-> messages, reports |-> readings]
Configured(script, qos, sepio) == [script EXCEPT !.config = [qos |-> qos, sepio |-> sepio]]

(***************************************************************************)
(* Meters.                                                                 *)
(***************************************************************************)
Day2  == <<P(1, 0, 0), P(2, 7, 5), P(4, 23, 59)>>
Day8  == [i \in 1..8 |-> P(1 + (i % 4), 2 * i, 7 * i)]
Day12 == [i \in 1..12 |-> P(1 + (i % 4), 2 * i - 1, 5 * (i - 1))]

mcM230 ==
  {Script(AllTo("mote1", "m230",
     <<C("get_schedule", <<>>, <<12, 8>>, 5), WithPoints(C("set_schedule", <<"year", "weekdays">>, <<>>, 5), Day2),
       C("get_schedule", <<>>, <<1, 1>>, 5),
       WithPoints(C("set_schedule", <<"month", "day">>, <<1, 1>>, 5), Day8),
       C("get_schedule", <<>>, <<1, 1>>, 5), C("get_schedule", <<>>, <<12, 5>>, 5),
       C("get_schedule", <<>>, <<1, 6>>, 5)>>), <<>>),
   Script(AllTo("mote1", "m230",
     <<WithPoints(C("set_schedule", <<"month", "weekends">>, <<12>>, 200), Day8),
       C("get_schedule", <<>>, <<12, 7>>, 200), C("get_schedule", <<>>, <<12, 8>>, 200),
       WithPoints(C("set_schedule", <<"year", "holidays">>, <<>>, 200), Day2),
       C("get_schedule", <<>>, <<12, 8>>, 200), C("get_schedule", <<>>, <<12, 8>>, 201)>>), <<>>),
   Script(AllTo("mote1", "m230",
     <<[C("set_holidays", <<>>, <<>>, 7) EXCEPT !.days = {<<1, 1>>, <<8, 1>>, <<9, 5>>, <<31, 12>>}],
       C("get_holidays", <<>>, <<1>>, 7), C("get_holidays", <<>>, <<12>>, 7),
       [C("set_holidays", <<>>, <<>>, 7) EXCEPT !.days = {<<24, 1>>, <<23, 2>>}],
       C("get_holidays", <<>>, <<1>>, 7), C("get_holidays", <<>>, <<5>>, 7),
       C("get_holidays", <<>>, <<3>>, 7)>>), <<>>),
   Script(AllTo("mote1", "m230",
     <<C("set_load", <<"off">>, <<>>, 1), C("set_mode_pulse", <<"load">>, <<>>, 1),
       C("get_load", <<>>, <<>>, 1), C("set_mode_energy_limit", <<"on">>, <<>>, 1),
       C("set_load", <<"on">>, <<>>, 1), C("set_mode_power_limit", <<"on">>, <<>>, 1),
       C("get_load", <<>>, <<>>, 1)>>), <<>>),
   \* hour, min, sec, day of week, day, month, year, season
   Script(AllTo("mote1", "m230",
     <<C("set_timedate", <<>>, <<23, 59, 8, 7, 31, 12, 18, 1>>, 255), C("get_timedate", <<>>, <<>>, 255),
       C("set_mode_tariff", <<"one">>, <<>>, 255), C("get_mode_tariff", <<>>, <<>>, 255),
       C("set_mode_tariff", <<"two">>, <<>>, 255), C("set_load", <<"none">>, <<>>, 255)>>), <<>>)}

mcM200 ==
  {Script(AllTo("mote1", "m200",
     <<WithPoints(C("set_schedule", <<"month", "day">>, <<12, 3>>, 16909060), Day2),
       C("get_schedule", <<>>, <<12, 3>>, 16909060), C("get_schedule", <<>>, <<12, 3>>, 16909059),
       WithPoints(C("set_schedule", <<"year", "all">>, <<>>, 16909060), Day8),
       C("get_schedule", <<>>, <<1, 0>>, 16909060), C("get_schedule", <<>>, <<11, 7>>, 16909060)>>), <<>>),
   Script(AllTo("mote1", "m200",
     <<C("set_timedate", <<>>, <<0, 9, 30, 59, 1, 12, 19>>, 2147483647),
       C("get_timedate", <<>>, <<>>, 2147483647), C("set_number_tariffs", <<>>, <<4>>, 1),
       C("get_number_tariffs", <<>>, <<>>, 1), C("get_number_tariffs", <<>>, <<>>, 256),
       C("remove", <<>>, <<>>, 305419904), C("remove", <<>>, <<>>, 305419904 + 17)>>), <<>>)}

Time == <<49, 50, 58, 48, 48, 58, 53, 57>>              \* 12:00:59
mcIec ==
  {Script(AllTo("mote1", "iec61107",
     <<WithPoints(C("set_schedule", <<>>, <<3>>, 1), Day12), C("get_schedule", <<>>, <<3>>, 1),
       WithPoints(C("set_schedule", <<>>, <<3>>, 1), Day2), C("get_schedule", <<>>, <<3>>, 1),
       C("get_schedule", <<>>, <<4>>, 1),
       [WithPoints(C("set_schedule", <<>>, <<4>>, 1), Day8) EXCEPT !.padded = FALSE],
       C("get_schedule", <<>>, <<4>>, 1)>>), <<>>),
   Script(AllTo("mote1", "iec61107",
     <<[C("set_time", <<>>, <<>>, 9) EXCEPT !.text = Time], C("get_time", <<>>, <<>>, 9),
       C("get_time", <<>>, <<>>, 10), C("set_init", <<>>, <<>>, 9), C("get_status", <<>>, <<>>, 9),
       [C("get_serial", <<>>, <<>>, 9) EXCEPT !.padded = FALSE]>>), <<>>)}

(***************************************************************************)
(* Lamps and registers.                                                    *)
(***************************************************************************)
L(verb, nums, to, dest) == [C(verb, <<>>, nums, dest) EXCEPT !.to = to]
LevelScript(percent) ==
  Script(AllTo("mote1", "dali",
    <<L("set_power", <<percent>>, "broadcast", 0), L("query_actual", <<>>, "dev", 63),
      L("store_max", <<percent>>, "dev", 5), L("query_max", <<>>, "dev", 5)>>), <<>>)
mcDali ==
  {LevelScript(p) : p \in {1, 2, 3, 5, 10, 26, 50, 77, 99, 100}} \cup
  {Script(AllTo("mote1", "dali",
     <<L("add_group", <<9>>, "dev", 5), L("add_group", <<9>>, "dev", 63),
       L("store_scene", <<15, 60>>, "group", 9), L("query_scene_level", <<15>>, "dev", 5),
       L("query_scene_level", <<15>>, "dev", 0), L("remove_group", <<9>>, "dev", 63),
       L("store_scene", <<15, 30>>, "group", 9), L("query_scene_level", <<15>>, "dev", 63)>>), <<>>),
   Script(AllTo("mote1", "dali",
     <<L("add_group", <<0>>, "broadcast", 0), L("add_group", <<15>>, "dev", 5),
       L("query_group_7", <<>>, "dev", 5), L("remove_group", <<0>>, "dev", 5),
       L("query_group_7", <<>>, "dev", 5), L("query_group_15", <<>>, "dev", 5)>>), <<>>),
   Script(AllTo("mote1", "dali",
     <<L("store_min", <<10>>, "dev", 0), L("store_power_on", <<20>>, "dev", 0),
       L("store_sys_fail", <<40>>, "dev", 0), L("query_min", <<>>, "dev", 0),
       L("query_power_on", <<>>, "dev", 0), L("query_sys_fail", <<>>, "dev", 0)>>), <<>>)}

mcModbus ==
  {Script(AllTo("mote1", "modbus",
     <<C("write_reg", <<>>, <<258, 4660>>, 17), C("read_hold_reg", <<>>, <<257, 3>>, 17),
       C("write_mult_regs", <<>>, <<256, 3, 6, 1, 65535, 48879>>, 17),
       C("read_hold_reg", <<>>, <<257, 3>>, 17), C("read_hold_reg", <<>>, <<257, 3>>, 18),
       C("get_event_log", <<>>, <<>>, 17)>>), <<>>)}

(***************************************************************************)
(* Readings, made of what was measured.                                    *)
(***************************************************************************)
Reading(type, bytes, pairs) ==
  [from |-> "mote1", module |-> unwds_modid_by_name(type), data |-> bytes, shows |-> <<pairs>>]
SamBytes(v) == BE16(convert_to_be_sam(v, 2))
LittleEndian(v) == Reversed(BE16(IF v < 0 THEN v + 65536 ELSE v))
Sam4(v) == IF v < 0 THEN [BE32(-v) EXCEPT ![1] = @ + 128] ELSE BE32(v)

Meteo(t, h, p) ==
  Reading("meteo", <<0>> \o SamBytes(t) \o SamBytes(h) \o SamBytes(p),
    Pair("temperature", Fixed(t, 1)) \o Pair("humidity", Fixed(h, 1)) \o Pair("pressure", Num(p)))
Gps(lat, lon) ==
  Reading("gps", <<0, 1>> \o Sam4(lat) \o Sam4(lon) \o SamBytes(7) \o SamBytes(359),
    Pair("valid", Word("true")) \o Pair("lat", Fixed(lat, 6)) \o Pair("lon", Fixed(lon, 6)) \o
    Pair("vel", Num(7)) \o Pair("dir", Fixed(3590000, 6)))
Lmt01(a, b) ==
  Reading("lmt01", LittleEndian(a) \o LittleEndian(b),
    PairAt("s", 1, Fixed(a, 1)) \o PairAt("s", 2, Fixed(b, 1)))
Mhz19(co2, t) ==
  Reading("mhz19", LittleEndian(co2) \o LittleEndian(t) \o <<1>>,
    Pair("co2", Num(co2)) \o Pair("temp", Fixed(t, 1)) \o Pair("valid", Num(1)))
\* four counters of 24 bits, in three words lowest byte first
Counter(v) ==
  LET b(i) == BE32(v[i])
      word(w) == Reversed(w)
  IN  Reading("counter",
        word(SubSeq(b(1), 2, 4) \o <<b(2)[2]>>) \o word(SubSeq(b(2), 3, 4) \o SubSeq(b(3), 2, 3)) \o
        word(<<b(3)[4]>> \o SubSeq(b(4), 2, 4)),
        [i \in 1..4 |-> [name |-> <<"v", i - 1>>, value |-> Num(v[i])]])
Light(v) == Reading("light", <<0>> \o SamBytes(v), Pair("luminocity", Num(v)))
Rssi(v) == Reading("echo", BE16(IF v < 0 THEN v + 65536 ELSE v), Pair("rssi", Num(v)))

mcReadings ==
  {Script(<<>>, <<Meteo(0, 0, 0), Meteo(-1, 5, 760), Meteo(-400, 1000, 32767), Meteo(32767, 1, 1)>>),
   Script(<<>>, <<Gps(-33856784, 151215297), Gps(55753215, -9), Gps(0, -180000000), Gps(-1, 1000000)>>),
   Script(<<>>, <<Lmt01(-5, 1275), Lmt01(0, -1), Mhz19(400, -9), Mhz19(9999, 255), Mhz19(-10, 0)>>),
   Script(<<>>, <<Counter(<<0, 1, 256, 65536>>), Counter(<<16777215, 0, 8388608, 255>>),
                  Counter(<<66051, 263430, 460809, 658188>>)>>),
   Script(<<>>, <<Light(0), Light(32767), Rssi(-1), Rssi(-120), Rssi(5)>>)}

(* Hour by hour backwards from the first value. *)
Pulse(channels) ==
  LET hours == Len(channels[1])
      delta(i, k) == channels[i][k] - channels[i][k + 1]
      first(i) == Reversed(BE32(channels[i][1]))
      n == Len(channels)
  IN  Reading("pulse",
        <<3, 4 * hours + n - 1>> \o
        [j \in 1..4 * n |-> first((j + 3) \div 4)[1 + ((j - 1) % 4)]] \o
        [j \in 1..2 * n * (hours - 1) |->
           LET i == (j - 1) \div (2 * (hours - 1)) + 1
               k == ((j - 1) % (2 * (hours - 1))) \div 2 + 1
           IN  Reversed(BE16(delta(i, k)))[1 + ((j - 1) % 2)]],
        [i \in 1..n |-> [name |-> <<"P", i>>,
                         value |-> List([k \in 1..hours |-> Num(channels[i][k])], FALSE)]])
mcPulse ==
  {Script(<<>>, <<Pulse(<<<<100, 100, 100>>>>), Pulse(<<<<771, 514, 0, 0>>, <<999999999, 999999485, 999999485, 999999228>>>>),
                  Pulse(<<<<10, 7, 5>>>>)>>)}

(* Meters report energies: the words of a Mercury 230 in the order 2, 1,   *)
(* 4, 3, all ones where it does not count.                                 *)
M230Word(v) == LET b == BE32(v) IN <<b[2], b[1], b[4], b[3]>>
M230Absent == <<255, 255, 255, 255>>
M230Energies(a, r) ==
  Reading("m230", <<3, 0, 9>> \o M230Word(a) \o M230Absent \o M230Word(r) \o M230Absent,
    Pair("Address", Num(9)) \o Pair("A+", Fixed(a, 3)) \o Pair("A-", Word("N/A")) \o
    Pair("R+", Fixed(r, 3)) \o Pair("R-", Word("N/A")))
FiveWords(v) == BE32(v[1]) \o BE32(v[2]) \o BE32(v[3]) \o BE32(v[4]) \o BE32(v[5])
Tariffs(v) == [i \in 1..4 |-> [name |-> <<"T", i>>, value |-> Fixed(v[i], 2)]]
M200Energies(v) ==
  Reading("m200", <<15, 0, 4, 3, 2, 1>> \o FiveWords(v),
    Pair("Address", Unsigned(<<1, 2, 3, 4>>)) \o Tariffs(v) \o Pair("Total", Fixed(v[5], 2)))
IecEnergies(v) ==
  Reading("iec61107", <<0, 0, 7, 3>> \o FiveWords(<<v[5]>> \o v),
    Pair("device", Num(3)) \o Tariffs(v) \o Pair("Total", Fixed(v[5], 2)))
M200Uip(v, a, p) ==
  Reading("m200", <<6, 0, 4, 3, 2, 1, Bcd(v \div 100), Bcd(v % 100), Bcd(a \div 100), Bcd(a % 100),
                    Bcd(p \div 10000), Bcd((p \div 100) % 100), Bcd(p % 100)>>,
    Pair("Address", Unsigned(<<1, 2, 3, 4>>)) \o Pair("Voltage", Fixed(v, 1)) \o Pair("Current", Fixed(a, 2)) \o
    Pair("Power", Num(p)))
Key == <<1, 35, 69, 103, 137, 171, 205, 239>>
Adc(v) ==
  Reading("adc", [i \in 1..16 |-> Reversed(BE16(v[(i + 1) \div 2]))[2 - (i % 2)]],
    [i \in 1..8 |-> [name |-> <<"adc", i>>, value |-> IF v[i] = 65535 THEN Word("null") ELSE Num(v[i])]])
mcMetered ==
  {Script(<<>>, <<M230Energies(0, 1), M230Energies(123456789, 2147483647), M230Energies(65536, 256)>>),
   Script(<<>>, <<M200Energies(<<0, 9, 10, 99, 118>>), M200Energies(<<2147483647, 65536, 256, 1, 0>>),
                  M200Uip(2304, 512, 65535), M200Uip(0, 5, 7)>>),
   Script(<<>>, <<IecEnergies(<<0, 9, 10, 99, 118>>), IecEnergies(<<16777216, 65536, 256, 1, 16843009>>)>>),
   Script(<<>>, <<Reading("ibutton", Reversed(Key), Pair("id", HexText(Key))),
                  Reading("pacs", <<17>> \o Reversed(Key), Pair("GRANTED", HexText(Key))),
                  Adc(<<0, 1, 65535, 256, 4095, 65534, 65535, 3>>),
                  Reading("4btn", <<3, 0>>, Pair("btn", Num(3)) \o Pair("state", Word("pressed")))>>)}

(***************************************************************************)
(* Frames and JSON of every module.  Shown is what the rest of the answer  *)
(* makes of it.                                                            *)
(***************************************************************************)
Other(type, bytes) ==
  [from |-> "mote1", module |-> unwds_modid_by_name(type), data |-> bytes, shows |-> <<>>]
Plain(verbs, nums) == [i \in DOMAIN verbs |-> C(verbs[i], <<>>, nums, 300)]
mcFrames ==
  {Script(AllTo("mote1", m[1], Plain(m[2], <<260, 3, 8, 4, 5>>)), <<>>) : m \in
     {<<"adc", <<"get", "set_period", "set_lines">>>>, <<"lmt01", <<"get", "set_period">>>>,
      <<"counter", <<"get", "reset", "period">>>>, <<"pulse", <<"get", "values", "coeff", "tamper">>>>,
      <<"hx711", <<"get", "scale", "zero", "period">>>>, <<"mhz19", <<"get", "set_period", "none">>>>,
      <<"light", <<"get", "set_i2c">>>>, <<"usound", <<"get">>>>, <<"echo", <<"get">>>>,
      <<"gps", <<"get">>>>, <<"switch", <<"period", "poll">>>>, <<"pwm", <<"set">>>>,
      <<"m200", <<"get_serial", "get_schedule", "set_address", "get_list", "reset", "get_uip">>>>,
      <<"dali", <<"init_rand", "init_single", "goto_scene", "store_fadetime", "query_fail", "off">>>>}} \cup
  {Script(AllTo("mote1", "gpio",
     <<C("set", <<>>, <<33, 0>>, 0), C("set", <<>>, <<33, 1>>, 0), C("toggle", <<>>, <<63>>, 0),
       C("get", <<>>, <<63>>, 0), C("get_all", <<>>, <<0>>, 0)>>), <<>>),
   Script(AllTo("mote1", "config",
     <<C("mod", <<"gps", "enable">>, <<>>, 0), C("mod", <<"number", "number">>, <<28, 0>>, 0),
       C("mod", <<"nothing", "disable">>, <<>>, 0), C("reboot", <<>>, <<>>, 0)>>), <<>>),
   Script(<<To("mote1", "wiegand", C("add", <<>>, <<5>>, 0)), To("mote1", "wiegand", C("reset", <<>>, <<>>, 0)),
            To("mote1", "pacs", C("add", <<>>, <<65536>>, 0)), To("mote1", "pacs", C("remove", <<>>, <<>>, 0)),
            To("mote1", "hd44780", [C("print", <<>>, <<1, 12>>, 0) EXCEPT !.text = Time]),
            To("mote1", "uart", [C("send", <<>>, <<>>, 0) EXCEPT !.text = Time]),
            To("mote1", "uart", C("set_baudrate", <<>>, <<266>>, 0)),
            To("mote1", "irblaster", [C("send", <<>>, <<>>, 0) EXCEPT !.text = Time])>>, <<>>),
   Script(AllTo("mote1", "m230",
     <<C("get_value", <<"month">>, <<12, 4>>, 1), C("get_value", <<"year">>, <<4>>, 1),
       C("set_power_limit", <<>>, <<167772>>, 1), C("set_energy_limit", <<>>, <<4, 2147483647>>, 1),
       C("get_energy_limit", <<>>, <<4>>, 1), C("iface", <<"can">>, <<>>, 1)>>), <<>>),
   Script(AllTo("mote1", "m200",
     <<C("get_value", <<"month">>, <<1>>, 1), C("get_time", <<"open">>, <<>>, 1), C("iface", <<"usb">>, <<>>, 1),
       [C("set_holidays", <<>>, <<>>, 1) EXCEPT !.points = <<[day |-> 31, month |-> 12], [day |-> 1, month |-> 1]>>]>>), <<>>),
   Script(AllTo("mote1", "iec61107",
     <<[C("set_holidays", <<"part_2">>, <<>>, 1) EXCEPT !.points = <<[day |-> 31, month |-> 12, sch |-> 7]>>],
       C("get_value", <<"day">>, <<>>, 1), [C("add", <<>>, <<>>, 1) EXCEPT !.text = Time],
       C("find", <<"device">>, <<>>, 3)>>), <<>>),
   Script(AllTo("mote1", "modbus",
     <<C("file_read", <<>>, <<7, 6, 4, 1, 2>>, 1), C("file_write", <<>>, <<11, 6, 4, 1, 2, 258, 772>>, 1),
       C("write_mult_coils", <<>>, <<19, 10, 2, 205, 1>>, 1), [C("pack", <<>>, <<>>, 0) EXCEPT !.text = Time],
       C("get_info", <<>>, <<14, 1, 256>>, 1), C("read_inputs", <<>>, <<196, 22, 5>>, 257),
       C("get_fifo", <<>>, <<1246>>, 1), C("write_mask", <<>>, <<4, 242, 37>>, 1),
       C("write_mult_coils", <<>>, <<0, 472, 59>> \o [i \in 1..59 |-> i], 1), C("file_read", <<>>, <<255, 6, 4, 1, 2>>, 1)>>), <<>>)}

mcJson ==
  {Script(<<>>, <<Other("uart", <<1, 18, 52>>), Other("uart", <<1, 18, 225>>), Other("uart", <<1, 5>>),
                  Other("uart", <<1>>), Other("uart", <<7>>)>>),
   Script(<<>>, <<Other("m230", <<16, 0, 1, 255, 255, 255, 255, 255, 255>>), Other("m230", <<5, 0, 1, 0, 1, 2, 3, 1, 2, 13>>),
                  Other("m230", <<19, 0, 1, 7, 0, 2>>), Other("m230", <<24, 0, 1, 0, 0, 7>>)>>),
   Script(<<>>, <<Other("m200", <<252, 0, 1, 2, 3, 4, 255, 255, 255, 255>>), Other("m200", <<8, 0, 4, 3, 2, 1, 0, 9>>),
                  Other("m200", <<4, 0, 4, 3, 2, 1, 8>>), Other("m200", <<21, 0, 4, 3, 2, 1, 0, 1, 2, 3, 4, 5>>)>>),
   Script(<<>>, <<Other("iec61107", <<0, 0, 12, 1, 48, 46, 53>>), Other("iec61107", <<0, 0, 12, 1, 50, 50, 48>>),
                  Other("iec61107", <<0, 0, 16, 1, 18, 76, 7>>), Other("iec61107", <<0, 0, 3, 1, 48, 49, 46, 48, 55, 46, 49, 49>>)>>),
   Script(<<>>, <<Other("dali", <<165, 11, 0>>), Other("dali", <<165, 11, 255>>), Other("dali", <<144, 129, 36>>),
                  Other("dali", <<147, 11, 255>>), Other("dali", <<153, 11, 6>>), Other("dali", <<241, 0, 2>>)>>),
   Script(<<>>, <<Other("modbus", <<1, 131, 2>>), Other("modbus", <<1, 3, 2, 0, 9>>), Other("wiegand", <<5, 1, 2, 3, 4, 5, 6, 7>>),
                  Other("hx711", <<0, 1, 2, 3, 255, 0, 0, 0, 0>>), Other("pir", <<1, 2>>), Other("inclinometer", <<1>>)>>)}

(***************************************************************************)
(* Ways: topics, settings, motes without the module, addresses.            *)
(***************************************************************************)
GetLoad(dest) == C("get_load", <<>>, <<>>, dest)
mcTopics ==
  <<To("*", "m230", GetLoad(1)), To("mote2", "dali", L("query_max", <<>>, "dev", 5)),
    Publish(<<"gate", "channel">>, C("set", <<>>, <<1>>, 0), 0), Publish(<<"get">>, Base, 0),
    To("mote1", "meteo", C("get", <<>>, <<>>, 0)), To("mote1", "m230", [GetLoad(2) EXCEPT !.words = <<"x">>])>>
mcSepio ==
  <<Publish(<<"mote1", "mosi", "m230">>, GetLoad(1), 0), Publish(<<"mote2", "mosi", "m230">>, GetLoad(1), 0),
    Publish(<<"mote1", "m230">>, GetLoad(3), 0), Publish(<<"mote1", "miso", "m230">>, GetLoad(4), 0)>>
mcShort == <<To("zero", "m230", C("set_load", <<"off">>, <<>>, 1)), To("other", "m230", GetLoad(1)),
             Publish(<<"mote1", "m230">>, GetLoad(5), 3)>>
mcWays ==
  {Configured(Script(mcTopics, <<Meteo(-1, 5, 760)>>), qos, FALSE) : qos \in {1, 2}} \cup
  {Configured(Script(<<To("mote1", "m230", GetLoad(1)), To("mote2", "m230", GetLoad(2))>>,
                     <<Meteo(-1, 5, 760)>>), 0, FALSE)} \cup
  {Configured(Script(mcSepio, <<Meteo(-1, 5, 760)>>), qos, TRUE) : qos \in {0, 1}} \cup
  {Script(mcShort, <<>>)}

mcScenarios ==
  mcM230 \cup mcM200 \cup mcIec \cup mcDali \cup mcModbus \cup mcReadings \cup mcPulse \cup
  mcMetered \cup mcFrames \cup mcJson \cup mcWays
=============================================================================
