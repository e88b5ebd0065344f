----------------------------- MODULE MoteTraffic -----------------------------
(***************************************************************************)
(* Commands from MQTT clients to the devices of motes, and answers and     *)
(* readings back to MQTT: my_message_callback, the codecs, the REPLY_IND   *)
(* branch of serve_reply and what it publishes.  The way through the pool  *)
(* of pending messages, the UART and the kernel queue is PendingPool's and *)
(* GateUart's; here frames reach a mote, and lines the program, in order.  *)
(***************************************************************************)
EXTENDS Motes, Functions

CONSTANTS
  Scenarios,     \* what clients publish and motes report by themselves, and the settings
  Equipped,      \* the modules of each mote
  Underway       \* a bound: clients and motes wait while so much is on its way
ASSUME UnderwayAssumption == Underway \in Nat \ {0}
ASSUME ScenariosAssumption ==
  \A s \in Scenarios :
    /\ s.config.qos \in 0..2 /\ s.config.sepio \in BOOLEAN
    /\ s.messages \in Seq(Range(s.messages))
    /\ \A m \in Range(s.messages) : m.mid \in Nat /\ m.own = FALSE /\ Whole(m.command)

MotesOfGate == DOMAIN HexAddress   \* a mote goes by the level that names it
(* The gate writes an address in one way, and so do clients. *)
ASSUME SpellingAssumption ==
  \A a, b \in MotesOfGate : HexAddress[a] = HexAddress[b] => a = b
ASSUME EquippedAssumption == Equipped \in [MotesOfGate -> SUBSET ModuleNames]

VARIABLES
  config,        \* mqtt_qos, mqtt_sepio
  todo,          \* messages clients are still to publish
  reports,       \* readings motes are still to send
  inbox,         \* messages the broker holds for the program
  air,           \* per mote, the frames on their way to it
  cells,         \* per mote and module, what the devices keep
  answers,       \* lines on their way to the program
  published,     \* the last answer or reading published
  settings,      \* commands the gate itself was given
  told,          \* history: per mote and module, the last command about each thing
  owed           \* history: commands not answered yet

vars == <<config, todo, reports, inbox, air, cells, answers, published, settings, told, owed>>

(***************************************************************************)
(* What clients mean: the things a command sets, and the pairs a client    *)
(* expects to be shown for a query, after the commands `said' before.      *)
(***************************************************************************)
MonthsMeant(c) == IF c.words[1] = "year" THEN 1..12 ELSE {c.nums[1]}
DaysMeant(c, weekends, holidays) ==
  CASE c.words[2] = "all" -> 1..5 \cup weekends \cup holidays
    [] c.words[2] = "weekdays" -> 1..5 [] c.words[2] = "weekends" -> weekends
    [] c.words[2] = "holidays" -> holidays
    [] OTHER -> {c.nums[Len(c.nums)]}
M230Switches == DOMAIN M230Switch
Lamps(c, said) ==
  CASE c.to = "dev"       -> {c.dest} \cap Ballasts
    [] c.to = "broadcast" -> Ballasts
    [] c.to = "group"     -> {b \in Ballasts : /\ <<"group", b, c.dest>> \in DOMAIN said
                                               /\ said[<<"group", b, c.dest>>].verb = "add_group"}

Sets(type, c, said) ==
  CASE c.verb = "set_schedule" /\ type = "m230" ->
         {"schedule"} \X {c.dest} \X MonthsMeant(c) \X DaysMeant(c, {6, 7}, {8})
    [] c.verb = "set_schedule" /\ type = "m200" ->
         {"schedule"} \X {c.dest} \X MonthsMeant(c) \X DaysMeant(c, {0, 6}, {7})
    [] c.verb = "set_schedule" /\ type = "iec61107" -> {<<"schedule", c.dest, c.nums[1]>>}
    [] c.verb = "set_holidays" /\ type = "m230" ->
         {"holidays"} \X {c.dest} \X {day[2] : day \in c.days}
    [] c.verb \in {"set_timedate", "set_time"}   -> {<<"time", c.dest>>}
    [] c.verb = "set_number_tariffs"             -> {<<"tariffs", c.dest>>}
    [] c.verb \in M230Switches /\ type = "m230"  -> {<<c.verb, c.dest>>}
    [] type = "dali" /\ c.verb \in {"add_group", "remove_group"} ->
         {"group"} \X Lamps(c, said) \X {c.nums[1]}
    [] type = "dali" /\ c.verb = "store_scene"   -> {"scene"} \X Lamps(c, said) \X {c.nums[1]}
    [] type = "dali" /\ c.verb \in DOMAIN DaliLevelled \ {"store_scene"} ->
         {c.verb} \X Lamps(c, said)
    [] c.verb = "write_reg"                      -> {<<"register", c.dest, c.nums[1]>>}
    [] c.verb = "write_mult_regs" ->
         {"register"} \X {c.dest} \X (c.nums[1]..c.nums[1] + c.nums[2] - 1)
    [] OTHER                                     -> {}

PointsMeant(points) ==
  [i \in DOMAIN points |-> [name  |-> <<"T", points[i].tariff>>,
                            value |-> Fields(<<points[i].hour, points[i].min>>, ":")]]

M230Shows(c, said) ==
  LET n(place) == said[place].nums
      is(verb, word) == <<verb, c.dest>> \in DOMAIN said /\ said[<<verb, c.dest>>].words[1] = word
      either(name, b, yes, no) == Pair(name, Word(IF b THEN yes ELSE no))
      schedule == <<"schedule", c.dest, c.nums[1], c.nums[2]>>
      holidays == <<"holidays", c.dest, c.nums[1]>>
      days == SelectSeq([i \in 1..31 |-> i], LAMBDA i : <<i, c.nums[1]>> \in said[holidays].days)
      time == <<"time", c.dest>>
  IN  CASE c.verb = "get_schedule" ->
             <<IF schedule \in DOMAIN said THEN PointsMeant(said[schedule].points) ELSE <<>>>>
        [] c.verb = "get_holidays" ->
             <<Pair("Holidays", IF holidays \notin DOMAIN said THEN Word("None")
                                ELSE List([i \in DOMAIN days |-> Padded(days[i], 2)], TRUE))>>
        [] c.verb = "get_timedate" /\ time \in DOMAIN said ->
             <<Pair("Day", Word(M230Dow[n(time)[4]])) \o
               Pair("Time", Fields(SubSeq(n(time), 1, 3), ":")) \o
               Pair("Date", Fields(SubSeq(n(time), 5, 7), "/")) \o
               Pair("Season", Word(M230Season[n(time)[8] + 1]))>>
        [] c.verb = "get_load" ->
             <<either("Energy limit control", is("set_mode_energy_limit", "on"), "Allowed", "Not allowed") \o
               either("Power limit control", is("set_mode_power_limit", "on"), "Allowed", "Not allowed") \o
               either("Pulse output mode", is("set_mode_pulse", "load"), "Load", "Telemetry") \o
               either("Load control", is("set_load", "off"), "Off", "On")>>
        [] OTHER -> <<>>

M200Shows(c, said) ==
  LET schedule == <<"schedule", c.dest, c.nums[1], c.nums[2]>>
      time == <<"time", c.dest>>
      tariffs == <<"tariffs", c.dest>>
      n == said[time].nums
  IN  CASE c.verb = "get_schedule" ->
             <<PointsMeant(IF schedule \in DOMAIN said THEN said[schedule].points
                           ELSE <<[tariff |-> 1, hour |-> 0, min |-> 0]>>)>>
        [] c.verb = "get_timedate" /\ time \in DOMAIN said ->
             <<Pair("Day", Word(M200Dow[n[1] + 1])) \o Pair("Time", Fields(SubSeq(n, 2, 4), ":")) \o
               Pair("Date", Fields(SubSeq(n, 5, 7), "/"))>>
        [] c.verb = "get_number_tariffs" ->
             <<Pair("Tariffs", Num(IF tariffs \in DOMAIN said THEN said[tariffs].nums[1] ELSE 1))>>
        [] OTHER -> <<>>

(* The meter has twelve points; those not set are shown as tariff 0.  Of a *)
(* list that the command counted wrong nothing is expected.                *)
CountedRight(c) == Len(c.points) = (IecTextLen(c) + 8) \div 9
IecShows(c, said) ==
  LET schedule == <<"schedule", c.dest, c.nums[1]>>
      time == <<"time", c.dest>>
      none == [i \in 1..12 |-> [tariff |-> 0, hour |-> 0, min |-> 0]]
  IN  CASE c.verb = "get_schedule" /\ schedule \in DOMAIN said /\ CountedRight(said[schedule]) ->
             LET points == said[schedule].points
             IN  <<PointsMeant(points \o SubSeq(none, Len(points) + 1, 12))>>
        [] c.verb = "get_time" /\ time \in DOMAIN said -> <<Pair("time", Chars(said[time].text))>>
        [] OTHER -> <<>>

DaliShows(c, said) ==
  LET percent(place) == Num(said[place].nums[Len(said[place].nums)])
      level(name, verb) ==
        IF <<verb, c.dest>> \in DOMAIN said THEN <<Pair(name, percent(<<verb, c.dest>>))>> ELSE <<>>
      scene == <<"scene", c.dest, c.nums[1]>>
      in(g) == <<"group", c.dest, g>> \in DOMAIN said /\ said[<<"group", c.dest, g>>].verb = "add_group"
      groups(name, range) ==
        LET s == SelectSeq(range, in)
        IN  <<Pair(name, IF s = <<>> THEN Word("not belong") ELSE List([i \in DOMAIN s |-> Num(s[i])], TRUE))>>
  IN  CASE c.to # "dev" \/ c.dest \notin Ballasts -> <<>>
        [] c.verb = "query_max"         -> level("max level", "store_max")
        [] c.verb = "query_min"         -> level("min level", "store_min")
        [] c.verb = "query_power_on"    -> level("power on level", "store_power_on")
        [] c.verb = "query_sys_fail"    -> level("system failure level", "store_sys_fail")
        [] c.verb = "query_actual"      -> level("actual level", "set_power")
        [] c.verb = "query_scene_level" ->
             <<PairAt("scene level", c.nums[1], IF scene \in DOMAIN said THEN percent(scene) ELSE Word("not set"))>>
        [] c.verb = "query_group_7"     -> groups("groups 0-7", <<0, 1, 2, 3, 4, 5, 6, 7>>)
        [] c.verb = "query_group_15"    -> groups("groups 8-15", <<8, 9, 10, 11, 12, 13, 14, 15>>)
        [] OTHER -> <<>>

(* What was written to a register by write_mult_regs starts at the fourth  *)
(* number of the command.                                                  *)
ModbusShows(c, said) ==
  LET value(r) ==
        LET place == <<"register", c.dest, r>>
        IN  CASE place \notin DOMAIN said -> 0
              [] place \in DOMAIN said /\ said[place].verb = "write_reg" -> said[place].nums[2]
              [] OTHER -> said[place].nums[4 + r - said[place].nums[1]]
  IN  IF c.verb # "read_hold_reg" THEN <<>>
      ELSE <<Pair("data", HexText(<<2 * c.nums[2]>> \o
                                    Words([i \in 1..c.nums[2] |-> value(c.nums[1] + i - 1)])))>>

Shows(type, c, said) ==
  LET from(device, shows) == IF shows = <<>> THEN <<>> ELSE <<device \o shows[1]>>
      after(name, shows) == from(Pair(name, Num(c.dest)), shows)
  IN  CASE type = "m230"     -> after("Address", M230Shows(c, said))
        [] type = "m200"     -> from(Pair("Address", Unsigned(BE32(c.dest))), M200Shows(c, said))
        [] type = "iec61107" -> after("device", IecShows(c, said))
        [] type = "dali"     -> after("address", DaliShows(c, said))
        [] type = "modbus"   -> after("address", ModbusShows(c, said))
        [] OTHER             -> <<>>

(***************************************************************************)
(* The program and its surroundings.                                       *)
(***************************************************************************)
NoMessage == <<>>
Unpublished == [to |-> "", topic |-> "", message |-> build_mqtt_message(<<>>, ""),
                pairs |-> <<>>, asked |-> NoMessage, shows |-> <<>>]

Init ==
  \E s \in Scenarios :
    /\ config = s.config /\ todo = s.messages /\ reports = s.reports
    /\ inbox = <<>> /\ answers = <<>> /\ published = Unpublished /\ settings = <<>>
    /\ air = [mote \in MotesOfGate |-> <<>>]
    /\ cells = [mote \in MotesOfGate |-> [type \in ModuleNames |-> Nothing]]
    /\ told = [mote \in MotesOfGate |-> [type \in ModuleNames |-> Nothing]]
    /\ owed = {}

(* A client expects an answer to a command that it sends without a packet  *)
(* identifier to a mote.                                                   *)
Type(m) == TypeLevel(m, config.sepio)
Expects(m) ==
  /\ m.mid = 0 /\ Level(m, 3) \in MotesOfGate /\ HexAddress[Level(m, 3)][1] # 0
  /\ Type(m) \in ModuleNames \ WithoutCommands
  /\ config.sepio => Level(m, 4) = "mosi"

Busy == Len(inbox) + Len(answers) + SumFunction([mote \in MotesOfGate |-> Len(air[mote])]) >= Underway

ClientPublishes ==
  /\ todo # <<>> /\ ~Busy
  /\ inbox' = Append(inbox, Head(todo)) /\ todo' = Tail(todo)
  /\ owed' = owed \cup {m \in {Head(todo)} : Expects(m)}
  /\ UNCHANGED <<config, reports, air, cells, answers, published, settings, told>>

(* Mutant: every message is broadcast but those that should be. *)
ReachesOthers(mote, m) == IF Level(m, 3) = "*" THEN <<>> ELSE PayloadOf(m, config.sepio)

(* The line to the gate begins with the address, or is for every mote; the *)
(* gate takes eight bytes for the address and the rest for the frame.      *)
Reaches(mote, m) ==
  LET line == TrimmedAddress(HexAddress[Level(m, 3)]) \o PayloadOf(m, config.sepio)[1]
  IN  CASE PayloadOf(m, config.sepio) = <<>> -> <<>>
        [] PayloadOf(m, config.sepio) # <<>> /\ Level(m, 3) = "*" -> PayloadOf(m, config.sepio)
        [] OTHER -> IF SubSeq(line, 1, 8) = HexAddress[mote] THEN <<From(line, 8)>> ELSE <<>>

my_message_callback ==
  /\ inbox # <<>>
  /\ LET m == Head(inbox)
     IN  /\ settings' = settings \o (IF ListAsked(m) THEN <<"list">> ELSE <<>>) \o SettingOf(m)
         /\ air' = [mote \in MotesOfGate |->
                      air[mote] \o [i \in DOMAIN Reaches(mote, m) |->
                                      [frame |-> Reaches(mote, m)[i], asked |-> m]]]
  /\ inbox' = Tail(inbox)
  /\ UNCHANGED <<config, todo, reports, cells, answers, published, told, owed>>

MoteHears(mote) ==
  /\ air[mote] # <<>>
  /\ LET m == Head(air[mote]).asked
         type == Type(m)
         heard == Hears(Equipped[mote], Head(air[mote]).frame, cells[mote])
         meant == Level(m, 3) \in {"*", mote} /\ type \in Equipped[mote] /\ ~m.own
         said == told[mote][type]
         shows == IF meant THEN Shows(type, m.command, said) ELSE <<>>
     IN  /\ cells' = [cells EXCEPT ![mote] = heard.kept]
         /\ answers' = Append(answers, [from |-> mote, module |-> heard.module, data |-> heard.data,
                                        asked |-> <<m>>, shows |-> shows])
         /\ told' = IF ~meant THEN told
                    ELSE [told EXCEPT ![mote][type] =
                            Over([thing \in Sets(type, m.command, said) |-> m.command], said)]
  /\ air' = [air EXCEPT ![mote] = Tail(@)]
  /\ UNCHANGED <<config, todo, reports, inbox, published, settings, owed>>

MoteReports ==
  /\ reports # <<>> /\ ~Busy
  /\ LET r == Head(reports)
     IN  answers' = Append(answers, [from |-> r.from, module |-> r.module, data |-> r.data,
                                     asked |-> NoMessage, shows |-> r.shows])
  /\ reports' = Tail(reports)
  /\ UNCHANGED <<config, todo, inbox, air, cells, published, settings, told, owed>>

(* Mutant: a module that was not found is looked up like any other. *)
ConvertedAnyhow(modid, moddata) == convert_to(modid, moddata)

(* The REPLY_IND branch: none or one topic with its pairs. *)
Converted(modid, moddata) ==
  IF modid = UNWDS_MODULE_NOT_FOUND
  THEN <<[topic |-> "device", pairs |-> Pair("error", Numbered("module ID", At(moddata, 0)))]>>
  ELSE convert_to(modid, moddata)

Published(mote, topic) ==
  IF config.sepio THEN <<"devices", "lora", mote, "miso", topic>>
  ELSE <<"devices", "lora", mote, topic>>

(* Mutant: the program publishes with a quality of service of its own. *)
publish_mqtt_message_zero(mote, topic) ==
  [levels  |-> Published(mote, topic),
   command |-> [verb |-> "json"], mid |-> 0, own |-> TRUE]

(* The program is subscribed to what it publishes.  The broker numbers     *)
(* what it delivers with a quality of service above 0; no codec takes the  *)
(* published text for a command.                                           *)
publish_mqtt_message(mote, topic) ==
  [levels  |-> Published(mote, topic),
   command |-> [verb |-> "json"], mid |-> IF config.qos = 0 THEN 0 ELSE 1, own |-> TRUE]

serve_reply ==
  /\ answers # <<>>
  /\ LET a == Head(answers)
         made == Converted(a.module, a.data)
     IN  /\ published' = IF made = <<>> THEN published
                         ELSE LET r == made[1]
                              IN  [to |-> a.from, topic |-> r.topic, pairs |-> r.pairs,
                                   message |-> build_mqtt_message(r.pairs, a.from),
                                   asked |-> a.asked, shows |-> a.shows]
         /\ inbox' = inbox \o [i \in DOMAIN made |-> publish_mqtt_message(a.from, made[i].topic)]
         /\ owed' = IF made = <<>> THEN owed
                    ELSE {m \in owed : a.asked # <<m>>}
  /\ answers' = Tail(answers)
  /\ UNCHANGED <<config, todo, reports, air, cells, settings, told>>

Next ==
  \/ ClientPublishes \/ my_message_callback \/ MoteReports \/ serve_reply
  \/ \E mote \in MotesOfGate : MoteHears(mote)

Spec == Init /\ [][Next]_vars

(* The program goes on serving what has arrived, and motes what they hear: *)
(* no queue is left alone for ever.  Each is shortened by one action only, *)
(* which its not being empty is all that enables.                          *)
FromInbox == inbox # <<>> /\ inbox' = Tail(inbox)
FromAnswers == answers # <<>> /\ answers' = Tail(answers)
FromAir(mote) == air[mote] # <<>> /\ air' = [air EXCEPT ![mote] = Tail(@)]
FairSpec ==
  /\ Spec
  /\ WF_inbox(FromInbox) /\ WF_answers(FromAnswers)
  /\ \A mote \in MotesOfGate : WF_air(FromAir(mote))

(***************************************************************************)
(* Properties.                                                             *)
(***************************************************************************)
Quiet == inbox = <<>> /\ answers = <<>> /\ \A mote \in MotesOfGate : air[mote] = <<>>

(* Types: every queue holds what its reader expects, and the broker holds  *)
(* own messages without an identifier only when qos is 0.                  *)
TypeOK ==
  /\ config.qos \in 0..2 /\ config.sepio \in BOOLEAN
  /\ \A i \in DOMAIN inbox : /\ inbox[i].mid \in Nat
                             /\ inbox[i].own => (inbox[i].mid = 0 <=> config.qos = 0)
  /\ \A mote \in MotesOfGate : \A i \in DOMAIN air[mote] :
       Len(air[mote][i].frame) > 0 /\ ForLora(air[mote][i].asked)
  /\ \A i \in DOMAIN answers :
       answers[i].from \in MotesOfGate /\ {answers[i].module} \cup Range(answers[i].data) \subseteq Byte
  /\ published = Unpublished \/ published.to \in MotesOfGate
  /\ \A m \in owed : Expects(m)

(* What a client is shown of a device is what the commands before said,    *)
(* and what it left the factory with where they said nothing: the numbers  *)
(* survive their way into the frame, to the right place of the right       *)
(* device, and back through the answer.                                    *)
ShownAsMeant(type) ==
  published.topic = type /\ published.asked # NoMessage /\ published.shows # <<>>
    => published.pairs = published.shows[1]

(* Mercury 230: umdk_m230_command and umdk_m230_reply agree about points,  *)
(* months, days, holidays, time and switches.                              *)
M230ReadBack == ShownAsMeant("m230")

(* Mercury 200: the same of points, time and tariffs, for addresses of     *)
(* four bytes that change their order twice.                               *)
M200ReadBack == ShownAsMeant("m200")

(* CE102M: schedules of twelve points and the time.  A list comes whole    *)
(* when its numbers have two digits: the loop that makes it counts nine    *)
(* characters for each item, so IecShows expects nothing of other lists.   *)
IecReadBack == ShownAsMeant("iec61107")

(* DALI levels are stored on a logarithmic scale: a percent comes back     *)
(* with an error of at most 2, the actual level of 4; groups and scenes    *)
(* come back as they are.                                                  *)
DaliReadBack ==
  published.topic = "dali" /\ published.shows # <<>> =>
    LET shown == published.pairs
        meant == published.shows[1]
        error(i) == IF shown[i].name = <<"actual level">> THEN 4 ELSE 2
        near(v, w, e) == \/ v = w
                         \/ Is("num", v) /\ Is("num", w) /\ Abs(v.num - w.num) <= e
    IN  /\ Len(shown) = Len(meant)
        /\ \A i \in DOMAIN shown : /\ shown[i].name = meant[i].name
                                   /\ near(shown[i].value, meant[i].value, IF i = 1 THEN 0 ELSE error(i))

(* Modbus registers, one by one and several at once.                       *)
ModbusReadBack == ShownAsMeant("modbus")

(* A reading is published as the sensor measured it, below zero, at zero   *)
(* and at the ends of its range, and not by a mote or topic of another.    *)
ReadingsTrue ==
  published.asked = NoMessage /\ published.shows # <<>> /\ published.topic # "pulse"
    => published.pairs = published.shows[1]

(* The history of a pulse counter is published as it was counted: "now     *)
(* history[i] holds absolute values for counter i" (umdk-pulse.c:188).     *)
(* Both bytes of an hour's difference are taken from the first (174), so   *)
(* the code keeps this only if they are the same.                          *)
PulseHistoryTrue ==
  published.topic = "pulse" /\ published.shows # <<>> =>
    \A i \in DOMAIN published.shows[1] :
      LET meant == published.shows[1][i].value
      IN  Is("items", meant) => published.pairs[i].value = meant

(* What a mote hears was meant for it, and what is published under a mote  *)
(* and a module is the answer of that mote and module, be it that it has   *)
(* no such module.  Addresses that begin with a zero byte are the          *)
(* exception: message_to_mote prints them too short (mqtt.c:1145).         *)
Misprinted(m) == Level(m, 3) # "*" /\ HexAddress[Level(m, 3)][1] = 0
ReachesItsMote ==
  /\ \A mote \in MotesOfGate : \A i \in DOMAIN air[mote] :
       LET m == air[mote][i].asked IN Misprinted(m) \/ Level(m, 3) \in {"*", mote}
  /\ \A m \in Range(published.asked) :
       \/ Misprinted(m)
       \/ /\ Level(m, 3) \in {"*", published.to}
          /\ published.topic = IF Type(m) \in Equipped[published.to] THEN Type(m) ELSE "device"

(* The gate does not take what it published itself for a command (comment  *)
(* at mqtt.c:1181), unless the quality of service is 0 and sepio is off.   *)
OwnNotObeyed ==
  config.qos > 0 \/ config.sepio =>
    \A mote \in MotesOfGate : \A i \in DOMAIN air[mote] : ~air[mote][i].asked.own

(* A frame is whole bytes, every one of them set by the codec.  Known      *)
(* exceptions: M200 remove of an address whose low byte is below 10 hex,   *)
(* M200 iface and M230 mode_tariff with another word, the space in wiegand *)
(* frames, CE102M lists counted wrong.                                     *)
Ragged(type, c) ==
  \/ type = "m200" /\ c.verb = "remove" /\ (c.dest % 256) < 16
  \/ type = "m200" /\ c.verb = "iface" /\ c.words[1] \notin {"can", "485"}
  \/ type = "m230" /\ c.verb = "set_mode_tariff" /\ c.words[1] \notin {"one", "multi"}
  \/ type = "wiegand" /\ c.verb \in {"add", "remove"}
  \/ type = "iec61107" /\ c.verb \in {"set_schedule", "set_holidays"} /\ ~CountedRight(c)
FramesWhole ==
  \A mote \in MotesOfGate : \A i \in DOMAIN air[mote] :
    LET m == air[mote][i].asked
    IN  Range(air[mote][i].frame) \subseteq Byte \/ Misprinted(m) \/ Ragged(Type(m), m.command)

(* What is published is JSON: the data is closed, numbers that go without  *)
(* quotes are numbers of JSON.  Known exception: lists of items that each  *)
(* end in a comma.                                                         *)
EndsInComma(pair) == Is("items", pair.value) /\ pair.value.trailing
PublishedIsJson ==
  LegalJson([published.message EXCEPT !.data = SelectSeq(@, LAMBDA pair : ~EndsInComma(pair))])

(* Every command a client sends without a packet identifier to a mote is   *)
(* answered.  One with an identifier (published with quality of service 1  *)
(* or 2) is taken for the gate's own and dropped (mqtt.c:1183).            *)
CommandAnswered == (owed # {}) ~> (owed = {})

(* The gate's own publications do not keep gate and motes busy for ever:   *)
(* once clients and motes have nothing more to say there is quiet, unless  *)
(* the quality of service is 0 and sepio is off.                           *)
Settles == (config.qos > 0 \/ config.sepio) => <>[]Quiet
=============================================================================
