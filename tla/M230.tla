-------------------------------- MODULE M230 --------------------------------
(***************************************************************************)
(* Mercury 230 electricity meters (src/modules/umdk-m230.c): commands of   *)
(* MQTT clients to frames for the mote, the mote's answers to pairs.       *)
(* A command is its verb (spaces written _), the words and the numbers     *)
(* that follow it, each in the order of the text, and the address of the   *)
(* meter, dest, which ends the text.                                       *)
(***************************************************************************)
EXTENDS MqttMessage

M230_ERROR_CMD == \hFF
M230Error == <<M230_ERROR_CMD>>

(* code, register: the meter's address goes between them. *)
M230Query ==
  [get_long_time   |-> <<\h17, \h24>>, get_timedate |-> <<\h04, \h00>>,
   get_serial      |-> <<\h05, \h00>>, get_soft     |-> <<\h13, \h03>>,
   get_error       |-> <<\h10, \h0A>>, get_info     |-> <<\h15, \h01>>,
   get_version     |-> <<\h11, \h12>>, get_load     |-> <<\h08, \h18>>,
   get_power_limit |-> <<\h18, \h19>>, get_mode_tariff |-> <<\h0F, \h17>>]

(* code, register, and the byte each word stands for *)
M230Switch ==
  [set_mode_pulse        |-> <<\h12, \h30, [load |-> 1, telemetry |-> 0]>>,
   set_load              |-> <<\h07, \h31, [on |-> 0, off |-> 1]>>,
   set_mode_power_limit  |-> <<\h0B, \h2D, [on |-> 1, off |-> 0]>>,
   set_mode_energy_limit |-> <<\h0D, \h2F, [on |-> 1, off |-> 0]>>,
   set_mode_tariff       |-> <<\h0E, \h2A, [one |-> 1, multi |-> 0]>>]

M230Period == [total |-> \h00, current_year |-> \h10, last_year |-> \h20,
               month |-> \h30, current_day |-> \h40, last_day |-> \h50]

M230Days == [all |-> \h0F, weekdays |-> \h0E, weekends |-> \h0D, holidays |-> \h0C]

M230_ALL_YEAR == \h0F
M230_BEGIN_ADDR_SCHEDULE == \h1000
M230_OFFSET_SCHEDULE == \h11
UMDK_M230_BEGIN_ADDR_HOLIDAYS == \h1D00
UMDK_M230_OFFSET_HOLIDAYS == 5

(* get value: period, tariff; only a month is followed by its number *)
M230GetValue(c) ==
  IF c.words[1] \in DOMAIN M230Period
  THEN LET isMonth == c.words[1] = "month"
           month == M230Period[c.words[1]] + (IF isMonth THEN c.nums[1] ELSE 0)
       IN  <<\h03, c.dest, month, c.nums[Len(c.nums)]>>
  ELSE M230Error

(* An unknown word is refused, except by set mode_tariff, which then sends *)
(* the byte it never set.                                                  *)
M230SetSwitch(c) ==
  LET entry == M230Switch[c.verb]
      frame(mode) == <<entry[1], c.dest, entry[2], mode>>
  IN  CASE c.words[1] \in DOMAIN entry[3] -> frame(entry[3][c.words[1]])
        [] c.words[1] \notin DOMAIN entry[3] /\ c.verb = "set_mode_tariff" -> frame(Unset)
        [] OTHER -> M230Error

(* hour, min, sec, dow, day, month, year, season *)
M230SetTimedate(c) ==
  LET n == c.nums
  IN  <<\h06, c.dest, \h0C>> \o
         [i \in 1..8 |-> Bcd(<<n[3], n[2], n[1], n[4], n[5], n[6], n[7], n[8]>>[i])]

M230SetPowerLimit(c) ==
  LET limit == (c.nums[1] * 100) % 2^24
  IN  <<\h0A, c.dest, \h2C, limit \div 65536>> \o BE16(limit % 65536)

M230SetEnergyLimit(c) ==
  <<\h0C, c.dest, \h2E, U8(c.nums[1])>> \o BE32(c.nums[2])

(* The holidays of a month are one cell of the meter's memory, the points  *)
(* of a month and a kind of day another: both are asked for by address.    *)
M230HolidaysAddr(month) ==
  UMDK_M230_BEGIN_ADDR_HOLIDAYS + (month - 1) * UMDK_M230_OFFSET_HOLIDAYS
(* Mutant: the day is counted from 1. *)
M230ScheduleAddrFromOne(month, day) ==
  M230_BEGIN_ADDR_SCHEDULE + M230_OFFSET_SCHEDULE * 2 * U8(8 * (month - 1) + day)
M230ScheduleAddr(month, day) ==
  M230_BEGIN_ADDR_SCHEDULE +
    M230_OFFSET_SCHEDULE * 2 * U8(8 * (month - 1) + (day - 1))

M230GetHolidays(c) ==
  <<\h1C, c.dest, \h02>> \o BE16(M230HolidaysAddr(c.nums[1])) \o <<4>>
M230GetSchedule(c) ==
  <<\h1A, c.dest, \h02>> \o BE16(M230ScheduleAddr(c.nums[1], c.nums[2])) \o <<16>>

(* c.days: the set of <<day, month>> given.  Months without one are left   *)
(* out; the others come in order, each with a bit for every day.  A word   *)
(* in the list is refused.                                                 *)
M230MonthMask(days, month) ==
  LET bit[d \in 0..31] ==
        IF d = 0 THEN 0
        ELSE bit[d - 1] + (IF <<d, month>> \in days THEN 2^(d - 1) ELSE 0)
  IN  bit[31]
M230SetHolidays(c) ==
  LET item(m) == IF M230MonthMask(c.days, m) = 0 THEN <<>>
                 ELSE <<m>> \o BE32(M230MonthMask(c.days, m))
      upto[m \in 0..12] == IF m = 0 THEN <<>> ELSE upto[m - 1] \o item(m)
  IN  IF c.words = <<>> THEN <<\hF2, c.dest, \h02>> \o upto[12] ELSE M230Error

(* c.points: tariff, hour and minute of each point; a place not given      *)
(* holds a point no clock shows.                                           *)
M230NoPoint == <<\h00, \h38>>
M230Point(p) == <<p.min, 32 * p.tariff + p.hour>>
M230SetSchedule(c) ==
  LET month == IF c.words[1] = "year" THEN M230_ALL_YEAR ELSE c.nums[1]
      day   == IF c.words[2] = "day" THEN c.nums[Len(c.nums)] ELSE M230Days[c.words[2]]
      point(i) == IF i \in DOMAIN c.points THEN M230Point(c.points[i]) ELSE M230NoPoint
  IN  IF /\ c.words[1] \in {"year", "month"}
         /\ c.words[2] \in DOMAIN M230Days \cup {"day"}
      THEN <<\hF1, c.dest, \h02, U8(16 * month + day)>> \o
              [i \in 1..16 |-> point((i + 1) \div 2)[2 - (i % 2)]]
      ELSE M230Error

umdk_m230_command(c) ==
  CASE c.verb \in DOMAIN M230Query ->
         <<M230Query[c.verb][1], c.dest, M230Query[c.verb][2]>>
    [] c.verb \in DOMAIN M230Switch  -> M230SetSwitch(c)
    [] c.verb = "get_value"          -> M230GetValue(c)
    [] c.verb = "set_timedate"       -> M230SetTimedate(c)
    [] c.verb = "set_power_limit"    -> M230SetPowerLimit(c)
    [] c.verb = "set_energy_limit"   -> M230SetEnergyLimit(c)
    [] c.verb = "get_energy_limit"   -> <<\h19, c.dest, \h1A, c.nums[1]>>
    [] c.verb = "get_holidays"       -> M230GetHolidays(c)
    [] c.verb = "set_holidays"       -> M230SetHolidays(c)
    [] c.verb = "get_schedule"       -> M230GetSchedule(c)
    [] c.verb = "set_schedule"       -> M230SetSchedule(c)
    [] c.verb = "iface"              ->
         <<\hFA, CASE c.words[1] = "can" -> 2 [] c.words[1] = "485" -> 1 [] OTHER -> 0>>
    [] OTHER                         -> M230Error

(***************************************************************************)
(* Answers.  moddata[1] is the meter's status, moddata[2] its address.     *)
(***************************************************************************)
M230Msg(w) == Pair("msg", Word(w))

M230OneByte ==
  [b \in Byte |-> CASE b = \h00 -> M230Msg("ok") [] b = \hF0 -> M230Msg("error")
                   [] b = \hFF -> M230Msg("invalid command") [] OTHER -> <<>>]

M230Status ==
  [b \in Byte |->
     CASE b = \h00 -> M230Msg("ok")               [] b = \hF0 -> M230Msg("error")
       [] b = \hF2 -> M230Msg("no response")      [] b = \hF3 -> M230Msg("device not found")
       [] b \in {\h05, \hF4} -> M230Msg("offline")
       [] b = \h01 -> M230Msg("invalid parameter") [] b = \h02 -> M230Msg("internal error")
       [] b = \h03 -> M230Msg("access error")     [] b = \h04 -> M230Msg("time already corrected")
       [] b = \hF5 -> M230Msg("please wait")      [] OTHER -> <<>>]

(* The meter's words have the order 2, 1, 4, 3; the reverse counters may   *)
(* be absent, all ones.                                                    *)
M230Energy(d, i) == Word32(At(d, i + 1), At(d, i), At(d, i + 3), At(d, i + 2))
M230Value(d) ==
  LET absent(i) == \A j \in 0..3 : At(d, i + j) = \hFF
      shown(i)  == Fixed(M230Energy(d, i), 3)
  IN  Pair("A+", shown(3)) \o
      Pair("A-", IF absent(7) THEN Word("N/A") ELSE shown(7)) \o
      Pair("R+", shown(11)) \o
      Pair("R-", IF absent(15) THEN Word("N/A") ELSE shown(15))

M230Dow == <<"Mon", "Tue", "Wed", "Thu", "Fri", "Sat", "Sun", "Hol">>
M230Season == <<"Summer", "Winter">>
M230Timedate(d) ==
  LET time(i) == FromBcd(At(d, i + 3))
  IN  Pair("Day", Word(M230Dow[time(3)])) \o
      Pair("Time", Fields(<<time(2), time(1), time(0)>>, ":")) \o
      Pair("Date", Fields(<<time(4), time(5), time(6)>>, "/")) \o
      Pair("Season", Word(M230Season[time(7) + 1]))

M230Load(d) ==
  LET flag(byte, bit, yes, no) == Word(IF Bit(At(d, byte), bit) = 1 THEN yes ELSE no)
  IN  Pair("Energy limit control", flag(3, 2, "Allowed", "Not allowed")) \o
      Pair("Power limit control", flag(3, 1, "Allowed", "Not allowed")) \o
      Pair("Pulse output mode", flag(3, 0, "Load", "Telemetry")) \o
      Pair("Load control", flag(4, 1, "Off", "On"))

(* One pair for each error bit of six bytes. *)
M230Errors(d) ==
  LET set == SelectSeq([i \in 1..48 |-> i],
                       LAMBDA i : Bit(At(d, (i - 1) \div 8 + 3), (i - 1) % 8) = 1)
  IN  IF set = <<>> THEN Pair("Error", Word("No"))
      ELSE [i \in DOMAIN set |-> [name |-> <<"Error">>, value |-> Numbered("E-", set[i])]]

(* The points the meter holds, each under its tariff. *)
M230Schedule(d) ==
  LET place(i) == <<At(d, 2 * i + 1), At(d, 2 * i + 2)>>
      held == SelectSeq([i \in 1..8 |-> place(i)], LAMBDA p : p # M230NoPoint)
  IN  [i \in DOMAIN held |->
         [name  |-> <<"T", held[i][2] \div 32>>,
          value |-> Fields(<<held[i][2] % 32, held[i][1]>>, ":")]]

M230Holidays(d) ==
  LET set == SelectSeq([i \in 1..32 |-> i],
                       LAMBDA i : Bit(At(d, (i - 1) \div 8 + 3), (i - 1) % 8) = 1)
  IN  Pair("Holidays", IF set = <<>> THEN Word("None")
                       ELSE List([i \in DOMAIN set |-> Padded(set[i], 2)], TRUE))

umdk_m230_reply(d) ==
  IF Len(d) = 1 THEN M230OneByte[d[1]]
  ELSE Pair("Address", Num(At(d, 2))) \o
       CASE Len(d) = 3       -> M230Status[At(d, 1)]
         [] At(d, 0) = \h03 -> M230Value(d)
         [] At(d, 0) = \h18 -> Pair("Power limit", Fixed(Word24(At(d, 3), At(d, 5), At(d, 4)), 2))
         [] At(d, 0) = \h19 -> Pair("Energy limit", Fixed(M230Energy(d, 3), 3))
         [] At(d, 0) = \h04 -> M230Timedate(d)
         [] At(d, 0) = \h05 ->
              Pair("Serial number", Digits(SubSeq(d, 4, 7))) \o
              Pair("Release date", Fields(SubSeq(d, 8, 10), "/"))
         [] At(d, 0) = \h08 -> M230Load(d)
         [] At(d, 0) = \h0F ->
              Pair("Mode", Word(IF At(d, 4) % 2 = 0 THEN "Multi-tariff" ELSE "One-tariff")) \o
              Pair("Current tariff", Numbered("T", 1 + ((At(d, 4) \div 2) % 8)))
         [] At(d, 0) = \h10 -> M230Errors(d)
         [] At(d, 0) = \h13 ->
              Pair("Software version",
                   Fields([i \in 1..3 |-> FromBcd(At(d, i + 2))], "."))
         [] At(d, 0) = \h1A -> M230Schedule(d)
         [] At(d, 0) = \h1C -> M230Holidays(d)
         [] OTHER            -> <<>>   \* GET_VERSION, GET_INFO and the rest
=============================================================================
