-------------------------------- MODULE M200 --------------------------------
(***************************************************************************)
(* Mercury 200 electricity meters (src/modules/umdk-m200.c).  A command is *)
(* its verb, its words and numbers, and dest, the meter's 32-bit address.  *)
(***************************************************************************)
EXTENDS MqttMessage

M200Error == <<\hFF>>

(* Mutant: the order of the bytes is not changed. *)
SwappedNot(address) == BE32(address)
(* The address is sent with its lowest byte first. *)
Swapped(address) == Reversed(BE32(address))

(* Commands of the address alone. *)
M200Query ==
  [get_serial |-> \h01, get_number_tariffs |-> \h10, get_power_limit |-> \h08,
   get_power_current |-> \h09, get_timedate |-> \h07, get_worktime |-> \h15,
   get_uip |-> \h06, add |-> \hFE]

M200Time == [switch_on |-> \h0C, switch_off |-> \h0B, open |-> \h04, close |-> \h05]
M200Days == [all |-> \h0F, weekdays |-> \h0E, weekends |-> \h0D, holidays |-> \h0C]
M200_ALL_YEAR == \h0F

(* A frame of the code, the address and what follows. *)
M200Frame(code, c, rest) == <<code>> \o Swapped(c.dest) \o rest

(* Month FF, which month 0 becomes, stands for the total.                  *)
M200GetValue(c) ==
  LET month == CASE c.words[1] = "total"   -> \hFF
                 [] c.words[1] = "current" -> \h0F
                 [] OTHER                  -> U8(c.nums[1] - 1)
  IN  CASE c.words[1] \notin {"total", "current", "month"} -> M200Error
        [] month = \hFF -> M200Frame(\h0A, c, <<>>)
        [] OTHER        -> M200Frame(\h0F, c, <<month>>)

M200GetTime(c) ==
  IF c.words[1] \in DOMAIN M200Time THEN M200Frame(M200Time[c.words[1]], c, <<>>)
  ELSE M200Error

(* month, kind of day *)
M200GetSchedule(c) ==
  M200Frame(\h0E, c, <<U8(16 * (c.nums[1] - 1) + c.nums[2])>>)

(* dow, hour, min, sec, day, month, year *)
M200SetTimedate(c) == M200Frame(\h16, c, [i \in 1..7 |-> Bcd(c.nums[i])])

(* c.points: day and month of each holiday; 16 places, the free ones FF *)
M200SetHolidays(c) ==
  M200Frame(\hF1, c,
    [i \in 1..32 |->
       LET k == (i + 1) \div 2
       IN  IF k \notin DOMAIN c.points THEN \hFF
           ELSE Bcd(IF i % 2 = 1 THEN c.points[k].day ELSE c.points[k].month)])

(* c.points: tariff, hour and minute; 8 places, the free ones FF *)
M200Point(p) == <<U8(64 * (p.tariff - 1) + Bcd(p.hour)), Bcd(p.min)>>
M200SetSchedule(c) ==
  LET month == IF c.words[1] = "year" THEN M200_ALL_YEAR ELSE c.nums[1] - 1
      day   == IF c.words[2] = "day" THEN c.nums[Len(c.nums)] ELSE M200Days[c.words[2]]
      place(k) == IF k \in DOMAIN c.points THEN M200Point(c.points[k]) ELSE <<\hFF, \hFF>>
  IN  IF /\ c.words[1] \in {"year", "month"}
         /\ c.words[2] \in DOMAIN M200Days \cup {"day"}
      THEN M200Frame(\h14, c, Append([i \in 1..16 |-> place((i + 1) \div 2)[2 - (i % 2)]],
                                     U8(16 * month + day)))
      ELSE M200Error

(* remove prints the swapped address with %02x: zeros in front are lost,   *)
(* and with them half a byte or whole ones.                                *)
PrintedShort(d) ==
  LET n == Nibbles(d)
      starts == {i \in 1..Len(n) - 1 : n[i] # 0 \/ i = Len(n) - 1}
      first == CHOOSE i \in starts : \A j \in starts : i <= j
      digits == SubSeq(n, first, Len(n))
  IN  [i \in 1..(Len(digits) + 1) \div 2 |->
         IF 2 * i > Len(digits) THEN HalfByte(digits[2 * i - 1])
         ELSE 16 * digits[2 * i - 1] + digits[2 * i]]

M200Remove(c) == <<\hFD>> \o PrintedShort(Swapped(c.dest))

(* Another word than can and 485 leaves the byte unset. *)
M200Iface(c) ==
  CASE c.words[1] = "can" -> <<\hFB, 2>>
    [] c.words[1] = "485" -> <<\hFB, 1>>
    [] OTHER              -> <<\hFB, Unset>>

umdk_m200_command(c) ==
  CASE c.verb \in DOMAIN M200Query   -> M200Frame(M200Query[c.verb], c, <<>>)
    [] c.verb = "set_address"        -> M200Frame(\h02, c, Swapped(c.nums[1]))
    [] c.verb = "set_number_tariffs" -> M200Frame(\h11, c, <<U8(c.nums[1])>>)
    [] c.verb = "get_value"          -> M200GetValue(c)
    [] c.verb = "get_schedule"       -> M200GetSchedule(c)
    [] c.verb = "get_time"           -> M200GetTime(c)
    [] c.verb = "set_timedate"       -> M200SetTimedate(c)
    [] c.verb = "set_holidays"       -> M200SetHolidays(c)
    [] c.verb = "set_schedule"       -> M200SetSchedule(c)
    [] c.verb = "remove"             -> M200Remove(c)
    [] c.verb = "reset"              -> <<\hFF>>
    [] c.verb = "get_list"           -> <<\hFC>>
    [] c.verb = "iface"              -> M200Iface(c)
    [] OTHER                         -> M200Error

(***************************************************************************)
(* Answers.  moddata[1] is the status, moddata[2..5] the address, lowest   *)
(* byte first; what was read follows from moddata[6].                      *)
(***************************************************************************)
M200Msg(w) == Pair("msg", Word(w))
M200WordAt(d, i) == Word32(At(d, i), At(d, i + 1), At(d, i + 2), At(d, i + 3))
BcdNumber(d, first, last) ==
  LET upto[i \in first - 1..last] ==
        IF i < first THEN 0 ELSE 100 * upto[i - 1] + FromBcd(At(d, i))
  IN  upto[last]

M200Status(s) ==
  CASE s = 0 -> M200Msg("ok") [] s = 1 -> M200Msg("error")
    [] s = 2 -> M200Msg("no response") [] OTHER -> <<>>

M200List(d) ==
  LET word(i) == [k \in 1..4 |-> At(d, 4 * i - 3 + k)]
      used == SelectSeq([i \in 1..(Len(d) - 1) \div 4 |-> word(i)],
                        LAMBDA w : w # <<\hFF, \hFF, \hFF, \hFF>>)
  IN  IF used = <<>> THEN M200Msg("empty")
      ELSE [i \in DOMAIN used |->
              [name |-> <<"Address", i>>, value |-> Unsigned(used[i])]]

M200Value(d) ==
  [i \in 1..5 |-> [name  |-> IF i = 5 THEN <<"Total">> ELSE <<"T", i>>,
                   value |-> Fixed(M200WordAt(d, 4 * i + 2), 2)]]

M200Schedule(d) ==
  [i \in 1..(Len(d) - 6) \div 3 |->
     [name  |-> <<"T", At(d, 3 * i + 3) + 1>>,
      value |-> Fields(<<At(d, 3 * i + 4), At(d, 3 * i + 5)>>, ":")]]

M200Dow == <<"Sun", "Mon", "Tue", "Wed", "Thu", "Fri", "Sat", "Hol">>
M200Timedate(d) ==
  Pair("Day", Word(M200Dow[At(d, 6) + 1])) \o
  Pair("Time", Fields(SubSeq(d, 8, 10), ":")) \o
  Pair("Date", Fields(SubSeq(d, 11, 13), "/"))
(* Opening and closing may not be recorded. *)
M200Recorded(d) == IF At(d, 6) < 8 THEN M200Timedate(d) ELSE M200Msg("Not support")

umdk_m200_reply(d) ==
  CASE Len(d) = 1 -> CASE d[1] = 0 -> M200Msg("ok") [] d[1] = 1 -> M200Msg("error")
                       [] d[1] = \hFF -> M200Msg("invalid command") [] OTHER -> <<>>
    [] Len(d) > 1 /\ At(d, 0) >= \hF0 -> IF At(d, 0) = \hFC THEN M200List(d) ELSE <<>>
    [] Len(d) > 1 /\ At(d, 0) < \hF0 ->
         Pair("Address", Unsigned(<<At(d, 5), At(d, 4), At(d, 3), At(d, 2)>>)) \o
         CASE Len(d) = 6       -> M200Status(At(d, 1))
           [] At(d, 0) = \h01 -> Pair("Serial number", Unsigned([k \in 1..4 |-> At(d, 5 + k)]))
           [] At(d, 0) = \h10 -> Pair("Tariffs", Num(At(d, 6)))
           [] At(d, 0) \in {\h0A, \h0F} -> M200Value(d)
           [] At(d, 0) = \h0E -> M200Schedule(d)
           [] At(d, 0) \in {\h07, \h0B, \h0C} -> M200Timedate(d)
           [] At(d, 0) \in {\h04, \h05} -> M200Recorded(d)
           [] At(d, 0) = \h15 ->
                Pair("Working time under voltage", Num(BcdNumber(d, 6, 8))) \o
                Pair("Working time without voltage", Num(BcdNumber(d, 9, 11)))
           [] At(d, 0) = \h06 ->
                Pair("Voltage", Fixed(BcdNumber(d, 6, 7), 1)) \o
                Pair("Current", Fixed(BcdNumber(d, 8, 9), 2)) \o
                Pair("Power", Num(BcdNumber(d, 10, 12)))
           [] At(d, 0) = \h09 -> Pair("Current power", Fixed(BcdNumber(d, 6, 7), 2))
           [] At(d, 0) = \h08 -> Pair("Power limit", Fixed(BcdNumber(d, 6, 7), 2))
           [] OTHER           -> <<>>
=============================================================================
