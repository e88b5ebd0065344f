------------------------------ MODULE Iec61107 ------------------------------
(***************************************************************************)
(* CE102M meters, IEC 61107 (src/modules/umdk-iec61107.c).  A command is   *)
(* its verb and words, text (what the meter gets as it stands, as codes),  *)
(* points (the items of a list), padded (whether the numbers of the text   *)
(* are written with two digits) and dest, the number of the meter.         *)
(***************************************************************************)
EXTENDS MqttMessage

IecInvalidCmd == <<\hFF>>
IecInvalidFormat == <<4>>
IEC61107_BRACKET_OPEN == \h28
IEC61107_BRACKET_CLOSE == \h29
IEC61107_READ == \h52
IEC61107_WRITE == \h57
IEC61107_MODE_SP_READ == \h36
SCHEDULE == \h0F
HOLIDAYS == \h10

(* code, mode *)
IecPlain ==
  [get_init |-> <<\h01, IEC61107_READ>>,
   get_time |-> <<\h02, IEC61107_READ>>,      set_time |-> <<\h02, IEC61107_WRITE>>,
   get_date |-> <<\h03, IEC61107_READ>>,      set_date |-> <<\h03, IEC61107_WRITE>>,
   get_serial |-> <<\h04, IEC61107_READ>>,    get_id_device |-> <<\h05, IEC61107_READ>>,
   get_status |-> <<\h06, IEC61107_READ>>,    get_volt |-> <<\h0C, IEC61107_READ>>,
   get_current |-> <<\h0D, IEC61107_READ>>,   get_power |-> <<\h0E, IEC61107_READ>>,
   get_default_tariff |-> <<\h11, IEC61107_READ>>,
   set_default_tariff |-> <<\h11, IEC61107_WRITE>>,
   get_special_cmd |-> <<\h00, IEC61107_MODE_SP_READ>>,
   get_schedule |-> <<SCHEDULE, IEC61107_READ>>, set_schedule |-> <<SCHEDULE, IEC61107_WRITE>>,
   get_holidays |-> <<HOLIDAYS, IEC61107_READ>>, set_holidays |-> <<HOLIDAYS, IEC61107_WRITE>>]

IecValue == [total_all |-> \h07, month |-> \h08, day |-> \h09,
             total_month |-> \h0A, total_day |-> \h0B]

(* The mote's list of meters: add, remove and find by number or address. *)
IecDatabase(c) ==
  LET code == [add |-> \hFD, remove |-> \hFC, find |-> \hFB][c.verb]
  IN  CASE c.verb = "add"           -> <<code, 0, 0>> \o c.text
        [] c.verb # "add" /\ c.words[1] = "device"  -> <<code, 2, c.dest, 0>>
        [] c.verb # "add" /\ c.words[1] = "address" -> <<code, 1, 0>> \o c.text
        [] OTHER                    -> IecInvalidCmd

(* A point: tariff, hour, minute.  A holiday: day, month, schedule. *)
IecPoint(p) == <<U8(32 * p.tariff + p.hour), p.min>>
IecHoliday(p) == <<16 * p.month + p.day \div 4, U8(p.sch + 64 * (p.day % 4))>>

(* The loop over a list counts characters of the text, 9 for an item and   *)
(* the comma after it, whatever the items take: what it reads after the    *)
(* last item is not theirs.                                                *)
Digits2(n, padded) == IF padded \/ n > 9 THEN 2 ELSE 1
IecWidth(c, p) ==
  IF c.verb = "set_schedule"
  THEN 3 + Digits2(p.hour, c.padded) + Digits2(p.min, c.padded)
  ELSE 2 + Digits2(p.day, c.padded) + Digits2(p.month, c.padded) + Digits2(p.sch, FALSE)
IecTextLen(c) ==
  LET upto[i \in 0..Len(c.points)] ==
        IF i = 0 THEN 0 ELSE upto[i - 1] + IecWidth(c, c.points[i]) + (IF i > 1 THEN 2 ELSE 0)
  IN  upto[Len(c.points)]
(* Mutant: an item that is not followed by a comma is not counted. *)
IecItemsShort(c) ==
  LET p(i) == c.points[i]
  IN  [k \in 1..2 * (IecTextLen(c) \div 9) |->
         IF c.verb = "set_schedule" THEN IecPoint(p((k + 1) \div 2))[2 - (k % 2)]
         ELSE IecHoliday(p((k + 1) \div 2))[2 - (k % 2)]]
IecItems(c) ==
  LET item(i) == CASE i > Len(c.points) -> <<Unset, Unset>>
                   [] i <= Len(c.points) /\ c.verb = "set_schedule" -> IecPoint(c.points[i])
                   [] OTHER -> IecHoliday(c.points[i])
  IN  [k \in 1..2 * ((IecTextLen(c) + 8) \div 9) |-> item((k + 1) \div 2)[2 - (k % 2)]]

IecPassword(fin) == <<49, 56, 50, IF fin THEN 56 ELSE 57, IF fin THEN 56 ELSE 48>>

(* What goes between the brackets. *)
IecParameter(c) ==
  CASE c.verb \in {"set_init", "get_init", "set_fin"} -> IecPassword(c.verb = "set_fin")
    [] c.verb \in {"set_schedule", "set_holidays"}    -> IecItems(c)
    [] OTHER                                          -> c.text

(* A device number of one digit with nothing before it is refused. *)
IecTooShort(c) ==
  /\ c.verb \notin {"set_init", "set_fin"}
  /\ c.text = <<>> /\ c.points = <<>> /\ c.dest < 10 /\ ~c.padded

IecFrame(c, code, mode, param) ==
  IF IecTooShort(c) THEN IecInvalidFormat
  ELSE <<code, mode, param, c.dest, IEC61107_BRACKET_OPEN>> \o IecParameter(c) \o
       <<IEC61107_BRACKET_CLOSE>>

umdk_iec61107_command(c) ==
  CASE c.verb = "reset"                       -> <<\hFE>>
    [] c.verb \in {"add", "remove", "find"}   -> IecDatabase(c)
    [] c.verb \in {"set_init", "set_fin"}     -> IecFrame(c, \h01, IEC61107_WRITE, 0)
    [] c.verb \in {"get_schedule", "set_schedule"} ->
         IecFrame(c, SCHEDULE, IecPlain[c.verb][2], U8(c.nums[1]))
    [] c.verb = "set_holidays" ->
         IF c.words[1] \in {"part_1", "part_2"}
         THEN IecFrame(c, HOLIDAYS, IEC61107_WRITE, IF c.words[1] = "part_1" THEN 1 ELSE 2)
         ELSE IecInvalidCmd
    [] c.verb = "get_value" ->
         IF c.words[1] \in DOMAIN IecValue
         THEN IecFrame(c, IecValue[c.words[1]], IEC61107_READ, 0)
         ELSE IecInvalidCmd
    [] c.verb \in DOMAIN IecPlain \ {"get_schedule", "set_schedule", "set_holidays"} ->
         IecFrame(c, IecPlain[c.verb][1], IecPlain[c.verb][2], 0)
    [] OTHER                                  -> IecInvalidCmd

(***************************************************************************)
(* Answers.  What was asked, or a status, is moddata[2], the meter's       *)
(* number moddata[3], the data follows from moddata[4].                    *)
(***************************************************************************)
IecMsg(w) == Pair("msg", Word(w))
IecOneByte(b) ==
  CASE b = 0 -> IecMsg("ok") [] b = 1 -> IecMsg("error")
    [] b = 4 -> IecMsg("invalid format") [] b = \hFF -> IecMsg("invalid command")
    [] OTHER -> <<>>
IecCodeMsg == <<"ok", "error", "no response", "please wait">>
IecErrorMsg ==
  <<"invalid number of parameters", "not supported", "unknown parameter",
    "invalid format", "not initialized", "access denied", "no programming rights",
    "invalid parameter value", "nonexistent parameter value">>

(* Text ends at its first zero; a buffer nothing is printed to is not set. *)
IecText(d, first, count) ==
  LET text == [i \in 1..count |-> At(d, first + i - 1)]
      ends == {i \in 1..count : text[i] = 0}
  IN  CASE count <= 0 -> Unwritten
        [] count > 0 /\ ends = {} -> Chars(text)
        [] OTHER -> Chars(SubSeq(text, 1, (CHOOSE i \in ends : \A j \in ends : i <= j) - 1))

IecSchedule(d) ==
  LET n == (Len(d) - 4) \div 2
  IN  [i \in 1..(IF n < 12 THEN 12 ELSE n) |->
         IF i > n THEN [name |-> <<"T", 0>>, value |-> Fields(<<0, 0>>, ":")]
         ELSE [name  |-> <<"T", At(d, 2 * i + 2) \div 32>>,
               value |-> Fields(<<At(d, 2 * i + 2) % 32, At(d, 2 * i + 3)>>, ":")]]

IecHolidayList(d) ==
  LET n == (Len(d) - 5) \div 2
      a(i) == At(d, 2 * i + 3)
      b(i) == At(d, 2 * i + 4)
  IN  Pair("holidays list", Fields(<<At(d, 4) \div 16, At(d, 4) % 16>>, "/")) \o
      [i \in 1..(IF n < 16 THEN 16 ELSE n) |->
         IF i > n THEN [name |-> <<"date", 0, 0>>, value |-> Num(0)]
         ELSE [name  |-> <<"date", 4 * (a(i) % 8) + b(i) \div 64, a(i) \div 16>>,
               value |-> Num(b(i) % 64)]]

IecEnergy(d) ==
  LET word(i) == Word32(At(d, 4 * i + 4), At(d, 4 * i + 5), At(d, 4 * i + 6), At(d, 4 * i + 7))
  IN  [i \in 1..4 |-> [name |-> <<"T", i>>, value |-> Fixed(word(i), 2)]] \o
      Pair("Total", Fixed(word(0), 2))

(* The status bits, each masked in its byte and then compared with 1: one  *)
(* that is not the lowest bit and is set is not reported.  The comparison  *)
(* of the two voltage bits with 2, for undervoltage, is never true.        *)
IecMasked(d, byte, mask) ==
  LET bits == {i \in 0..7 : Bit(mask, i) = 1 /\ Bit(At(d, byte), i) = 1}
      sum[i \in 0..8] == IF i = 0 THEN 0
                         ELSE sum[i - 1] + (IF i - 1 \in bits THEN 2^(i - 1) ELSE 0)
  IN  sum[8]
IecFlag(d, byte, mask, name, set, clear) ==
  CASE IecMasked(d, byte, mask) = 0 -> Pair(name, Word(clear))
    [] IecMasked(d, byte, mask) = 1 -> Pair(name, Word(set))
    [] OTHER -> <<>>

IecStatus(d) ==
  LET tariffs == SelectSeq(<<1, 2, 3, 4>>, LAMBDA i : Bit(At(d, 5), i - 1) = 1)
  IN  Pair("current tariff", Numbered("T", At(d, 11) % 8)) \o
      Pair("schedule tariffs", List([i \in DOMAIN tariffs |-> Num(tariffs[i])], TRUE)) \o
      IecFlag(d, 4, \h01, "schedule status", "error", "normal") \o
      IecFlag(d, 8, \h04, "season", "summer", "winter") \o
      IecFlag(d, 8, \h01, "time status", "failure", "normal") \o
      IecFlag(d, 9, \h02, "time correction", "not allowed", "allowed") \o
      IecFlag(d, 11, \h08, "battery status", "discharged", "charged") \o
      IecFlag(d, 7, \h08, "battery lifetime", "expired", "normal") \o
      IecFlag(d, 9, \h0C, "voltage status", "overvoltage", "normal") \o
      IecFlag(d, 9, \h01, "load", "inductive", "capacitive") \o
      IecFlag(d, 10, \h08, "direction", "reverse", "direct") \o
      IecFlag(d, 7, \h01, "energy values", "checksum error", "normal") \o
      IecFlag(d, 7, \h02, "tamper", "failure", "normal") \o
      IecFlag(d, 6, \h01, "program memory", "checksum error", "normal") \o
      IecFlag(d, 6, \h02, "metrology", "checksum error", "normal")

IecData(d) ==
  LET code == At(d, 2)
      text(name) == Pair(name, IecText(d, 4, Len(d) - 4))
  IN  CASE code = \h02 -> text("time")
        [] code = \h03 ->
             Pair("day", Word(<<"Sun", "Mon", "Tue", "Wed", "Thu", "Fri", "Sat">>[
                                1 + 10 * (At(d, 4) - Zero) + At(d, 5) - Zero])) \o
             Pair("date", IecText(d, 7, Len(d) - 4))
        [] code = \h04 -> text("serial")
        [] code = \h05 -> text("id device")
        [] code = \h06 -> IecStatus(d)
        [] code \in \h07..\h0B -> IecEnergy(d)
        [] code = \h0C -> text("voltage")
        [] code = \h0D -> text("current")
        [] code = \h0E -> text("power")
        [] code = SCHEDULE -> IecSchedule(d)
        [] code = HOLIDAYS -> IecHolidayList(d)
        [] code = \h11 -> Pair("default tariff", Chars(<<At(d, 4) + 1>>))
        [] OTHER -> <<>>

umdk_iec61107_reply(d) ==
  LET code == At(d, 2)
      device == Pair("device", Num(At(d, 3)))
  IN  CASE Len(d) = 1 -> IecOneByte(d[1])
        [] Len(d) > 1 /\ code >= \hF0 ->
             (CASE code = \hFD -> Pair("cmd", Word("added"))
                [] code = \hFC -> Pair("cmd", Word("removed"))
                [] code = \hFB -> Pair("cmd", Word("found"))
                [] OTHER -> <<>>) \o
             device \o Pair("address", IecText(d, 4, Len(d) - 4))
        [] Len(d) \in {2, 4} /\ code < 4 -> device \o IecMsg(IecCodeMsg[code + 1])
        [] Len(d) = 4 /\ code \in 4..\hEF ->
             device \o Pair("err", Num(code)) \o
             (IF code \in 10..18 THEN IecMsg(IecErrorMsg[code - 9]) ELSE <<>>) \o IecData(d)
        [] OTHER -> device \o IecData(d)
=============================================================================
