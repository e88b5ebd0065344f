-------------------------------- MODULE Motes --------------------------------
(***************************************************************************)
(* What stands behind the gate: motes and the meters, lamps and devices    *)
(* wired to them.  None of it is in the repository; it is modelled as the  *)
(* codecs take it to be: a device keeps the bytes it is told and shows     *)
(* them again, each at the place where the command puts it and where the   *)
(* answer is read.  mem is what the devices of one kind keep at one mote,  *)
(* a function from places to bytes; a place never written holds what it    *)
(* left the factory with.                                                  *)
(***************************************************************************)
EXTENDS UnwdsMqtt

CONSTANT Ballasts                  \* the lamps on the DALI line of each mote
ASSUME BallastsAssumption == Ballasts \subseteq 0..63

Held(mem, place, factory) == IF place \in DOMAIN mem THEN mem[place] ELSE factory
Keep(places, bytes) == [place \in places |-> bytes]
Nothing == <<>>                     \* the empty function: no place is written
Over(new, old) ==                   \* what is written over what was there
  [place \in DOMAIN new \cup DOMAIN old |-> IF place \in DOMAIN new THEN new[place] ELSE old[place]]

Served(writes, answer) == [writes |-> writes, answer |-> answer]

(* The months and kinds of day a schedule is for: F stands for all of one, *)
(* E, D and C for weekdays, weekends and holidays.                         *)
MonthsOf(m, all) == IF m = \h0F THEN all ELSE {m}
DaysOf(d, weekends, holidays) ==
  CASE d = \h0F -> 1..5 \cup weekends \cup holidays
    [] d = \h0E -> 1..5 [] d = \h0D -> weekends [] d = \h0C -> holidays
    [] OTHER -> {d}

(***************************************************************************)
(* Mercury 230: days 1 to 7 and 8 for holidays; a cell of schedule takes   *)
(* 22 bytes (hexadecimal) from 1000, one of holidays 5 from 1D00.          *)
(***************************************************************************)
M230Serves(d, mem) ==
  LET code == At(d, 0)
      dest == At(d, 1)
      ok == <<code, 0, dest>>
      at == Word16(At(d, 3), At(d, 4))
      switch(register) == Held(mem, <<"switch", dest, register>>, <<0>>)[1]
      scheduled == <<"schedule", dest, (at - \h1000) \div \h110 + 1, 1 + (((at - \h1000) \div \h22) % 8)>>
      mask(m) == {i \in 0..(Len(d) - 3) \div 5 - 1 : At(d, 5 * i + 3) = m}
  IN  CASE code = \hF1 ->
             Served(Keep({"schedule"} \X {dest} \X MonthsOf(At(d, 3) \div 16, 1..12)
                           \X DaysOf(At(d, 3) % 16, {6, 7}, {8}), From(d, 4)), ok)
        [] code = \h1A -> Served(Nothing, ok \o Held(mem, scheduled, [i \in 1..16 |-> M230NoPoint[2 - (i % 2)]]))
        [] code = \hF2 ->
             Served([place \in {"holidays"} \X {dest} \X {m \in 1..12 : mask(m) # {}} |->
                       LET i == CHOOSE i \in mask(place[3]) : TRUE
                       IN  Reversed(SubSeq(d, 5 * i + 5, 5 * i + 8))], ok)
        [] code = \h1C ->
             Served(Nothing, ok \o Held(mem, <<"holidays", dest, (at - \h1D00) \div 5 + 1>>, <<0, 0, 0, 0>>))
        [] code = \h06 -> Served(Keep({<<"time", dest>>}, From(d, 3)), ok)
        [] code = \h04 ->
             Served(Nothing, ok \o Held(mem, <<"time", dest>>, <<0, 0, 0, 1, 1, 1, 0, 1>>))
        [] code \in {\h12, \h07, \h0B, \h0D, \h0E} ->
             Served(Keep({<<"switch", dest, At(d, 2)>>}, <<At(d, 3)>>), ok)
        [] code = \h08 ->
             Served(Nothing, ok \o <<4 * switch(\h2F) + 2 * switch(\h2D) + switch(\h30), 2 * switch(\h31)>>)
        [] code = \h0F -> Served(Nothing, ok \o <<0, switch(\h2A)>>)
        [] OTHER -> Served(Nothing, <<IF Len(d) = 1 THEN code ELSE 0>>)

(***************************************************************************)
(* Mercury 200: months from 0, days from 0 (Sunday) to 7 (holiday).  Time  *)
(* and points come as decimals of two digits and are shown as numbers; the *)
(* free places of a schedule are not shown.  A new meter has tariff 1 all  *)
(* day.                                                                    *)
(***************************************************************************)
M200Serves(d, mem) ==
  LET code == At(d, 0)
      dest == SubSeq(d, 2, 5)
      ok == <<code, 0>> \o dest
      date == At(d, 5)
      points(s) ==
        LET held == {k \in 1..8 : s[2 * k - 1] # \hFF}
        IN  [i \in 1..3 * Cardinality(held) |->
               LET k == (i + 2) \div 3
               IN  CASE i % 3 = 1 -> s[2 * k - 1] \div 64
                     [] i % 3 = 2 -> FromBcd(s[2 * k - 1] % 64)
                     [] OTHER     -> FromBcd(s[2 * k])]
  IN  CASE code = \h14 ->
             LET date2 == d[Len(d)]
             IN  Served(Keep({"schedule"} \X {dest} \X MonthsOf(date2 \div 16, 0..11)
                               \X DaysOf(date2 % 16, {0, 6}, {7}), SubSeq(d, 6, 21)), ok)
        [] code = \h0E ->
             Served(Nothing, ok \o points(Held(mem, <<"schedule", dest, date \div 16, date % 16>>,
                                               [i \in 1..16 |-> IF i < 3 THEN 0 ELSE \hFF])))
        [] code = \h16 ->
             Served(Keep({<<"time", dest>>}, [i \in 1..7 |-> FromBcd(At(d, i + 4))]), ok)
        [] code = \h07 ->
             Served(Nothing, ok \o Held(mem, <<"time", dest>>, <<6, 0, 0, 0, 1, 1, 0>>))
        [] code = \h11 -> Served(Keep({<<"tariffs", dest>>}, <<date>>), ok)
        [] code = \h10 -> Served(Nothing, ok \o Held(mem, <<"tariffs", dest>>, <<1>>))
        [] OTHER -> Served(Nothing, <<IF Len(d) = 1 THEN code ELSE 0>>)

(***************************************************************************)
(* CE102M: what a parameter was written with is what it is read with; one  *)
(* never written is answered with error 18, no such value.  A point that   *)
(* was not sent is 0.                                                      *)
(***************************************************************************)
IecServes(d, mem) ==
  LET place == <<"parameter", At(d, 3), At(d, 0), At(d, 2)>>
      bytes == SubSeq(d, 6, Len(d) - 1)
  IN  CASE At(d, 1) = IEC61107_WRITE ->
             Served(Keep({place}, [i \in DOMAIN bytes |-> IF bytes[i] \in Byte THEN bytes[i] ELSE 0]),
                    <<0, 0, 0, At(d, 3)>>)
        [] At(d, 1) = IEC61107_READ ->
             Served(Nothing, IF place \in DOMAIN mem
                             THEN <<0, 0, At(d, 0), At(d, 3)>> \o mem[place]
                             ELSE <<0, 0, 18, At(d, 3)>>)
        [] OTHER -> Served(Nothing, <<\hFF>>)

(***************************************************************************)
(* DALI: a ballast heeds a command for it, for a group it belongs to or    *)
(* for everyone.  What is to be stored comes through a register, which is  *)
(* loaded first, and a change counts only when the command is repeated.    *)
(***************************************************************************)
DaliHeeds(address, mem) ==
  LET number == (address \div 2) % 64
  IN  CASE address < 128 -> {number} \cap Ballasts
        [] address >= 128 /\ number = DALI_BROADCAST -> Ballasts
        [] OTHER -> {b \in Ballasts : Held(mem, <<"group", b, number>>, <<0>>) = <<1>>}

DaliServes(d, mem) ==
  LET cmd == At(d, 0)
      service == At(d, 1)
      data == At(d, 2)
      address == At(d, 3)
      heeding == DaliHeeds(address, mem)
      ok == <<1>>
      asked == CHOOSE b \in heeding : TRUE
      level(kind, factory) == Held(mem, <<kind, asked>>, <<factory>>)
      groups(first) ==
        LET sum[i \in 0..8] == IF i = 0 THEN 0
              ELSE sum[i - 1] + 2^(i - 1) * Held(mem, <<"group", asked, first + i - 1>>, <<0>>)[1]
        IN  <<sum[8]>>
      change(writes) == Served(IF Bit(service, 1) = 1 THEN writes ELSE Nothing, ok)
      store(kind) == change(IF Bit(service, 0) = 1 THEN Keep({kind} \X heeding, <<data>>) ELSE Nothing)
      scene(n) == <<"scene 0", "scene 1", "scene 2", "scene 3", "scene 4", "scene 5",
                    "scene 6", "scene 7", "scene 8", "scene 9", "scene 10", "scene 11",
                    "scene 12", "scene 13", "scene 14", "scene 15">>[n + 1]
      shown == CASE cmd = \hA0 -> level("actual", 254) [] cmd = \hA1 -> level("max", 254)
                 [] cmd = \hA2 -> level("min", 1)      [] cmd = \hA3 -> level("power on", 254)
                 [] cmd = \hA4 -> level("system failure", 254)
                 [] cmd \in \hB0..\hBF -> level(scene(cmd - \hB0), 255)
                 [] cmd = \hC0 -> groups(0) [] cmd = \hC1 -> groups(8)
                 [] OTHER -> <<DALI_DATA_ERR>>
  IN  CASE Len(d) < 4 -> Served(Nothing, <<\hFF>>)
        [] address % 2 = 0 -> Served(Keep({"actual"} \X heeding, <<data>>), ok)
        [] address % 2 = 1 /\ cmd \in \h2A..\h2D ->
             store(<<"max", "min", "system failure", "power on">>[cmd - \h29])
        [] address % 2 = 1 /\ cmd \in \h40..\h4F -> store(scene(cmd - \h40))
        [] address % 2 = 1 /\ cmd \in \h60..\h7F ->
             change(Keep({"group"} \X heeding \X {cmd % 16}, <<IF cmd < \h70 THEN 1 ELSE 0>>))
        [] address % 2 = 1 /\ cmd \in \h90..\hC1 /\ Bit(service, 2) = 1 /\ heeding # {} ->
             Served(Nothing, <<cmd, address>> \o shown)
        [] OTHER -> Served(Nothing, ok)

(***************************************************************************)
(* Modbus: holding registers of two bytes.                                 *)
(***************************************************************************)
ModbusRegisters(d, mem) ==
  LET dest == At(d, 0)
      first == Word16(At(d, 2), At(d, 3))
      count == Word16(At(d, 4), At(d, 5))
      word(i) == SubSeq(d, i + 1, i + 2)
      register(i) == Held(mem, <<"register", dest, first + i>>, <<0, 0>>)
  IN  CASE At(d, 1) = \h06 ->
             Served(Keep({<<"register", dest, first>>}, word(4)), d)
        [] At(d, 1) = \h10 ->
             Served([place \in {"register"} \X {dest} \X (first..first + count - 1) |->
                       word(7 + 2 * (place[3] - first))], SubSeq(d, 1, 6))
        [] At(d, 1) = \h03 ->
             Served(Nothing, <<dest, \h03, 2 * count>> \o
                               [i \in 1..2 * count |-> register((i - 1) \div 2)[2 - (i % 2)]])
        [] OTHER -> Served(Nothing, <<dest, At(d, 1) + 128, 1>>)

(* One byte says that the codec refused the command; what begins with FE   *)
(* or FF is for the mote's module itself.                                  *)
ModbusServes(d, mem) ==
  CASE Len(d) < 2                                -> Served(Nothing, <<At(d, 0)>>)
    [] Len(d) > 1 /\ At(d, 0) >= MODBUS_SET_DEVICE -> Served(Nothing, <<0>>)
    [] OTHER                                     -> ModbusRegisters(d, mem)

Serves(type, d, mem) ==
  CASE type = "m230"     -> M230Serves(d, mem)
    [] type = "m200"     -> M200Serves(d, mem)
    [] type = "iec61107" -> IecServes(d, mem)
    [] type = "dali"     -> DaliServes(d, mem)
    [] type = "modbus"   -> ModbusServes(d, mem)
    [] type \in {"echo", "usound"} -> Served(Nothing, <<0, 0, 0, 100>>)
    [] OTHER             -> Served(Nothing, <<1>>)   \* done

(* A mote hears a frame: what its devices keep after it, and the answer, a *)
(* module and its data.  A mote without the module says so.                *)
Hears(equipped, frame, kept) ==
  LET types  == {type \in equipped : unwds_modid_by_name(type) = frame[1]}
      type   == CHOOSE t \in types : TRUE
      served == Serves(type, From(frame, 1), kept[type])
  IN  IF types = {}
      THEN [kept |-> kept, module |-> UNWDS_MODULE_NOT_FOUND, data |-> <<frame[1]>>]
      ELSE [kept |-> [kept EXCEPT ![type] = Over(served.writes, @)],
            module |-> frame[1], data |-> served.answer]
=============================================================================
