-------------------------------- MODULE Dali --------------------------------
(***************************************************************************)
(* DALI lamps (src/modules/umdk-dali.c).  A command is its verb, numbers   *)
(* and the ballasts it is for: c.to is a word (broadcast, group, dev) and  *)
(* c.dest the number after it.                                             *)
(***************************************************************************)
EXTENDS MqttMessage

DALI_BROADCAST == \h3F
DALI_CMD_POWER_CONTROL == \hFF
DALI_CMD_RESET == \h20
DALI_CMD_SAVE_ACTUAL_LEVEL == \h21
DALI_CMD_STORE_SCENE_MAX == \h4F
DALI_CMD_QUERY_STATUS == \h90
DALI_INIT_COMMANDS == \hF0
DALI_DATA_ERR == \hFF
DaliInvalid == <<\hFF>>

DaliPlain ==
  [off |-> \h00, up |-> \h01, down |-> \h02, step_up |-> \h03, step_down |-> \h04,
   max |-> \h05, min |-> \h06, step_down_off |-> \h07, step_up_on |-> \h08,
   reset |-> \h20, save_level |-> \h21,
   query_status |-> \h90, query_version |-> \h97, query_dtr |-> \h98,
   query_type |-> \h99, query_phys_min |-> \h9A, query_actual |-> \hA0,
   query_max |-> \hA1, query_min |-> \hA2, query_power_on |-> \hA3,
   query_sys_fail |-> \hA4, query_fade |-> \hA5,
   query_group_7 |-> \hC0, query_group_15 |-> \hC1]
(* Answered by yes or no. *)
DaliYesNo ==
  [query_ballast |-> \h91, query_fail |-> \h92, query_on |-> \h93,
   query_lim_error |-> \h94, query_reset |-> \h95, query_no_addr |-> \h96,
   query_power_fail |-> \h9B]
(* A level, in percent, follows; a scene has its number before the level. *)
DaliLevelled ==
  [set_power |-> \hFF, store_max |-> \h2A, store_min |-> \h2B,
   store_sys_fail |-> \h2C, store_power_on |-> \h2D, store_scene |-> \h40]
DaliFade == [store_fadetime |-> \h2E, store_faderate |-> \h2F]
(* A number below 16 is part of the code. *)
DaliNumbered ==
  [goto_scene |-> \h10, remove_scene |-> \h50, add_group |-> \h60,
   remove_group |-> \h70, query_scene_level |-> \hB0]

(* log10 in units of 10^-5, as far as a byte of level reaches. *)
Log10 ==
  <<0, 30102, 47712, 60205, 69897, 77815, 84509, 90308, 95424, 100000, 104139,
    107918, 111394, 114612, 117609, 120411, 123044, 125527, 127875, 130102, 132221,
    134242, 136172, 138021, 139794, 141497, 143136, 144715, 146239, 147712, 149136,
    150514, 151851, 153147, 154406, 155630, 156820, 157978, 159106, 160205, 161278,
    162324, 163346, 164345, 165321, 166275, 167209, 168124, 169019, 169897, 170757,
    171600, 172427, 173239, 174036, 174818, 175587, 176342, 177085, 177815, 178532,
    179239, 179934, 180617, 181291, 181954, 182607, 183250, 183884, 184509, 185125,
    185733, 186332, 186923, 187506, 188081, 188649, 189209, 189762, 190308, 190848,
    191381, 191907, 192427, 192941, 193449, 193951, 194448, 194939, 195424, 195904,
    196378, 196848, 197312, 197772, 198227, 198677, 199122, 199563, 200000, 200432,
    200860, 201283, 201703, 202118>>
UMDK_DALI_PRECISION == 1000         \* 0.01
DaliLevel(percent) == (253 * (Log10[percent] + UMDK_DALI_PRECISION) + 25600000) \div 300000
DaliPercent(level, precision) ==
  Cardinality({p \in DOMAIN Log10 :
                 253 * (Log10[p] - precision) <= (3 * level - 256) * 100000})

(* Who is addressed, the selector bit: clear for direct power control. *)
DaliAddress(c, cmd) ==
  LET selector == IF cmd = DALI_CMD_POWER_CONTROL THEN 0 ELSE 1
      number   == IF c.to = "broadcast" THEN DALI_BROADCAST ELSE c.dest % 64
  IN  (IF c.to = "dev" THEN 0 ELSE 128) + 2 * number + selector

(* What the mote is to do: expect an answer and of which kind, repeat the  *)
(* command, store the data in the register first.                          *)
(* Mutant: scenes are not among the commands that store. *)
DaliServiceNoScenes(cmd, yesNo) ==
  LET bit(b) == IF b THEN 1 ELSE 0
  IN  8 * bit(~yesNo) + 4 * bit(cmd >= DALI_CMD_QUERY_STATUS /\ cmd < DALI_INIT_COMMANDS) +
      2 * bit(cmd >= DALI_CMD_RESET /\ cmd < DALI_CMD_QUERY_STATUS) +
      bit(cmd >= DALI_CMD_SAVE_ACTUAL_LEVEL /\ cmd < \h40)
DaliService(cmd, yesNo) ==
  LET answer == cmd >= DALI_CMD_QUERY_STATUS /\ cmd < DALI_INIT_COMMANDS
      repeat == cmd >= DALI_CMD_RESET /\ cmd < DALI_CMD_QUERY_STATUS
      store  == cmd >= DALI_CMD_SAVE_ACTUAL_LEVEL /\ cmd <= DALI_CMD_STORE_SCENE_MAX
      bit(b) == IF b THEN 1 ELSE 0
  IN  8 * bit(~yesNo) + 4 * bit(answer) + 2 * bit(repeat) + bit(store)

DaliFrame(c, cmd, data, yesNo) ==
  IF c.to \in {"broadcast", "group", "dev"}
  THEN <<cmd, DaliService(cmd, yesNo), data, DaliAddress(c, cmd)>>
  ELSE DaliInvalid

umdk_dali_command(c) ==
  CASE c.verb = "init_rand"   -> <<\hF1, 0, 0, 0>>
    [] c.verb = "init_single" -> <<\hF2, 0, U8(c.nums[1]), 0>>
    [] c.verb \in DOMAIN DaliPlain -> DaliFrame(c, DaliPlain[c.verb], 0, FALSE)
    [] c.verb \in DOMAIN DaliYesNo -> DaliFrame(c, DaliYesNo[c.verb], 0, TRUE)
    [] c.verb \in DOMAIN DaliLevelled ->
         DaliFrame(c, DaliLevelled[c.verb] + (IF c.verb = "store_scene" THEN c.nums[1] % 16 ELSE 0),
                   DaliLevel(c.nums[Len(c.nums)]), FALSE)
    [] c.verb \in DOMAIN DaliFade -> DaliFrame(c, DaliFade[c.verb], U8(c.nums[1]), FALSE)
    [] c.verb \in DOMAIN DaliNumbered ->
         DaliFrame(c, DaliNumbered[c.verb] + (c.nums[1] % 16), 0, FALSE)
    [] OTHER -> DaliInvalid

(***************************************************************************)
(* Answers: the code asked, the address, the data.                         *)
(***************************************************************************)
DaliMsg(w) == Pair("msg", Word(w))
DaliOneByte(b) ==
  CASE b = 1 -> DaliMsg("ok") [] b = 0 -> DaliMsg("error")
    [] b = \hFF -> DaliMsg("invalid command") [] b = 2 -> DaliMsg("please wait")
    [] OTHER -> <<>>

(* 127 stands for everyone. *)
DaliFrom(address) ==
  LET number == (address \div 2) % 64
  IN  CASE address < 128 -> Pair("address", Num(number))
        [] address >= 128 /\ number = DALI_BROADCAST -> Pair("address", Num(127))
        [] OTHER -> Pair("group", Num(number))

DaliFlags(data) ==
  LET flag(i, name, set, clear) == Pair(name, Word(IF Bit(data, i) = 1 THEN set ELSE clear))
  IN  flag(7, "power failure", "yes", "no") \o flag(6, "missing address", "yes", "no") \o
      flag(5, "reset state", "yes", "no") \o flag(4, "fade", "running", "ready") \o
      flag(3, "limit error", "yes", "no") \o flag(2, "power", "on", "off") \o
      flag(1, "lamp failure", "yes", "no") \o flag(0, "ballast", "no", "yes")

DaliYesNoName(cmd) ==
  CASE cmd = \h91 -> "ballast" [] cmd = \h92 -> "lamp failure" [] cmd = \h93 -> "lamp operating"
    [] cmd = \h94 -> "limit error" [] cmd = \h95 -> "reset state"
    [] cmd = \h96 -> "missing address" [] cmd = \h9B -> "power failure"
DaliIsYesNo(cmd) == \E verb \in DOMAIN DaliYesNo : cmd = DaliYesNo[verb]

DaliLevelName(cmd) ==
  <<"max level", "min level", "power on level", "system failure level">>[cmd - \hA0]
DaliType == <<"fluorescent lamp", "emergency lighting", "HID lamp", "dimming bulb",
              "incandescent lamp", "digital signal", "LED">>

(* Tenths of a second; tenths of steps a second. *)
ftime == <<7, 10, 14, 20, 28, 40, 57, 80, 113, 160, 226, 320, 453, 640, 905>>
frate == <<3578, 2530, 1789, 1265, 895, 632, 447, 316, 223, 158, 112, 79, 56, 40, 28>>
DaliFades(data) ==
  LET time == data \div 16
      rate == data % 16
  IN  Pair("fadetime", IF time = 0 THEN Word("<0.7") ELSE Fixed(ftime[time], 1)) \o
      Pair("faderate", IF rate = 0 THEN Word("not applicable") ELSE Fixed(frate[rate], 1))

DaliGroups(name, first, data) ==
  LET in == SelectSeq([i \in 1..8 |-> i - 1], LAMBDA i : Bit(data, i) = 1)
  IN  Pair(name, IF in = <<>> THEN Word("not belong")
                 ELSE List([i \in DOMAIN in |-> Num(first + in[i])], TRUE))

(* The list after a random allocation starts at -1. *)
DaliAllocated(data) ==
  Pair("init addresses",
       IF data = DALI_DATA_ERR THEN Word("not init")
       ELSE List([i \in 1..data + 1 |-> Num(i - 2)], TRUE))

DaliData(cmd, data) ==
  LET level == Num(DaliPercent(data, 0))
      failed(w, v) == IF data = DALI_DATA_ERR THEN Word(w) ELSE v
  IN  CASE cmd = \hF2 -> Pair("init address", Num(data))
        [] cmd = \hF1 -> DaliAllocated(data)
        [] DaliIsYesNo(cmd) ->
             (CASE data = \hFF -> Pair(DaliYesNoName(cmd), Word("yes"))
                [] data = 0    -> Pair(DaliYesNoName(cmd), Word("no"))
                [] OTHER       -> <<>>)
        [] cmd = \h90 -> DaliFlags(data)
        [] cmd = \h97 -> Pair("version", HexText(<<data>>))
        [] cmd = \h98 -> Pair("content", Num(data))
        [] cmd = \h99 -> Pair("type", IF data < 7 THEN Word(DaliType[data + 1]) ELSE Num(data))
        [] cmd = \h9A -> Pair("physical min", Num(data))
        [] cmd \in \hA1..\hA4 -> Pair(DaliLevelName(cmd), level)
        [] cmd = \hA5 -> DaliFades(data)
        [] cmd \in \hB0..\hBF -> PairAt("scene level", cmd - \hB0, failed("not set", level))
        [] cmd = \hC0 -> DaliGroups("groups 0-7", 0, data)
        [] cmd = \hC1 -> DaliGroups("groups 8-15", 8, data)
        [] cmd = \hA0 -> Pair("actual level",
             failed("error", Num(DaliPercent(data, UMDK_DALI_PRECISION))))
        [] OTHER -> <<>>

umdk_dali_reply(d) ==
  LET who == IF At(d, 0) < DALI_INIT_COMMANDS THEN DaliFrom(At(d, 1)) ELSE <<>>
  IN  CASE Len(d) = 1 -> DaliOneByte(d[1])
        [] Len(d) = 2 -> who \o (IF d[1] \in {0, 1} THEN DaliOneByte(d[1]) ELSE <<>>)
        [] OTHER      -> who \o DaliData(At(d, 0), At(d, 2))
=============================================================================
