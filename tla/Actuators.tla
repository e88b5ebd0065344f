----------------------------- MODULE Actuators -----------------------------
(***************************************************************************)
(* The codecs of ports, access control, displays and the mote itself       *)
(* (src/modules/umdk-*.c).  c.text is what a command carries as bytes,     *)
(* c.id the eight bytes of a key.                                          *)
(***************************************************************************)
EXTENDS Sensors

(* Pins: the operation in the upper bits, the number in the lower.  A      *)
(* value other than 0 and 1 leaves the operation 0.                        *)
UMDK_GPIO_SET_0 == 1
UMDK_GPIO_SET_1 == 2
UMDK_GPIO_TOGGLE == 3
UMDK_GPIO_GET_ALL == 4
umdk_gpio_command(c) ==
  LET pin == c.nums[1] % 64
  IN  CASE c.verb = "set"     -> <<CASE c.nums[2] = 0 -> 32 * UMDK_GPIO_SET_0 + (pin % 32)
                                     [] c.nums[2] = 1 -> 32 * UMDK_GPIO_SET_1 + pin
                                     [] OTHER         -> pin>>
        [] c.verb = "get"     -> <<pin % 32>>
        [] c.verb = "get_all" -> <<32 * UMDK_GPIO_GET_ALL>>
        [] c.verb = "toggle"  -> <<64 * UMDK_GPIO_TOGGLE + pin>>
        [] OTHER              -> <<>>

umdk_gpio_reply(d) ==
  LET half(i) == IF i % 2 = 1 THEN At(d, (i + 1) \div 2) % 8
                 ELSE (At(d, i \div 2) \div 16) % 8
  IN  CASE At(d, 0) = 0 -> Pair("value", Num(0))
        [] At(d, 0) = 1 -> Pair("value", Num(1))
        [] At(d, 0) = 5 -> Pair("value", Num(3))
        [] At(d, 0) = 2 -> Msg("set ok")
        [] At(d, 0) = 3 -> Msg("invalid pin")
        [] At(d, 0) = 4 -> Msg("invalid format")
        [] At(d, 0) = 6 -> Pair("gpios", List([i \in 1..2 * (Len(d) - 1) |-> Num(half(i))], TRUE))
        [] OTHER    -> <<>>

(* pin, freq, duty, pulses, soft; 0 when not given *)
umdk_pwm_command(c) ==
  <<1, U8(c.nums[1])>> \o BE16(U16(c.nums[2])) \o <<U8(c.nums[3])>> \o
  BE16(U16(c.nums[4])) \o <<U8(c.nums[5])>>
umdk_pwm_reply(d) == IF At(d, 0) = 1 THEN Reported(From(d, 1), 0, 255) ELSE <<>>

umdk_switch_command(c) ==
  Coded([period |-> <<0, "byte">>, reset |-> <<1, "">>, poll |-> <<2, "">>], c)
umdk_switch_reply(d) ==
  CASE At(d, 0) = 3 -> PairAt("switch", At(d, 1) % 128, Num(At(d, 1) \div 128))
    [] At(d, 0) = 4 -> Pair("status", List([i \in 1..4 |-> Num(Bit(At(d, 1), i - 1))], FALSE))
    [] At(d, 0) = 0 -> Msg("set ok")
    [] OTHER    -> Invalid(d[1])

(* A module is named by its name or by a number; a name nobody has is -1,  *)
(* four bytes when printed.  Its state is a number or a word.              *)
umdk_config_command(c) ==
  LET id == IF c.words[1] = "number" THEN c.nums[1] ELSE unwds_modid_by_name(c.words[1])
      on == CASE c.words[2] = "number" -> c.nums[Len(c.nums)]
              [] c.words[2] = "enable" -> 1 [] OTHER -> 0
  IN  CASE c.verb = "mod"    -> <<0>> \o (IF id < 0 THEN BE32(id) ELSE <<id>>) \o <<on>>
        [] c.verb = "reboot" -> <<1>>
        [] c.verb = "class"  -> <<2, c.text[1]>>
        [] OTHER             -> <<>>
umdk_config_reply(d) == Reported(d, 0, 253)

MaxMode == 10                       \* strlen("115200-8N1")
umdk_uart_command(c) ==
  CASE c.verb = "send"         -> <<0>> \o c.text
    [] c.verb = "set_baudrate" -> IF U8(c.nums[1]) > 10 THEN <<>> ELSE <<1, U8(c.nums[1])>>
    [] c.verb = "set"          -> IF Len(c.text) > MaxMode THEN <<>> ELSE <<2>> \o c.text
    [] OTHER                   -> <<>>
umdk_uart_reply(d) ==
  LET reply(v) == Pair("type", Num(d[1])) \o Pair("msg", v)
  IN  CASE At(d, 0) = 0   -> reply(Word("sent ok"))
        [] At(d, 0) = 1   -> reply(HexText(From(d, 1)))
        [] At(d, 0) = 2   -> reply(Word("baud rate set"))
        [] At(d, 0) = 253 -> reply(Word("rx buffer overrun"))
        [] At(d, 0) = 254 -> reply(Word("invalid format"))
        [] At(d, 0) = 255 -> reply(Word("UART interface error"))
        [] OTHER      -> <<>>

umdk_irblaster_command(c) ==
  IF c.verb = "send" THEN <<0, U8(Len(c.text))>> \o c.text ELSE <<>>
umdk_irblaster_reply(d) == OkOrError(d)

(* Row, column, and the line from the third character after the row: a     *)
(* column of two digits leaves a space in front of it.                     *)
umdk_hd44780_command(c) ==
  LET line == (IF c.nums[2] > 9 THEN <<32>> ELSE <<>>) \o c.text
      position == 32 * (c.nums[1] % 4) + (c.nums[2] % 32) + (IF c.verb = "print_clear" THEN 128 ELSE 0)
  IN  IF c.verb \in {"print", "print_clear"}
      THEN <<0, position>> \o SubSeq(line, 1, IF Len(line) > 20 THEN 20 ELSE Len(line))
      ELSE <<>>
umdk_hd44780_reply(d) == Reported(d, 0, 255)

(* Wiegand: a space is printed between the card and its time. *)
umdk_wiegand_command(c) ==
  LET entry(code, time) == <<code>> \o From(c.id, 3) \o <<Space>> \o BE16(U16(time))
  IN  CASE c.verb = "reset"  -> <<\hFE>>
        [] c.verb = "add"    -> entry(\hFD, c.nums[1])
        [] c.verb = "remove" -> entry(\hFC, 0)
        [] OTHER             -> <<\hFF>>

(* The facility is shifted in 32 bits, which drops its two upper bytes.    *)
umdk_wiegand_reply(d) ==
  LET id == Word16(At(d, 4), At(d, 5))
      action(w) == Pair("action", Word(w))
  IN  IF Len(d) = 1
      THEN CASE At(d, 0) = 0 -> Msg("ok") [] At(d, 0) = 1 -> Msg("error")
             [] At(d, 0) = \hFF -> Msg("invalid command") [] At(d, 0) = 2 -> Msg("not support format")
             [] OTHER -> <<>>
      ELSE Pair("card", Unsigned(<<At(d, 2), At(d, 3), At(d, 4), At(d, 5)>>)) \o
           Pair("ID", Fields(<<At(d, 3), id>>, ",")) \o
           (CASE At(d, 0) = \hFD -> action("added")   [] At(d, 0) = \hFC -> action("removed")
              [] At(d, 0) = 4 -> action("removed by timer") [] At(d, 0) = 5 -> action("granted")
              [] At(d, 0) = 6 -> action("denied")     [] OTHER -> <<>>)

(* Keys are printed highest byte first and read lowest byte first. *)
umdk_pacs_command(c) ==
  CASE c.verb = "reset"  -> <<0>>
    [] c.verb = "add"    -> <<1>> \o c.id \o BE16(U16(c.nums[1]))
    [] c.verb = "remove" -> <<2>> \o c.id
    [] OTHER             -> <<>>
umdk_pacs_reply(d) ==
  LET key == HexText([i \in 1..8 |-> At(d, 9 - i)])
  IN  CASE Len(d) = 1    -> Msg(IF At(d, 0) = 1 THEN "OK" ELSE "ERROR")
        [] At(d, 0) = \h11   -> Pair("GRANTED", key)
        [] At(d, 0) = \h1F   -> Pair("DENIED", key)
        [] At(d, 0) = \h20   -> Pair("Removed by timer", key)
        [] OTHER         -> <<>>

umdk_ibutton_command(c) == <<>>
umdk_ibutton_reply(d) ==
  IF Len(d) = 1 THEN Msg(IF At(d, 0) = 1 THEN "OK" ELSE "ERROR")
  ELSE Pair("id", HexText([i \in 1..8 |-> At(d, 8 - i)]))

umdk_st95_command(c) == <<>>
umdk_st95_reply(d) ==
  IF Len(d) = 1 THEN Msg(IF At(d, 0) = 1 THEN "invalid uid" ELSE "error")
  ELSE Pair("uid", HexText(d))

umdk_idcard_command(c) == <<>>
umdk_idcard_reply(d) == <<>>

umdk_inclinometer_command(c) == <<>>
=============================================================================
