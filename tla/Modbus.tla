------------------------------- MODULE Modbus -------------------------------
(***************************************************************************)
(* Modbus devices (src/modules/umdk-modbus.c).  A command is its verb, the *)
(* number of the device, dest, the numbers written after it in hexadecimal *)
(* and, for send, pack and set mode, its text as bytes.                    *)
(***************************************************************************)
EXTENDS MqttMessage

MODBUS_LENGTH_DATA_MAX == 64
MODBUS_PACK_MAX == 80
MODBUS_SET_PARAMS == \hFF
MODBUS_SET_DEVICE == \hFE
MODBUS_WRITE_MULT_REGS == \h10
ModbusInvalidFormat == <<4>>
ModbusInvalidCmd == <<\hFF>>

(* The codes, by what follows each: words of 16 bits, two unless said      *)
(* otherwise, nothing, or frames made below.                               *)
ModbusWords ==
  [read_inputs |-> \h02, read_coils |-> \h01, read_hold_reg |-> \h03,
   read_inp_reg |-> \h04, read_diagnostic |-> \h08, write_coil |-> \h05,
   write_reg |-> \h06, get_fifo |-> \h18, write_mask |-> \h16]
ModbusWordsOf(verb) == CASE verb = "get_fifo" -> 1 [] verb = "write_mask" -> 3 [] OTHER -> 2
ModbusPlain ==
  [get_exceptions |-> \h07, get_server_id |-> \h11, get_event_count |-> \h0B,
   get_event_log |-> \h0C]
ModbusMultiple == [write_mult_coils |-> \h0F, write_mult_regs |-> MODBUS_WRITE_MULT_REGS]
ModbusFile == [file_read |-> \h14, file_write |-> \h15]
MODBUS_READ_DEV_INFO == \h2B

Words(s) ==
  [i \in 1..2 * Len(s) |-> BE16(s[(i + 1) \div 2])[2 - (i % 2)]]
Octets(s) == [i \in 1..Len(s) |-> U8(s[i])]

(* Address, quantity, number of bytes and as much data as that number      *)
(* says; the rest of the buffer is zero.                                   *)
(* Mutant: the data starts one number early. *)
ModbusMultipleDataEarly(c) ==
  LET count == U8(c.nums[3])
      given == Words(SubSeq(c.nums, 3, 2 + count \div 2))
  IN  Words(SubSeq(c.nums, 1, 2)) \o <<count>> \o [i \in 1..count |-> At(given, i - 1)]
ModbusMultipleData(c) ==
  LET n == c.nums
      count == U8(n[3])
      values == SubSeq(n, 4, Len(n))
      given == IF c.verb = "write_mult_regs" THEN Words(SubSeq(values, 1, count \div 2))
               ELSE Octets(SubSeq(values, 1, count))
  IN  Words(SubSeq(n, 1, 2)) \o <<count>> \o [i \in 1..count |-> At(given, i - 1)]

(* Length, type, file, record, number of words, and the words to write; as *)
(* many bytes are sent as the length says.                                 *)
ModbusFileData(c) ==
  LET n == c.nums
      given == Octets(SubSeq(n, 1, 2)) \o Words(SubSeq(n, 3, 5)) \o
               (IF c.verb = "file_write" THEN Words(SubSeq(n, 6, 5 + U16(n[5]))) ELSE <<>>)
  IN  [i \in 1..1 + U8(n[1]) |-> At(given, i - 1)]

(* The length of the data is a uint8_t: a file of 255 bytes has none.      *)
ModbusFrame(c, cmd, data) ==
  LET length == U8(Len(data))
  IN  IF length >= MODBUS_LENGTH_DATA_MAX THEN ModbusInvalidFormat
      ELSE <<U8(c.dest), cmd>> \o SubSeq(data, 1, length)

(* send: whole bytes; pack: bytes with spaces between them, counted in the *)
(* uint8_t length of their text.                                           *)
ModbusRaw(c) ==
  LET total == IF c.verb = "pack" THEN U8(3 * Len(c.text)) \div 3 ELSE Len(c.text)
  IN  IF total >= MODBUS_PACK_MAX THEN ModbusInvalidFormat ELSE SubSeq(c.text, 1, total)

umdk_modbus_command(c) ==
  CASE c.verb \in {"send", "pack"}     -> ModbusRaw(c)
    [] c.verb = "set_device"           -> <<MODBUS_SET_DEVICE, U8(c.dest)>>
    [] c.verb = "set_mode"             -> IF Len(c.text) > 10 THEN <<>>
                                          ELSE <<MODBUS_SET_PARAMS>> \o c.text
    [] c.verb \in DOMAIN ModbusWords   ->
         ModbusFrame(c, ModbusWords[c.verb], Words(SubSeq(c.nums, 1, ModbusWordsOf(c.verb))))
    [] c.verb \in DOMAIN ModbusPlain   -> ModbusFrame(c, ModbusPlain[c.verb], <<>>)
    [] c.verb = "get_info"             -> ModbusFrame(c, MODBUS_READ_DEV_INFO, Octets(SubSeq(c.nums, 1, 3)))
    [] c.verb \in DOMAIN ModbusMultiple ->
         ModbusFrame(c, ModbusMultiple[c.verb], ModbusMultipleData(c))
    [] c.verb \in DOMAIN ModbusFile    ->
         ModbusFrame(c, ModbusFile[c.verb], ModbusFileData(c))
    [] OTHER                           -> ModbusInvalidCmd

(***************************************************************************)
(* Answers.                                                                *)
(***************************************************************************)
ModbusMsg(w) == Pair("msg", Word(w))
ModbusOneByte(b) ==
  CASE b = 0 -> ModbusMsg("ok") [] b = 1 -> ModbusMsg("error")
    [] b = 4 -> ModbusMsg("invalid format") [] b = \hFF -> ModbusMsg("invalid command")
    [] OTHER -> <<>>

(* Of two bytes the status is the first, where the device's number is in   *)
(* longer answers, and it is published as the address too.                 *)
ModbusStatus(b) ==
  IF b \in 0..3
  THEN ModbusMsg(<<"ok", "error", "no response", "rx buffer overflow">>[b + 1])
  ELSE <<>>

ModbusException ==
  [e \in Byte |->
     CASE e = 1 -> ModbusMsg("illegal function") [] e = 2 -> ModbusMsg("illegal address")
       [] e = 3 -> ModbusMsg("illegal value")    [] e = 4 -> ModbusMsg("device failure")
       [] e = 5 -> ModbusMsg("ack")              [] e = 6 -> ModbusMsg("device busy")
       [] e = 7 -> ModbusMsg("nak")              [] e = 8 -> ModbusMsg("memory error")
       [] e = 10 -> ModbusMsg("gateway unavailable")
       [] e = 11 -> ModbusMsg("gateway no response") [] OTHER -> <<>>]

umdk_modbus_reply(d) ==
  LET address == Pair("address", Num(At(d, 0)))
  IN  CASE Len(d) = 1 -> ModbusOneByte(d[1])
        [] Len(d) = 2 -> address \o ModbusStatus(d[1])
        [] Len(d) > 2 /\ At(d, 1) >= \h80 ->
             address \o Pair("exception", Padded(At(d, 2), 2)) \o ModbusException[At(d, 2)]
        [] OTHER -> address \o Pair("data", HexText(From(d, 2)))
=============================================================================
