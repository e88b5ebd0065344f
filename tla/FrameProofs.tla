----------------------------- MODULE FrameProofs -----------------------------
(* Whatever a client asks of a codec, it makes a frame: a sequence, be it empty
   or hold a byte that was never set.  The concatenations of the codecs have no
   meaning otherwise. *)
EXTENDS UnwdsMqtt, SequenceTheorems, FiniteSetTheorems, WellFoundedInduction, TLAPS

(***************************************************************************)
(* Sequences of anything.                                                  *)
(***************************************************************************)
Queue(s) == s \in Seq(Range(s))

LEMMA QueueOf == ASSUME NEW S, NEW s \in Seq(S) PROVE Queue(s) /\ Range(s) \subseteq S
BY SeqOfRange, RangeOfSeq DEF Queue

LEMMA QueueOne == ASSUME NEW e PROVE Queue(<<e>>) /\ Range(<<e>>) = {e} /\ Queue(<<>>) /\ Range(<<>>) = {}
<1>1. <<e>> \in Seq({e}) /\ <<>> \in Seq({e})
    OBVIOUS
<1>2. Range(<<e>>) = {e} /\ Range(<<>>) = {}
    BY DEF Range
<1> QED
    BY <1>1, <1>2, QueueOf DEF Queue

LEMMA QueueConcat ==
    ASSUME NEW s, NEW t, Queue(s), Queue(t)
    PROVE Queue(s \o t) /\ Range(s \o t) = Range(s) \cup Range(t)
<1> DEFINE S == Range(s) \cup Range(t)
<1>1. s \in Seq(S) /\ t \in Seq(S)
    BY SeqMonotonic DEF Queue
<1>2. s \o t \in Seq(S) /\ Range(s \o t) = S
    BY <1>1, RangeConcatenation, ConcatProperties
<1> QED
    BY <1>2 DEF Queue

LEMMA QueueAppend ==
    ASSUME NEW s, NEW e, Queue(s) PROVE Queue(Append(s, e)) /\ Range(Append(s, e)) = Range(s) \cup {e}
<1> DEFINE S == Range(s) \cup {e}
<1>1. s \in Seq(S)
    BY SeqMonotonic DEF Queue
<1>2. Append(s, e) = s \o <<e>>
    BY <1>1, AppendIsConcat
<1> QED
    BY <1>2, QueueOne, QueueConcat

LEMMA QueueTail ==
    ASSUME NEW s, Queue(s), s # <<>>
    PROVE Queue(Tail(s)) /\ Range(Tail(s)) \subseteq Range(s) /\ Head(s) \in Range(s)
<1>1. Tail(s) \in Seq(Range(s)) /\ Head(s) \in Range(s)
    BY HeadTailProperties DEF Queue
<1> QED
    BY <1>1, QueueOf

LEMMA QueueMap == ASSUME NEW n \in Int, NEW s, s = [i \in 1..n |-> s[i]] PROVE Queue(s)
<1>1. CASE n >= 0
    BY <1>1 DEF Queue, Range
<1>2. CASE n < 0
  <2>1. s = [i \in 1..0 |-> s[i]]
      BY <1>2
  <2> QED
      BY <2>1 DEF Queue, Range
<1> QED
    BY <1>1, <1>2

LEMMA QueueSub == ASSUME NEW s, NEW m \in Int, NEW n \in Int PROVE Queue(SubSeq(s, m, n))
<1> DEFINE t == SubSeq(s, m, n)
<1>1. t = [i \in 1..(1 + n - m) |-> t[i]]
    OBVIOUS
<1> QED
    BY <1>1, QueueMap

LEMMA QueueLen == ASSUME NEW s, Queue(s) PROVE Len(s) \in Nat
BY DEF Queue

LEMMA QueueTuples ==
    ASSUME NEW a, NEW b, NEW c, NEW d, NEW e, NEW f
    PROVE  /\ Queue(<<>>) /\ Queue(<<a>>) /\ Queue(<<a, b>>) /\ Queue(<<a, b, c>>)
           /\ Queue(<<a, b, c, d>>) /\ Queue(<<a, b, c, d, e>>) /\ Queue(<<a, b, c, d, e, f>>)
<1>1. <<>> \in Seq({}) /\ <<a>> \in Seq({a}) /\ <<a, b>> \in Seq({a, b}) /\ <<a, b, c>> \in Seq({a, b, c})
    OBVIOUS
<1>2. <<a, b, c, d>> \in Seq({a, b, c, d}) /\ <<a, b, c, d, e>> \in Seq({a, b, c, d, e})
    OBVIOUS
<1>3. <<a, b, c, d, e, f>> \in Seq({a, b, c, d, e, f})
    OBVIOUS
<1> QED
    BY <1>1, <1>2, <1>3, QueueOf

LEMMA QueueWords ==
    ASSUME NEW n, NEW s, Queue(s)
    PROVE  Queue(BE16(n)) /\ Queue(BE32(n)) /\ Queue(Reversed(s)) /\ Queue(From(s, 3))
<1>1. Queue(BE16(n)) /\ Queue(BE32(n))
    BY QueueTuples DEF BE16, BE32
<1>2. Len(s) \in Nat
    BY QueueLen
<1>3. Reversed(s) = [i \in 1..Len(s) |-> Reversed(s)[i]]
    BY <1>2 DEF Reversed
<1>4. Queue(Reversed(s))
    BY <1>2, <1>3, QueueMap
<1>5. Queue(From(s, 3))
    BY <1>2, QueueSub DEF From
<1> QED
    BY <1>1, <1>4, <1>5

(***************************************************************************)
(* Induction, and functions defined by recursion.                          *)
(***************************************************************************)
LEMMA LeastNat == ASSUME NEW T, T \subseteq Nat, T # {} PROVE \E n \in T : \A k \in T : n <= k
<1>1. \E x \in T : \A y \in T : ~(<<y, x>> \in OpToRel(<, Nat))
    BY NatLessThanWellFounded, WFMin
<1>2. ASSUME NEW x \in Nat, NEW y \in Nat, y < x PROVE <<y, x>> \in OpToRel(<, Nat)
  <2>1. <<y, x>> \in {ss \in Nat \X Nat : ss[1] < ss[2]}
      BY <1>2
  <2> QED
      BY <2>1, Zenon DEF OpToRel
<1>3. PICK x \in T : \A y \in T : ~(<<y, x>> \in OpToRel(<, Nat))
    BY <1>1
<1>4. \A k \in T : ~(k < x)
    BY <1>2, <1>3
<1>5. \A k \in T : x <= k
    BY <1>4
<1> QED
    BY <1>5

LEMMA Induction ==
    ASSUME NEW T, 0 \in T, \A n \in Nat : n \in T => n + 1 \in T
    PROVE  Nat \subseteq T
<1> SUFFICES ASSUME Nat \ T # {} PROVE FALSE
    OBVIOUS
<1>1. PICK n \in Nat \ T : \A k \in Nat \ T : n <= k
    BY LeastNat
<1>2. n # 0 /\ n - 1 \in Nat /\ n - 1 \in T
    BY <1>1
<1> QED
    BY <1>1, <1>2

\* A function over 0..N whose value at i is made of that at i - 1.
Recursive(S, a, N, step) ==
    \E f \in [0..N -> S] : f = [i \in 0..N |-> IF i = 0 THEN a ELSE step[i][f[i - 1]]]

LEMMA Recursion ==
    ASSUME NEW S, NEW a \in S, NEW N \in Nat, NEW step \in [1..N -> [S -> S]]
    PROVE  Recursive(S, a, N, step)
<1> DEFINE Upto(f, n) == f = [i \in 0..n |-> IF i = 0 THEN a ELSE step[i][f[i - 1]]]
           T == {n \in Nat : n <= N => \E f \in [0..n -> S] : Upto(f, n)}
<1>1. 0 \in T
  <2>1. [i \in 0..0 |-> a] \in [0..0 -> S] /\ Upto([i \in 0..0 |-> a], 0)
      OBVIOUS
  <2> QED
      BY <2>1
<1>2. ASSUME NEW n \in Nat, n \in T, n + 1 <= N PROVE \E f \in [0..n + 1 -> S] : Upto(f, n + 1)
  <2>1. n <= N
      BY <1>2
  <2>2. PICK f \in [0..n -> S] : Upto(f, n)
      BY <1>2, <2>1
  <2> DEFINE g == [i \in 0..n + 1 |-> IF i = n + 1 THEN step[n + 1][f[n]] ELSE f[i]]
  <2>3. f[n] \in S /\ n + 1 \in 1..N
      BY <1>2
  <2>4. g \in [0..n + 1 -> S]
      BY <2>3
  <2>5. ASSUME NEW i \in 0..n + 1 PROVE g[i] = IF i = 0 THEN a ELSE step[i][g[i - 1]]
    <3>1. CASE i = n + 1
        BY <3>1
    <3>2. CASE i # n + 1
      <4>1. i \in 0..n /\ g[i] = f[i]
          BY <3>2
      <4>2. f[i] = IF i = 0 THEN a ELSE step[i][f[i - 1]]
          BY <2>2, <4>1
      <4>3. i # 0 => g[i - 1] = f[i - 1]
          BY <4>1
      <4> QED
          BY <4>1, <4>2, <4>3
    <3> QED
        BY <3>1, <3>2
  <2>6. Upto(g, n + 1)
      BY <2>5
  <2> QED
      BY <2>4, <2>6
<1>3. \A n \in Nat : n \in T => n + 1 \in T
  <2> SUFFICES ASSUME NEW n \in Nat, n \in T PROVE n + 1 \in T
      OBVIOUS
  <2>1. n + 1 <= N => \E f \in [0..n + 1 -> S] : Upto(f, n + 1)
      BY <1>2
  <2> HIDE DEF Upto
  <2>2. n + 1 \in Nat
      OBVIOUS
  <2> QED
      BY <2>1, <2>2
<1>4. N \in T
  <2> HIDE DEF T
  <2> QED
      BY <1>1, <1>3, Induction
<1>5. \E f \in [0..N -> S] : Upto(f, N)
    BY <1>4
<1> QED
    BY <1>5 DEF Recursive

(***************************************************************************)
(* Commands.  The text a client publishes has a verb, and numbers, text    *)
(* and points after it; a count a frame is as long as is a number that was *)
(* given.  What the gate published itself has nothing a codec takes.       *)
(***************************************************************************)
LEMMA CodedQueue == ASSUME NEW table, NEW c PROVE Queue(Coded(table, c))
BY QueueTuples DEF Coded

LEMMA SensorFrames ==
    ASSUME NEW c
    PROVE  /\ Queue(umdk_adc_command(c)) /\ Queue(umdk_lmt01_command(c)) /\ Queue(umdk_light_command(c))
           /\ Queue(umdk_meteo_command(c)) /\ Queue(umdk_gps_command(c)) /\ Queue(umdk_mhz19_command(c))
           /\ Queue(umdk_hx711_command(c)) /\ Queue(umdk_usound_command(c))
           /\ Queue(umdk_rssiecho_command(c)) /\ Queue(umdk_counter_command(c))
           /\ Queue(umdk_pulse_command(c))
<1>1. /\ Queue(umdk_lmt01_command(c)) /\ Queue(umdk_light_command(c)) /\ Queue(umdk_meteo_command(c))
      /\ Queue(umdk_gps_command(c)) /\ Queue(umdk_mhz19_command(c)) /\ Queue(umdk_usound_command(c))
      /\ Queue(umdk_rssiecho_command(c)) /\ Queue(umdk_counter_command(c))
    BY CodedQueue DEF umdk_lmt01_command, umdk_light_command, umdk_meteo_command, umdk_gps_command,
                      umdk_mhz19_command, umdk_usound_command, umdk_rssiecho_command, umdk_counter_command
<1>2. Queue(umdk_adc_command(c))
  <2>1. \A bits : Queue(<<3, bits>>)
      BY QueueTuples
  <2> QED
      BY <2>1, CodedQueue DEF umdk_adc_command
<1>3. Queue(umdk_hx711_command(c))
  <2>1. Queue(<<3>> \o BE32(c.nums[1]))
      BY QueueTuples, QueueWords, QueueConcat
  <2> QED
      BY <2>1, CodedQueue DEF umdk_hx711_command
<1>4. Queue(umdk_pulse_command(c))
  <2>1. Queue(Reversed(BE32(c.nums[2]))) /\ Queue(Reversed(BE32(c.nums[3]))) /\ Queue(<<3, U8(c.nums[1])>>)
      BY QueueTuples, QueueWords
  <2>2. Queue(<<3, U8(c.nums[1])>> \o Reversed(BE32(c.nums[2])) \o Reversed(BE32(c.nums[3])))
      BY <2>1, QueueConcat
  <2> QED
      BY <2>2, CodedQueue DEF umdk_pulse_command
<1> QED
    BY <1>1, <1>2, <1>3, <1>4

LEMMA Carries ==
    ASSUME NEW c, Whole(c), c.verb # "json"
    PROVE  Queue(c.text) /\ Queue(c.id) /\ Queue(c.points) /\ Queue(c.nums)
<1>1. Queue(c.text) /\ Queue(c.id) /\ Queue(c.points)
    BY DEF Whole, IsSequence, Queue, Range
<1> QED
    BY <1>1, QueueOf DEF Whole

LEMMA ActuatorFrames ==
    ASSUME NEW c, Whole(c)
    PROVE  /\ Queue(umdk_gpio_command(c)) /\ Queue(umdk_pwm_command(c)) /\ Queue(umdk_switch_command(c))
           /\ Queue(umdk_config_command(c)) /\ Queue(umdk_uart_command(c))
           /\ Queue(umdk_irblaster_command(c)) /\ Queue(umdk_hd44780_command(c))
           /\ Queue(umdk_wiegand_command(c)) /\ Queue(umdk_pacs_command(c))
           /\ Queue(umdk_ibutton_command(c)) /\ Queue(umdk_st95_command(c))
           /\ Queue(umdk_idcard_command(c)) /\ Queue(umdk_inclinometer_command(c))
<1> USE QueueTuples, QueueWords, QueueConcat
<1>1. Queue(umdk_gpio_command(c))
    BY DEF umdk_gpio_command
<1>2. Queue(umdk_pwm_command(c))
    BY DEF umdk_pwm_command
<1>3. Queue(umdk_switch_command(c))
    BY CodedQueue DEF umdk_switch_command
<1>4. Queue(umdk_config_command(c))
    BY DEF umdk_config_command
<1>5. Queue(umdk_uart_command(c)) /\ Queue(umdk_irblaster_command(c))
    BY Carries DEF umdk_uart_command, umdk_irblaster_command
<1>6. Queue(umdk_hd44780_command(c))
  <2>1. CASE c.verb \notin {"print", "print_clear"}
      BY <2>1 DEF umdk_hd44780_command
  <2>2. CASE c.verb \in {"print", "print_clear"}
    <3> DEFINE line == (IF c.nums[2] > 9 THEN <<32>> ELSE <<>>) \o c.text
               shown == SubSeq(line, 1, IF Len(line) > 20 THEN 20 ELSE Len(line))
    <3>1. Queue(line)
        BY <2>2, Carries
    <3>2. Len(line) \in Nat
        BY <3>1, QueueLen
    <3> HIDE DEF line
    <3>3. Queue(shown)
        BY <3>2, QueueSub
    <3>4. \A head, position : Queue(<<head, position>> \o shown)
        BY <3>3
    <3> QED
        BY <2>2, <3>4 DEF umdk_hd44780_command, line
  <2> QED
      BY <2>1, <2>2
<1>7. Queue(umdk_wiegand_command(c))
  <2>1. CASE c.verb \notin {"add", "remove"}
      BY <2>1 DEF umdk_wiegand_command
  <2>2. CASE c.verb \in {"add", "remove"}
    <3>1. Queue(c.id)
        BY <2>2, Carries
    <3>2. Queue(From(c.id, 3))
        BY <3>1
    <3>3. \A code, time : Queue(<<code>> \o From(c.id, 3) \o <<Space>> \o BE16(U16(time)))
        BY <3>2
    <3> QED
        BY <2>2, <3>3 DEF umdk_wiegand_command
  <2> QED
      BY <2>1, <2>2
<1>8. Queue(umdk_pacs_command(c))
  <2>1. c.verb \in {"add", "remove"} => Queue(c.id)
      BY Carries
  <2> QED
      BY <2>1 DEF umdk_pacs_command
<1>9. /\ Queue(umdk_ibutton_command(c)) /\ Queue(umdk_st95_command(c))
      /\ Queue(umdk_idcard_command(c)) /\ Queue(umdk_inclinometer_command(c))
    BY DEF umdk_ibutton_command, umdk_st95_command, umdk_idcard_command, umdk_inclinometer_command
<1> QED
    BY <1>1, <1>2, <1>3, <1>4, <1>5, <1>6, <1>7, <1>8, <1>9

LEMMA DaliFrames == ASSUME NEW c PROVE Queue(umdk_dali_command(c))
<1>1. \A cmd, data : Queue(DaliFrame(c, cmd, data, FALSE)) /\ Queue(DaliFrame(c, cmd, data, TRUE))
    BY QueueTuples DEF DaliFrame, DaliInvalid
<1>2. \A e : Queue(<<e>>)
    BY QueueTuples
<1>3. ASSUME NEW code, NEW zero, NEW e PROVE Queue(<<code, zero, e, zero>>)
    BY QueueTuples
<1>4. /\ DOMAIN DaliPlain \cap {"init_rand", "init_single"} = {}
      /\ DOMAIN DaliYesNo \cap {"init_rand", "init_single"} = {}
      /\ DOMAIN DaliLevelled \cap {"init_rand", "init_single"} = {}
      /\ DOMAIN DaliFade \cap {"init_rand", "init_single"} = {}
      /\ DOMAIN DaliNumbered \cap {"init_rand", "init_single"} = {}
    BY DEF DaliPlain, DaliYesNo, DaliLevelled, DaliFade, DaliNumbered
<1>5. CASE c.verb \in {"init_rand", "init_single"}
  <2> DEFINE e == IF c.verb = "init_rand" THEN 0 ELSE U8(c.nums[1])
             code == IF c.verb = "init_rand" THEN \hF1 ELSE \hF2
             zero == 0
  <2>1. umdk_dali_command(c) = <<code, zero, e, zero>>
      BY <1>4, <1>5 DEF umdk_dali_command
  <2> HIDE DEF e, code, zero
  <2> QED
      BY <1>3, <2>1
<1>6. CASE c.verb \notin {"init_rand", "init_single"}
    BY <1>1, <1>2, <1>6 DEF umdk_dali_command, DaliInvalid
<1> QED
    BY <1>5, <1>6

(* What the codec makes is none of the writing frames, unless the verb says so. *)
ModbusOther(c, d) ==
    \/ d = ModbusInvalidCmd
    \/ \E code \in Int \ {\h06, \h10} : \E data : Queue(data) /\ d = ModbusFrame(c, code, data)

LEMMA ModbusVerbs ==
    /\ DOMAIN ModbusWords = {"read_inputs", "read_coils", "read_hold_reg", "read_inp_reg", "read_diagnostic",
                             "write_coil", "write_reg", "get_fifo", "write_mask"}
    /\ DOMAIN ModbusPlain = {"get_exceptions", "get_server_id", "get_event_count", "get_event_log"}
    /\ DOMAIN ModbusMultiple = {"write_mult_coils", "write_mult_regs"}
    /\ DOMAIN ModbusFile = {"file_read", "file_write"}
BY DEF ModbusWords, ModbusPlain, ModbusMultiple, ModbusFile

LEMMA ModbusFrames ==
    ASSUME NEW c, Whole(c)
    PROVE  /\ Queue(umdk_modbus_command(c))
           /\ c.verb \notin {"send", "pack", "set_device", "set_mode", "write_reg", "write_mult_regs"}
                => ModbusOther(c, umdk_modbus_command(c))
<1> DEFINE n == c.nums
<1>1. ASSUME NEW s, Queue(s) PROVE Queue(Words(s))
  <2>1. Words(s) = [i \in 1..2 * Len(s) |-> Words(s)[i]]
      BY <1>1, QueueLen DEF Words
  <2> QED
      BY <1>1, <2>1, QueueLen, QueueMap
<1>2. ASSUME NEW cmd, NEW data, Queue(data) PROVE Queue(ModbusFrame(c, cmd, data))
  <2> DEFINE dest == U8(c.dest)
             sent == SubSeq(data, 1, U8(Len(data)))
  <2>1. U8(Len(data)) \in Int
      BY <1>2, QueueLen DEF U8
  <2>2. Queue(sent)
      BY <2>1, QueueSub
  <2>3. ModbusFrame(c, cmd, data) \in {ModbusInvalidFormat, <<dest, cmd>> \o sent}
      BY DEF ModbusFrame
  <2> HIDE DEF dest, sent
  <2> QED
      BY <2>2, <2>3, QueueTuples, QueueConcat DEF ModbusInvalidFormat
<1>10. ASSUME NEW s, Queue(s) PROVE Queue(Octets(s))
  <2>1. Octets(s) = [i \in 1..Len(s) |-> Octets(s)[i]]
      BY <1>10, QueueLen DEF Octets
  <2> QED
      BY <1>10, <2>1, QueueLen, QueueMap
<1>3. CASE c.verb \in {"send", "pack"}
  <2> DEFINE total == IF c.verb = "pack" THEN U8(3 * Len(c.text)) \div 3 ELSE Len(c.text)
  <2>1. Queue(c.text)
      BY <1>3, Carries
  <2>2. total \in Int
      BY <2>1, QueueLen DEF U8
  <2>3. umdk_modbus_command(c) \in {ModbusInvalidFormat, SubSeq(c.text, 1, total)}
      BY ModbusVerbs, <1>3 DEF umdk_modbus_command, ModbusRaw
  <2> HIDE DEF total
  <2>4. Queue(SubSeq(c.text, 1, total))
      BY <2>2, QueueSub
  <2> QED
      BY <1>3, <2>3, <2>4, QueueTuples DEF ModbusInvalidFormat
<1>4. CASE c.verb \in {"set_device", "set_mode"}
  <2>1. Queue(c.text)
      BY <1>4, Carries
  <2> QED
      BY ModbusVerbs, <1>4, <2>1, QueueTuples, QueueConcat DEF umdk_modbus_command
<1>5. CASE c.verb \in DOMAIN ModbusWords
  <2> DEFINE code == ModbusWords[c.verb]
             words == SubSeq(n, 1, ModbusWordsOf(c.verb))
             data == Words(words)
  <2>1. Queue(words)
      BY QueueSub DEF ModbusWordsOf
  <2>2. code \in Int /\ (c.verb # "write_reg" => code \notin {\h06, \h10})
      BY ModbusVerbs, <1>5 DEF ModbusWords
  <2>3. umdk_modbus_command(c) = ModbusFrame(c, code, data)
      BY ModbusVerbs, <1>5 DEF umdk_modbus_command
  <2> HIDE DEF code, words
  <2>4. Queue(data)
      BY <1>1, <2>1
  <2> HIDE DEF data
  <2> QED
      BY <1>2, <2>2, <2>3, <2>4 DEF ModbusOther
<1>6. CASE c.verb \in DOMAIN ModbusPlain \cup {"get_info"}
  <2>0. Queue(<<>>)
      BY QueueOne
  <2>1. Queue(Octets(SubSeq(n, 1, 3)))
      BY <1>10, QueueSub
  <2> DEFINE code == IF c.verb = "get_info" THEN MODBUS_READ_DEV_INFO ELSE ModbusPlain[c.verb]
             data == IF c.verb = "get_info" THEN Octets(SubSeq(n, 1, 3)) ELSE <<>>
  <2>3. code \in Int \ {\h06, \h10}
      BY ModbusVerbs, <1>6 DEF ModbusPlain, MODBUS_READ_DEV_INFO
  <2>4. umdk_modbus_command(c) = ModbusFrame(c, code, data)
      BY ModbusVerbs, <1>6 DEF umdk_modbus_command
  <2>5. Queue(data)
      BY <2>0, <2>1
  <2> HIDE DEF code, data
  <2> QED
      BY <1>2, <2>3, <2>4, <2>5 DEF ModbusOther
<1>7. CASE c.verb \in DOMAIN ModbusMultiple
  <2>1. n \in Seq(Int) /\ Len(n) >= 3
      BY <1>7 DEF Whole, ModbusMultiple
  <2> DEFINE count == U8(n[3])
  <2>2. count \in Int
      BY <2>1 DEF U8
  <2>3. Queue(Words(SubSeq(n, 1, 2)))
      BY <1>1, QueueSub
  <2> DEFINE data == ModbusMultipleData(c)
             values == SubSeq(n, 4, Len(n))
             given == IF c.verb = "write_mult_regs" THEN Words(SubSeq(values, 1, count \div 2))
                      ELSE Octets(SubSeq(values, 1, count))
             tail == [i \in 1..count |-> At(given, i - 1)]
  <2>4. tail = [i \in 1..count |-> tail[i]]
      OBVIOUS
  <2> HIDE DEF given
  <2>5. Queue(tail)
    <3> HIDE DEF tail, count
    <3> QED
        BY <2>2, <2>4, QueueMap
  <2>6. data = Words(SubSeq(n, 1, 2)) \o <<count>> \o tail
      BY DEF ModbusMultipleData, given
  <2>7. Queue(data)
    <3> HIDE DEF tail, data, count
    <3> QED
        BY <2>3, <2>5, <2>6, QueueTuples, QueueConcat
  <2> HIDE DEF data
  <2> DEFINE code == ModbusMultiple[c.verb]
  <2>8. code \in Int /\ (c.verb # "write_mult_regs" => code \notin {\h06, \h10})
      BY ModbusVerbs, <1>7 DEF ModbusMultiple, MODBUS_WRITE_MULT_REGS
  <2>9. umdk_modbus_command(c) = ModbusFrame(c, code, data)
      BY ModbusVerbs, <1>7 DEF umdk_modbus_command, data
  <2> HIDE DEF code
  <2> QED
      BY <1>2, <2>7, <2>8, <2>9 DEF ModbusOther
<1>8. CASE c.verb \in DOMAIN ModbusFile
  <2>1. n \in Seq(Int) /\ Len(n) >= 5
      BY <1>8 DEF Whole, ModbusFile
  <2>2. 1 + U8(n[1]) \in Int
      BY <2>1 DEF U8
  <2> DEFINE data == ModbusFileData(c)
  <2>3. data = [i \in 1..1 + U8(n[1]) |-> data[i]]
      BY DEF ModbusFileData
  <2> HIDE DEF data
  <2>4. Queue(data)
      BY <2>2, <2>3, QueueMap
  <2> DEFINE code == ModbusFile[c.verb]
  <2>5. code \in Int \ {\h06, \h10}
      BY ModbusVerbs, <1>8 DEF ModbusFile
  <2>6. umdk_modbus_command(c) = ModbusFrame(c, code, data)
      BY ModbusVerbs, <1>8 DEF umdk_modbus_command, data
  <2> HIDE DEF code
  <2> QED
      BY <1>2, <2>4, <2>5, <2>6 DEF ModbusOther
<1>9. CASE c.verb \notin {"send", "pack", "set_device", "set_mode", "get_info"} \cup DOMAIN ModbusWords
                           \cup DOMAIN ModbusPlain \cup DOMAIN ModbusMultiple \cup DOMAIN ModbusFile
    BY <1>9, QueueTuples DEF umdk_modbus_command, ModbusInvalidCmd, ModbusOther
<1> QED
    BY <1>3, <1>4, <1>5, <1>6, <1>7, <1>8, <1>9

LEMMA ShortQueue == ASSUME NEW address PROVE Queue(PrintedShort(Swapped(address)))
<1> DEFINE d == Swapped(address)
           n == Nibbles(d)
           starts == {i \in 1..Len(n) - 1 : n[i] # 0 \/ i = Len(n) - 1}
           first == CHOOSE i \in starts : \A j \in starts : i <= j
           digits == SubSeq(n, first, Len(n))
           short == [i \in 1..(Len(digits) + 1) \div 2 |->
                       IF 2 * i > Len(digits) THEN HalfByte(digits[2 * i - 1])
                       ELSE 16 * digits[2 * i - 1] + digits[2 * i]]
<1>1. Len(n) \in Nat /\ Len(n) > 1
    BY DEF Nibbles, Swapped, Reversed, BE32
<1>2. first \in Int
  <2> HIDE DEF n
  <2>1. Len(n) - 1 \in starts /\ starts \subseteq Nat
      BY <1>1
  <2> HIDE DEF starts
  <2>2. \E i \in starts : \A j \in starts : i <= j
      BY <2>1, LeastNat
  <2>3. first \in starts
      BY <2>2, Zenon
  <2> HIDE DEF first
  <2> QED
      BY <2>1, <2>3
<1> HIDE DEF n, first
<1>3. Len(digits) \in Nat
    BY <1>1, <1>2
<1> HIDE DEF digits
<1>4. Queue(short)
    BY <1>3, QueueMap
<1> HIDE DEF short
<1>5. PrintedShort(d) = short
    BY DEF PrintedShort, n, first, digits, short
<1> QED
    BY <1>4, <1>5 DEF d

LEMMA M200Frames == ASSUME NEW c PROVE Queue(umdk_m200_command(c))
<1>a. /\ DOMAIN M200Query = {"get_serial", "get_number_tariffs", "get_power_limit", "get_power_current",
                             "get_timedate", "get_worktime", "get_uip", "add"}
      /\ \A e : Queue(<<e>>)
      /\ \A a, b : Queue(<<a, b>>)
      /\ Queue(<<>>)
    BY QueueTuples DEF M200Query
<1>1. \A n : Queue(Swapped(n))
  <2>1. \A n : Queue(BE32(n))
      BY QueueOne, QueueWords
  <2> QED
      BY <2>1, QueueWords DEF Swapped
<1>2. ASSUME NEW code, NEW rest, Queue(rest) PROVE Queue(M200Frame(code, c, rest))
    BY <1>a, <1>1, <1>2, QueueConcat DEF M200Frame
<1>3. Queue(M200Error)
    BY <1>a DEF M200Error
<1>4. ASSUME NEW code, NEW e PROVE Queue(M200Frame(code, c, <<>>)) /\ Queue(M200Frame(code, c, <<e>>))
  <2> DEFINE none == <<>>
             one == <<e>>
  <2>1. Queue(none) /\ Queue(one)
      BY QueueOne
  <2> HIDE DEF none, one
  <2>2. Queue(M200Frame(code, c, none)) /\ Queue(M200Frame(code, c, one))
      BY <1>2, <2>1
  <2> QED
      BY <2>2 DEF none, one
<1>v. Queue(M200GetValue(c))
  <2> DEFINE month == CASE c.words[1] = "total"   -> \hFF
                        [] c.words[1] = "current" -> \h0F
                        [] OTHER                  -> U8(c.nums[1] - 1)
  <2>1. M200GetValue(c) \in {M200Error, M200Frame(\h0A, c, <<>>), M200Frame(\h0F, c, <<month>>)}
      BY DEF M200GetValue
  <2> HIDE DEF month
  <2> QED
      BY <1>3, <1>4, <2>1
<1>5. Queue(M200GetValue(c)) /\ Queue(M200GetTime(c)) /\ Queue(M200GetSchedule(c))
    BY <1>3, <1>4, <1>v DEF M200GetTime, M200GetSchedule
<1>6. Queue(M200SetTimedate(c))
  <2> DEFINE time == [i \in 1..7 |-> Bcd(c.nums[i])]
  <2>1. time = [i \in 1..7 |-> time[i]]
      OBVIOUS
  <2> HIDE DEF time
  <2>2. Queue(time)
      BY <2>1 DEF Queue, Range
  <2>3. Queue(M200Frame(\h16, c, time))
      BY <1>2, <2>2
  <2> QED
      BY <2>3 DEF M200SetTimedate, time
<1>7. Queue(M200SetHolidays(c))
  <2> DEFINE days == [i \in 1..32 |->
                        LET k == (i + 1) \div 2
                        IN  IF k \notin DOMAIN c.points THEN \hFF
                            ELSE Bcd(IF i % 2 = 1 THEN c.points[k].day ELSE c.points[k].month)]
  <2>0. days = [i \in 1..32 |-> days[i]]
      OBVIOUS
  <2> HIDE DEF days
  <2>1. Queue(days)
      BY <2>0 DEF Queue, Range
  <2>2. Queue(M200Frame(\hF1, c, days))
      BY <1>2, <2>1
  <2> QED
      BY <2>2 DEF M200SetHolidays, days
<1>8. Queue(M200SetSchedule(c))
  <2> DEFINE place(k) == IF k \in DOMAIN c.points THEN M200Point(c.points[k]) ELSE <<\hFF, \hFF>>
             points == [i \in 1..16 |-> place((i + 1) \div 2)[2 - (i % 2)]]
  <2>0. points = [i \in 1..16 |-> points[i]]
      OBVIOUS
  <2> HIDE DEF points
  <2>1. Queue(points)
      BY <2>0 DEF Queue, Range
  <2>2. \A e : Queue(M200Frame(\h14, c, Append(points, e)))
      BY <1>2, <2>1, QueueAppend
  <2> QED
      BY <1>3, <2>2 DEF M200SetSchedule, points
<1>9. Queue(M200Remove(c))
    BY <1>a, ShortQueue, QueueConcat DEF M200Remove
<1>10. Queue(M200Iface(c))
    BY <1>a DEF M200Iface
<1>11. CASE c.verb = "set_address"
  <2>1. Queue(M200Frame(\h02, c, Swapped(c.nums[1])))
      BY <1>1, <1>2
  <2> QED
      BY <1>a, <1>11, <2>1 DEF umdk_m200_command
<1>12. CASE c.verb # "set_address"
    BY <1>a, <1>3, <1>4, <1>5, <1>6, <1>7, <1>8, <1>9, <1>10, <1>12 DEF umdk_m200_command
<1> QED
    BY <1>11, <1>12

LEMMA TextLenIsNat == ASSUME NEW c, Len(c.points) \in Nat PROVE IecTextLen(c) \in Nat
<1> DEFINE N == Len(c.points)
           w(i) == IecWidth(c, c.points[i])
           more(i) == IF i > 1 THEN 2 ELSE 0
           Upto(f) == f = [i \in 0..N |-> IF i = 0 THEN 0 ELSE f[i - 1] + w(i) + more(i)]
           step == [i \in 1..N |-> [n \in Nat |-> n + w(i) + more(i)]]
<1>1. \A i : w(i) \in Nat
    BY DEF IecWidth, Digits2
<1>2. PICK f \in [0..N -> Nat] : f = [i \in 0..N |-> IF i = 0 THEN 0 ELSE step[i][f[i - 1]]]
  <2>1. step \in [1..N -> [Nat -> Nat]] /\ N \in Nat /\ 0 \in Nat
      BY <1>1
  <2> HIDE DEF step, N
  <2>2. Recursive(Nat, 0, N, step)
      BY <2>1, Recursion
  <2> QED
      BY <2>2 DEF Recursive
<1>3. Upto(f)
  <2>1. ASSUME NEW i \in 1..N PROVE step[i][f[i - 1]] = f[i - 1] + w(i) + more(i)
    <3>1. f[i - 1] \in Nat
        OBVIOUS
    <3> QED
        BY <3>1
  <2>2. \A i \in 0..N : i # 0 => i \in 1..N
      OBVIOUS
  <2> HIDE DEF step, w, more
  <2>3. \A i \in 0..N : (IF i = 0 THEN 0 ELSE step[i][f[i - 1]])
                        = (IF i = 0 THEN 0 ELSE f[i - 1] + w(i) + more(i))
      BY <2>1, <2>2
  <2> QED
      BY <1>2, <2>3
<1>4. ASSUME NEW g, Upto(g) PROVE g[N] \in Nat
  <2> DEFINE T == {n \in Nat : n <= N => g[n] \in Nat}
  <2>1. 0 \in T
      BY <1>4
  <2>2. ASSUME NEW n \in Nat, n \in T PROVE n + 1 \in T
    <3>1. n + 1 <= N => g[n] \in Nat /\ g[n + 1] = g[n] + w(n + 1) + more(n + 1)
        BY <1>4, <2>2
    <3> QED
        BY <3>1, <1>1
  <2>3. N \in T
    <3> HIDE DEF T
    <3> QED
        BY <2>1, <2>2, Induction
  <2> QED
      BY <2>3
<1> QED
    BY <1>3, <1>4 DEF IecTextLen

LEMMA IecParameterQueue == ASSUME NEW c, Whole(c), c.verb # "json" PROVE Queue(IecParameter(c))
<1>1. Queue(c.text) /\ Queue(c.points)
    BY Carries
<1>2. Queue(IecItems(c))
  <2> DEFINE N == 2 * ((IecTextLen(c) + 8) \div 9)
             items == IecItems(c)
  <2>1. N \in Nat
      BY <1>1, QueueLen, TextLenIsNat
  <2>2. items = [k \in 1..N |-> items[k]]
      BY DEF IecItems
  <2> HIDE DEF N, items
  <2>3. Queue(items)
      BY <2>1, <2>2, QueueMap
  <2> QED
      BY <2>3 DEF items
<1>3. \A x, y, z, u, v : Queue(<<x, y, z, u, v>>)
    BY QueueTuples
<1> QED
    BY <1>1, <1>2, <1>3 DEF IecParameter, IecPassword

LEMMA IecFrames == ASSUME NEW c, Whole(c) PROVE Queue(umdk_iec61107_command(c))
<1>a. /\ DOMAIN IecPlain = {"get_init", "get_time", "set_time", "get_date", "set_date", "get_serial",
                            "get_id_device", "get_status", "get_volt", "get_current", "get_power",
                            "get_default_tariff", "set_default_tariff", "get_special_cmd",
                            "get_schedule", "set_schedule", "get_holidays", "set_holidays"}
    BY DEF IecPlain
<1>b. /\ \A e : Queue(<<e>>)
      /\ \A x, y, z : Queue(<<x, y, z>>)
      /\ \A x, y, z, u : Queue(<<x, y, z, u>>)
      /\ \A x, y, z, u, v : Queue(<<x, y, z, u, v>>)
    BY QueueTuples
<1>1. Queue(IecInvalidCmd) /\ Queue(IecInvalidFormat)
    BY <1>b DEF IecInvalidCmd, IecInvalidFormat
<1>2. CASE c.verb = "json"
    BY <1>a, <1>1, <1>2 DEF umdk_iec61107_command
<1>3. CASE c.verb # "json"
  <2>1. Queue(c.text) /\ Queue(c.points)
      BY <1>3, Carries
  <2>2. Queue(IecDatabase(c))
    <3>1. \A x, y, z : Queue(<<x, y, z>> \o c.text)
        BY <1>b, <2>1, QueueConcat
    <3> QED
        BY <1>1, <1>b, <3>1 DEF IecDatabase
  <2>4. Queue(IecParameter(c))
      BY <1>3, IecParameterQueue
  <2>5. \A code, mode, param : Queue(IecFrame(c, code, mode, param))
      BY <1>1, <1>b, <2>4, QueueConcat DEF IecFrame
  <2> QED
      BY <1>a, <1>1, <1>b, <2>2, <2>5 DEF umdk_iec61107_command
<1> QED
    BY <1>2, <1>3

LEMMA HolidayListQueue == ASSUME NEW c PROVE Queue(M230SetHolidays(c))
<1> DEFINE item(m) == IF M230MonthMask(c.days, m) = 0 THEN <<>>
                      ELSE <<m>> \o BE32(M230MonthMask(c.days, m))
           Z == UNION {Range(item(m)) : m \in 1..12}
           S == Seq(Z)
           join(s, m) == s \o item(m)
           Upto(f) == f = [m \in 0..12 |-> IF m = 0 THEN <<>> ELSE join(f[m - 1], m)]
           step == [m \in 1..12 |-> [s \in S |-> join(s, m)]]
<1>1. \A m \in 1..12 : item(m) \in Seq(Z)
  <2> SUFFICES ASSUME NEW m \in 1..12 PROVE item(m) \in Seq(Z)
      OBVIOUS
  <2>0. \A n : Queue(BE32(n))
      BY QueueOne, QueueWords
  <2>1. Queue(item(m))
      BY <2>0, QueueOne, QueueConcat
  <2> HIDE DEF item
  <2>2. Range(item(m)) \subseteq Z
      OBVIOUS
  <2> QED
      BY <2>1, <2>2, SeqMonotonic DEF Queue
<1> HIDE DEF item, Z
<1>s. /\ <<>> \in S /\ \A m \in 1..12 : \A s \in S : join(s, m) \in S
      /\ \A s \in S : Queue(s)
    BY <1>1, ConcatProperties, QueueOf
<1> HIDE DEF S, join
<1>2. PICK f \in [0..12 -> S] : f = [m \in 0..12 |-> IF m = 0 THEN <<>> ELSE step[m][f[m - 1]]]
  <2>1. step \in [1..12 -> [S -> S]]
      BY <1>s
  <2> HIDE DEF step
  <2>2. 12 \in Nat
      OBVIOUS
  <2>3. Recursive(S, <<>>, 12, step)
      BY <1>s, <2>1, <2>2, Recursion
  <2> QED
      BY <2>3 DEF Recursive
<1>3. Upto(f)
  <2>1. \A m \in 1..12 : step[m][f[m - 1]] = join(f[m - 1], m)
    <3> SUFFICES ASSUME NEW m \in 1..12 PROVE step[m][f[m - 1]] = join(f[m - 1], m)
        OBVIOUS
    <3>1. f[m - 1] \in S
        OBVIOUS
    <3> QED
        BY <3>1
  <2>2. \A m \in 0..12 : m # 0 => m \in 1..12
      OBVIOUS
  <2> HIDE DEF step
  <2>3. \A m \in 0..12 : (IF m = 0 THEN <<>> ELSE step[m][f[m - 1]])
                         = (IF m = 0 THEN <<>> ELSE join(f[m - 1], m))
      BY <2>1, <2>2
  <2> QED
      BY <1>2, <2>3
<1>4. ASSUME NEW g, Upto(g) PROVE Queue(g[12])
  <2> DEFINE T == {n \in Nat : n <= 12 => g[n] \in S}
  <2>1. 0 \in T
      BY <1>4, <1>s
  <2>2. ASSUME NEW n \in Nat, n \in T PROVE n + 1 \in T
    <3>1. n + 1 <= 12 => g[n] \in S /\ n + 1 \in 1..12 /\ g[n + 1] = join(g[n], n + 1)
        BY <1>4, <2>2
    <3> QED
        BY <1>s, <3>1
  <2>3. 12 \in T
    <3> HIDE DEF T
    <3> QED
        BY <2>1, <2>2, Induction
  <2> QED
      BY <1>s, <2>3
<1>5. \A d : Queue(<<\hF2, d, \h02>>)
    BY QueueTuples
<1>6. Queue(M230Error)
    BY QueueOne DEF M230Error
<1> DEFINE upto == CHOOSE upto : Upto(upto)
<1>7. Upto(upto)
  <2> HIDE DEF Upto
  <2> QED
      BY <1>3
<1>8. Queue(<<\hF2, c.dest, \h02>> \o upto[12])
  <2> HIDE DEF Upto, upto
  <2> QED
      BY <1>4, <1>5, <1>7, QueueConcat
<1> QED
    BY <1>6, <1>8 DEF M230SetHolidays, item, join

LEMMA M230Frames == ASSUME NEW c PROVE Queue(umdk_m230_command(c))
<1>a. /\ DOMAIN M230Query = {"get_long_time", "get_timedate", "get_serial", "get_soft", "get_error",
                             "get_info", "get_version", "get_load", "get_power_limit", "get_mode_tariff"}
      /\ DOMAIN M230Switch = {"set_mode_pulse", "set_load", "set_mode_power_limit",
                              "set_mode_energy_limit", "set_mode_tariff"}
    BY DEF M230Query, M230Switch
<1>b. /\ \A e : Queue(<<e>>)
      /\ \A x, y : Queue(<<x, y>>)
      /\ \A x, y, z : Queue(<<x, y, z>>)
      /\ \A x, y, z, u : Queue(<<x, y, z, u>>)
    BY QueueTuples
<1>c. \A n : Queue(BE16(n)) /\ Queue(BE32(n))
    BY QueueOne, QueueWords
<1>1. Queue(M230Error)
    BY <1>b DEF M230Error
<1>2. Queue(M230SetSwitch(c)) /\ Queue(M230GetValue(c))
    BY <1>1, <1>b DEF M230SetSwitch, M230GetValue
<1>3. Queue(M230SetTimedate(c))
  <2> DEFINE n == c.nums
             time == [i \in 1..8 |-> Bcd(<<n[3], n[2], n[1], n[4], n[5], n[6], n[7], n[8]>>[i])]
  <2>1. time = [i \in 1..8 |-> time[i]]
      OBVIOUS
  <2> HIDE DEF time
  <2>2. Queue(time)
      BY <2>1 DEF Queue, Range
  <2>3. Queue(<<\h06, c.dest, \h0C>> \o time)
      BY <1>b, <2>2, QueueConcat
  <2> QED
      BY <2>3 DEF M230SetTimedate, time
<1>4. Queue(M230SetPowerLimit(c)) /\ Queue(M230SetEnergyLimit(c))
    BY <1>b, <1>c, QueueConcat DEF M230SetPowerLimit, M230SetEnergyLimit
<1>5. Queue(M230GetHolidays(c)) /\ Queue(M230GetSchedule(c))
  <2>1. \A x, n, e : Queue(<<x, c.dest, \h02>> \o BE16(n) \o <<e>>)
      BY <1>b, <1>c, QueueConcat
  <2> QED
      BY <2>1 DEF M230GetHolidays, M230GetSchedule
<1>6. Queue(M230SetSchedule(c))
  <2> DEFINE point(i) == IF i \in DOMAIN c.points THEN M230Point(c.points[i]) ELSE M230NoPoint
             points == [i \in 1..16 |-> point((i + 1) \div 2)[2 - (i % 2)]]
  <2>1. points = [i \in 1..16 |-> points[i]]
      OBVIOUS
  <2> HIDE DEF points
  <2>2. Queue(points)
      BY <2>1 DEF Queue, Range
  <2>3. \A e : Queue(<<\hF1, c.dest, \h02, e>> \o points)
      BY <1>b, <2>2, QueueConcat
  <2> QED
      BY <1>1, <2>3 DEF M230SetSchedule, points
<1> QED
    BY <1>a, <1>b, <1>1, <1>2, <1>3, <1>4, <1>5, <1>6, HolidayListQueue DEF umdk_m230_command

LEMMA Names ==
    ModuleNames = {"gpio", "4btn", "counter", "gps", "lmt01", "uart", "pir", "adc", "echo", "pwm",
                   "light", "dali", "meteo", "m200", "config", "pulse", "mhz19", "ibutton", "switch",
                   "m230", "inclinometer", "iec61107", "hd44780", "pacs", "idcard", "irblaster",
                   "hx711", "usound", "modbus", "wiegand", "st95"}
BY DEF ModuleNames, unwds_modules_list

(* Every command makes a frame, of whatever type. *)
LEMMA CommandIsFrame ==
    ASSUME NEW type \in ModuleNames \ WithoutCommands, NEW c, Whole(c)
    PROVE  Queue(CommandOf(type, c))
<1>1. type \in ModuleNames \ {"4btn", "pir"}
    BY DEF WithoutCommands
<1> QED
    BY <1>1, Names, SensorFrames, ActuatorFrames, DaliFrames, ModbusFrames, M200Frames, IecFrames, M230Frames
    DEF CommandOf

(* Modules are told apart by their numbers. *)
LEMMA Identifiers ==
    ASSUME NEW a \in ModuleNames, NEW b \in ModuleNames
    PROVE  /\ unwds_modid_by_name(a) \in 1..126
           /\ unwds_modid_by_name(a) = unwds_modid_by_name(b) => a = b
<1> DEFINE list == unwds_modules_list
<1>0. /\ DOMAIN list = 1..31
      /\ \A i \in 1..31 : list[i][1] \in 1..126
    BY DEF unwds_modules_list
<1>1. \A i \in 1..31 : \A j \in 1..31 : list[i][1] = list[j][1] => i = j
    BY SMTT(60) DEF unwds_modules_list
<1> DEFINE place(n) == CHOOSE i \in DOMAIN list : list[i][2] = n
<1> HIDE DEF list
<1>2. ASSUME NEW n \in ModuleNames
      PROVE  place(n) \in 1..31 /\ list[place(n)][2] = n /\ unwds_modid_by_name(n) = list[place(n)][1]
  <2>1. \E i \in DOMAIN list : list[i][2] = n
      BY DEF ModuleNames, list
  <2>2. place(n) \in DOMAIN list /\ list[place(n)][2] = n
      BY <2>1, Zenon
  <2>3. unwds_modid_by_name(n) = list[place(n)][1]
      BY DEF unwds_modid_by_name, list
  <2> QED
      BY <1>0, <2>2, <2>3
<1> HIDE DEF place
<1> QED
    BY <1>0, <1>1, <1>2
=============================================================================
