---------------------------- MODULE MqttMessage ----------------------------
(***************************************************************************)
(* The message published for a mote's answer (src/unwds-mqtt.c): a list of *)
(* name and value pairs, printed as JSON.  A value is text; it is modelled *)
(* by what the text shows, one kind of record for each way of printing.    *)
(***************************************************************************)
EXTENDS Bytes, FiniteSets

CONSTANT MQTT_MSG_MAX_NUM          \* pairs a message has room for
ASSUME MaxNumAssumption == MQTT_MSG_MAX_NUM \in Nat \ {0}

Num(n)         == [num |-> n]                      \* %d
Fixed(n, p)    == [decimal |-> int_to_float_str(n, p)]
Padded(n, w)   == [padded |-> n, width |-> w]      \* %02d and the like
Fields(s, sep) == [fields |-> s, sep |-> sep]      \* %02d:%02d
HexText(d)     == [hex |-> d]                      \* %02X of each byte
Digits(d)      == [digits |-> d]                   \* %02d of each byte, joined
Unsigned(d)    == [unsigned |-> d]                 \* %u, from the bytes of the word
Word(w)        == [word |-> w]
Numbered(w, n) == [prefix |-> w, num |-> n]        \* T%02d
Chars(s)       == [chars |-> s]                    \* text of the device, as codes
Unwritten      == [unwritten |-> TRUE]             \* a buffer nothing was put in
(* [ a, b ]; a list written with ", " after every item ends in a comma. *)
List(items, trailing) == [items |-> items, trailing |-> trailing]

(* A name is a word, or a word and numbers: T01, Address 2, 05.03. *)
Pair(name, value) == <<[name |-> <<name>>, value |-> value]>>
PairAt(name, k, value) == <<[name |-> <<name, k>>, value |-> value]>>
Is(kind, value) == kind \in DOMAIN value

(* add_value_pair takes the first free place; without one it does nothing. *)
add_value_pair(msg, pair) ==
  IF Len(msg) < MQTT_MSG_MAX_NUM THEN msg \o pair ELSE msg
Stored(pairs) == SubSeq(pairs, 1, IF Len(pairs) < MQTT_MSG_MAX_NUM
                                  THEN Len(pairs) ELSE MQTT_MSG_MAX_NUM)

(***************************************************************************)
(* The modules of motes, by number and name, and those that take commands. *)
(***************************************************************************)
unwds_modules_list ==
  <<<<1, "gpio">>, <<2, "4btn">>, <<12, "counter">>, <<3, "gps">>, <<6, "lmt01">>,
    <<7, "uart">>, <<9, "pir">>, <<10, "adc">>, <<13, "echo">>, <<14, "pwm">>,
    <<15, "light">>, <<57, "dali">>, <<17, "meteo">>, <<50, "m200">>, <<126, "config">>,
    <<51, "pulse">>, <<18, "mhz19">>, <<21, "ibutton">>, <<53, "switch">>, <<54, "m230">>,
    <<20, "inclinometer">>, <<55, "iec61107">>, <<22, "hd44780">>, <<52, "pacs">>,
    <<56, "idcard">>, <<24, "irblaster">>, <<25, "hx711">>, <<19, "usound">>,
    <<28, "modbus">>, <<58, "wiegand">>, <<30, "st95">>>>
ModuleNames == {unwds_modules_list[i][2] : i \in DOMAIN unwds_modules_list}
WithoutCommands == {"4btn", "pir"}
UNWDS_MODULE_NOT_FOUND == 255

unwds_modid_by_name(name) ==
  IF name \in ModuleNames
  THEN unwds_modules_list[CHOOSE i \in DOMAIN unwds_modules_list :
                            unwds_modules_list[i][2] = name][1]
  ELSE -1

(***************************************************************************)
(* build_mqtt_message decides the quotes.  strtof takes the whole text of  *)
(* a number, of a date whose only separator is one point, of hexadecimal   *)
(* digits that look like one (1234, 12E4), of the empty string and of a    *)
(* number that begins or ends with its point.                              *)
(***************************************************************************)
Nibbles(d) == [i \in 1..2 * Len(d) |->
                 IF i % 2 = 1 THEN d[(i + 1) \div 2] \div 16 ELSE d[i \div 2] % 16]

HexLooksLikeNumber(d) ==
  LET n == Nibbles(d)
      letters == {i \in DOMAIN n : n[i] > 9}
  IN  \/ letters = {}
      \/ \E i \in 2..Len(n) - 1 : letters = {i} /\ n[i] = 14

Zero == 48
Point == 46
CharDigits == 48..57
CharsAreNumber(s) ==
  /\ \A i \in DOMAIN s : s[i] \in CharDigits \cup {Point}
  /\ Cardinality({i \in DOMAIN s : s[i] = Point}) <= 1
  /\ s # <<Point>>

IsNumberText(v) ==
  \/ DOMAIN v \in {{"num"}, {"decimal"}, {"padded", "width"}, {"digits"}, {"unsigned"}}
  \/ Is("hex", v) /\ HexLooksLikeNumber(v.hex)
  \/ Is("fields", v) /\ v.sep = "." /\ Len(v.fields) = 2
  \/ Is("chars", v) /\ CharsAreNumber(v.chars)

LeadingZero(v) ==
  \/ Is("padded", v) /\ v.width > 1 /\ v.padded < 10^(v.width - 1)
  \/ Is("hex", v) /\ v.hex # <<>> /\ v.hex[1] < 16
  \/ Is("digits", v) /\ v.digits[1] < 10
  \/ Is("fields", v) /\ v.fields[1] < 10
  \/ Is("chars", v) /\ Len(v.chars) > 1 /\ v.chars[1] = Zero /\ v.chars[2] # Point

(* Mutant: what strtof takes goes without quotes. *)
NeedsQuotesText(v) == ~Is("items", v) /\ ~IsNumberText(v)
NeedsQuotes(v) == ~Is("items", v) /\ (~IsNumberText(v) \/ LeadingZero(v))

build_mqtt_message(pairs, addr) ==
  [data   |-> [i \in DOMAIN pairs |->
                 [name |-> pairs[i].name, value |-> pairs[i].value,
                  quoted |-> NeedsQuotes(pairs[i].value)]],
   closed |-> Len(pairs) < MQTT_MSG_MAX_NUM,   \* " }" comes with the free place
   devEUI |-> addr]

(* What JSON takes for a value: a list has no comma after its last item;   *)
(* a number is not missing, has no leading zero and has digits on both     *)
(* sides of its point.                                                     *)
LegalValue(v, quoted) ==
  IF Is("items", v)
  THEN /\ ~(v.trailing /\ v.items # <<>>)
       /\ \A i \in DOMAIN v.items : ~LeadingZero(v.items[i])
  ELSE \/ quoted
       \/ /\ IsNumberText(v) /\ ~LeadingZero(v)
          /\ Is("chars", v) => /\ v.chars # <<>>
                               /\ v.chars[1] # Point /\ v.chars[Len(v.chars)] # Point

LegalJson(message) ==
  /\ message.closed
  /\ \A i \in DOMAIN message.data :
       LegalValue(message.data[i].value, message.data[i].quoted)
=============================================================================
