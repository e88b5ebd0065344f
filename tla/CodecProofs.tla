------------------------------ MODULE CodecProofs ------------------------------
(* The conversions that commands and answers rest on, for every value: what is
   written into a frame is what is read back from it, each at its own place, and
   what is published is JSON. *)
EXTENDS UnwdsMqtt, TLAPS

\* FromBcd undoes Bcd for what two digits can show, and Bcd makes one byte
\* (umdk-m200.c:345-356, umdk-m230.c:735-745).
THEOREM BcdBack ==
    ASSUME NEW n \in 0..99 PROVE FromBcd(Bcd(n)) = n /\ Bcd(n) \in Byte
<1>1. n \div 10 \in 0..9 /\ n % 10 \in 0..9 /\ n = 10 * (n \div 10) + (n % 10)
    OBVIOUS
<1> DEFINE tens == n \div 10
           ones == n % 10
<1> HIDE DEF tens, ones
<1>2. (16 * tens + ones) \div 16 = tens /\ (16 * tens + ones) % 16 = ones /\ 16 * tens + ones \in Byte
    BY <1>1 DEF tens, ones, Byte
<1> QED
    BY <1>1, <1>2 DEF Bcd, FromBcd, tens, ones

\* Sign and magnitude come back as they went in, in 1, 2 and 4 bytes (the codecs use 2
\* and 4; nothing calls the case of 8) and up to the largest magnitude that leaves the
\* sign bit alone (utils.c:195-257).
THEOREM SamBack ==
    ASSUME NEW size \in {1, 2, 4}, NEW v \in (1 - SignBit(size))..(SignBit(size) - 1)
    PROVE  convert_from_be_sam(convert_to_be_sam(v, size), size) = v
<1> DEFINE S == SignBit(size)
<1>1. S \in Nat \ {0}
  <2>1. 8 * 1 - 1 = 7 /\ 8 * 2 - 1 = 15 /\ 8 * 4 - 1 = 31
      OBVIOUS
  <2>2. SignBit(1) = 2^7 /\ SignBit(2) = 2^15 /\ SignBit(4) = 2^31
      BY <2>1, Zenon DEF SignBit
  <2>3. 2^7 \in Nat \ {0} /\ 2^15 \in Nat \ {0} /\ 2^31 \in Nat \ {0}
      OBVIOUS
  <2> QED
      BY <2>2, <2>3
<1>2. v \in (1 - S)..(S - 1)
    OBVIOUS
<1> HIDE DEF S
<1>3. v < 0 => (-v) % S = -v
    BY <1>1, <1>2
<1> QED
    BY <1>1, <1>2, <1>3 DEF convert_from_be_sam, convert_to_be_sam, S

\* A number printed with a decimal point stands for the number it was made of, for
\* every number and the precisions the codecs use (utils.c:144-163).
THEOREM DecimalBack ==
    ASSUME NEW n \in Int, NEW p \in {1, 2, 3, 6} PROVE Denotes(int_to_float_str(n, p)) = n
<1> DEFINE k == 10^p
           a == Abs(n)
<1>1. k \in Nat \ {0}
  <2>1. 10^1 \in Nat \ {0} /\ 10^2 \in Nat \ {0} /\ 10^3 \in Nat \ {0} /\ 10^6 \in Nat \ {0}
      OBVIOUS
  <2> QED
      BY <2>1
<1>2. a \in Nat /\ n = (IF n < 0 THEN -a ELSE a)
    BY DEF Abs
<1> HIDE DEF k, a
<1>3. (a \div k) * k + (a % k) = a
    BY <1>1, <1>2
<1>4. Denotes(int_to_float_str(n, p)) = (IF n < 0 THEN -1 ELSE 1) * ((a \div k) * k + (a % k))
    BY Zenon DEF Denotes, int_to_float_str, k, a
<1>5. Denotes(int_to_float_str(n, p)) = (IF n < 0 THEN -1 ELSE 1) * a
    BY <1>3, <1>4, Zenon
<1> QED
    BY <1>2, <1>5

LEMMA BytesOfWord ==
    ASSUME NEW n \in (-(2^31))..(2^31 - 1)
    PROVE  LET b == BE32(n)
           IN  /\ DOMAIN b = 1..4 /\ Len(b) = 4 /\ \A i \in 1..4 : b[i] \in Byte
               /\ Word32(b[1], b[2], b[3], b[4]) = n
<1> DEFINE h == n \div 256
           g == h \div 256
           f == g \div 256
<1>1. n = 256 * h + (n % 256) /\ h = 256 * g + (h % 256) /\ g = 256 * f + (g % 256)
    OBVIOUS
<1>2. /\ n % 256 \in Byte /\ h % 256 \in Byte /\ g % 256 \in Byte /\ f % 256 \in Byte
      /\ h \in Int /\ g \in Int /\ f \in -128..127
    BY DEF Byte
<1>3. n \div 65536 = g /\ n \div 16777216 = f
    OBVIOUS
<1>4. 2^24 = 16777216 /\ 2^16 = 65536 /\ 2^8 = 256
    OBVIOUS
<1>5. BE32(n) = <<f % 256, g % 256, h % 256, n % 256>>
    BY <1>3, <1>4 DEF BE32, U8
<1>6. (IF f % 256 > 127 THEN (f % 256) - 256 ELSE f % 256) = f
    BY <1>2
<1> HIDE DEF h, g, f
<1>7. Word32(f % 256, g % 256, h % 256, n % 256)
        = f * 16777216 + 65536 * (g % 256) + 256 * (h % 256) + (n % 256)
    BY <1>2, <1>4, <1>6 DEF Word32, Word24, Word16, Byte
<1>8. n = f * 16777216 + 65536 * (g % 256) + 256 * (h % 256) + (n % 256)
    BY <1>1, <1>2 DEF Byte
<1> QED
    BY <1>2, <1>5, <1>7, <1>8

\* The address of a Mercury 200, sent with its lowest byte first, is the same number
\* again when the answer turns the bytes round (umdk-m200.c:104-113, 435).
THEOREM AddressBack ==
    ASSUME NEW address \in (-(2^31))..(2^31 - 1)
    PROVE  LET b == Swapped(address)
           IN  Word32(b[4], b[3], b[2], b[1]) = address
<1> DEFINE w == BE32(address)
<1>1. Len(w) = 4 /\ Word32(w[1], w[2], w[3], w[4]) = address
    BY BytesOfWord, Zenon
<1>2. \A i \in 1..4 : Swapped(address)[i] = w[5 - i]
    BY <1>1 DEF Swapped, Reversed
<1>3. /\ Swapped(address)[4] = w[1] /\ Swapped(address)[3] = w[2]
      /\ Swapped(address)[2] = w[3] /\ Swapped(address)[1] = w[4]
    BY <1>2
<1> QED
    BY <1>1, <1>3

\* A point of a Mercury 230 schedule is read back with its tariff, hour and minute,
\* and is not taken for a place without a point (umdk-m230.c:513-579, 882-904).
THEOREM M230PointBack ==
    ASSUME NEW p, p.tariff \in 1..7, p.hour \in 0..23, p.min \in 0..59
    PROVE  LET b == M230Point(p)
           IN  /\ b[1] = p.min /\ b[2] \div 32 = p.tariff /\ b[2] % 32 = p.hour
               /\ b[2] \in Byte /\ b # M230NoPoint
<1> DEFINE t == p.tariff
           h == p.hour
<1>1. t \in 1..7 /\ h \in 0..23
    OBVIOUS
<1> HIDE DEF t, h
<1>2. (32 * t + h) \div 32 = t /\ (32 * t + h) % 32 = h /\ 32 * t + h \in Byte
    BY <1>1 DEF Byte
<1>3. p.min = 0 /\ 32 * t + h = 56 => FALSE
    BY <1>1
<1> QED
    BY <1>2, <1>3 DEF M230Point, M230NoPoint, t, h

\* The same of a CE102M schedule (umdk-iec61107.c:396-405, 639-658).
THEOREM IecPointBack ==
    ASSUME NEW p, p.tariff \in 0..7, p.hour \in 0..23, p.min \in 0..59
    PROVE  LET b == IecPoint(p)
           IN  b[1] \div 32 = p.tariff /\ b[1] % 32 = p.hour /\ b[2] = p.min /\ b[1] \in Byte
<1> DEFINE t == p.tariff
           h == p.hour
<1>1. t \in 0..7 /\ h \in 0..23
    OBVIOUS
<1> HIDE DEF t, h
<1>2. 32 * t + h \in 0..255
    BY <1>1
<1>3. U8(32 * t + h) = 32 * t + h
    BY <1>2 DEF U8
<1>4. (32 * t + h) \div 32 = t /\ (32 * t + h) % 32 = h
    BY <1>1
<1> QED
    BY <1>2, <1>3, <1>4 DEF IecPoint, Byte, t, h

\* What a Mercury 200 is told of a point stands for its tariff, two bits that count from
\* 0, hour and minute, and is no free place, which is all ones (umdk-m200.c:287-362).
THEOREM M200PointBack ==
    ASSUME NEW p, p.tariff \in 1..4, p.hour \in 0..23, p.min \in 0..59
    PROVE  LET b == M200Point(p)
           IN  /\ b[1] \div 64 + 1 = p.tariff /\ FromBcd(b[1] % 64) = p.hour
               /\ FromBcd(b[2]) = p.min /\ b # <<255, 255>>
<1> DEFINE t == p.tariff
           h == p.hour
           m == p.min
<1>1. t \in 1..4 /\ h \in 0..23 /\ m \in 0..59
    OBVIOUS
<1> HIDE DEF t, h, m
<1>2. FromBcd(Bcd(h)) = h /\ FromBcd(Bcd(m)) = m
    BY <1>1, BcdBack
<1>3. Bcd(h) \in 0..35 /\ Bcd(m) \in 0..89
    BY <1>1 DEF Bcd
<1>4. 64 * (t - 1) + Bcd(h) \in 0..255
    BY <1>1, <1>3
<1>5. U8(64 * (t - 1) + Bcd(h)) = 64 * (t - 1) + Bcd(h)
    BY <1>4 DEF U8
<1>6. (64 * (t - 1) + Bcd(h)) \div 64 = t - 1 /\ (64 * (t - 1) + Bcd(h)) % 64 = Bcd(h)
    BY <1>1, <1>3
<1>7. M200Point(p) = <<64 * (t - 1) + Bcd(h), Bcd(m)>>
    BY <1>5 DEF M200Point, t, h, m
<1> QED
    BY <1>1, <1>2, <1>3, <1>6, <1>7 DEF t, h, m

\* A month and a kind of day have a cell of a Mercury 230 of their own, 34 bytes, that
\* overlaps no other cell and ends before the holidays begin (umdk-m230.c:416-429, 478-500).
THEOREM M230CellsApart ==
    ASSUME NEW m \in 1..12, NEW d \in 1..8, NEW n \in 1..12, NEW e \in 1..8
    PROVE  /\ M230ScheduleAddr(m, d) + 34 <= M230HolidaysAddr(1)
           /\ M230ScheduleAddr(m, d) < M230ScheduleAddr(n, e)
                => M230ScheduleAddr(m, d) + 34 <= M230ScheduleAddr(n, e)
           /\ M230ScheduleAddr(m, d) = M230ScheduleAddr(n, e) => m = n /\ d = e
<1> DEFINE cell(k, f) == 8 * (k - 1) + (f - 1)
<1>1. cell(m, d) \in 0..95 /\ cell(n, e) \in 0..95
    OBVIOUS
<1>2. U8(cell(m, d)) = cell(m, d) /\ U8(cell(n, e)) = cell(n, e)
    BY <1>1 DEF U8
<1>3. M230ScheduleAddr(m, d) = 4096 + 34 * cell(m, d) /\ M230ScheduleAddr(n, e) = 4096 + 34 * cell(n, e)
    BY <1>2 DEF M230ScheduleAddr, M230_BEGIN_ADDR_SCHEDULE, M230_OFFSET_SCHEDULE
<1>4. M230HolidaysAddr(1) = 7424
    BY DEF M230HolidaysAddr, UMDK_M230_BEGIN_ADDR_HOLIDAYS, UMDK_M230_OFFSET_HOLIDAYS
<1>5. cell(m, d) = cell(n, e) => m = n /\ d = e
    OBVIOUS
<1> QED
    BY <1>1, <1>3, <1>4, <1>5

\* Whom a DALI command is for is what its answer says (umdk-dali.c:438-456, 517-539);
\* group 63, which DALI does not have, would be everyone.
THEOREM DaliAddressBack ==
    ASSUME NEW c, c.dest \in 0..63, c.to \in {"dev", "group", "broadcast"}, NEW cmd,
           c.to = "group" => c.dest # 63
    PROVE  DaliFrom(DaliAddress(c, cmd)) =
             CASE c.to = "dev"   -> Pair("address", Num(c.dest))
               [] c.to = "group" -> Pair("group", Num(c.dest))
               [] c.to = "broadcast" -> Pair("address", Num(127))
<1> DEFINE n == IF c.to = "broadcast" THEN 63 ELSE c.dest
           s == IF cmd = DALI_CMD_POWER_CONTROL THEN 0 ELSE 1
           high == IF c.to = "dev" THEN 0 ELSE 128
<1>1. n \in 0..63 /\ s \in 0..1 /\ high \in {0, 128}
    OBVIOUS
<1>2. DaliAddress(c, cmd) = high + 2 * n + s
    BY DEF DaliAddress, DALI_BROADCAST
<1> HIDE DEF n, s, high
<1>3. /\ ((high + 2 * n + s) \div 2) % 64 = n
      /\ high + 2 * n + s < 128 <=> high = 0
    BY <1>1
<1>4. DaliFrom(DaliAddress(c, cmd)) =
        CASE high = 0               -> Pair("address", Num(n))
          [] high # 0 /\ n = 63     -> Pair("address", Num(127))
          [] OTHER                  -> Pair("group", Num(n))
  <2> DEFINE a == high + 2 * n + s
  <2>1. DaliAddress(c, cmd) = a /\ (a \div 2) % 64 = n /\ (a < 128 <=> high = 0) /\ (a >= 128 <=> high # 0)
      BY <1>1, <1>2, <1>3
  <2> HIDE DEF a
  <2> QED
      BY <2>1 DEF DaliFrom, DALI_BROADCAST
<1>5. CASE c.to = "dev"
    BY <1>4, <1>5 DEF n, high
<1>6. CASE c.to = "group"
    BY <1>4, <1>6 DEF n, high
<1>7. CASE c.to = "broadcast"
    BY <1>4, <1>7 DEF n, high
<1> QED
    BY <1>5, <1>6, <1>7

\* Values that are neither lists nor text of a device make a JSON message, as long as
\* they are fewer than a message has room for (unwds-mqtt.c:122-209).
THEOREM QuotesRight ==
    ASSUME NEW pairs, NEW addr, Len(pairs) < MQTT_MSG_MAX_NUM,
           \A i \in DOMAIN pairs : ~Is("items", pairs[i].value) /\ ~Is("chars", pairs[i].value)
    PROVE  LegalJson(build_mqtt_message(pairs, addr))
<1> DEFINE msg == build_mqtt_message(pairs, addr)
<1>1. msg.closed /\ DOMAIN msg.data = DOMAIN pairs
    BY DEF build_mqtt_message
<1>2. ASSUME NEW i \in DOMAIN pairs PROVE LegalValue(msg.data[i].value, msg.data[i].quoted)
  <2>1. msg.data[i].value = pairs[i].value /\ msg.data[i].quoted = NeedsQuotes(pairs[i].value)
      BY DEF build_mqtt_message
  <2> QED
      BY <2>1 DEF LegalValue, NeedsQuotes
<1> QED
    BY <1>1, <1>2 DEF LegalJson
=============================================================================
