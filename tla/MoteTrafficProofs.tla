-------------------------- MODULE MoteTrafficProofs --------------------------
(* What the gate publishes reaches no mote, what clients publish reaches the mote and
   the module it names, and so does the answer, whatever clients publish, motes report
   and devices answer. *)
EXTENDS MoteTraffic, FrameProofs, CodecProofs

(* None or one of something, made into something else. *)
LEMMA NoneOrOne ==
    ASSUME NEW s, s = <<>> \/ \E e : s = <<e>>, NEW t, t = [i \in DOMAIN s |-> t[i]]
    PROVE  Queue(t)
<1>1. CASE s = <<>>
  <2>1. t = <<>>
      BY <1>1
  <2> QED
      BY <2>1, QueueOne
<1>2. CASE \E e : s = <<e>>
  <2>1. DOMAIN s = {1}
      BY <1>2
  <2>2. t = <<t[1]>>
      BY <2>1
  <2> QED
      BY <2>2, QueueOne
<1> QED
    BY <1>1, <1>2

(***************************************************************************)
(* The invariant: what the gate published carries the mark by which it is  *)
(* known again, an identifier or the direction.                            *)
(***************************************************************************)
KnownAgain == config.qos > 0 \/ config.sepio
Marked(m) ==
    /\ m.mid = 0 <=> config.qos = 0
    /\ config.sepio => Level(m, 4) = "miso"

OwnInv ==
    /\ config.qos \in 0..2 /\ config.sepio \in BOOLEAN
    /\ Queue(todo) /\ \A m \in Range(todo) : m.own = FALSE
    /\ Queue(inbox) /\ \A m \in Range(inbox) : m.own = FALSE \/ Marked(m)
    /\ DOMAIN air = MotesOfGate
    /\ \A mote \in MotesOfGate :
         Queue(air[mote]) /\ (KnownAgain => \A f \in Range(air[mote]) : f.asked.own = FALSE)

LEMMA InitOwn == Init => OwnInv
<1> SUFFICES ASSUME Init PROVE OwnInv
    OBVIOUS
<1>1. PICK s \in Scenarios : config = s.config /\ todo = s.messages
    BY DEF Init
<1>2. inbox = <<>> /\ DOMAIN air = MotesOfGate /\ \A mote \in MotesOfGate : air[mote] = <<>>
    BY DEF Init
<1> QED
    BY <1>1, <1>2, ScenariosAssumption, QueueOne DEF OwnInv, Queue

LEMMA PublishedMarked ==
    ASSUME config.qos \in 0..2, config.sepio \in BOOLEAN, NEW mote, NEW topic
    PROVE  Marked(publish_mqtt_message(mote, topic))
<1> DEFINE m == publish_mqtt_message(mote, topic)
<1>1. m.mid = 0 <=> config.qos = 0
    BY DEF publish_mqtt_message
<1>2. config.sepio => Level(m, 4) = "miso"
    BY DEF publish_mqtt_message, Published, Level
<1> QED
    BY <1>1, <1>2 DEF Marked

(* A message known again reaches nobody. *)
LEMMA MarkedReachesNone ==
    ASSUME KnownAgain, config.qos \in 0..2, NEW m, Marked(m), NEW mote \in MotesOfGate
    PROVE  Reaches(mote, m) = <<>>
<1>1. ~ForMotes(m, config.sepio)
  <2>1. CASE config.qos > 0
      BY <2>1 DEF Marked, ForMotes, ForLora
  <2>2. CASE config.sepio
      BY <2>2, DirectionAssumption DEF Marked, ForMotes, Begins
  <2> QED
      BY <2>1, <2>2 DEF KnownAgain
<1>2. PayloadOf(m, config.sepio) = <<>>
    BY <1>1 DEF PayloadOf
<1> QED
    BY <1>2 DEF Reaches

LEMMA ReachesNoneOrOne ==
    ASSUME NEW m, NEW mote PROVE Reaches(mote, m) = <<>> \/ \E f : Reaches(mote, m) = <<f>>
<1>1. PayloadOf(m, config.sepio) = <<>> \/ \E f : PayloadOf(m, config.sepio) = <<f>>
    BY DEF PayloadOf, convert_from
<1> QED
    BY <1>1 DEF Reaches

LEMMA ConvertedNoneOrOne ==
    ASSUME NEW modid, NEW moddata
    PROVE  Converted(modid, moddata) = <<>> \/ \E r : Converted(modid, moddata) = <<r>>
BY DEF Converted, convert_to

LEMMA CallbackKeeps == ASSUME OwnInv, my_message_callback PROVE OwnInv'
<1> DEFINE m == Head(inbox)
           sent(mote) == [i \in DOMAIN Reaches(mote, m) |-> [frame |-> Reaches(mote, m)[i], asked |-> m]]
<1>1. Queue(inbox') /\ Range(inbox') \subseteq Range(inbox) /\ m \in Range(inbox)
    BY QueueTail DEF OwnInv, my_message_callback
<1>2. ASSUME NEW mote \in MotesOfGate
      PROVE  Queue(air[mote])' /\ (KnownAgain => \A f \in Range(air[mote]) : f.asked.own = FALSE)'
  <2>1. air'[mote] = air[mote] \o sent(mote)
      BY DEF my_message_callback
  <2>2. Queue(sent(mote)) /\ Queue(air[mote])
    <3>1. sent(mote) = [i \in DOMAIN Reaches(mote, m) |-> sent(mote)[i]]
        OBVIOUS
    <3>2. Reaches(mote, m) = <<>> \/ \E f : Reaches(mote, m) = <<f>>
        BY ReachesNoneOrOne
    <3> HIDE DEF sent, m
    <3>3. Queue(sent(mote))
        BY <3>1, <3>2, NoneOrOne
    <3> QED
        BY <3>3 DEF OwnInv
  <2>3. Queue(air'[mote]) /\ Range(air'[mote]) = Range(air[mote]) \cup Range(sent(mote))
      BY <2>1, <2>2, QueueConcat
  <2>4. ASSUME KnownAgain, NEW f \in Range(sent(mote)) PROVE f.asked.own = FALSE
    <3>1. f.asked = m
        BY <2>4 DEF Range
    <3>2. Reaches(mote, m) # <<>>
        BY <2>4 DEF Range
    <3>3. m.own = FALSE
        BY <1>1, <2>4, <3>2, MarkedReachesNone DEF OwnInv
    <3> QED
        BY <3>1, <3>3
  <2>5. config' = config
      BY DEF my_message_callback
  <2> QED
      BY <2>3, <2>4, <2>5 DEF OwnInv, KnownAgain, Queue
<1> QED
    BY <1>1, <1>2 DEF OwnInv, my_message_callback, KnownAgain, Marked

LEMMA ServeReplyKeeps == ASSUME OwnInv, serve_reply PROVE OwnInv'
<1> DEFINE a == Head(answers)
           C == Converted(a.module, a.data)
           own == [i \in DOMAIN C |-> publish_mqtt_message(a.from, C[i].topic)]
<1>1. inbox' = inbox \o own /\ UNCHANGED <<config, todo, air>>
    BY DEF serve_reply
<1>2. Queue(own)
  <2>1. own = [i \in DOMAIN C |-> own[i]]
      OBVIOUS
  <2>2. C = <<>> \/ \E r : C = <<r>>
      BY ConvertedNoneOrOne
  <2> HIDE DEF own, C
  <2> QED
      BY <2>1, <2>2, NoneOrOne
<1>3. Queue(inbox') /\ Range(inbox') = Range(inbox) \cup Range(own)
    BY <1>1, <1>2, QueueConcat DEF OwnInv
<1>4. \A m \in Range(own) : Marked(m)
    BY PublishedMarked DEF Range, OwnInv
<1> QED
    BY <1>1, <1>3, <1>4 DEF OwnInv, KnownAgain, Marked

LEMMA NextOwn == OwnInv /\ [Next]_vars => OwnInv'
<1> SUFFICES ASSUME OwnInv, [Next]_vars PROVE OwnInv'
    OBVIOUS
<1>1. CASE ClientPublishes
  <2>1. /\ Queue(todo') /\ Range(todo') \subseteq Range(todo)
        /\ Queue(inbox') /\ Range(inbox') = Range(inbox) \cup {Head(todo)} /\ Head(todo) \in Range(todo)
      BY <1>1, QueueTail, QueueAppend DEF OwnInv, ClientPublishes
  <2> QED
      BY <1>1, <2>1 DEF OwnInv, ClientPublishes, KnownAgain, Marked
<1>2. ASSUME NEW mote \in MotesOfGate, MoteHears(mote) PROVE OwnInv'
  <2>1. Queue(Tail(air[mote])) /\ Range(Tail(air[mote])) \subseteq Range(air[mote])
      BY <1>2, QueueTail DEF OwnInv, MoteHears
  <2>2. /\ DOMAIN air' = MotesOfGate
        /\ \A other \in MotesOfGate :
             \/ air'[other] = air[other]
             \/ other = mote /\ air'[other] = Tail(air[mote])
      BY <1>2 DEF MoteHears, OwnInv
  <2> QED
    <3>1. UNCHANGED <<config, todo, inbox>>
        BY <1>2 DEF MoteHears
    <3>2. \A other \in MotesOfGate : Queue(air'[other]) /\ Range(air'[other]) \subseteq Range(air[other])
        BY <2>1, <2>2 DEF OwnInv
    <3> QED
        BY <2>2, <3>1, <3>2 DEF OwnInv, KnownAgain, Marked
<1>3. CASE MoteReports
    BY <1>3 DEF OwnInv, MoteReports, KnownAgain, Marked
<1>4. CASE UNCHANGED vars
    BY <1>4 DEF OwnInv, vars, KnownAgain, Marked
<1> QED
    BY <1>1, <1>2, <1>3, <1>4, CallbackKeeps, ServeReplyKeeps DEF Next

\* With a quality of service above 0 or with sepio, no mote hears what the gate
\* published itself, although the gate is subscribed to it: the identifier
\* (mqtt.c:1183) or the direction (mqtt.c:1291) tells it (mqtt.c:1179-1318).
THEOREM OwnPublications == Spec => []OwnNotObeyed
<1>1. OwnInv => OwnNotObeyed
    BY DEF OwnInv, OwnNotObeyed, KnownAgain, Range
<1> QED
    BY InitOwn, NextOwn, <1>1, PTL DEF Spec

(***************************************************************************)
(* Commands reach the mote and the module they name, and so do answers.    *)
(***************************************************************************)
Ordered(m, mote) ==
    /\ Level(m, 3) \in {"*", mote}
    /\ Type(m) \in ModuleNames
Sent(f, mote) ==
    \/ Misprinted(f.asked)
    \/ Ordered(f.asked, mote) /\ f.frame[1] = unwds_modid_by_name(Type(f.asked))
Answered(a) ==
    /\ a.asked = NoMessage \/ \E m : a.asked = <<m>>
    /\ \A m \in Range(a.asked) :
         \/ Misprinted(m)
         \/ /\ Ordered(m, a.from)
            /\ a.module = IF Type(m) \in Equipped[a.from] THEN unwds_modid_by_name(Type(m))
                          ELSE UNWDS_MODULE_NOT_FOUND

ReachInv ==
    /\ \A m \in Range(todo) \cup Range(inbox) : Whole(m.command)
    /\ \A mote \in MotesOfGate : \A f \in Range(air[mote]) : Sent(f, mote)
    /\ Queue(answers) /\ \A a \in Range(answers) : Answered(a)
    /\ \A m \in Range(published.asked) :
         \/ Misprinted(m)
         \/ /\ Level(m, 3) \in {"*", published.to}
            /\ published.topic = IF Type(m) \in Equipped[published.to] THEN Type(m) ELSE "device"

LEMMA InitReach == Init => ReachInv
<1> SUFFICES ASSUME Init PROVE ReachInv
    OBVIOUS
<1>1. PICK s \in Scenarios :
          /\ todo = s.messages /\ inbox = <<>> /\ answers = <<>> /\ published = Unpublished
          /\ air = [mote \in MotesOfGate |-> <<>>]
    BY DEF Init
<1>2. published.asked = <<>> /\ \A mote \in MotesOfGate : air[mote] = <<>>
    BY <1>1 DEF Unpublished, NoMessage
<1>3. Range(<<>>) = {} /\ Queue(<<>>)
    BY QueueOne
<1> QED
    BY <1>1, <1>2, <1>3, ScenariosAssumption DEF ReachInv

LEMMA CardinalityUpTo == \A n \in Nat : Cardinality(1..n) = n
BY FS_Interval

(* What follows a sequence is found behind it. *)
LEMMA FromConcat == ASSUME NEW s, Queue(s), NEW t, Queue(t) PROVE From(s \o t, Len(s)) = t
<1> DEFINE S == Range(s) \cup Range(t)
           from == Len(s) + 1
           upto == Len(s) + Len(t)
<1>1. s \in Seq(S) /\ t \in Seq(S) /\ Len(s) \in Nat /\ Len(t) \in Nat
    BY SeqMonotonic, QueueLen DEF Queue
<1> HIDE DEF S
<1>2. Len(s \o t) = upto
    BY <1>1, ConcatProperties
<1>3. CASE t = <<>>
  <2>1. upto < from
      BY <1>1, <1>3
  <2>2. SubSeq(s \o t, from, upto) = <<>>
      BY <1>1, <2>1, SubSeqEmpty
  <2> QED
      BY <1>2, <1>3, <2>2 DEF From
<1>4. CASE t # <<>>
  <2>1. Len(t) >= 1
      BY <1>1, <1>4
  <2>2. /\ from \in Len(s) + 1..Len(s) + Len(t) /\ upto \in Len(s) + 1..Len(s) + Len(t)
        /\ from - Len(s) = 1 /\ upto - Len(s) = Len(t)
      BY <1>1, <2>1
  <2> HIDE DEF from, upto
  <2>3. SubSeq(s \o t, from, upto) = SubSeq(t, from - Len(s), upto - Len(s))
      BY <1>1, <2>2, SubSeqOfConcat2
  <2>4. SubSeq(t, 1, Len(t)) = t
      BY <1>1, SubSeqFull
  <2> QED
      BY <1>2, <2>2, <2>3, <2>4 DEF From, from
<1> QED
    BY <1>3, <1>4

LEMMA FirstAndRest ==
    ASSUME NEW e, NEW t, Queue(t)
    PROVE  /\ Queue(<<e>> \o t) /\ (<<e>> \o t)[1] = e /\ From(<<e>> \o t, 1) = t
           /\ Len(<<e>> \o t) = 1 + Len(t)
<1> DEFINE S == {e} \cup Range(t)
<1>1. Queue(<<e>>) /\ Len(<<e>>) = 1 /\ <<e>>[1] = e /\ Len(t) \in Nat
    BY QueueOne, QueueLen
<1>2. <<e>> \in Seq(S) /\ t \in Seq(S)
    BY QueueOne, SeqMonotonic DEF Queue
<1> HIDE DEF S
<1>3. /\ Len(<<e>> \o t) = Len(<<e>>) + Len(t)
      /\ \A i \in 1..Len(<<e>>) + Len(t) : (<<e>> \o t)[i] = IF i <= Len(<<e>>) THEN <<e>>[i] ELSE t[i - Len(<<e>>)]
    BY <1>2, ConcatProperties, Zenon
<1>4. From(<<e>> \o t, Len(<<e>>)) = t /\ Queue(<<e>> \o t)
    BY <1>1, FromConcat, QueueConcat
<1> QED
    BY <1>1, <1>3, <1>4

(* An address without a zero in front is printed whole, and read back from the line. *)
LEMMA AddressRead ==
    ASSUME NEW A \in Seq(Byte), Len(A) = 8, A[1] # 0, NEW p, Queue(p)
    PROVE  /\ SubSeq(TrimmedAddress(A) \o p, 1, 8) = A
           /\ From(TrimmedAddress(A) \o p, 8) = p
<1> DEFINE S == Byte \cup Range(p)
<1>1. A \in Seq(S) /\ p \in Seq(S) /\ Len(p) \in Nat
    BY SeqMonotonic, QueueLen DEF Queue
<1>2. SubSeq(A, 1, 8) = A /\ SubSeq(p, 1, Len(p)) = p
    BY <1>1, SubSeqFull
<1>3. TrimmedAddress(A) = A
  <2>1. DOMAIN A = 1..8
      OBVIOUS
  <2>2. \A i \in 1..8 : 1 \in 1..i
      OBVIOUS
  <2>3. {i \in DOMAIN A : \E k \in 1..i : A[k] # 0} = 1..8
      BY <2>1, <2>2
  <2>4. Cardinality(1..8) = 8
      BY CardinalityUpTo
  <2>5. TrimmedAddress(A) = SubSeq(A, 9 - 8, 8)
      BY <2>3, <2>4 DEF TrimmedAddress
  <2> QED
      BY <2>5, <1>2
<1> HIDE DEF S
<1>4. Len(A \o p) = 8 + Len(p)
  <2>1. Len(A \o p) = Len(A) + Len(p)
      BY <1>1, ConcatProperties
  <2> QED
      BY <2>1
<1> DEFINE t == A \o p
<1>5. SubSeq(t, 1, 8) = A
  <2>1. 1 \in 1..Len(A) /\ 8 \in 1..Len(A)
      OBVIOUS
  <2>2. SubSeq(t, 1, 8) = SubSeq(A, 1, 8)
      BY <1>1, <2>1, SubSeqOfConcat1
  <2> QED
      BY <2>2, <1>2
<1>6. SubSeq(t, 9, 8 + Len(p)) = p
  <2>1. CASE p = <<>>
    <3>1. Len(p) = 0
        BY <2>1
    <3>2. SubSeq(t, 9, 8) = <<>>
        OBVIOUS
    <3> QED
        BY <3>1, <3>2, <2>1
  <2>2. CASE p # <<>>
    <3>1. Len(p) >= 1
        BY <1>1, <2>2
    <3> DEFINE from == 9
               upto == 8 + Len(p)
    <3>3. /\ from \in Len(A) + 1..Len(A) + Len(p) /\ upto \in Len(A) + 1..Len(A) + Len(p)
          /\ from - Len(A) = 1 /\ upto - Len(A) = Len(p)
        BY <3>1, <1>1
    <3> HIDE DEF from, upto
    <3>4. SubSeq(t, from, upto) = SubSeq(p, from - Len(A), upto - Len(A))
        BY <1>1, <3>3, SubSeqOfConcat2
    <3> QED
        BY <3>3, <3>4, <1>2 DEF from, upto
  <2> QED
      BY <2>1, <2>2
<1> QED
    BY <1>3, <1>4, <1>5, <1>6 DEF From

(* What reaches a mote of a message is for it, and begins with the number of the module. *)
LEMMA FrameIsMeant ==
    ASSUME NEW mote \in MotesOfGate, NEW m, Whole(m.command), ~Misprinted(m),
           NEW frame, Reaches(mote, m) = <<frame>>
    PROVE  /\ Ordered(m, mote) /\ frame[1] = unwds_modid_by_name(Type(m))
           /\ Type(m) \in ModuleNames \ WithoutCommands
           /\ frame = <<unwds_modid_by_name(Type(m))>> \o CommandOf(Type(m), m.command)
<1> DEFINE type == TypeLevel(m, config.sepio)
           id == unwds_modid_by_name(type)
           p == <<id>> \o CommandOf(type, m.command)
           L == Level(m, 3)
           line == TrimmedAddress(HexAddress[L]) \o p
<1>1. /\ ForMotes(m, config.sepio) /\ type \in ModuleNames \ WithoutCommands
      /\ PayloadOf(m, config.sepio) = <<p>>
  <2>1. PayloadOf(m, config.sepio) # <<>>
      BY DEF Reaches
  <2> QED
      BY <2>1 DEF PayloadOf, convert_from
<1>2. L = "*" \/ L \in MotesOfGate
    BY <1>1 DEF ForMotes, MotesOfGate
<1>3. Queue(p) /\ p[1] = id
  <2>1. Queue(CommandOf(type, m.command))
      BY <1>1, CommandIsFrame
  <2> QED
      BY <2>1, FirstAndRest
<1>4. Type(m) = type
    BY DEF Type
<1> HIDE DEF p, type, id
<1>5. CASE L = "*"
  <2>1. Reaches(mote, m) = <<p>>
      BY <1>1, <1>5 DEF Reaches
  <2> QED
      BY <1>1, <1>3, <1>4, <1>5, <2>1 DEF Ordered, id, p
<1>6. CASE L # "*"
  <2>1. /\ HexAddress[L] \in Seq(Byte) /\ Len(HexAddress[L]) = 8 /\ HexAddress[L][1] # 0
      BY <1>2, <1>6, AddressAssumption DEF Misprinted, MotesOfGate
  <2>2. SubSeq(line, 1, 8) = HexAddress[L] /\ From(line, 8) = p
      BY <2>1, <1>3, AddressRead
  <2>3. Reaches(mote, m) = IF SubSeq(line, 1, 8) = HexAddress[mote] THEN <<From(line, 8)>> ELSE <<>>
    <3>1. PayloadOf(m, config.sepio) # <<>> /\ PayloadOf(m, config.sepio)[1] = p
        BY <1>1
    <3> QED
        BY <3>1, <1>6, Zenon DEF Reaches
  <2> HIDE DEF line
  <2>4. HexAddress[L] = HexAddress[mote] /\ frame = p
    <3>a. <<frame>> # <<>>
        OBVIOUS
    <3>1. SubSeq(line, 1, 8) = HexAddress[mote]
        BY <2>3, <3>a, Zenon
    <3>2. <<frame>> = <<From(line, 8)>>
        BY <2>3, <3>1
    <3> QED
        BY <2>2, <3>1, <3>2
  <2>5. L = mote
      BY <2>4, <1>2, <1>6, SpellingAssumption
  <2> QED
      BY <1>1, <1>3, <1>4, <2>4, <2>5 DEF Ordered, id, p
<1> QED
    BY <1>5, <1>6

(* The module that answers is the one the frame names, if the mote has it. *)
LEMMA ModuleAnswers ==
    ASSUME NEW equipped \in SUBSET ModuleNames, NEW type \in ModuleNames, NEW frame, NEW kept,
           frame[1] = unwds_modid_by_name(type)
    PROVE  Hears(equipped, frame, kept).module =
             IF type \in equipped THEN unwds_modid_by_name(type) ELSE UNWDS_MODULE_NOT_FOUND
<1> DEFINE types == {t \in equipped : unwds_modid_by_name(t) = frame[1]}
<1>1. types = {} <=> type \notin equipped
    BY Identifiers
<1>2. Hears(equipped, frame, kept).module =
        IF types = {} THEN UNWDS_MODULE_NOT_FOUND ELSE frame[1]
    BY Zenon DEF Hears
<1> QED
    BY <1>1, <1>2

(* What is published of an answer goes under the name of the module that gave it. *)
LEMMA TopicOfModule ==
    ASSUME NEW modid, NEW moddata, NEW r, Converted(modid, moddata) = <<r>>
    PROVE  /\ modid = UNWDS_MODULE_NOT_FOUND => r.topic = "device"
           /\ \A type \in ModuleNames : modid = unwds_modid_by_name(type) => r.topic = type
<1>1. ASSUME modid = UNWDS_MODULE_NOT_FOUND PROVE r.topic = "device"
  <2>1. \E pairs : Converted(modid, moddata) = <<[topic |-> "device", pairs |-> pairs]>>
      BY <1>1, Zenon DEF Converted
  <2> QED
      BY <2>1
<1>2. ASSUME NEW type \in ModuleNames, modid = unwds_modid_by_name(type) PROVE r.topic = type
  <2>1. modid # UNWDS_MODULE_NOT_FOUND
      BY <1>2, Identifiers DEF UNWDS_MODULE_NOT_FOUND
  <2> DEFINE t == CHOOSE t \in ModuleNames : unwds_modid_by_name(t) = modid
  <2>2. t \in ModuleNames /\ unwds_modid_by_name(t) = modid
      BY <1>2, Zenon
  <2>3. convert_to(modid, moddata) =
          IF Accepted(t, moddata) THEN <<[topic |-> t, pairs |-> Stored(ReplyOf(t, moddata))]>> ELSE <<>>
      BY <1>2, Zenon DEF convert_to
  <2> HIDE DEF t
  <2>4. t = type
      BY <1>2, <2>2, Identifiers
  <2> QED
      BY <2>1, <2>3, <2>4 DEF Converted
<1> QED
    BY <1>1, <1>2

LEMMA CallbackReach == ASSUME OwnInv, ReachInv, my_message_callback PROVE ReachInv'
<1> DEFINE m == Head(inbox)
           sent(mote) == [i \in DOMAIN Reaches(mote, m) |-> [frame |-> Reaches(mote, m)[i], asked |-> m]]
<1>1. m \in Range(inbox) /\ Range(inbox') \subseteq Range(inbox)
    BY QueueTail DEF OwnInv, my_message_callback
<1>2. Whole(m.command)
    BY <1>1 DEF ReachInv
<1>3. UNCHANGED <<config, todo, answers, published>>
    BY DEF my_message_callback
<1>4. ASSUME NEW mote \in MotesOfGate, NEW f \in Range(air'[mote]) PROVE Sent(f, mote)
  <2>1. air'[mote] = air[mote] \o sent(mote)
      BY DEF my_message_callback
  <2>2. PICK g : Reaches(mote, m) = <<>> \/ Reaches(mote, m) = <<g>>
      BY ReachesNoneOrOne
  <2>3. Queue(sent(mote)) /\ \A e \in Range(sent(mote)) : Reaches(mote, m) = <<e.frame>> /\ e.asked = m
    <3>1. CASE Reaches(mote, m) = <<>>
      <4>1. sent(mote) = <<>>
          BY <3>1
      <4> QED
          BY <4>1, QueueOne
    <3>2. CASE Reaches(mote, m) = <<g>>
      <4>1. sent(mote) = <<[frame |-> g, asked |-> m]>>
          BY <3>2
      <4>2. Queue(sent(mote)) /\ Range(sent(mote)) = {[frame |-> g, asked |-> m]}
          BY <4>1, QueueOne
      <4> QED
          BY <3>2, <4>2
    <3> QED
        BY <2>2, <3>1, <3>2
  <2> HIDE DEF m, sent
  <2>4. f \in Range(air[mote]) \/ f \in Range(sent(mote))
      BY <1>4, <2>1, <2>3, QueueConcat DEF OwnInv
  <2>5. CASE f \in Range(air[mote])
      BY <2>5 DEF ReachInv
  <2>6. CASE f \in Range(sent(mote))
    <3>1. Reaches(mote, m) = <<f.frame>> /\ f.asked = m
        BY <2>3, <2>6
    <3>2. Misprinted(m) \/ (Ordered(m, mote) /\ f.frame[1] = unwds_modid_by_name(Type(m)))
        BY <1>2, <3>1, FrameIsMeant
    <3> QED
        BY <3>1, <3>2 DEF Sent
  <2> QED
      BY <2>4, <2>5, <2>6
<1> QED
    BY <1>1, <1>3, <1>4 DEF ReachInv, Sent, Answered, Ordered, Type

LEMMA HearsReach == ASSUME OwnInv, ReachInv, NEW mote \in MotesOfGate, MoteHears(mote) PROVE ReachInv'
<1> DEFINE f == Head(air[mote])
           m == f.asked
           heard == Hears(Equipped[mote], f.frame, cells[mote])
           said == told[mote][Type(m)]
           meant == Level(m, 3) \in {"*", mote} /\ Type(m) \in Equipped[mote] /\ ~m.own
           a == [from |-> mote, module |-> heard.module, data |-> heard.data, asked |-> <<m>>,
                 shows |-> IF meant THEN Shows(Type(m), m.command, said) ELSE <<>>]
<1>1. /\ answers' = Append(answers, a) /\ air' = [air EXCEPT ![mote] = Tail(@)] /\ air[mote] # <<>>
      /\ UNCHANGED <<config, todo, inbox, published>>
    BY DEF MoteHears
<1>2. Range(Tail(air[mote])) \subseteq Range(air[mote]) /\ f \in Range(air[mote])
    BY <1>1, QueueTail DEF OwnInv
<1>3. Answered(a)
  <2>1. Range(a.asked) = {m}
      BY QueueOne
  <2>2. a.from = mote /\ a.module = heard.module /\ a.asked = <<m>>
      OBVIOUS
  <2>3. Misprinted(m) \/ (Ordered(m, mote) /\ f.frame[1] = unwds_modid_by_name(Type(m)))
      BY <1>2 DEF ReachInv, Sent
  <2>4. ASSUME ~Misprinted(m)
        PROVE  heard.module = IF Type(m) \in Equipped[mote] THEN unwds_modid_by_name(Type(m))
                              ELSE UNWDS_MODULE_NOT_FOUND
      BY <2>3, <2>4, ModuleAnswers, EquippedAssumption DEF Ordered
  <2> HIDE DEF a, m, f
  <2> QED
      BY <2>1, <2>2, <2>3, <2>4 DEF Answered
<1> HIDE DEF a
<1>4. Queue(answers') /\ \A b \in Range(answers') : Answered(b)
    BY <1>1, <1>3, QueueAppend DEF ReachInv
<1>5. ASSUME NEW other \in MotesOfGate PROVE Range(air'[other]) \subseteq Range(air[other])
    BY <1>1, <1>2 DEF OwnInv
<1> QED
    BY <1>1, <1>4, <1>5 DEF ReachInv, Sent, Answered, Ordered, Type

LEMMA ServeReplyReach == ASSUME OwnInv, ReachInv, serve_reply PROVE ReachInv'
<1> DEFINE a == Head(answers)
           C == Converted(a.module, a.data)
           own == [i \in DOMAIN C |-> publish_mqtt_message(a.from, C[i].topic)]
<1>1. /\ inbox' = inbox \o own /\ answers' = Tail(answers) /\ answers # <<>>
      /\ UNCHANGED <<config, todo, air>>
    BY DEF serve_reply
<1>2. /\ Queue(answers') /\ Range(answers') \subseteq Range(answers) /\ a \in Range(answers)
    BY <1>1, QueueTail DEF ReachInv
<1>3. ASSUME NEW m \in Range(inbox') PROVE Whole(m.command)
  <2>1. Queue(own)
    <3>1. own = [i \in DOMAIN C |-> own[i]]
        OBVIOUS
    <3>2. C = <<>> \/ \E r : C = <<r>>
        BY ConvertedNoneOrOne
    <3> HIDE DEF own, C
    <3> QED
        BY <3>1, <3>2, NoneOrOne
  <2>2. \A e \in Range(own) : Whole(e.command)
      BY DEF Range, publish_mqtt_message, Whole
  <2> HIDE DEF own
  <2>3. Range(inbox') = Range(inbox) \cup Range(own)
      BY <1>1, <2>1, QueueConcat DEF OwnInv
  <2> QED
      BY <2>2, <2>3 DEF ReachInv
<1>4. ASSUME NEW m \in Range(published'.asked), ~Misprinted(m)
      PROVE  /\ Level(m, 3) \in {"*", published'.to}
             /\ published'.topic = IF Type(m) \in Equipped[published'.to] THEN Type(m) ELSE "device"
  <2>1. CASE C = <<>>
    <3>1. published' = published
        BY <2>1 DEF serve_reply
    <3> QED
        BY <1>4, <3>1 DEF ReachInv
  <2>2. CASE C # <<>>
    <3>1. PICK r : C = <<r>>
        BY <2>2, ConvertedNoneOrOne
    <3>2. published'.to = a.from /\ published'.topic = r.topic /\ published'.asked = a.asked
        BY <2>2, <3>1 DEF serve_reply
    <3>3. /\ Ordered(m, a.from)
          /\ a.module = IF Type(m) \in Equipped[a.from] THEN unwds_modid_by_name(Type(m))
                        ELSE UNWDS_MODULE_NOT_FOUND
        BY <1>2, <1>4, <3>2 DEF ReachInv, Answered
    <3>4. /\ a.module = UNWDS_MODULE_NOT_FOUND => r.topic = "device"
          /\ \A type \in ModuleNames : a.module = unwds_modid_by_name(type) => r.topic = type
        BY <3>1, TopicOfModule
    <3> QED
        BY <3>2, <3>3, <3>4 DEF Ordered
  <2> QED
      BY <2>1, <2>2
<1> QED
    BY <1>1, <1>2, <1>3, <1>4 DEF ReachInv, Sent, Answered, Ordered, Type

LEMMA NextReach == OwnInv /\ ReachInv /\ [Next]_vars => ReachInv'
<1> SUFFICES ASSUME OwnInv, ReachInv, [Next]_vars PROVE ReachInv'
    OBVIOUS
<1>1. CASE ClientPublishes
  <2>1. Range(todo') \cup Range(inbox') \subseteq Range(todo) \cup Range(inbox)
      BY <1>1, QueueTail, QueueAppend DEF OwnInv, ClientPublishes
  <2> QED
      BY <1>1, <2>1 DEF ReachInv, ClientPublishes, Sent, Answered, Ordered, Type
<1>2. CASE MoteReports
  <2> DEFINE r == Head(reports)
             a == [from |-> r.from, module |-> r.module, data |-> r.data,
                   asked |-> NoMessage, shows |-> r.shows]
  <2>1. answers' = Append(answers, a) /\ UNCHANGED <<config, todo, inbox, air, published>>
      BY <1>2 DEF MoteReports
  <2>2. Answered(a)
    <3>1. a.asked = NoMessage /\ Range(a.asked) = {}
        BY QueueOne DEF NoMessage
    <3> HIDE DEF a
    <3> QED
        BY <3>1 DEF Answered
  <2> HIDE DEF a
  <2>3. Queue(answers') /\ \A b \in Range(answers') : Answered(b)
      BY <2>1, <2>2, QueueAppend DEF ReachInv
  <2> QED
      BY <2>1, <2>3 DEF ReachInv, Sent, Answered, Ordered, Type
<1>3. CASE UNCHANGED vars
    BY <1>3 DEF ReachInv, vars, Sent, Answered, Ordered, Type
<1> QED
    BY <1>1, <1>2, <1>3, CallbackReach, HearsReach, ServeReplyReach DEF Next

\* What a mote hears was meant for it, and what is published under a mote and a module
\* is the answer of that mote and module to the command, whatever was published and
\* reported in between; addresses that begin with a zero byte are the exception
\* (mqtt.c:1145, the branches of my_message_callback and serve_reply at 1291 and 495).
THEOREM CommandsReach == Spec => []ReachesItsMote
<1>1. OwnInv /\ ReachInv => ReachesItsMote
  <2> SUFFICES ASSUME OwnInv, ReachInv PROVE ReachesItsMote
      OBVIOUS
  <2>1. ASSUME NEW mote \in MotesOfGate, NEW i \in DOMAIN air[mote]
        PROVE  Misprinted(air[mote][i].asked) \/ Level(air[mote][i].asked, 3) \in {"*", mote}
    <3>1. air[mote][i] \in Range(air[mote])
        BY DEF Range
    <3> QED
        BY <3>1 DEF ReachInv, Sent, Ordered
  <2> QED
      BY <2>1 DEF ReachInv, ReachesItsMote
<1>2. Init => OwnInv /\ ReachInv
    BY InitOwn, InitReach
<1>3. (OwnInv /\ ReachInv) /\ [Next]_vars => (OwnInv /\ ReachInv)'
    BY NextOwn, NextReach
<1> QED
    BY <1>1, <1>2, <1>3, PTL DEF Spec

(***************************************************************************)
(* What a client is shown of a device is what the commands before said.    *)
(* What a device keeps agrees with what it was told, command by command.   *)
(***************************************************************************)
Unsigned16 == 0..65535            \* a word, as the codec writes it

(* A Modbus command as the codec can carry it: registers and their number in 16 bits,
   as many values as the command counts and its frame holds, answers that fit the
   buffer of umdk_modbus_reply; and no writing in frames given byte by byte. *)
ModbusProper(c) ==
    LET n == c.nums
    IN  /\ c.verb \in {"send", "pack"} => At(c.text, 1) \notin {\h06, \h10}
        /\ c.verb \in {"write_reg", "read_hold_reg", "write_mult_regs"} =>
             c.dest \in 0..253 /\ n[1] \in Unsigned16
        /\ c.verb \in {"write_reg", "read_hold_reg"} => Len(n) = 2
        /\ c.verb = "read_hold_reg" => n[2] \in 0..24
        /\ c.verb = "write_mult_regs" => n[2] \in 0..29 /\ n[3] = 2 * n[2] /\ Len(n) = 3 + n[2]
RegisterSaid(c, r) == IF c.verb = "write_reg" THEN c.nums[2] ELSE c.nums[4 + r - c.nums[1]]
ModbusAgrees(said, mem) ==
    /\ DOMAIN mem = {p \in DOMAIN said : p[1] = "register"}
    /\ \A p \in DOMAIN mem : mem[p] = BE16(RegisterSaid(said[p], p[3]))

Signed32 == (-(2^31))..(2^31 - 1)         \* an address, as an int

(* A Mercury 200 command as the codec can carry it: an address of 32 bits, months, days
   and times that exist, one to eight points, numbers of two digits; and not set_time,
   which is a command of another meter. *)
M200Told == {"set_schedule", "set_timedate", "set_number_tariffs"}
M200Asks == {"get_schedule", "get_timedate", "get_number_tariffs"}
M200PointProper(p) == p.tariff \in 1..4 /\ p.hour \in 0..23 /\ p.min \in 0..59
M200Proper(c) ==
    LET n == c.nums
    IN  /\ c.verb # "set_time"
        /\ c.verb \in M200Told \cup M200Asks => c.dest \in Signed32
        /\ c.verb = "set_schedule" =>
             /\ Len(c.points) \in 1..8
             /\ \A i \in 1..Len(c.points) : M200PointProper(c.points[i])
             /\ c.words[1] = "year" \/ (c.words[1] = "month" /\ n[1] \in 1..12)
             /\ c.words[2] \in DOMAIN M200Days \/ (c.words[2] = "day" /\ n[Len(n)] \in 0..7)
        /\ c.verb = "get_schedule" => n[1] \in 1..12 /\ n[2] \in 0..7
        /\ c.verb = "set_timedate" => n[1] \in 0..7 /\ \A i \in 1..7 : n[i] \in 0..99
        /\ c.verb = "set_number_tariffs" => n[1] \in Byte

(* What a meter keeps of a command. *)
M200Bytes(points) ==
    [i \in 1..16 |->
       (IF (i + 1) \div 2 \in DOMAIN points THEN M200Point(points[(i + 1) \div 2])
        ELSE <<\hFF, \hFF>>)[2 - (i % 2)]]
M200Cell(c) ==
    CASE c.verb = "set_schedule" -> M200Bytes(c.points)
      [] c.verb = "set_timedate" -> [i \in 1..7 |-> c.nums[i]]
      [] c.verb = "set_number_tariffs" -> <<c.nums[1]>>

(* A CE102M command as the codec can carry it: numbers in a byte, one to twelve points, a
   time that fits the buffer of umdk_iec61107_reply, no query too short to be taken; and
   not set_timedate, which is a command of another meter. *)
IecTold == {"set_schedule", "set_time"}
IecAsks == {"get_schedule", "get_time"}
IecPointProper(p) == p.tariff \in 0..7 /\ p.hour \in 0..23 /\ p.min \in 0..59
IecProper(c) ==
    /\ c.verb # "set_timedate"
    /\ c.verb \in IecTold \cup IecAsks => c.dest \in Byte
    /\ c.verb \in {"set_schedule", "get_schedule"} => c.nums[1] \in Byte
    /\ c.verb = "set_schedule" =>
         /\ Len(c.points) \in 1..12
         /\ \A i \in 1..Len(c.points) : IecPointProper(c.points[i])
    /\ c.verb = "set_time" => Len(c.text) \in 1..99 /\ \A i \in 1..Len(c.text) : c.text[i] \in 1..127
    /\ c.verb \in IecAsks => ~IecTooShort(c)
IecKept(bytes) == [i \in DOMAIN bytes |-> IF bytes[i] \in Byte THEN bytes[i] ELSE 0]
IecCell(c) == IecKept(IecParameter(c))

Proper(type, c) ==
    CASE type = "modbus" -> ModbusProper(c)
      [] type = "m200" -> M200Proper(c)
      [] type = "iec61107" -> IecProper(c)
Cell(type, c) == CASE type = "m200" -> M200Cell(c) [] type = "iec61107" -> IecCell(c)

(* What was said of a place and what the meter keeps there are the same. *)
Same(type, said, mem, p, q, verb) ==
    /\ p \in DOMAIN said <=> q \in DOMAIN mem
    /\ p \in DOMAIN said => /\ said[p].verb = verb /\ Whole(said[p]) /\ Proper(type, said[p])
                            /\ mem[q] = Cell(type, said[p])
M200Agrees(said, mem) ==
    /\ \A a \in Signed32 :
         /\ Same("m200", said, mem, <<"time", a>>, <<"time", Swapped(a)>>, "set_timedate")
         /\ Same("m200", said, mem, <<"tariffs", a>>, <<"tariffs", Swapped(a)>>, "set_number_tariffs")
    /\ \A a \in Signed32, m \in 1..12, k \in 0..7 :
         Same("m200", said, mem, <<"schedule", a, m, k>>, <<"schedule", Swapped(a), m - 1, k>>, "set_schedule")
IecAgrees(said, mem) ==
    \A a \in Byte :
      /\ Same("iec61107", said, mem, <<"time", a>>, <<"parameter", a, IecPlain["set_time"][1], 0>>, "set_time")
      /\ \A k \in Byte : Same("iec61107", said, mem, <<"schedule", a, k>>, <<"parameter", a, SCHEDULE, k>>, "set_schedule")
Agrees(type, said, mem) ==
    CASE type = "modbus" -> ModbusAgrees(said, mem)
      [] type = "m200" -> M200Agrees(said, mem)
      [] type = "iec61107" -> IecAgrees(said, mem)

FromGate == [verb |-> "json"]
Memory(type, c, mem) == Over(Serves(type, CommandOf(type, c), mem).writes, mem)
Faithful(type) ==
    \A c, said, mem : Agrees(type, said, mem) =>
      /\ Agrees(type, said, Memory(type, FromGate, mem))
      /\ Whole(c) /\ Proper(type, c) =>
           /\ Agrees(type, Over([thing \in Sets(type, c, said) |-> c], said), Memory(type, c, mem))
           /\ Shows(type, c, said) # <<>> =>
                Converted(unwds_modid_by_name(type), Serves(type, CommandOf(type, c), mem).answer)
                  = <<[topic |-> type, pairs |-> Shows(type, c, said)[1]]>>

NoZeroInFront == \A level \in MotesOfGate : HexAddress[level][1] # 0
AsksProperly(type) ==
    \A s \in Scenarios : \A m \in Range(s.messages) :
      TypeLevel(m, s.config.sepio) = type => Proper(type, m.command)

Asked(type, m) ==
    /\ Whole(m.command)
    /\ \/ m.own = TRUE /\ m.command = FromGate
       \/ m.own = FALSE /\ (Type(m) = type => Proper(type, m.command))
Framed(f) ==
    /\ Type(f.asked) \in ModuleNames \ WithoutCommands
    /\ f.frame = <<unwds_modid_by_name(Type(f.asked))>> \o CommandOf(Type(f.asked), f.asked.command)
Meant(type, a) ==
    \A m \in Range(a.asked) :
      /\ ~Misprinted(m)
      /\ Type(m) = type /\ a.shows # <<>> =>
           Converted(a.module, a.data) = <<[topic |-> type, pairs |-> a.shows[1]]>>

ReadInv(type) ==
    /\ DOMAIN told = MotesOfGate /\ DOMAIN cells = MotesOfGate
    /\ \A mote \in MotesOfGate : DOMAIN told[mote] = ModuleNames /\ DOMAIN cells[mote] = ModuleNames
    /\ \A m \in Range(todo) \cup Range(inbox) : Asked(type, m)
    /\ \A mote \in MotesOfGate : \A f \in Range(air[mote]) :
         Asked(type, f.asked) /\ Framed(f) /\ ~Misprinted(f.asked)
    /\ \A mote \in MotesOfGate :
         type \in Equipped[mote] => Agrees(type, told[mote][type], cells[mote][type])
    /\ \A a \in Range(answers) : Meant(type, a)
    /\ published.asked = NoMessage \/ \E m : published.asked = <<m>>
    /\ \A m \in Range(published.asked) :
         published.topic = type /\ published.shows # <<>> => published.pairs = published.shows[1]

(* A mote leaves what it keeps as it is, or serves the module that the frame names. *)
LEMMA HearsModule ==
    ASSUME NEW equipped \in SUBSET ModuleNames, NEW T \in ModuleNames, NEW kept,
           NEW frame, frame[1] = unwds_modid_by_name(T)
    PROVE  LET served == Serves(T, From(frame, 1), kept[T])
           IN  /\ T \notin equipped => Hears(equipped, frame, kept).kept = kept
               /\ T \in equipped =>
                    Hears(equipped, frame, kept) = [kept |-> [kept EXCEPT ![T] = Over(served.writes, kept[T])],
                                                    module |-> unwds_modid_by_name(T), data |-> served.answer]
<1> DEFINE types == {t \in equipped : unwds_modid_by_name(t) = frame[1]}
           H == Hears(equipped, frame, kept)
           served == Serves(T, From(frame, 1), kept[T])
<1>1. types = {t \in equipped : t = T}
    BY Identifiers
<1>2. CASE T \notin equipped
  <2>1. types = {}
      BY <1>1, <1>2
  <2>2. H.kept = kept
      BY <2>1 DEF Hears
  <2> QED
      BY <2>2, <1>2
<1>3. CASE T \in equipped
  <2>1. types = {T}
      BY <1>1, <1>3
  <2> DEFINE type == CHOOSE t \in types : TRUE
  <2>2. type = T
    <3>1. type \in types
        BY <2>1, Zenon
    <3> QED
        BY <3>1, <2>1
  <2>3. H = [kept |-> [kept EXCEPT ![type] = Over(Serves(type, From(frame, 1), kept[type]).writes, @)],
             module |-> frame[1], data |-> Serves(type, From(frame, 1), kept[type]).answer]
    <3>1. types # {}
        BY <2>1
    <3> QED
        BY <3>1, Zenon DEF Hears
  <2> HIDE DEF type
  <2>4. H = [kept |-> [kept EXCEPT ![T] = Over(served.writes, kept[T])], module |-> frame[1], data |-> served.answer]
      BY <2>2, <2>3
  <2> QED
      BY <2>4, <1>3
<1> QED
    BY <1>2, <1>3

LEMMA InitRead ==
    ASSUME NEW type, AsksProperly(type), Agrees(type, Nothing, Nothing), Init
    PROVE  ReadInv(type)
<1>1. PICK s \in Scenarios :
          /\ config = s.config /\ todo = s.messages /\ inbox = <<>> /\ answers = <<>>
          /\ published = Unpublished
          /\ air = [mote \in MotesOfGate |-> <<>>]
          /\ cells = [mote \in MotesOfGate |-> [t \in ModuleNames |-> Nothing]]
          /\ told = [mote \in MotesOfGate |-> [t \in ModuleNames |-> Nothing]]
    BY DEF Init
<1>2. published.asked = <<>> /\ \A mote \in MotesOfGate : air[mote] = <<>>
    BY <1>1 DEF Unpublished, NoMessage
<1>3. Range(<<>>) = {}
    BY QueueOne
<1>4. \A m \in Range(todo) : Asked(type, m)
    BY <1>1, ScenariosAssumption DEF AsksProperly, Asked, Type
<1>5. \A mote \in MotesOfGate : type \in Equipped[mote] => Agrees(type, told[mote][type], cells[mote][type])
    BY <1>1, EquippedAssumption
<1> QED
    BY <1>1, <1>2, <1>3, <1>4, <1>5 DEF ReadInv, NoMessage

LEMMA CallbackRead ==
    ASSUME NEW type, NoZeroInFront, OwnInv, ReachInv, ReadInv(type), my_message_callback
    PROVE  ReadInv(type)'
<1> DEFINE m == Head(inbox)
           sent(mote) == [i \in DOMAIN Reaches(mote, m) |-> [frame |-> Reaches(mote, m)[i], asked |-> m]]
<1>1. m \in Range(inbox) /\ Range(inbox') \subseteq Range(inbox)
    BY QueueTail DEF OwnInv, my_message_callback
<1>2. Asked(type, m)
    BY <1>1 DEF ReadInv
<1>3. UNCHANGED <<config, todo, answers, published, told, cells>>
    BY DEF my_message_callback
<1>4. ASSUME NEW mote \in MotesOfGate, NEW f \in Range(air'[mote])
      PROVE  Asked(type, f.asked) /\ Framed(f) /\ ~Misprinted(f.asked)
  <2>1. air'[mote] = air[mote] \o sent(mote)
      BY DEF my_message_callback
  <2>2. PICK g : Reaches(mote, m) = <<>> \/ Reaches(mote, m) = <<g>>
      BY ReachesNoneOrOne
  <2>3. Queue(sent(mote)) /\ \A e \in Range(sent(mote)) : Reaches(mote, m) = <<e.frame>> /\ e.asked = m
    <3>1. CASE Reaches(mote, m) = <<>>
      <4>1. sent(mote) = <<>>
          BY <3>1
      <4> QED
          BY <4>1, QueueOne
    <3>2. CASE Reaches(mote, m) = <<g>>
      <4>1. sent(mote) = <<[frame |-> g, asked |-> m]>>
          BY <3>2
      <4>2. Queue(sent(mote)) /\ Range(sent(mote)) = {[frame |-> g, asked |-> m]}
          BY <4>1, QueueOne
      <4> QED
          BY <3>2, <4>2
    <3> QED
        BY <2>2, <3>1, <3>2
  <2> HIDE DEF m, sent
  <2>4. f \in Range(air[mote]) \/ f \in Range(sent(mote))
      BY <1>4, <2>1, <2>3, QueueConcat DEF OwnInv
  <2>5. CASE f \in Range(air[mote])
      BY <2>5 DEF ReadInv
  <2>6. CASE f \in Range(sent(mote))
    <3>1. Reaches(mote, m) = <<f.frame>> /\ f.asked = m /\ Whole(m.command)
        BY <2>3, <2>6, <1>2 DEF Asked
    <3>2. ForMotes(m, config.sepio)
      <4>1. PayloadOf(m, config.sepio) # <<>>
          BY <3>1 DEF Reaches
      <4> QED
          BY <4>1 DEF PayloadOf
    <3>3. ~Misprinted(m)
        BY <3>2, NoZeroInFront DEF NoZeroInFront, Misprinted, ForMotes, MotesOfGate
    <3> QED
        BY <1>2, <3>1, <3>3, FrameIsMeant DEF Framed
  <2> QED
      BY <2>4, <2>5, <2>6
<1> QED
    BY <1>1, <1>3, <1>4 DEF ReadInv, Asked, Framed, Meant, Type

LEMMA HearsRead ==
    ASSUME NEW type \in ModuleNames, Faithful(type), OwnInv, ReachInv, ReadInv(type),
           NEW mote \in MotesOfGate, MoteHears(mote)
    PROVE  ReadInv(type)'
<1> DEFINE f == Head(air[mote])
           m == f.asked
           T == Type(m)
           c == m.command
           kept == cells[mote]
           said == told[mote][T]
           heard == Hears(Equipped[mote], f.frame, kept)
           meant == Level(m, 3) \in {"*", mote} /\ T \in Equipped[mote] /\ ~m.own
           shows == IF meant THEN Shows(T, c, said) ELSE <<>>
           a == [from |-> mote, module |-> heard.module, data |-> heard.data, asked |-> <<m>>, shows |-> shows]
<1>1. /\ answers' = Append(answers, a) /\ air' = [air EXCEPT ![mote] = Tail(@)] /\ air[mote] # <<>>
      /\ cells' = [cells EXCEPT ![mote] = heard.kept]
      /\ told' = IF ~meant THEN told ELSE [told EXCEPT ![mote][T] = Over([thing \in Sets(T, c, said) |-> c], said)]
      /\ UNCHANGED <<config, todo, inbox, published>>
    BY DEF MoteHears
<1>2. Range(Tail(air[mote])) \subseteq Range(air[mote]) /\ f \in Range(air[mote])
    BY <1>1, QueueTail DEF OwnInv
<1>3. /\ Asked(type, m) /\ ~Misprinted(m) /\ Ordered(m, mote)
      /\ T \in ModuleNames \ WithoutCommands /\ f.frame = <<unwds_modid_by_name(T)>> \o CommandOf(T, c)
    BY <1>2 DEF ReadInv, ReachInv, Framed, Sent
<1>4. /\ DOMAIN heard.kept = ModuleNames
      /\ \A t \in Equipped[mote] : t # T => heard.kept[t] = kept[t]
      /\ T \in Equipped[mote] =>
           /\ heard.kept[T] = Memory(T, c, kept[T])
           /\ heard.module = unwds_modid_by_name(T)
           /\ heard.data = Serves(T, CommandOf(T, c), kept[T]).answer
  <2>1. Equipped[mote] \in SUBSET ModuleNames /\ DOMAIN kept = ModuleNames
      BY <1>3, EquippedAssumption DEF ReadInv
  <2>2. f.frame[1] = unwds_modid_by_name(T) /\ From(f.frame, 1) = CommandOf(T, c)
    <3>1. Queue(CommandOf(T, c))
        BY <1>3, CommandIsFrame DEF Asked
    <3> HIDE DEF f, T, c
    <3> QED
        BY <1>3, <3>1, FirstAndRest
  <2> DEFINE E == Equipped[mote]
             F == f.frame
             d == CommandOf(T, c)
             served == Serves(T, d, kept[T])
  <2>3. /\ E \in SUBSET ModuleNames /\ T \in ModuleNames
        /\ F[1] = unwds_modid_by_name(T) /\ From(F, 1) = d
      BY <1>3, <2>1, <2>2
  <2>4. heard = Hears(E, F, kept) /\ Over(served.writes, kept[T]) = Memory(T, c, kept[T])
      BY DEF Memory
  <2> HIDE DEF f, kept, m, T, c, heard, E, F, d
  <2>5. /\ T \notin E => Hears(E, F, kept).kept = kept
        /\ T \in E =>
             Hears(E, F, kept) = [kept |-> [kept EXCEPT ![T] = Over(served.writes, kept[T])],
                                  module |-> unwds_modid_by_name(T), data |-> served.answer]
      BY <2>3, HearsModule, Zenon
  <2> HIDE DEF served
  <2>6. T \in E =>
          /\ heard.kept = [kept EXCEPT ![T] = Memory(T, c, kept[T])]
          /\ heard.module = unwds_modid_by_name(T) /\ heard.data = served.answer
      BY <2>4, <2>5
  <2> QED
      BY <1>3, <2>1, <2>4, <2>5, <2>6 DEF served, E, d
<1>5. Level(m, 3) \in {"*", mote}
    BY <1>3 DEF Ordered
<1>6. meant <=> T \in Equipped[mote] /\ m.own # TRUE
    BY <1>5
<1>7. /\ DOMAIN told' = MotesOfGate /\ DOMAIN cells' = MotesOfGate
      /\ \A mo \in MotesOfGate : DOMAIN told'[mo] = ModuleNames /\ DOMAIN cells'[mo] = ModuleNames
  <2> HIDE DEF f, heard, meant, kept, said
  <2> QED
      BY <1>1, <1>3, <1>4 DEF ReadInv
<1>8. ASSUME T \in Equipped[mote], T = type
      PROVE  /\ Agrees(type, told'[mote][type], cells'[mote][type])
             /\ shows # <<>> => Converted(a.module, a.data) = <<[topic |-> type, pairs |-> shows[1]]>>
  <2>1. Agrees(type, said, kept[type])
      BY <1>8 DEF ReadInv
  <2>2. cells'[mote][type] = Memory(type, c, kept[type])
      BY <1>1, <1>4, <1>8 DEF ReadInv
  <2>3. CASE m.own = TRUE /\ c = FromGate
    <3>1. told' = told /\ shows = <<>>
        BY <1>1, <2>3
    <3> QED
        BY <2>1, <2>2, <2>3, <3>1, <1>8 DEF Faithful
  <2>4. CASE m.own = FALSE /\ Proper(type, c)
    <3>1. meant /\ Whole(c)
        BY <1>3, <1>6, <1>8, <2>4 DEF Asked
    <3>2. told'[mote][type] = Over([thing \in Sets(type, c, said) |-> c], said)
        BY <1>1, <1>8, <3>1, <1>3 DEF ReadInv
    <3>3. shows = Shows(type, c, said)
        BY <3>1, <1>8
    <3>4. a.module = unwds_modid_by_name(type) /\ a.data = Serves(type, CommandOf(type, c), kept[type]).answer
        BY <1>4, <1>8
    <3> HIDE DEF a, shows, said, kept, c
    <3> QED
        BY <2>1, <2>2, <2>4, <3>1, <3>2, <3>3, <3>4 DEF Faithful
  <2> QED
      BY <1>3, <1>8, <2>3, <2>4 DEF Asked
<1>9. ASSUME NEW mo \in MotesOfGate, type \in Equipped[mo]
      PROVE  Agrees(type, told'[mo][type], cells'[mo][type])
  <2>1. CASE mo # mote
    <3>1. told'[mo] = told[mo] /\ cells'[mo] = cells[mo]
        BY <1>1, <2>1, <1>9 DEF ReadInv
    <3> QED
        BY <3>1, <1>9 DEF ReadInv
  <2>2. CASE mo = mote /\ T = type
      BY <2>2, <1>8, <1>9
  <2>3. CASE mo = mote /\ T # type
    <3>1. cells'[mo][type] = cells[mo][type]
        BY <1>1, <1>4, <1>9, <2>3 DEF ReadInv
    <3>2. told'[mo][type] = told[mo][type]
      <4> HIDE DEF meant, said, T, c
      <4>1. type \in DOMAIN told[mote] /\ mote \in DOMAIN told
          BY DEF ReadInv
      <4> QED
          BY <1>1, <2>3, <4>1
    <3> QED
        BY <3>1, <3>2, <1>9 DEF ReadInv
  <2> QED
      BY <2>1, <2>2, <2>3
<1>10. Meant(type, a)
  <2>1. Range(a.asked) = {m} /\ a.shows = shows
      BY QueueOne
  <2>2. T = type /\ shows # <<>> => Converted(a.module, a.data) = <<[topic |-> type, pairs |-> shows[1]]>>
      BY <1>8, <1>6
  <2> HIDE DEF a, shows, f
  <2> QED
      BY <2>1, <2>2, <1>3 DEF Meant
<1> HIDE DEF a
<1>11. \A b \in Range(answers') : Meant(type, b)
  <2>1. Range(answers') = Range(answers) \cup {a}
      BY <1>1, QueueAppend DEF ReachInv
  <2> QED
      BY <2>1, <1>10 DEF ReadInv
<1>12. \A mo \in MotesOfGate : Range(air'[mo]) \subseteq Range(air[mo])
    BY <1>1, <1>2 DEF OwnInv
<1> QED
    BY <1>1, <1>7, <1>9, <1>11, <1>12 DEF ReadInv, Asked, Framed, Meant, Type

LEMMA ServeRead ==
    ASSUME NEW type \in ModuleNames, OwnInv, ReachInv, ReadInv(type), serve_reply
    PROVE  ReadInv(type)'
<1> DEFINE a == Head(answers)
           C == Converted(a.module, a.data)
           own == [i \in DOMAIN C |-> publish_mqtt_message(a.from, C[i].topic)]
<1>1. /\ inbox' = inbox \o own /\ answers' = Tail(answers) /\ answers # <<>>
      /\ UNCHANGED <<config, todo, air, cells, told>>
    BY DEF serve_reply
<1>2. /\ Range(answers') \subseteq Range(answers) /\ a \in Range(answers)
    BY <1>1, QueueTail DEF ReachInv
<1>3. ASSUME NEW m \in Range(inbox') PROVE Asked(type, m)
  <2>1. Queue(own)
    <3>1. own = [i \in DOMAIN C |-> own[i]]
        OBVIOUS
    <3>2. C = <<>> \/ \E r : C = <<r>>
        BY ConvertedNoneOrOne
    <3> HIDE DEF own, C
    <3> QED
        BY <3>1, <3>2, NoneOrOne
  <2>2. \A e \in Range(own) : Asked(type, e)
      BY DEF Range, publish_mqtt_message, Whole, Asked, FromGate
  <2> HIDE DEF own
  <2>3. Range(inbox') = Range(inbox) \cup Range(own)
      BY <1>1, <2>1, QueueConcat DEF OwnInv
  <2> QED
      BY <2>2, <2>3 DEF ReadInv
<1>4. /\ published'.asked = NoMessage \/ \E m : published'.asked = <<m>>
      /\ \A m \in Range(published'.asked) :
           published'.topic = type /\ published'.shows # <<>> => published'.pairs = published'.shows[1]
  <2>1. CASE C = <<>>
    <3>1. published' = published
        BY <2>1 DEF serve_reply
    <3> QED
        BY <3>1 DEF ReadInv
  <2>2. CASE C # <<>>
    <3>1. PICK r : C = <<r>>
        BY <2>2, ConvertedNoneOrOne
    <3>2. /\ published'.topic = r.topic /\ published'.asked = a.asked
          /\ published'.pairs = r.pairs /\ published'.shows = a.shows
        BY <2>2, <3>1 DEF serve_reply
    <3>3. a.asked = NoMessage \/ \E m : a.asked = <<m>>
        BY <1>2 DEF ReachInv, Answered
    <3>4. ASSUME NEW m \in Range(a.asked), r.topic = type, a.shows # <<>> PROVE r.pairs = a.shows[1]
      <4>1. /\ ~Misprinted(m)
            /\ Type(m) = type => Converted(a.module, a.data) = <<[topic |-> type, pairs |-> a.shows[1]]>>
          BY <1>2, <3>4 DEF ReadInv, Meant
      <4>2. /\ Type(m) \in ModuleNames
            /\ a.module = IF Type(m) \in Equipped[a.from] THEN unwds_modid_by_name(Type(m))
                          ELSE UNWDS_MODULE_NOT_FOUND
          BY <1>2, <3>4, <4>1 DEF ReachInv, Answered, Ordered
      <4>3. /\ a.module = UNWDS_MODULE_NOT_FOUND => r.topic = "device"
            /\ \A t \in ModuleNames : a.module = unwds_modid_by_name(t) => r.topic = t
          BY <3>1, TopicOfModule
      <4>4. type # "device"
          BY Names
      <4>5. Type(m) = type
          BY <3>4, <4>2, <4>3, <4>4
      <4>6. <<r>> = <<[topic |-> type, pairs |-> a.shows[1]]>>
          BY <3>1, <4>1, <4>5
      <4> QED
          BY <4>6
    <3> HIDE DEF a
    <3> QED
        BY <3>2, <3>3, <3>4
  <2> QED
      BY <2>1, <2>2
<1> QED
    BY <1>1, <1>2, <1>3, <1>4 DEF ReadInv, Asked, Framed, Meant, Type

LEMMA NextRead ==
    ASSUME NEW type \in ModuleNames, Faithful(type), NoZeroInFront,
           OwnInv, ReachInv, ReadInv(type), [Next]_vars
    PROVE  ReadInv(type)'
<1>1. CASE ClientPublishes
  <2>1. Range(todo') \cup Range(inbox') \subseteq Range(todo) \cup Range(inbox)
      BY <1>1, QueueTail, QueueAppend DEF OwnInv, ClientPublishes
  <2> QED
      BY <1>1, <2>1 DEF ReadInv, ClientPublishes, Asked, Framed, Meant, Type
<1>2. CASE MoteReports
  <2> DEFINE r == Head(reports)
             a == [from |-> r.from, module |-> r.module, data |-> r.data,
                   asked |-> NoMessage, shows |-> r.shows]
  <2>1. answers' = Append(answers, a) /\ UNCHANGED <<config, todo, inbox, air, cells, published, told>>
      BY <1>2 DEF MoteReports
  <2>2. Meant(type, a)
    <3>1. Range(a.asked) = {}
        BY QueueOne DEF NoMessage
    <3> HIDE DEF a
    <3> QED
        BY <3>1 DEF Meant
  <2> HIDE DEF a
  <2>3. \A b \in Range(answers') : Meant(type, b)
    <3>1. Range(answers') = Range(answers) \cup {a}
        BY <2>1, QueueAppend DEF ReachInv
    <3> QED
        BY <2>2, <3>1 DEF ReadInv
  <2> QED
      BY <2>1, <2>3 DEF ReadInv, Asked, Framed, Meant, Type
<1>3. CASE UNCHANGED vars
    BY <1>3 DEF ReadInv, vars, Asked, Framed, Meant, Type
<1> QED
    BY <1>1, <1>2, <1>3, CallbackRead, HearsRead, ServeRead DEF Next

(***************************************************************************)
(* Sequences byte by byte, and what is laid over a function.               *)
(***************************************************************************)
LEMMA ConcatAt ==
    ASSUME NEW s, Queue(s), NEW t, Queue(t)
    PROVE  /\ Queue(s \o t) /\ Len(s \o t) = Len(s) + Len(t)
           /\ \A i \in 1..Len(s) : (s \o t)[i] = s[i]
           /\ \A i \in 1..Len(t) : (s \o t)[Len(s) + i] = t[i]
<1> DEFINE S == Range(s) \cup Range(t)
<1>1. s \in Seq(S) /\ t \in Seq(S) /\ Len(s) \in Nat /\ Len(t) \in Nat
    BY SeqMonotonic, QueueLen DEF Queue
<1> HIDE DEF S
<1>2. /\ Len(s \o t) = Len(s) + Len(t)
      /\ \A i \in 1..Len(s) + Len(t) : (s \o t)[i] = IF i <= Len(s) THEN s[i] ELSE t[i - Len(s)]
    BY <1>1, ConcatProperties
<1>3. \A i \in 1..Len(s) : (s \o t)[i] = s[i]
    BY <1>1, <1>2
<1>4. ASSUME NEW i \in 1..Len(t) PROVE (s \o t)[Len(s) + i] = t[i]
    BY <1>1, <1>2
<1> QED
    BY <1>2, <1>3, <1>4, QueueConcat

(* What is seen of two bytes and what follows them. *)
TwoThen(d, a, b, t) ==
    /\ Queue(d) /\ Len(d) = 2 + Len(t) /\ d[1] = a /\ d[2] = b
    /\ At(d, 0) = a /\ At(d, 1) = b /\ From(d, 2) = t
    /\ \A i \in 1..Len(t) : d[i + 2] = t[i]

LEMMA AfterTwo ==
    ASSUME NEW a, NEW b, NEW t, Queue(t)
    PROVE  TwoThen(<<a, b>> \o t, a, b, t)
<1> DEFINE d == <<a, b>> \o t
<1>1. Queue(<<a, b>>) /\ Len(<<a, b>>) = 2 /\ Len(t) \in Nat
    BY QueueTuples, QueueLen
<1>2. /\ Queue(d) /\ Len(d) = 2 + Len(t)
      /\ \A i \in 1..2 : d[i] = <<a, b>>[i]
      /\ \A i \in 1..Len(t) : d[2 + i] = t[i]
    BY <1>1, ConcatAt
<1>3. From(d, 2) = t
    BY <1>1, FromConcat
<1> HIDE DEF d
<1>4. d[1] = a /\ d[2] = b
    BY <1>2
<1>5. At(d, 0) = a /\ At(d, 1) = b
    BY <1>1, <1>2, <1>4 DEF At
<1>6. \A i \in 1..Len(t) : d[i + 2] = t[i]
    BY <1>1, <1>2
<1>7. TwoThen(d, a, b, t)
    BY <1>2, <1>3, <1>4, <1>5, <1>6 DEF TwoThen
<1> QED
    BY <1>7 DEF d

LEMMA Overlay ==
    ASSUME NEW f, NEW g
    PROVE  /\ DOMAIN Over(f, g) = DOMAIN f \cup DOMAIN g
           /\ \A x \in DOMAIN f : Over(f, g)[x] = f[x]
           /\ \A x \in DOMAIN g \ DOMAIN f : Over(f, g)[x] = g[x]
BY DEF Over

LEMMA TwoBytes == ASSUME NEW n PROVE BE16(n) = <<BE16(n)[1], BE16(n)[2]>>
BY DEF BE16

LEMMA WordIsNat == \A n \in Unsigned16 : n \in Nat
BY DEF Unsigned16

LEMMA FewIsUnsigned == \A n \in 0..29 : n \in Unsigned16
BY SMT DEF Unsigned16

LEMMA WordBack == ASSUME NEW n \in Unsigned16 PROVE Word16(BE16(n)[1], BE16(n)[2]) = n
<1>0. n \in Nat
    BY WordIsNat
<1>3. 256 * (n \div 256) + (n % 256) = n
    BY <1>0, SMT
<1>4. n \div 256 \in 0..255
  <2> DEFINE q == n \div 256
             r == n % 256
  <2>1. q \in Int /\ r \in 0..255 /\ 256 * q + r = n
      BY <1>0, <1>3
  <2> HIDE DEF q, r
  <2>2. n < 65536
      BY SMT DEF Unsigned16
  <2>3. q >= 0
      BY <1>0, <2>1
  <2>4. q < 256
      BY <1>0, <2>1, <2>2, SMT
  <2>5. q \in 0..255
      BY <2>1, <2>3, <2>4
  <2> QED
      BY <2>5 DEF q
<1>1. (n \div 256) % 256 = n \div 256 /\ 256 * (n \div 256) + (n % 256) = n
  <2> DEFINE q == n \div 256
  <2>1. q \in 0..255
      BY <1>4
  <2> HIDE DEF q
  <2>2. q % 256 = q
      BY <2>1
  <2> QED
      BY <1>3, <2>2 DEF q
<1>2. BE16(n)[1] = (n \div 256) % 256 /\ BE16(n)[2] = n % 256
    BY DEF BE16, U8
<1> QED
    BY <1>1, <1>2 DEF Word16

LEMMA PairOfBytes == ASSUME NEW d, NEW i \in Nat PROVE SubSeq(d, i + 1, i + 2) = <<d[i + 1], d[i + 2]>>
<1> DEFINE t == SubSeq(d, i + 1, i + 2)
<1>1. t = [k \in 1..2 |-> d[i + k]]
  <2>1. t = [k \in 1..(1 + (i + 2) - (i + 1)) |-> d[k + (i + 1) - 1]]
      OBVIOUS
  <2>2. 1 + (i + 2) - (i + 1) = 2 /\ \A k \in 1..2 : k + (i + 1) - 1 = i + k
      OBVIOUS
  <2> QED
      BY <2>1, <2>2
<1> HIDE DEF t
<1>2. t = <<d[i + 1], d[i + 2]>>
    BY <1>1
<1> QED
    BY <1>2 DEF t

LEMMA WordsAt ==
    ASSUME NEW s, Queue(s)
    PROVE  /\ Queue(Words(s)) /\ Len(Words(s)) = 2 * Len(s)
           /\ \A i \in 1..Len(s) : /\ Words(s)[2 * i - 1] = BE16(s[i])[1]
                                   /\ Words(s)[2 * i] = BE16(s[i])[2]
<1>1. Len(s) \in Nat
    BY QueueLen
<1>2. Words(s) = [i \in 1..2 * Len(s) |-> Words(s)[i]] /\ Len(Words(s)) = 2 * Len(s)
    BY <1>1 DEF Words
<1>3. Queue(Words(s))
    BY <1>1, <1>2, QueueMap
<1>4. ASSUME NEW i \in 1..Len(s)
      PROVE  Words(s)[2 * i - 1] = BE16(s[i])[1] /\ Words(s)[2 * i] = BE16(s[i])[2]
  <2>1. 2 * i - 1 \in 1..2 * Len(s) /\ 2 * i \in 1..2 * Len(s)
      BY <1>1
  <2>2. (2 * i - 1 + 1) \div 2 = i /\ (2 * i + 1) \div 2 = i /\ (2 * i - 1) % 2 = 1 /\ (2 * i) % 2 = 0
      BY <1>1
  <2> QED
      BY <2>1, <2>2 DEF Words
<1> QED
    BY <1>2, <1>3, <1>4

(***************************************************************************)
(* Modbus: a register holds what the last command that names it put there, *)
(* and is shown so (umdk-modbus.c).                                        *)
(***************************************************************************)
LEMMA ModbusSets ==
    ASSUME NEW c, NEW said
    PROVE  LET S == Sets("modbus", c, said)
           IN  /\ c.verb = "write_reg" => S = {<<"register", c.dest, c.nums[1]>>}
               /\ c.verb = "write_mult_regs" =>
                    S = {"register"} \X {c.dest} \X (c.nums[1]..c.nums[1] + c.nums[2] - 1)
               /\ c.verb \notin {"write_reg", "write_mult_regs"} => \A p \in S : p[1] # "register"
<1>1. CASE c.verb = "write_reg"
    BY <1>1 DEF Sets
<1>2. CASE c.verb = "write_mult_regs"
    BY <1>2 DEF Sets
<1>3. CASE c.verb \in {"set_timedate", "set_time"}
  <2>1. Sets("modbus", c, said) = {<<"time", c.dest>>}
      BY <1>3 DEF Sets
  <2> QED
      BY <1>3, <2>1
<1>4. CASE c.verb = "set_number_tariffs"
  <2>1. Sets("modbus", c, said) = {<<"tariffs", c.dest>>}
      BY <1>4 DEF Sets
  <2> QED
      BY <1>4, <2>1
<1>5. CASE c.verb \notin {"write_reg", "write_mult_regs", "set_timedate", "set_time", "set_number_tariffs"}
  <2>1. Sets("modbus", c, said) = {}
      BY <1>5 DEF Sets
  <2> QED
      BY <1>5, <2>1
<1> QED
    BY <1>1, <1>2, <1>3, <1>4, <1>5

LEMMA ModbusUnwritten ==
    ASSUME NEW d, NEW mem, Len(d) \in Nat,
           Len(d) < 2 \/ At(d, 0) >= MODBUS_SET_DEVICE \/ At(d, 1) \notin {\h06, \h10}
    PROVE  ModbusServes(d, mem).writes = Nothing
<1>1. CASE Len(d) < 2
  <2>1. ModbusServes(d, mem) = Served(Nothing, <<At(d, 0)>>)
      BY <1>1 DEF ModbusServes
  <2> QED
      BY <2>1 DEF Served
<1>2. CASE Len(d) > 1 /\ At(d, 0) >= MODBUS_SET_DEVICE
  <2>1. ModbusServes(d, mem) = Served(Nothing, <<0>>)
      BY <1>2 DEF ModbusServes
  <2> QED
      BY <2>1 DEF Served
<1>3. CASE Len(d) > 1 /\ ~(At(d, 0) >= MODBUS_SET_DEVICE)
  <2>1. ModbusServes(d, mem) = ModbusRegisters(d, mem)
      BY <1>3 DEF ModbusServes
  <2>2. At(d, 1) \notin {\h06, \h10}
      BY <1>3
  <2>3. \E answer : ModbusRegisters(d, mem) = Served(Nothing, answer)
      BY <2>2 DEF ModbusRegisters
  <2> QED
      BY <2>1, <2>3 DEF Served
<1> QED
    BY <1>1, <1>2, <1>3

LEMMA ModbusQuiet ==
    ASSUME NEW c, Whole(c), NEW mem, c.verb \notin {"write_reg", "write_mult_regs"},
           c.verb \in {"send", "pack"} => At(c.text, 1) \notin {\h06, \h10}
    PROVE  ModbusServes(umdk_modbus_command(c), mem).writes = Nothing
<1> DEFINE d == umdk_modbus_command(c)
<1>1. Queue(d) /\ Len(d) \in Nat
    BY ModbusFrames, QueueLen
<1>2. CASE c.verb \in {"send", "pack"}
  <2> DEFINE total == IF c.verb = "pack" THEN U8(3 * Len(c.text)) \div 3 ELSE Len(c.text)
  <2>1. d \in {ModbusInvalidFormat, SubSeq(c.text, 1, total)}
      BY <1>2, ModbusVerbs DEF umdk_modbus_command, ModbusRaw
  <2>3. Queue(c.text) /\ Len(c.text) \in Nat
      BY <1>2, Carries, QueueLen
  <2>4. total \in 0..Len(c.text)
    <3>1. ASSUME NEW l \in Nat PROVE ((3 * l) % 256) \div 3 \in 0..l
      <4>1. (3 * l) % 256 \in 0..3 * l
          OBVIOUS
      <4> DEFINE r == (3 * l) % 256
      <4> HIDE DEF r
      <4>2. r \in 0..3 * l
          BY <4>1 DEF r
      <4>3. r \div 3 \in 0..l
          BY <4>2
      <4> QED
          BY <4>3 DEF r
    <3> DEFINE l == Len(c.text)
    <3>2. l \in Nat
        BY <2>3
    <3>3. total = ((3 * l) % 256) \div 3 \/ total = l
        BY Zenon DEF U8
    <3> HIDE DEF total, l
    <3>4. total \in 0..l
        BY <3>1, <3>2, <3>3
    <3> QED
        BY <3>4 DEF l
  <2> HIDE DEF total
  <2>5. ASSUME total >= 2 PROVE At(SubSeq(c.text, 1, total), 1) = c.text[2] /\ At(c.text, 1) = c.text[2]
      BY <2>3, <2>4, <2>5 DEF Queue, At
  <2>6. Len(SubSeq(c.text, 1, total)) = total
      BY <2>3, <2>4 DEF Queue
  <2>2. Len(d) < 2 \/ At(d, 1) \notin {\h06, \h10}
    <3>1. CASE d = ModbusInvalidFormat
        BY <3>1 DEF ModbusInvalidFormat
    <3>2. CASE d = SubSeq(c.text, 1, total)
      <4> HIDE DEF d
      <4>1. Len(d) = total /\ (total >= 2 => At(d, 1) = At(c.text, 1))
          BY <2>5, <2>6, <3>2
      <4> QED
          BY <1>2, <2>4, <2>3, <4>1
    <3> QED
        BY <2>1, <3>1, <3>2
  <2> HIDE DEF d
  <2> QED
      BY <1>1, <2>2, ModbusUnwritten DEF d
<1>3. CASE c.verb \in {"set_device", "set_mode"}
  <2>1. d = <<>> \/ \E t : Queue(t) /\ d = <<IF c.verb = "set_device" THEN MODBUS_SET_DEVICE ELSE MODBUS_SET_PARAMS>> \o t
    <3> DEFINE dest == U8(c.dest)
    <3>1. Queue(c.text) /\ Queue(<<dest>>)
        BY <1>3, Carries, QueueTuples
    <3>2. d = <<>> \/ (c.verb = "set_device" /\ d = <<MODBUS_SET_DEVICE, dest>>)
                   \/ (c.verb = "set_mode" /\ d = <<MODBUS_SET_PARAMS>> \o c.text)
        BY <1>3, ModbusVerbs DEF umdk_modbus_command
    <3> HIDE DEF dest
    <3>3. <<MODBUS_SET_DEVICE, dest>> = <<MODBUS_SET_DEVICE>> \o <<dest>>
        OBVIOUS
    <3> QED
        BY <3>1, <3>2, <3>3
  <2>2. d = <<>> \/ d[1] \in {MODBUS_SET_DEVICE, MODBUS_SET_PARAMS}
      BY <2>1, FirstAndRest
  <2>3. Len(d) < 2 \/ At(d, 0) >= MODBUS_SET_DEVICE
      BY <1>1, <2>2 DEF At, MODBUS_SET_DEVICE, MODBUS_SET_PARAMS
  <2> HIDE DEF d
  <2> QED
      BY <1>1, <2>3, ModbusUnwritten DEF d
<1>4. CASE c.verb \notin {"send", "pack", "set_device", "set_mode"}
  <2>1. ModbusOther(c, d)
      BY <1>4, ModbusFrames
  <2> HIDE DEF d
  <2>2. CASE d = ModbusInvalidCmd
    <3>1. Len(d) = 1
        BY <2>2 DEF ModbusInvalidCmd
    <3> QED
        BY <1>1, <3>1, ModbusUnwritten DEF d
  <2>3. CASE \E code \in Int \ {\h06, \h10} : \E data : Queue(data) /\ d = ModbusFrame(c, code, data)
    <3>0. PICK code \in Int \ {\h06, \h10} : \E data : Queue(data) /\ d = ModbusFrame(c, code, data)
        BY <2>3
    <3>1. PICK data : Queue(data) /\ d = ModbusFrame(c, code, data)
        BY <3>0
    <3> DEFINE dest == U8(c.dest)
               sent == SubSeq(data, 1, U8(Len(data)))
    <3>2. d = ModbusInvalidFormat \/ d = <<dest, code>> \o sent
        BY <3>1 DEF ModbusFrame
    <3>4. Queue(sent)
      <4>1. U8(Len(data)) \in Int
          BY <3>1, QueueLen DEF U8
      <4> QED
          BY <4>1, QueueSub
    <3> HIDE DEF dest, sent
    <3>3. Len(d) < 2 \/ At(d, 1) = code
      <4>1. CASE d = ModbusInvalidFormat
          BY <4>1 DEF ModbusInvalidFormat
      <4>2. CASE d = <<dest, code>> \o sent
        <5>1. At(<<dest, code>> \o sent, 1) = code
            BY <3>4, AfterTwo DEF TwoThen
        <5> QED
            BY <4>2, <5>1
      <4> QED
          BY <3>2, <4>1, <4>2
    <3> QED
        BY <1>1, <3>0, <3>1, <3>3, ModbusUnwritten DEF d
  <2> QED
      BY <2>1, <2>2, <2>3 DEF ModbusOther
<1> QED
    BY <1>2, <1>3, <1>4

(* The registers a frame names, and what the device does with them. *)
ModbusFrameOf(d, dest, code, data) ==
    /\ ~(dest >= MODBUS_SET_DEVICE) /\ Len(d) > 5 /\ At(d, 0) = dest /\ At(d, 1) = code
    /\ At(d, 2) = data[1] /\ At(d, 3) = data[2] /\ At(d, 4) = data[3] /\ At(d, 5) = data[4]
    /\ d[5] = data[3] /\ d[6] = data[4]
    /\ \A j \in 3..Len(data) + 2 : d[j] = data[j - 2]

(* Data of fewer bytes than the code's buffer is sent whole. *)
LEMMA ModbusSent ==
    ASSUME NEW c, c.dest \in 0..253, NEW code, NEW data, Queue(data), Len(data) < 64
    PROVE  ModbusFrame(c, code, data) = <<c.dest, code>> \o data
<1>1. Len(data) \in Nat
    BY QueueLen
<1>2. U8(Len(data)) = Len(data) /\ U8(c.dest) = c.dest /\ ~(Len(data) >= MODBUS_LENGTH_DATA_MAX)
  <2>1. \A x \in 0..253 : x % 256 = x
      OBVIOUS
  <2> DEFINE l == Len(data)
  <2>3. l \in Nat /\ l < 64
      BY <1>1
  <2> HIDE DEF l
  <2>4. l \in 0..253 /\ ~(l >= 64)
      BY <2>3
  <2>2. Len(data) \in 0..253 /\ ~(Len(data) >= 64)
      BY <2>4 DEF l
  <2> QED
      BY <2>1, <2>2, Zenon DEF U8, MODBUS_LENGTH_DATA_MAX
<1>3. SubSeq(data, 1, Len(data)) = data
    BY <1>1 DEF Queue
<1> QED
    BY <1>2, <1>3 DEF ModbusFrame

LEMMA FrameOfModbus ==
    ASSUME NEW dest, ~(dest >= MODBUS_SET_DEVICE), NEW code, NEW data, Queue(data), Len(data) >= 4
    PROVE  ModbusFrameOf(<<dest, code>> \o data, dest, code, data)
<1> DEFINE d == <<dest, code>> \o data
<1>0. TwoThen(d, dest, code, data)
    BY AfterTwo
<1> HIDE DEF d
<1>1. /\ Len(d) = 2 + Len(data) /\ Len(data) \in Nat /\ At(d, 0) = dest /\ At(d, 1) = code
      /\ \A i \in 1..Len(data) : d[i + 2] = data[i]
    BY <1>0, QueueLen DEF TwoThen
<1>2. d[3] = data[1] /\ d[4] = data[2] /\ d[5] = data[3] /\ d[6] = data[4]
  <2>1. d[1 + 2] = data[1] /\ d[2 + 2] = data[2] /\ d[3 + 2] = data[3] /\ d[4 + 2] = data[4]
      BY <1>1
  <2> QED
      BY <2>1
<1>3. At(d, 2) = data[1] /\ At(d, 3) = data[2] /\ At(d, 4) = data[3] /\ At(d, 5) = data[4]
    BY <1>1, <1>2 DEF At
<1>4. ASSUME NEW j \in 3..Len(data) + 2 PROVE d[j] = data[j - 2]
  <2>1. j - 2 \in 1..Len(data) /\ (j - 2) + 2 = j
      BY <1>1, <1>4
  <2>2. d[(j - 2) + 2] = data[j - 2]
      BY <1>1, <2>1, Zenon
  <2> QED
      BY <2>1, <2>2
<1>5. Len(d) > 5
    BY <1>1
<1>6. ModbusFrameOf(d, dest, code, data)
    BY <1>1, <1>2, <1>3, <1>4, <1>5 DEF ModbusFrameOf
<1> QED
    BY <1>6 DEF d

LEMMA RegistersServed ==
    ASSUME NEW dest, NEW code, NEW data, NEW mem, NEW d, ModbusFrameOf(d, dest, code, data)
    PROVE  ModbusServes(d, mem) = ModbusRegisters(d, mem)
<1>1. ~(Len(d) < 2) /\ ~(At(d, 0) >= MODBUS_SET_DEVICE)
    BY DEF ModbusFrameOf
<1> QED
    BY <1>1, Zenon DEF ModbusServes

LEMMA RegisterWritten ==
    ASSUME NEW dest, NEW data, NEW mem, NEW d, ModbusFrameOf(d, dest, \h06, data)
    PROVE  ModbusServes(d, mem).writes
             = Keep({<<"register", dest, Word16(data[1], data[2])>>}, <<data[3], data[4]>>)
<1> DEFINE code == \h06
           first == Word16(data[1], data[2])
           word(i) == SubSeq(d, i + 1, i + 2)
<1>1. code = \h06 /\ ModbusFrameOf(d, dest, code, data)
    OBVIOUS
<1>7. At(d, 0) = dest /\ At(d, 1) = code
    BY <1>1 DEF ModbusFrameOf
<1> HIDE DEF code
<1>2. /\ At(d, 2) = data[1] /\ At(d, 3) = data[2]
      /\ d[5] = data[3] /\ d[6] = data[4]
      /\ ModbusServes(d, mem) = ModbusRegisters(d, mem)
    BY <1>1, RegistersServed DEF ModbusFrameOf
<1>3. ModbusRegisters(d, mem)
        = Served(Keep({<<"register", At(d, 0), Word16(At(d, 2), At(d, 3))>>}, word(4)), d)
    BY <1>1, <1>7 DEF ModbusRegisters
<1>4. word(4) = <<data[3], data[4]>>
  <2>1. word(4) = <<d[4 + 1], d[4 + 2]>>
      BY PairOfBytes
  <2> HIDE DEF word
  <2> QED
      BY <1>2, <2>1
<1> HIDE DEF word
<1>6. ModbusRegisters(d, mem).writes = Keep({<<"register", At(d, 0), Word16(At(d, 2), At(d, 3))>>}, word(4))
    BY <1>3 DEF Served
<1>5. ModbusRegisters(d, mem).writes = Keep({<<"register", dest, first>>}, <<data[3], data[4]>>)
    BY <1>2, <1>4, <1>6, <1>7
<1> QED
    BY <1>2, <1>5

LEMMA RegistersRead ==
    ASSUME NEW dest, NEW data, NEW mem, NEW d, ModbusFrameOf(d, dest, \h03, data)
    PROVE  LET first == Word16(data[1], data[2])
               count == Word16(data[3], data[4])
               register(i) == Held(mem, <<"register", dest, first + i>>, <<0, 0>>)
           IN  ModbusServes(d, mem)
                 = Served(Nothing, <<dest, \h03, 2 * count>> \o
                                     [i \in 1..2 * count |-> register((i - 1) \div 2)[2 - (i % 2)]])
<1> DEFINE code == \h03
           first == Word16(data[1], data[2])
           count == Word16(data[3], data[4])
           register(i) == Held(mem, <<"register", dest, first + i>>, <<0, 0>>)
           f == Word16(At(d, 2), At(d, 3))
           n == Word16(At(d, 4), At(d, 5))
           held(i) == Held(mem, <<"register", At(d, 0), f + i>>, <<0, 0>>)
<1>1. code = \h03 /\ ModbusFrameOf(d, dest, code, data)
    OBVIOUS
<1>7. At(d, 0) = dest /\ At(d, 1) = code
    BY <1>1 DEF ModbusFrameOf
<1> HIDE DEF code
<1>2. /\ At(d, 2) = data[1] /\ At(d, 3) = data[2]
      /\ At(d, 4) = data[3] /\ At(d, 5) = data[4]
      /\ ModbusServes(d, mem) = ModbusRegisters(d, mem)
    BY <1>1, RegistersServed DEF ModbusFrameOf
<1>3. ModbusRegisters(d, mem)
        = Served(Nothing, <<At(d, 0), \h03, 2 * n>> \o
                            [i \in 1..2 * n |-> held((i - 1) \div 2)[2 - (i % 2)]])
    BY <1>1, <1>7 DEF ModbusRegisters
<1>4. n = count /\ f = first /\ At(d, 0) = dest
    BY <1>2, <1>7
<1> HIDE DEF f, n, first, count
<1>5. \A i : held(i) = register(i)
    BY <1>4
<1> HIDE DEF held, register
<1>6. ModbusRegisters(d, mem)
        = Served(Nothing, <<dest, \h03, 2 * count>> \o
                            [i \in 1..2 * count |-> register((i - 1) \div 2)[2 - (i % 2)]])
    BY <1>3, <1>4, <1>5
<1> QED
    BY <1>2, <1>6 DEF first, count, register

ModbusValues(data, first, count) ==
    /\ first \in Nat /\ count \in Nat /\ Len(data) = 5 + 2 * count
    /\ Word16(data[1], data[2]) = first /\ Word16(data[3], data[4]) = count

RegistersKept(dest, first, count, data) ==
    [place \in {"register"} \X {dest} \X (first..first + count - 1) |->
       <<data[6 + 2 * (place[3] - first)], data[7 + 2 * (place[3] - first)]>>]

LEMMA RegistersWritten ==
    ASSUME NEW dest, NEW data, NEW mem, NEW d, ModbusFrameOf(d, dest, \h10, data),
           NEW first, NEW count, ModbusValues(data, first, count)
    PROVE  ModbusServes(d, mem).writes = RegistersKept(dest, first, count, data)
<1> DEFINE code == \h10
           f == Word16(At(d, 2), At(d, 3))
           n == Word16(At(d, 4), At(d, 5))
           word(i) == SubSeq(d, i + 1, i + 2)
           places == {"register"} \X {dest} \X (first..first + count - 1)
<1>1. code = \h10 /\ ModbusFrameOf(d, dest, code, data)
    OBVIOUS
<1>7. At(d, 0) = dest /\ At(d, 1) = code
    BY <1>1 DEF ModbusFrameOf
<1>0. first \in Nat /\ count \in Nat /\ Len(data) = 5 + 2 * count
    BY DEF ModbusValues
<1> HIDE DEF code
<1>00. Len(data) >= 4 /\ Len(data) \in Nat
    BY <1>0
<1>2. /\ At(d, 2) = data[1] /\ At(d, 3) = data[2]
      /\ At(d, 4) = data[3] /\ At(d, 5) = data[4]
      /\ ModbusServes(d, mem) = ModbusRegisters(d, mem)
  <2>1. At(d, 2) = data[1] /\ At(d, 3) = data[2] /\ At(d, 4) = data[3] /\ At(d, 5) = data[4]
      BY DEF ModbusFrameOf
  <2>2. ModbusFrameOf(d, dest, code, data)
      BY <1>1
  <2>3. ModbusServes(d, mem) = ModbusRegisters(d, mem)
      BY <2>2, RegistersServed
  <2> QED
      BY <2>1, <2>3
<1>8. \A j \in 3..Len(data) + 2 : d[j] = data[j - 2]
    BY <1>1 DEF ModbusFrameOf
<1>3. ModbusRegisters(d, mem).writes = [place \in places |-> word(7 + 2 * (place[3] - first))]
  <2>1. ModbusRegisters(d, mem)
          = Served([place \in {"register"} \X {At(d, 0)} \X (f..f + n - 1) |-> word(7 + 2 * (place[3] - f))],
                   SubSeq(d, 1, 6))
      BY <1>1, <1>7 DEF ModbusRegisters
  <2>2. n = count /\ f = first
      BY <1>2 DEF ModbusValues
  <2> HIDE DEF f, n, word
  <2> QED
      BY <1>7, <2>1, <2>2 DEF Served
<1>4. ASSUME NEW place \in places
      PROVE  word(7 + 2 * (place[3] - first))
               = <<data[6 + 2 * (place[3] - first)], data[7 + 2 * (place[3] - first)]>>
  <2> DEFINE k == 7 + 2 * (place[3] - first)
  <2>1. place[3] \in first..first + count - 1
      BY <1>4
  <2>2. k \in Nat /\ k - 1 = 6 + 2 * (place[3] - first) /\ k + 1 \in 3..Len(data) + 2 /\ k + 2 \in 3..Len(data) + 2
    <3> DEFINE r == place[3]
               e == r - first
    <3>1. r \in first..first + count - 1
        BY <2>1
    <3> HIDE DEF r
    <3>4. e \in Int /\ 0 <= e /\ e <= count - 1
        BY <1>0, <3>1
    <3>2. k = 7 + 2 * e
        BY DEF r
    <3>7. place[3] - first = e
        BY DEF r
    <3>3. Len(data) = 5 + 2 * count
        BY <1>0
    <3> HIDE DEF k, e
    <3>5. k \in Nat /\ k - 1 = 6 + 2 * e /\ 3 <= k + 1 /\ k + 2 <= Len(data) + 2
        BY <1>0, <3>2, <3>3, <3>4
    <3>6. k + 1 \in 3..Len(data) + 2 /\ k + 2 \in 3..Len(data) + 2
        BY <1>00, <3>5
    <3> QED
        BY <3>5, <3>6, <3>7
  <2> HIDE DEF k
  <2>3. word(k) = <<d[k + 1], d[k + 2]>>
      BY <2>2, PairOfBytes
  <2>4. d[k + 1] = data[k + 1 - 2] /\ d[k + 2] = data[k + 2 - 2] /\ k + 1 - 2 = k - 1 /\ k + 2 - 2 = k
      BY <1>8, <2>2
  <2> HIDE DEF word
  <2>5. word(k) = <<data[k - 1], data[k]>>
      BY <2>3, <2>4
  <2> QED
      BY <2>2, <2>5 DEF k
<1> HIDE DEF word
<1>5. ModbusRegisters(d, mem).writes
        = [place \in places |-> <<data[6 + 2 * (place[3] - first)], data[7 + 2 * (place[3] - first)]>>]
  <2> HIDE DEF places
  <2> QED
      BY <1>3, <1>4, Zenon
<1> QED
    BY <1>2, <1>5 DEF RegistersKept

LEMMA WordsOfTwo ==
    ASSUME NEW n, Queue(n), Len(n) = 2
    PROVE  /\ Queue(Words(n)) /\ Len(Words(n)) = 4
           /\ <<Words(n)[1], Words(n)[2]>> = BE16(n[1]) /\ <<Words(n)[3], Words(n)[4]>> = BE16(n[2])
           /\ n[1] \in Unsigned16 => Word16(Words(n)[1], Words(n)[2]) = n[1]
           /\ n[2] \in Unsigned16 => Word16(Words(n)[3], Words(n)[4]) = n[2]
<1>1. Queue(Words(n)) /\ Len(Words(n)) = 2 * Len(n)
    BY WordsAt
<1>2. \A i \in 1..2 : Words(n)[2 * i - 1] = BE16(n[i])[1] /\ Words(n)[2 * i] = BE16(n[i])[2]
    BY WordsAt
<1>3. 2 * Len(n) = 4
    OBVIOUS
<1> DEFINE w == Words(n)
<1>4. w[1] = BE16(n[1])[1] /\ w[2] = BE16(n[1])[2] /\ w[3] = BE16(n[2])[1] /\ w[4] = BE16(n[2])[2]
    BY <1>2
<1> HIDE DEF w
<1>5. /\ BE16(n[1]) = <<BE16(n[1])[1], BE16(n[1])[2]>> /\ BE16(n[2]) = <<BE16(n[2])[1], BE16(n[2])[2]>>
      /\ n[1] \in Unsigned16 => Word16(BE16(n[1])[1], BE16(n[1])[2]) = n[1]
      /\ n[2] \in Unsigned16 => Word16(BE16(n[2])[1], BE16(n[2])[2]) = n[2]
    BY TwoBytes, WordBack
<1>6. <<w[1], w[2]>> = BE16(n[1]) /\ <<w[3], w[4]>> = BE16(n[2])
    BY <1>4, <1>5
<1>7. /\ n[1] \in Unsigned16 => Word16(w[1], w[2]) = n[1]
      /\ n[2] \in Unsigned16 => Word16(w[3], w[4]) = n[2]
    BY <1>4, <1>5
<1>8. Queue(w) /\ Len(w) = 4
    BY <1>1, <1>3 DEF w
<1> QED
    BY <1>6, <1>7, <1>8 DEF w

LEMMA ModbusWritesOne ==
    ASSUME NEW c, Whole(c), ModbusProper(c), c.verb = "write_reg", NEW mem
    PROVE  ModbusServes(umdk_modbus_command(c), mem).writes
             = Keep({<<"register", c.dest, c.nums[1]>>}, BE16(c.nums[2]))
<1> DEFINE n == c.nums
           data == Words(n)
<1>1. Queue(n) /\ Len(n) = 2 /\ n[1] \in Unsigned16 /\ ~(c.dest >= MODBUS_SET_DEVICE)
  <2>1. Queue(n)
      BY Carries
  <2>2. Len(n) = 2 /\ n[1] \in Unsigned16 /\ ~(c.dest >= MODBUS_SET_DEVICE)
      BY DEF ModbusProper, MODBUS_SET_DEVICE
  <2> QED
      BY <2>1, <2>2
<1>2. /\ Queue(data) /\ Len(data) = 4 /\ <<data[3], data[4]>> = BE16(n[2])
      /\ Word16(data[1], data[2]) = n[1]
    BY <1>1, WordsOfTwo
<1>3. umdk_modbus_command(c) = <<c.dest, \h06>> \o data
  <2>1. umdk_modbus_command(c) = ModbusFrame(c, \h06, Words(SubSeq(n, 1, 2)))
      BY ModbusVerbs DEF umdk_modbus_command, ModbusWords, ModbusWordsOf
  <2>2. SubSeq(n, 1, 2) = n /\ c.dest \in 0..253
      BY <1>1 DEF Queue, ModbusProper
  <2> HIDE DEF data, n
  <2>3. umdk_modbus_command(c) = ModbusFrame(c, \h06, data)
      BY <2>1, <2>2 DEF data
  <2> DEFINE code == \h06
  <2> HIDE DEF code
  <2>5. Queue(data) /\ Len(data) < 64 /\ c.dest \in 0..253
      BY <1>2, <2>2
  <2>4. ModbusFrame(c, code, data) = <<c.dest, code>> \o data
      BY <2>5, ModbusSent
  <2> QED
      BY <2>3, <2>4 DEF code
<1> HIDE DEF data, n
<1> DEFINE dest == c.dest
           code == \h06
           d == <<dest, code>> \o data
<1>4. ModbusFrameOf(d, dest, \h06, data)
  <2>1. code = \h06 /\ Len(data) >= 4 /\ ~(dest >= MODBUS_SET_DEVICE)
      BY <1>1, <1>2
  <2> HIDE DEF code, dest
  <2>2. ModbusFrameOf(d, dest, code, data)
      BY <1>2, <2>1, FrameOfModbus
  <2> QED
      BY <2>1, <2>2
<1> HIDE DEF d
<1>5. ModbusServes(d, mem).writes
        = Keep({<<"register", c.dest, Word16(data[1], data[2])>>}, <<data[3], data[4]>>)
    BY <1>1, <1>2, <1>4, RegisterWritten
<1>6. umdk_modbus_command(c) = d
    BY <1>3 DEF d
<1> QED
    BY <1>2, <1>5, <1>6 DEF n

LEMMA ModbusReads ==
    ASSUME NEW c, Whole(c), ModbusProper(c), c.verb = "read_hold_reg", NEW mem
    PROVE  LET n == c.nums
               register(i) == Held(mem, <<"register", c.dest, n[1] + i>>, <<0, 0>>)
           IN  ModbusServes(umdk_modbus_command(c), mem)
                 = Served(Nothing, <<c.dest, \h03, 2 * n[2]>> \o
                                     [i \in 1..2 * n[2] |-> register((i - 1) \div 2)[2 - (i % 2)]])
<1> DEFINE n == c.nums
           data == Words(n)
           register(i) == Held(mem, <<"register", c.dest, n[1] + i>>, <<0, 0>>)
<1>1. Queue(n) /\ Len(n) = 2 /\ n[1] \in Unsigned16 /\ n[2] \in 0..24 /\ ~(c.dest >= MODBUS_SET_DEVICE)
  <2>1. Queue(n)
      BY Carries
  <2>2. Len(n) = 2 /\ n[1] \in Unsigned16 /\ n[2] \in 0..24 /\ ~(c.dest >= MODBUS_SET_DEVICE)
      BY DEF ModbusProper, MODBUS_SET_DEVICE
  <2> QED
      BY <2>1, <2>2
<1>7. n[2] \in Unsigned16
    BY <1>1, FewIsUnsigned
<1>2. /\ Queue(data) /\ Len(data) = 4
      /\ Word16(data[1], data[2]) = n[1] /\ Word16(data[3], data[4]) = n[2]
    BY <1>1, <1>7, WordsOfTwo
<1>3. umdk_modbus_command(c) = <<c.dest, \h03>> \o data
  <2>1. umdk_modbus_command(c) = ModbusFrame(c, \h03, Words(SubSeq(n, 1, 2)))
      BY ModbusVerbs DEF umdk_modbus_command, ModbusWords, ModbusWordsOf
  <2>2. SubSeq(n, 1, 2) = n /\ c.dest \in 0..253
      BY <1>1 DEF Queue, ModbusProper
  <2> HIDE DEF data, n
  <2>3. umdk_modbus_command(c) = ModbusFrame(c, \h03, data)
      BY <2>1, <2>2 DEF data
  <2> DEFINE code == \h03
  <2> HIDE DEF code
  <2>5. Queue(data) /\ Len(data) < 64 /\ c.dest \in 0..253
      BY <1>2, <2>2
  <2>4. ModbusFrame(c, code, data) = <<c.dest, code>> \o data
      BY <2>5, ModbusSent
  <2> QED
      BY <2>3, <2>4 DEF code
<1> HIDE DEF data, n
<1> DEFINE first == Word16(data[1], data[2])
           count == Word16(data[3], data[4])
           dest == c.dest
           code == \h03
           d == <<dest, code>> \o data
<1>6. ModbusFrameOf(d, dest, \h03, data)
  <2>1. code = \h03 /\ Len(data) >= 4 /\ ~(dest >= MODBUS_SET_DEVICE)
      BY <1>1, <1>2
  <2> HIDE DEF code, dest
  <2>2. ModbusFrameOf(d, dest, code, data)
      BY <1>2, <2>1, FrameOfModbus
  <2> QED
      BY <2>1, <2>2
<1>8. umdk_modbus_command(c) = d
    BY <1>3
<1> HIDE DEF d
<1>4. ModbusServes(d, mem)
        = Served(Nothing, <<c.dest, \h03, 2 * count>> \o
                            [i \in 1..2 * count |->
                               Held(mem, <<"register", c.dest, first + ((i - 1) \div 2)>>, <<0, 0>>)[2 - (i % 2)]])
    BY <1>6, RegistersRead
<1>5. first = n[1] /\ count = n[2]
    BY <1>2
<1> HIDE DEF first, count
<1> QED
    BY <1>4, <1>5, <1>8 DEF n

LEMMA Values ==
    ASSUME NEW n, Queue(n), NEW k \in Nat, Len(n) = 3 + k
    PROVE  LET written == SubSeq(SubSeq(n, 4, Len(n)), 1, k)
           IN  Queue(written) /\ Len(written) = k /\ \A i \in 1..k : written[i] = n[i + 3]
<1> DEFINE values == SubSeq(n, 4, Len(n))
           written == SubSeq(values, 1, k)
<1>1. values = [i \in 1..k |-> n[i + 3]]
  <2>1. values = [i \in 1..(1 + Len(n) - 4) |-> n[i + 4 - 1]]
      OBVIOUS
  <2>2. 1 + Len(n) - 4 = k /\ \A i \in 1..k : i + 4 - 1 = i + 3
      OBVIOUS
  <2> HIDE DEF values
  <2> QED
      BY <2>1, <2>2
<1> HIDE DEF values
<1>2. written = [i \in 1..k |-> values[i]]
  <2>1. written = [i \in 1..(1 + k - 1) |-> values[i + 1 - 1]]
      OBVIOUS
  <2>2. 1 + k - 1 = k /\ \A i \in 1..k : i + 1 - 1 = i
      OBVIOUS
  <2> HIDE DEF written
  <2> QED
      BY <2>1, <2>2
<1> HIDE DEF written
<1>3. Queue(written)
    BY <1>2, QueueMap
<1>4. Len(written) = k
    BY <1>2
<1>5. \A i \in 1..k : written[i] = n[i + 3]
    BY <1>1, <1>2
<1> QED
    BY <1>3, <1>4, <1>5 DEF written, values

LEMMA BytesOfWords ==
    ASSUME NEW s, Queue(s), NEW k \in Nat, Len(s) = k
    PROVE  LET rest == [i \in 1..2 * k |-> At(Words(s), i - 1)]
           IN  /\ Queue(rest) /\ Len(rest) = 2 * k
               /\ \A i \in 1..k : <<rest[2 * i - 1], rest[2 * i]>> = BE16(s[i])
<1> DEFINE w == Words(s)
           rest == [i \in 1..2 * k |-> At(w, i - 1)]
<1>1. /\ Len(w) = 2 * k
      /\ \A i \in 1..k : w[2 * i - 1] = BE16(s[i])[1] /\ w[2 * i] = BE16(s[i])[2]
    BY WordsAt
<1> HIDE DEF w
<1>2. Queue(rest) /\ Len(rest) = 2 * k
  <2>1. Queue(rest)
      BY QueueMap
  <2>2. Len(rest) = 2 * k
      OBVIOUS
  <2> QED
      BY <2>1, <2>2
<1>3. ASSUME NEW i \in 1..2 * k PROVE rest[i] = w[i]
  <2>1. i - 1 < Len(w) /\ (i - 1) + 1 = i /\ rest[i] = At(w, i - 1)
      BY <1>1
  <2> HIDE DEF rest
  <2> QED
      BY <2>1 DEF At
<1> HIDE DEF rest
<1>4. ASSUME NEW i \in 1..k PROVE <<rest[2 * i - 1], rest[2 * i]>> = BE16(s[i])
  <2>1. 2 * i - 1 \in 1..2 * k /\ 2 * i \in 1..2 * k
      OBVIOUS
  <2>2. rest[2 * i - 1] = BE16(s[i])[1] /\ rest[2 * i] = BE16(s[i])[2]
      BY <1>1, <1>3, <2>1
  <2> QED
      BY <2>2, TwoBytes
<1> QED
    BY <1>2, <1>4 DEF rest, w

LEMMA HeadAndValues ==
    ASSUME NEW head, Queue(head), NEW rest, Queue(rest), NEW k \in Nat
    PROVE  LET data == head \o rest
           IN  Len(head) = 5 /\ Len(rest) = 2 * k =>
               /\ Queue(data) /\ Len(data) = 5 + 2 * k
               /\ data[1] = head[1] /\ data[2] = head[2] /\ data[3] = head[3] /\ data[4] = head[4]
               /\ \A e \in 0..k - 1 : /\ data[6 + 2 * e] = rest[2 * (e + 1) - 1]
                                      /\ data[7 + 2 * e] = rest[2 * (e + 1)]
<1> DEFINE data == head \o rest
<1>1. /\ Queue(data) /\ Len(data) = Len(head) + Len(rest)
      /\ \A i \in 1..Len(head) : data[i] = head[i]
      /\ \A i \in 1..Len(rest) : data[Len(head) + i] = rest[i]
    BY ConcatAt
<1> HIDE DEF data
<1> SUFFICES ASSUME Len(head) = 5, Len(rest) = 2 * k
             PROVE  /\ Queue(data) /\ Len(data) = 5 + 2 * k
                    /\ data[1] = head[1] /\ data[2] = head[2] /\ data[3] = head[3] /\ data[4] = head[4]
                    /\ \A e \in 0..k - 1 : /\ data[6 + 2 * e] = rest[2 * (e + 1) - 1]
                                           /\ data[7 + 2 * e] = rest[2 * (e + 1)]
    BY DEF data
<1>2. /\ Len(data) = 5 + 2 * k
      /\ \A i \in 1..5 : data[i] = head[i]
      /\ \A i \in 1..2 * k : data[5 + i] = rest[i]
    BY <1>1
<1>3. ASSUME NEW e \in 0..k - 1
      PROVE  data[6 + 2 * e] = rest[2 * (e + 1) - 1] /\ data[7 + 2 * e] = rest[2 * (e + 1)]
  <2> DEFINE i == 2 * (e + 1) - 1
             j == 2 * (e + 1)
  <2>1. i \in 1..2 * k /\ j \in 1..2 * k /\ 5 + i = 6 + 2 * e /\ 5 + j = 7 + 2 * e
      OBVIOUS
  <2> HIDE DEF i, j
  <2>2. data[5 + i] = rest[i] /\ data[5 + j] = rest[j]
      BY <1>2, <2>1
  <2>3. data[6 + 2 * e] = rest[i] /\ data[7 + 2 * e] = rest[j]
      BY <2>1, <2>2
  <2> QED
      BY <2>3 DEF i, j
<1> QED
    BY <1>1, <1>2, <1>3

LEMMA MultipleBytes ==
    ASSUME NEW n, Queue(n), NEW k, k \in 0..29, n[1] \in Unsigned16, n[2] = k, n[3] = 2 * k, Len(n) = 3 + k
    PROVE  LET written == SubSeq(SubSeq(n, 4, Len(n)), 1, n[3] \div 2)
               data == Words(SubSeq(n, 1, 2)) \o <<n[3]>> \o [i \in 1..n[3] |-> At(Words(written), i - 1)]
           IN  /\ Queue(data) /\ Len(data) = 5 + 2 * k
               /\ Word16(data[1], data[2]) = n[1] /\ Word16(data[3], data[4]) = k
               /\ \A e \in 0..k - 1 : <<data[6 + 2 * e], data[7 + 2 * e]>> = BE16(n[e + 4])
<1> DEFINE two == SubSeq(n, 1, 2)
           written == SubSeq(SubSeq(n, 4, Len(n)), 1, k)
           rest == [i \in 1..2 * k |-> At(Words(written), i - 1)]
           head == Words(two) \o <<n[3]>>
           data == head \o rest
<1>1. k \in Nat /\ n[3] \div 2 = k
    OBVIOUS
<1>2. Queue(written) /\ Len(written) = k /\ \A i \in 1..k : written[i] = n[i + 3]
    BY <1>1, Values
<1> HIDE DEF written
<1>3. /\ Queue(rest) /\ Len(rest) = 2 * k
      /\ \A i \in 1..k : <<rest[2 * i - 1], rest[2 * i]>> = BE16(written[i])
    BY <1>1, <1>2, BytesOfWords
<1> HIDE DEF rest
<1>4. Queue(two) /\ Len(two) = 2 /\ two[1] = n[1] /\ two[2] = k
  <2> DEFINE none == 0
  <2>4. none \in Nat /\ none + 1 = 1 /\ none + 2 = 2
      OBVIOUS
  <2> HIDE DEF none
  <2>1. SubSeq(n, none + 1, none + 2) = <<n[none + 1], n[none + 2]>>
      BY <2>4, PairOfBytes
  <2>2. two = <<n[1], n[2]>>
      BY <2>1, <2>4
  <2> HIDE DEF two
  <2>3. Queue(<<n[1], n[2]>>)
      BY QueueTuples
  <2> QED
      BY <2>2, <2>3
<1> HIDE DEF two
<1>5. /\ Queue(head) /\ Len(head) = 5
      /\ Word16(head[1], head[2]) = n[1] /\ Word16(head[3], head[4]) = k
  <2> DEFINE w == Words(two)
  <2>0. two[1] \in Unsigned16 /\ two[2] \in Unsigned16
      BY <1>4, FewIsUnsigned
  <2>1. /\ Queue(w) /\ Len(w) = 4
        /\ Word16(w[1], w[2]) = n[1] /\ Word16(w[3], w[4]) = k
      BY <1>4, <2>0, WordsOfTwo
  <2> HIDE DEF w
  <2> DEFINE one == <<n[3]>>
  <2>2. Queue(one) /\ Len(one) = 1
      BY QueueTuples
  <2> HIDE DEF one
  <2>3. /\ Queue(w \o one) /\ Len(w \o one) = Len(w) + Len(one)
        /\ \A i \in 1..Len(w) : (w \o one)[i] = w[i]
      BY <2>1, <2>2, ConcatAt
  <2>4. head = w \o one
      BY DEF w, one
  <2> HIDE DEF head
  <2>5. Queue(head) /\ Len(head) = 5 /\ \A i \in 1..4 : head[i] = w[i]
      BY <2>1, <2>2, <2>3, <2>4
  <2>6. head[1] = w[1] /\ head[2] = w[2] /\ head[3] = w[3] /\ head[4] = w[4]
      BY <2>5
  <2> QED
      BY <2>1, <2>5, <2>6
<1> HIDE DEF head
<1>6. /\ Queue(data) /\ Len(data) = 5 + 2 * k
      /\ data[1] = head[1] /\ data[2] = head[2] /\ data[3] = head[3] /\ data[4] = head[4]
      /\ \A e \in 0..k - 1 : data[6 + 2 * e] = rest[2 * (e + 1) - 1] /\ data[7 + 2 * e] = rest[2 * (e + 1)]
  <2>1. Queue(head) /\ Len(head) = 5 /\ Queue(rest) /\ Len(rest) = 2 * k
      BY <1>3, <1>5
  <2>2. Queue(data) /\ Len(data) = 5 + 2 * k
      BY <1>1, <2>1, HeadAndValues
  <2>3. data[1] = head[1] /\ data[2] = head[2] /\ data[3] = head[3] /\ data[4] = head[4]
      BY <1>1, <2>1, HeadAndValues
  <2>4. \A e \in 0..k - 1 : data[6 + 2 * e] = rest[2 * (e + 1) - 1] /\ data[7 + 2 * e] = rest[2 * (e + 1)]
      BY <1>1, <2>1, HeadAndValues
  <2> QED
      BY <2>2, <2>3, <2>4
<1> HIDE DEF data
<1>7. ASSUME NEW e \in 0..k - 1 PROVE <<data[6 + 2 * e], data[7 + 2 * e]>> = BE16(n[e + 4])
  <2> DEFINE i == e + 1
  <2>1. i \in 1..k /\ i + 3 = e + 4
      BY <1>1
  <2> HIDE DEF i
  <2>2. <<rest[2 * i - 1], rest[2 * i]>> = BE16(written[i]) /\ written[i] = n[i + 3]
      BY <1>2, <1>3, <2>1
  <2>3. data[6 + 2 * e] = rest[2 * i - 1] /\ data[7 + 2 * e] = rest[2 * i]
      BY <1>6 DEF i
  <2> QED
      BY <2>1, <2>2, <2>3
<1>8. Word16(data[1], data[2]) = n[1] /\ Word16(data[3], data[4]) = k
    BY <1>5, <1>6
<1>9. data = Words(SubSeq(n, 1, 2)) \o <<n[3]>> \o
               [i \in 1..n[3] |-> At(Words(SubSeq(SubSeq(n, 4, Len(n)), 1, n[3] \div 2)), i - 1)]
  <2> HIDE DEF data
  <2>1. data = Words(SubSeq(n, 1, 2)) \o <<n[3]>> \o
                 [i \in 1..2 * k |-> At(Words(SubSeq(SubSeq(n, 4, Len(n)), 1, k)), i - 1)]
      BY DEF data, head, rest, written, two
  <2> QED
      BY <1>1, <2>1
<1> QED
    BY <1>6, <1>7, <1>8, <1>9

LEMMA ModbusWritesMany ==
    ASSUME NEW c, Whole(c), ModbusProper(c), c.verb = "write_mult_regs", NEW mem
    PROVE  LET n == c.nums
           IN  ModbusServes(umdk_modbus_command(c), mem).writes
                 = [place \in {"register"} \X {c.dest} \X (n[1]..n[1] + n[2] - 1) |->
                      BE16(n[4 + place[3] - n[1]])]
<1> DEFINE n == c.nums
           k == n[2]
           data == ModbusMultipleData(c)
<1>1. /\ Queue(n) /\ n[1] \in Unsigned16 /\ n[1] \in Nat /\ ~(c.dest >= MODBUS_SET_DEVICE)
      /\ k \in 0..29 /\ n[3] = 2 * k /\ Len(n) = 3 + k
  <2>1. Queue(n)
      BY Carries
  <2>5. c.dest \in 0..253
      BY DEF ModbusProper
  <2>2. ~(c.dest >= MODBUS_SET_DEVICE)
      BY <2>5 DEF MODBUS_SET_DEVICE
  <2>3. n[1] \in Unsigned16 /\ k \in 0..29 /\ n[3] = 2 * k /\ Len(n) = 3 + k
      BY DEF ModbusProper
  <2>4. n[1] \in Nat
      BY <2>3, WordIsNat
  <2> QED
      BY <2>1, <2>2, <2>3, <2>4
<1>2. umdk_modbus_command(c) = ModbusFrame(c, \h10, data)
    BY ModbusVerbs DEF umdk_modbus_command, ModbusMultiple, MODBUS_WRITE_MULT_REGS
<1>3. data = Words(SubSeq(n, 1, 2)) \o <<n[3]>> \o
               [i \in 1..n[3] |-> At(Words(SubSeq(SubSeq(n, 4, Len(n)), 1, n[3] \div 2)), i - 1)]
  <2> HIDE DEF n, k
  <2>1. U8(n[3]) = n[3]
      BY <1>1 DEF U8
  <2> USE DEF n
  <2> QED
      BY <2>1 DEF ModbusMultipleData
<1> HIDE DEF data, k, n
<1>4. /\ Queue(data) /\ Len(data) = 5 + 2 * k
      /\ Word16(data[1], data[2]) = n[1] /\ Word16(data[3], data[4]) = k
      /\ \A e \in 0..k - 1 : <<data[6 + 2 * e], data[7 + 2 * e]>> = BE16(n[e + 4])
  <2>1. n[2] = k
      BY DEF k
  <2> QED
      BY <1>1, <1>3, <2>1, MultipleBytes
<1> DEFINE dest == c.dest
           code == \h10
           d == <<dest, code>> \o data
<1>5. umdk_modbus_command(c) = d
  <2>1. Len(data) < 64 /\ c.dest \in 0..253
      BY <1>1, <1>4 DEF ModbusProper
  <2> QED
      BY <1>2, <1>4, <2>1, ModbusSent
<1>6. ModbusFrameOf(d, dest, \h10, data)
  <2>1. code = \h10 /\ Len(data) >= 4 /\ ~(dest >= MODBUS_SET_DEVICE)
      BY <1>1, <1>4
  <2> HIDE DEF code, dest
  <2>2. ModbusFrameOf(d, dest, code, data)
      BY <1>4, <2>1, FrameOfModbus
  <2> QED
      BY <2>1, <2>2
<1> HIDE DEF d, dest
<1>9. ModbusServes(d, mem).writes
        = [place \in {"register"} \X {dest} \X (n[1]..n[1] + k - 1) |->
             <<data[6 + 2 * (place[3] - n[1])], data[7 + 2 * (place[3] - n[1])]>>]
  <2> DEFINE first == n[1]
  <2>1. ModbusValues(data, first, k)
      BY <1>1, <1>4 DEF ModbusValues
  <2> HIDE DEF first
  <2>2. ModbusServes(d, mem).writes = RegistersKept(dest, first, k, data)
      BY <1>6, <2>1, RegistersWritten
  <2> QED
      BY <2>2 DEF first, RegistersKept
<1> DEFINE places == {"register"} \X {dest} \X (n[1]..n[1] + k - 1)
<1>10. ASSUME NEW place \in places
       PROVE  <<data[6 + 2 * (place[3] - n[1])], data[7 + 2 * (place[3] - n[1])]>> = BE16(n[4 + place[3] - n[1]])
  <2> DEFINE r == place[3]
             a == n[1]
             e == r - a
  <2>1. r \in a..a + k - 1 /\ a \in Nat
      BY <1>1, <1>10
  <2> HIDE DEF r, a
  <2>2. e \in 0..k - 1 /\ e + 4 = 4 + r - a
      BY <1>1, <2>1
  <2> HIDE DEF e
  <2>3. <<data[6 + 2 * e], data[7 + 2 * e]>> = BE16(n[e + 4])
      BY <1>4, <2>2
  <2>4. <<data[6 + 2 * (r - a)], data[7 + 2 * (r - a)]>> = BE16(n[4 + r - a])
      BY <2>2, <2>3 DEF e
  <2> QED
      BY <2>4 DEF r, a
<1> QED
  <2> HIDE DEF places
  <2>1. [place \in places |-> <<data[6 + 2 * (place[3] - n[1])], data[7 + 2 * (place[3] - n[1])]>>]
          = [place \in places |-> BE16(n[4 + place[3] - n[1]])]
      BY <1>10, Zenon
  <2> QED
      BY <1>5, <1>9, <2>1 DEF places, dest, n, k
(* What a command says of the registers and what it writes to them agree again. *)
LEMMA AgreesOver ==
    ASSUME NEW c, NEW said, NEW mem, ModbusAgrees(said, mem), NEW S, NEW W,
           DOMAIN W = {p \in S : p[1] = "register"},
           \A p \in DOMAIN W : W[p] = BE16(RegisterSaid(c, p[3]))
    PROVE  ModbusAgrees(Over([thing \in S |-> c], said), Over(W, mem))
<1> DEFINE f == [thing \in S |-> c]
           now == Over(f, said)
           new == Over(W, mem)
<1>1. /\ DOMAIN now = S \cup DOMAIN said
      /\ \A p \in S : now[p] = c
      /\ \A p \in DOMAIN said \ S : now[p] = said[p]
  <2>1. DOMAIN f = S /\ \A p \in S : f[p] = c
      OBVIOUS
  <2> HIDE DEF f
  <2>2. /\ DOMAIN now = DOMAIN f \cup DOMAIN said
        /\ \A p \in DOMAIN f : now[p] = f[p]
        /\ \A p \in DOMAIN said \ DOMAIN f : now[p] = said[p]
      BY Overlay
  <2> HIDE DEF now
  <2> QED
      BY <2>1, <2>2
<1>2. /\ DOMAIN new = DOMAIN W \cup DOMAIN mem
      /\ \A p \in DOMAIN W : new[p] = W[p]
      /\ \A p \in DOMAIN mem \ DOMAIN W : new[p] = mem[p]
    BY Overlay
<1> HIDE DEF now, new, f
<1>3. /\ DOMAIN mem = {p \in DOMAIN said : p[1] = "register"}
      /\ \A p \in DOMAIN mem : mem[p] = BE16(RegisterSaid(said[p], p[3]))
    BY DEF ModbusAgrees
<1>4. DOMAIN new = {p \in DOMAIN now : p[1] = "register"}
    BY <1>1, <1>2, <1>3
<1>5. ASSUME NEW p \in DOMAIN new PROVE new[p] = BE16(RegisterSaid(now[p], p[3]))
  <2>1. CASE p \in DOMAIN W
    <3>1. p \in S /\ now[p] = c /\ new[p] = W[p]
        BY <1>1, <1>2, <2>1
    <3> QED
        BY <2>1, <3>1
  <2>2. CASE p \notin DOMAIN W
    <3>1. p \in DOMAIN mem /\ p \in DOMAIN said /\ p \notin S
        BY <1>2, <1>3, <2>2
    <3>2. now[p] = said[p] /\ new[p] = mem[p]
        BY <1>1, <1>2, <2>2, <3>1
    <3> QED
        BY <1>3, <3>1, <3>2
  <2> QED
      BY <2>1, <2>2
<1>6. ModbusAgrees(now, new)
    BY <1>4, <1>5 DEF ModbusAgrees
<1> QED
    BY <1>6 DEF now, new, f

LEMMA ModbusAgreesAgain ==
    ASSUME NEW c, Whole(c), ModbusProper(c), NEW said, NEW mem, ModbusAgrees(said, mem)
    PROVE  ModbusAgrees(Over([thing \in Sets("modbus", c, said) |-> c], said),
                        Over(ModbusServes(umdk_modbus_command(c), mem).writes, mem))
<1> DEFINE S == Sets("modbus", c, said)
           W == ModbusServes(umdk_modbus_command(c), mem).writes
           n == c.nums
<1>1. CASE c.verb = "write_reg"
  <2>1. S = {<<"register", c.dest, n[1]>>}
      BY <1>1, ModbusSets
  <2>2. W = Keep({<<"register", c.dest, n[1]>>}, BE16(n[2]))
      BY <1>1, ModbusWritesOne
  <2> HIDE DEF S, W, n
  <2>3. DOMAIN W = {p \in S : p[1] = "register"}
      BY <2>1, <2>2 DEF Keep
  <2>4. \A p \in DOMAIN W : W[p] = BE16(RegisterSaid(c, p[3]))
      BY <1>1, <2>2 DEF Keep, RegisterSaid, n
  <2>5. ModbusAgrees(Over([thing \in S |-> c], said), Over(W, mem))
      BY <2>3, <2>4, AgreesOver
  <2> QED
      BY <2>5 DEF S, W
<1>2. CASE c.verb = "write_mult_regs"
  <2> DEFINE places == {"register"} \X {c.dest} \X (n[1]..n[1] + n[2] - 1)
  <2>1. S = places
      BY <1>2, ModbusSets
  <2>2. W = [place \in places |-> BE16(n[4 + place[3] - n[1]])]
      BY <1>2, ModbusWritesMany
  <2>3. \A p \in places : p[1] = "register"
      OBVIOUS
  <2> HIDE DEF S, W, places
  <2>4. DOMAIN W = {p \in S : p[1] = "register"}
      BY <2>1, <2>2, <2>3
  <2>5. \A p \in DOMAIN W : W[p] = BE16(RegisterSaid(c, p[3]))
      BY <1>2, <2>2 DEF RegisterSaid
  <2>6. ModbusAgrees(Over([thing \in S |-> c], said), Over(W, mem))
      BY <2>4, <2>5, AgreesOver
  <2> QED
      BY <2>6 DEF S, W
<1>3. CASE c.verb \notin {"write_reg", "write_mult_regs"}
  <2>1. \A p \in S : p[1] # "register"
      BY <1>3, ModbusSets
  <2>2. W = Nothing
    <3>1. c.verb \in {"send", "pack"} => At(c.text, 1) \notin {\h06, \h10}
        BY DEF ModbusProper
    <3> QED
        BY <1>3, <3>1, ModbusQuiet
  <2> HIDE DEF S, W
  <2>3. DOMAIN W = {p \in S : p[1] = "register"}
      BY <2>1, <2>2 DEF Nothing
  <2>4. \A p \in DOMAIN W : W[p] = BE16(RegisterSaid(c, p[3]))
      BY <2>2 DEF Nothing
  <2>5. ModbusAgrees(Over([thing \in S |-> c], said), Over(W, mem))
      BY <2>3, <2>4, AgreesOver
  <2> QED
      BY <2>5 DEF S, W
<1> QED
    BY <1>1, <1>2, <1>3

(* What the gate publishes itself is refused by the codec and writes nothing. *)
LEMMA ModbusAgreesStill ==
    ASSUME NEW said, NEW mem, ModbusAgrees(said, mem)
    PROVE  ModbusAgrees(said, Over(ModbusServes(umdk_modbus_command(FromGate), mem).writes, mem))
<1> DEFINE W == ModbusServes(umdk_modbus_command(FromGate), mem).writes
           new == Over(W, mem)
<1>1. W = Nothing
  <2> DEFINE c == FromGate
  <2>1. c.verb = "json"
      BY DEF FromGate
  <2> HIDE DEF c
  <2>2. Whole(c)
      BY <2>1 DEF Whole
  <2>3. ModbusServes(umdk_modbus_command(c), mem).writes = Nothing
      BY <2>1, <2>2, ModbusQuiet
  <2> QED
      BY <2>3 DEF c
<1> HIDE DEF W
<1>2. DOMAIN W = {}
    BY <1>1 DEF Nothing
<1>3. DOMAIN new = DOMAIN mem /\ \A p \in DOMAIN mem : new[p] = mem[p]
  <2>1. /\ DOMAIN new = DOMAIN W \cup DOMAIN mem
        /\ \A p \in DOMAIN mem \ DOMAIN W : new[p] = mem[p]
      BY Overlay
  <2> HIDE DEF new
  <2> QED
      BY <1>2, <2>1
<1> HIDE DEF new
<1>4. ModbusAgrees(said, new)
    BY <1>3 DEF ModbusAgrees
<1> QED
    BY <1>4 DEF new, W

(* A register is read as the last word that it was told, or as zero. *)
RegisterShown(said, dest, r) ==
    LET place == <<"register", dest, r>>
    IN  IF place \in DOMAIN said THEN RegisterSaid(said[place], r) ELSE 0

LEMMA RegisterHeld ==
    ASSUME NEW said, NEW mem, ModbusAgrees(said, mem), NEW dest, NEW r
    PROVE  Held(mem, <<"register", dest, r>>, <<0, 0>>) = BE16(RegisterShown(said, dest, r))
<1> DEFINE place == <<"register", dest, r>>
<1>1. place[1] = "register" /\ place[3] = r
    OBVIOUS
<1> HIDE DEF place
<1>2. CASE place \in DOMAIN said
  <2>1. place \in DOMAIN mem
      BY <1>1, <1>2 DEF ModbusAgrees
  <2>2. mem[place] = BE16(RegisterSaid(said[place], r))
      BY <1>1, <2>1 DEF ModbusAgrees
  <2>3. RegisterShown(said, dest, r) = RegisterSaid(said[place], r)
      BY <1>2 DEF RegisterShown, place
  <2> QED
      BY <2>1, <2>2, <2>3 DEF Held, place
<1>3. CASE place \notin DOMAIN said
  <2>1. place \notin DOMAIN mem
      BY <1>3 DEF ModbusAgrees
  <2>2. RegisterShown(said, dest, r) = 0
      BY <1>3 DEF RegisterShown, place
  <2>3. BE16(0) = <<0, 0>>
      BY DEF BE16, U8
  <2> QED
      BY <2>1, <2>2, <2>3 DEF Held, place
<1> QED
    BY <1>2, <1>3

Regrouped(a, b, e, t) == <<a, b, e>> \o t = <<a, b>> \o (<<e>> \o t)

LEMMA Regroup == ASSUME NEW a, NEW b, NEW e, NEW t, Queue(t) PROVE Regrouped(a, b, e, t)
<1> DEFINE S == {a, b, e} \cup Range(t)
<1>1. <<a, b>> \in Seq(S) /\ <<e>> \in Seq(S)
    OBVIOUS
<1>2. t \in Seq(S)
    BY SeqMonotonic DEF Queue
<1>3. <<a, b>> \o <<e>> = <<a, b, e>>
  <2> DEFINE s == <<a, b>> \o <<e>>
  <2>1. s \in Seq(S) /\ Len(s) = 3 /\ s[1] = a /\ s[2] = b /\ s[3] = e
      BY <1>1, ConcatProperties
  <2> HIDE DEF s
  <2>2. s = [i \in 1..3 |-> s[i]]
      BY <2>1
  <2>3. s = <<a, b, e>>
      BY <2>1, <2>2
  <2> QED
      BY <2>3 DEF s
<1> HIDE DEF S
<1> QED
    BY <1>1, <1>2, <1>3, ConcatAssociative DEF Regrouped

RegistersHeld(mem, dest, first, count) ==
    [i \in 1..2 * count |-> Held(mem, <<"register", dest, first + ((i - 1) \div 2)>>, <<0, 0>>)[2 - (i % 2)]]
RegistersTold(said, dest, first, count) ==
    [i \in 1..count |-> RegisterShown(said, dest, first + i - 1)]

(* What is read of registers are the words that they were told. *)
LEMMA WordsShown ==
    ASSUME NEW said, NEW mem, ModbusAgrees(said, mem), NEW dest, NEW first \in Nat, NEW count \in Nat
    PROVE  RegistersHeld(mem, dest, first, count) = Words(RegistersTold(said, dest, first, count))
<1> DEFINE s == [i \in 1..count |-> RegisterShown(said, dest, first + i - 1)]
           held(i) == Held(mem, <<"register", dest, first + ((i - 1) \div 2)>>, <<0, 0>>)
<1>1. Words(s) = [i \in 1..2 * count |-> BE16(s[(i + 1) \div 2])[2 - (i % 2)]]
  <2>1. Len(s) = count
      OBVIOUS
  <2> HIDE DEF s
  <2> QED
      BY <2>1 DEF Words
<1>2. ASSUME NEW i \in 1..2 * count PROVE BE16(s[(i + 1) \div 2]) = held(i)
  <2> DEFINE j == (i + 1) \div 2
             k == (i - 1) \div 2
  <2>1. j \in 1..count /\ first + j - 1 = first + k
      OBVIOUS
  <2> HIDE DEF j, k
  <2>2. s[j] = RegisterShown(said, dest, first + k)
      BY <2>1
  <2> HIDE DEF s
  <2>3. Held(mem, <<"register", dest, first + k>>, <<0, 0>>) = BE16(s[j])
      BY <2>2, RegisterHeld
  <2> QED
      BY <2>3 DEF j, k
<1> HIDE DEF s, held
<1>3. Words(s) = [i \in 1..2 * count |-> held(i)[2 - (i % 2)]]
  <2> DEFINE I == 1..2 * count
  <2>1. \A i \in I : BE16(s[(i + 1) \div 2])[2 - (i % 2)] = held(i)[2 - (i % 2)]
      BY <1>2
  <2>2. Words(s) = [i \in I |-> BE16(s[(i + 1) \div 2])[2 - (i % 2)]]
      BY <1>1
  <2> HIDE DEF I
  <2>3. Words(s) = [i \in I |-> held(i)[2 - (i % 2)]]
      BY <2>1, <2>2, Zenon
  <2> QED
      BY <2>3 DEF I
<1> QED
    BY <1>3 DEF s, held, RegistersHeld, RegistersTold

(* Room for the pairs of an answer. *)
LEMMA StoredWhole ==
    ASSUME NEW s, Queue(s), Len(s) <= MQTT_MSG_MAX_NUM PROVE Stored(s) = s
<1> DEFINE n == IF Len(s) < MQTT_MSG_MAX_NUM THEN Len(s) ELSE MQTT_MSG_MAX_NUM
<1>1. Len(s) \in Nat
    BY QueueLen
<1>2. n = Len(s)
    BY <1>1, MaxNumAssumption
<1> HIDE DEF n
<1>3. SubSeq(s, 1, Len(s)) = s
    BY <1>1 DEF Queue
<1> QED
    BY <1>2, <1>3 DEF Stored, n

LEMMA RegistersPublished ==
    ASSUME NEW dest, NEW t, Queue(t), Len(t) > 0
    PROVE  umdk_modbus_reply(<<dest, \h03>> \o t) = Pair("address", Num(dest)) \o Pair("data", HexText(t))
<1> DEFINE code == \h03
           d == <<dest, code>> \o t
<1>1. code < \h80
    OBVIOUS
<1>2. code = \h03
    OBVIOUS
<1> HIDE DEF code
<1>3. Len(t) \in Nat
    BY QueueLen
<1>31. TwoThen(d, dest, code, t)
    BY AfterTwo
<1> HIDE DEF d
<1>4. Len(d) = 2 + Len(t) /\ At(d, 0) = dest /\ At(d, 1) = code /\ From(d, 2) = t
    BY <1>31 DEF TwoThen
<1>5. Len(d) # 1 /\ Len(d) # 2
    BY <1>3, <1>4
<1>6. ~(Len(d) > 2 /\ At(d, 1) >= \h80)
  <2>1. code \in Int
      BY <1>2
  <2> QED
      BY <1>1, <1>4, <2>1
<1>7. umdk_modbus_reply(d) = Pair("address", Num(At(d, 0))) \o Pair("data", HexText(From(d, 2)))
    BY <1>5, <1>6, Zenon DEF umdk_modbus_reply
<1> QED
    BY <1>2, <1>4, <1>7 DEF d

LEMMA ConvertedBy ==
    ASSUME NEW type \in ModuleNames, NEW data, Accepted(type, data)
    PROVE  Converted(unwds_modid_by_name(type), data)
             = <<[topic |-> type, pairs |-> Stored(ReplyOf(type, data))]>>
<1> DEFINE modid == unwds_modid_by_name(type)
           u == CHOOSE t \in ModuleNames : unwds_modid_by_name(t) = modid
<1>1. modid # UNWDS_MODULE_NOT_FOUND
    BY Identifiers DEF UNWDS_MODULE_NOT_FOUND
<1>2. \E t \in ModuleNames : unwds_modid_by_name(t) = modid
    OBVIOUS
<1>3. u \in ModuleNames /\ unwds_modid_by_name(u) = modid
    BY <1>2, Zenon
<1>4. convert_to(modid, data) =
        IF Accepted(u, data) THEN <<[topic |-> u, pairs |-> Stored(ReplyOf(u, data))]>> ELSE <<>>
    BY <1>2, Zenon DEF convert_to
<1> HIDE DEF u
<1>5. u = type
    BY <1>3, Identifiers
<1> QED
    BY <1>1, <1>4, <1>5 DEF Converted

(* The registers that a query names are shown as they were told last. *)
LEMMA ModbusMeant ==
    ASSUME NEW c, NEW said, Shows("modbus", c, said) # <<>>
    PROVE  LET shown == RegistersTold(said, c.dest, c.nums[1], c.nums[2])
           IN  /\ c.verb = "read_hold_reg"
               /\ Shows("modbus", c, said)[1]
                    = Pair("address", Num(c.dest)) \o Pair("data", HexText(<<2 * c.nums[2]>> \o Words(shown)))
<1> DEFINE value(r) ==
             LET place == <<"register", c.dest, r>>
             IN  CASE place \notin DOMAIN said -> 0
                   [] place \in DOMAIN said /\ said[place].verb = "write_reg" -> said[place].nums[2]
                   [] OTHER -> said[place].nums[4 + r - said[place].nums[1]]
           address == Pair("address", Num(c.dest))
           shows == ModbusShows(c, said)
           data(s) == <<Pair("data", HexText(<<2 * c.nums[2]>> \o Words(s)))>>
           meant == [i \in 1..c.nums[2] |-> value(c.nums[1] + i - 1)]
           shown == [i \in 1..c.nums[2] |-> RegisterShown(said, c.dest, c.nums[1] + i - 1)]
<1>1. Shows("modbus", c, said) = IF shows = <<>> THEN <<>> ELSE <<address \o shows[1]>>
    BY DEF Shows
<1>2. shows = IF c.verb # "read_hold_reg" THEN <<>> ELSE data(meant)
    BY DEF ModbusShows
<1>3. ASSUME NEW r PROVE value(r) = RegisterShown(said, c.dest, r)
  <2> DEFINE place == <<"register", c.dest, r>>
             last == said[place]
  <2>1. RegisterShown(said, c.dest, r) = IF place \in DOMAIN said THEN RegisterSaid(last, r) ELSE 0
      BY DEF RegisterShown
  <2>2. value(r) = CASE place \notin DOMAIN said -> 0
                     [] place \in DOMAIN said /\ last.verb = "write_reg" -> last.nums[2]
                     [] OTHER -> last.nums[4 + r - last.nums[1]]
      OBVIOUS
  <2>3. RegisterSaid(last, r) = IF last.verb = "write_reg" THEN last.nums[2] ELSE last.nums[4 + r - last.nums[1]]
      BY DEF RegisterSaid
  <2> HIDE DEF place, last, value
  <2> QED
      BY <2>1, <2>2, <2>3
<1> HIDE DEF value, shows, address
<1>4. meant = shown
    BY <1>3
<1> HIDE DEF meant, shown
<1>5. c.verb = "read_hold_reg"
    BY <1>1, <1>2
<1>6. shows = data(shown)
    BY <1>2, <1>4, <1>5
<1>7. shows # <<>> /\ shows[1] = Pair("data", HexText(<<2 * c.nums[2]>> \o Words(shown)))
    BY <1>6
<1>8. Shows("modbus", c, said)[1] = address \o shows[1]
  <2> DEFINE all == address \o shows[1]
  <2>1. Shows("modbus", c, said) = IF shows = <<>> THEN <<>> ELSE <<all>>
      BY <1>1
  <2> HIDE DEF all
  <2>2. shows # <<>>
      BY <1>7
  <2>3. Shows("modbus", c, said) = <<all>>
      BY <2>1, <2>2, Zenon
  <2>4. Shows("modbus", c, said)[1] = all
      BY <2>3
  <2> QED
      BY <2>4 DEF all
<1> QED
    BY <1>5, <1>7, <1>8 DEF address, shown, RegistersTold

LEMMA ModbusShown ==
    ASSUME NEW c, Whole(c), ModbusProper(c), NEW said, NEW mem, ModbusAgrees(said, mem),
           MQTT_MSG_MAX_NUM >= 2, Shows("modbus", c, said) # <<>>
    PROVE  Converted(unwds_modid_by_name("modbus"), ModbusServes(umdk_modbus_command(c), mem).answer)
             = <<[topic |-> "modbus", pairs |-> Shows("modbus", c, said)[1]]>>
<1> DEFINE first == c.nums[1]
           count == c.nums[2]
           dest == c.dest
           shown == RegistersTold(said, dest, first, count)
           data == <<2 * count>> \o Words(shown)
           held == RegistersHeld(mem, dest, first, count)
           answer == ModbusServes(umdk_modbus_command(c), mem).answer
           pairs == Pair("address", Num(dest)) \o Pair("data", HexText(data))
<1>1. c.verb = "read_hold_reg" /\ Shows("modbus", c, said)[1] = pairs
    BY ModbusMeant
<1>2. first \in Nat /\ count \in Nat
  <2>1. first \in Unsigned16 /\ count \in 0..24
      BY <1>1 DEF ModbusProper
  <2> HIDE DEF first, count
  <2> QED
      BY <2>1, WordIsNat
<1>3. answer = <<dest, \h03, 2 * count>> \o held
  <2>1. ModbusServes(umdk_modbus_command(c), mem) = Served(Nothing, <<dest, \h03, 2 * count>> \o held)
      BY <1>1, ModbusReads DEF RegistersHeld
  <2> HIDE DEF held, dest, count
  <2> QED
      BY <2>1 DEF Served
<1> HIDE DEF answer, pairs, first, count, dest
<1>4. held = Words(shown)
    BY <1>2, WordsShown
<1>5. Queue(Words(shown))
  <2>1. Queue(shown)
      BY <1>2, QueueMap DEF RegistersTold
  <2> HIDE DEF shown
  <2> QED
      BY <2>1, WordsAt
<1> HIDE DEF held
<1>6. answer = <<dest, \h03>> \o data
  <2> DEFINE w == Words(shown)
  <2>1. Queue(w) /\ answer = <<dest, \h03, 2 * count>> \o w
      BY <1>3, <1>4, <1>5
  <2> HIDE DEF w
  <2> DEFINE code == \h03
             many == 2 * count
  <2> HIDE DEF code, many
  <2>3. Regrouped(dest, code, many, w)
      BY <2>1, Regroup
  <2>2. <<dest, code, many>> \o w = <<dest, code>> \o (<<many>> \o w)
      BY <2>3, Zenon DEF Regrouped
  <2> QED
      BY <2>1, <2>2 DEF code, many, w
<1>7. Queue(data) /\ Len(data) > 0
  <2> DEFINE w == Words(shown)
             many == 2 * count
  <2>1. Queue(w) /\ Queue(<<many>>) /\ Len(<<many>>) = 1
      BY <1>5, QueueOne
  <2> HIDE DEF w, many
  <2>2. Queue(<<many>> \o w) /\ Len(<<many>> \o w) = 1 + Len(w) /\ Len(w) \in Nat
      BY <2>1, ConcatAt, QueueLen
  <2>3. Len(<<many>> \o w) > 0
      BY <2>2
  <2> QED
      BY <2>2, <2>3 DEF w, many
<1> HIDE DEF data
<1>8. umdk_modbus_reply(answer) = pairs
    BY <1>6, <1>7, RegistersPublished DEF pairs
<1>9. Stored(pairs) = pairs
  <2> DEFINE a == [name |-> <<"address">>, value |-> Num(dest)]
             b == [name |-> <<"data">>, value |-> HexText(data)]
  <2>1. pairs = <<a>> \o <<b>>
      BY DEF Pair, pairs
  <2> HIDE DEF a, b
  <2>2. Queue(<<a>>) /\ Queue(<<b>>) /\ Len(<<a>>) = 1 /\ Len(<<b>>) = 1
      BY QueueOne
  <2>3. Queue(pairs) /\ Len(pairs) = 2
      BY <2>1, <2>2, ConcatAt
  <2> QED
      BY <2>3, StoredWhole, MaxNumAssumption
<1>10. Converted(unwds_modid_by_name("modbus"), answer)
         = <<[topic |-> "modbus", pairs |-> Stored(umdk_modbus_reply(answer))]>>
  <2>1. "modbus" \in ModuleNames
      BY Names
  <2>2. Accepted("modbus", answer) /\ ReplyOf("modbus", answer) = umdk_modbus_reply(answer)
      BY DEF Accepted, ReplyOf
  <2> QED
      BY <2>1, <2>2, ConvertedBy
<1>11. Converted(unwds_modid_by_name("modbus"), answer) = <<[topic |-> "modbus", pairs |-> Shows("modbus", c, said)[1]]>>
    BY <1>1, <1>8, <1>9, <1>10
<1> QED
    BY <1>11 DEF answer

LEMMA ModbusFaithful == ASSUME MQTT_MSG_MAX_NUM >= 2 PROVE Faithful("modbus")
<1>1. ASSUME NEW c, NEW mem
      PROVE  Memory("modbus", c, mem) = Over(ModbusServes(umdk_modbus_command(c), mem).writes, mem)
    BY DEF Memory, Serves, CommandOf
<1>2. ASSUME NEW c, NEW said, NEW mem, ModbusAgrees(said, mem)
      PROVE  /\ ModbusAgrees(said, Memory("modbus", FromGate, mem))
             /\ Whole(c) /\ ModbusProper(c) =>
                  /\ ModbusAgrees(Over([thing \in Sets("modbus", c, said) |-> c], said), Memory("modbus", c, mem))
                  /\ Shows("modbus", c, said) # <<>> =>
                       Converted(unwds_modid_by_name("modbus"), ModbusServes(umdk_modbus_command(c), mem).answer)
                         = <<[topic |-> "modbus", pairs |-> Shows("modbus", c, said)[1]]>>
  <2>1. ModbusAgrees(said, Memory("modbus", FromGate, mem))
      BY <1>1, <1>2, ModbusAgreesStill
  <2>2. ASSUME Whole(c), ModbusProper(c)
        PROVE  ModbusAgrees(Over([thing \in Sets("modbus", c, said) |-> c], said), Memory("modbus", c, mem))
    <3>1. ModbusAgrees(Over([thing \in Sets("modbus", c, said) |-> c], said),
                       Over(ModbusServes(umdk_modbus_command(c), mem).writes, mem))
        BY <1>2, <2>2, ModbusAgreesAgain
    <3> QED
        BY <1>1, <3>1
  <2>3. ASSUME Whole(c), ModbusProper(c), Shows("modbus", c, said) # <<>>
        PROVE  Converted(unwds_modid_by_name("modbus"), ModbusServes(umdk_modbus_command(c), mem).answer)
                 = <<[topic |-> "modbus", pairs |-> Shows("modbus", c, said)[1]]>>
      BY <1>2, <2>3, ModbusShown
  <2> QED
      BY <2>1, <2>2, <2>3
<1>3. \A c, said, mem : Agrees("modbus", said, mem) <=> ModbusAgrees(said, mem)
    BY DEF Agrees
<1>4. \A c : Proper("modbus", c) <=> ModbusProper(c)
    BY DEF Proper
<1>5. \A c, mem : Serves("modbus", CommandOf("modbus", c), mem) = ModbusServes(umdk_modbus_command(c), mem)
    BY DEF Serves, CommandOf
<1>6. ASSUME NEW c, NEW said, NEW mem, Agrees("modbus", said, mem)
      PROVE  /\ Agrees("modbus", said, Memory("modbus", FromGate, mem))
             /\ Whole(c) /\ Proper("modbus", c) =>
                  /\ Agrees("modbus", Over([thing \in Sets("modbus", c, said) |-> c], said), Memory("modbus", c, mem))
                  /\ Shows("modbus", c, said) # <<>> =>
                       Converted(unwds_modid_by_name("modbus"), Serves("modbus", CommandOf("modbus", c), mem).answer)
                         = <<[topic |-> "modbus", pairs |-> Shows("modbus", c, said)[1]]>>
  <2>1. ModbusAgrees(said, mem)
      BY <1>3, <1>6
  <2>2. Serves("modbus", CommandOf("modbus", c), mem) = ModbusServes(umdk_modbus_command(c), mem)
      BY <1>5
  <2> QED
      BY <1>2, <1>3, <1>4, <2>1, <2>2
<1> QED
    BY <1>6, Zenon DEF Faithful

(* What clients are shown of a module that is faithful. *)
ShownInv(type) == OwnInv /\ ReachInv /\ ReadInv(type)
LEMMA FaithfulShown ==
    ASSUME NEW type \in ModuleNames, Faithful(type), Agrees(type, Nothing, Nothing),
           NoZeroInFront, AsksProperly(type)
    PROVE  /\ Init => ShownInv(type)
           /\ ShownInv(type) /\ [Next]_vars => ShownInv(type)'
           /\ ShownInv(type) => ShownAsMeant(type)
<1>1. Init => ShownInv(type)
    BY InitOwn, InitReach, InitRead DEF ShownInv
<1>2. ShownInv(type) /\ [Next]_vars => ShownInv(type)'
    BY NextOwn, NextReach, NextRead DEF ShownInv
<1>3. ShownInv(type) => ShownAsMeant(type)
  <2> SUFFICES ASSUME ReadInv(type) PROVE ShownAsMeant(type)
      BY DEF ShownInv
  <2>1. \A m \in Range(published.asked) :
          published.topic = type /\ published.shows # <<>> => published.pairs = published.shows[1]
      BY DEF ReadInv
  <2>2. published.asked # NoMessage => \E m : m \in Range(published.asked)
    <3>1. published.asked = NoMessage \/ \E m : published.asked = <<m>>
        BY DEF ReadInv
    <3> QED
        BY <3>1, QueueOne
  <2> QED
      BY <2>1, <2>2 DEF ShownAsMeant
<1> QED
    BY <1>1, <1>2, <1>3

(* A client is shown of Modbus registers what the commands before it said, and zero where
   they said nothing: umdk_modbus_command (umdk-modbus.c:93) puts the numbers into the frame
   of the register they are for, umdk_modbus_reply (460) shows those that were read.  This
   holds for all that clients publish, in any order and to any number of motes, as long as
   the codec can carry the commands, a message has room for two pairs and no address begins
   with a zero byte. *)
THEOREM RegistersShown ==
    NoZeroInFront /\ MQTT_MSG_MAX_NUM >= 2 /\ AsksProperly("modbus") /\ Spec => []ModbusReadBack
<1> SUFFICES ASSUME NoZeroInFront, MQTT_MSG_MAX_NUM >= 2, AsksProperly("modbus")
             PROVE  Spec => []ModbusReadBack
    OBVIOUS
<1>1. Faithful("modbus") /\ "modbus" \in ModuleNames
    BY ModbusFaithful, Names
<1>2. Agrees("modbus", Nothing, Nothing)
    BY DEF Agrees, ModbusAgrees, Nothing
<1>3. /\ Init => ShownInv("modbus")
      /\ ShownInv("modbus") /\ [Next]_vars => ShownInv("modbus")'
      /\ ShownInv("modbus") => ModbusReadBack
    BY <1>1, <1>2, FaithfulShown DEF ModbusReadBack
<1> QED
    BY <1>3, PTL DEF Spec

(***************************************************************************)
(* Mercury 200: what a meter is told of schedules, time and tariffs is     *)
(* what it shows (umdk-m200.c).                                            *)
(***************************************************************************)
Joined(d, s, t) ==
    /\ Queue(d) /\ Len(d) = Len(s) + Len(t)
    /\ \A i \in 1..Len(s) : d[i] = s[i]
    /\ \A i \in 1..Len(t) : d[Len(s) + i] = t[i]

LEMMA Joins == ASSUME NEW s, Queue(s), NEW t, Queue(t) PROVE Joined(s \o t, s, t)
<1> DEFINE d == s \o t
<1>1. /\ Queue(d) /\ Len(d) = Len(s) + Len(t)
      /\ \A i \in 1..Len(s) : d[i] = s[i]
      /\ \A i \in 1..Len(t) : d[Len(s) + i] = t[i]
    BY ConcatAt
<1> HIDE DEF d
<1>2. Joined(d, s, t)
    BY <1>1 DEF Joined
<1> QED
    BY <1>2 DEF d

LEMMA SwappedBytes ==
    ASSUME NEW n
    PROVE  /\ Queue(Swapped(n)) /\ Len(Swapped(n)) = 4
           /\ \A i \in 1..4 : Swapped(n)[i] = BE32(n)[5 - i]
           /\ BE32(n) = <<BE32(n)[1], BE32(n)[2], BE32(n)[3], BE32(n)[4]>>
<1> DEFINE w == BE32(n)
<1>1. Len(w) = 4 /\ w = <<w[1], w[2], w[3], w[4]>>
    BY DEF BE32
<1> HIDE DEF w
<1>2. Swapped(n) = [i \in 1..4 |-> w[5 - i]]
    BY <1>1 DEF Swapped, Reversed, w
<1>3. Queue(Swapped(n)) /\ Len(Swapped(n)) = 4 /\ \A i \in 1..4 : Swapped(n)[i] = w[5 - i]
  <2> DEFINE s == Swapped(n)
  <2>1. s = [i \in 1..4 |-> w[5 - i]]
      BY <1>2
  <2> HIDE DEF s
  <2>2. s = [i \in 1..4 |-> s[i]]
      BY <2>1
  <2> DEFINE n4 == 4
  <2>5. n4 \in Int /\ s = [i \in 1..n4 |-> s[i]]
      BY <2>2
  <2> HIDE DEF n4
  <2>3. Queue(s)
      BY <2>5, QueueMap
  <2>4. Queue(s) /\ Len(s) = 4 /\ \A i \in 1..4 : s[i] = w[5 - i]
      BY <2>1, <2>3
  <2> QED
      BY <2>4 DEF s
<1> QED
    BY <1>1, <1>3 DEF w

LEMMA AddressOfOne ==
    ASSUME NEW a \in Signed32, NEW b \in Signed32, Swapped(a) = Swapped(b) PROVE a = b
<1>1. ASSUME NEW n \in Signed32
      PROVE  Word32(Swapped(n)[4], Swapped(n)[3], Swapped(n)[2], Swapped(n)[1]) = n
    BY AddressBack DEF Signed32
<1> QED
    BY <1>1, Zenon

M200FrameOf(d, code, address, rest) ==
    /\ Queue(d) /\ Len(d) = 5 + Len(rest) /\ At(d, 0) = code /\ SubSeq(d, 2, 5) = address
    /\ \A i \in 1..Len(rest) : d[i + 5] = rest[i] /\ At(d, i + 4) = rest[i]

LEMMA M200FrameHas ==
    ASSUME NEW c, NEW code, NEW rest, Queue(rest)
    PROVE  M200FrameOf(M200Frame(code, c, rest), code, Swapped(c.dest), rest)
<1> DEFINE address == Swapped(c.dest)
           head == <<code>> \o address
           d == head \o rest
<1>1. Queue(address) /\ Len(address) = 4 /\ Len(rest) \in Nat
    BY SwappedBytes, QueueLen
<1> HIDE DEF address
<1>2. Queue(<<code>>) /\ Len(<<code>>) = 1 /\ <<code>>[1] = code
    BY QueueOne
<1>3. /\ Queue(head) /\ Len(head) = 5 /\ head[1] = code
      /\ \A i \in 1..4 : head[1 + i] = address[i]
  <2> DEFINE e == <<code>>
  <2>1. Queue(e) /\ Len(e) = 1 /\ e[1] = code
      BY <1>2
  <2> HIDE DEF e
  <2>2. Joined(e \o address, e, address)
      BY <1>1, <2>1, Joins
  <2>3. head = e \o address
      BY DEF e
  <2> HIDE DEF head
  <2> QED
      BY <1>1, <2>1, <2>2, <2>3 DEF Joined
<1> HIDE DEF head
<1>4. /\ Queue(d) /\ Len(d) = 5 + Len(rest)
      /\ \A i \in 1..5 : d[i] = head[i]
      /\ \A i \in 1..Len(rest) : d[5 + i] = rest[i]
  <2>0. Joined(d, head, rest)
      BY <1>3, Joins
  <2> HIDE DEF d
  <2> QED
      BY <1>1, <1>3, <2>0 DEF Joined
<1> HIDE DEF d
<1>5. At(d, 0) = code
    BY <1>1, <1>3, <1>4 DEF At
<1>6. SubSeq(d, 2, 5) = address
  <2>1. SubSeq(d, 2, 5) = [k \in 1..4 |-> d[k + 1]]
    <3>1. SubSeq(d, 2, 5) = [k \in 1..(1 + 5 - 2) |-> d[k + 2 - 1]]
        OBVIOUS
    <3>2. 1 + 5 - 2 = 4 /\ \A k \in 1..4 : k + 2 - 1 = k + 1
        OBVIOUS
    <3> QED
        BY <3>1, <3>2
  <2>2. \A k \in 1..4 : d[k + 1] = address[k]
      BY <1>3, <1>4
  <2>3. address = [k \in 1..4 |-> address[k]]
      BY <1>1 DEF Queue
  <2> QED
      BY <2>1, <2>2, <2>3
<1>7. ASSUME NEW i \in 1..Len(rest) PROVE d[i + 5] = rest[i] /\ At(d, i + 4) = rest[i]
  <2>1. d[i + 5] = rest[i] /\ i + 4 < Len(d) /\ (i + 4) + 1 = i + 5
      BY <1>1, <1>4
  <2> QED
      BY <2>1 DEF At
<1>8. M200FrameOf(d, code, address, rest)
    BY <1>4, <1>5, <1>6, <1>7 DEF M200FrameOf
<1> QED
    BY <1>8 DEF M200Frame, d, head, address

LEMMA M200Verbs ==
    /\ DOMAIN M200Query = {"get_serial", "get_number_tariffs", "get_power_limit", "get_power_current",
                           "get_timedate", "get_worktime", "get_uip", "add"}
    /\ \A v \in DOMAIN M200Query : M200Query[v] \in {\h01, \h10, \h08, \h09, \h07, \h15, \h06, \hFE}
    /\ DOMAIN M200Time = {"switch_on", "switch_off", "open", "close"}
    /\ \A v \in DOMAIN M200Time : M200Time[v] \in {\h0C, \h0B, \h04, \h05}
BY DEF M200Query, M200Time

LEMMA M200First ==
    ASSUME NEW c, NEW code, NEW rest, Queue(rest) PROVE At(M200Frame(code, c, rest), 0) = code
<1> DEFINE d == M200Frame(code, c, rest)
<1>1. M200FrameOf(d, code, Swapped(c.dest), rest)
    BY M200FrameHas
<1> HIDE DEF d
<1>2. At(d, 0) = code
    BY <1>1 DEF M200FrameOf
<1> QED
    BY <1>2 DEF d

(* Only three commands change what a meter keeps; the others begin with another code. *)
M200WriteCodes == {\h14, \h16, \h11}
LEMMA M200Others ==
    ASSUME NEW c, c.verb \notin M200Told
    PROVE  At(umdk_m200_command(c), 0) \notin M200WriteCodes
<1> DEFINE d == umdk_m200_command(c)
<1>a. \A e : At(<<e>>, 0) = e
    BY DEF At
<1>b. \A e, f : At(<<e, f>>, 0) = e
    BY DEF At
<1>0. /\ At(M200Error, 0) = \hFF
      /\ \A e : At(<<e>>, 0) = e
      /\ \A e, f : At(<<e, f>>, 0) = e
    BY <1>a, <1>b DEF M200Error
<1>1. \A code : At(M200Frame(code, c, <<>>), 0) = code
    BY QueueOne, M200First
<1>2. ASSUME NEW code, NEW e PROVE At(M200Frame(code, c, <<e>>), 0) = code
  <2> DEFINE t == <<e>>
  <2>1. Queue(t)
      BY QueueOne
  <2> HIDE DEF t
  <2>2. At(M200Frame(code, c, t), 0) = code
      BY <2>1, M200First
  <2> QED
      BY <2>2 DEF t
<1>3. CASE c.verb \in DOMAIN M200Query
  <2>1. d = M200Frame(M200Query[c.verb], c, <<>>)
      BY <1>3, M200Verbs, Zenon DEF umdk_m200_command
  <2>2. At(d, 0) = M200Query[c.verb]
      BY <1>1, <2>1
  <2>3. M200Query[c.verb] \notin M200WriteCodes
      BY <1>3, M200Verbs DEF M200WriteCodes
  <2> QED
      BY <2>2, <2>3
<1>4. CASE c.verb = "set_address"
  <2>1. d = M200Frame(\h02, c, Swapped(c.nums[1]))
      BY <1>4, M200Verbs DEF umdk_m200_command
  <2>2. Queue(Swapped(c.nums[1]))
      BY SwappedBytes
  <2>3. At(M200Frame(\h02, c, Swapped(c.nums[1])), 0) = \h02
      BY <2>2, M200First
  <2> QED
      BY <2>1, <2>3 DEF M200WriteCodes
<1>5. CASE c.verb = "get_value"
  <2>1. d = M200GetValue(c)
      BY <1>5, M200Verbs DEF umdk_m200_command
  <2>2. At(M200GetValue(c), 0) \in {\h0A, \h0F, \hFF}
      BY <1>0, <1>1, <1>2 DEF M200GetValue
  <2> QED
      BY <2>1, <2>2 DEF M200WriteCodes
<1>6. CASE c.verb = "get_schedule"
  <2>1. d = M200GetSchedule(c)
      BY <1>6, M200Verbs DEF umdk_m200_command
  <2>2. At(M200GetSchedule(c), 0) = \h0E
      BY <1>2 DEF M200GetSchedule
  <2> QED
      BY <2>1, <2>2 DEF M200WriteCodes
<1>7. CASE c.verb = "get_time"
  <2>1. d = M200GetTime(c)
      BY <1>7, M200Verbs DEF umdk_m200_command
  <2>2. At(M200GetTime(c), 0) \in {\h0C, \h0B, \h04, \h05, \hFF}
      BY <1>0, <1>1, M200Verbs DEF M200GetTime
  <2> QED
      BY <2>1, <2>2 DEF M200WriteCodes
<1>8. CASE c.verb = "set_holidays"
  <2>1. d = M200SetHolidays(c)
      BY <1>8, M200Verbs DEF umdk_m200_command
  <2>2. At(M200SetHolidays(c), 0) = \hF1
    <3> DEFINE n == 32
               dates == [i \in 1..n |->
                           LET k == (i + 1) \div 2
                           IN  IF k \notin DOMAIN c.points THEN \hFF
                               ELSE Bcd(IF i % 2 = 1 THEN c.points[k].day ELSE c.points[k].month)]
    <3>1. M200SetHolidays(c) = M200Frame(\hF1, c, dates)
        BY DEF M200SetHolidays
    <3>2. n \in Int /\ dates = [i \in 1..n |-> dates[i]]
        OBVIOUS
    <3> HIDE DEF dates, n
    <3>3. Queue(dates)
        BY <3>2, QueueMap
    <3>4. At(M200Frame(\hF1, c, dates), 0) = \hF1
        BY <3>3, M200First
    <3> QED
        BY <3>1, <3>4
  <2> QED
      BY <2>1, <2>2 DEF M200WriteCodes
<1>9. CASE c.verb = "remove"
  <2> DEFINE t == PrintedShort(Swapped(c.dest))
  <2>1. d = <<\hFD>> \o t
      BY <1>9, M200Verbs DEF umdk_m200_command, M200Remove
  <2>2. Queue(t)
      BY ShortQueue
  <2> HIDE DEF t, d
  <2> DEFINE e == \hFD
             s == <<e>> \o t
  <2>3. e \notin M200WriteCodes /\ e = \hFD
      BY DEF M200WriteCodes
  <2> HIDE DEF e
  <2>4. s[1] = e /\ Len(s) = 1 + Len(t) /\ Len(t) \in Nat
      BY <2>2, FirstAndRest, QueueLen
  <2>5. d = s
      BY <2>1, <2>3
  <2> HIDE DEF s
  <2>6. At(d, 0) = e
      BY <2>4, <2>5 DEF At
  <2> QED
      BY <2>3, <2>6 DEF d
<1>10. CASE c.verb = "iface"
  <2>1. d = M200Iface(c)
      BY <1>10, M200Verbs DEF umdk_m200_command
  <2>2. At(M200Iface(c), 0) = \hFB
      BY <1>0 DEF M200Iface
  <2> QED
      BY <2>1, <2>2 DEF M200WriteCodes
<1>11. CASE c.verb \notin DOMAIN M200Query \cup {"set_address", "get_value", "get_schedule", "get_time",
                                                 "set_holidays", "remove", "iface"}
  <2>1. d \in {<<\hFF>>, <<\hFC>>}
      BY <1>11 DEF umdk_m200_command, M200Told, M200Error
  <2>2. At(<<\hFF>>, 0) = \hFF /\ At(<<\hFC>>, 0) = \hFC
      BY <1>0
  <2> QED
      BY <2>1, <2>2 DEF M200WriteCodes
<1> QED
    BY <1>3, <1>4, <1>5, <1>6, <1>7, <1>8, <1>9, <1>10, <1>11

(* What the meter does with a frame, code by code. *)
M200Shown(s) ==
    LET held == {k \in 1..8 : s[2 * k - 1] # \hFF}
    IN  [i \in 1..3 * Cardinality(held) |->
           LET k == (i + 2) \div 3
           IN  CASE i % 3 = 1 -> s[2 * k - 1] \div 64
                 [] i % 3 = 2 -> FromBcd(s[2 * k - 1] % 64)
                 [] OTHER     -> FromBcd(s[2 * k])]
M200NewDay == [i \in 1..16 |-> IF i < 3 THEN 0 ELSE \hFF]

LEMMA M200Quiet ==
    ASSUME NEW d, NEW mem, At(d, 0) \notin M200WriteCodes PROVE M200Serves(d, mem).writes = Nothing
<1>1. At(d, 0) # \h14 /\ At(d, 0) # \h16 /\ At(d, 0) # \h11
    BY DEF M200WriteCodes
<1>2. CASE At(d, 0) = \h0E
  <2> DEFINE kept == Held(mem, <<"schedule", SubSeq(d, 2, 5), At(d, 5) \div 16, At(d, 5) % 16>>, M200NewDay)
  <2>1. M200Serves(d, mem) = Served(Nothing, <<At(d, 0), 0>> \o SubSeq(d, 2, 5) \o M200Shown(kept))
      BY <1>2 DEF M200Serves, M200Shown, M200NewDay
  <2> QED
      BY <2>1 DEF Served
<1>3. CASE At(d, 0) = \h07
    BY <1>3 DEF M200Serves, Served
<1>4. CASE At(d, 0) = \h10
    BY <1>4 DEF M200Serves, Served
<1>5. CASE At(d, 0) \notin {\h0E, \h07, \h10}
    BY <1>1, <1>5 DEF M200Serves, Served
<1> QED
    BY <1>2, <1>3, <1>4, <1>5

LEMMA M200Writes ==
    ASSUME NEW d, NEW mem
    PROVE  /\ At(d, 0) = \h16 =>
                M200Serves(d, mem).writes
                  = Keep({<<"time", SubSeq(d, 2, 5)>>}, [i \in 1..7 |-> FromBcd(At(d, i + 4))])
           /\ At(d, 0) = \h11 =>
                M200Serves(d, mem).writes = Keep({<<"tariffs", SubSeq(d, 2, 5)>>}, <<At(d, 5)>>)
           /\ At(d, 0) = \h14 =>
                M200Serves(d, mem).writes
                  = Keep({"schedule"} \X {SubSeq(d, 2, 5)} \X MonthsOf(d[Len(d)] \div 16, 0..11)
                           \X DaysOf(d[Len(d)] % 16, {0, 6}, {7}), SubSeq(d, 6, 21))
<1>1. ASSUME At(d, 0) = \h16
      PROVE  M200Serves(d, mem).writes
               = Keep({<<"time", SubSeq(d, 2, 5)>>}, [i \in 1..7 |-> FromBcd(At(d, i + 4))])
    BY <1>1 DEF M200Serves, Served
<1>2. ASSUME At(d, 0) = \h11
      PROVE  M200Serves(d, mem).writes = Keep({<<"tariffs", SubSeq(d, 2, 5)>>}, <<At(d, 5)>>)
    BY <1>2 DEF M200Serves, Served
<1>3. ASSUME At(d, 0) = \h14
      PROVE  M200Serves(d, mem).writes
               = Keep({"schedule"} \X {SubSeq(d, 2, 5)} \X MonthsOf(d[Len(d)] \div 16, 0..11)
                        \X DaysOf(d[Len(d)] % 16, {0, 6}, {7}), SubSeq(d, 6, 21))
    BY <1>3 DEF M200Serves, Served
<1> QED
    BY <1>1, <1>2, <1>3

LEMMA M200Answers ==
    ASSUME NEW d, NEW mem
    PROVE  /\ At(d, 0) = \h0E =>
                M200Serves(d, mem).answer
                  = <<\h0E, 0>> \o SubSeq(d, 2, 5)
                      \o M200Shown(Held(mem, <<"schedule", SubSeq(d, 2, 5), At(d, 5) \div 16, At(d, 5) % 16>>, M200NewDay))
           /\ At(d, 0) = \h07 =>
                M200Serves(d, mem).answer
                  = <<\h07, 0>> \o SubSeq(d, 2, 5)
                      \o Held(mem, <<"time", SubSeq(d, 2, 5)>>, <<6, 0, 0, 0, 1, 1, 0>>)
           /\ At(d, 0) = \h10 =>
                M200Serves(d, mem).answer
                  = <<\h10, 0>> \o SubSeq(d, 2, 5) \o Held(mem, <<"tariffs", SubSeq(d, 2, 5)>>, <<1>>)
<1>1. ASSUME At(d, 0) = \h0E
      PROVE  M200Serves(d, mem).answer
               = <<\h0E, 0>> \o SubSeq(d, 2, 5)
                   \o M200Shown(Held(mem, <<"schedule", SubSeq(d, 2, 5), At(d, 5) \div 16, At(d, 5) % 16>>, M200NewDay))
  <2> DEFINE kept == Held(mem, <<"schedule", SubSeq(d, 2, 5), At(d, 5) \div 16, At(d, 5) % 16>>, M200NewDay)
  <2>1. M200Serves(d, mem) = Served(Nothing, <<At(d, 0), 0>> \o SubSeq(d, 2, 5) \o M200Shown(kept))
      BY <1>1 DEF M200Serves, M200Shown, M200NewDay
  <2> HIDE DEF kept
  <2>2. M200Serves(d, mem).answer = <<At(d, 0), 0>> \o SubSeq(d, 2, 5) \o M200Shown(kept)
      BY <2>1 DEF Served
  <2> QED
      BY <1>1, <2>2 DEF kept
<1>2. ASSUME At(d, 0) = \h07
      PROVE  M200Serves(d, mem).answer
               = <<\h07, 0>> \o SubSeq(d, 2, 5)
                   \o Held(mem, <<"time", SubSeq(d, 2, 5)>>, <<6, 0, 0, 0, 1, 1, 0>>)
    BY <1>2 DEF M200Serves, Served
<1>3. ASSUME At(d, 0) = \h10
      PROVE  M200Serves(d, mem).answer
               = <<\h10, 0>> \o SubSeq(d, 2, 5) \o Held(mem, <<"tariffs", SubSeq(d, 2, 5)>>, <<1>>)
  <2> DEFINE kept == Held(mem, <<"tariffs", SubSeq(d, 2, 5)>>, <<1>>)
  <2>1. M200Serves(d, mem) = Served(Nothing, <<At(d, 0), 0>> \o SubSeq(d, 2, 5) \o kept)
      BY <1>3 DEF M200Serves
  <2> HIDE DEF kept
  <2>2. M200Serves(d, mem).answer = <<At(d, 0), 0>> \o SubSeq(d, 2, 5) \o kept
      BY <2>1 DEF Served
  <2> QED
      BY <1>3, <2>2 DEF kept
<1> QED
    BY <1>1, <1>2, <1>3

(* The month and kind of day that a schedule is for. *)
M200MonthSaid(c) == IF c.words[1] = "year" THEN M200_ALL_YEAR ELSE c.nums[1] - 1
M200DaySaid(c) == IF c.words[2] = "day" THEN c.nums[Len(c.nums)] ELSE M200Days[c.words[2]]

LEMMA M200TimeWritten ==
    ASSUME NEW c, M200Proper(c), c.verb = "set_timedate", NEW mem
    PROVE  M200Serves(umdk_m200_command(c), mem).writes
             = Keep({<<"time", Swapped(c.dest)>>}, M200Cell(c))
<1> DEFINE n == c.nums
           address == Swapped(c.dest)
           many == 7
           rest == [i \in 1..many |-> Bcd(n[i])]
           d == M200Frame(\h16, c, rest)
<1>1. umdk_m200_command(c) = d
    BY M200Verbs DEF umdk_m200_command, M200SetTimedate
<1>2. Queue(rest) /\ Len(rest) = 7 /\ \A i \in 1..7 : rest[i] = Bcd(n[i])
  <2>1. many \in Int /\ rest = [i \in 1..many |-> rest[i]] /\ Len(rest) = 7 /\ \A i \in 1..7 : rest[i] = Bcd(n[i])
      OBVIOUS
  <2> HIDE DEF rest, many
  <2>2. Queue(rest)
      BY <2>1, QueueMap
  <2> QED
      BY <2>1, <2>2
<1>3. \A i \in 1..7 : n[i] \in 0..99
    BY DEF M200Proper
<1>4. M200Cell(c) = [i \in 1..7 |-> n[i]]
    BY DEF M200Cell
<1> HIDE DEF rest
<1>5. M200FrameOf(d, \h16, address, rest)
    BY <1>2, M200FrameHas
<1> HIDE DEF d, n, address
<1>6. At(d, 0) = \h16 /\ SubSeq(d, 2, 5) = address /\ \A i \in 1..7 : At(d, i + 4) = rest[i]
    BY <1>2, <1>5 DEF M200FrameOf
<1>7. \A i \in 1..7 : FromBcd(At(d, i + 4)) = n[i]
    BY <1>2, <1>3, <1>6, BcdBack
<1>8. M200Serves(d, mem).writes = Keep({<<"time", SubSeq(d, 2, 5)>>}, [i \in 1..7 |-> FromBcd(At(d, i + 4))])
    BY <1>6, M200Writes
<1>9. [i \in 1..7 |-> FromBcd(At(d, i + 4))] = M200Cell(c)
    BY <1>4, <1>7
<1> QED
    BY <1>1, <1>6, <1>8, <1>9 DEF address

LEMMA M200TariffsWritten ==
    ASSUME NEW c, M200Proper(c), c.verb = "set_number_tariffs", NEW mem
    PROVE  M200Serves(umdk_m200_command(c), mem).writes
             = Keep({<<"tariffs", Swapped(c.dest)>>}, M200Cell(c))
<1> DEFINE n == c.nums[1]
           address == Swapped(c.dest)
           rest == <<n>>
           d == M200Frame(\h11, c, rest)
<1>1. umdk_m200_command(c) = d
  <2>1. n \in Byte
      BY DEF M200Proper
  <2>2. U8(n) = n
      BY <2>1 DEF U8, Byte
  <2> QED
      BY <2>2, M200Verbs DEF umdk_m200_command
<1>2. Queue(rest) /\ Len(rest) = 1 /\ rest[1] = n
    BY QueueOne
<1>4. M200Cell(c) = <<n>>
    BY DEF M200Cell
<1> HIDE DEF rest
<1>5. M200FrameOf(d, \h11, address, rest)
    BY <1>2, M200FrameHas
<1> HIDE DEF d, n, address
<1>6. At(d, 0) = \h11 /\ SubSeq(d, 2, 5) = address /\ At(d, 5) = n
    BY <1>2, <1>5 DEF M200FrameOf
<1>8. M200Serves(d, mem).writes = Keep({<<"tariffs", SubSeq(d, 2, 5)>>}, <<At(d, 5)>>)
    BY <1>6, M200Writes
<1> QED
    BY <1>1, <1>4, <1>6, <1>8 DEF address

LEMMA M200ScheduleWritten ==
    ASSUME NEW c, M200Proper(c), c.verb = "set_schedule", NEW mem
    PROVE  M200Serves(umdk_m200_command(c), mem).writes
             = Keep({"schedule"} \X {Swapped(c.dest)} \X MonthsOf(M200MonthSaid(c), 0..11)
                      \X DaysOf(M200DaySaid(c), {0, 6}, {7}), M200Cell(c))
<1> DEFINE address == Swapped(c.dest)
           month == M200MonthSaid(c)
           day == M200DaySaid(c)
           bytes == M200Bytes(c.points)
           date == U8(16 * month + day)
           rest == Append(bytes, date)
           d == M200Frame(\h14, c, rest)
<1>0. /\ c.words[1] \in {"year", "month"} /\ c.words[2] \in DOMAIN M200Days \cup {"day"}
      /\ month \in 0..15 /\ day \in 0..15
  <2>1. /\ c.words[1] = "year" \/ (c.words[1] = "month" /\ c.nums[1] \in 1..12)
        /\ c.words[2] \in DOMAIN M200Days \/ (c.words[2] = "day" /\ c.nums[Len(c.nums)] \in 0..7)
      BY DEF M200Proper
  <2>2. M200_ALL_YEAR = 15 /\ "day" \notin DOMAIN M200Days /\ \A w \in DOMAIN M200Days : M200Days[w] \in 12..15
      BY DEF M200_ALL_YEAR, M200Days
  <2>3. month \in 0..15
      BY <2>1, <2>2 DEF M200MonthSaid
  <2>4. day \in 0..15
      BY <2>1, <2>2 DEF M200DaySaid
  <2> QED
      BY <2>1, <2>3, <2>4
<1>1. umdk_m200_command(c) = d
  <2>1. umdk_m200_command(c) = M200SetSchedule(c)
      BY M200Verbs DEF umdk_m200_command
  <2>2. M200SetSchedule(c) = d
      BY <1>0, Zenon DEF M200SetSchedule, M200MonthSaid, M200DaySaid, M200Bytes
  <2> QED
      BY <2>1, <2>2
<1>2. Queue(bytes) /\ Len(bytes) = 16 /\ bytes = [k \in 1..16 |-> bytes[k]]
  <2> DEFINE many == 16
  <2>1. many \in Int /\ bytes = [i \in 1..many |-> bytes[i]] /\ Len(bytes) = 16
      BY DEF M200Bytes
  <2> HIDE DEF bytes
  <2>3. bytes = [k \in 1..16 |-> bytes[k]]
      BY <2>1
  <2> HIDE DEF many
  <2>2. Queue(bytes)
      BY <2>1, QueueMap
  <2> QED
      BY <2>1, <2>2, <2>3
<1>3. date \div 16 = month /\ date % 16 = day
  <2> HIDE DEF month, day
  <2>1. 16 * month + day \in 0..255
      BY <1>0
  <2>2. date = 16 * month + day
      BY <2>1 DEF U8
  <2> QED
      BY <1>0, <2>2
<1>4. M200Cell(c) = bytes
    BY DEF M200Cell
<1> HIDE DEF bytes, date, month, day
<1>5. Queue(rest) /\ Len(rest) = 17 /\ rest[17] = date /\ \A k \in 1..16 : rest[k] = bytes[k]
  <2>1. Queue(rest)
      BY <1>2, QueueAppend
  <2>2. bytes \in Seq(Range(bytes) \cup {date}) /\ date \in Range(bytes) \cup {date}
      BY <1>2, SeqMonotonic DEF Queue
  <2>3. Len(rest) = 17 /\ rest[17] = date /\ \A k \in 1..16 : rest[k] = bytes[k]
      BY <1>2, <2>2
  <2> QED
      BY <2>1, <2>3
<1> HIDE DEF rest
<1>6. M200FrameOf(d, \h14, address, rest)
    BY <1>5, M200FrameHas
<1> HIDE DEF d, address
<1>7. /\ At(d, 0) = \h14 /\ SubSeq(d, 2, 5) = address /\ Len(d) = 22
      /\ \A i \in 1..17 : d[i + 5] = rest[i]
    BY <1>5, <1>6 DEF M200FrameOf
<1>8. d[Len(d)] = date
  <2>1. 17 + 5 = 22 /\ 17 \in 1..17
      OBVIOUS
  <2>2. d[22] = rest[17]
      BY <1>7, <2>1
  <2> QED
      BY <1>5, <1>7, <2>2
<1>9. SubSeq(d, 6, 21) = bytes
  <2>1. SubSeq(d, 6, 21) = [k \in 1..16 |-> d[k + 5]]
    <3>1. SubSeq(d, 6, 21) = [k \in 1..(1 + 21 - 6) |-> d[k + 6 - 1]]
        OBVIOUS
    <3>2. 1 + 21 - 6 = 16 /\ \A k \in 1..16 : k + 6 - 1 = k + 5
        OBVIOUS
    <3> QED
        BY <3>1, <3>2
  <2>2. \A k \in 1..16 : d[k + 5] = bytes[k]
      BY <1>5, <1>7
  <2> QED
      BY <1>2, <2>1, <2>2
<1>10. M200Serves(d, mem).writes
         = Keep({"schedule"} \X {SubSeq(d, 2, 5)} \X MonthsOf(d[Len(d)] \div 16, 0..11)
                  \X DaysOf(d[Len(d)] % 16, {0, 6}, {7}), SubSeq(d, 6, 21))
    BY <1>7, M200Writes
<1> QED
    BY <1>1, <1>3, <1>4, <1>7, <1>8, <1>9, <1>10 DEF address, month, day

LEMMA SameOver ==
    ASSUME NEW type, NEW c, Whole(c), Proper(type, c), NEW said, NEW mem, NEW S, NEW W, NEW p, NEW q, NEW verb,
           Same(type, said, mem, p, q, verb), p \in S <=> q \in DOMAIN W,
           p \in S => c.verb = verb /\ W[q] = Cell(type, c)
    PROVE  Same(type, Over([thing \in S |-> c], said), Over(W, mem), p, q, verb)
<1> DEFINE f == [thing \in S |-> c]
           now == Over(f, said)
           new == Over(W, mem)
<1>1. DOMAIN f = S /\ \A x \in S : f[x] = c
    OBVIOUS
<1> HIDE DEF f
<1>2. /\ DOMAIN now = DOMAIN f \cup DOMAIN said
      /\ \A x \in DOMAIN f : now[x] = f[x]
      /\ \A x \in DOMAIN said \ DOMAIN f : now[x] = said[x]
    BY Overlay
<1>3. /\ DOMAIN new = DOMAIN W \cup DOMAIN mem
      /\ \A x \in DOMAIN W : new[x] = W[x]
      /\ \A x \in DOMAIN mem \ DOMAIN W : new[x] = mem[x]
    BY Overlay
<1> HIDE DEF now, new
<1>6. Same(type, now, new, p, q, verb)
  <2>1. CASE p \in S
    <3>1. p \in DOMAIN now /\ q \in DOMAIN new /\ now[p] = c /\ new[q] = W[q]
        BY <1>1, <1>2, <1>3, <2>1
    <3> QED
        BY <2>1, <3>1 DEF Same
  <2>2. CASE p \notin S
    <3>1. q \notin DOMAIN W
        BY <2>2
    <3>2. p \in DOMAIN now <=> p \in DOMAIN said
        BY <1>1, <1>2, <2>2
    <3>3. q \in DOMAIN new <=> q \in DOMAIN mem
        BY <1>3, <3>1
    <3>4. p \in DOMAIN said => now[p] = said[p] /\ (q \in DOMAIN mem => new[q] = mem[q])
        BY <1>1, <1>2, <1>3, <2>2, <3>1
    <3> QED
        BY <3>2, <3>3, <3>4 DEF Same
  <2> QED
      BY <2>1, <2>2
<1> QED
    BY <1>6 DEF now, new, f

LEMMA M200Sets ==
    ASSUME NEW c, NEW said, c.verb # "set_time"
    PROVE  LET S == Sets("m200", c, said)
           IN  /\ c.verb = "set_schedule" =>
                    S = {"schedule"} \X {c.dest} \X MonthsMeant(c) \X DaysMeant(c, {0, 6}, {7})
               /\ c.verb = "set_timedate" => S = {<<"time", c.dest>>}
               /\ c.verb = "set_number_tariffs" => S = {<<"tariffs", c.dest>>}
               /\ c.verb \notin M200Told => \A p \in S : p[1] = "register"
<1>1. CASE c.verb = "set_schedule"
    BY <1>1 DEF Sets, M200Told
<1>2. CASE c.verb = "set_timedate"
    BY <1>2 DEF Sets, M200Told
<1>3. CASE c.verb = "set_number_tariffs"
    BY <1>3 DEF Sets, M200Told
<1>4. CASE c.verb = "write_reg"
  <2>1. Sets("m200", c, said) = {<<"register", c.dest, c.nums[1]>>}
      BY <1>4 DEF Sets
  <2> QED
      BY <1>4, <2>1 DEF M200Told
<1>5. CASE c.verb = "write_mult_regs"
  <2>1. Sets("m200", c, said) = {"register"} \X {c.dest} \X (c.nums[1]..c.nums[1] + c.nums[2] - 1)
      BY <1>5 DEF Sets
  <2> QED
      BY <1>5, <2>1 DEF M200Told
<1>6. CASE c.verb \notin M200Told \cup {"write_reg", "write_mult_regs"}
  <2>1. Sets("m200", c, said) = {}
      BY <1>6 DEF Sets, M200Told
  <2> QED
      BY <1>6, <2>1 DEF M200Told
<1> QED
    BY <1>1, <1>2, <1>3, <1>4, <1>5, <1>6

LEMMA M200SameMonths ==
    ASSUME NEW c, M200Proper(c), c.verb = "set_schedule", NEW m \in 1..12, NEW k \in 0..7
    PROVE  /\ m \in MonthsMeant(c) <=> m - 1 \in MonthsOf(M200MonthSaid(c), 0..11)
           /\ k \in DaysMeant(c, {0, 6}, {7}) <=> k \in DaysOf(M200DaySaid(c), {0, 6}, {7})
<1>1. /\ c.words[1] = "year" \/ (c.words[1] = "month" /\ c.nums[1] \in 1..12)
      /\ c.words[2] \in DOMAIN M200Days \/ (c.words[2] = "day" /\ c.nums[Len(c.nums)] \in 0..7)
    BY DEF M200Proper
<1>2. m \in MonthsMeant(c) <=> m - 1 \in MonthsOf(M200MonthSaid(c), 0..11)
    BY <1>1 DEF MonthsMeant, MonthsOf, M200MonthSaid, M200_ALL_YEAR
<1>3. CASE c.words[2] = "day"
  <2>1. DaysMeant(c, {0, 6}, {7}) = {c.nums[Len(c.nums)]}
      BY <1>3 DEF DaysMeant
  <2>2. DaysOf(M200DaySaid(c), {0, 6}, {7}) = {c.nums[Len(c.nums)]}
      BY <1>1, <1>3 DEF DaysOf, M200DaySaid, M200Days
  <2> QED
      BY <1>2, <2>1, <2>2
<1>4. CASE c.words[2] \in DOMAIN M200Days
  <2>1. c.words[2] \in {"all", "weekdays", "weekends", "holidays"}
      BY <1>4 DEF M200Days
  <2>2. DaysMeant(c, {0, 6}, {7}) = DaysOf(M200DaySaid(c), {0, 6}, {7})
      BY <2>1 DEF DaysMeant, DaysOf, M200DaySaid, M200Days
  <2> QED
      BY <1>2, <2>2
<1> QED
    BY <1>1, <1>3, <1>4

LEMMA M200AgreesAgain ==
    ASSUME NEW c, Whole(c), M200Proper(c), NEW said, NEW mem, M200Agrees(said, mem)
    PROVE  M200Agrees(Over([thing \in Sets("m200", c, said) |-> c], said),
                      Over(M200Serves(umdk_m200_command(c), mem).writes, mem))
<1> DEFINE S == Sets("m200", c, said)
           W == M200Serves(umdk_m200_command(c), mem).writes
           Like(p, q, verb) ==
             /\ p \in S <=> q \in DOMAIN W
             /\ p \in S => c.verb = verb /\ W[q] = M200Cell(c)
<1>0. c.verb # "set_time" /\ (c.verb \in M200Told => c.dest \in Signed32)
    BY DEF M200Proper
<1>1. /\ \A a \in Signed32 :
           /\ Like(<<"time", a>>, <<"time", Swapped(a)>>, "set_timedate")
           /\ Like(<<"tariffs", a>>, <<"tariffs", Swapped(a)>>, "set_number_tariffs")
      /\ \A a \in Signed32, m \in 1..12, k \in 0..7 :
           Like(<<"schedule", a, m, k>>, <<"schedule", Swapped(a), m - 1, k>>, "set_schedule")
  <2>1. CASE c.verb = "set_timedate"
    <3>1. S = {<<"time", c.dest>>} /\ c.dest \in Signed32
        BY <1>0, <2>1, M200Sets DEF M200Told
    <3>2. W = Keep({<<"time", Swapped(c.dest)>>}, M200Cell(c))
        BY <2>1, M200TimeWritten
    <3>3. \A a \in Signed32 : Swapped(a) = Swapped(c.dest) => a = c.dest
        BY <3>1, AddressOfOne
    <3> HIDE DEF S, W
    <3> QED
        BY <2>1, <3>1, <3>2, <3>3 DEF Keep
  <2>2. CASE c.verb = "set_number_tariffs"
    <3>1. S = {<<"tariffs", c.dest>>} /\ c.dest \in Signed32
        BY <1>0, <2>2, M200Sets DEF M200Told
    <3>2. W = Keep({<<"tariffs", Swapped(c.dest)>>}, M200Cell(c))
        BY <2>2, M200TariffsWritten
    <3>3. \A a \in Signed32 : Swapped(a) = Swapped(c.dest) => a = c.dest
        BY <3>1, AddressOfOne
    <3> HIDE DEF S, W
    <3> QED
        BY <2>2, <3>1, <3>2, <3>3 DEF Keep
  <2>3. CASE c.verb = "set_schedule"
    <3> DEFINE M == MonthsMeant(c)
               D == DaysMeant(c, {0, 6}, {7})
               N == MonthsOf(M200MonthSaid(c), 0..11)
               E == DaysOf(M200DaySaid(c), {0, 6}, {7})
    <3>1. S = {"schedule"} \X {c.dest} \X M \X D /\ c.dest \in Signed32
        BY <1>0, <2>3, M200Sets DEF M200Told
    <3>2. W = Keep({"schedule"} \X {Swapped(c.dest)} \X N \X E, M200Cell(c))
        BY <2>3, M200ScheduleWritten
    <3>3. \A a \in Signed32 : Swapped(a) = Swapped(c.dest) => a = c.dest
        BY <3>1, AddressOfOne
    <3>4. \A m \in 1..12, k \in 0..7 : (m \in M <=> m - 1 \in N) /\ (k \in D <=> k \in E)
        BY <2>3, M200SameMonths
    <3> HIDE DEF S, W, M, D, N, E
    <3>5. \A a \in Signed32 :
            /\ Like(<<"time", a>>, <<"time", Swapped(a)>>, "set_timedate")
            /\ Like(<<"tariffs", a>>, <<"tariffs", Swapped(a)>>, "set_number_tariffs")
        BY <3>1, <3>2 DEF Keep
    <3>6. ASSUME NEW a \in Signed32, NEW m \in 1..12, NEW k \in 0..7
          PROVE  Like(<<"schedule", a, m, k>>, <<"schedule", Swapped(a), m - 1, k>>, "set_schedule")
      <4>1. <<"schedule", a, m, k>> \in S <=> a = c.dest /\ m \in M /\ k \in D
          BY <3>1
      <4>2. <<"schedule", Swapped(a), m - 1, k>> \in DOMAIN W <=> Swapped(a) = Swapped(c.dest) /\ m - 1 \in N /\ k \in E
          BY <3>2 DEF Keep
      <4>3. \A q \in DOMAIN W : W[q] = M200Cell(c)
          BY <3>2 DEF Keep
      <4> QED
          BY <2>3, <3>3, <3>4, <4>1, <4>2, <4>3
    <3> QED
        BY <3>5, <3>6
  <2>4. CASE c.verb \notin M200Told
    <3>1. \A p \in S : p[1] = "register"
        BY <1>0, <2>4, M200Sets
    <3>2. W = Nothing
        BY <2>4, M200Others, M200Quiet
    <3> HIDE DEF S, W
    <3>3. DOMAIN W = {}
        BY <3>2 DEF Nothing
    <3>4. \A a : <<"time", a>> \notin S /\ <<"tariffs", a>> \notin S
        BY <3>1
    <3>5. \A a, m, k : <<"schedule", a, m, k>> \notin S
        BY <3>1
    <3> QED
        BY <3>3, <3>4, <3>5
  <2> QED
      BY <2>1, <2>2, <2>3, <2>4 DEF M200Told
<1> HIDE DEF S, W
<1>2. ASSUME NEW p, NEW q, NEW verb, Same("m200", said, mem, p, q, verb), Like(p, q, verb)
      PROVE  Same("m200", Over([thing \in S |-> c], said), Over(W, mem), p, q, verb)
  <2>1. Proper("m200", c) /\ Cell("m200", c) = M200Cell(c)
      BY DEF Proper, Cell
  <2> QED
      BY <1>2, <2>1, SameOver
<1> HIDE DEF Like
<1>3. M200Agrees(Over([thing \in S |-> c], said), Over(W, mem))
    BY <1>1, <1>2 DEF M200Agrees
<1> QED
    BY <1>3 DEF S, W

LEMMA M200AgreesStill ==
    ASSUME NEW said, NEW mem, M200Agrees(said, mem)
    PROVE  M200Agrees(said, Over(M200Serves(umdk_m200_command(FromGate), mem).writes, mem))
<1> DEFINE W == M200Serves(umdk_m200_command(FromGate), mem).writes
           new == Over(W, mem)
<1>1. W = Nothing
  <2> DEFINE c == FromGate
  <2>1. c.verb \notin M200Told
      BY DEF FromGate, M200Told
  <2> HIDE DEF c
  <2>2. M200Serves(umdk_m200_command(c), mem).writes = Nothing
      BY <2>1, M200Others, M200Quiet
  <2> QED
      BY <2>2 DEF c
<1> HIDE DEF W
<1>2. DOMAIN W = {}
    BY <1>1 DEF Nothing
<1>3. DOMAIN new = DOMAIN mem /\ \A p \in DOMAIN mem : new[p] = mem[p]
  <2>1. /\ DOMAIN new = DOMAIN W \cup DOMAIN mem
        /\ \A p \in DOMAIN mem \ DOMAIN W : new[p] = mem[p]
      BY Overlay
  <2> HIDE DEF new
  <2> QED
      BY <1>2, <2>1
<1> HIDE DEF new
<1>4. \A p, q, verb : Same("m200", said, mem, p, q, verb) => Same("m200", said, new, p, q, verb)
    BY <1>3 DEF Same
<1> HIDE DEF new
<1>5. M200Agrees(said, new)
    BY <1>4 DEF M200Agrees
<1> QED
    BY <1>5 DEF new, W

(* Of the sixteen bytes of a schedule the meter shows the points that were set. *)
M200PointsShown(points, t) ==
    /\ Queue(t) /\ Len(t) = 3 * Len(points)
    /\ \A k \in 1..Len(points) : /\ t[3 * k - 2] + 1 = points[k].tariff
                                 /\ t[3 * k - 1] = points[k].hour /\ t[3 * k] = points[k].min

LEMMA M200PointNotFree ==
    ASSUME NEW p, M200PointProper(p)
    PROVE  LET b == M200Point(p)
           IN  /\ b[1] # \hFF /\ (b[1] \div 64) + 1 = p.tariff
               /\ FromBcd(b[1] % 64) = p.hour /\ FromBcd(b[2]) = p.min
<1> DEFINE b == M200Point(p)
<1>1. p.tariff \in 1..4 /\ p.hour \in 0..23 /\ p.min \in 0..59
    BY DEF M200PointProper
<1>2. (b[1] \div 64) + 1 = p.tariff /\ FromBcd(b[1] % 64) = p.hour /\ FromBcd(b[2]) = p.min
    BY <1>1, M200PointBack
<1> HIDE DEF b
<1>3. FromBcd(255 % 64) = 45
    BY DEF FromBcd
<1>4. b[1] # 255
    BY <1>1, <1>2, <1>3
<1> QED
    BY <1>2, <1>4 DEF b

LEMMA M200PointsBack ==
    ASSUME NEW points, Queue(points), Len(points) \in 1..8,
           \A i \in 1..Len(points) : M200PointProper(points[i])
    PROVE  M200PointsShown(points, M200Shown(M200Bytes(points)))
<1> DEFINE s == M200Bytes(points)
           n == Len(points)
           held == {k \in 1..8 : s[2 * k - 1] # \hFF}
           place(k) == IF k \in DOMAIN points THEN M200Point(points[k]) ELSE <<\hFF, \hFF>>
<1>1. DOMAIN points = 1..n /\ n \in 1..8
    BY DEF Queue
<1>2. ASSUME NEW k \in 1..8 PROVE s[2 * k - 1] = place(k)[1] /\ s[2 * k] = place(k)[2]
  <2>1. s = [i \in 1..16 |-> place((i + 1) \div 2)[2 - (i % 2)]]
      BY Zenon DEF M200Bytes
  <2> HIDE DEF s, place
  <2>2. 2 * k - 1 \in 1..16 /\ 2 * k \in 1..16
      OBVIOUS
  <2>3. /\ (2 * k - 1 + 1) \div 2 = k /\ (2 * k + 1) \div 2 = k
        /\ 2 - ((2 * k - 1) % 2) = 1 /\ 2 - ((2 * k) % 2) = 2
      OBVIOUS
  <2>4. s[2 * k - 1] = place((2 * k - 1 + 1) \div 2)[2 - ((2 * k - 1) % 2)]
      BY <2>1, <2>2
  <2>5. s[2 * k] = place((2 * k + 1) \div 2)[2 - ((2 * k) % 2)]
      BY <2>1, <2>2
  <2> QED
      BY <2>3, <2>4, <2>5
<1>3. ASSUME NEW k \in 1..n
      PROVE  /\ s[2 * k - 1] # \hFF /\ (s[2 * k - 1] \div 64) + 1 = points[k].tariff
             /\ FromBcd(s[2 * k - 1] % 64) = points[k].hour /\ FromBcd(s[2 * k]) = points[k].min
  <2> DEFINE b == M200Point(points[k])
  <2>1. M200PointProper(points[k]) /\ k \in 1..8 /\ place(k) = b
      BY <1>1
  <2>2. /\ b[1] # \hFF /\ (b[1] \div 64) + 1 = points[k].tariff
        /\ FromBcd(b[1] % 64) = points[k].hour /\ FromBcd(b[2]) = points[k].min
      BY <2>1, M200PointNotFree
  <2> HIDE DEF s, b, place
  <2>3. s[2 * k - 1] = b[1] /\ s[2 * k] = b[2]
      BY <1>2, <2>1
  <2> QED
      BY <2>2, <2>3
<1>4. ASSUME NEW k \in 1..8, k \notin 1..n PROVE s[2 * k - 1] = \hFF
  <2>1. place(k) = <<\hFF, \hFF>>
      BY <1>1, <1>4
  <2> HIDE DEF s, place
  <2> QED
      BY <1>2, <2>1
<1> HIDE DEF s, place, n
<1>5. held = 1..n
  <2>1. \A k \in 1..8 : s[2 * k - 1] # \hFF <=> k \in 1..n
      BY <1>3, <1>4
  <2>2. \A k : k \in held <=> k \in 1..8 /\ k \in 1..n
      BY <2>1
  <2> HIDE DEF held
  <2>3. \A k \in 1..n : k \in 1..8
      BY <1>1
  <2>4. \A k : k \in held <=> k \in 1..n
      BY <2>2, <2>3
  <2> QED
      BY <2>4
<1> HIDE DEF held
<1>6. Cardinality(held) = n
    BY <1>1, <1>5, CardinalityUpTo
<1> DEFINE many == 3 * n
           shown(i) == CASE i % 3 = 1 -> s[2 * ((i + 2) \div 3) - 1] \div 64
                         [] i % 3 = 2 -> FromBcd(s[2 * ((i + 2) \div 3) - 1] % 64)
                         [] OTHER     -> FromBcd(s[2 * ((i + 2) \div 3)])
           t == [i \in 1..many |-> shown(i)]
<1>7. M200Shown(s) = t
    BY <1>6 DEF M200Shown, held
<1>8. Queue(t) /\ Len(t) = 3 * n
  <2> HIDE DEF shown
  <2>1. many \in Nat /\ t = [i \in 1..many |-> t[i]] /\ Len(t) = 3 * n
      BY <1>1
  <2> HIDE DEF t, many
  <2>2. Queue(t)
      BY <2>1, QueueMap
  <2> QED
      BY <2>1, <2>2
<1>9. ASSUME NEW k \in 1..n
      PROVE  t[3 * k - 2] + 1 = points[k].tariff /\ t[3 * k - 1] = points[k].hour /\ t[3 * k] = points[k].min
  <2>1. /\ 3 * k - 2 \in 1..many /\ 3 * k - 1 \in 1..many /\ 3 * k \in 1..many
        /\ (3 * k - 2) % 3 = 1 /\ (3 * k - 1) % 3 = 2 /\ (3 * k) % 3 = 0
        /\ (3 * k - 2 + 2) \div 3 = k /\ (3 * k - 1 + 2) \div 3 = k /\ (3 * k + 2) \div 3 = k
      BY <1>1
  <2>2. shown(3 * k - 2) = s[2 * k - 1] \div 64
      BY <2>1
  <2>3. shown(3 * k - 1) = FromBcd(s[2 * k - 1] % 64)
      BY <2>1
  <2>4. shown(3 * k) = FromBcd(s[2 * k])
    <3> DEFINE i == 3 * k
    <3>1. i % 3 = 0 /\ (i + 2) \div 3 = k
        BY <2>1
    <3> HIDE DEF i
    <3>2. shown(i) = FromBcd(s[2 * k])
        BY <3>1
    <3> HIDE DEF shown
    <3> QED
        BY <3>2 DEF i
  <2> HIDE DEF shown
  <2>5. t[3 * k - 2] = shown(3 * k - 2) /\ t[3 * k - 1] = shown(3 * k - 1) /\ t[3 * k] = shown(3 * k)
      BY <2>1
  <2> HIDE DEF t
  <2> QED
      BY <1>3, <2>2, <2>3, <2>4, <2>5
<1> HIDE DEF t
<1>10. M200PointsShown(points, t)
    BY <1>8, <1>9 DEF M200PointsShown, n
<1> QED
    BY <1>7, <1>10 DEF s

(* An answer about one meter, and what of it is published. *)
M200AnswerOf(d, code, address, t) ==
    /\ Queue(d) /\ Len(d) = 6 + Len(t) /\ At(d, 0) = code
    /\ At(d, 2) = address[1] /\ At(d, 3) = address[2]
    /\ At(d, 4) = address[3] /\ At(d, 5) = address[4]
    /\ \A i \in 1..Len(t) : d[i + 6] = t[i] /\ At(d, i + 5) = t[i]

LEMMA M200AnswerHas ==
    ASSUME NEW code, NEW address, Queue(address), Len(address) = 4, NEW t, Queue(t)
    PROVE  M200AnswerOf(<<code, 0>> \o address \o t, code, address, t)
<1> DEFINE head == <<code, 0>> \o address
           d == head \o t
<1>1. Queue(head) /\ Len(head) = 6 /\ head[1] = code /\ \A i \in 1..4 : head[i + 2] = address[i]
  <2> DEFINE status == 0
             h == <<code, status>> \o address
  <2>0. head = h
      OBVIOUS
  <2> HIDE DEF status
  <2>1. TwoThen(h, code, status, address)
      BY AfterTwo
  <2> HIDE DEF h, head
  <2> QED
      BY <2>0, <2>1 DEF TwoThen
<1> HIDE DEF head
<1>2. Joined(d, head, t)
    BY <1>1, Joins
<1> HIDE DEF d
<1>3. Len(t) \in Nat
    BY QueueLen
<1>4. /\ Queue(d) /\ Len(d) = 6 + Len(t)
      /\ \A i \in 1..6 : d[i] = head[i]
      /\ \A i \in 1..Len(t) : d[6 + i] = t[i]
    BY <1>1, <1>2 DEF Joined
<1>5. At(d, 0) = code
    BY <1>1, <1>3, <1>4 DEF At
<1>6. ASSUME NEW i \in 1..4 PROVE At(d, i + 1) = address[i]
  <2>1. i + 1 < Len(d) /\ i + 1 + 1 = i + 2 /\ i + 2 \in 1..6
      BY <1>3, <1>4
  <2>2. At(d, i + 1) = d[i + 2]
      BY <2>1 DEF At
  <2> QED
      BY <1>1, <1>4, <2>1, <2>2
<1>7. /\ At(d, 2) = address[1] /\ At(d, 3) = address[2]
      /\ At(d, 4) = address[3] /\ At(d, 5) = address[4]
  <2>1. /\ At(d, 1 + 1) = address[1] /\ At(d, 2 + 1) = address[2]
        /\ At(d, 3 + 1) = address[3] /\ At(d, 4 + 1) = address[4]
      BY <1>6
  <2> QED
      BY <2>1
<1>8. ASSUME NEW i \in 1..Len(t) PROVE d[i + 6] = t[i] /\ At(d, i + 5) = t[i]
  <2>1. d[i + 6] = t[i] /\ i + 5 < Len(d) /\ (i + 5) + 1 = i + 6
      BY <1>3, <1>4
  <2> QED
      BY <2>1 DEF At
<1>9. M200AnswerOf(d, code, address, t)
    BY <1>4, <1>5, <1>7, <1>8 DEF M200AnswerOf
<1> QED
    BY <1>9 DEF d, head

LEMMA M200Published ==
    ASSUME NEW d, NEW code, NEW dest, NEW t, Queue(t), Len(t) > 0, M200AnswerOf(d, code, Swapped(dest), t)
    PROVE  LET address == Pair("Address", Unsigned(BE32(dest)))
           IN  /\ code = \h0E => umdk_m200_reply(d) = address \o M200Schedule(d)
               /\ code = \h07 => umdk_m200_reply(d) = address \o M200Timedate(d)
               /\ code = \h10 => umdk_m200_reply(d) = address \o Pair("Tariffs", Num(At(d, 6)))
<1> DEFINE w == BE32(dest)
           from == <<At(d, 5), At(d, 4), At(d, 3), At(d, 2)>>
<1>1. from = w
  <2> DEFINE address == Swapped(dest)
  <2>1. \A i \in 1..4 : address[i] = w[5 - i]
      BY SwappedBytes
  <2>2. w = <<w[1], w[2], w[3], w[4]>>
      BY SwappedBytes
  <2>3. /\ At(d, 2) = address[1] /\ At(d, 3) = address[2]
        /\ At(d, 4) = address[3] /\ At(d, 5) = address[4]
      BY DEF M200AnswerOf
  <2> HIDE DEF address, w
  <2>4. address[1] = w[4] /\ address[2] = w[3] /\ address[3] = w[2] /\ address[4] = w[1]
      BY <2>1
  <2> QED
      BY <2>2, <2>3, <2>4
<1>2. Len(d) > 6 /\ Len(d) \in Nat /\ At(d, 0) = code
    BY QueueLen DEF M200AnswerOf
<1>3. Len(d) # 1 /\ Len(d) > 1 /\ Len(d) # 6
  <2> DEFINE l == Len(d)
  <2>1. l > 6 /\ l \in Nat
      BY <1>2
  <2> HIDE DEF l
  <2>2. l # 1 /\ l > 1 /\ l # 6
      BY <2>1
  <2> QED
      BY <2>2 DEF l
<1> HIDE DEF from, w
<1> DEFINE c == At(d, 0)
<1>4. ASSUME code = \h0E
      PROVE  umdk_m200_reply(d) = Pair("Address", Unsigned(from)) \o M200Schedule(d)
  <2>1. /\ ~(c >= \hF0) /\ c < \hF0 /\ c # \h01 /\ c # \h10 /\ c # \h0A /\ c # \h0F /\ c = \h0E
        /\ c \notin {\h07, \h0B, \h0C} /\ c \notin {\h04, \h05} /\ c # \h15 /\ c # \h06 /\ c # \h09 /\ c # \h08
      BY <1>2, <1>4
  <2> QED
      BY <1>3, <2>1, Zenon DEF umdk_m200_reply, from
<1>5. ASSUME code = \h07
      PROVE  umdk_m200_reply(d) = Pair("Address", Unsigned(from)) \o M200Timedate(d)
  <2>1. /\ ~(c >= \hF0) /\ c < \hF0 /\ c # \h01 /\ c # \h10 /\ c # \h0A /\ c # \h0F /\ c # \h0E
        /\ c \in {\h07, \h0B, \h0C} /\ c \notin {\h04, \h05} /\ c # \h15 /\ c # \h06 /\ c # \h09 /\ c # \h08
      BY <1>2, <1>5
  <2> QED
      BY <1>3, <2>1, Zenon DEF umdk_m200_reply, from
<1>6. ASSUME code = \h10
      PROVE  umdk_m200_reply(d) = Pair("Address", Unsigned(from)) \o Pair("Tariffs", Num(At(d, 6)))
  <2>1. /\ ~(c >= \hF0) /\ c < \hF0 /\ c # \h01 /\ c = \h10 /\ c # \h0A /\ c # \h0F /\ c # \h0E
        /\ c \notin {\h07, \h0B, \h0C} /\ c \notin {\h04, \h05} /\ c # \h15 /\ c # \h06 /\ c # \h09 /\ c # \h08
      BY <1>2, <1>6
  <2> QED
      BY <1>3, <2>1, Zenon DEF umdk_m200_reply, from
<1> QED
    BY <1>1, <1>4, <1>5, <1>6 DEF w

(* The points of a schedule in an answer. *)
LEMMA M200ScheduleSaid ==
    ASSUME NEW points, Queue(points), NEW t, M200PointsShown(points, t),
           NEW d, NEW code, NEW address, M200AnswerOf(d, code, address, t)
    PROVE  M200Schedule(d) = PointsMeant(points)
<1> DEFINE n == Len(points)
<1>1. n \in Nat /\ Len(t) = 3 * n /\ DOMAIN points = 1..n
    BY QueueLen DEF M200PointsShown, Queue
<1>2. Len(d) = 6 + 3 * n /\ \A i \in 1..3 * n : At(d, i + 5) = t[i]
    BY <1>1 DEF M200AnswerOf
<1>3. (Len(d) - 6) \div 3 = n
  <2> DEFINE l == Len(d)
  <2>1. l = 6 + 3 * n
      BY <1>2
  <2> HIDE DEF l, n
  <2>2. (l - 6) \div 3 = n
      BY <1>1, <2>1
  <2> QED
      BY <2>2 DEF l
<1>4. ASSUME NEW k \in 1..n
      PROVE  /\ At(d, 3 * k + 3) + 1 = points[k].tariff
             /\ At(d, 3 * k + 4) = points[k].hour /\ At(d, 3 * k + 5) = points[k].min
  <2>1. t[3 * k - 2] + 1 = points[k].tariff /\ t[3 * k - 1] = points[k].hour /\ t[3 * k] = points[k].min
      BY DEF M200PointsShown
  <2> HIDE DEF n
  <2>2. /\ 3 * k - 2 \in 1..3 * n /\ 3 * k - 1 \in 1..3 * n /\ 3 * k \in 1..3 * n
        /\ 3 * k - 2 + 5 = 3 * k + 3 /\ 3 * k - 1 + 5 = 3 * k + 4
      BY <1>1
  <2>3. At(d, 3 * k - 2 + 5) = t[3 * k - 2] /\ At(d, 3 * k - 1 + 5) = t[3 * k - 1] /\ At(d, 3 * k + 5) = t[3 * k]
      BY <1>2, <2>2
  <2> QED
      BY <2>1, <2>2, <2>3
<1> HIDE DEF n
<1>5. M200Schedule(d) = [i \in 1..n |->
         [name  |-> <<"T", At(d, 3 * i + 3) + 1>>, value |-> Fields(<<At(d, 3 * i + 4), At(d, 3 * i + 5)>>, ":")]]
    BY <1>3 DEF M200Schedule
<1>6. PointsMeant(points) = [i \in 1..n |->
         [name  |-> <<"T", points[i].tariff>>, value |-> Fields(<<points[i].hour, points[i].min>>, ":")]]
    BY <1>1 DEF PointsMeant
<1> QED
    BY <1>4, <1>5, <1>6

(* A meter that was told of no points shows the one that it left the factory with. *)
M200Factory == <<[tariff |-> 1, hour |-> 0, min |-> 0]>>
LEMMA M200FactoryDay ==
    /\ M200NewDay = M200Bytes(M200Factory) /\ Queue(M200Factory) /\ Len(M200Factory) = 1
    /\ M200PointProper(M200Factory[1])
<1> DEFINE p == [tariff |-> 1, hour |-> 0, min |-> 0]
<1>1. M200Point(p) = <<0, 0>>
    BY DEF M200Point, Bcd, U8
<1>2. M200PointProper(p)
    BY DEF M200PointProper
<1> HIDE DEF p
<1>3. M200Factory = <<p>>
    BY DEF M200Factory, p
<1>4. DOMAIN <<p>> = {1} /\ <<p>>[1] = p
    OBVIOUS
<1>5. ASSUME NEW i \in 1..16
      PROVE  (IF (i + 1) \div 2 \in DOMAIN <<p>> THEN M200Point(<<p>>[(i + 1) \div 2]) ELSE <<\hFF, \hFF>>)[2 - (i % 2)]
               = IF i < 3 THEN 0 ELSE \hFF
  <2>1. 2 - (i % 2) \in {1, 2}
      OBVIOUS
  <2>2. CASE i < 3
    <3>1. (i + 1) \div 2 = 1
        BY <2>2
    <3>2. <<0, 0>>[2 - (i % 2)] = 0
        BY <2>1
    <3> QED
        BY <1>1, <1>4, <2>2, <3>1, <3>2
  <2>3. CASE ~(i < 3)
    <3>1. (i + 1) \div 2 # 1
        BY <2>3
    <3>2. <<\hFF, \hFF>>[2 - (i % 2)] = \hFF
        BY <2>1
    <3> QED
        BY <1>4, <2>3, <3>1, <3>2
  <2> QED
      BY <2>2, <2>3
<1>6. M200NewDay = M200Bytes(<<p>>)
    BY <1>5 DEF M200NewDay, M200Bytes
<1>7. Queue(<<p>>) /\ Len(<<p>>) = 1
    BY QueueOne
<1> QED
    BY <1>2, <1>3, <1>4, <1>6, <1>7

(* The points that were said of a month and kind of day, or those of the factory. *)
M200PointsSaid(said, place) == IF place \in DOMAIN said THEN said[place].points ELSE M200Factory

LEMMA M200PointsKept ==
    ASSUME NEW said, NEW mem, NEW p, NEW q, Same("m200", said, mem, p, q, "set_schedule")
    PROVE  LET points == M200PointsSaid(said, p)
           IN  /\ Held(mem, q, M200NewDay) = M200Bytes(points)
               /\ Queue(points) /\ Len(points) \in 1..8
               /\ \A i \in 1..Len(points) : M200PointProper(points[i])
<1>1. CASE p \in DOMAIN said
  <2> DEFINE c == said[p]
  <2>1. c.verb = "set_schedule" /\ Whole(c) /\ M200Proper(c) /\ mem[q] = M200Cell(c) /\ q \in DOMAIN mem
      BY <1>1 DEF Same, Proper, Cell
  <2>2. M200PointsSaid(said, p) = c.points
      BY <1>1 DEF M200PointsSaid
  <2> HIDE DEF c
  <2>3. Queue(c.points)
      BY <2>1, Carries
  <2>4. Len(c.points) \in 1..8 /\ \A i \in 1..Len(c.points) : M200PointProper(c.points[i])
      BY <2>1 DEF M200Proper
  <2>5. M200Cell(c) = M200Bytes(c.points)
      BY <2>1 DEF M200Cell
  <2> QED
      BY <2>1, <2>2, <2>3, <2>4, <2>5 DEF Held
<1>2. CASE p \notin DOMAIN said
  <2>1. q \notin DOMAIN mem
      BY <1>2 DEF Same
  <2>2. M200PointsSaid(said, p) = M200Factory
      BY <1>2 DEF M200PointsSaid
  <2> DEFINE f == M200Factory
  <2>3. M200NewDay = M200Bytes(f) /\ Queue(f) /\ Len(f) = 1 /\ M200PointProper(f[1])
      BY M200FactoryDay
  <2> HIDE DEF f
  <2> QED
      BY <2>1, <2>2, <2>3 DEF Held, f
<1> QED
    BY <1>1, <1>2

(* The answers to the three queries, as umdk_m200_reply publishes them. *)
M200PairsOf(c, pairs) == Pair("Address", Unsigned(BE32(c.dest))) \o pairs
M200Reply(c, mem) == umdk_m200_reply(M200Serves(umdk_m200_command(c), mem).answer)

LEMMA M200ScheduleRead ==
    ASSUME NEW c, M200Proper(c), c.verb = "get_schedule", NEW said, NEW mem, M200Agrees(said, mem)
    PROVE  M200Reply(c, mem) =
             M200PairsOf(c, PointsMeant(M200PointsSaid(said, <<"schedule", c.dest, c.nums[1], c.nums[2]>>)))
<1> DEFINE address == Swapped(c.dest)
           m == c.nums[1]
           k == c.nums[2]
           date == U8(16 * (m - 1) + k)
           rest == <<date>>
           d == M200Frame(\h0E, c, rest)
           p == <<"schedule", c.dest, m, k>>
           q == <<"schedule", address, m - 1, k>>
           points == M200PointsSaid(said, p)
           bytes == M200Bytes(points)
           t == M200Shown(bytes)
           answer == <<\h0E, 0>> \o address \o t
<1>1. umdk_m200_command(c) = d
    BY M200Verbs DEF umdk_m200_command, M200GetSchedule
<1>2. Queue(rest) /\ Len(rest) = 1 /\ rest[1] = date
    BY QueueOne
<1>3. c.dest \in Signed32 /\ m \in 1..12 /\ k \in 0..7
    BY DEF M200Proper, M200Asks
<1>4. Queue(address) /\ Len(address) = 4
    BY SwappedBytes
<1>5. Same("m200", said, mem, p, q, "set_schedule")
    BY <1>3 DEF M200Agrees
<1>6. M200FrameOf(d, \h0E, address, rest)
    BY <1>2, M200FrameHas
<1>7. date \div 16 = m - 1 /\ date % 16 = k
  <2> HIDE DEF m, k
  <2>1. 16 * (m - 1) + k \in 0..255
      BY <1>3
  <2>2. date = 16 * (m - 1) + k
      BY <2>1 DEF U8
  <2> QED
      BY <1>3, <2>2
<1> HIDE DEF rest, address, date, d
<1>8. At(d, 0) = \h0E /\ SubSeq(d, 2, 5) = address /\ At(d, 5) = date
    BY <1>2, <1>6 DEF M200FrameOf
<1> HIDE DEF p
<1>9. /\ Held(mem, q, M200NewDay) = bytes
      /\ Queue(points) /\ Len(points) \in 1..8
      /\ \A i \in 1..Len(points) : M200PointProper(points[i])
    BY <1>5, M200PointsKept
<1>10. M200PointsShown(points, t)
    BY <1>9, M200PointsBack
<1>11. M200Serves(d, mem).answer = answer
  <2>1. M200Serves(d, mem).answer
          = <<\h0E, 0>> \o SubSeq(d, 2, 5)
              \o M200Shown(Held(mem, <<"schedule", SubSeq(d, 2, 5), At(d, 5) \div 16, At(d, 5) % 16>>, M200NewDay))
      BY <1>8, M200Answers
  <2>2. <<"schedule", SubSeq(d, 2, 5), At(d, 5) \div 16, At(d, 5) % 16>> = q
      BY <1>7, <1>8
  <2> HIDE DEF q
  <2> QED
      BY <1>8, <1>9, <2>1, <2>2
<1> HIDE DEF q, bytes, t, points
<1>12. Queue(t) /\ Len(t) > 0
  <2>1. Queue(t) /\ Len(t) = 3 * Len(points)
      BY <1>10 DEF M200PointsShown
  <2> DEFINE l == Len(points)
  <2>2. l \in 1..8
      BY <1>9
  <2> HIDE DEF l
  <2>3. 3 * l > 0
      BY <2>2
  <2> QED
      BY <2>1, <2>3 DEF l
<1>13. M200AnswerOf(answer, \h0E, address, t)
    BY <1>4, <1>12, M200AnswerHas
<1> HIDE DEF answer
<1>14. M200Schedule(answer) = PointsMeant(points)
    BY <1>9, <1>10, <1>13, M200ScheduleSaid
<1>15. umdk_m200_reply(answer) = Pair("Address", Unsigned(BE32(c.dest))) \o M200Schedule(answer)
    BY <1>12, <1>13, M200Published DEF address
<1> QED
    BY <1>1, <1>11, <1>14, <1>15 DEF M200Reply, M200PairsOf, points, p

LEMMA M200TimeRead ==
    ASSUME NEW c, M200Proper(c), c.verb = "get_timedate", NEW said, NEW mem, M200Agrees(said, mem),
           <<"time", c.dest>> \in DOMAIN said
    PROVE  LET n == said[<<"time", c.dest>>].nums
           IN  M200Reply(c, mem) =
                 M200PairsOf(c, Pair("Day", Word(M200Dow[n[1] + 1])) \o
                                Pair("Time", Fields(SubSeq(n, 2, 4), ":")) \o
                                Pair("Date", Fields(SubSeq(n, 5, 7), "/")))
<1> DEFINE address == Swapped(c.dest)
           rest == <<>>
           d == M200Frame(\h07, c, rest)
           p == <<"time", c.dest>>
           q == <<"time", address>>
           n == said[p].nums
           many == 7
           t == [i \in 1..many |-> n[i]]
           answer == <<\h07, 0>> \o address \o t
<1>1. umdk_m200_command(c) = d
  <2>1. c.verb \in DOMAIN M200Query /\ M200Query[c.verb] = \h07
      BY DEF M200Query
  <2> QED
      BY <2>1, Zenon DEF umdk_m200_command
<1>2. Queue(rest)
    BY QueueOne
<1>3. c.dest \in Signed32
    BY DEF M200Proper, M200Asks
<1>4. Queue(address) /\ Len(address) = 4
    BY SwappedBytes
<1>5. Same("m200", said, mem, p, q, "set_timedate")
    BY <1>3 DEF M200Agrees
<1>6. M200FrameOf(d, \h07, address, rest)
    BY <1>2, M200FrameHas
<1> HIDE DEF rest, address, d
<1>8. At(d, 0) = \h07 /\ SubSeq(d, 2, 5) = address
    BY <1>6 DEF M200FrameOf
<1>9. q \in DOMAIN mem /\ mem[q] = t
  <2>1. p \in DOMAIN said
      OBVIOUS
  <2> HIDE DEF p, q
  <2>2. said[p].verb = "set_timedate" /\ mem[q] = M200Cell(said[p]) /\ q \in DOMAIN mem
      BY <1>5, <2>1 DEF Same, Cell
  <2>3. M200Cell(said[p]) = [i \in 1..7 |-> n[i]]
      BY <2>2 DEF M200Cell
  <2> QED
      BY <2>2, <2>3
<1>10. Queue(t) /\ Len(t) = 7 /\ \A i \in 1..7 : t[i] = n[i]
  <2>1. many \in Int /\ t = [i \in 1..many |-> t[i]] /\ Len(t) = 7 /\ \A i \in 1..7 : t[i] = n[i]
      OBVIOUS
  <2> HIDE DEF t, many
  <2>2. Queue(t)
      BY <2>1, QueueMap
  <2> QED
      BY <2>1, <2>2
<1>11. M200Serves(d, mem).answer = answer
  <2>1. M200Serves(d, mem).answer
          = <<\h07, 0>> \o SubSeq(d, 2, 5)
              \o Held(mem, <<"time", SubSeq(d, 2, 5)>>, <<6, 0, 0, 0, 1, 1, 0>>)
      BY <1>8, M200Answers
  <2>2. Held(mem, q, <<6, 0, 0, 0, 1, 1, 0>>) = t
      BY <1>9 DEF Held
  <2> QED
      BY <1>8, <2>1, <2>2
<1> HIDE DEF q, t, n
<1>13. M200AnswerOf(answer, \h07, address, t)
    BY <1>4, <1>10, M200AnswerHas
<1> HIDE DEF answer
<1>14. Len(answer) = 13 /\ \A i \in 1..7 : answer[i + 6] = n[i] /\ At(answer, i + 5) = n[i]
    BY <1>10, <1>13 DEF M200AnswerOf
<1>15. At(answer, 6) = n[1]
  <2>1. At(answer, 1 + 5) = n[1]
      BY <1>14
  <2> QED
      BY <2>1
<1>16. SubSeq(answer, 8, 10) = SubSeq(n, 2, 4)
  <2>1. SubSeq(answer, 8, 10) = [i \in 1..3 |-> answer[i + 7]]
    <3>1. SubSeq(answer, 8, 10) = [i \in 1..(1 + 10 - 8) |-> answer[i + 8 - 1]]
        OBVIOUS
    <3>2. 1 + 10 - 8 = 3 /\ \A i \in 1..3 : i + 8 - 1 = i + 7
        OBVIOUS
    <3> QED
        BY <3>1, <3>2
  <2>2. SubSeq(n, 2, 4) = [i \in 1..3 |-> n[i + 1]]
    <3>1. SubSeq(n, 2, 4) = [i \in 1..(1 + 4 - 2) |-> n[i + 2 - 1]]
        OBVIOUS
    <3>2. 1 + 4 - 2 = 3 /\ \A i \in 1..3 : i + 2 - 1 = i + 1
        OBVIOUS
    <3> QED
        BY <3>1, <3>2
  <2>3. ASSUME NEW i \in 1..3 PROVE answer[i + 7] = n[i + 1]
    <3>1. i + 1 \in 1..7 /\ i + 1 + 6 = i + 7
        OBVIOUS
    <3>2. answer[i + 1 + 6] = n[i + 1]
        BY <1>14, <3>1
    <3> QED
        BY <3>1, <3>2
  <2> QED
      BY <2>1, <2>2, <2>3
<1>17. SubSeq(answer, 11, 13) = SubSeq(n, 5, 7)
  <2>1. SubSeq(answer, 11, 13) = [i \in 1..3 |-> answer[i + 10]]
    <3>1. SubSeq(answer, 11, 13) = [i \in 1..(1 + 13 - 11) |-> answer[i + 11 - 1]]
        OBVIOUS
    <3>2. 1 + 13 - 11 = 3 /\ \A i \in 1..3 : i + 11 - 1 = i + 10
        OBVIOUS
    <3> QED
        BY <3>1, <3>2
  <2>2. SubSeq(n, 5, 7) = [i \in 1..3 |-> n[i + 4]]
    <3>1. SubSeq(n, 5, 7) = [i \in 1..(1 + 7 - 5) |-> n[i + 5 - 1]]
        OBVIOUS
    <3>2. 1 + 7 - 5 = 3 /\ \A i \in 1..3 : i + 5 - 1 = i + 4
        OBVIOUS
    <3> QED
        BY <3>1, <3>2
  <2>3. ASSUME NEW i \in 1..3 PROVE answer[i + 10] = n[i + 4]
    <3>1. i + 4 \in 1..7 /\ i + 4 + 6 = i + 10
        OBVIOUS
    <3>2. answer[i + 4 + 6] = n[i + 4]
        BY <1>14, <3>1
    <3> QED
        BY <3>1, <3>2
  <2> QED
      BY <2>1, <2>2, <2>3
<1>18. umdk_m200_reply(answer) = Pair("Address", Unsigned(BE32(c.dest))) \o M200Timedate(answer)
  <2>1. Queue(t) /\ Len(t) > 0
      BY <1>10
  <2>2. M200AnswerOf(answer, \h07, Swapped(c.dest), t)
      BY <1>13 DEF address
  <2> QED
      BY <2>1, <2>2, M200Published
<1>19. M200Timedate(answer) = Pair("Day", Word(M200Dow[n[1] + 1])) \o
                              Pair("Time", Fields(SubSeq(n, 2, 4), ":")) \o
                              Pair("Date", Fields(SubSeq(n, 5, 7), "/"))
    BY <1>15, <1>16, <1>17, Zenon DEF M200Timedate
<1> QED
    BY <1>1, <1>11, <1>18, <1>19, Zenon DEF M200Reply, M200PairsOf, n, p

LEMMA M200TariffsRead ==
    ASSUME NEW c, M200Proper(c), c.verb = "get_number_tariffs", NEW said, NEW mem, M200Agrees(said, mem)
    PROVE  LET p == <<"tariffs", c.dest>>
           IN  M200Reply(c, mem) =
                 M200PairsOf(c, Pair("Tariffs", Num(IF p \in DOMAIN said THEN said[p].nums[1] ELSE 1)))
<1> DEFINE address == Swapped(c.dest)
           rest == <<>>
           d == M200Frame(\h10, c, rest)
           p == <<"tariffs", c.dest>>
           q == <<"tariffs", address>>
           n == IF p \in DOMAIN said THEN said[p].nums[1] ELSE 1
           t == <<n>>
           answer == <<\h10, 0>> \o address \o t
<1>1. umdk_m200_command(c) = d
  <2>1. c.verb \in DOMAIN M200Query /\ M200Query[c.verb] = \h10
      BY DEF M200Query
  <2> QED
      BY <2>1, Zenon DEF umdk_m200_command
<1>2. Queue(rest)
    BY QueueOne
<1>3. c.dest \in Signed32
    BY DEF M200Proper, M200Asks
<1>4. Queue(address) /\ Len(address) = 4
    BY SwappedBytes
<1>5. Same("m200", said, mem, p, q, "set_number_tariffs")
    BY <1>3 DEF M200Agrees
<1>6. M200FrameOf(d, \h10, address, rest)
    BY <1>2, M200FrameHas
<1> HIDE DEF rest, address, d
<1>8. At(d, 0) = \h10 /\ SubSeq(d, 2, 5) = address
    BY <1>6 DEF M200FrameOf
<1>9. Held(mem, q, <<1>>) = t
  <2> HIDE DEF p, q
  <2>1. CASE p \in DOMAIN said
    <3>1. said[p].verb = "set_number_tariffs" /\ mem[q] = M200Cell(said[p]) /\ q \in DOMAIN mem
        BY <1>5, <2>1 DEF Same, Cell
    <3>2. M200Cell(said[p]) = <<said[p].nums[1]>>
        BY <3>1 DEF M200Cell
    <3> QED
        BY <2>1, <3>1, <3>2 DEF Held
  <2>2. CASE p \notin DOMAIN said
    <3>1. q \notin DOMAIN mem
        BY <1>5, <2>2 DEF Same
    <3> QED
        BY <2>2, <3>1 DEF Held
  <2> QED
      BY <2>1, <2>2
<1>11. M200Serves(d, mem).answer = answer
  <2>1. M200Serves(d, mem).answer
          = <<\h10, 0>> \o SubSeq(d, 2, 5) \o Held(mem, <<"tariffs", SubSeq(d, 2, 5)>>, <<1>>)
      BY <1>8, M200Answers
  <2> QED
      BY <1>8, <1>9, <2>1
<1> HIDE DEF q, n
<1>10. Queue(t) /\ Len(t) = 1 /\ t[1] = n
    BY QueueOne
<1> HIDE DEF t
<1>13. M200AnswerOf(answer, \h10, address, t)
    BY <1>4, <1>10, M200AnswerHas
<1> HIDE DEF answer
<1>14. At(answer, 6) = n
  <2>1. \A i \in 1..Len(t) : At(answer, i + 5) = t[i]
      BY <1>13 DEF M200AnswerOf
  <2>2. 1 + 5 = 6
      OBVIOUS
  <2> QED
      BY <1>10, <2>1, <2>2
<1>18. umdk_m200_reply(answer) = Pair("Address", Unsigned(BE32(c.dest))) \o Pair("Tariffs", Num(At(answer, 6)))
  <2>1. Queue(t) /\ Len(t) > 0
      BY <1>10
  <2>2. M200AnswerOf(answer, \h10, Swapped(c.dest), t)
      BY <1>13 DEF address
  <2> QED
      BY <2>1, <2>2, M200Published
<1> QED
    BY <1>1, <1>11, <1>14, <1>18, Zenon DEF M200Reply, M200PairsOf, n, p

(* The pairs that a client expects after the address. *)
M200What(c, said) ==
    LET n == said[<<"time", c.dest>>].nums
        p == <<"tariffs", c.dest>>
    IN  CASE c.verb = "get_schedule" ->
               PointsMeant(M200PointsSaid(said, <<"schedule", c.dest, c.nums[1], c.nums[2]>>))
          [] c.verb = "get_timedate" ->
               Pair("Day", Word(M200Dow[n[1] + 1])) \o Pair("Time", Fields(SubSeq(n, 2, 4), ":"))
                 \o Pair("Date", Fields(SubSeq(n, 5, 7), "/"))
          [] c.verb = "get_number_tariffs" ->
               Pair("Tariffs", Num(IF p \in DOMAIN said THEN said[p].nums[1] ELSE 1))

LEMMA M200Meant ==
    ASSUME NEW c, NEW said, Shows("m200", c, said) # <<>>
    PROVE  /\ c.verb \in M200Asks
           /\ c.verb = "get_timedate" => <<"time", c.dest>> \in DOMAIN said
           /\ Shows("m200", c, said)[1] = M200PairsOf(c, M200What(c, said))
<1> DEFINE shows == M200Shows(c, said)
           what == M200What(c, said)
           address == Pair("Address", Unsigned(BE32(c.dest)))
           time == <<"time", c.dest>>
<1>1. Shows("m200", c, said) = IF shows = <<>> THEN <<>> ELSE <<address \o shows[1]>>
    BY DEF Shows
<1>2. shows # <<>>
    BY <1>1
<1>3. c.verb = "get_schedule" => shows = <<what>>
    BY Zenon DEF M200Shows, M200What, M200PointsSaid, M200Factory
<1>4. c.verb = "get_timedate" /\ time \in DOMAIN said => shows = <<what>>
    BY DEF M200Shows, M200What
<1>5. c.verb = "get_number_tariffs" => shows = <<what>>
    BY DEF M200Shows, M200What
<1>6. c.verb \notin M200Asks \/ (c.verb = "get_timedate" /\ time \notin DOMAIN said) => shows = <<>>
    BY DEF M200Shows, M200Asks
<1> HIDE DEF shows, what, address
<1>7. c.verb \in M200Asks /\ (c.verb = "get_timedate" => time \in DOMAIN said) /\ shows = <<what>>
    BY <1>2, <1>3, <1>4, <1>5, <1>6 DEF M200Asks
<1>8. shows[1] = what
    BY <1>7
<1> QED
    BY <1>1, <1>2, <1>7, <1>8 DEF what, address, M200PairsOf

LEMMA M200ReadAsMeant ==
    ASSUME NEW c, M200Proper(c), NEW said, NEW mem, M200Agrees(said, mem), c.verb \in M200Asks,
           c.verb = "get_timedate" => <<"time", c.dest>> \in DOMAIN said
    PROVE  M200Reply(c, mem) = M200PairsOf(c, M200What(c, said))
<1>1. CASE c.verb = "get_schedule"
    BY <1>1, M200ScheduleRead DEF M200What
<1>2. CASE c.verb = "get_timedate"
    BY <1>2, M200TimeRead DEF M200What
<1>3. CASE c.verb = "get_number_tariffs"
    BY <1>3, M200TariffsRead DEF M200What
<1> QED
    BY <1>1, <1>2, <1>3 DEF M200Asks

(* The address and eight points are the most that a message has to hold. *)
LEMMA M200Fits ==
    ASSUME NEW c, M200Proper(c), NEW said, NEW mem, M200Agrees(said, mem), c.verb \in M200Asks,
           MQTT_MSG_MAX_NUM >= 9
    PROVE  Stored(M200PairsOf(c, M200What(c, said))) = M200PairsOf(c, M200What(c, said))
<1> DEFINE what == M200What(c, said)
           pairs == M200PairsOf(c, what)
<1>1. Queue(what) /\ Len(what) \in 1..8
  <2>1. CASE c.verb = "get_schedule"
    <3> DEFINE p == <<"schedule", c.dest, c.nums[1], c.nums[2]>>
               q == <<"schedule", Swapped(c.dest), c.nums[1] - 1, c.nums[2]>>
               points == M200PointsSaid(said, p)
               n == Len(points)
    <3>1. what = PointsMeant(points)
        BY <2>1 DEF M200What
    <3>2. c.dest \in Signed32 /\ c.nums[1] \in 1..12 /\ c.nums[2] \in 0..7
        BY <2>1 DEF M200Proper, M200Asks
    <3>3. Same("m200", said, mem, p, q, "set_schedule")
        BY <3>2 DEF M200Agrees
    <3> HIDE DEF p, q, what
    <3>4. Queue(points) /\ n \in 1..8
        BY <3>3, M200PointsKept
    <3> HIDE DEF points
    <3>5. DOMAIN points = 1..n
        BY <3>4 DEF Queue
    <3>6. what = [i \in 1..n |-> what[i]]
        BY <3>1, <3>5 DEF PointsMeant
    <3> HIDE DEF n
    <3>7. Queue(what) /\ Len(what) = n
        BY <3>4, <3>6, QueueMap
    <3> QED
        BY <3>4, <3>7
  <2>2. ASSUME NEW name, NEW value PROVE Queue(Pair(name, value)) /\ Len(Pair(name, value)) = 1
      BY QueueOne DEF Pair
  <2>3. CASE c.verb = "get_timedate"
    <3> DEFINE n == said[<<"time", c.dest>>].nums
               x == Pair("Day", Word(M200Dow[n[1] + 1]))
               y == Pair("Time", Fields(SubSeq(n, 2, 4), ":"))
               z == Pair("Date", Fields(SubSeq(n, 5, 7), "/"))
    <3>1. what = x \o y \o z
        BY <2>3 DEF M200What
    <3>2. /\ Queue(x) /\ Len(x) = 1 /\ Queue(y) /\ Len(y) = 1 /\ Queue(z) /\ Len(z) = 1
        BY <2>2
    <3> HIDE DEF x, y, z, what
    <3>3. Joined(x \o y, x, y)
        BY <3>2, Joins
    <3>4. Queue(x \o y) /\ Len(x \o y) = 2
        BY <3>2, <3>3 DEF Joined
    <3>5. Joined(x \o y \o z, x \o y, z)
        BY <3>2, <3>4, Joins
    <3>6. Queue(x \o y \o z) /\ Len(x \o y \o z) = 3
        BY <3>2, <3>4, <3>5 DEF Joined
    <3> QED
        BY <3>1, <3>6
  <2>4. CASE c.verb = "get_number_tariffs"
    <3>1. what = Pair("Tariffs", Num(IF <<"tariffs", c.dest>> \in DOMAIN said
                                     THEN said[<<"tariffs", c.dest>>].nums[1] ELSE 1))
        BY <2>4 DEF M200What
    <3> QED
        BY <2>2, <3>1
  <2> QED
      BY <2>1, <2>3, <2>4 DEF M200Asks
<1> HIDE DEF what
<1>2. Queue(pairs) /\ Len(pairs) = 1 + Len(what)
  <2> DEFINE address == Pair("Address", Unsigned(BE32(c.dest)))
  <2>1. Queue(address) /\ Len(address) = 1
      BY QueueOne DEF Pair
  <2>2. pairs = address \o what
      BY DEF M200PairsOf
  <2> HIDE DEF address, pairs
  <2>3. Joined(address \o what, address, what)
      BY <1>1, <2>1, Joins
  <2> QED
      BY <2>1, <2>2, <2>3 DEF Joined
<1>3. Len(pairs) <= MQTT_MSG_MAX_NUM
  <2> DEFINE l == Len(what)
  <2>1. Len(pairs) = 1 + l /\ l \in 1..8
      BY <1>1, <1>2
  <2> HIDE DEF l, pairs
  <2> QED
      BY <2>1, MaxNumAssumption
<1> HIDE DEF pairs
<1>4. Stored(pairs) = pairs
    BY <1>2, <1>3, StoredWhole
<1> QED
    BY <1>4 DEF pairs, what

LEMMA M200ShownAsTold ==
    ASSUME NEW c, M200Proper(c), NEW said, NEW mem, M200Agrees(said, mem),
           MQTT_MSG_MAX_NUM >= 9, Shows("m200", c, said) # <<>>
    PROVE  Converted(unwds_modid_by_name("m200"), M200Serves(umdk_m200_command(c), mem).answer)
             = <<[topic |-> "m200", pairs |-> Shows("m200", c, said)[1]]>>
<1> DEFINE answer == M200Serves(umdk_m200_command(c), mem).answer
           pairs == M200PairsOf(c, M200What(c, said))
<1>1. /\ c.verb \in M200Asks
      /\ c.verb = "get_timedate" => <<"time", c.dest>> \in DOMAIN said
      /\ Shows("m200", c, said)[1] = pairs
    BY M200Meant
<1>2. umdk_m200_reply(answer) = pairs
    BY <1>1, M200ReadAsMeant DEF M200Reply
<1>3. Stored(pairs) = pairs
    BY <1>1, M200Fits
<1>4. "m200" \in ModuleNames
    BY Names
<1> HIDE DEF answer, pairs
<1>5. Accepted("m200", answer) /\ ReplyOf("m200", answer) = umdk_m200_reply(answer)
    BY DEF Accepted, ReplyOf
<1>6. Converted(unwds_modid_by_name("m200"), answer) = <<[topic |-> "m200", pairs |-> pairs]>>
    BY <1>2, <1>3, <1>4, <1>5, ConvertedBy
<1> QED
    BY <1>1, <1>6 DEF answer

LEMMA M200Faithful == ASSUME MQTT_MSG_MAX_NUM >= 9 PROVE Faithful("m200")
<1>1. ASSUME NEW c, NEW mem
      PROVE  Memory("m200", c, mem) = Over(M200Serves(umdk_m200_command(c), mem).writes, mem)
    BY DEF Memory, Serves, CommandOf
<1>2. ASSUME NEW c, NEW said, NEW mem, M200Agrees(said, mem)
      PROVE  /\ M200Agrees(said, Memory("m200", FromGate, mem))
             /\ Whole(c) /\ M200Proper(c) =>
                  /\ M200Agrees(Over([thing \in Sets("m200", c, said) |-> c], said), Memory("m200", c, mem))
                  /\ Shows("m200", c, said) # <<>> =>
                       Converted(unwds_modid_by_name("m200"), M200Serves(umdk_m200_command(c), mem).answer)
                         = <<[topic |-> "m200", pairs |-> Shows("m200", c, said)[1]]>>
  <2>1. M200Agrees(said, Memory("m200", FromGate, mem))
      BY <1>1, <1>2, M200AgreesStill
  <2>2. ASSUME Whole(c), M200Proper(c)
        PROVE  M200Agrees(Over([thing \in Sets("m200", c, said) |-> c], said), Memory("m200", c, mem))
    <3>1. M200Agrees(Over([thing \in Sets("m200", c, said) |-> c], said),
                     Over(M200Serves(umdk_m200_command(c), mem).writes, mem))
        BY <1>2, <2>2, M200AgreesAgain
    <3> QED
        BY <1>1, <3>1
  <2>3. ASSUME M200Proper(c), Shows("m200", c, said) # <<>>
        PROVE  Converted(unwds_modid_by_name("m200"), M200Serves(umdk_m200_command(c), mem).answer)
                 = <<[topic |-> "m200", pairs |-> Shows("m200", c, said)[1]]>>
      BY <1>2, <2>3, M200ShownAsTold
  <2> QED
      BY <2>1, <2>2, <2>3
<1>3. \A said, mem : Agrees("m200", said, mem) <=> M200Agrees(said, mem)
    BY DEF Agrees
<1>4. \A c : Proper("m200", c) <=> M200Proper(c)
    BY DEF Proper
<1>5. \A c, mem : Serves("m200", CommandOf("m200", c), mem) = M200Serves(umdk_m200_command(c), mem)
    BY DEF Serves, CommandOf
<1>6. ASSUME NEW c, NEW said, NEW mem, Agrees("m200", said, mem)
      PROVE  /\ Agrees("m200", said, Memory("m200", FromGate, mem))
             /\ Whole(c) /\ Proper("m200", c) =>
                  /\ Agrees("m200", Over([thing \in Sets("m200", c, said) |-> c], said), Memory("m200", c, mem))
                  /\ Shows("m200", c, said) # <<>> =>
                       Converted(unwds_modid_by_name("m200"), Serves("m200", CommandOf("m200", c), mem).answer)
                         = <<[topic |-> "m200", pairs |-> Shows("m200", c, said)[1]]>>
  <2>1. M200Agrees(said, mem)
      BY <1>3, <1>6
  <2>2. Serves("m200", CommandOf("m200", c), mem) = M200Serves(umdk_m200_command(c), mem)
      BY <1>5
  <2> QED
      BY <1>2, <1>3, <1>4, <2>1, <2>2
<1> QED
    BY <1>6, Zenon DEF Faithful

(* A client is shown of a Mercury 200 what the commands before it said of its schedules, its
   time and its tariffs, and what the meter left the factory with where they said nothing:
   umdk_m200_command (umdk-m200.c:96) and umdk_m200_reply (406) both turn the bytes of the
   address around, count months from zero and digits in fours, and agree about the two bytes
   of a point.  This holds for
   all that clients publish, in any order and to any number of motes, as long as the codec
   can carry the commands, a message has room for an address and eight points and no address
   begins with a zero byte. *)
THEOREM MetersShown ==
    NoZeroInFront /\ MQTT_MSG_MAX_NUM >= 9 /\ AsksProperly("m200") /\ Spec => []M200ReadBack
<1> SUFFICES ASSUME NoZeroInFront, MQTT_MSG_MAX_NUM >= 9, AsksProperly("m200")
             PROVE  Spec => []M200ReadBack
    OBVIOUS
<1>1. Faithful("m200") /\ "m200" \in ModuleNames
    BY M200Faithful, Names
<1>2. Agrees("m200", Nothing, Nothing)
  <2>1. M200Agrees(Nothing, Nothing)
      BY DEF M200Agrees, Same, Nothing
  <2> QED
      BY <2>1 DEF Agrees
<1>3. /\ Init => ShownInv("m200")
      /\ ShownInv("m200") /\ [Next]_vars => ShownInv("m200")'
      /\ ShownInv("m200") => M200ReadBack
    BY <1>1, <1>2, FaithfulShown DEF M200ReadBack
<1> QED
    BY <1>3, PTL DEF Spec

(***************************************************************************)
(* CE102M: what a meter is told of points and of the time is what it shows *)
(* (umdk-iec61107.c).                                                      *)
(***************************************************************************)
IecFrameOf(d, code, mode, param, dest, t) ==
    /\ Queue(d) /\ Len(d) = 6 + Len(t)
    /\ At(d, 0) = code /\ At(d, 1) = mode /\ At(d, 2) = param /\ At(d, 3) = dest
    /\ SubSeq(d, 6, Len(d) - 1) = t

LEMMA IecFrameHas ==
    ASSUME NEW c, Whole(c), c.verb # "json", ~IecTooShort(c), NEW code, NEW mode, NEW param
    PROVE  IecFrameOf(IecFrame(c, code, mode, param), code, mode, param, c.dest, IecParameter(c))
<1> DEFINE t == IecParameter(c)
           open == IEC61107_BRACKET_OPEN
           close == IEC61107_BRACKET_CLOSE
           head == <<code, mode, param, c.dest, open>>
           d == head \o t \o <<close>>
<1>1. IecFrame(c, code, mode, param) = d
    BY DEF IecFrame
<1>2. Queue(t) /\ Len(t) \in Nat
    BY IecParameterQueue, QueueLen
<1>3. /\ Queue(head) /\ Len(head) = 5 /\ head[1] = code /\ head[2] = mode /\ head[3] = param /\ head[4] = c.dest
    BY QueueTuples
<1>4. Queue(<<close>>) /\ Len(<<close>>) = 1
    BY QueueOne
<1> HIDE DEF t, head, open, close
<1> DEFINE e == <<close>>
           u == head \o t
<1>5. Queue(e) /\ Len(e) = 1
    BY <1>4
<1> HIDE DEF e
<1>6. Joined(u, head, t)
    BY <1>2, <1>3, Joins
<1> HIDE DEF u
<1>7. Queue(u)
    BY <1>6 DEF Joined
<1>8. Joined(u \o e, u, e)
    BY <1>5, <1>7, Joins
<1>9. d = u \o e
    BY DEF u, e
<1> HIDE DEF d
<1> DEFINE n == Len(t)
<1>10. n \in Nat /\ Len(u) = 5 + n
    BY <1>2, <1>3, <1>6 DEF Joined
<1>11. Queue(d) /\ Len(d) = 6 + n
    BY <1>5, <1>8, <1>9, <1>10 DEF Joined
<1>12. ASSUME NEW i \in 1..5 + n PROVE d[i] = u[i]
    BY <1>8, <1>9, <1>10, <1>12 DEF Joined
<1>13. /\ \A i \in 1..5 : d[i] = head[i]
       /\ \A i \in 1..n : d[5 + i] = t[i]
  <2>1. \A i \in 1..5 : u[i] = head[i]
      BY <1>3, <1>6 DEF Joined
  <2>2. \A i \in 1..n : u[5 + i] = t[i]
      BY <1>3, <1>6 DEF Joined
  <2> HIDE DEF n
  <2>3. \A i \in 1..5 : i \in 1..5 + n
      BY <1>10
  <2>4. \A i \in 1..n : 5 + i \in 1..5 + n
      BY <1>10
  <2> QED
      BY <1>12, <2>1, <2>2, <2>3, <2>4
<1>14. At(d, 0) = code /\ At(d, 1) = mode /\ At(d, 2) = param /\ At(d, 3) = c.dest
  <2> HIDE DEF n
  <2>1. 0 < 6 + n /\ 1 < 6 + n /\ 2 < 6 + n /\ 3 < 6 + n
      BY <1>10
  <2> QED
      BY <1>3, <1>11, <1>13, <2>1 DEF At
<1>15. SubSeq(d, 6, Len(d) - 1) = t
  <2>1. SubSeq(d, 6, Len(d) - 1) = [k \in 1..n |-> d[k + 5]]
    <3> DEFINE l == Len(d) - 1
    <3>1. l = 5 + n
      <4> HIDE DEF n
      <4> QED
          BY <1>10, <1>11
    <3> HIDE DEF l, n
    <3>2. SubSeq(d, 6, l) = [k \in 1..(1 + l - 6) |-> d[k + 6 - 1]]
        BY <1>10, <3>1
    <3>3. 1 + l - 6 = n /\ \A k \in 1..n : k + 6 - 1 = k + 5
        BY <1>10, <3>1
    <3>4. SubSeq(d, 6, l) = [k \in 1..n |-> d[k + 5]]
        BY <3>2, <3>3
    <3> QED
        BY <3>4 DEF l
  <2>2. \A k \in 1..n : d[k + 5] = t[k]
    <3> HIDE DEF n
    <3>1. \A k \in 1..n : k + 5 = 5 + k
        BY <1>10
    <3> QED
        BY <1>13, <3>1
  <2>3. t = [k \in 1..n |-> t[k]]
      BY <1>2 DEF Queue
  <2> HIDE DEF n
  <2> QED
      BY <2>1, <2>2, <2>3
<1>16. IecFrameOf(d, code, mode, param, c.dest, t)
    BY <1>11, <1>14, <1>15 DEF IecFrameOf
<1> QED
    BY <1>1, <1>16 DEF t

LEMMA IecVerbs ==
    /\ DOMAIN IecPlain = {"get_init", "get_time", "set_time", "get_date", "set_date", "get_serial",
                          "get_id_device", "get_status", "get_volt", "get_current", "get_power",
                          "get_default_tariff", "set_default_tariff", "get_special_cmd",
                          "get_schedule", "set_schedule", "get_holidays", "set_holidays"}
    /\ \A v \in DOMAIN IecPlain : IecPlain[v][1] = \h02 => v \in {"get_time", "set_time"}
    /\ \A v \in DOMAIN IecPlain : IecPlain[v][1] = SCHEDULE => v \in {"get_schedule", "set_schedule"}
    /\ IecPlain["get_time"] = <<\h02, IEC61107_READ>> /\ IecPlain["set_time"] = <<\h02, IEC61107_WRITE>>
    /\ IecPlain["get_schedule"] = <<SCHEDULE, IEC61107_READ>>
    /\ IecPlain["set_schedule"] = <<SCHEDULE, IEC61107_WRITE>>
BY DEF IecPlain, SCHEDULE, HOLIDAYS

(* Only two commands write the points or the time of a meter. *)
IecElsewhere(d) == At(d, 1) = IEC61107_WRITE => At(d, 0) # \h02 /\ At(d, 0) # SCHEDULE

LEMMA IecOthers ==
    ASSUME NEW c, Whole(c), c.verb \notin IecTold PROVE IecElsewhere(umdk_iec61107_command(c))
<1> DEFINE d == umdk_iec61107_command(c)
<1>1. \A e : IecElsewhere(<<e>>)
    BY DEF IecElsewhere, At, IEC61107_WRITE
<1>2. IecElsewhere(IecInvalidCmd) /\ IecElsewhere(IecInvalidFormat)
    BY <1>1 DEF IecInvalidCmd, IecInvalidFormat
<1>3. CASE c.verb = "json"
  <2>1. d = IecInvalidCmd
      BY <1>3, IecVerbs DEF umdk_iec61107_command
  <2> QED
      BY <1>2, <2>1
<1>4. CASE c.verb \in {"add", "remove", "find"}
  <2> DEFINE code == [add |-> \hFD, remove |-> \hFC, find |-> \hFB][c.verb]
  <2>1. d = IecDatabase(c)
      BY <1>4, IecVerbs DEF umdk_iec61107_command
  <2>2. Queue(c.text)
      BY <1>4, Carries
  <2>3. ASSUME NEW x, NEW y, NEW z, y # IEC61107_WRITE PROVE IecElsewhere(<<x, y, z>> \o c.text)
    <3> DEFINE t == c.text
               h == <<x, y, z>>
    <3>1. Queue(h) /\ Len(h) = 3 /\ h[2] = y
        BY QueueTuples
    <3> HIDE DEF h
    <3>2. Joined(h \o t, h, t)
        BY <2>2, <3>1, Joins
    <3>3. (h \o t)[2] = y /\ Len(h \o t) = 3 + Len(t) /\ Len(t) \in Nat
        BY <2>2, <3>1, <3>2, QueueLen DEF Joined
    <3>4. At(h \o t, 1) = y
        BY <3>3 DEF At
    <3> QED
        BY <2>3, <3>4 DEF IecElsewhere, h
  <2>4. \A x, y, z, u : y # IEC61107_WRITE => IecElsewhere(<<x, y, z, u>>)
      BY DEF IecElsewhere, At
  <2>5. 0 # IEC61107_WRITE /\ 1 # IEC61107_WRITE /\ 2 # IEC61107_WRITE
      BY DEF IEC61107_WRITE
  <2> HIDE DEF code
  <2>6. IecDatabase(c) \in {<<code, 0, 0>> \o c.text, <<code, 2, c.dest, 0>>, <<code, 1, 0>> \o c.text, IecInvalidCmd}
      BY DEF IecDatabase, code
  <2> QED
      BY <1>2, <2>1, <2>3, <2>4, <2>5, <2>6
<1>5. ASSUME NEW code, NEW mode, NEW param, c.verb # "json",
             mode = IEC61107_WRITE => code # \h02 /\ code # SCHEDULE
      PROVE  IecElsewhere(IecFrame(c, code, mode, param))
  <2> DEFINE f == IecFrame(c, code, mode, param)
             t == IecParameter(c)
  <2>1. CASE IecTooShort(c)
    <3>1. f = IecInvalidFormat
        BY <2>1 DEF IecFrame
    <3> QED
        BY <1>2, <3>1
  <2>2. CASE ~IecTooShort(c)
    <3>1. IecFrameOf(f, code, mode, param, c.dest, t)
        BY <1>5, <2>2, IecFrameHas
    <3> HIDE DEF f, t
    <3>2. At(f, 0) = code /\ At(f, 1) = mode
        BY <3>1 DEF IecFrameOf
    <3> QED
        BY <1>5, <3>2 DEF IecElsewhere, f
  <2> QED
      BY <2>1, <2>2
<1>6. IEC61107_READ # IEC61107_WRITE
    BY DEF IEC61107_READ, IEC61107_WRITE
<1>7. CASE c.verb \in {"set_init", "set_fin"}
  <2>1. d = IecFrame(c, \h01, IEC61107_WRITE, 0)
      BY <1>7, IecVerbs DEF umdk_iec61107_command
  <2>2. \h01 # \h02 /\ \h01 # SCHEDULE
      BY DEF SCHEDULE
  <2> QED
      BY <1>5, <1>7, <2>1, <2>2
<1>8. CASE c.verb = "get_schedule"
  <2>1. d = IecFrame(c, SCHEDULE, IEC61107_READ, U8(c.nums[1]))
      BY <1>8, IecVerbs DEF umdk_iec61107_command
  <2> QED
      BY <1>5, <1>6, <1>8, <2>1
<1>9. CASE c.verb = "set_holidays"
  <2>1. d \in {IecFrame(c, HOLIDAYS, IEC61107_WRITE, 1), IecFrame(c, HOLIDAYS, IEC61107_WRITE, 2), IecInvalidCmd}
      BY <1>9, IecVerbs DEF umdk_iec61107_command
  <2>2. HOLIDAYS # \h02 /\ HOLIDAYS # SCHEDULE
      BY DEF SCHEDULE, HOLIDAYS
  <2> QED
      BY <1>2, <1>5, <1>9, <2>1, <2>2
<1>10. CASE c.verb = "get_value"
  <2>1. d = IecFrame(c, IecValue[c.words[1]], IEC61107_READ, 0) \/ d = IecInvalidCmd
      BY <1>10, IecVerbs DEF umdk_iec61107_command
  <2> QED
      BY <1>2, <1>5, <1>6, <1>10, <2>1
<1>11. CASE c.verb \in DOMAIN IecPlain \ {"get_schedule", "set_schedule", "set_holidays", "set_time"}
  <2> DEFINE plain == IecPlain[c.verb]
  <2>1. d = IecFrame(c, plain[1], plain[2], 0)
      BY <1>11, IecVerbs, Zenon DEF umdk_iec61107_command
  <2>2. plain[2] = IEC61107_WRITE => plain[1] # \h02 /\ plain[1] # SCHEDULE
      BY <1>6, <1>11, IecVerbs
  <2>3. c.verb # "json"
      BY <1>11, IecVerbs
  <2> QED
      BY <1>5, <2>1, <2>2, <2>3
<1>12. CASE c.verb \notin DOMAIN IecPlain \cup {"json", "add", "remove", "find", "set_init", "set_fin", "get_value"}
  <2>1. d \in {<<\hFE>>, IecInvalidCmd}
      BY <1>12, IecVerbs DEF umdk_iec61107_command
  <2> QED
      BY <1>1, <1>2, <2>1
<1> QED
    BY <1>3, <1>4, <1>7, <1>8, <1>9, <1>10, <1>11, <1>12, IecVerbs DEF IecTold

(* What a meter does with a frame. *)
LEMMA IecWritten ==
    ASSUME NEW d, NEW mem
    PROVE  LET bytes == SubSeq(d, 6, Len(d) - 1)
           IN  /\ At(d, 1) = IEC61107_WRITE =>
                    IecServes(d, mem).writes
                      = Keep({<<"parameter", At(d, 3), At(d, 0), At(d, 2)>>}, IecKept(bytes))
               /\ At(d, 1) # IEC61107_WRITE => IecServes(d, mem).writes = Nothing
<1> DEFINE bytes == SubSeq(d, 6, Len(d) - 1)
           place == <<"parameter", At(d, 3), At(d, 0), At(d, 2)>>
           kept == Keep({place}, IecKept(bytes))
           ok == <<0, 0, 0, At(d, 3)>>
           shown == IF place \in DOMAIN mem THEN <<0, 0, At(d, 0), At(d, 3)>> \o mem[place]
                    ELSE <<0, 0, 18, At(d, 3)>>
<1>1. IecServes(d, mem) = CASE At(d, 1) = IEC61107_WRITE -> Served(kept, ok)
                            [] At(d, 1) = IEC61107_READ -> Served(Nothing, shown)
                            [] OTHER -> Served(Nothing, <<\hFF>>)
    BY Zenon DEF IecServes, IecKept
<1> HIDE DEF kept, ok, shown
<1>2. IEC61107_READ # IEC61107_WRITE
    BY DEF IEC61107_READ, IEC61107_WRITE
<1>3. \A w, a : Served(w, a).writes = w
    BY DEF Served
<1>4. At(d, 1) = IEC61107_WRITE => IecServes(d, mem).writes = kept
  <2>1. At(d, 1) = IEC61107_WRITE => IecServes(d, mem) = Served(kept, ok)
      BY <1>1, <1>2
  <2> QED
      BY <1>3, <2>1
<1>5. At(d, 1) # IEC61107_WRITE => IecServes(d, mem).writes = Nothing
  <2>1. At(d, 1) # IEC61107_WRITE => \E a : IecServes(d, mem) = Served(Nothing, a)
      BY <1>1
  <2> QED
      BY <1>3, <2>1
<1> QED
    BY <1>4, <1>5 DEF kept

LEMMA IecWrites ==
    ASSUME NEW d, NEW code, NEW param, NEW dest, NEW t, NEW mem,
           IecFrameOf(d, code, IEC61107_WRITE, param, dest, t)
    PROVE  IecServes(d, mem).writes
             = Keep({<<"parameter", dest, code, param>>}, IecKept(t))
<1> DEFINE bytes == SubSeq(d, 6, Len(d) - 1)
<1>1. bytes = t /\ At(d, 0) = code /\ At(d, 1) = IEC61107_WRITE /\ At(d, 2) = param /\ At(d, 3) = dest
    BY DEF IecFrameOf
<1>2. IecServes(d, mem).writes
        = Keep({<<"parameter", At(d, 3), At(d, 0), At(d, 2)>>}, IecKept(bytes))
    BY <1>1, IecWritten
<1> HIDE DEF bytes
<1> QED
    BY <1>1, <1>2

LEMMA IecElse ==
    ASSUME NEW d, IecElsewhere(d), NEW mem, NEW a, NEW k
    PROVE  LET W == IecServes(d, mem).writes
           IN  <<"parameter", a, \h02, k>> \notin DOMAIN W /\ <<"parameter", a, SCHEDULE, k>> \notin DOMAIN W
<1> DEFINE W == IecServes(d, mem).writes
           place == <<"parameter", At(d, 3), At(d, 0), At(d, 2)>>
<1>1. \A S, x : DOMAIN Keep(S, x) = S
    BY DEF Keep
<1>2. CASE At(d, 1) = IEC61107_WRITE
  <2>1. \E x : W = Keep({place}, x)
      BY <1>2, IecWritten
  <2>2. At(d, 0) # \h02 /\ At(d, 0) # SCHEDULE
      BY <1>2 DEF IecElsewhere
  <2> HIDE DEF W, place
  <2>3. DOMAIN W = {place}
      BY <1>1, <2>1
  <2>4. <<"parameter", a, \h02, k>> # place /\ <<"parameter", a, SCHEDULE, k>> # place
      BY <2>2 DEF place
  <2>5. <<"parameter", a, \h02, k>> \notin DOMAIN W /\ <<"parameter", a, SCHEDULE, k>> \notin DOMAIN W
      BY <2>3, <2>4
  <2> QED
      BY <2>5 DEF W
<1>3. CASE At(d, 1) # IEC61107_WRITE
  <2>1. W = Nothing
      BY <1>3, IecWritten
  <2> HIDE DEF W
  <2>2. DOMAIN W = {}
      BY <2>1 DEF Nothing
  <2>3. <<"parameter", a, \h02, k>> \notin DOMAIN W /\ <<"parameter", a, SCHEDULE, k>> \notin DOMAIN W
      BY <2>2
  <2> QED
      BY <2>3 DEF W
<1> QED
    BY <1>2, <1>3

LEMMA IecSets ==
    ASSUME NEW c, NEW said, c.verb # "set_timedate"
    PROVE  LET S == Sets("iec61107", c, said)
           IN  /\ c.verb = "set_schedule" => S = {<<"schedule", c.dest, c.nums[1]>>}
               /\ c.verb = "set_time" => S = {<<"time", c.dest>>}
               /\ c.verb \notin IecTold => \A p \in S : p[1] \in {"tariffs", "register"}
<1>1. CASE c.verb = "set_schedule"
    BY <1>1 DEF Sets, IecTold
<1>2. CASE c.verb = "set_time"
    BY <1>2 DEF Sets, IecTold
<1>3. CASE c.verb = "set_number_tariffs"
  <2>1. Sets("iec61107", c, said) = {<<"tariffs", c.dest>>}
      BY <1>3 DEF Sets
  <2> QED
      BY <1>3, <2>1 DEF IecTold
<1>4. CASE c.verb = "write_reg"
  <2>1. Sets("iec61107", c, said) = {<<"register", c.dest, c.nums[1]>>}
      BY <1>4 DEF Sets
  <2> QED
      BY <1>4, <2>1 DEF IecTold
<1>5. CASE c.verb = "write_mult_regs"
  <2>1. Sets("iec61107", c, said) = {"register"} \X {c.dest} \X (c.nums[1]..c.nums[1] + c.nums[2] - 1)
      BY <1>5 DEF Sets
  <2> QED
      BY <1>5, <2>1 DEF IecTold
<1>6. CASE c.verb \notin {"set_schedule", "set_time", "set_number_tariffs", "write_reg", "write_mult_regs"}
  <2>1. Sets("iec61107", c, said) = {}
      BY <1>6 DEF Sets
  <2> QED
      BY <1>6, <2>1 DEF IecTold
<1> QED
    BY <1>1, <1>2, <1>3, <1>4, <1>5, <1>6

(* The two commands write where they are meant to, and nowhere else. *)
LEMMA IecToldWrites ==
    ASSUME NEW c, Whole(c), IecProper(c), NEW mem
    PROVE  LET W == IecServes(umdk_iec61107_command(c), mem).writes
           IN  /\ c.verb = "set_time" => W = Keep({<<"parameter", c.dest, \h02, 0>>}, IecCell(c))
               /\ c.verb = "set_schedule" => W = Keep({<<"parameter", c.dest, SCHEDULE, c.nums[1]>>}, IecCell(c))
<1> DEFINE t == IecParameter(c)
           d == umdk_iec61107_command(c)
<1>1. IecCell(c) = IecKept(t)
    BY DEF IecCell
<1>2. ASSUME c.verb = "set_time"
      PROVE  IecServes(d, mem).writes = Keep({<<"parameter", c.dest, \h02, 0>>}, IecCell(c))
  <2>1. ~IecTooShort(c)
    <3>1. Len(c.text) \in 1..99
        BY <1>2 DEF IecProper
    <3> DEFINE l == Len(c.text)
    <3>2. \A s : s = <<>> => Len(s) = 0
        OBVIOUS
    <3>3. l # 0
      <4>1. l \in 1..99
          BY <3>1
      <4> HIDE DEF l
      <4> QED
          BY <4>1
    <3>4. c.text # <<>>
        BY <3>2, <3>3, Zenon
    <3> QED
        BY <3>4 DEF IecTooShort
  <2>2. d = IecFrame(c, IecPlain[c.verb][1], IecPlain[c.verb][2], 0)
      BY <1>2, IecVerbs, Zenon DEF umdk_iec61107_command
  <2>3. IecPlain[c.verb][1] = \h02 /\ IecPlain[c.verb][2] = IEC61107_WRITE
      BY <1>2, IecVerbs
  <2> HIDE DEF d, t
  <2> DEFINE code == \h02
             param == 0
  <2>4. IecFrameOf(d, code, IEC61107_WRITE, param, c.dest, t)
      BY <1>2, <2>1, <2>2, <2>3, IecFrameHas DEF t
  <2>5. IecCell(c) = IecKept(t)
      BY <1>1
  <2> HIDE DEF code, param
  <2>6. IecServes(d, mem).writes = Keep({<<"parameter", c.dest, code, param>>}, IecKept(t))
      BY <2>4, IecWrites
  <2> QED
      BY <2>5, <2>6 DEF code, param
<1>3. ASSUME c.verb = "set_schedule"
      PROVE  IecServes(d, mem).writes = Keep({<<"parameter", c.dest, SCHEDULE, c.nums[1]>>}, IecCell(c))
  <2> DEFINE k == c.nums[1]
  <2>1. ~IecTooShort(c)
    <3>1. Len(c.points) \in 1..12
        BY <1>3 DEF IecProper
    <3> DEFINE l == Len(c.points)
    <3>2. \A s : s = <<>> => Len(s) = 0
        OBVIOUS
    <3>3. l # 0
      <4>1. l \in 1..99
          BY <3>1
      <4> HIDE DEF l
      <4> QED
          BY <4>1
    <3>4. c.points # <<>>
        BY <3>2, <3>3, Zenon
    <3> QED
        BY <3>4 DEF IecTooShort
  <2>2. d = IecFrame(c, SCHEDULE, IEC61107_WRITE, U8(k))
      BY <1>3, IecVerbs DEF umdk_iec61107_command
  <2>3. U8(k) = k
    <3>1. k \in 0..255
        BY <1>3 DEF IecProper, Byte
    <3> HIDE DEF k
    <3> QED
        BY <3>1 DEF U8
  <2> HIDE DEF d, t, k
  <2>4. IecFrameOf(d, SCHEDULE, IEC61107_WRITE, k, c.dest, t)
      BY <1>3, <2>1, <2>2, <2>3, IecFrameHas DEF t
  <2> DEFINE code == SCHEDULE
  <2>5. IecCell(c) = IecKept(t)
      BY <1>1
  <2>6. IecFrameOf(d, code, IEC61107_WRITE, k, c.dest, t)
      BY <2>4
  <2> HIDE DEF code
  <2>7. IecServes(d, mem).writes = Keep({<<"parameter", c.dest, code, k>>}, IecKept(t))
      BY <2>6, IecWrites
  <2> QED
      BY <2>5, <2>7 DEF code, k
<1> QED
    BY <1>2, <1>3

LEMMA IecAgreesAgain ==
    ASSUME NEW c, Whole(c), IecProper(c), NEW said, NEW mem, IecAgrees(said, mem)
    PROVE  IecAgrees(Over([thing \in Sets("iec61107", c, said) |-> c], said),
                     Over(IecServes(umdk_iec61107_command(c), mem).writes, mem))
<1> DEFINE type == "iec61107"
           S == Sets(type, c, said)
           W == IecServes(umdk_iec61107_command(c), mem).writes
           time == IecPlain["set_time"][1]
           Like(p, q, verb) ==
             /\ p \in S <=> q \in DOMAIN W
             /\ p \in S => c.verb = verb /\ W[q] = IecCell(c)
<1>0. /\ c.verb # "set_timedate" /\ (c.verb \in IecTold => c.dest \in Byte)
      /\ time = \h02 /\ \h02 # SCHEDULE
    BY IecVerbs DEF IecProper, SCHEDULE
<1>1. ASSUME NEW a \in Byte
      PROVE  /\ Like(<<"time", a>>, <<"parameter", a, time, 0>>, "set_time")
             /\ \A k \in Byte : Like(<<"schedule", a, k>>, <<"parameter", a, SCHEDULE, k>>, "set_schedule")
  <2>1. CASE c.verb = "set_time"
    <3>1. S = {<<"time", c.dest>>}
        BY <1>0, <2>1, IecSets
    <3>2. W = Keep({<<"parameter", c.dest, time, 0>>}, IecCell(c))
        BY <1>0, <2>1, IecToldWrites
    <3> HIDE DEF S, W, time
    <3> QED
        BY <1>0, <2>1, <3>1, <3>2 DEF Keep
  <2>2. CASE c.verb = "set_schedule"
    <3>1. S = {<<"schedule", c.dest, c.nums[1]>>}
        BY <1>0, <2>2, IecSets
    <3>2. W = Keep({<<"parameter", c.dest, SCHEDULE, c.nums[1]>>}, IecCell(c))
        BY <1>0, <2>2, IecToldWrites
    <3> HIDE DEF S, W, time
    <3> QED
        BY <1>0, <2>2, <3>1, <3>2 DEF Keep
  <2>3. CASE c.verb \notin IecTold
    <3>1. \A p \in S : p[1] \in {"tariffs", "register"}
        BY <1>0, <2>3, IecSets
    <3>2. \A k : <<"parameter", a, time, k>> \notin DOMAIN W /\ <<"parameter", a, SCHEDULE, k>> \notin DOMAIN W
        BY <1>0, <2>3, IecOthers, IecElse
    <3> HIDE DEF S, W, time
    <3>3. <<"time", a>> \notin S
        BY <3>1
    <3>4. \A k : <<"schedule", a, k>> \notin S
        BY <3>1
    <3> QED
        BY <3>2, <3>3, <3>4
  <2> QED
      BY <2>1, <2>2, <2>3 DEF IecTold
<1> HIDE DEF S, W, time
<1>2. ASSUME NEW p, NEW q, NEW verb, Same(type, said, mem, p, q, verb), Like(p, q, verb)
      PROVE  Same(type, Over([thing \in S |-> c], said), Over(W, mem), p, q, verb)
  <2>1. Proper(type, c) /\ Cell(type, c) = IecCell(c)
      BY DEF Proper, Cell
  <2> HIDE DEF type
  <2> QED
      BY <1>2, <2>1, SameOver
<1> HIDE DEF Like
<1>3. IecAgrees(Over([thing \in S |-> c], said), Over(W, mem))
    BY <1>1, <1>2 DEF IecAgrees, time
<1> QED
    BY <1>3 DEF S, W

LEMMA IecAgreesStill ==
    ASSUME NEW said, NEW mem, IecAgrees(said, mem)
    PROVE  IecAgrees(said, Over(IecServes(umdk_iec61107_command(FromGate), mem).writes, mem))
<1> DEFINE W == IecServes(umdk_iec61107_command(FromGate), mem).writes
           new == Over(W, mem)
           type == "iec61107"
<1>1. W = Nothing
  <2> DEFINE d == umdk_iec61107_command(FromGate)
  <2>1. d = IecInvalidCmd
      BY IecVerbs DEF umdk_iec61107_command, FromGate
  <2>2. At(IecInvalidCmd, 1) # IEC61107_WRITE
      BY DEF IecInvalidCmd, At, IEC61107_WRITE
  <2> HIDE DEF d
  <2>3. IecServes(d, mem).writes = Nothing
      BY <2>1, <2>2, IecWritten
  <2> QED
      BY <2>3 DEF d
<1> HIDE DEF W
<1>2. DOMAIN W = {}
    BY <1>1 DEF Nothing
<1>3. DOMAIN new = DOMAIN mem /\ \A p \in DOMAIN mem : new[p] = mem[p]
  <2>1. /\ DOMAIN new = DOMAIN W \cup DOMAIN mem
        /\ \A p \in DOMAIN mem \ DOMAIN W : new[p] = mem[p]
      BY Overlay
  <2> HIDE DEF new
  <2> QED
      BY <1>2, <2>1
<1> HIDE DEF new
<1>4. \A p, q, verb : Same(type, said, mem, p, q, verb) => Same(type, said, new, p, q, verb)
    BY <1>3 DEF Same
<1>5. IecAgrees(said, new)
    BY <1>4 DEF IecAgrees
<1> QED
    BY <1>5 DEF new, W

(* What a meter answers is what it keeps. *)
IecAnswer(code, dest, t) == <<0, 0, code, dest>> \o t
IecAnswerOf(d, code, dest, t) ==
    /\ Queue(d) /\ Len(d) = 4 + Len(t) /\ At(d, 2) = code /\ At(d, 3) = dest
    /\ \A i \in 1..Len(t) : At(d, i + 3) = t[i]

LEMMA IecAnswerHas ==
    ASSUME NEW code, NEW dest, NEW t, Queue(t)
    PROVE  IecAnswerOf(IecAnswer(code, dest, t), code, dest, t)
<1> DEFINE head == <<0, 0, code, dest>>
           d == head \o t
<1>1. Queue(head) /\ Len(head) = 4 /\ head[3] = code /\ head[4] = dest
    BY QueueTuples
<1> HIDE DEF head
<1>2. Joined(d, head, t)
    BY <1>1, Joins
<1> HIDE DEF d
<1> DEFINE n == Len(t)
<1>3. n \in Nat
    BY QueueLen
<1>4. /\ Queue(d) /\ Len(d) = 4 + n /\ d[3] = code /\ d[4] = dest
      /\ \A i \in 1..n : d[4 + i] = t[i]
    BY <1>1, <1>2 DEF Joined
<1>5. At(d, 2) = code /\ At(d, 3) = dest
  <2> HIDE DEF n
  <2>1. 2 < 4 + n /\ 3 < 4 + n
      BY <1>3
  <2> QED
      BY <1>4, <2>1 DEF At
<1>6. ASSUME NEW i \in 1..n PROVE At(d, i + 3) = t[i]
  <2> HIDE DEF n
  <2>1. i + 3 < 4 + n /\ (i + 3) + 1 = 4 + i
      BY <1>3
  <2> QED
      BY <1>4, <2>1 DEF At
<1>7. IecAnswerOf(d, code, dest, t)
    BY <1>4, <1>5, <1>6 DEF IecAnswerOf
<1> QED
    BY <1>7 DEF d, head, IecAnswer

LEMMA IecAnswers ==
    ASSUME NEW d, NEW code, NEW param, NEW dest, NEW s, NEW mem,
           IecFrameOf(d, code, IEC61107_READ, param, dest, s),
           <<"parameter", dest, code, param>> \in DOMAIN mem
    PROVE  IecServes(d, mem).answer = IecAnswer(code, dest, mem[<<"parameter", dest, code, param>>])
<1> DEFINE place == <<"parameter", At(d, 3), At(d, 0), At(d, 2)>>
           bytes == SubSeq(d, 6, Len(d) - 1)
           kept == Keep({place}, [i \in DOMAIN bytes |-> IF bytes[i] \in Byte THEN bytes[i] ELSE 0])
           ok == <<0, 0, 0, At(d, 3)>>
           shown == IF place \in DOMAIN mem THEN <<0, 0, At(d, 0), At(d, 3)>> \o mem[place]
                    ELSE <<0, 0, 18, At(d, 3)>>
<1>1. IecServes(d, mem) = CASE At(d, 1) = IEC61107_WRITE -> Served(kept, ok)
                            [] At(d, 1) = IEC61107_READ -> Served(Nothing, shown)
                            [] OTHER -> Served(Nothing, <<\hFF>>)
    BY Zenon DEF IecServes
<1>2. At(d, 0) = code /\ At(d, 1) = IEC61107_READ /\ At(d, 2) = param /\ At(d, 3) = dest
    BY DEF IecFrameOf
<1>3. shown = IecAnswer(code, dest, mem[<<"parameter", dest, code, param>>])
    BY <1>2, Zenon DEF IecAnswer
<1> HIDE DEF kept, ok, shown
<1>4. IEC61107_READ # IEC61107_WRITE
    BY DEF IEC61107_READ, IEC61107_WRITE
<1>5. \A w, a : Served(w, a).answer = a
    BY DEF Served
<1>6. IecServes(d, mem) = Served(Nothing, shown)
    BY <1>1, <1>2, <1>4
<1> QED
    BY <1>3, <1>5, <1>6

LEMMA IecPublished ==
    ASSUME NEW d, NEW code, NEW dest, NEW t, Queue(t), Len(t) > 0, IecAnswerOf(d, code, dest, t)
    PROVE  LET device == Pair("device", Num(dest))
           IN  /\ code = \h02 => umdk_iec61107_reply(d) = device \o Pair("time", IecText(d, 4, Len(d) - 4))
               /\ code = SCHEDULE => umdk_iec61107_reply(d) = device \o IecSchedule(d)
<1>1. At(d, 2) = code /\ At(d, 3) = dest /\ Len(d) = 4 + Len(t) /\ Len(t) \in Nat
    BY QueueLen DEF IecAnswerOf
<1>2. Len(d) # 1 /\ Len(d) # 2 /\ Len(d) # 4
  <2> DEFINE n == Len(t)
  <2>1. n \in Nat /\ n > 0 /\ Len(d) = 4 + n
      BY <1>1
  <2> HIDE DEF n
  <2> QED
      BY <2>1
<1>3. code = \h02 \/ code = SCHEDULE => ~(code >= \hF0)
    BY DEF SCHEDULE
<1>4. code = \h02 \/ code = SCHEDULE => umdk_iec61107_reply(d) = Pair("device", Num(dest)) \o IecData(d)
  <2> SUFFICES ASSUME code = \h02 \/ code = SCHEDULE
               PROVE  umdk_iec61107_reply(d) = Pair("device", Num(dest)) \o IecData(d)
      OBVIOUS
  <2>1. ~(At(d, 2) >= \hF0) /\ ~(Len(d) \in {2, 4})
      BY <1>1, <1>2, <1>3
  <2> QED
      BY <1>1, <1>2, <2>1, Zenon DEF umdk_iec61107_reply
<1>5. code = \h02 => IecData(d) = Pair("time", IecText(d, 4, Len(d) - 4))
  <2> SUFFICES ASSUME code = \h02 PROVE IecData(d) = Pair("time", IecText(d, 4, Len(d) - 4))
      OBVIOUS
  <2> DEFINE c == At(d, 2)
  <2>1. /\ c = \h02 /\ c # \h03 /\ c # \h04 /\ c # \h05 /\ c # \h06 /\ c \notin \h07..\h0B
        /\ c # \h0C /\ c # \h0D /\ c # \h0E /\ c # HOLIDAYS /\ c # \h11 /\ c # SCHEDULE
      BY <1>1 DEF SCHEDULE, HOLIDAYS
  <2> QED
      BY <2>1, Zenon DEF IecData
<1>6. code = SCHEDULE => IecData(d) = IecSchedule(d)
  <2> SUFFICES ASSUME code = SCHEDULE PROVE IecData(d) = IecSchedule(d)
      OBVIOUS
  <2> DEFINE c == At(d, 2)
  <2>1. /\ c # \h02 /\ c # \h03 /\ c # \h04 /\ c # \h05 /\ c # \h06 /\ c \notin \h07..\h0B
        /\ c # \h0C /\ c # \h0D /\ c # \h0E /\ c # HOLIDAYS /\ c # \h11 /\ c = SCHEDULE
      BY <1>1 DEF SCHEDULE, HOLIDAYS
  <2> QED
      BY <2>1, Zenon DEF IecData
<1> QED
    BY <1>4, <1>5, <1>6

(* Text without a zero is shown as it stands. *)
LEMMA IecTextSaid ==
    ASSUME NEW d, NEW code, NEW dest, NEW t, Queue(t), Len(t) > 0, IecAnswerOf(d, code, dest, t),
           \A i \in 1..Len(t) : t[i] # 0
    PROVE  IecText(d, 4, Len(d) - 4) = Chars(t)
<1> DEFINE count == Len(d) - 4
           text == [i \in 1..count |-> At(d, 4 + i - 1)]
           ends == {i \in 1..count : text[i] = 0}
<1>1. count = Len(t) /\ count > 0
  <2> DEFINE n == Len(t)
  <2>1. n \in Nat /\ n > 0 /\ Len(d) = 4 + n
      BY QueueLen DEF IecAnswerOf
  <2> HIDE DEF n
  <2>2. Len(d) - 4 = n
      BY <2>1
  <2> QED
      BY <2>1, <2>2 DEF n
<1>2. text = t
  <2>1. ASSUME NEW i \in 1..count PROVE At(d, 4 + i - 1) = t[i]
    <3>1. At(d, i + 3) = t[i]
        BY <1>1 DEF IecAnswerOf
    <3>2. 4 + i - 1 = i + 3
      <4> HIDE DEF count
      <4> QED
          OBVIOUS
    <3> QED
        BY <3>1, <3>2
  <2>2. t = [i \in 1..count |-> t[i]]
      BY <1>1 DEF Queue
  <2> HIDE DEF count
  <2> QED
      BY <2>1, <2>2
<1>3. ends = {}
  <2>1. \A i \in 1..count : t[i] # 0
      BY <1>1
  <2> HIDE DEF count, text
  <2> QED
      BY <1>2, <2>1
<1>4. ~(count <= 0)
  <2>1. count \in Int
      BY <1>1, QueueLen
  <2> HIDE DEF count
  <2> QED
      BY <1>1, <2>1
<1>5. IecText(d, 4, count) = Chars(text)
    BY <1>1, <1>3, <1>4, Zenon DEF IecText
<1> HIDE DEF text
<1> QED
    BY <1>2, <1>5 DEF count

(* Two bytes for each point. *)
IecPointsKept(points, t) ==
    /\ Queue(t) /\ Len(t) = 2 * Len(points)
    /\ \A i \in 1..Len(points) : t[2 * i - 1] = IecPoint(points[i])[1] /\ t[2 * i] = IecPoint(points[i])[2]
IecNone == [i \in 1..12 |-> [tariff |-> 0, hour |-> 0, min |-> 0]]

LEMMA IecPointBytes == \A p : IecPoint(p) = <<IecPoint(p)[1], IecPoint(p)[2]>>
BY DEF IecPoint

LEMMA IecTimeKept ==
    ASSUME NEW c, Whole(c), IecProper(c), c.verb = "set_time"
    PROVE  IecCell(c) = c.text /\ Queue(c.text) /\ Len(c.text) > 0 /\ \A i \in 1..Len(c.text) : c.text[i] # 0
<1> DEFINE t == c.text
<1>1. Queue(t)
    BY Carries
<1>2. IecParameter(c) = t
    BY DEF IecParameter
<1>3. Len(t) \in 1..99 /\ \A i \in 1..Len(t) : t[i] \in 1..127
    BY DEF IecProper
<1> HIDE DEF t
<1>4. \A i \in 1..Len(t) : t[i] \in Byte /\ t[i] # 0
  <2>1. \A x \in 1..127 : x \in Byte /\ x # 0
      BY DEF Byte
  <2> QED
      BY <1>3, <2>1
<1>5. DOMAIN t = 1..Len(t) /\ t = [i \in 1..Len(t) |-> t[i]]
    BY <1>1 DEF Queue
<1>6. IecKept(t) = t
    BY <1>4, <1>5 DEF IecKept
<1>7. Len(t) > 0
  <2> DEFINE l == Len(t)
  <2>1. l \in 1..99
      BY <1>3
  <2> HIDE DEF l
  <2>2. l > 0
      BY <2>1
  <2> QED
      BY <2>2 DEF l
<1> QED
    BY <1>1, <1>2, <1>4, <1>6, <1>7 DEF IecCell, t

LEMMA IecScheduleKept ==
    ASSUME NEW c, Whole(c), IecProper(c), c.verb = "set_schedule", CountedRight(c)
    PROVE  IecPointsKept(c.points, IecCell(c))
<1> DEFINE n == Len(c.points)
           p(i) == c.points[i]
           b(i) == IecPoint(p(i))
           item(i) == CASE i > n -> <<Unset, Unset>>
                        [] i <= n /\ c.verb = "set_schedule" -> b(i)
                        [] OTHER -> IecHoliday(p(i))
           t == IecItems(c)
<1>1. n \in 1..12 /\ \A i \in 1..n : IecPointProper(p(i))
    BY DEF IecProper
<1>2. n = (IecTextLen(c) + 8) \div 9
    BY DEF CountedRight
<1>3. IecParameter(c) = t
    BY DEF IecParameter
<1>4. t = [k \in 1..2 * n |-> item((k + 1) \div 2)[2 - (k % 2)]]
  <2>1. t = [k \in 1..2 * ((IecTextLen(c) + 8) \div 9) |-> item((k + 1) \div 2)[2 - (k % 2)]]
      BY Zenon DEF IecItems
  <2> QED
      BY <1>2, <2>1, Zenon
<1>5. ASSUME NEW i \in 1..n PROVE b(i)[1] \in Byte /\ b(i)[2] \in Byte
  <2> DEFINE q == p(i)
  <2>1. q.tariff \in 0..7 /\ q.hour \in 0..23 /\ q.min \in 0..59
      BY <1>1 DEF IecPointProper
  <2> HIDE DEF q
  <2>2. IecPoint(q)[1] \in Byte /\ IecPoint(q)[2] = q.min
      BY <2>1, IecPointBack
  <2>3. q.min \in Byte
      BY <2>1 DEF Byte
  <2> QED
      BY <2>2, <2>3 DEF q
<1>6. ASSUME NEW i \in 1..n PROVE item(i) = b(i)
  <2>1. ~(i > n)
    <3> HIDE DEF n
    <3> QED
        BY <1>1
  <2>2. i <= n
    <3> HIDE DEF n
    <3> QED
        BY <1>1
  <2> HIDE DEF n, b, p
  <2> QED
      BY <2>1, <2>2
<1> HIDE DEF t, n, item, b
<1>7. ASSUME NEW i \in 1..n
      PROVE  /\ 2 * i - 1 \in 1..2 * n /\ t[2 * i - 1] = b(i)[1]
             /\ 2 * i \in 1..2 * n /\ t[2 * i] = b(i)[2]
  <2>1. 2 * i - 1 \in 1..2 * n /\ ((2 * i - 1) + 1) \div 2 = i /\ 2 - ((2 * i - 1) % 2) = 1
      BY <1>1
  <2>2. 2 * i \in 1..2 * n /\ ((2 * i) + 1) \div 2 = i /\ 2 - ((2 * i) % 2) = 2
      BY <1>1
  <2>3. t[2 * i - 1] = item(i)[1]
      BY <1>4, <2>1
  <2>4. t[2 * i] = item(i)[2]
      BY <1>4, <2>2
  <2> QED
      BY <1>6, <2>1, <2>2, <2>3, <2>4
<1>8. Queue(t) /\ Len(t) = 2 * n /\ DOMAIN t = 1..2 * n
  <2> DEFINE m == 2 * n
  <2>1. m \in Int /\ m \in Nat /\ t = [k \in 1..m |-> t[k]]
      BY <1>1, <1>4
  <2>2. DOMAIN t = 1..m
      BY <1>4
  <2> HIDE DEF m
  <2>3. Queue(t)
      BY <2>1, QueueMap
  <2>4. Len(t) = m
      BY <2>1
  <2> QED
      BY <2>2, <2>3, <2>4 DEF m
<1>9. \A k \in 1..2 * n : t[k] \in Byte
  <2> SUFFICES ASSUME NEW k \in 1..2 * n PROVE t[k] \in Byte
      OBVIOUS
  <2>1. \E i \in 1..n : k = 2 * i - 1 \/ k = 2 * i
    <3> DEFINE i == (k + 1) \div 2
    <3>1. i \in 1..n /\ (k = 2 * i - 1 \/ k = 2 * i)
        BY <1>1
    <3> QED
        BY <3>1
  <2>2. PICK i \in 1..n : k = 2 * i - 1 \/ k = 2 * i
      BY <2>1
  <2> QED
      BY <1>5, <1>7, <2>2
<1>10. IecKept(t) = t
    BY <1>4, <1>8, <1>9 DEF IecKept
<1>11. IecPointsKept(c.points, t)
    BY <1>7, <1>8 DEF IecPointsKept, n, b
<1> QED
    BY <1>3, <1>10, <1>11 DEF IecCell

(* The points of a schedule in an answer, and the free places after them. *)
LEMMA IecScheduleSaid ==
    ASSUME NEW points, Queue(points), Len(points) \in 1..12,
           \A i \in 1..Len(points) : IecPointProper(points[i]),
           NEW t, IecPointsKept(points, t), NEW d, NEW code, NEW dest, IecAnswerOf(d, code, dest, t)
    PROVE  IecSchedule(d) = PointsMeant(points \o SubSeq(IecNone, Len(points) + 1, 12))
<1> DEFINE n == Len(points)
           m == (Len(d) - 4) \div 2
           entry(i) == IF i > m THEN [name |-> <<"T", 0>>, value |-> Fields(<<0, 0>>, ":")]
                       ELSE [name  |-> <<"T", At(d, 2 * i + 2) \div 32>>,
                             value |-> Fields(<<At(d, 2 * i + 2) % 32, At(d, 2 * i + 3)>>, ":")]
           free == SubSeq(IecNone, n + 1, 12)
           all == points \o free
           said(i) == [name |-> <<"T", all[i].tariff>>, value |-> Fields(<<all[i].hour, all[i].min>>, ":")]
<1>1. IecSchedule(d) = [i \in 1..(IF m < 12 THEN 12 ELSE m) |-> entry(i)]
    BY Zenon DEF IecSchedule
<1>2. Len(t) = 2 * n /\ Len(d) = 4 + Len(t) /\ n \in 1..12
    BY DEF IecPointsKept, IecAnswerOf
<1>3. m = n
  <2> DEFINE l == Len(d)
             k == Len(points)
  <2>1. l = 4 + 2 * k /\ k \in 1..12
      BY <1>2
  <2> HIDE DEF l, k
  <2>2. (l - 4) \div 2 = k
      BY <2>1
  <2> QED
      BY <2>2 DEF l, k
<1>4. (IF m < 12 THEN 12 ELSE m) = 12
  <2> HIDE DEF m, n
  <2> QED
      BY <1>2, <1>3
<1>5. free = [k \in 1..12 - n |-> [tariff |-> 0, hour |-> 0, min |-> 0]]
  <2> DEFINE from == n + 1
  <2>1. n \in 1..12 /\ from \in Int /\ from = n + 1
    <3> HIDE DEF n
    <3> QED
        BY <1>2
  <2> HIDE DEF n, from
  <2>2. SubSeq(IecNone, from, 12) = [k \in 1..(1 + 12 - from) |-> IecNone[k + from - 1]]
      BY <2>1
  <2>3. 1 + 12 - from = 12 - n /\ \A k \in 1..12 - n : k + from - 1 \in 1..12
      BY <2>1
  <2>4. \A k \in 1..12 : IecNone[k] = [tariff |-> 0, hour |-> 0, min |-> 0]
      BY DEF IecNone
  <2>5. SubSeq(IecNone, from, 12) = [k \in 1..12 - n |-> [tariff |-> 0, hour |-> 0, min |-> 0]]
      BY <2>2, <2>3, <2>4
  <2> QED
      BY <2>5 DEF from
<1> HIDE DEF free, n, m
<1>6. Queue(free) /\ Len(free) = 12 - n /\ \A k \in 1..12 - n : free[k] = [tariff |-> 0, hour |-> 0, min |-> 0]
  <2> DEFINE r == 12 - n
  <2>1. r \in Int /\ r \in Nat /\ free = [k \in 1..r |-> free[k]]
      BY <1>2, <1>5
  <2>2. \A k \in 1..r : free[k] = [tariff |-> 0, hour |-> 0, min |-> 0]
      BY <1>5
  <2> HIDE DEF r
  <2>3. Queue(free)
      BY <2>1, QueueMap
  <2>4. Len(free) = r
      BY <2>1
  <2> QED
      BY <2>2, <2>3, <2>4 DEF r
<1>7. Joined(all, points, free)
    BY <1>6, Joins
<1> HIDE DEF all
<1>8. /\ Queue(all) /\ Len(all) = n + (12 - n)
      /\ \A i \in 1..n : all[i] = points[i]
      /\ \A k \in 1..12 - n : all[n + k] = [tariff |-> 0, hour |-> 0, min |-> 0]
    BY <1>6, <1>7 DEF Joined, n
<1>9. DOMAIN all = 1..12
  <2>1. n + (12 - n) = 12
      BY <1>2
  <2> QED
      BY <1>8, <2>1 DEF Queue
<1>10. ASSUME NEW i \in 1..n PROVE entry(i) = said(i)
  <2> DEFINE p == points[i]
             b == IecPoint(p)
  <2>1. p.tariff \in 0..7 /\ p.hour \in 0..23 /\ p.min \in 0..59
      BY DEF IecPointProper, n
  <2>2. t[2 * i - 1] = b[1] /\ t[2 * i] = b[2]
      BY DEF IecPointsKept, n
  <2> HIDE DEF p
  <2>3. b[1] \div 32 = p.tariff /\ b[1] % 32 = p.hour /\ b[2] = p.min
      BY <2>1, IecPointBack
  <2> HIDE DEF b
  <2>4. 2 * i - 1 \in 1..Len(t) /\ 2 * i \in 1..Len(t)
    <3> DEFINE l == Len(t)
    <3>1. l = 2 * n
        BY <1>2
    <3> HIDE DEF l
    <3>2. 2 * i - 1 \in 1..l /\ 2 * i \in 1..l
        BY <1>2, <3>1
    <3> QED
        BY <3>2 DEF l
  <2>5. (2 * i - 1) + 3 = 2 * i + 2
      BY <1>2
  <2>6. At(d, 2 * i + 2) = b[1] /\ At(d, 2 * i + 3) = b[2]
      BY <2>2, <2>4, <2>5 DEF IecAnswerOf
  <2>7. ~(i > m)
      BY <1>2, <1>3
  <2>8. all[i] = p
      BY <1>8 DEF p
  <2> QED
      BY <2>3, <2>6, <2>7, <2>8
<1>11. ASSUME NEW i \in 1..12, i \notin 1..n PROVE entry(i) = said(i)
  <2>1. i > m
      BY <1>2, <1>3, <1>11
  <2> DEFINE k == i - n
  <2>2. k \in 1..12 - n /\ n + k = i
      BY <1>2, <1>11
  <2> HIDE DEF k
  <2>3. all[i] = [tariff |-> 0, hour |-> 0, min |-> 0]
      BY <1>8, <2>2
  <2> QED
      BY <2>1, <2>3
<1> HIDE DEF entry
<1>12. PointsMeant(all) = [i \in DOMAIN all |-> said(i)]
    BY DEF PointsMeant
<1> HIDE DEF said
<1>13. \A i \in 1..12 : entry(i) = said(i)
    BY <1>10, <1>11
<1>14. IecSchedule(d) = PointsMeant(all)
    BY <1>1, <1>4, <1>9, <1>12, <1>13
<1> QED
    BY <1>14 DEF all, free, n

(* What is expected of a query is what the answer shows. *)
IecPairsOf(c, pairs) == Pair("device", Num(c.dest)) \o pairs
IecReply(c, mem) == umdk_iec61107_reply(IecServes(umdk_iec61107_command(c), mem).answer)
IecScheduleMeant(points) == PointsMeant(points \o SubSeq(IecNone, Len(points) + 1, 12))
IecWhat(c, said) ==
    CASE c.verb = "get_schedule" -> IecScheduleMeant(said[<<"schedule", c.dest, c.nums[1]>>].points)
      [] c.verb = "get_time" -> Pair("time", Chars(said[<<"time", c.dest>>].text))
IecExpects(c, said) ==
    \/ /\ c.verb = "get_schedule"
       /\ <<"schedule", c.dest, c.nums[1]>> \in DOMAIN said
       /\ CountedRight(said[<<"schedule", c.dest, c.nums[1]>>])
    \/ c.verb = "get_time" /\ <<"time", c.dest>> \in DOMAIN said

LEMMA IecMeant ==
    ASSUME NEW c, NEW said, Shows("iec61107", c, said) # <<>>
    PROVE  IecExpects(c, said) /\ Shows("iec61107", c, said)[1] = IecPairsOf(c, IecWhat(c, said))
<1> DEFINE shows == IecShows(c, said)
           what == IecWhat(c, said)
           device == Pair("device", Num(c.dest))
<1>1. Shows("iec61107", c, said) = IF shows = <<>> THEN <<>> ELSE <<device \o shows[1]>>
    BY DEF Shows
<1>2. shows # <<>>
    BY <1>1
<1>3. IecExpects(c, said) /\ c.verb = "get_schedule" => shows = <<what>>
    BY Zenon DEF IecShows, IecWhat, IecExpects, IecScheduleMeant, IecNone
<1>4. IecExpects(c, said) /\ c.verb = "get_time" => shows = <<what>>
    BY DEF IecShows, IecWhat, IecExpects
<1>5. ~IecExpects(c, said) => shows = <<>>
    BY DEF IecShows, IecExpects
<1>6. IecExpects(c, said) => c.verb \in {"get_schedule", "get_time"}
    BY DEF IecExpects
<1> HIDE DEF shows, what, device
<1>7. IecExpects(c, said) /\ shows = <<what>>
    BY <1>2, <1>3, <1>4, <1>5, <1>6
<1>8. shows[1] = what
    BY <1>7
<1> QED
    BY <1>1, <1>2, <1>7, <1>8 DEF what, device, IecPairsOf

LEMMA IecTimeRead ==
    ASSUME NEW c, Whole(c), IecProper(c), c.verb = "get_time", NEW said, NEW mem, IecAgrees(said, mem),
           <<"time", c.dest>> \in DOMAIN said
    PROVE  IecReply(c, mem) = IecPairsOf(c, Pair("time", Chars(said[<<"time", c.dest>>].text)))
<1> DEFINE code == IecPlain["set_time"][1]
           param == 0
           d == umdk_iec61107_command(c)
           s == IecParameter(c)
           p == <<"time", c.dest>>
           q == <<"parameter", c.dest, code, param>>
           last == said[p]
           t == last.text
           answer == IecAnswer(code, c.dest, t)
<1>1. ~IecTooShort(c) /\ c.dest \in Byte /\ code = \h02 /\ c.verb # "json"
    BY IecVerbs DEF IecProper, IecAsks
<1>2. d = IecFrame(c, code, IEC61107_READ, param)
  <2>1. d = IecFrame(c, IecPlain[c.verb][1], IecPlain[c.verb][2], 0)
      BY IecVerbs, Zenon DEF umdk_iec61107_command
  <2>2. IecPlain[c.verb][1] = code /\ IecPlain[c.verb][2] = IEC61107_READ
      BY IecVerbs
  <2> QED
      BY <2>1, <2>2
<1> HIDE DEF code, param, d, s
<1>3. IecFrameOf(d, code, IEC61107_READ, param, c.dest, s)
    BY <1>1, <1>2, IecFrameHas DEF s
<1>4. Same("iec61107", said, mem, p, q, "set_time")
    BY <1>1 DEF IecAgrees, code, param
<1>5. p \in DOMAIN said
    OBVIOUS
<1> HIDE DEF p
<1>6. q \in DOMAIN mem /\ mem[q] = IecCell(last) /\ last.verb = "set_time" /\ Whole(last) /\ IecProper(last)
    BY <1>4, <1>5 DEF Same, Cell, Proper
<1> HIDE DEF last
<1>7. mem[q] = t /\ Queue(t) /\ Len(t) > 0 /\ \A i \in 1..Len(t) : t[i] # 0
    BY <1>6, IecTimeKept
<1>8. IecServes(d, mem).answer = answer
    BY <1>3, <1>6, <1>7, IecAnswers
<1> HIDE DEF t, q
<1>9. IecAnswerOf(answer, code, c.dest, t)
    BY <1>7, IecAnswerHas
<1> HIDE DEF answer
<1>10. IecText(answer, 4, Len(answer) - 4) = Chars(t)
    BY <1>7, <1>9, IecTextSaid
<1>11. umdk_iec61107_reply(answer) = Pair("device", Num(c.dest)) \o Pair("time", IecText(answer, 4, Len(answer) - 4))
    BY <1>1, <1>7, <1>9, IecPublished
<1> QED
    BY <1>8, <1>10, <1>11 DEF IecReply, IecPairsOf, d, t, last, p

LEMMA IecScheduleRead ==
    ASSUME NEW c, Whole(c), IecProper(c), c.verb = "get_schedule", NEW said, NEW mem, IecAgrees(said, mem),
           <<"schedule", c.dest, c.nums[1]>> \in DOMAIN said,
           CountedRight(said[<<"schedule", c.dest, c.nums[1]>>])
    PROVE  LET points == said[<<"schedule", c.dest, c.nums[1]>>].points
           IN  /\ IecReply(c, mem) = IecPairsOf(c, IecScheduleMeant(points))
               /\ Queue(points) /\ Len(points) \in 1..12
<1> DEFINE code == SCHEDULE
           param == c.nums[1]
           d == umdk_iec61107_command(c)
           s == IecParameter(c)
           p == <<"schedule", c.dest, param>>
           q == <<"parameter", c.dest, code, param>>
           last == said[p]
           points == last.points
           t == IecCell(last)
           answer == IecAnswer(code, c.dest, t)
<1>1. ~IecTooShort(c) /\ c.dest \in Byte /\ param \in Byte /\ c.verb # "json"
    BY DEF IecProper, IecAsks
<1>2. d = IecFrame(c, code, IEC61107_READ, param)
  <2>1. d = IecFrame(c, code, IEC61107_READ, U8(param))
      BY IecVerbs DEF umdk_iec61107_command
  <2>2. U8(param) = param
    <3> HIDE DEF param
    <3> QED
        BY <1>1 DEF U8, Byte
  <2> QED
      BY <2>1, <2>2
<1>3. CountedRight(last) /\ p \in DOMAIN said
    OBVIOUS
<1> HIDE DEF code, param, d, s
<1>4. IecFrameOf(d, code, IEC61107_READ, param, c.dest, s)
    BY <1>1, <1>2, IecFrameHas DEF s
<1>5. Same("iec61107", said, mem, p, q, "set_schedule")
    BY <1>1 DEF IecAgrees, code
<1> HIDE DEF p
<1>6. q \in DOMAIN mem /\ mem[q] = t /\ last.verb = "set_schedule" /\ Whole(last) /\ IecProper(last)
    BY <1>3, <1>5 DEF Same, Cell, Proper
<1> HIDE DEF last
<1>7. Queue(points) /\ Len(points) \in 1..12 /\ \A i \in 1..Len(points) : IecPointProper(points[i])
  <2>1. Queue(points)
      BY <1>6, Carries
  <2> QED
      BY <1>6, <2>1 DEF IecProper
<1>8. IecPointsKept(points, t)
    BY <1>3, <1>6, IecScheduleKept
<1>9. Queue(t) /\ Len(t) > 0
  <2>1. Queue(t) /\ Len(t) = 2 * Len(points)
      BY <1>8 DEF IecPointsKept
  <2> DEFINE l == Len(points)
  <2>2. l \in 1..12
      BY <1>7
  <2> HIDE DEF l
  <2>3. 2 * l > 0
      BY <2>2
  <2> QED
      BY <2>1, <2>3 DEF l
<1>10. IecServes(d, mem).answer = answer
    BY <1>4, <1>6, IecAnswers
<1> HIDE DEF t, q, points
<1>11. IecAnswerOf(answer, code, c.dest, t)
    BY <1>9, IecAnswerHas
<1> HIDE DEF answer
<1>12. IecSchedule(answer) = IecScheduleMeant(points)
    BY <1>7, <1>8, <1>11, IecScheduleSaid DEF IecScheduleMeant
<1>13. umdk_iec61107_reply(answer) = Pair("device", Num(c.dest)) \o IecSchedule(answer)
    BY <1>9, <1>11, IecPublished DEF code
<1>14. IecReply(c, mem) = IecPairsOf(c, IecScheduleMeant(points))
    BY <1>10, <1>12, <1>13 DEF IecReply, IecPairsOf, d
<1> QED
    BY <1>7, <1>14 DEF points, last, p, param

LEMMA IecReadAsMeant ==
    ASSUME NEW c, Whole(c), IecProper(c), NEW said, NEW mem, IecAgrees(said, mem), IecExpects(c, said)
    PROVE  IecReply(c, mem) = IecPairsOf(c, IecWhat(c, said))
<1>1. CASE c.verb = "get_schedule"
    BY <1>1, IecScheduleRead DEF IecWhat, IecExpects
<1>2. CASE c.verb = "get_time"
    BY <1>2, IecTimeRead DEF IecWhat, IecExpects
<1> QED
    BY <1>1, <1>2 DEF IecExpects

(* The device and twelve points are the most that a message has to hold. *)
LEMMA IecFits ==
    ASSUME NEW c, Whole(c), IecProper(c), NEW said, NEW mem, IecAgrees(said, mem), IecExpects(c, said),
           MQTT_MSG_MAX_NUM >= 13
    PROVE  Stored(IecPairsOf(c, IecWhat(c, said))) = IecPairsOf(c, IecWhat(c, said))
<1> DEFINE what == IecWhat(c, said)
           pairs == IecPairsOf(c, what)
<1>1. Queue(what) /\ Len(what) \in 1..12
  <2>1. CASE c.verb = "get_schedule"
    <3> DEFINE points == said[<<"schedule", c.dest, c.nums[1]>>].points
               n == Len(points)
               from == n + 1
               free == SubSeq(IecNone, from, 12)
               all == points \o free
               most == 12
    <3>1. what = PointsMeant(all)
        BY <2>1, Zenon DEF IecWhat, IecScheduleMeant
    <3>2. Queue(points) /\ n \in 1..12
        BY <2>1, IecScheduleRead DEF IecExpects
    <3> HIDE DEF points, what
    <3>3. from \in Int /\ most \in Int
      <4> HIDE DEF n
      <4> QED
          BY <3>2
    <3>4. Queue(free) /\ Len(free) = 12 - n
      <4>1. Queue(free)
          BY <3>3, QueueSub
      <4> HIDE DEF n
      <4>2. from \in Int /\ from - 1 = n /\ n \in 1..12
          BY <3>2
      <4> HIDE DEF from
      <4>3. Len(free) = 12 - n
          BY <4>2
      <4> QED
          BY <4>1, <4>3
    <3> HIDE DEF free
    <3>5. Joined(all, points, free)
        BY <3>2, <3>4, Joins
    <3> HIDE DEF all
    <3>6. Queue(all) /\ Len(all) = n + (12 - n)
        BY <3>4, <3>5 DEF Joined
    <3>7. n + (12 - n) = most
      <4> HIDE DEF n
      <4> QED
          BY <3>2
    <3>8. DOMAIN all = 1..most
        BY <3>6, <3>7 DEF Queue
    <3>9. what = [i \in 1..most |-> what[i]]
        BY <3>1, <3>8 DEF PointsMeant
    <3> HIDE DEF most
    <3>10. Queue(what)
        BY <3>3, <3>9, QueueMap
    <3>11. Len(what) = most
        BY <3>9 DEF most
    <3> QED
        BY <3>10, <3>11 DEF most
  <2>2. CASE c.verb = "get_time"
    <3>1. what = Pair("time", Chars(said[<<"time", c.dest>>].text))
        BY <2>2 DEF IecWhat
    <3> QED
        BY <3>1, QueueOne DEF Pair
  <2> QED
      BY <2>1, <2>2 DEF IecExpects
<1> HIDE DEF what
<1>2. Queue(pairs) /\ Len(pairs) = 1 + Len(what)
  <2> DEFINE device == Pair("device", Num(c.dest))
  <2>1. Queue(device) /\ Len(device) = 1
      BY QueueOne DEF Pair
  <2>2. pairs = device \o what
      BY DEF IecPairsOf
  <2> HIDE DEF device, pairs
  <2>3. Joined(device \o what, device, what)
      BY <1>1, <2>1, Joins
  <2> QED
      BY <2>1, <2>2, <2>3 DEF Joined
<1>3. Len(pairs) <= MQTT_MSG_MAX_NUM
  <2> DEFINE l == Len(what)
  <2>1. Len(pairs) = 1 + l /\ l \in 1..12
      BY <1>1, <1>2
  <2> HIDE DEF l, pairs
  <2> QED
      BY <2>1, MaxNumAssumption
<1> HIDE DEF pairs
<1>4. Stored(pairs) = pairs
    BY <1>2, <1>3, StoredWhole
<1> QED
    BY <1>4 DEF pairs, what

LEMMA IecShownAsTold ==
    ASSUME NEW c, Whole(c), IecProper(c), NEW said, NEW mem, IecAgrees(said, mem),
           MQTT_MSG_MAX_NUM >= 13, Shows("iec61107", c, said) # <<>>
    PROVE  Converted(unwds_modid_by_name("iec61107"), IecServes(umdk_iec61107_command(c), mem).answer)
             = <<[topic |-> "iec61107", pairs |-> Shows("iec61107", c, said)[1]]>>
<1> DEFINE answer == IecServes(umdk_iec61107_command(c), mem).answer
           pairs == IecPairsOf(c, IecWhat(c, said))
<1>1. IecExpects(c, said) /\ Shows("iec61107", c, said)[1] = pairs
    BY IecMeant
<1>2. umdk_iec61107_reply(answer) = pairs
    BY <1>1, IecReadAsMeant DEF IecReply
<1>3. Stored(pairs) = pairs
    BY <1>1, IecFits
<1>4. "iec61107" \in ModuleNames
    BY Names
<1> HIDE DEF answer, pairs
<1>5. Accepted("iec61107", answer) /\ ReplyOf("iec61107", answer) = umdk_iec61107_reply(answer)
    BY DEF Accepted, ReplyOf
<1>6. Converted(unwds_modid_by_name("iec61107"), answer) = <<[topic |-> "iec61107", pairs |-> pairs]>>
    BY <1>2, <1>3, <1>4, <1>5, ConvertedBy
<1> QED
    BY <1>1, <1>6 DEF answer

LEMMA IecFaithful == ASSUME MQTT_MSG_MAX_NUM >= 13 PROVE Faithful("iec61107")
<1>1. ASSUME NEW c, NEW mem
      PROVE  Memory("iec61107", c, mem) = Over(IecServes(umdk_iec61107_command(c), mem).writes, mem)
    BY DEF Memory, Serves, CommandOf
<1>2. ASSUME NEW c, NEW said, NEW mem, IecAgrees(said, mem)
      PROVE  /\ IecAgrees(said, Memory("iec61107", FromGate, mem))
             /\ Whole(c) /\ IecProper(c) =>
                  /\ IecAgrees(Over([thing \in Sets("iec61107", c, said) |-> c], said), Memory("iec61107", c, mem))
                  /\ Shows("iec61107", c, said) # <<>> =>
                       Converted(unwds_modid_by_name("iec61107"), IecServes(umdk_iec61107_command(c), mem).answer)
                         = <<[topic |-> "iec61107", pairs |-> Shows("iec61107", c, said)[1]]>>
  <2>1. IecAgrees(said, Memory("iec61107", FromGate, mem))
      BY <1>1, <1>2, IecAgreesStill
  <2>2. ASSUME Whole(c), IecProper(c)
        PROVE  IecAgrees(Over([thing \in Sets("iec61107", c, said) |-> c], said), Memory("iec61107", c, mem))
    <3>1. IecAgrees(Over([thing \in Sets("iec61107", c, said) |-> c], said),
                    Over(IecServes(umdk_iec61107_command(c), mem).writes, mem))
        BY <1>2, <2>2, IecAgreesAgain
    <3> QED
        BY <1>1, <3>1
  <2>3. ASSUME Whole(c), IecProper(c), Shows("iec61107", c, said) # <<>>
        PROVE  Converted(unwds_modid_by_name("iec61107"), IecServes(umdk_iec61107_command(c), mem).answer)
                 = <<[topic |-> "iec61107", pairs |-> Shows("iec61107", c, said)[1]]>>
      BY <1>2, <2>3, IecShownAsTold
  <2> QED
      BY <2>1, <2>2, <2>3
<1>3. \A said, mem : Agrees("iec61107", said, mem) <=> IecAgrees(said, mem)
    BY DEF Agrees
<1>4. \A c : Proper("iec61107", c) <=> IecProper(c)
    BY DEF Proper
<1>5. \A c, mem : Serves("iec61107", CommandOf("iec61107", c), mem) = IecServes(umdk_iec61107_command(c), mem)
    BY DEF Serves, CommandOf
<1>6. ASSUME NEW c, NEW said, NEW mem, Agrees("iec61107", said, mem)
      PROVE  /\ Agrees("iec61107", said, Memory("iec61107", FromGate, mem))
             /\ Whole(c) /\ Proper("iec61107", c) =>
                  /\ Agrees("iec61107", Over([thing \in Sets("iec61107", c, said) |-> c], said),
                            Memory("iec61107", c, mem))
                  /\ Shows("iec61107", c, said) # <<>> =>
                       Converted(unwds_modid_by_name("iec61107"),
                                 Serves("iec61107", CommandOf("iec61107", c), mem).answer)
                         = <<[topic |-> "iec61107", pairs |-> Shows("iec61107", c, said)[1]]>>
  <2>1. IecAgrees(said, mem)
      BY <1>3, <1>6
  <2>2. Serves("iec61107", CommandOf("iec61107", c), mem) = IecServes(umdk_iec61107_command(c), mem)
      BY <1>5
  <2> QED
      BY <1>2, <1>3, <1>4, <2>1, <2>2
<1> QED
    BY <1>6, Zenon DEF Faithful

(* A client is shown of a CE102M what the commands before it said of its schedules and its
   time: umdk_iec61107_command (umdk-iec61107.c:101) puts two bytes for each point between
   the brackets of the frame, and the time as it stands, umdk_iec61107_reply (432) takes the
   points apart again, fills the list up to twelve with free ones and ends the time where it
   ended.  A schedule counts only when the loop that makes it read as many points as its text
   has.  This holds for all that clients publish, in any order and to any number of motes, as
   long as the codec can carry the commands, a message has room for a number and twelve
   points and no address begins with a zero byte. *)
THEOREM SchedulesShown ==
    NoZeroInFront /\ MQTT_MSG_MAX_NUM >= 13 /\ AsksProperly("iec61107") /\ Spec => []IecReadBack
<1> SUFFICES ASSUME NoZeroInFront, MQTT_MSG_MAX_NUM >= 13, AsksProperly("iec61107")
             PROVE  Spec => []IecReadBack
    OBVIOUS
<1>1. Faithful("iec61107") /\ "iec61107" \in ModuleNames
    BY IecFaithful, Names
<1>2. Agrees("iec61107", Nothing, Nothing)
  <2>1. IecAgrees(Nothing, Nothing)
      BY DEF IecAgrees, Same, Nothing
  <2> QED
      BY <2>1 DEF Agrees
<1>3. /\ Init => ShownInv("iec61107")
      /\ ShownInv("iec61107") /\ [Next]_vars => ShownInv("iec61107")'
      /\ ShownInv("iec61107") => IecReadBack
    BY <1>1, <1>2, FaithfulShown DEF IecReadBack
<1> QED
    BY <1>3, PTL DEF Spec
=============================================================================
