------------------------- MODULE ReplyChannelProofs --------------------------
(* TypeOK, OneForOne and Delivers for every number of lines, window and queue size. *)
EXTENDS ReplyChannel, TLAPS

ReaderAt == {"read", "head", "body", "load", "load_body", "send"}
PublisherAt == {"receive", "store", "store_body", "serve", "serve_body"}

(* The reader has tokens to send unless it is about to read, and no more tokens were
   cut than parts of lines were taken. *)
ChannelInv ==
    /\ TypeOK
    /\ pc["reader"] \in ReaderAt /\ pc["publisher"] \in PublisherAt
    /\ pc["reader"] = "read" <=> tokens = <<>>
    /\ Len(served) + Backlog <= taken

(* The lines taken, in order: the served ones, the one in the publisher's hands, those
   in the kernel queue, those the reader has yet to send. *)
Position == Len(served) + Serving
ServedWhole == \A k \in DOMAIN served : served[k] = Whole(k)
QueuedWhole == \A k \in DOMAIN msgq : msgq[k] = Whole(Position + k)
TokensWhole == \A k \in DOMAIN tokens : tokens[k] = Whole(Position + Len(msgq) + k)
PublisherHolds ==
    /\ pc["publisher"] \in {"store", "store_body"} => stored = Whole(Position)
    /\ pc["publisher"] \in {"store_body", "serve"} => msg_rx.head = Position
    /\ pc["publisher"] \in {"serve", "serve_body"} => msg_rx.body = Position
    /\ pc["publisher"] = "serve_body" => type = Position
ReaderHolds ==
    /\ pc["reader"] \in {"body", "load"} => msg_rx.head = tokens[1].head
    /\ pc["reader"] \in {"load", "load_body"} => msg_rx.body = tokens[1].body
    /\ pc["reader"] \in {"load_body", "send"} => loaded.head = tokens[1].head
    /\ pc["reader"] = "send" => loaded.body = tokens[1].body

(* While the reader copies a token the publisher waits for it. *)
TakesTurns == pc["reader"] \in {"body", "load", "load_body", "send"} => Quiet

Stream ==
    /\ taken = 2 * (Len(served) + Backlog)
    /\ ServedWhole /\ QueuedWhole /\ TokensWhole
    /\ PublisherHolds /\ ReaderHolds /\ TakesTurns

StreamInv == ~cut /\ ~shared => Stream

------------------------------------------------------------------------------
(* Cutting a window into tokens. *)
LEMMA Windows ==
    ASSUME NEW a \in Nat, NEW parts \in 1..2 * Burst, a + parts <= 2 * Lines
    PROVE  /\ Tokenize(a, a + parts) \in Seq(Text)
           /\ Len(Tokenize(a, a + parts)) \in 1..parts
           /\ Len(Tokenize(a, a + parts)) <= Burst + 1
           /\ a % 2 = 0 /\ parts % 2 = 0 =>
                  /\ 2 * Len(Tokenize(a, a + parts)) = parts
                  /\ \A k \in 1..Len(Tokenize(a, a + parts)) :
                        Tokenize(a, a + parts)[k] = Whole(a \div 2 + k)
<1> DEFINE first == LineOf(a + 1)
           last  == LineOf(a + parts)
           n     == last - first + 1
<1>0. /\ Lines \in Nat /\ Burst \in Nat \ {0} /\ parts \in Nat /\ parts >= 1 /\ parts <= 2 * Burst
    BY CountsAssumption
<1>1. /\ first \in Nat /\ last \in Nat /\ first >= 1 /\ first <= last /\ last <= Lines
      /\ 2 * first - 1 <= a + 1 /\ a + 1 <= 2 * first
      /\ 2 * last - 1 <= a + parts /\ a + parts <= 2 * last
    BY <1>0 DEF LineOf
<1> HIDE DEF first, last
<1>2. n \in 1..parts /\ n <= Burst + 1
    BY <1>0, <1>1
<1>3. Tokenize(a, a + parts) = [k \in 1..n |-> Token(first + k - 1, a, a + parts)]
    BY DEF Tokenize, first, last
<1>4. \A k \in 1..n : Token(first + k - 1, a, a + parts) \in Text
  <2> SUFFICES ASSUME NEW k \in 1..n PROVE Token(first + k - 1, a, a + parts) \in Text
      OBVIOUS
  <2>1. first + k - 1 \in Part /\ 0 \in Part
      BY <1>0, <1>1, <1>2 DEF Part
  <2> QED
      BY <2>1 DEF Token, Text
<1>5. ASSUME a % 2 = 0, parts % 2 = 0
      PROVE  /\ 2 * n = parts
             /\ \A k \in 1..n : Token(first + k - 1, a, a + parts) = Whole(a \div 2 + k)
  <2>1. first = a \div 2 + 1 /\ a = 2 * (a \div 2) /\ a \div 2 \in Nat
      BY <1>5, <1>1
  <2>2. 2 * last = a + parts
      BY <1>0, <1>1, <1>5
  <2>3. ASSUME NEW k \in 1..n
        PROVE  /\ first + k - 1 = a \div 2 + k /\ first + k - 1 \in Int
               /\ a < 2 * (first + k - 1) - 1 /\ 2 * (first + k - 1) - 1 <= a + parts
               /\ a < 2 * (first + k - 1) /\ 2 * (first + k - 1) <= a + parts
      BY <1>0, <1>1, <1>2, <2>1, <2>2
  <2>4. ASSUME NEW k \in 1..n PROVE Token(first + k - 1, a, a + parts) = Whole(a \div 2 + k)
    <3> DEFINE l == first + k - 1
    <3>1. l \in Int /\ a < 2 * l - 1 /\ 2 * l - 1 <= a + parts /\ a < 2 * l /\ 2 * l <= a + parts
        BY <2>3
    <3> HIDE DEF l
    <3>2. Token(l, a, a + parts) = Whole(l)
        BY <3>1 DEF Token, Whole
    <3> QED
        BY <2>3, <3>2 DEF l
  <2> QED
      BY <1>1, <1>2, <2>1, <2>2, <2>4
<1> HIDE DEF n
<1>6. /\ Tokenize(a, a + parts) \in Seq(Text) /\ Len(Tokenize(a, a + parts)) = n
      /\ \A k \in 1..n : Tokenize(a, a + parts)[k] = Token(first + k - 1, a, a + parts)
    BY <1>0, <1>2, <1>3, <1>4
<1> QED
    BY <1>2, <1>5, <1>6

------------------------------------------------------------------------------
(* ChannelInv *)
LEMMA InitChannel == Init => ChannelInv
<1> SUFFICES ASSUME Init PROVE ChannelInv
    OBVIOUS
<1>1. NoText \in Text /\ 0 \in Part
    BY CountsAssumption DEF NoText, Text, Part
<1>2. TypeOK
  <2>1. pc = [t \in {"reader", "publisher"} |-> IF t = "reader" THEN "read" ELSE "receive"]
      BY DEF Init
  <2>2. pc \in [{"reader", "publisher"} ->
                   {"read", "head", "body", "load", "load_body", "send",
                    "receive", "store", "store_body", "serve", "serve_body"}]
      BY <2>1
  <2>3. /\ tokens \in Seq(Text) /\ Len(tokens) = 0 /\ msgq \in Seq(Text) /\ Len(msgq) = 0
        /\ served \in Seq(Text) /\ Len(served) = 0
      BY DEF Init
  <2>4. /\ taken \in 0..2 * Lines /\ type \in Part
        /\ msg_rx \in Text /\ loaded \in Text /\ stored \in Text
      BY <1>1, CountsAssumption DEF Init
  <2>5. cut \in BOOLEAN /\ shared \in BOOLEAN
      BY DEF Init
  <2> QED
      BY <2>2, <2>3, <2>4, <2>5, CountsAssumption DEF TypeOK
<1> QED
    BY <1>2 DEF Init, ChannelInv, Backlog, Serving, At, ReaderAt, PublisherAt

(* What each thread is at in the next state, and that the other one stays. *)
LEMMA Moves ==
    ASSUME ChannelInv, NEW t \in {"reader", "publisher"}, NEW l \in ReaderAt \cup PublisherAt,
           Goto(t, l)
    PROVE  /\ pc'[t] = l /\ \A u \in {"reader", "publisher"} \ {t} : pc'[u] = pc[u]
           /\ pc' \in [{"reader", "publisher"} ->
                          {"read", "head", "body", "load", "load_body", "send",
                           "receive", "store", "store_body", "serve", "serve_body"}]
BY DEF ChannelInv, TypeOK, Goto, ReaderAt, PublisherAt

LEMMA NextChannel == ChannelInv /\ [Next]_vars => ChannelInv'
<1> SUFFICES ASSUME ChannelInv, [Next]_vars PROVE ChannelInv'
    OBVIOUS
<1>a. /\ TypeOK /\ Lines \in Nat /\ Burst \in Nat \ {0} /\ QueueSize \in Nat \ {0}
      /\ taken \in Nat /\ taken <= 2 * Lines
    BY CountsAssumption DEF ChannelInv, TypeOK
<1>b. /\ tokens \in Seq(Text) /\ msgq \in Seq(Text) /\ served \in Seq(Text)
      /\ Len(tokens) \in Nat /\ Len(msgq) \in Nat /\ Len(served) \in Nat
      /\ Len(tokens) <= Burst + 1 /\ Len(msgq) <= QueueSize
      /\ Serving \in {0, 1} /\ Len(served) + Len(tokens) + Len(msgq) + Serving <= taken
    BY <1>a DEF ChannelInv, TypeOK, Backlog, Serving
<1>r. tokens # <<>> => /\ Head(tokens) \in Text /\ Head(tokens) = tokens[1]
                       /\ Tail(tokens) \in Seq(Text) /\ Len(Tail(tokens)) = Len(tokens) - 1
    BY <1>b
<1>q. msgq # <<>> => /\ Head(msgq) \in Text /\ Tail(msgq) \in Seq(Text)
                     /\ Len(Tail(msgq)) = Len(msgq) - 1
    BY <1>b
<1>e. \A f \in Seq(Text) : Len(f) \in Nat /\ (f = <<>> <=> Len(f) = 0)
    OBVIOUS
<1>p. \A x, y \in Text : /\ [x EXCEPT !.head = y.head] \in Text
                         /\ [x EXCEPT !.body = y.body] \in Text
                         /\ [head |-> x.head, body |-> y.body] \in Text
                         /\ x.head \in Part
    BY DEF Text
<1>1. CASE Flush
  <2>1. PICK parts \in 1..2 * Burst :
            taken + parts <= 2 * Lines /\ taken' = taken + parts
            /\ tokens' = Tokenize(taken, taken + parts) /\ cut' = (cut \/ (taken + parts) % 2 = 1)
      BY <1>1 DEF Flush
  <2>2. /\ tokens' \in Seq(Text) /\ Len(tokens') \in 1..parts /\ Len(tokens') <= Burst + 1
      BY <1>a, <2>1, Windows
  <2>3. tokens = <<>> /\ pc["reader"] = "read" /\ Serving' = Serving /\ pc'["reader"] = "head"
        /\ pc'["publisher"] = pc["publisher"]
      BY <1>1, Moves DEF Flush, At, ChannelInv, Serving, ReaderAt
  <2>4. taken' \in 0..2 * Lines /\ tokens' # <<>>
      BY <1>a, <2>1, <2>2
  <2>5. TypeOK'
      BY <1>1, <1>a, <2>1, <2>2, <2>4, Moves DEF Flush, TypeOK, ReaderAt
  <2>6. Len(served) + Len(tokens') + Len(msgq) + Serving <= taken'
      BY <1>a, <1>b, <2>1, <2>2, <2>3
  <2> QED
      BY <1>1, <1>b, <2>2, <2>3, <2>4, <2>5, <2>6 DEF Flush, ChannelInv, Backlog, ReaderAt
<1>2. CASE CopyHead \/ CopyBody \/ Load \/ LoadBody
  <2>1. PICK l \in ReaderAt \ {"read"} : Goto("reader", l)
      BY <1>2 DEF CopyHead, CopyBody, Load, LoadBody, ReaderAt
  <2>2. /\ UNCHANGED <<taken, tokens, msgq, stored, type, served, cut>>
        /\ pc["reader"] # "read" /\ tokens # <<>> /\ Serving' = Serving
        /\ pc'["reader"] = l /\ pc'["publisher"] = pc["publisher"]
      BY <1>2, <2>1, Moves
      DEF CopyHead, CopyBody, Load, LoadBody, At, history, ChannelInv, Serving, ReaderAt
  <2>3. msg_rx' \in Text /\ loaded' \in Text
    <3>1. msg_rx \in Text /\ loaded \in Text /\ Head(tokens) \in Text
        BY <1>a, <1>r, <2>2 DEF TypeOK
    <3>2. /\ \/ msg_rx' = msg_rx
             \/ msg_rx' = [msg_rx EXCEPT !.head = Head(tokens).head]
             \/ msg_rx' = [msg_rx EXCEPT !.body = Head(tokens).body]
          /\ \/ loaded' = loaded
             \/ loaded' = [loaded EXCEPT !.head = msg_rx.head]
             \/ loaded' = [loaded EXCEPT !.body = msg_rx.body]
        BY <1>2 DEF CopyHead, CopyBody, Load, LoadBody
    <3> QED
        BY <1>p, <3>1, <3>2
  <2>5. shared' \in BOOLEAN
    <3>1. shared' = (shared \/ ~Quiet) \/ shared' = shared
        BY <1>2 DEF CopyHead, CopyBody, Load, LoadBody, history
    <3> QED
        BY <1>a, <3>1 DEF TypeOK
  <2>4. TypeOK'
      BY <1>a, <2>1, <2>2, <2>3, <2>5, Moves DEF TypeOK
  <2> QED
      BY <2>1, <2>2, <2>4 DEF ChannelInv, Backlog
<1>3. CASE Send
  <2>1. PICK l \in {"read", "head"} : Goto("reader", l) /\ (l = "read" <=> Tail(tokens) = <<>>)
      BY <1>3 DEF Send
  <2>2. /\ UNCHANGED <<taken, msg_rx, loaded, stored, type, served, cut, shared>>
        /\ tokens # <<>> /\ Len(msgq) < QueueSize /\ Serving' = Serving
        /\ msgq' = Append(msgq, loaded) /\ tokens' = Tail(tokens)
        /\ pc'["reader"] = l /\ pc'["publisher"] = pc["publisher"]
      BY <1>3, <2>1, Moves DEF Send, At, history, ChannelInv, Serving, ReaderAt
  <2>3. /\ msgq' \in Seq(Text) /\ Len(msgq') = Len(msgq) + 1
        /\ tokens' \in Seq(Text) /\ Len(tokens') = Len(tokens) - 1
      BY <1>a, <1>b, <1>r, <2>2 DEF TypeOK
  <2>4. TypeOK'
      BY <1>a, <1>b, <2>1, <2>2, <2>3, Moves DEF TypeOK, ReaderAt
  <2> QED
      BY <1>b, <2>1, <2>2, <2>3, <2>4 DEF ChannelInv, Backlog, ReaderAt
<1>4. CASE Receive
  <2>1. /\ UNCHANGED <<taken, tokens, msg_rx, loaded, type, served, cut, shared>>
        /\ msgq # <<>> /\ msgq' = Tail(msgq) /\ stored' = Head(msgq)
        /\ pc["publisher"] = "receive" /\ Goto("publisher", "store")
      BY <1>4 DEF Receive, At, history
  <2>2. /\ pc'["reader"] = pc["reader"] /\ pc'["publisher"] = "store"
        /\ Serving = 0 /\ Serving' = 1
      BY <2>1, Moves DEF Serving, At, PublisherAt
  <2>3. TypeOK'
      BY <1>a, <1>b, <1>q, <2>1, Moves DEF TypeOK, PublisherAt
  <2> QED
      BY <1>b, <1>q, <2>1, <2>2, <2>3 DEF ChannelInv, Backlog, PublisherAt
<1>5. CASE Store \/ StoreBody \/ Dispatch
  <2>1. PICK l \in {"store_body", "serve", "serve_body"} :
            Goto("publisher", l) /\ pc["publisher"] # "receive"
      BY <1>5 DEF Store, StoreBody, Dispatch, At
  <2>2. /\ UNCHANGED <<taken, tokens, msgq, loaded, stored, served, cut, shared>>
        /\ pc'["reader"] = pc["reader"] /\ pc'["publisher"] = l /\ Serving' = Serving
      BY <1>5, <2>1, Moves DEF Store, StoreBody, Dispatch, history, Serving, At, PublisherAt
  <2>3. msg_rx' \in Text /\ type' \in Part
      BY <1>5, <1>a, <1>p DEF Store, StoreBody, Dispatch, TypeOK
  <2>4. TypeOK'
      BY <1>a, <2>1, <2>2, <2>3, Moves DEF TypeOK, PublisherAt
  <2> QED
      BY <2>1, <2>2, <2>4 DEF ChannelInv, Backlog, PublisherAt
<1>6. CASE serve_reply
  <2>1. /\ UNCHANGED <<taken, tokens, msg_rx, msgq, loaded, stored, type, cut, shared>>
        /\ served' = Append(served, [head |-> type, body |-> msg_rx.body])
        /\ pc["publisher"] = "serve_body" /\ Goto("publisher", "receive")
      BY <1>6 DEF serve_reply, At, history
  <2>2. /\ pc'["reader"] = pc["reader"] /\ pc'["publisher"] = "receive"
        /\ Serving = 1 /\ Serving' = 0
      BY <2>1, Moves DEF Serving, At, PublisherAt
  <2>3. served' \in Seq(Text) /\ Len(served') = Len(served) + 1
    <3>1. [head |-> type, body |-> msg_rx.body] \in Text
        BY <1>a DEF TypeOK, Text
    <3> QED
        BY <1>b, <2>1, <3>1
  <2>4. TypeOK'
      BY <1>a, <1>b, <2>1, <2>2, <2>3, Moves DEF TypeOK, PublisherAt
  <2> QED
      BY <1>b, <2>1, <2>2, <2>3, <2>4 DEF ChannelInv, Backlog, PublisherAt
<1>7. CASE FlushNothing \/ UNCHANGED vars
    BY <1>7 DEF FlushNothing, vars, history, ChannelInv, TypeOK, Backlog, Serving, At
<1> QED
    BY <1>1, <1>2, <1>3, <1>4, <1>5, <1>6, <1>7 DEF Next, uart_reader, publisher

\* Whatever the number of lines, the window and the queue: the queue never holds more
\* than the kernel allows, a window of B lines gives at most B + 1 tokens, and no more
\* replies are served than parts of lines arrived (mqtt.c:928-943, 1031-1066).
THEOREM TypeCorrect == Spec => []TypeOK
<1>1. ChannelInv => TypeOK
    BY DEF ChannelInv
<1> QED
    BY InitChannel, NextChannel, <1>1, PTL DEF Spec

------------------------------------------------------------------------------
(* OneForOne *)
LEMMA Lengths ==
    ASSUME ChannelInv
    PROVE  /\ tokens \in Seq(Text) /\ msgq \in Seq(Text) /\ served \in Seq(Text)
           /\ Len(tokens) \in Nat /\ Len(msgq) \in Nat /\ Len(served) \in Nat
           /\ Serving \in {0, 1} /\ taken \in Nat /\ taken <= 2 * Lines
BY CountsAssumption DEF ChannelInv, TypeOK, Serving

LEMMA Conserved ==
    ASSUME ChannelInv, ChannelInv', [Next]_vars, ~Arrives
    PROVE  (Len(served) + Backlog)' = Len(served) + Backlog
<1>b. /\ tokens \in Seq(Text) /\ msgq \in Seq(Text) /\ served \in Seq(Text)
      /\ Len(tokens) \in Nat /\ Len(msgq) \in Nat /\ Len(served) \in Nat /\ Serving \in {0, 1}
    BY Lengths
<1>1. CASE Flush
  <2>1. tokens = <<>> /\ pc'["reader"] = "head"
      BY <1>1, Moves DEF Flush, At, ChannelInv, ReaderAt
  <2> QED
      BY <2>1 DEF Arrives, ChannelInv
<1>2. CASE CopyHead \/ CopyBody \/ Load \/ LoadBody
  <2>1. PICK l \in ReaderAt : Goto("reader", l)
      BY <1>2 DEF CopyHead, CopyBody, Load, LoadBody, ReaderAt
  <2>2. Serving' = Serving
      BY <2>1, Moves DEF Serving, At
  <2> QED
      BY <1>2, <2>2 DEF CopyHead, CopyBody, Load, LoadBody, Backlog
<1>3. CASE Send
  <2>1. Serving' = Serving
      BY <1>3, Moves DEF Send, Serving, At, ReaderAt
  <2>2. tokens # <<>> /\ loaded \in Text
      BY <1>3 DEF Send, At, ChannelInv, TypeOK
  <2>3. Len(msgq') = Len(msgq) + 1 /\ Len(tokens') = Len(tokens) - 1 /\ served' = served
      BY <1>3, <1>b, <2>2 DEF Send
  <2> QED
      BY <1>b, <2>1, <2>3 DEF Backlog
<1>4. CASE Receive
  <2>1. Serving = 0 /\ Serving' = 1
      BY <1>4, Moves DEF Receive, Serving, At, PublisherAt
  <2>2. Len(msgq') = Len(msgq) - 1 /\ tokens' = tokens /\ served' = served
      BY <1>4, <1>b DEF Receive
  <2> QED
      BY <1>b, <2>1, <2>2 DEF Backlog
<1>5. CASE Store \/ StoreBody \/ Dispatch
  <2>1. Serving' = Serving
      BY <1>5, Moves DEF Store, StoreBody, Dispatch, Serving, At, PublisherAt
  <2> QED
      BY <1>5, <2>1 DEF Store, StoreBody, Dispatch, Backlog
<1>6. CASE serve_reply
  <2>1. Serving = 1 /\ Serving' = 0
      BY <1>6, Moves DEF serve_reply, Serving, At, PublisherAt
  <2>2. Len(served') = Len(served) + 1 /\ tokens' = tokens /\ msgq' = msgq
      BY <1>6, <1>b DEF serve_reply
  <2> QED
      BY <1>b, <2>1, <2>2 DEF Backlog
<1>7. CASE FlushNothing \/ UNCHANGED vars
    BY <1>7 DEF FlushNothing, vars, history, Backlog, Serving, At
<1> QED
    BY <1>1, <1>2, <1>3, <1>4, <1>5, <1>6, <1>7 DEF Next, uart_reader, publisher

\* serve_reply runs exactly once for each token the reader cut, whatever the order in
\* which the two threads copy, however small the kernel queue (mqtt.c:928-943,
\* 1053-1066).
THEOREM OncePerToken == Spec => OneForOne
<1>1. ChannelInv /\ ChannelInv' /\ [Next]_vars
      => [~Arrives => (Len(served) + Backlog)' = Len(served) + Backlog]_vars
    BY Conserved
<1> QED
    BY InitChannel, NextChannel, <1>1, PTL DEF Spec, OneForOne

------------------------------------------------------------------------------
(* Delivers *)
LEMMA WholeText == \A x \in Text, n \in Nat : x.head = n /\ x.body = n => x = Whole(n)
BY DEF Text, Whole
LEMMA InitStream == Init => StreamInv
<1> SUFFICES ASSUME Init PROVE StreamInv
    OBVIOUS
<1>1. /\ tokens = <<>> /\ msgq = <<>> /\ served = <<>> /\ taken = 0 /\ Serving = 0
      /\ pc["reader"] = "read" /\ pc["publisher"] = "receive"
    BY DEF Init, Serving, At
<1> QED
    BY <1>1 DEF StreamInv, Stream, Backlog, Position, ServedWhole, QueuedWhole, TokensWhole,
                PublisherHolds, ReaderHolds, TakesTurns

(* While nothing was cut or shared, the reader's steps. *)
LEMMA ReaderStream ==
    ASSUME ChannelInv, ChannelInv', Stream, uart_reader, ~cut', ~shared'
    PROVE  Stream'
<1>b. /\ tokens \in Seq(Text) /\ msgq \in Seq(Text) /\ served \in Seq(Text)
      /\ Len(tokens) \in Nat /\ Len(msgq) \in Nat /\ Len(served) \in Nat /\ Serving \in {0, 1}
      /\ taken \in Nat /\ taken <= 2 * Lines /\ taken = 2 * (Position + Len(tokens) + Len(msgq))
    BY Lengths DEF Stream, Position, Backlog
<1>h. tokens # <<>> => Head(tokens) = tokens[1] /\ 1 \in DOMAIN tokens /\ tokens[1] \in Text
    BY <1>b
<1>1. CASE Flush
  <2>1. PICK parts \in 1..2 * Burst :
            taken + parts <= 2 * Lines /\ taken' = taken + parts
            /\ tokens' = Tokenize(taken, taken + parts) /\ cut' = (cut \/ (taken + parts) % 2 = 1)
      BY <1>1 DEF Flush
  <2>2. tokens = <<>> /\ Len(tokens) = 0
      BY <1>1 DEF Flush, At, ChannelInv
  <2>3. taken % 2 = 0 /\ taken \div 2 = Position + Len(msgq) /\ parts % 2 = 0
    <3>1. (taken + parts) % 2 # 1
        BY <2>1
    <3>2. Position \in Nat
        BY <1>b DEF Position
    <3> QED
        BY <1>b, <2>2, <3>1, <3>2, CountsAssumption
  <2>4. /\ 2 * Len(tokens') = parts /\ tokens' \in Seq(Text)
        /\ \A k \in 1..Len(tokens') : tokens'[k] = Whole(Position + Len(msgq) + k)
      BY <1>b, <2>1, <2>3, Windows
  <2>5. /\ UNCHANGED <<msg_rx, msgq, loaded, stored, type, served>>
        /\ pc'["reader"] = "head" /\ pc'["publisher"] = pc["publisher"]
      BY <1>1, Moves DEF Flush, ReaderAt
  <2>6. Serving' = Serving /\ Position' = Position
      BY <2>5 DEF Serving, At, Position
  <2>7. taken' = 2 * (Len(served) + Backlog)'
    <3>1. Len(tokens') \in Nat /\ parts \in Nat
        BY <2>4, CountsAssumption
    <3>2. (Len(served) + Backlog)' = Len(served) + (Len(tokens') + Len(msgq) + Serving)
        BY <2>5, <2>6 DEF Backlog
    <3>3. taken + parts = 2 * (Len(served) + (Len(tokens') + Len(msgq) + Serving))
      <4>1. taken = 2 * ((Len(served) + Serving) + Len(msgq))
          BY <1>b, <2>2 DEF Position
      <4>2. parts = 2 * Len(tokens')
          BY <2>4
      <4> QED
          BY <1>b, <3>1, <4>1, <4>2
    <3> QED
        BY <2>1, <3>2, <3>3
  <2>8. TokensWhole'
      BY <2>4, <2>5, <2>6 DEF TokensWhole
  <2> QED
      BY <2>5, <2>6, <2>7, <2>8
      DEF Stream, ServedWhole, QueuedWhole, PublisherHolds, ReaderHolds, TakesTurns
<1>2. CASE CopyHead \/ CopyBody \/ Load \/ LoadBody
  <2>1. /\ UNCHANGED <<taken, tokens, msgq, stored, type, served>>
        /\ pc["reader"] # "read" /\ tokens # <<>>
        /\ pc'["publisher"] = pc["publisher"]
      BY <1>2, Moves DEF CopyHead, CopyBody, Load, LoadBody, At, ChannelInv, ReaderAt
  <2>2. Serving' = Serving /\ Position' = Position /\ Backlog' = Backlog
      BY <2>1 DEF Serving, At, Position, Backlog
  <2>3. Quiet /\ Quiet'
    <3>1. Quiet
        BY <1>2 DEF CopyHead, CopyBody, Load, LoadBody, Stream, TakesTurns, At
    <3> QED
        BY <2>1, <3>1 DEF Quiet, At
  <2>4. /\ msg_rx \in Text /\ loaded \in Text
      BY DEF ChannelInv, TypeOK
  <2>5. ReaderHolds'
    <3>1. CASE CopyHead
        BY <1>h, <2>1, <2>4, <3>1, Moves DEF CopyHead, ReaderHolds, ReaderAt, Text
    <3>2. CASE CopyBody
        BY <1>h, <2>1, <2>4, <3>2, Moves
        DEF CopyBody, Stream, ReaderHolds, ReaderAt, Text, At
    <3>3. CASE Load
        BY <2>1, <2>4, <3>3, Moves DEF Load, Stream, ReaderHolds, ReaderAt, Text, At
    <3>4. CASE LoadBody
        BY <2>1, <2>4, <3>4, Moves DEF LoadBody, Stream, ReaderHolds, ReaderAt, Text, At
    <3> QED
        BY <1>2, <3>1, <3>2, <3>3, <3>4
  <2>6. PublisherHolds'
      BY <2>1, <2>3 DEF PublisherHolds, Quiet, At
  <2> QED
      BY <2>1, <2>2, <2>3, <2>5, <2>6
      DEF Stream, ServedWhole, QueuedWhole, TokensWhole, TakesTurns
<1>3. CASE Send
  <2>1. /\ UNCHANGED <<taken, msg_rx, loaded, stored, type, served>>
        /\ msgq' = Append(msgq, loaded) /\ tokens' = Tail(tokens) /\ tokens # <<>>
        /\ pc'["reader"] \in {"read", "head"} /\ pc'["publisher"] = pc["publisher"]
        /\ pc["reader"] = "send"
      BY <1>3, Moves DEF Send, At, ChannelInv, ReaderAt
  <2>2. Quiet
      BY <2>1 DEF Stream, TakesTurns
  <2>3. Serving' = Serving /\ Position' = Position /\ Position \in Nat
      BY <1>b, <2>1 DEF Serving, At, Position
  <2>4. loaded = Whole(Position + 1)
    <3>1. tokens[1] = Whole(Position + Len(msgq) + 1) /\ Len(msgq) = 0
        BY <1>h, <2>1, <2>2 DEF Stream, TokensWhole, Quiet
    <3>2. loaded \in Text /\ loaded.head = tokens[1].head /\ loaded.body = tokens[1].body
        BY <2>1 DEF ChannelInv, TypeOK, Stream, ReaderHolds
    <3> QED
        BY <2>3, <3>1, <3>2, WholeText DEF Whole
  <2>5. /\ Len(msgq') = 1 /\ DOMAIN msgq' = {1} /\ msgq'[1] = Whole(Position + 1)
    <3>1. msgq' = Append(<<>>, loaded)
        BY <2>1, <2>2 DEF Quiet
    <3> QED
        BY <2>4, <3>1
  <2>6. QueuedWhole'
      BY <2>3, <2>5 DEF QueuedWhole
  <2>7. TokensWhole'
    <3>1. /\ Len(msgq) = 0
          /\ \A k \in 1..Len(tokens) : tokens[k] = Whole(Position + Len(msgq) + k)
        BY <1>b, <2>2 DEF Stream, TokensWhole, Quiet
    <3>2. /\ DOMAIN tokens' = 1..(Len(tokens) - 1)
          /\ \A k \in 1..(Len(tokens) - 1) : tokens'[k] = tokens[k + 1] /\ k + 1 \in 1..Len(tokens)
        BY <1>b, <2>1
    <3>3. \A k \in 1..(Len(tokens) - 1) : tokens'[k] = Whole(Position + 1 + k)
      <4>1. \A k \in 1..(Len(tokens) - 1) : Position + Len(msgq) + (k + 1) = Position + 1 + k
          BY <1>b, <2>3, <3>1
      <4> QED
          BY <3>1, <3>2, <4>1
    <3> QED
        BY <2>3, <2>5, <3>2, <3>3 DEF TokensWhole
  <2>8. (Len(served) + Backlog)' = Len(served) + Backlog
      BY <1>3, <2>1, Conserved DEF Next, uart_reader, Arrives
  <2> QED
      BY <2>1, <2>3, <2>6, <2>7, <2>8
      DEF Stream, ServedWhole, PublisherHolds, ReaderHolds, TakesTurns
<1>4. CASE FlushNothing
    BY <1>4 DEF FlushNothing, vars, history, Stream, Backlog, Serving, At, Position, ServedWhole,
                QueuedWhole, TokensWhole, PublisherHolds, ReaderHolds, TakesTurns, Quiet
<1> QED
    BY <1>1, <1>2, <1>3, <1>4 DEF uart_reader

(* While nothing was cut or shared, the publisher's steps. *)
LEMMA PublisherStream ==
    ASSUME ChannelInv, ChannelInv', Stream, publisher
    PROVE  Stream'
<1>b. /\ tokens \in Seq(Text) /\ msgq \in Seq(Text) /\ served \in Seq(Text)
      /\ Len(tokens) \in Nat /\ Len(msgq) \in Nat /\ Len(served) \in Nat /\ Serving \in {0, 1}
      /\ Position \in Nat
    BY Lengths DEF Position
<1>c. taken' = taken /\ (Len(served) + Backlog)' = Len(served) + Backlog
  <2>1. taken' = taken /\ ~Arrives
      BY DEF publisher, Receive, Store, StoreBody, Dispatch, serve_reply, Arrives
  <2> QED
      BY <2>1, Conserved DEF Next
<1>t. msg_rx \in Text /\ stored \in Text /\ type \in Part
    BY DEF ChannelInv, TypeOK
<1>r. /\ pc'["reader"] = pc["reader"]
      /\ pc["reader"] \in {"read", "head"} /\ TakesTurns' /\ ReaderHolds'
  <2>1. PICK l \in PublisherAt : Goto("publisher", l) /\ ~Quiet
      BY DEF publisher, Receive, Store, StoreBody, Dispatch, serve_reply, PublisherAt, Quiet, At
  <2>2. pc'["reader"] = pc["reader"] /\ pc["reader"] \in {"read", "head"}
      BY <2>1, Moves DEF Stream, TakesTurns, ChannelInv, ReaderAt
  <2> QED
      BY <2>2 DEF TakesTurns, ReaderHolds
<1>1. CASE Receive
  <2>1. /\ UNCHANGED <<tokens, served>>
        /\ msgq # <<>> /\ msgq' = Tail(msgq) /\ stored' = Head(msgq)
        /\ pc["publisher"] = "receive" /\ pc'["publisher"] = "store"
      BY <1>1, Moves DEF Receive, At, PublisherAt
  <2>2. Serving = 0 /\ Serving' = 1 /\ Position' = Position + 1
      BY <1>b, <2>1 DEF Serving, At, Position
  <2>3. /\ Head(msgq) = msgq[1] /\ Len(msgq') = Len(msgq) - 1 /\ DOMAIN msgq' = 1..(Len(msgq) - 1)
        /\ DOMAIN msgq = 1..Len(msgq) /\ DOMAIN tokens = 1..Len(tokens) /\ 1 \in DOMAIN msgq
        /\ \A k \in 1..(Len(msgq) - 1) : msgq'[k] = msgq[k + 1] /\ k + 1 \in 1..Len(msgq)
      BY <1>b, <2>1
  <2>4. QueuedWhole'
    <3>1. \A k \in 1..(Len(msgq) - 1) : Position + (k + 1) = Position + 1 + k
        BY <1>b
    <3> QED
        BY <2>2, <2>3, <3>1 DEF Stream, QueuedWhole
  <2>5. TokensWhole'
    <3>1. \A k \in 1..Len(tokens) : Position + Len(msgq) + k = Position + 1 + (Len(msgq) - 1) + k
        BY <1>b
    <3> QED
        BY <2>1, <2>2, <2>3, <3>1 DEF Stream, TokensWhole
  <2>6. PublisherHolds'
    <3>1. stored' = Whole(Position')
        BY <2>1, <2>2, <2>3 DEF Stream, QueuedWhole
    <3> QED
        BY <2>1, <3>1 DEF PublisherHolds
  <2> QED
      BY <1>c, <1>r, <2>1, <2>4, <2>5, <2>6 DEF Stream, ServedWhole
<1>2. CASE Store \/ StoreBody \/ Dispatch
  <2>1. /\ UNCHANGED <<tokens, msgq, stored, served>>
        /\ pc["publisher"] # "receive" /\ pc'["publisher"] # "receive"
      BY <1>2, Moves DEF Store, StoreBody, Dispatch, At, PublisherAt
  <2>2. Serving' = Serving /\ Position' = Position
      BY <2>1 DEF Serving, At, Position
  <2>3. PublisherHolds'
    <3>1. CASE Store
        BY <1>t, <2>2, <3>1, Moves
        DEF Store, At, Stream, PublisherHolds, PublisherAt, Whole, Text
    <3>2. CASE StoreBody
        BY <1>t, <2>2, <3>2, Moves
        DEF StoreBody, At, Stream, PublisherHolds, PublisherAt, Whole, Text
    <3>3. CASE Dispatch
        BY <1>t, <2>2, <3>3, Moves DEF Dispatch, At, Stream, PublisherHolds, PublisherAt
    <3> QED
        BY <1>2, <3>1, <3>2, <3>3
  <2> QED
      BY <1>c, <1>r, <2>1, <2>2, <2>3 DEF Stream, ServedWhole, QueuedWhole, TokensWhole
<1>3. CASE serve_reply
  <2>1. /\ UNCHANGED <<tokens, msgq>>
        /\ served' = Append(served, [head |-> type, body |-> msg_rx.body])
        /\ pc["publisher"] = "serve_body" /\ pc'["publisher"] = "receive"
      BY <1>3, Moves DEF serve_reply, At, PublisherAt
  <2>2. Serving = 1 /\ Serving' = 0 /\ Position = Len(served) + 1
      BY <2>1 DEF Serving, At, Position
  <2>3. [head |-> type, body |-> msg_rx.body] = Whole(Len(served) + 1)
      BY <2>1, <2>2 DEF Stream, PublisherHolds, Whole
  <2>4. /\ Len(served') = Len(served) + 1
        /\ DOMAIN served' = DOMAIN served \cup {Len(served) + 1}
        /\ \A k \in DOMAIN served : served'[k] = served[k]
        /\ served'[Len(served) + 1] = Whole(Len(served) + 1)
    <3>1. [head |-> type, body |-> msg_rx.body] \in Text
        BY <1>t DEF Text
    <3> QED
        BY <1>b, <2>1, <2>3, <3>1
  <2>5. Position' = Position
      BY <1>b, <2>2, <2>4 DEF Position
  <2>6. ServedWhole'
      BY <2>4 DEF Stream, ServedWhole
  <2>7. PublisherHolds'
      BY <2>1 DEF PublisherHolds
  <2> QED
      BY <1>c, <1>r, <2>1, <2>5, <2>6, <2>7 DEF Stream, QueuedWhole, TokensWhole
<1> QED
    BY <1>1, <1>2, <1>3 DEF publisher

LEMMA NextStream ==
    ASSUME ChannelInv, ChannelInv', StreamInv, [Next]_vars PROVE StreamInv'
<1> SUFFICES ASSUME ~cut', ~shared' PROVE Stream'
    BY DEF StreamInv
<1>1. ~cut /\ ~shared
  <2>1. CASE Flush
      BY <2>1 DEF Flush
  <2>2. CASE CopyHead
      BY <2>2 DEF CopyHead
  <2>3. CASE ~Flush /\ ~CopyHead
      BY <2>3 DEF Next, uart_reader, publisher, FlushNothing, CopyBody, Load, LoadBody,
                  Send, Receive, Store, StoreBody, Dispatch, serve_reply, vars, history
  <2> QED
      BY <2>1, <2>2, <2>3
<1>2. Stream
    BY <1>1 DEF StreamInv
<1>3. CASE uart_reader
    BY <1>2, <1>3, ReaderStream
<1>4. CASE publisher
    BY <1>2, <1>4, PublisherStream
<1>5. CASE UNCHANGED vars
    BY <1>2, <1>5
    DEF vars, history, Stream, Backlog, Serving, At, Position, ServedWhole, QueuedWhole,
        TokensWhole, PublisherHolds, ReaderHolds, TakesTurns, Quiet
<1> QED
    BY <1>3, <1>4, <1>5 DEF Next

\* As long as no window ended inside a line and the reader did not refill msg_rx while
\* the publisher needed it, serve_reply gets the gate's lines whole, once and in order,
\* whatever the window, the queue and the interleaving of the two threads
\* (mqtt.c:928-943, 1031-1066).
THEOREM RepliesDelivered == Spec => []Delivers
<1>1. ChannelInv /\ StreamInv => Delivers
  <2> SUFFICES ASSUME ChannelInv, Stream
               PROVE  Len(served) <= LineOf(taken) /\ \A k \in DOMAIN served : served[k] = Whole(k)
      BY DEF StreamInv, Delivers
  <2>1. /\ Len(tokens) \in Nat /\ Len(msgq) \in Nat /\ Len(served) \in Nat /\ Serving \in {0, 1}
        /\ taken = 2 * (Len(served) + (Len(tokens) + Len(msgq) + Serving))
      BY Lengths DEF Stream, Backlog
  <2>2. Len(served) <= LineOf(taken)
      BY <2>1 DEF LineOf
  <2> QED
      BY <2>2 DEF Stream, ServedWhole
<1>2. ChannelInv /\ ChannelInv' /\ StreamInv /\ [Next]_vars => StreamInv'
    BY NextStream
<1> QED
    BY InitChannel, NextChannel, InitStream, <1>1, <1>2, PTL DEF Spec
==============================================================================
