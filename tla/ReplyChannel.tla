----------------------------- MODULE ReplyChannel ----------------------------
(* The way of a gate reply from the UART to serve_reply (mqtt.c:928-943, 1008-1085):
   uart_reader cuts what it read into lines and hands each to the publisher through
   a System V message queue.  BOTH threads use the one global msg_rx (mqtt.c:65-68)
   as their buffer, with no lock.

   A line is two parts, its head (reply type and address) and its body; every copy
   of a line is two steps, one per part, and part 0 is the terminating NUL. *)
EXTENDS Integers, Sequences

CONSTANTS
    Lines,      \* bound: lines the gate sends in a behaviour
    Burst,      \* bound: lines one read window takes from the UART
    QueueSize   \* messages the kernel queue holds

ASSUME CountsAssumption == Lines \in Nat /\ Burst \in Nat \ {0} /\ QueueSize \in Nat \ {0}

VARIABLES
    taken,      \* parts taken from the UART, two per line
    tokens,     \* the tokens of the last window the reader has yet to send
    msg_rx,     \* the global buffer
    msgq,       \* the kernel's message queue
    loaded,     \* the kernel's copy of the message being sent
    stored,     \* the kernel's copy of the message being received
    type,       \* the head serve_reply has dispatched on
    pc,         \* where the two threads are
    served,     \* what serve_reply acted on, oldest first
    cut,        \* history: a window has ended inside a line
    shared      \* history: the reader has written msg_rx while the publisher needed it

history == <<cut, shared>>
vars == <<taken, tokens, msg_rx, msgq, loaded, stored, type, pc, served, history>>

Part == 0..Lines
Text == [head : Part, body : Part]
NoText == [head |-> 0, body |-> 0]

TypeOK ==
    /\ taken \in 0..2 * Lines
    /\ tokens \in Seq(Text) /\ Len(tokens) <= Burst + 1
    /\ msg_rx \in Text /\ loaded \in Text /\ stored \in Text /\ type \in Part
    /\ msgq \in Seq(Text) /\ Len(msgq) <= QueueSize
    /\ pc \in [{"reader", "publisher"} ->
                  {"read", "head", "body", "load", "load_body", "send",
                   "receive", "store", "store_body", "serve", "serve_body"}]
    /\ served \in Seq(Text) /\ Len(served) <= 2 * Lines
    /\ cut \in BOOLEAN /\ shared \in BOOLEAN

Init ==
    /\ taken = 0 /\ tokens = <<>> /\ msgq = <<>> /\ served = <<>>
    /\ msg_rx = NoText /\ loaded = NoText /\ stored = NoText /\ type = 0
    /\ pc = [reader |-> "read", publisher |-> "receive"]
    /\ cut = FALSE /\ shared = FALSE

Goto(t, l) == pc' = [pc EXCEPT ![t] = l]
At(t, l) == pc[t] = l

------------------------------------------------------------------------------
(* uart_reader *)

\* The tokens of the parts a+1..b of the stream: strsep cuts at the line ends, so a
\* window that begins or ends inside a line yields a piece of it.
LineOf(p) == (p + 1) \div 2
Token(n, a, b) ==
    [head |-> IF a < 2 * n - 1 /\ 2 * n - 1 <= b THEN n ELSE 0,
     body |-> IF a < 2 * n /\ 2 * n <= b THEN n ELSE 0]
Tokenize(a, b) ==
    [k \in 1..(LineOf(b) - LineOf(a + 1) + 1) |-> Token(LineOf(a + 1) + k - 1, a, b)]

\* FLUSH is written and the answer read, in one window of mutex_uart.
Flush ==
    /\ At("reader", "read")
    /\ \E parts \in 1..2 * Burst :
        /\ taken + parts <= 2 * Lines
        /\ cut' = (cut \/ (taken + parts) % 2 = 1)
        /\ taken' = taken + parts
        /\ tokens' = Tokenize(taken, taken + parts)
    /\ Goto("reader", "head")
    /\ UNCHANGED <<msg_rx, msgq, loaded, stored, type, served, shared>>

\* The gate has nothing to say.
FlushNothing == At("reader", "read") /\ UNCHANGED vars

\* memcpy(msg_rx.mtext, token, ...), whatever the publisher is doing with msg_rx.
Quiet == At("publisher", "receive") /\ msgq = <<>>
CopyHead ==
    /\ At("reader", "head") /\ Goto("reader", "body")
    /\ msg_rx' = [msg_rx EXCEPT !.head = Head(tokens).head]
    /\ shared' = (shared \/ ~Quiet)
    /\ UNCHANGED <<taken, tokens, msgq, loaded, stored, type, served, cut>>

\* Mutant: the copy ends one short.
CopyBodyShort ==
    /\ At("reader", "body") /\ Goto("reader", "load")
    /\ UNCHANGED <<taken, tokens, msg_rx, msgq, loaded, stored, type, served, history>>

CopyBody ==
    /\ At("reader", "body") /\ Goto("reader", "load")
    /\ msg_rx' = [msg_rx EXCEPT !.body = Head(tokens).body]
    /\ UNCHANGED <<taken, tokens, msgq, loaded, stored, type, served, history>>

\* msgsnd copies the buffer, then waits for room in the queue.
Load ==
    /\ At("reader", "load") /\ Goto("reader", "load_body")
    /\ loaded' = [loaded EXCEPT !.head = msg_rx.head]
    /\ UNCHANGED <<taken, tokens, msg_rx, msgq, stored, type, served, history>>

LoadBody ==
    /\ At("reader", "load_body") /\ Goto("reader", "send")
    /\ loaded' = [loaded EXCEPT !.body = msg_rx.body]
    /\ UNCHANGED <<taken, tokens, msg_rx, msgq, stored, type, served, history>>

\* Mutant: the queue takes any number of messages.
SendUnbounded ==
    /\ At("reader", "send")
    /\ msgq' = Append(msgq, loaded) /\ tokens' = Tail(tokens)
    /\ Goto("reader", IF Tail(tokens) = <<>> THEN "read" ELSE "head")
    /\ UNCHANGED <<taken, msg_rx, loaded, stored, type, served, history>>

\* Mutant: msgsnd with IPC_NOWAIT, its result unread.
SendNoWait ==
    /\ At("reader", "send") /\ tokens' = Tail(tokens)
    /\ IF Len(msgq) < QueueSize THEN msgq' = Append(msgq, loaded) ELSE UNCHANGED msgq
    /\ Goto("reader", IF Tail(tokens) = <<>> THEN "read" ELSE "head")
    /\ UNCHANGED <<taken, msg_rx, loaded, stored, type, served, history>>

\* Mutant: msgsnd with IPC_NOWAIT is retried, and a queue is full one message early.
SendRetried ==
    /\ At("reader", "send")
    /\ IF Len(msgq) + 1 < QueueSize
       THEN /\ msgq' = Append(msgq, loaded) /\ tokens' = Tail(tokens)
            /\ Goto("reader", IF Tail(tokens) = <<>> THEN "read" ELSE "head")
       ELSE Goto("reader", "load") /\ UNCHANGED <<msgq, tokens>>
    /\ UNCHANGED <<taken, msg_rx, loaded, stored, type, served, history>>

Send ==
    /\ At("reader", "send") /\ Len(msgq) < QueueSize
    /\ msgq' = Append(msgq, loaded) /\ tokens' = Tail(tokens)
    /\ Goto("reader", IF Tail(tokens) = <<>> THEN "read" ELSE "head")
    /\ UNCHANGED <<taken, msg_rx, loaded, stored, type, served, history>>

uart_reader == Flush \/ FlushNothing \/ CopyHead \/ CopyBody \/ Load \/ LoadBody \/ Send

------------------------------------------------------------------------------
(* publisher: msgrcv takes the message, then copies it into msg_rx; serve_reply
   reads the type from there, and only then what follows. *)
Receive ==
    /\ At("publisher", "receive") /\ msgq # <<>>
    /\ stored' = Head(msgq) /\ msgq' = Tail(msgq)
    /\ Goto("publisher", "store")
    /\ UNCHANGED <<taken, tokens, msg_rx, loaded, type, served, history>>

Store ==
    /\ At("publisher", "store") /\ Goto("publisher", "store_body")
    /\ msg_rx' = [msg_rx EXCEPT !.head = stored.head]
    /\ UNCHANGED <<taken, tokens, msgq, loaded, stored, type, served, history>>

StoreBody ==
    /\ At("publisher", "store_body") /\ Goto("publisher", "serve")
    /\ msg_rx' = [msg_rx EXCEPT !.body = stored.body]
    /\ UNCHANGED <<taken, tokens, msgq, loaded, stored, type, served, history>>

Dispatch ==
    /\ At("publisher", "serve") /\ Goto("publisher", "serve_body")
    /\ type' = msg_rx.head
    /\ UNCHANGED <<taken, tokens, msg_rx, msgq, loaded, stored, served, history>>

serve_reply ==
    /\ At("publisher", "serve_body") /\ Goto("publisher", "receive")
    /\ served' = Append(served, [head |-> type, body |-> msg_rx.body])
    /\ UNCHANGED <<taken, tokens, msg_rx, msgq, loaded, stored, type, history>>

publisher == Receive \/ Store \/ StoreBody \/ Dispatch \/ serve_reply

Next == uart_reader \/ publisher
Spec == Init /\ [][Next]_vars

\* Both threads run; msgsnd and msgrcv wake when they can go on.
FairSpec ==
    Spec /\ WF_vars(CopyHead \/ CopyBody \/ Load \/ LoadBody \/ Send) /\ WF_vars(publisher)

------------------------------------------------------------------------------
Whole(n) == [head |-> n, body |-> n]

\* Delivers: as long as no line was cut and none copied into msg_rx before the last
\* one had been served from it, replies are served whole, once and in order, however
\* many a window brings and whatever the queue holds (mqtt.c:1053-1058, 933-939).
Delivers ==
    ~cut /\ ~shared =>
        /\ Len(served) <= LineOf(taken)
        /\ \A k \in DOMAIN served : served[k] = Whole(k)

\* OneForOne: whatever is lost, doubled or torn, serve_reply runs exactly once for
\* each token the reader cut, however small the queue (mqtt.c:933, 1058).
Serving == IF At("publisher", "receive") THEN 0 ELSE 1
Backlog == Len(tokens) + Len(msgq) + Serving
Arrives == tokens = <<>> /\ tokens' # <<>>
OneForOne == [][~Arrives => (Len(served) + Backlog)' = Len(served) + Backlog]_vars

\* HandedOn: no hand-over blocks for good: again and again every token read so far has
\* been served (mqtt.c:933, 1058).
HandedOn == []<>(Backlog = 0)

\* EveryLineServed: "All recognized messages from the LoRa network ... are published"
\* (README.md:6): once the two threads are idle,
\* each line taken was served, unless a window has cut one.
EveryLineServed ==
    Backlog = 0 /\ ~cut => \A n \in 1..LineOf(taken) : \E k \in DOMAIN served : served[k] = Whole(n)
==============================================================================
