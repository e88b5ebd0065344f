------------------------------- MODULE GateUart ------------------------------
(* Who writes to the UART, under which locks, and what comes back (mqtt.c): the four
   threads, mutex_uart and mutex_pending, and the device list, which main, through
   uart_reader, and MQTT clients ask for with one flag between them, list_for_gate.
   dprintf may reach the UART in pieces: a command is its head and its tail, which
   ends it.  The gate behind the UART understands a line that is one command. *)
EXTENDS Integers, Sequences

CONSTANTS
    Devices,     \* bound: devices in the gate's list
    StaticDevs,  \* bound: lines in static-devs.conf
    PoolSize,    \* bound: cells the worker scans
    QueueSize,   \* messages the kernel queue holds
    Ready        \* bound: replies the gate may hold when more are asked for or come

ASSUME BoundsAssumption ==
    /\ Devices \in Nat /\ StaticDevs \in Nat /\ PoolSize \in Nat
    /\ QueueSize \in Nat \ {0} /\ Ready \in Nat

Threads == {"mqtt", "publisher", "worker", "reader"}
Free == "free"
Command == {"FLUSH", "DEVLIST", "KICK_ALL_STATIC", "ADD_STATIC_DEV", "HAS_PENDING",
            "BROADCAST", "IND",  \* CMD_IND or CMD_INVITE
            "SET",               \* any gate setting
            "-"}

(* A reply; for a LIST also who had asked for it, which the program cannot see. *)
Reply == [type : {"LIST"}, asker : {"reader", "mqtt"}] \cup [type : {"NODE"}, asker : {"-"}]
NoReply == [type |-> "-", asker |-> "-"]
NodeReply == [type |-> "NODE", asker |-> "-"]   \* JOIN, KICK, ACK or PENDING_REQ

VARIABLES
    mutex_uart, mutex_pending, \* holder of each, or Free
    pc,             \* where each thread is
    cmd,            \* the command each thread writes, or "-"
    line,           \* what the gate received since the last end of a line
    todo,           \* cells the worker has yet to visit in this scan
    statics,        \* static list commands the reader has yet to send
    devlist_needed, list_for_gate,
    held,           \* replies the gate has ready
    window,         \* replies read and not handed over yet
    msgq,           \* replies in the kernel queue
    reply,          \* the reply the publisher serves
    crossed,        \* history: a gate setting and another command run into each other
    overlapped      \* history: lists asked for at the same time are under way

locks == <<mutex_uart, mutex_pending>>
flow == <<held, window, msgq, reply>>
lists == <<devlist_needed, list_for_gate, overlapped>>
wire == <<line, crossed>>
vars == <<locks, pc, cmd, wire, todo, statics, lists, flow>>

TypeOK ==
    /\ mutex_uart \in Threads \cup {Free} /\ mutex_pending \in Threads \cup {Free}
    /\ pc \in [Threads -> {"idle", "pending", "write", "tail", "done",
                           "read", "hand", "list", "static", "served", "post", "notify"}]
    /\ cmd \in [Threads -> Command]
    /\ line \in Seq(Threads)
    /\ todo \in 0..PoolSize /\ statics \in 0..StaticDevs + 1
    /\ devlist_needed \in BOOLEAN /\ list_for_gate \in BOOLEAN
    /\ held \in Seq(Reply) /\ window \in Seq(Reply)
    /\ msgq \in Seq(Reply) /\ Len(msgq) <= QueueSize
    /\ reply \in Reply \cup {NoReply}
    /\ crossed \in BOOLEAN /\ overlapped \in BOOLEAN

Init ==
    /\ mutex_uart = Free /\ mutex_pending = Free
    /\ pc = [t \in Threads |-> "idle"] /\ cmd = [t \in Threads |-> "-"]
    /\ line = <<>> /\ todo = 0 /\ statics = StaticDevs + 1
    /\ devlist_needed = TRUE /\ list_for_gate = FALSE
    /\ held = <<>> /\ window = <<>> /\ msgq = <<>> /\ reply = NoReply
    /\ crossed = FALSE /\ overlapped = FALSE

At(t, l) == pc[t] = l
Goto(t, l) == pc' = [pc EXCEPT ![t] = l]
Write(t, c, l) == cmd' = [cmd EXCEPT ![t] = c] /\ Goto(t, l)

------------------------------------------------------------------------------
(* Writing a command: mutex_uart is locked, but for a setting, and the head goes out;
   the tail goes out and mutex_uart is unlocked. *)
Setting(t) == cmd[t] = "SET"
HalfWritten(t) == At(t, "tail")
Crosses(t) == \E u \in Threads \ {t} : HalfWritten(u) /\ (crossed \/ Setting(t) \/ Setting(u))

\* Mutant: a broadcast is written like a setting.
StartUnlocked(t) ==
    /\ At(t, "write")
    /\ \/ (Setting(t) \/ cmd[t] = "BROADCAST") /\ UNCHANGED mutex_uart
       \/ mutex_uart = Free /\ mutex_uart' = t
    /\ line' = Append(line, t) /\ crossed' = Crosses(t)
    /\ Goto(t, "tail")
    /\ UNCHANGED <<mutex_pending, cmd, todo, statics, lists, flow>>

Start(t) ==
    /\ At(t, "write")
    /\ IF Setting(t) THEN UNCHANGED mutex_uart ELSE mutex_uart = Free /\ mutex_uart' = t
    /\ line' = Append(line, t) /\ crossed' = Crosses(t)
    /\ Goto(t, "tail")
    /\ UNCHANGED <<mutex_pending, cmd, todo, statics, lists, flow>>

Entries(t) == [k \in 1..Devices |-> [type |-> "LIST", asker |-> t]]

\* Where a thread goes on once its command is written.
Continues(t) ==
    CASE t = "mqtt" -> IF mutex_pending = "mqtt" THEN "done" ELSE "idle"
      [] t = "publisher" -> "idle"
      [] t = "worker" -> "pending"
      [] t = "reader" -> "static"

\* The tail ends the line.  After FLUSH the reader goes on to read with the mutex held.
Finish(t) ==
    /\ At(t, "tail")
    /\ line' = <<>> /\ crossed' = Crosses(t)
    /\ held' = IF cmd[t] = "DEVLIST" /\ line = <<t>> THEN held \o Entries(t) ELSE held
    /\ IF cmd[t] = "FLUSH" THEN Write(t, "-", "read") /\ UNCHANGED mutex_uart
       ELSE /\ Write(t, "-", Continues(t))
            /\ mutex_uart' = IF Setting(t) THEN mutex_uart ELSE Free
    /\ UNCHANGED <<mutex_pending, todo, statics, lists, window, msgq, reply>>

dprintf(t) == Start(t) \/ Finish(t)

------------------------------------------------------------------------------
(* devices_list(internal): the flag is set before the UART is locked. *)
Asked(t) == cmd[t] = "DEVLIST"
Outstanding ==
    \/ \E t \in Threads : Asked(t)
    \/ \E q \in {held, window, msgq, <<reply>>} : \E k \in DOMAIN q : q[k].type = "LIST"

\* Mutant: list_for_gate is only ever set.
devices_list_sticky(t) ==
    /\ list_for_gate' = (list_for_gate \/ t = "reader") /\ overlapped' = Outstanding
    /\ Write(t, "DEVLIST", "write")

devices_list(t) ==
    /\ list_for_gate' = (t = "reader") /\ overlapped' = Outstanding
    /\ Write(t, "DEVLIST", "write")

------------------------------------------------------------------------------
(* my_message_callback *)
Get ==
    /\ At("mqtt", "idle") /\ Len(held) < Ready /\ devices_list("mqtt")
    /\ UNCHANGED <<locks, wire, todo, statics, devlist_needed, flow>>

message_broadcast ==
    /\ At("mqtt", "idle") /\ Write("mqtt", "BROADCAST", "write")
    /\ UNCHANGED <<locks, wire, todo, statics, lists, flow>>

\* A gate setting is written without mutex_uart.
GateSetting ==
    /\ At("mqtt", "idle") /\ Write("mqtt", "SET", "write")
    /\ UNCHANGED <<locks, wire, todo, statics, lists, flow>>

\* message_to_mote: looks the node up or adds it, then queues the message; for a
\* class A node the gate is told before mutex_pending is released.
message_to_mote ==
    /\ At("mqtt", "idle") /\ mutex_pending = Free
    /\ mutex_pending' = "mqtt"
    /\ \/ Write("mqtt", "HAS_PENDING", "write")
       \/ Goto("mqtt", "done") /\ UNCHANGED cmd
    /\ UNCHANGED <<mutex_uart, wire, todo, statics, lists, flow>>

\* Mutant: message_to_mote returns without unlocking mutex_pending.
MoteDoneHeld ==
    /\ At("mqtt", "done")
    /\ Goto("mqtt", "idle")
    /\ UNCHANGED <<locks, cmd, wire, todo, statics, lists, flow>>

MoteDone ==
    /\ At("mqtt", "done")
    /\ mutex_pending' = Free /\ Goto("mqtt", "idle")
    /\ UNCHANGED <<mutex_uart, cmd, wire, todo, statics, lists, flow>>

my_message_callback == Get \/ message_broadcast \/ GateSetting \/ message_to_mote \/ MoteDone

------------------------------------------------------------------------------
(* pending_worker: mutex_pending for a whole scan, mutex_uart for each write in it. *)
WorkerLock ==
    /\ At("worker", "idle") /\ mutex_pending = Free
    /\ mutex_pending' = "worker" /\ todo' = PoolSize /\ Goto("worker", "pending")
    /\ UNCHANGED <<mutex_uart, cmd, wire, statics, lists, flow>>

Visit ==
    /\ At("worker", "pending") /\ todo > 0 /\ todo' = todo - 1
    /\ \/ Write("worker", "IND", "write")
       \/ UNCHANGED <<pc, cmd>>
    /\ UNCHANGED <<locks, wire, statics, lists, flow>>

WorkerUnlock ==
    /\ At("worker", "pending") /\ todo = 0
    /\ mutex_pending' = Free /\ Goto("worker", "idle")
    /\ UNCHANGED <<mutex_uart, cmd, wire, todo, statics, lists, flow>>

pending_worker == WorkerLock \/ Visit \/ WorkerUnlock

------------------------------------------------------------------------------
(* publisher and serve_reply *)
\* serve_reply may return before it takes a lock: the node is unknown.
Receive ==
    /\ At("publisher", "idle") /\ msgq # <<>> /\ msgq' = Tail(msgq)
    /\ \/ reply' = Head(msgq) /\ Goto("publisher", "served")
       \/ UNCHANGED <<reply, pc>>
    /\ UNCHANGED <<locks, cmd, wire, todo, statics, lists, held, window>>

\* The pool is updated under mutex_pending: add_device, kick_device, ACK, PENDING_REQ.
\* serve_reply returns if it is full or memory is.
UpdatePool ==
    /\ At("publisher", "served") /\ mutex_pending = Free
    /\ \/ Goto("publisher", IF reply.type = "LIST" THEN "post" ELSE "notify") /\ UNCHANGED reply
       \/ Goto("publisher", "idle") /\ reply' = NoReply
    /\ UNCHANGED <<locks, cmd, wire, todo, statics, lists, held, window, msgq>>

\* The list entry is published, unless the list was asked for by the gate side.
Served == At("publisher", "post") /\ reply' = NoReply /\ Goto("publisher", "idle")

Post ==
    /\ Served /\ ~list_for_gate
    /\ UNCHANGED <<locks, cmd, wire, todo, statics, lists, held, window, msgq>>

Withhold ==
    /\ Served /\ list_for_gate
    /\ UNCHANGED <<locks, cmd, wire, todo, statics, lists, held, window, msgq>>

\* After the JOIN of a node with messages waiting the gate is told, mutex_pending released.
Notify ==
    /\ At("publisher", "notify") /\ reply' = NoReply
    /\ \/ Write("publisher", "HAS_PENDING", "write")
       \/ Goto("publisher", "idle") /\ UNCHANGED cmd
    /\ UNCHANGED <<locks, wire, todo, statics, lists, held, window, msgq>>

publisher == Receive \/ UpdatePool \/ Post \/ Withhold \/ Notify

------------------------------------------------------------------------------
(* uart_reader *)
Flush ==
    /\ At("reader", "idle") /\ Write("reader", "FLUSH", "write")
    /\ UNCHANGED <<locks, wire, todo, statics, lists, flow>>

\* All the gate holds, or nothing if it did not understand.
Read ==
    /\ At("reader", "read") /\ mutex_uart' = Free /\ Goto("reader", "hand")
    /\ \/ window' = held /\ held' = <<>>
       \/ UNCHANGED <<window, held>>
    /\ UNCHANGED <<mutex_pending, cmd, wire, todo, statics, lists, msgq, reply>>

\* Mutant: the queue is taken to have room for everything.
HandUnbounded ==
    /\ At("reader", "hand") /\ window # <<>>
    /\ msgq' = Append(msgq, Head(window)) /\ window' = Tail(window)
    /\ UNCHANGED <<locks, pc, cmd, wire, todo, statics, lists, held, reply>>

Hand ==
    /\ At("reader", "hand") /\ window # <<>> /\ Len(msgq) < QueueSize
    /\ msgq' = Append(msgq, Head(window)) /\ window' = Tail(window)
    /\ UNCHANGED <<locks, pc, cmd, wire, todo, statics, lists, held, reply>>

HandedOver ==
    /\ At("reader", "hand") /\ window = <<>>
    /\ Goto("reader", IF devlist_needed THEN "list" ELSE "static")
    /\ UNCHANGED <<locks, cmd, wire, todo, statics, lists, flow>>

DevlistForGate ==
    /\ At("reader", "list")
    /\ devlist_needed' = FALSE /\ devices_list("reader")
    /\ UNCHANGED <<locks, wire, todo, statics, flow>>

\* First CMD_KICK_ALL_STATIC, then the devices; without the file, none.
send_static_devices_list ==
    /\ At("reader", "static")
    /\ \/ /\ statics > 0 /\ statics' = statics - 1
          /\ Write("reader", IF statics > StaticDevs THEN "KICK_ALL_STATIC" ELSE "ADD_STATIC_DEV",
                   "write")
       \/ /\ statics <= StaticDevs /\ statics' = 0
          /\ Goto("reader", "idle") /\ UNCHANGED cmd
    /\ UNCHANGED <<locks, wire, todo, lists, flow>>

uart_reader == Flush \/ Read \/ Hand \/ HandedOver \/ DevlistForGate \/ send_static_devices_list

------------------------------------------------------------------------------
\* The gate: a mote has been heard.
GateSays ==
    /\ Len(held) < Ready
    /\ held' = Append(held, NodeReply)
    /\ UNCHANGED <<locks, pc, cmd, wire, todo, statics, lists, window, msgq, reply>>

Step(t) ==
    \/ dprintf(t)
    \/ t = "mqtt" /\ my_message_callback
    \/ t = "publisher" /\ publisher
    \/ t = "worker" /\ pending_worker
    \/ t = "reader" /\ uart_reader

Next == (\E t \in Threads : Step(t)) \/ GateSays
Spec == Init /\ [][Next]_vars

------------------------------------------------------------------------------
\* WholeCommands: apart from gate settings (mqtt.c:1268-1270), no two commands are
\* ever half written at once, and the gate has received exactly the head of the one
\* that is: four threads write at ten places, all but one of them locked.
WholeCommands == ~crossed =>
    \/ line = <<>> /\ \A t \in Threads : ~HalfWritten(t)
    \/ \E t \in Threads :
          line = <<t>> /\ HalfWritten(t) /\ \A u \in Threads \ {t} : ~HalfWritten(u)

\* ListsToAsker: if no list is asked for while another is under way, an entry is
\* published exactly when an MQTT client had asked for it (mqtt.c:440-442,
\* 1089), though the flag is read long after, behind the UART and the queue.
ListsToAsker ==
    [][~overlapped => (Post => reply.asker = "mqtt") /\ (Withhold => reply.asker = "reader")]_vars

------------------------------------------------------------------------------
(* Fairness.  A mutex that is released again and again is had by a thread that keeps
   waiting for it: the reader sleeps 100 ms (mqtt.c:1067) without mutex_uart, the
   worker 5 ms (mqtt.c:922) without mutex_pending.  MQTT commands and the gate's
   replies come or not. *)
FairSpec ==
    /\ Spec
    /\ SF_vars(dprintf("mqtt") \/ MoteDone)
    /\ SF_vars(dprintf("publisher") \/ publisher)
    /\ SF_vars(dprintf("worker") \/ pending_worker)
    /\ SF_vars(dprintf("reader") \/ uart_reader)

\* AllReturn: every operation of every thread comes to its end and the worker scans
\* again and again: no lock order, no full queue and no lock kept on some path blocks
\* one for good.
AllReturn == (\A t \in Threads : []<>At(t, "idle")) /\ []<>At("worker", "pending")
==============================================================================
