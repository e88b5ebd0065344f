---------------------------- MODULE GateUartProofs ---------------------------
(* WholeCommands for every list, pool and queue size. *)
EXTENDS GateUart, TLAPS

InUart(t) == pc[t] \in {"tail", "read"}
Locked(t) == pc[t] = "read" \/ (pc[t] = "tail" /\ ~Setting(t))

(* Who is inside a command or reads has mutex_uart, but for a setting; the gate has
   half a line only from a thread that is half way through a command. *)
UartInv ==
    /\ DOMAIN pc = Threads /\ DOMAIN cmd = Threads
    /\ \A t \in Threads : Locked(t) => mutex_uart = t
    /\ (\A t \in Threads : ~HalfWritten(t)) => line = <<>>
    /\ WholeCommands

(* What a thread does outside the UART, alone or not at all. *)
Outside(t) ==
    /\ UNCHANGED <<mutex_uart, line, crossed>>
    /\ ~InUart(t) /\ ~InUart(t)'
    /\ DOMAIN pc' = Threads /\ DOMAIN cmd' = Threads
    /\ \A u \in Threads \ {t} : pc'[u] = pc[u] /\ cmd'[u] = cmd[u]

LEMMA OutsideKeeps == ASSUME UartInv, NEW t \in Threads, Outside(t) PROVE UartInv'
<1>1. \A u \in Threads : (InUart(u)' <=> InUart(u)) /\ (HalfWritten(u)' <=> HalfWritten(u))
    BY DEF Outside, InUart, HalfWritten, At
<1>2. \A u \in Threads : Locked(u)' => Locked(u)
    BY DEF Outside, InUart, Locked, Setting
<1>3. WholeCommands'
    BY <1>1 DEF UartInv, WholeCommands, Outside
<1> QED
    BY <1>1, <1>2, <1>3 DEF UartInv, Outside

LEMMA InitUart == Init => UartInv
BY DEF Init, UartInv, WholeCommands, HalfWritten, Locked, At, Threads

LEMMA StartKeeps == ASSUME UartInv, NEW t \in Threads, Start(t) PROVE UartInv'
<1>1. /\ pc' = [pc EXCEPT ![t] = "tail"] /\ cmd' = cmd /\ pc[t] = "write"
      /\ \A u \in Threads : Setting(u)' = Setting(u)
    BY DEF Start, Goto, At, Setting
<1>2. /\ HalfWritten(t)' /\ ~HalfWritten(t)
      /\ \A u \in Threads \ {t} : HalfWritten(u)' = HalfWritten(u) /\ Locked(u)' = Locked(u)
    BY <1>1 DEF UartInv, HalfWritten, Locked, At
<1>3. \A u \in Threads : Locked(u)' => mutex_uart' = u
  <2>1. CASE Setting(t)
      BY <1>1, <1>2, <2>1 DEF UartInv, Start, Locked, HalfWritten, At
  <2>2. CASE ~Setting(t)
    <3>1. mutex_uart = Free /\ mutex_uart' = t
        BY <2>2 DEF Start
    <3> QED
        BY <1>1, <1>2, <3>1 DEF UartInv, Locked, Free, Threads
  <2> QED
      BY <2>1, <2>2
<1>4. WholeCommands'
  <2>1. CASE \E u \in Threads \ {t} : HalfWritten(u)
    <3>1. PICK u \in Threads \ {t} : HalfWritten(u)
        BY <2>1
    <3>2. Setting(t) \/ Setting(u)
      <4>1. ~Setting(u) => mutex_uart = u
          BY <3>1 DEF UartInv, Locked, HalfWritten, At
      <4>2. ~Setting(t) => mutex_uart = Free
          BY DEF Start
      <4> QED
          BY <4>1, <4>2 DEF Free, Threads
    <3>3. crossed'
        BY <3>1, <3>2 DEF Start, Crosses
    <3> QED
        BY <3>3 DEF WholeCommands
  <2>2. CASE \A u \in Threads \ {t} : ~HalfWritten(u)
    <3>1. line' = <<t>>
      <4>1. line = <<>>
          BY <1>2, <2>2 DEF UartInv
      <4>2. line' = Append(line, t)
          BY DEF Start
      <4> QED
          BY <4>1, <4>2
    <3> QED
        BY <1>2, <2>2, <3>1 DEF WholeCommands
  <2> QED
      BY <2>1, <2>2
<1> QED
    BY <1>1, <1>2, <1>3, <1>4 DEF UartInv

LEMMA FinishKeeps == ASSUME UartInv, NEW t \in Threads, Finish(t) PROVE UartInv'
<1>1. PICK l \in {"read", "done", "idle", "pending", "static"} :
          /\ pc' = [pc EXCEPT ![t] = l] /\ cmd' = [cmd EXCEPT ![t] = "-"]
          /\ l = "read" => mutex_uart' = mutex_uart /\ cmd[t] = "FLUSH"
          /\ l # "read" => mutex_uart' = IF Setting(t) THEN mutex_uart ELSE Free
    BY DEF Finish, Write, Goto, Continues, Threads
<1>2. HalfWritten(t) /\ ~HalfWritten(t)'
    BY <1>1 DEF Finish, HalfWritten, At, UartInv
<1>3. \A u \in Threads \ {t} : /\ HalfWritten(u)' = HalfWritten(u) /\ Locked(u)' = Locked(u)
    BY <1>1 DEF UartInv, HalfWritten, Locked, At, Setting
<1>4. ~Setting(t) => mutex_uart = t
    BY <1>2 DEF UartInv, Locked, HalfWritten, At
<1>5. ASSUME NEW u \in Threads, Locked(u)' PROVE mutex_uart' = u
  <2>1. CASE u = t
    <3>1. l = "read" /\ ~Setting(t)
        BY <1>1, <1>5, <2>1 DEF Locked, UartInv, Setting
    <3> QED
        BY <1>1, <1>4, <2>1, <3>1
  <2>2. CASE u # t
    <3>1. mutex_uart = u
        BY <1>3, <1>5, <2>2 DEF UartInv
    <3>2. Setting(t)
        BY <1>4, <2>2, <3>1
    <3> QED
        BY <1>1, <3>1, <3>2
  <2> QED
      BY <2>1, <2>2
<1>6. WholeCommands'
  <2>1. CASE crossed \/ \E u \in Threads \ {t} : HalfWritten(u) /\ (Setting(t) \/ Setting(u))
    <3>1. CASE \E u \in Threads \ {t} : HalfWritten(u)
        BY <2>1, <3>1 DEF Finish, Crosses, WholeCommands
    <3>2. CASE \A u \in Threads \ {t} : ~HalfWritten(u)
        BY <1>2, <1>3, <3>2 DEF Finish, WholeCommands
    <3> QED
        BY <3>1, <3>2
  <2>2. CASE ~crossed
    <3>1. \A u \in Threads \ {t} : ~HalfWritten(u)
        BY <1>2, <2>2 DEF UartInv, WholeCommands
    <3> QED
        BY <1>2, <1>3, <3>1 DEF Finish, WholeCommands
  <2> QED
      BY <2>1, <2>2
<1> QED
    BY <1>1, <1>5, <1>6 DEF UartInv, Finish

LEMMA NextUart == UartInv /\ [Next]_vars => UartInv'
<1> SUFFICES ASSUME UartInv, [Next]_vars PROVE UartInv'
    OBVIOUS
<1> USE DEF At, InUart, Outside, Threads
<1>1. ASSUME NEW t \in Threads, dprintf(t) PROVE UartInv'
    BY <1>1, StartKeeps, FinishKeeps DEF dprintf
<1>2. CASE my_message_callback
  <2>1. Outside("mqtt")
      BY <1>2 DEF UartInv, my_message_callback, Get, devices_list, message_broadcast, GateSetting,
                  message_to_mote, MoteDone, Write, Goto, wire, locks
  <2> QED
      BY <2>1, OutsideKeeps
<1>3. CASE publisher
  <2>1. Outside("publisher")
      BY <1>3 DEF UartInv, publisher, Receive, UpdatePool, Served, Post, Withhold, Notify, Write, Goto,
                  wire, locks
  <2> QED
      BY <2>1, OutsideKeeps
<1>4. CASE pending_worker
  <2>1. Outside("worker")
      BY <1>4 DEF UartInv, pending_worker, WorkerLock, Visit, WorkerUnlock, Write, Goto, wire, locks
  <2> QED
      BY <2>1, OutsideKeeps
<1>5. CASE Read
  <2>1. /\ pc' = [pc EXCEPT !["reader"] = "hand"] /\ cmd' = cmd /\ pc["reader"] = "read"
        /\ line' = line /\ crossed' = crossed
      BY <1>5 DEF Read, Goto, wire
  <2>2. \A u \in Threads : HalfWritten(u)' = HalfWritten(u) /\ Setting(u)' = Setting(u)
      BY <2>1 DEF UartInv, HalfWritten, Setting
  <2>3. mutex_uart = "reader"
      BY <2>1 DEF UartInv, Locked
  <2>4. \A u \in Threads : ~Locked(u)'
    <3>1. \A u \in Threads \ {"reader"} : ~Locked(u)
        BY <2>3 DEF UartInv
    <3> QED
        BY <2>1, <2>2, <3>1 DEF UartInv, Locked
  <2> QED
      BY <2>1, <2>2, <2>4 DEF UartInv, WholeCommands
<1>6. CASE Flush \/ Hand \/ HandedOver \/ DevlistForGate \/ send_static_devices_list
  <2>1. Outside("reader")
      BY <1>6 DEF UartInv, Flush, Hand, HandedOver, DevlistForGate, devices_list,
                  send_static_devices_list, Write, Goto, wire, locks
  <2> QED
      BY <2>1, OutsideKeeps
<1>7. CASE GateSays \/ UNCHANGED vars
  <2>1. UNCHANGED <<mutex_uart, pc, cmd, line, crossed>>
      BY <1>7 DEF GateSays, vars, wire, locks
  <2> QED
      BY <2>1 DEF UartInv, WholeCommands, HalfWritten, Locked, Setting
<1> QED
    BY <1>1, <1>2, <1>3, <1>4, <1>5, <1>6, <1>7 DEF Next, Step, uart_reader

\* No two commands are ever half written at once, gate settings apart, whatever the
\* four threads do between their writes (mqtt.c:610-613, 771-773, 905-907, 965-967,
\* 989-991, 1018-1028, 1091-1093, 1161-1163, 1174-1176).
THEOREM CommandsWhole == Spec => []WholeCommands
<1>1. UartInv => WholeCommands
    BY DEF UartInv
<1> QED
    BY InitUart, NextUart, <1>1, PTL DEF Spec

------------------------------------------------------------------------------
(* TypeOK: a list is asked for by the two threads that can be told of it. *)
TypeInv == TypeOK /\ \A t \in Threads : Asked(t) => t \in {"reader", "mqtt"}

Labels == {"idle", "pending", "write", "tail", "done", "read", "hand", "list", "static",
           "served", "post", "notify"}

LEMMA InitTyped == Init => TypeInv
<1> SUFFICES ASSUME Init PROVE TypeInv
    OBVIOUS
<1>1. /\ line \in Seq(Threads) /\ held \in Seq(Reply) /\ window \in Seq(Reply)
      /\ msgq \in Seq(Reply) /\ Len(msgq) <= QueueSize
    BY BoundsAssumption DEF Init
<1>2. /\ todo \in 0..PoolSize /\ statics \in 0..StaticDevs + 1
      /\ reply = NoReply /\ mutex_uart = Free /\ mutex_pending = Free
    BY BoundsAssumption DEF Init
<1>3. pc \in [Threads -> Labels] /\ cmd \in [Threads -> Command] /\ \A t \in Threads : cmd[t] = "-"
    BY DEF Init, Labels, Command
<1>4. /\ devlist_needed \in BOOLEAN /\ list_for_gate \in BOOLEAN
      /\ crossed \in BOOLEAN /\ overlapped \in BOOLEAN
    BY DEF Init
<1> QED
    BY <1>1, <1>2, <1>3, <1>4 DEF TypeInv, TypeOK, Labels, Asked

(* A step of a thread: where it goes and what it writes next. *)
LEMMA Goes ==
    ASSUME TypeInv, NEW t \in Threads, NEW l \in Labels, Goto(t, l), UNCHANGED cmd
    PROVE  /\ pc' \in [Threads -> Labels] /\ pc'[t] = l /\ \A u \in Threads \ {t} : pc'[u] = pc[u]
           /\ cmd' \in [Threads -> Command] /\ \A u \in Threads : Asked(u)' => u \in {"reader", "mqtt"}
BY DEF TypeInv, TypeOK, Goto, Labels, Asked

LEMMA Writes ==
    ASSUME TypeInv, NEW t \in Threads, NEW l \in Labels, NEW c \in Command, Write(t, c, l),
           c = "DEVLIST" => t \in {"reader", "mqtt"}
    PROVE  /\ pc' \in [Threads -> Labels] /\ pc'[t] = l /\ \A u \in Threads \ {t} : pc'[u] = pc[u]
           /\ cmd' \in [Threads -> Command] /\ cmd'[t] = c /\ \A u \in Threads \ {t} : cmd'[u] = cmd[u]
           /\ \A u \in Threads : Asked(u)' => u \in {"reader", "mqtt"}
BY DEF TypeInv, TypeOK, Write, Goto, Labels, Asked

(* The variables of TypeOK but pc and cmd, and these two. *)
DataOK ==
    /\ mutex_uart \in Threads \cup {Free} /\ mutex_pending \in Threads \cup {Free}
    /\ line \in Seq(Threads)
    /\ todo \in 0..PoolSize /\ statics \in 0..StaticDevs + 1
    /\ devlist_needed \in BOOLEAN /\ list_for_gate \in BOOLEAN
    /\ held \in Seq(Reply) /\ window \in Seq(Reply)
    /\ msgq \in Seq(Reply) /\ Len(msgq) <= QueueSize
    /\ reply \in Reply \cup {NoReply}
    /\ crossed \in BOOLEAN /\ overlapped \in BOOLEAN
ThreadsOK ==
    /\ pc \in [Threads -> Labels] /\ cmd \in [Threads -> Command]
    /\ \A t \in Threads : Asked(t) => t \in {"reader", "mqtt"}

LEMMA Typed == TypeInv <=> DataOK /\ ThreadsOK
BY DEF TypeInv, TypeOK, DataOK, ThreadsOK, Labels

LEMMA NextTyped == TypeInv /\ [Next]_vars => TypeInv'
<1> SUFFICES ASSUME TypeInv, [Next]_vars PROVE TypeInv'
    OBVIOUS
<1> USE DEF At, Threads, Labels, Command, locks, flow, lists, wire
<1>a. DataOK /\ ThreadsOK /\ TypeInv
    BY Typed
<1>b. /\ \A t \in Threads : Outstanding \in BOOLEAN /\ Crosses(t) \in BOOLEAN
      /\ \A q \in Seq(Reply) : q # <<>> => Head(q) \in Reply /\ Tail(q) \in Seq(Reply)
      /\ NodeReply \in Reply
    BY DEF Outstanding, Crosses, Reply, NodeReply
<1>1. ASSUME NEW t \in Threads, Start(t) PROVE DataOK' /\ ThreadsOK'
  <2>1. ThreadsOK'
      BY <1>1, <1>a, Goes DEF Start, ThreadsOK
  <2>2. line' \in Seq(Threads)
      BY <1>1, <1>a DEF Start, DataOK
  <2>3. crossed' \in BOOLEAN
      BY <1>1, <1>b DEF Start
  <2>4. mutex_uart' \in Threads \cup {Free}
      BY <1>1, <1>a DEF Start, DataOK
  <2> QED
      BY <1>1, <1>a, <2>1, <2>2, <2>3, <2>4 DEF Start, DataOK
<1>2. ASSUME NEW t \in Threads, Finish(t) PROVE DataOK' /\ ThreadsOK'
  <2>1. PICK l \in Labels : Write(t, "-", l)
      BY <1>2 DEF Finish, Continues
  <2>2. ThreadsOK'
      BY <1>a, <2>1 DEF ThreadsOK, Write, Goto, Asked
  <2>3. held' \in Seq(Reply)
    <3>1. CASE Asked(t)
      <4>1. \A k \in 1..Devices : [type |-> "LIST", asker |-> t] \in Reply
          BY <1>a, <3>1 DEF ThreadsOK, Reply
      <4>2. Entries(t) \in Seq(Reply)
          BY <4>1, BoundsAssumption DEF Entries
      <4> QED
          BY <1>2, <1>a, <4>2 DEF Finish, DataOK
    <3>2. CASE ~Asked(t)
        BY <1>2, <1>a, <3>2 DEF Finish, DataOK, Asked
    <3> QED
        BY <3>1, <3>2
  <2>4. crossed' \in BOOLEAN
      BY <1>2, <1>b DEF Finish
  <2>5. mutex_uart' \in Threads \cup {Free} /\ line' \in Seq(Threads)
      BY <1>2, <1>a DEF Finish, DataOK
  <2> QED
      BY <1>2, <1>a, <2>2, <2>3, <2>4, <2>5 DEF Finish, DataOK
<1>3. ASSUME my_message_callback PROVE DataOK' /\ ThreadsOK'
  <2>1. CASE Get
    <3>1. overlapped' \in BOOLEAN
        BY <1>b, <2>1 DEF Get, devices_list
    <3>2. list_for_gate' \in BOOLEAN
        BY <2>1 DEF Get, devices_list
    <3> QED
        BY <1>a, <2>1, <3>1, <3>2, Writes DEF Get, devices_list, DataOK, ThreadsOK
  <2>2. CASE message_broadcast
      BY <1>a, <2>2, Writes DEF message_broadcast, DataOK, ThreadsOK
  <2>5. CASE GateSetting
      BY <1>a, <2>5, Writes DEF GateSetting, DataOK, ThreadsOK
  <2>3. CASE message_to_mote
      BY <1>a, <2>3, Writes, Goes DEF message_to_mote, DataOK, ThreadsOK
  <2>4. CASE MoteDone
      BY <1>a, <2>4, Goes DEF MoteDone, DataOK, ThreadsOK
  <2> QED
      BY <1>3, <2>1, <2>2, <2>3, <2>4, <2>5 DEF my_message_callback
<1>4. ASSUME pending_worker PROVE DataOK' /\ ThreadsOK'
  <2>1. CASE WorkerLock
      BY <1>a, <2>1, Goes, BoundsAssumption DEF WorkerLock, DataOK, ThreadsOK
  <2>2. CASE Visit
    <3>1. todo' \in 0..PoolSize
        BY <1>a, <2>2, BoundsAssumption DEF Visit, DataOK
    <3>2. ThreadsOK'
        BY <1>a, <2>2, Writes DEF Visit, ThreadsOK, Asked
    <3> QED
        BY <1>a, <2>2, <3>1, <3>2 DEF Visit, DataOK
  <2>3. CASE WorkerUnlock
      BY <1>a, <2>3, Goes DEF WorkerUnlock, DataOK, ThreadsOK
  <2> QED
      BY <1>4, <2>1, <2>2, <2>3 DEF pending_worker
<1>5. ASSUME publisher PROVE DataOK' /\ ThreadsOK'
  <2>1. CASE Receive
    <3>1. ThreadsOK'
        BY <1>a, <2>1, Goes DEF Receive, ThreadsOK, Asked
    <3>2. msgq' \in Seq(Reply) /\ Len(msgq') <= QueueSize /\ reply' \in Reply \cup {NoReply}
        BY <1>a, <1>b, <2>1, BoundsAssumption DEF Receive, DataOK
    <3> QED
        BY <1>a, <2>1, <3>1, <3>2 DEF Receive, DataOK
  <2>2. CASE UpdatePool
      BY <1>a, <2>2, Goes DEF UpdatePool, DataOK, ThreadsOK
  <2>3. CASE Served /\ UNCHANGED <<locks, cmd, wire, todo, statics, lists, held, window, msgq>>
      BY <1>a, <2>3, Goes DEF Served, DataOK, ThreadsOK
  <2>4. CASE Notify
      BY <1>a, <2>4, Goes, Writes DEF Notify, DataOK, ThreadsOK
  <2> QED
      BY <1>5, <2>1, <2>2, <2>3, <2>4 DEF publisher, Post, Withhold
<1>6. ASSUME uart_reader PROVE DataOK' /\ ThreadsOK'
  <2>1. CASE Flush
      BY <1>a, <2>1, Writes DEF Flush, DataOK, ThreadsOK
  <2>2. CASE Read
    <3>1. held' \in Seq(Reply) /\ window' \in Seq(Reply)
      <4>1. <<>> \in Seq(Reply)
          OBVIOUS
      <4> QED
          BY <1>a, <2>2, <4>1 DEF Read, DataOK
    <3> QED
        BY <1>a, <2>2, <3>1, Goes DEF Read, DataOK, ThreadsOK
  <2>3. CASE Hand
    <3>1. window' \in Seq(Reply) /\ msgq' \in Seq(Reply) /\ Len(msgq') <= QueueSize
        BY <1>a, <1>b, <2>3, BoundsAssumption DEF Hand, DataOK
    <3> QED
        BY <1>a, <2>3, <3>1 DEF Hand, DataOK, ThreadsOK, Asked
  <2>4. CASE HandedOver
      BY <1>a, <2>4, Goes DEF HandedOver, DataOK, ThreadsOK
  <2>5. CASE DevlistForGate
    <3>1. overlapped' \in BOOLEAN
        BY <1>b, <2>5 DEF DevlistForGate, devices_list
    <3>2. list_for_gate' \in BOOLEAN /\ devlist_needed' \in BOOLEAN
        BY <2>5 DEF DevlistForGate, devices_list
    <3> QED
        BY <1>a, <2>5, <3>1, <3>2, Writes DEF DevlistForGate, devices_list, DataOK, ThreadsOK
  <2>6. CASE send_static_devices_list
    <3>1. statics' \in 0..StaticDevs + 1
        BY <1>a, <2>6, BoundsAssumption DEF send_static_devices_list, DataOK
    <3>2. ThreadsOK'
        BY <1>a, <2>6, Goes, Writes DEF send_static_devices_list, ThreadsOK
    <3> QED
        BY <1>a, <2>6, <3>1, <3>2 DEF send_static_devices_list, DataOK
  <2> QED
      BY <1>6, <2>1, <2>2, <2>3, <2>4, <2>5, <2>6 DEF uart_reader
<1>7. ASSUME GateSays PROVE DataOK' /\ ThreadsOK'
  <2>1. held' \in Seq(Reply)
      BY <1>a, <1>b, <1>7 DEF GateSays, DataOK
  <2> QED
      BY <1>a, <1>7, <2>1 DEF GateSays, DataOK, ThreadsOK, Asked
<1>8. ASSUME UNCHANGED vars PROVE DataOK' /\ ThreadsOK'
    BY <1>a, <1>8 DEF vars, DataOK, ThreadsOK, Asked
<1>9. DataOK' /\ ThreadsOK'
    BY <1>1, <1>2, <1>3, <1>4, <1>5, <1>6, <1>7, <1>8 DEF Next, Step, dprintf
<1> QED
    BY <1>9 DEF TypeInv, TypeOK, DataOK, ThreadsOK

\* Whatever the list, the pool, the static devices and the queue: no more replies in
\* the queue than the kernel holds, the worker scans no cell beyond the pool, no more
\* static list commands than the file has lines, and only MQTT and the reader ask for
\* a list (mqtt.c:440-442, 840, 933, 1058, 1069-1093).
THEOREM TypeCorrect == Spec => []TypeOK
<1>1. TypeInv => TypeOK
    BY DEF TypeInv
<1> QED
    BY InitTyped, NextTyped, <1>1, PTL DEF Spec

------------------------------------------------------------------------------
(* ListsToAsker: the entries under way, wherever they are, and the flag agree. *)
Right(r, forGate) == r.type = "LIST" => ((r.asker = "reader") <=> forGate)
AllRight(q, forGate) == \A k \in DOMAIN q : Right(q[k], forGate)
AskersInv ==
    /\ pc["publisher"] = "post" => reply.type = "LIST"
    /\ ~overlapped =>
           /\ \A t \in Threads : Asked(t) => ((t = "reader") <=> list_for_gate)
           /\ \A q \in {held, window, msgq} : AllRight(q, list_for_gate)
           /\ Right(reply, list_for_gate)

LEMMA RightQueues ==
    ASSUME NEW q \in Seq(Reply), NEW forGate, AllRight(q, forGate)
    PROVE  /\ q # <<>> => Right(Head(q), forGate) /\ AllRight(Tail(q), forGate)
           /\ \A r \in Reply : Right(r, forGate) => AllRight(Append(q, r), forGate)
           /\ \A p \in Seq(Reply) : AllRight(p, forGate) => AllRight(q \o p, forGate)
<1>1. q # <<>> => Right(Head(q), forGate) /\ AllRight(Tail(q), forGate)
  <2> SUFFICES ASSUME q # <<>> PROVE Right(Head(q), forGate) /\ AllRight(Tail(q), forGate)
      OBVIOUS
  <2>1. Head(q) = q[1] /\ 1 \in DOMAIN q
      OBVIOUS
  <2>2. \A k \in DOMAIN Tail(q) : k + 1 \in DOMAIN q /\ Tail(q)[k] = q[k + 1]
      OBVIOUS
  <2> QED
      BY <2>1, <2>2 DEF AllRight
<1>2. ASSUME NEW r \in Reply, Right(r, forGate) PROVE AllRight(Append(q, r), forGate)
  <2>1. \A k \in DOMAIN Append(q, r) :
            \/ k \in DOMAIN q /\ Append(q, r)[k] = q[k]
            \/ Append(q, r)[k] = r
      OBVIOUS
  <2> QED
      BY <1>2, <2>1 DEF AllRight
<1>3. ASSUME NEW p \in Seq(Reply), AllRight(p, forGate) PROVE AllRight(q \o p, forGate)
  <2>1. \A k \in DOMAIN (q \o p) :
            \/ k \in DOMAIN q /\ (q \o p)[k] = q[k]
            \/ k - Len(q) \in DOMAIN p /\ (q \o p)[k] = p[k - Len(q)]
      OBVIOUS
  <2> QED
      BY <1>3, <2>1 DEF AllRight
<1> QED
    BY <1>1, <1>2, <1>3

(* A list is asked for while none is under way. *)
LEMMA AskedAlone ==
    ASSUME TypeInv, AskersInv, NEW t \in {"reader", "mqtt"}, devices_list(t),
           UNCHANGED <<held, window, msgq, reply>>
    PROVE  AskersInv'
<1>1. /\ \A u \in Threads \ {t} : cmd'[u] = cmd[u]
      /\ pc'["publisher"] = pc["publisher"] /\ list_for_gate' = (t = "reader")
    BY Writes DEF devices_list, Threads, Labels, Command, Write, Goto, TypeInv, TypeOK
<1>2. ASSUME ~overlapped' PROVE ~Outstanding
    BY <1>2 DEF devices_list
<1>3. ASSUME ~overlapped'
      PROVE  /\ \A u \in Threads : ~Asked(u)
             /\ \A q \in {held, window, msgq} : \A k \in DOMAIN q : q[k].type # "LIST"
             /\ reply.type # "LIST"
  <2>1. \A k \in DOMAIN <<reply>> : <<reply>>[k].type # "LIST"
      BY <1>2, <1>3 DEF Outstanding
  <2> QED
      BY <1>2, <1>3, <2>1 DEF Outstanding
<1>4. ASSUME ~overlapped', NEW u \in Threads, Asked(u)' PROVE u = t
    BY <1>1, <1>3, <1>4 DEF Asked
<1> QED
    BY <1>1, <1>3, <1>4 DEF AskersInv, AllRight, Right

LEMMA InitAskers == Init => AskersInv
BY DEF Init, AskersInv, AllRight, Right, Asked, NoReply, Threads

LEMMA NextAskers == TypeInv /\ AskersInv /\ [Next]_vars => AskersInv'
<1> SUFFICES ASSUME TypeInv, AskersInv, [Next]_vars PROVE AskersInv'
    OBVIOUS
<1>t. /\ held \in Seq(Reply) /\ window \in Seq(Reply) /\ msgq \in Seq(Reply)
      /\ DOMAIN pc = Threads /\ DOMAIN cmd = Threads
    BY DEF TypeInv, TypeOK
<1>k. ASSUME UNCHANGED <<held, window, msgq, lists>>,
             \A u \in Threads : Asked(u)' => Asked(u),
             pc'["publisher"] = "post" => reply'.type = "LIST",
             reply' \in {reply, NoReply}
      PROVE  AskersInv'
    BY <1>k DEF AskersInv, lists, Right, NoReply, Asked
<1>1. ASSUME NEW t \in Threads, Start(t) PROVE AskersInv'
    BY <1>1, <1>k, <1>t DEF Start, Asked, Goto, AskersInv, flow
<1>2. ASSUME NEW t \in Threads, Finish(t) PROVE AskersInv'
  <2>1. /\ UNCHANGED <<window, msgq, reply, lists>>
        /\ \A u \in Threads : Asked(u)' => Asked(u)
        /\ pc'["publisher"] = "post" => pc["publisher"] = "post"
      BY <1>2, <1>t DEF Finish, Write, Goto, Continues, Asked, Threads, lists
  <2>2. ~overlapped => AllRight(held', list_for_gate)
    <3> SUFFICES ASSUME ~overlapped PROVE AllRight(held', list_for_gate)
        OBVIOUS
    <3>1. CASE Asked(t)
      <4>1. (t = "reader") <=> list_for_gate
          BY <3>1 DEF AskersInv
      <4>2. t \in {"reader", "mqtt"}
          BY <3>1 DEF TypeInv
      <4>3. Entries(t) \in Seq(Reply) /\ AllRight(Entries(t), list_for_gate)
          BY <4>1, <4>2, BoundsAssumption DEF Entries, Reply, AllRight, Right
      <4> QED
          BY <1>2, <1>t, <4>3, RightQueues DEF Finish, AskersInv
    <3>2. CASE ~Asked(t)
        BY <1>2, <3>2 DEF Finish, Asked, AskersInv
    <3> QED
        BY <3>1, <3>2
  <2> QED
      BY <2>1, <2>2 DEF AskersInv, lists, Asked
<1>3. CASE my_message_callback
  <2>1. CASE Get
      BY <2>1, AskedAlone DEF Get, flow
  <2>2. CASE message_broadcast \/ GateSetting \/ message_to_mote \/ MoteDone
      BY <1>k, <1>t, <2>2
      DEF message_broadcast, GateSetting, message_to_mote, MoteDone, Write, Goto, Asked, flow,
          AskersInv, Threads
  <2> QED
      BY <1>3, <2>1, <2>2 DEF my_message_callback
<1>4. CASE pending_worker
    BY <1>4, <1>k, <1>t
    DEF pending_worker, WorkerLock, Visit, WorkerUnlock, Write, Goto, Asked, flow, AskersInv, Threads
<1>5. CASE publisher
  <2>1. CASE Receive
    <3>1. /\ UNCHANGED <<held, window, cmd, lists>> /\ msgq # <<>> /\ msgq' = Tail(msgq)
          /\ reply' = Head(msgq) \/ reply' = reply
          /\ pc'["publisher"] # "post"
        BY <1>t, <2>1 DEF Receive, Goto, At, Threads
    <3>2. ~overlapped => AllRight(msgq', list_for_gate) /\ Right(reply', list_for_gate)
        BY <1>t, <3>1, RightQueues DEF AskersInv
    <3> QED
        BY <3>1, <3>2 DEF AskersInv, lists, Asked
  <2>2. CASE UpdatePool
      BY <1>k, <1>t, <2>2 DEF UpdatePool, Goto, Asked, AskersInv, Threads
  <2>3. CASE Served /\ UNCHANGED <<locks, cmd, wire, todo, statics, lists, held, window, msgq>>
      BY <1>k, <1>t, <2>3 DEF Served, Goto, Asked, AskersInv, Threads
  <2>4. CASE Notify
      BY <1>k, <1>t, <2>4 DEF Notify, Write, Goto, Asked, AskersInv, Threads
  <2> QED
      BY <1>5, <2>1, <2>2, <2>3, <2>4 DEF publisher, Post, Withhold
<1>6. CASE uart_reader
  <2>1. CASE Flush \/ HandedOver \/ send_static_devices_list
      BY <1>k, <1>t, <2>1
      DEF Flush, HandedOver, send_static_devices_list, Write, Goto, Asked, flow, AskersInv, Threads
  <2>2. CASE Read
    <3>1. /\ UNCHANGED <<msgq, reply, cmd, lists>>
          /\ \A q \in {held', window'} : q \in {held, window, <<>>}
          /\ pc'["publisher"] = pc["publisher"]
        BY <1>t, <2>2 DEF Read, Goto, Threads
    <3>2. ~overlapped => \A q \in {held', window'} : AllRight(q, list_for_gate)
        BY <3>1 DEF AskersInv, AllRight
    <3> QED
        BY <3>1, <3>2 DEF AskersInv, lists, Asked
  <2>3. CASE Hand
    <3>1. /\ UNCHANGED <<held, reply, cmd, pc, lists>> /\ window # <<>> /\ Head(window) \in Reply
          /\ msgq' = Append(msgq, Head(window)) /\ window' = Tail(window)
        BY <1>t, <2>3 DEF Hand
    <3>2. ~overlapped => AllRight(msgq', list_for_gate) /\ AllRight(window', list_for_gate)
        BY <1>t, <3>1, RightQueues DEF AskersInv
    <3> QED
        BY <3>1, <3>2 DEF AskersInv, lists, Asked
  <2>4. CASE DevlistForGate
      BY <2>4, AskedAlone DEF DevlistForGate, flow
  <2> QED
      BY <1>6, <2>1, <2>2, <2>3, <2>4 DEF uart_reader
<1>7. CASE GateSays
  <2>1. NodeReply \in Reply /\ \A forGate : Right(NodeReply, forGate)
      BY DEF NodeReply, Reply, Right
  <2>2. ~overlapped => AllRight(held', list_for_gate)
      BY <1>7, <1>t, <2>1, RightQueues DEF GateSays, AskersInv
  <2> QED
      BY <1>7, <2>2 DEF GateSays, AskersInv, lists, Asked
<1>8. CASE UNCHANGED vars
    BY <1>8 DEF vars, lists, flow, AskersInv, Asked
<1> QED
    BY <1>1, <1>2, <1>3, <1>4, <1>5, <1>6, <1>7, <1>8 DEF Next, Step, dprintf

\* As long as no list is asked for while another is under way, every entry is published
\* exactly if an MQTT client asked, however long the list and however late the publisher
\* reads the flag (mqtt.c:440-442, 1075-1078, 1089).
THEOREM ListsReachAsker == Spec => ListsToAsker
<1>1. TypeInv /\ AskersInv /\ [Next]_vars
      => [~overlapped => (Post => reply.asker = "mqtt") /\ (Withhold => reply.asker = "reader")]_vars
    BY DEF TypeInv, TypeOK, AskersInv, Post, Withhold, Served, At, Right, Reply, NoReply
<1> QED
    BY InitTyped, NextTyped, InitAskers, NextAskers, <1>1, PTL DEF Spec, ListsToAsker
==============================================================================
