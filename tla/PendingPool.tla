----------------------------- MODULE PendingPool -----------------------------
(* The pending-messages pool of mqtt.c (lines 98-307) and the three threads that
   share it: the MQTT loop (message_to_mote), the publisher (the replies of
   serve_reply that touch the pool) and the pending worker.  The gate behind the
   UART is open: it may send any reply of Replies at any time.

   A step is a critical section of mutex_pending, or one access the code makes
   WITHOUT the mutex (the lookups of message_to_mote and serve_reply, the late
   "num_retries = 0" of add_device).  mutex_uart only shows as the gap between
   the worker's decision and its write.  Times are ages, in ticks since the event. *)
EXTENDS Integers, Sequences, FiniteSets

CONSTANTS
    Nodes,            \* EUI-64s
    NoNode,           \* the nodeid 0 of a cell never used
    MaxPendingNodes,  \* MAX_PENDING_NODES, size of the pool
    NumRetries,       \* NUM_RETRIES
    NumRetriesInv,    \* NUM_RETRIES_INV
    TxMaxRetr,        \* tx_maxretr of mqtt.conf
    TxDelay,          \* tx_delay of mqtt.conf, in ticks
    InviteTimeout,    \* INVITE_TIMEOUT_S, in ticks
    MaxMsgs,          \* bound: messages submitted through MQTT in a behaviour
    MallocFails,      \* whether malloc may return NULL
    Replies           \* the replies the gate may send

Class == {"A", "B", "C"}
ReplyType == {"JOIN", "LIST", "KICK", "ACK", "PENDING_REQ"}
Reply == [type : ReplyType, nodeid : Nodes, nodeclass : Class]

ASSUME NodesAssumption == NoNode \notin Nodes
ASSUME SizeAssumption == MaxPendingNodes \in Nat \ {0}
ASSUME LimitsAssumption ==
    /\ NumRetries \in Nat /\ NumRetriesInv \in Nat /\ TxMaxRetr \in Int
    /\ TxDelay \in Nat /\ InviteTimeout \in Nat /\ MaxMsgs \in Nat
ASSUME EnvironmentAssumption == MallocFails \in BOOLEAN /\ Replies \subseteq Reply

Cells == 1..MaxPendingNodes
Nil == 0
Threads == {"mqtt", "publisher", "worker"}
Free == "free"

Larger(a, b) == IF a > b THEN a ELSE b
Smaller(a, b) == IF a > b THEN b ELSE a
MsgAge == TxDelay + 1                       \* bound: older than tx_delay is "long ago"
InvAge == NumRetriesInv * InviteTimeout + 1 \* bound: older than any invitation timeout
MaxAge == Larger(MsgAge, InvAge)

Frame == [to : Nodes, id : 1..MaxMsgs]
NoFrame == [to |-> NoNode, id |-> 0]
NoReply == [type |-> "-", nodeid |-> NoNode, nodeclass |-> "-"]

VARIABLES
    pending_free,  \* pending_free[]
    pending,       \* pending[]
    mutex_pending, \* holder of mutex_pending, or Free
    pc,            \* where each thread is
    ptr,           \* the local "e" of message_to_mote and of serve_reply
    msg,           \* the downlink message the MQTT callback handles
    reply,         \* the reply the publisher serves
    i,             \* the worker's index into the pool, Nil between scans
    current,       \* age of the worker's sample of time()
    buf,           \* the frame the worker peeked
    submitted,     \* number of messages taken from MQTT so far
    out            \* what the step wrote to the UART or published, if anything

vars == <<pending_free, pending, mutex_pending, pc, ptr, msg, reply, i, current,
          buf, submitted, out>>
pool == <<pending_free, pending>>
worker == <<i, current, buf>>

pending_item_t ==
    [nodeid : Nodes \cup {NoNode}, fifo : Seq(Frame), nodeclass : Class,
     last_msg : 0..MsgAge, last_inv : 0..InvAge, has_been_invited : BOOLEAN,
     can_send : BOOLEAN, num_retries : Nat, num_pending : Nat]

Events == {"none", "IND", "INVITE", "HAS_PENDING",                  \* UART
           "joined", "kicked", "list", "sent2", "sent0",            \* MQTT
           "invited1", "invited0", "oom", "full"}                   \* log
Output == [event : Events, nodeid : Nodes \cup {NoNode}, num : Nat]
Says(e, n, k) == [event |-> e, nodeid |-> n, num |-> k]
Silent == Says("none", NoNode, 0)

TypeOK ==
    /\ pending_free \in [Cells -> BOOLEAN]
    /\ pending \in [Cells -> pending_item_t]
    /\ mutex_pending \in Threads \cup {Free}
    /\ pc \in [Threads -> {"idle", "lookup", "add", "reset", "occupied", "named", "added",
                           "enqueue", "notify", "kick", "ack", "request",
                           "scan", "send", "invite"}]
    /\ ptr \in [{"mqtt", "publisher"} -> Cells \cup {Nil}]
    /\ msg \in Frame \cup {NoFrame}
    /\ reply \in Reply \cup {NoReply}
    /\ i \in Cells \cup {Nil}
    /\ current \in 0..MaxAge
    /\ buf \in Frame \cup {NoFrame}
    /\ submitted \in 0..MaxMsgs
    /\ out \in Output

init_pending ==
    /\ pending_free = [c \in Cells |-> TRUE]
    /\ pending = [c \in Cells |->
          [nodeid |-> NoNode, fifo |-> <<>>, nodeclass |-> "A", last_msg |-> MsgAge,
           last_inv |-> InvAge, has_been_invited |-> FALSE, can_send |-> FALSE,
           num_retries |-> 0, num_pending |-> 0]]

Init ==
    /\ init_pending
    /\ mutex_pending = Free
    /\ pc = [t \in Threads |-> "idle"]
    /\ ptr = [t \in {"mqtt", "publisher"} |-> Nil]
    /\ msg = NoFrame /\ reply = NoReply /\ buf = NoFrame
    /\ i = Nil /\ current = 0 /\ submitted = 0 /\ out = Silent

------------------------------------------------------------------------------
Goto(t, l) == pc' = [pc EXCEPT ![t] = l]

\* Mutant: a scan for n does not look whether the cell is free.
OccupiedStale(n) == {c \in Cells : pending[c].nodeid = n}

(* The cells a scan for n accepts, and the one it returns. *)
Occupied(n) == {c \in Cells : ~pending_free[c] /\ pending[c].nodeid = n}
pending_to_nodeid(n, e) ==
    \/ Occupied(n) = {} /\ e = Nil
    \/ e \in Occupied(n) /\ \A c \in Occupied(n) : e <= c

\* Mutant: the element goes in at the wrong end.
m_enqueue_front(fifo, v) == <<v>> \o fifo
m_enqueue(fifo, v) == Append(fifo, v)
m_dequeue(fifo) == IF fifo = <<>> THEN <<>> ELSE Tail(fifo)

------------------------------------------------------------------------------
(* add_device, run by the MQTT thread for a node it does not know and by the
   publisher for a JOIN or a LIST. *)
AddArgs(t) ==
    IF t = "mqtt"
    THEN [nodeid |-> msg.to, nodeclass |-> "C", was_joined |-> FALSE]
    ELSE [nodeid |-> reply.nodeid, nodeclass |-> reply.nodeclass, was_joined |-> TRUE]

\* Mutant: a node that joins again is initialised like a new one.
RejoinedAnew(e, a) == [e EXCEPT !.nodeclass = a.nodeclass, !.fifo = <<>>]

\* An invited class C node that joins gets a tx_delay pause before its messages.
Rejoined(e, a) ==
    LET invited == a.nodeclass = "C" /\ e.has_been_invited /\ a.was_joined
    IN [e EXCEPT !.last_msg = IF invited THEN 0 ELSE e.last_msg,
                 !.has_been_invited = e.has_been_invited /\ ~invited,
                 !.nodeclass = a.nodeclass]

AddExisting(t) ==
    /\ pc[t] = "add" /\ mutex_pending = Free
    /\ \E c \in Cells :
        /\ pending_to_nodeid(AddArgs(t).nodeid, c)
        /\ pending' = [pending EXCEPT ![c] = Rejoined(@, AddArgs(t))]
        /\ ptr' = [ptr EXCEPT ![t] = c]
    /\ Goto(t, "reset") /\ out' = Silent
    /\ UNCHANGED <<pending_free, mutex_pending, msg, reply, worker, submitted>>

\* num_retries is cleared after the mutex has been released.
Reset(e) == [e EXCEPT !.num_retries = 0]
AddReset(t) ==
    /\ pc[t] = "reset"
    /\ pending' = [pending EXCEPT ![ptr[t]] = Reset(@)]
    /\ Goto(t, "added") /\ out' = Silent
    /\ UNCHANGED <<pending_free, mutex_pending, ptr, msg, reply, worker, submitted>>

\* Mutant: the pool is scanned for a free cell without mutex_pending.
AddOccupyUnlocked(t) ==
    /\ pc[t] = "add" /\ Occupied(AddArgs(t).nodeid) = {}
    /\ \E e \in Cells :
        /\ pending_free[e] /\ \A c \in Cells : pending_free[c] => e <= c
        /\ pending_free' = [pending_free EXCEPT ![e] = FALSE]
        /\ ptr' = [ptr EXCEPT ![t] = e]
    /\ Goto(t, "occupied") /\ out' = Silent
    /\ UNCHANGED <<pending, mutex_pending, msg, reply, worker, submitted>>

\* The cell is marked occupied before it is initialised; lookups do not wait.
AddOccupy(t) ==
    /\ pc[t] = "add" /\ mutex_pending = Free
    /\ Occupied(AddArgs(t).nodeid) = {}
    /\ \E e \in Cells :
        /\ pending_free[e] /\ \A c \in Cells : pending_free[c] => e <= c
        /\ pending_free' = [pending_free EXCEPT ![e] = FALSE]
        /\ ptr' = [ptr EXCEPT ![t] = e]
    /\ mutex_pending' = t
    /\ Goto(t, "occupied") /\ out' = Silent
    /\ UNCHANGED <<pending, msg, reply, worker, submitted>>

Named(e, n) == [e EXCEPT !.nodeid = n]
AddName(t) ==
    /\ pc[t] = "occupied"
    /\ pending' = [pending EXCEPT ![ptr[t]] = Named(@, AddArgs(t).nodeid)]
    /\ Goto(t, "named") /\ out' = Silent
    /\ UNCHANGED <<pending_free, mutex_pending, ptr, msg, reply, worker, submitted>>

NewItem(a) ==
    [nodeid |-> a.nodeid, fifo |-> <<>>, nodeclass |-> a.nodeclass, last_msg |-> MsgAge,
     last_inv |-> InvAge, has_been_invited |-> ~a.was_joined, can_send |-> FALSE,
     num_retries |-> 0, num_pending |-> 0]

AddInitialize(t) ==
    /\ pc[t] = "named"
    /\ pending' = [pending EXCEPT ![ptr[t]] = NewItem(AddArgs(t))]
    /\ mutex_pending' = Free
    /\ Goto(t, "added") /\ out' = Silent
    /\ UNCHANGED <<pending_free, ptr, msg, reply, worker, submitted>>

AddFull(t) ==
    /\ pc[t] = "add" /\ mutex_pending = Free
    /\ Occupied(AddArgs(t).nodeid) = {} /\ \A c \in Cells : ~pending_free[c]
    /\ Goto(t, "added") /\ out' = Silent
    /\ UNCHANGED <<pool, mutex_pending, ptr, msg, reply, worker, submitted>>

add_device(t) ==
    AddExisting(t) \/ AddReset(t) \/ AddOccupy(t) \/ AddName(t) \/ AddInitialize(t) \/ AddFull(t)

------------------------------------------------------------------------------
(* message_to_mote, in the MQTT thread *)
MqttDone(o) ==
    /\ Goto("mqtt", "idle") /\ out' = o
    /\ msg' = NoFrame /\ ptr' = [ptr EXCEPT !["mqtt"] = Nil]

Submit(n) ==
    /\ pc["mqtt"] = "idle" /\ submitted < MaxMsgs
    /\ submitted' = submitted + 1
    /\ msg' = [to |-> n, id |-> submitted + 1]
    /\ Goto("mqtt", "lookup") /\ out' = Silent
    /\ UNCHANGED <<pool, mutex_pending, ptr, reply, worker>>

MoteKnown ==
    /\ pc["mqtt"] = "lookup"
    /\ \E e \in Cells :
        /\ pending_to_nodeid(msg.to, e)
        /\ ptr' = [ptr EXCEPT !["mqtt"] = e]
    /\ Goto("mqtt", "enqueue") /\ out' = Silent
    /\ UNCHANGED <<pool, mutex_pending, msg, reply, worker, submitted>>

\* sent 2, "node not in the network", is published and the node added as class C.
MoteUnknown ==
    /\ pc["mqtt"] = "lookup" /\ Occupied(msg.to) = {}
    /\ \/ Goto("mqtt", "add") /\ out' = Says("sent2", msg.to, msg.id) /\ UNCHANGED <<msg, ptr>>
       \/ MallocFails /\ MqttDone(Says("oom", msg.to, msg.id))
    /\ UNCHANGED <<pool, mutex_pending, reply, worker, submitted>>

Relookup ==
    /\ pc["mqtt"] = "added"
    /\ \/ /\ Occupied(msg.to) = {}
          /\ MqttDone(Says("full", msg.to, msg.id))
       \/ /\ \E e \in Cells :
              pending_to_nodeid(msg.to, e) /\ ptr' = [ptr EXCEPT !["mqtt"] = e]
          /\ Goto("mqtt", "enqueue") /\ out' = Silent /\ UNCHANGED msg
    /\ UNCHANGED <<pool, mutex_pending, reply, worker, submitted>>

Enqueued(e, m) ==
    [e EXCEPT !.fifo = m_enqueue(e.fifo, m),
              !.num_pending = IF e.nodeclass = "A" THEN e.num_pending + 1 ELSE e.num_pending]

\* The pointer found without the mutex is used under it.
Enqueue ==
    /\ pc["mqtt"] = "enqueue" /\ mutex_pending = Free
    /\ \/ /\ pending' = [pending EXCEPT ![ptr["mqtt"]] = Enqueued(@, msg)]
          /\ LET e == Enqueued(pending[ptr["mqtt"]], msg)
             IN MqttDone(IF e.nodeclass = "A" THEN Says("HAS_PENDING", msg.to, e.num_pending)
                         ELSE Silent)
       \/ MallocFails /\ MqttDone(Says("oom", msg.to, msg.id)) /\ UNCHANGED pending
    /\ UNCHANGED <<pending_free, mutex_pending, reply, worker, submitted>>

message_to_mote ==
    (\E n \in Nodes : Submit(n)) \/ MoteKnown \/ MoteUnknown \/ Relookup \/ Enqueue

------------------------------------------------------------------------------
(* serve_reply, in the publisher thread *)
ReplyDone(o) ==
    /\ Goto("publisher", "idle") /\ out' = o
    /\ reply' = NoReply /\ ptr' = [ptr EXCEPT !["publisher"] = Nil]

Take(r, l) ==
    /\ pc["publisher"] = "idle"
    /\ reply' = r /\ Goto("publisher", l)

\* REPLY_JOIN publishes "joined" and REPLY_LIST goes straight to add_device;
\* a JOIN whose publication cannot be allocated is dropped before add_device.
ServeAdd(r) ==
    /\ r.type \in {"JOIN", "LIST"}
    /\ pc["publisher"] = "idle"
    /\ \/ /\ Take(r, "add")
          /\ out' = IF r.type = "JOIN" THEN Says("joined", r.nodeid, 0) ELSE Silent
       \/ MallocFails /\ r.type = "JOIN" /\ out' = Says("oom", r.nodeid, 0) /\ UNCHANGED <<reply, pc>>
    /\ UNCHANGED <<pool, mutex_pending, ptr, msg, worker, submitted>>

\* A LIST is published, unless it was requested for the gate or the pool is full;
\* after a JOIN the node is looked up, without the mutex, for pending messages.
Added ==
    /\ pc["publisher"] = "added"
    /\ \/ /\ reply.type = "LIST"
          /\ \/ Occupied(reply.nodeid) = {} /\ ReplyDone(Says("full", reply.nodeid, 0))
             \/ Occupied(reply.nodeid) # {} /\ ReplyDone(Says("list", reply.nodeid, 0))
             \/ Occupied(reply.nodeid) # {} /\ ReplyDone(Silent)
       \/ /\ reply.type = "JOIN"
          /\ \E e \in Cells :
              /\ pending_to_nodeid(reply.nodeid, e) /\ pending[e].num_pending > 0
              /\ ptr' = [ptr EXCEPT !["publisher"] = e]
          /\ Goto("publisher", "notify") /\ out' = Silent /\ UNCHANGED reply
       \/ /\ reply.type = "JOIN"
          /\ \/ Occupied(reply.nodeid) = {}
             \/ \E e \in Cells :
                 pending_to_nodeid(reply.nodeid, e) /\ pending[e].num_pending = 0
          /\ ReplyDone(Silent)
    /\ UNCHANGED <<pool, mutex_pending, msg, worker, submitted>>

Notify ==
    /\ pc["publisher"] = "notify"
    /\ ReplyDone(Says("HAS_PENDING", reply.nodeid, pending[ptr["publisher"]].num_pending))
    /\ UNCHANGED <<pool, mutex_pending, msg, worker, submitted>>

\* KICK, ACK and PENDING_REQ look the node up without the mutex ...
ServeLookup(r) ==
    /\ \E e \in Cells :
        /\ pending_to_nodeid(r.nodeid, e)
        /\ ptr' = [ptr EXCEPT !["publisher"] = e]
        /\ \/ r.type = "KICK" /\ Take(r, "kick")
           \/ r.type = "ACK" /\ Take(r, "ack")
           \/ /\ r.type = "PENDING_REQ" /\ Take(r, "request")
              /\ pending[e].nodeclass = "A" /\ pending[e].num_pending > 0
    /\ out' = Silent
    /\ UNCHANGED <<pool, mutex_pending, msg, worker, submitted>>

\* ... kick_device looks it up again under the mutex ...
Emptied(e) == [e EXCEPT !.fifo = <<>>]
\* Mutant: kick_device does not take mutex_pending.
KickUnlocked ==
    /\ pc["publisher"] = "kick"
    /\ \/ Occupied(reply.nodeid) = {} /\ UNCHANGED pool /\ ReplyDone(Silent)
       \/ /\ \E e \in Cells :
              /\ pending_to_nodeid(reply.nodeid, e)
              /\ pending_free' = [pending_free EXCEPT ![e] = TRUE]
              /\ pending' = [pending EXCEPT ![e] = Emptied(@)]
          /\ \/ ReplyDone(Says("kicked", reply.nodeid, 0))
             \/ MallocFails /\ ReplyDone(Says("oom", reply.nodeid, 0))
    /\ UNCHANGED <<mutex_pending, msg, worker, submitted>>
Kick ==
    /\ pc["publisher"] = "kick" /\ mutex_pending = Free
    /\ \/ Occupied(reply.nodeid) = {} /\ UNCHANGED pool /\ ReplyDone(Silent)
       \/ /\ \E e \in Cells :
              /\ pending_to_nodeid(reply.nodeid, e)
              /\ pending_free' = [pending_free EXCEPT ![e] = TRUE]
              /\ pending' = [pending EXCEPT ![e] = Emptied(@)]
          /\ \/ ReplyDone(Says("kicked", reply.nodeid, 0))
             \/ MallocFails /\ ReplyDone(Says("oom", reply.nodeid, 0))
    /\ UNCHANGED <<mutex_pending, msg, worker, submitted>>

\* Mutant: num_pending is decremented whatever it is.
AckedUnclamped(e) ==
    [e EXCEPT !.has_been_invited = FALSE, !.fifo = m_dequeue(e.fifo),
              !.num_pending = e.num_pending - 1, !.num_retries = 0]
Acked(e) ==
    [e EXCEPT !.has_been_invited = FALSE, !.fifo = m_dequeue(e.fifo),
              !.num_pending = Larger(e.num_pending - 1, 0), !.num_retries = 0]
Requested(e) == [e EXCEPT !.can_send = TRUE, !.last_msg = MsgAge]

\* ... while ACK and PENDING_REQ trust the pointer.
Ack ==
    /\ pc["publisher"] = "ack" /\ mutex_pending = Free
    /\ pending' = [pending EXCEPT ![ptr["publisher"]] = Acked(@)]
    /\ ReplyDone(Silent)
    /\ UNCHANGED <<pending_free, mutex_pending, msg, worker, submitted>>

Request ==
    /\ pc["publisher"] = "request" /\ mutex_pending = Free
    /\ pending' = [pending EXCEPT ![ptr["publisher"]] = Requested(@)]
    /\ ReplyDone(Silent)
    /\ UNCHANGED <<pending_free, mutex_pending, msg, worker, submitted>>

Serve(r) == ServeAdd(r) \/ ServeLookup(r)
serve_reply == (\E r \in Replies : Serve(r)) \/ Added \/ Notify \/ Kick \/ Ack \/ Request

------------------------------------------------------------------------------
(* pending_worker: one scan of the pool under mutex_pending.  Only the unlocked
   writes of add_device can interleave with it. *)
WorkerLock ==
    /\ pc["worker"] = "idle" /\ mutex_pending = Free
    /\ mutex_pending' = "worker" /\ i' = 1
    /\ Goto("worker", "scan") /\ out' = Silent
    /\ UNCHANGED <<pool, ptr, msg, reply, current, buf, submitted>>

\* The worker moves to l; the threads of lost saw their store overwritten.
WorkerGoto(l, lost) ==
    pc' = [t \in Threads |-> IF t = "worker" THEN l ELSE IF t \in lost THEN "added" ELSE pc[t]]

\* On to the next cell; after the last one the mutex is released.
NextCell(lost) ==
    /\ buf' = NoFrame /\ current' = 0
    /\ \/ /\ i < MaxPendingNodes
          /\ i' = i + 1 /\ WorkerGoto("scan", lost) /\ UNCHANGED mutex_pending
       \/ /\ i = MaxPendingNodes
          /\ i' = Nil /\ WorkerGoto("idle", lost) /\ mutex_pending' = Free

At(l) == pc["worker"] = l
cell == pending[i]
HasMessage == At("scan") /\ ~pending_free[i] /\ cell.fifo # <<>>
OnDemandOnly == cell.nodeclass = "A" /\ ~cell.can_send
Invited == cell.nodeclass = "C" /\ cell.has_been_invited
InviteDue == cell.last_inv > cell.num_retries * InviteTimeout
SendDue == cell.last_msg > TxDelay
others == <<pending_free, ptr, msg, reply, submitted>>

Skip ==
    /\ At("scan")
    /\ \/ ~HasMessage
       \/ OnDemandOnly
       \/ Invited /\ cell.num_retries <= NumRetriesInv /\ ~InviteDue
       \/ ~OnDemandOnly /\ ~Invited /\ ~SendDue
    /\ NextCell({}) /\ out' = Silent
    /\ UNCHANGED <<others, pending>>

\* Mutant: the message that failed stays in the queue.
GivenUpKept(e) == [e EXCEPT !.num_retries = 0]

\* The failure is published and the message dropped; without memory for the
\* publication the cell is left for the next scan.
GivenUp(e) == [e EXCEPT !.num_retries = 0, !.fifo = m_dequeue(e.fifo)]
GiveUp(e) ==
    \/ /\ pending' = [pending EXCEPT ![i] = GivenUp(@)]
       /\ out' = Says(e, cell.nodeid, Head(cell.fifo).id)
    \/ MallocFails /\ out' = Says("oom", cell.nodeid, 0) /\ UNCHANGED pending

GiveUpInvite ==
    /\ HasMessage /\ Invited /\ cell.num_retries > NumRetriesInv
    /\ GiveUp("invited0") /\ NextCell({})
    /\ UNCHANGED others

GiveUpSend ==
    /\ HasMessage /\ ~OnDemandOnly /\ ~Invited /\ SendDue /\ cell.num_retries > NumRetries
    /\ GiveUp("sent0") /\ NextCell({})
    /\ UNCHANGED others

\* num_retries++ is a load and a store: of the threads about to clear it without
\* the mutex, any may have their store overwritten in between.
Resetting == {t \in {"mqtt", "publisher"} : pc[t] = "reset" /\ ptr[t] = i}

InvitedAgain(e) ==
    [e EXCEPT !.num_retries = e.num_retries + 1, !.last_inv = Smaller(current, InvAge)]
InviteAttempt(lost) ==
    /\ pending' = [pending EXCEPT ![i] = InvitedAgain(@)]
    /\ NextCell(lost)

\* invite_mote publishes "invited 1", then waits for mutex_uart; without memory
\* it sends nothing, and the attempt is counted all the same.
StartInvite ==
    /\ HasMessage /\ Invited /\ cell.num_retries <= NumRetriesInv /\ InviteDue
    /\ \/ /\ WorkerGoto("invite", {}) /\ out' = Says("invited1", cell.nodeid, 0)
          /\ UNCHANGED <<pending, mutex_pending, worker>>
       \/ /\ MallocFails
          /\ \E lost \in SUBSET Resetting : InviteAttempt(lost)
          /\ out' = Says("oom", cell.nodeid, 0)
    /\ UNCHANGED others

DoInvite ==
    /\ At("invite")
    /\ \E lost \in SUBSET Resetting : InviteAttempt(lost)
    /\ out' = Says("INVITE", cell.nodeid, 0)
    /\ UNCHANGED others

Attempted(e) == [e EXCEPT !.num_retries = e.num_retries + 1]
\* Mutant: the worker goes on transmitting after NUM_RETRIES attempts.
StartSendForever ==
    /\ HasMessage /\ ~OnDemandOnly /\ ~Invited /\ SendDue
    /\ buf' = Head(cell.fifo)
    /\ pending' = [pending EXCEPT ![i] = Attempted(@)]
    /\ \E lost \in SUBSET Resetting : WorkerGoto("send", lost)
    /\ out' = Silent
    /\ UNCHANGED <<others, mutex_pending, i, current>>
StartSend ==
    /\ HasMessage /\ ~OnDemandOnly /\ ~Invited /\ SendDue /\ cell.num_retries <= NumRetries
    /\ buf' = Head(cell.fifo)
    /\ pending' = [pending EXCEPT ![i] = Attempted(@)]
    /\ \E lost \in SUBSET Resetting : WorkerGoto("send", lost)
    /\ out' = Silent
    /\ UNCHANGED <<others, mutex_pending, i, current>>

\* Mutant: one request of a class A node releases every message.
TransmittedAgain(e) ==
    [e EXCEPT !.has_been_invited = e.nodeclass = "C" /\ e.num_retries = TxMaxRetr,
              !.last_msg = Smaller(current, MsgAge)]

\* After tx_maxretr transmissions a class C node is invited instead.
Transmitted(e) ==
    LET invite == e.nodeclass = "C" /\ e.num_retries = TxMaxRetr
    IN [e EXCEPT !.num_retries = IF invite THEN 1 ELSE e.num_retries,
                 !.last_inv = IF invite THEN Smaller(current, InvAge) ELSE e.last_inv,
                 !.has_been_invited = e.has_been_invited \/ invite,
                 !.can_send = FALSE, !.last_msg = Smaller(current, MsgAge)]
DoSend ==
    /\ At("send")
    /\ pending' = [pending EXCEPT ![i] = Transmitted(@)]
    /\ NextCell({}) /\ out' = Says("IND", buf.to, buf.id)
    /\ UNCHANGED others

pending_worker ==
    \/ WorkerLock \/ Skip \/ GiveUpInvite \/ GiveUpSend
    \/ StartInvite \/ DoInvite \/ StartSend \/ DoSend

------------------------------------------------------------------------------
(* time(): every age grows, up to the bounds above. *)
Aged(e) == [e EXCEPT !.last_msg = Smaller(e.last_msg + 1, MsgAge),
                     !.last_inv = Smaller(e.last_inv + 1, InvAge)]
Tick ==
    /\ pending' = [c \in Cells |-> Aged(pending[c])]
    /\ current' = IF At("send") \/ At("invite") THEN Smaller(current + 1, MaxAge) ELSE 0
    /\ out' = Silent
    /\ UNCHANGED <<pending_free, mutex_pending, pc, ptr, msg, reply, i, buf, submitted>>

Next ==
    \/ message_to_mote \/ add_device("mqtt")
    \/ serve_reply \/ add_device("publisher")
    \/ pending_worker \/ Tick

Spec == Init /\ [][Next]_vars

------------------------------------------------------------------------------
\* Cell c carries a node's identity: it is occupied and its nodeid is written.
Settled(c) ==
    ~pending_free[c] /\ \A t \in {"mqtt", "publisher"} : ~(pc[t] = "occupied" /\ ptr[t] = c)

\* UniqueCell: however the MQTT thread and the publisher race in add_device
\* (mqtt.c:173-226), no two occupied cells ever carry the same node.
UniqueCell == \A c, d \in Cells :
    Settled(c) /\ Settled(d) /\ pending[c].nodeid = pending[d].nodeid => c = d

\* WorkerCellStable: while the worker waits for mutex_uart (mqtt.c:905 and, in
\* invite_mote, 771) nobody frees its cell, empties its queue or changes the
\* head, so the frame it writes is still the one an acknowledgement will remove.
WorkerCellStable ==
    At("send") \/ At("invite") =>
        /\ ~pending_free[i] /\ cell.fifo # <<>>
        /\ At("send") => Head(cell.fifo) = buf

\* FifoOrder: messages leave every queue in the order MQTT delivered them, and
\* a message is never queued twice, not even under two nodes (mqtt.c:255-283).
Ids(c) == {pending[c].fifo[k].id : k \in DOMAIN pending[c].fifo}
FifoOrder == \A c \in Cells :
    /\ \A j, k \in DOMAIN pending[c].fifo : j < k => pending[c].fifo[j].id < pending[c].fifo[k].id
    /\ \A d \in Cells \ {c} : Ids(c) \cap Ids(d) = {}
    /\ pc["mqtt"] # "idle" => msg.id \notin Ids(c)

------------------------------------------------------------------------------
(* Fairness.  Every thread runs; mutex_pending is free for 5 ms after every scan
   (mqtt.c:921-922), so a thread that keeps asking for it gets it. *)
MqttStep == MoteKnown \/ MoteUnknown \/ Relookup \/ Enqueue \/ add_device("mqtt")
PublisherStep == Added \/ Notify \/ Kick \/ Ack \/ Request \/ add_device("publisher")
Fairness ==
    /\ SF_vars(MqttStep) /\ SF_vars(PublisherStep)
    /\ SF_vars(pending_worker) /\ WF_vars(Tick)
FairSpec == Spec /\ Fairness

\* Drains: if the gate falls silent, in the end no message waits but those of a
\* class A node nobody asked for: each is given up after its retransmissions and
\* invitations (mqtt.c:801-891), however these alternate.
GateSilent == <>[][~\E r \in Replies : Serve(r)]_vars
Settles == \A c \in Cells :
    ~pending_free[c] /\ pending[c].fifo # <<>> => pending[c].nodeclass = "A" /\ ~pending[c].can_send
Drains == GateSilent => <>[]Settles
==============================================================================
