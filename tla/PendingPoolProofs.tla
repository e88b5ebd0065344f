-------------------------- MODULE PendingPoolProofs --------------------------
(* Proofs about PendingPool and PendingAttempts, for every pool size, node set, limit
   and gate. *)
EXTENDS PendingAttempts, TLAPS

Adders == {"mqtt", "publisher"}

(* What a thread holds at each of its steps. *)
Refs ==
    /\ pc["mqtt"] # "idle" => msg \in Frame
    /\ pc["publisher"] # "idle" => reply \in Reply
    /\ pc["mqtt"] \in {"reset", "occupied", "named", "enqueue"} => ptr["mqtt"] \in Cells
    /\ pc["publisher"] \in {"reset", "occupied", "named", "notify", "kick", "ack", "request"}
          => ptr["publisher"] \in Cells
    /\ pc["worker"] \in {"scan", "send", "invite"} => i \in Cells
    /\ pc["worker"] = "send" => buf \in Frame
    /\ pc["mqtt"] \in {"idle", "lookup", "add", "reset", "occupied", "named", "added", "enqueue"}
    /\ pc["publisher"] \in {"idle", "add", "reset", "occupied", "named", "added",
                            "notify", "kick", "ack", "request"}
    /\ pc["worker"] \in {"idle", "scan", "send", "invite"}

TypeInv == TypeOK /\ Refs

LEMMA Constants ==
    /\ MsgAge \in Nat /\ InvAge \in Nat /\ MaxAge \in Nat
    /\ MsgAge <= MaxAge /\ InvAge <= MaxAge
    /\ Cells \subseteq Nat /\ Nil \notin Cells /\ 1 \in Cells
    /\ \A c \in Cells : c < MaxPendingNodes => c + 1 \in Cells
BY SizeAssumption, LimitsAssumption DEF MsgAge, InvAge, MaxAge, Larger, Cells, Nil

LEMMA InitType == Init => TypeInv
<1> USE Constants
<1> SUFFICES ASSUME Init PROVE TypeInv
    OBVIOUS
<1>1. pending \in [Cells -> pending_item_t]
  <2>1. <<>> \in Seq(Frame)
      OBVIOUS
  <2> QED
      BY <2>1 DEF Init, init_pending, pending_item_t, Class
<1>2. pending_free \in [Cells -> BOOLEAN]
    BY DEF Init, init_pending
<1> QED
    BY <1>1, <1>2, LimitsAssumption
    DEF Init, TypeInv, TypeOK, Refs, Threads, Free, Nil, NoFrame, NoReply, Silent, Says, Output, Events

LEMMA FifoTypes == ASSUME NEW q \in Seq(Frame)
                   PROVE  /\ \A m \in Frame : m_enqueue(q, m) \in Seq(Frame)
                          /\ m_dequeue(q) \in Seq(Frame) /\ <<>> \in Seq(Frame)
BY DEF m_enqueue, m_dequeue

LEMMA FifoHead == ASSUME NEW q \in Seq(Frame), q # <<>>
                  PROVE  Head(q) \in Frame /\ Head(q).id \in Nat
<1>1. Head(q) \in Frame
    OBVIOUS
<1> QED
    BY <1>1, LimitsAssumption DEF Frame

LEMMA PoolStep ==
    ASSUME pending \in [Cells -> pending_item_t], NEW c \in Cells, NEW r \in pending_item_t,
           pending' = [pending EXCEPT ![c] = r]
    PROVE  pending' \in [Cells -> pending_item_t]
OBVIOUS

LEMMA ItemFields ==
    ASSUME NEW e \in pending_item_t
    PROVE  /\ e.nodeid \in Nodes \cup {NoNode} /\ e.fifo \in Seq(Frame) /\ e.nodeclass \in Class
           /\ e.last_msg \in 0..MsgAge /\ e.last_inv \in 0..InvAge
           /\ e.has_been_invited \in BOOLEAN /\ e.can_send \in BOOLEAN
           /\ e.num_retries \in Nat /\ e.num_pending \in Nat
BY DEF pending_item_t

(* What each update of a cell keeps.  Nodeids only change in add_device; queues in
   Enqueued, Emptied, Acked and GivenUp; num_retries rises by one at a time. *)
LEMMA Items ==
    ASSUME NEW e \in pending_item_t, current \in 0..MaxAge
    PROVE  /\ \A a : a.nodeclass \in Class =>
                /\ Rejoined(e, a) \in pending_item_t
                /\ Rejoined(e, a).nodeid = e.nodeid /\ Rejoined(e, a).num_retries = e.num_retries
           /\ /\ Reset(e) \in pending_item_t
              /\ Reset(e).nodeid = e.nodeid /\ Reset(e).fifo = e.fifo /\ Reset(e).num_retries = 0
           /\ \A n \in Nodes :
                /\ Named(e, n) \in pending_item_t
                /\ Named(e, n).nodeid = n /\ Named(e, n).num_retries = e.num_retries
           /\ \A m \in Frame :
                /\ Enqueued(e, m) \in pending_item_t
                /\ Enqueued(e, m).nodeid = e.nodeid /\ Enqueued(e, m).num_retries = e.num_retries
           /\ /\ Emptied(e) \in pending_item_t
              /\ Emptied(e).nodeid = e.nodeid /\ Emptied(e).num_retries = e.num_retries
           /\ /\ Acked(e) \in pending_item_t
              /\ Acked(e).nodeid = e.nodeid /\ Acked(e).num_retries = 0
           /\ /\ Requested(e) \in pending_item_t
              /\ Requested(e).nodeid = e.nodeid /\ Requested(e).num_retries = e.num_retries
           /\ /\ GivenUp(e) \in pending_item_t
              /\ GivenUp(e).nodeid = e.nodeid /\ GivenUp(e).num_retries = 0
           /\ /\ InvitedAgain(e) \in pending_item_t
              /\ InvitedAgain(e).nodeid = e.nodeid /\ InvitedAgain(e).num_retries = e.num_retries + 1
           /\ /\ Attempted(e) \in pending_item_t /\ Attempted(e).fifo = e.fifo
              /\ Attempted(e).nodeid = e.nodeid /\ Attempted(e).num_retries = e.num_retries + 1
           /\ /\ Transmitted(e) \in pending_item_t
              /\ Transmitted(e).nodeid = e.nodeid
              /\ Transmitted(e).num_retries \in {1, e.num_retries}
           /\ /\ Aged(e) \in pending_item_t /\ Aged(e).fifo = e.fifo
              /\ Aged(e).nodeid = e.nodeid /\ Aged(e).num_retries = e.num_retries
<1> DEFINE age == Smaller(current, InvAge)
           pause == Smaller(current, MsgAge)
<1>a. /\ e.nodeid \in Nodes \cup {NoNode} /\ e.fifo \in Seq(Frame) /\ e.nodeclass \in Class
      /\ e.last_msg \in 0..MsgAge /\ e.last_inv \in 0..InvAge
      /\ e.has_been_invited \in BOOLEAN /\ e.can_send \in BOOLEAN
      /\ e.num_retries \in Nat /\ e.num_pending \in Nat
    BY ItemFields
<1>b. MsgAge \in Nat /\ InvAge \in Nat /\ current \in Nat
    BY Constants
<1>c. \A a, m \in Nat : Smaller(a, m) \in 0..m
    BY DEF Smaller
<1>d. 0 \in 0..MsgAge /\ MsgAge \in 0..MsgAge /\ age \in 0..InvAge /\ pause \in 0..MsgAge
    BY <1>b, <1>c
<1>e. /\ Smaller(e.last_msg + 1, MsgAge) \in 0..MsgAge
      /\ Smaller(e.last_inv + 1, InvAge) \in 0..InvAge
    BY <1>a, <1>b DEF Smaller
<1>f. /\ e.num_retries + 1 \in Nat /\ e.num_pending + 1 \in Nat
      /\ Larger(e.num_pending - 1, 0) \in Nat
    BY <1>a DEF Larger
<1>5. m_dequeue(e.fifo) \in Seq(Frame) /\ <<>> \in Seq(Frame)
    BY <1>a, FifoTypes
<1> USE DEF pending_item_t
<1>1. ASSUME NEW a, a.nodeclass \in Class
      PROVE  /\ Rejoined(e, a) \in pending_item_t
             /\ Rejoined(e, a).nodeid = e.nodeid /\ Rejoined(e, a).num_retries = e.num_retries
    BY <1>1, <1>a, <1>d, <1>e, <1>f DEF Rejoined
<1>2. /\ Reset(e) \in pending_item_t
      /\ Reset(e).nodeid = e.nodeid /\ Reset(e).fifo = e.fifo /\ Reset(e).num_retries = 0
    BY DEF Reset
<1>3. ASSUME NEW n \in Nodes
      PROVE  /\ Named(e, n) \in pending_item_t
             /\ Named(e, n).nodeid = n /\ Named(e, n).num_retries = e.num_retries
    BY DEF Named
<1>4. ASSUME NEW m \in Frame
      PROVE  /\ Enqueued(e, m) \in pending_item_t
             /\ Enqueued(e, m).nodeid = e.nodeid /\ Enqueued(e, m).num_retries = e.num_retries
  <2>1. m_enqueue(e.fifo, m) \in Seq(Frame)
      BY <1>a, FifoTypes
  <2> QED
      BY <2>1, <1>a, <1>d, <1>e, <1>f DEF Enqueued
<1>6. /\ Emptied(e) \in pending_item_t
      /\ Emptied(e).nodeid = e.nodeid /\ Emptied(e).num_retries = e.num_retries
    BY <1>5 DEF Emptied
<1>7. /\ Acked(e) \in pending_item_t
      /\ Acked(e).nodeid = e.nodeid /\ Acked(e).num_retries = 0
    BY <1>5, <1>a, <1>d, <1>e, <1>f DEF Acked
<1>8. /\ Requested(e) \in pending_item_t
      /\ Requested(e).nodeid = e.nodeid /\ Requested(e).num_retries = e.num_retries
    BY <1>a, <1>d, <1>e, <1>f DEF Requested
<1>9. /\ GivenUp(e) \in pending_item_t
      /\ GivenUp(e).nodeid = e.nodeid /\ GivenUp(e).num_retries = 0
    BY <1>5 DEF GivenUp
<1>10. /\ InvitedAgain(e) \in pending_item_t
       /\ InvitedAgain(e).nodeid = e.nodeid /\ InvitedAgain(e).num_retries = e.num_retries + 1
    BY <1>a, <1>d, <1>e, <1>f DEF InvitedAgain
<1>11. /\ Attempted(e) \in pending_item_t /\ Attempted(e).fifo = e.fifo
       /\ Attempted(e).nodeid = e.nodeid /\ Attempted(e).num_retries = e.num_retries + 1
    BY DEF Attempted
<1>12. /\ Transmitted(e) \in pending_item_t
       /\ Transmitted(e).nodeid = e.nodeid
       /\ Transmitted(e).num_retries \in {1, e.num_retries}
    BY <1>a, <1>d, <1>e, <1>f DEF Transmitted
<1>13. /\ Aged(e) \in pending_item_t /\ Aged(e).fifo = e.fifo
       /\ Aged(e).nodeid = e.nodeid /\ Aged(e).num_retries = e.num_retries
    BY <1>a, <1>d, <1>e, <1>f DEF Aged
<1> HIDE DEF pending_item_t
<1> QED
    BY <1>1, <1>2, <1>3, <1>4, <1>6, <1>7, <1>8, <1>9, <1>10, <1>11, <1>12, <1>13

LEMMA NextType == TypeInv /\ [Next]_vars => TypeInv'
<1> USE Constants
<1> SUFFICES ASSUME TypeInv, [Next]_vars PROVE TypeInv'
    OBVIOUS
<1>a. pending \in [Cells -> pending_item_t] /\ current \in 0..MaxAge
    BY DEF TypeInv, TypeOK
<1>b. \A c \in Cells : pending[c] \in pending_item_t
    BY <1>a
<1>c. ASSUME NEW t \in Adders, pc[t] \in {"add", "reset", "occupied", "named", "added"}
      PROVE  AddArgs(t).nodeid \in Nodes /\ AddArgs(t).nodeclass \in Class /\ AddArgs(t).was_joined \in BOOLEAN
    BY <1>c DEF Adders, AddArgs, Frame, Reply, Class, TypeInv, Refs
<1> USE DEF Threads, Free, Output, Says, Silent, Events, Adders, pool, worker, others
<1>1. ASSUME NEW n \in Nodes, Submit(n) PROVE TypeInv'
    BY <1>1, LimitsAssumption DEF Submit, Goto, Frame, TypeInv, TypeOK, Refs
<1>2. CASE MoteKnown
    BY <1>2 DEF MoteKnown, Goto, TypeInv, TypeOK, Refs
<1>3. CASE MoteUnknown
    BY <1>3 DEF MoteUnknown, MqttDone, NoFrame, Frame, Goto, TypeInv, TypeOK, Refs
<1>4. CASE Relookup
    BY <1>4 DEF Relookup, MqttDone, NoFrame, Frame, Goto, TypeInv, TypeOK, Refs
<1>5. CASE Enqueue
  <2>1. ptr["mqtt"] \in Cells /\ msg \in Frame
      BY <1>5 DEF Enqueue, TypeInv, TypeOK, Refs
  <2>2. Enqueued(pending[ptr["mqtt"]], msg) \in pending_item_t
      BY <1>a, <1>b, <2>1, Items
  <2>3. pending' \in [Cells -> pending_item_t]
      BY <1>5, <1>a, <2>1, <2>2, PoolStep DEF Enqueue
  <2>4. out' \in Output
      BY <1>5, <2>1, <2>2, ItemFields DEF Enqueue, MqttDone, Frame
  <2> QED
      BY <1>5, <2>3, <2>4 DEF Enqueue, MqttDone, NoFrame, Frame, Goto, TypeInv, TypeOK, Refs
<1>6. ASSUME NEW t \in Adders, AddExisting(t) PROVE TypeInv'
  <2>1. PICK c \in Cells : pending' = [pending EXCEPT ![c] = Rejoined(@, AddArgs(t))] /\ ptr' = [ptr EXCEPT ![t] = c]
      BY <1>6 DEF AddExisting
  <2>2. Rejoined(pending[c], AddArgs(t)) \in pending_item_t
      BY <1>6, <1>a, <1>b, <1>c, Items DEF AddExisting
  <2>3. pending' \in [Cells -> pending_item_t]
      BY <1>a, <2>1, <2>2, PoolStep
  <2> QED
      BY <1>6, <2>1, <2>3 DEF AddExisting, Goto, TypeInv, TypeOK, Refs
<1>7. ASSUME NEW t \in Adders, AddReset(t) PROVE TypeInv'
  <2>1. ptr[t] \in Cells
      BY <1>7 DEF AddReset, TypeInv, TypeOK, Refs
  <2>2. Reset(pending[ptr[t]]) \in pending_item_t
      BY <1>a, <1>b, <2>1, Items
  <2>3. pending' \in [Cells -> pending_item_t]
      BY <1>7, <1>a, <2>1, <2>2, PoolStep DEF AddReset
  <2> QED
      BY <1>7, <2>3 DEF AddReset, Goto, TypeInv, TypeOK, Refs
<1>8. ASSUME NEW t \in Adders, AddOccupy(t) PROVE TypeInv'
    BY <1>8 DEF AddOccupy, Goto, TypeInv, TypeOK, Refs
<1>9. ASSUME NEW t \in Adders, AddName(t) PROVE TypeInv'
  <2>1. ptr[t] \in Cells
      BY <1>9 DEF AddName, TypeInv, TypeOK, Refs
  <2>2. Named(pending[ptr[t]], AddArgs(t).nodeid) \in pending_item_t
      BY <1>9, <1>a, <1>b, <1>c, <2>1, Items DEF AddName
  <2>3. pending' \in [Cells -> pending_item_t]
      BY <1>9, <1>a, <2>1, <2>2, PoolStep DEF AddName
  <2> QED
      BY <1>9, <2>3 DEF AddName, Goto, TypeInv, TypeOK, Refs
<1>10. ASSUME NEW t \in Adders, AddInitialize(t) PROVE TypeInv'
  <2>1. ptr[t] \in Cells
      BY <1>10 DEF AddInitialize, TypeInv, TypeOK, Refs
  <2>2. NewItem(AddArgs(t)) \in pending_item_t
      BY <1>10, <1>c, FifoTypes DEF AddInitialize, NewItem, pending_item_t, Class
  <2>3. pending' \in [Cells -> pending_item_t]
      BY <1>10, <1>a, <2>1, <2>2, PoolStep DEF AddInitialize
  <2> QED
      BY <1>10, <2>3 DEF AddInitialize, Goto, TypeInv, TypeOK, Refs
<1>11. ASSUME NEW t \in Adders, AddFull(t) PROVE TypeInv'
    BY <1>11 DEF AddFull, Goto, TypeInv, TypeOK, Refs
<1>12. ASSUME NEW r \in Replies, ServeAdd(r) PROVE TypeInv'
    BY <1>12, EnvironmentAssumption DEF ServeAdd, Take, Goto, Reply, TypeInv, TypeOK, Refs
<1>13. CASE Added
    BY <1>13 DEF Added, ReplyDone, NoReply, Reply, Goto, TypeInv, TypeOK, Refs
<1>14. CASE Notify
  <2>1. ptr["publisher"] \in Cells /\ reply \in Reply
      BY <1>14 DEF Notify, TypeInv, TypeOK, Refs
  <2>2. pending[ptr["publisher"]].num_pending \in Nat
      BY <1>b, <2>1, ItemFields
  <2> QED
      BY <1>14, <2>1, <2>2 DEF Notify, ReplyDone, NoReply, Reply, Goto, TypeInv, TypeOK, Refs
<1>15. ASSUME NEW r \in Replies, ServeLookup(r) PROVE TypeInv'
    BY <1>15, EnvironmentAssumption DEF ServeLookup, Take, Goto, Reply, TypeInv, TypeOK, Refs
<1>16. CASE Kick
  <2>1. ASSUME NEW c \in Cells PROVE Emptied(pending[c]) \in pending_item_t
      BY <1>a, <1>b, Items
  <2>2. pending' \in [Cells -> pending_item_t]
      BY <1>16, <1>a, <2>1, PoolStep DEF Kick
  <2>3. pending_free' \in [Cells -> BOOLEAN]
      BY <1>16 DEF Kick, TypeInv, TypeOK, Refs
  <2> QED
      BY <1>16, <2>2, <2>3 DEF Kick, ReplyDone, NoReply, Reply, Goto, TypeInv, TypeOK, Refs
<1>17. CASE Ack
  <2>1. ptr["publisher"] \in Cells
      BY <1>17 DEF Ack, TypeInv, TypeOK, Refs
  <2>2. Acked(pending[ptr["publisher"]]) \in pending_item_t
      BY <1>a, <1>b, <2>1, Items
  <2>3. pending' \in [Cells -> pending_item_t]
      BY <1>17, <1>a, <2>1, <2>2, PoolStep DEF Ack
  <2> QED
      BY <1>17, <2>3 DEF Ack, ReplyDone, NoReply, Goto, TypeInv, TypeOK, Refs
<1>18. CASE Request
  <2>1. ptr["publisher"] \in Cells
      BY <1>18 DEF Request, TypeInv, TypeOK, Refs
  <2>2. Requested(pending[ptr["publisher"]]) \in pending_item_t
      BY <1>a, <1>b, <2>1, Items
  <2>3. pending' \in [Cells -> pending_item_t]
      BY <1>18, <1>a, <2>1, <2>2, PoolStep DEF Request
  <2> QED
      BY <1>18, <2>3 DEF Request, ReplyDone, NoReply, Goto, TypeInv, TypeOK, Refs
<1>19. CASE WorkerLock
    BY <1>19 DEF WorkerLock, Goto, TypeInv, TypeOK, Refs
<1>20. ASSUME pending_worker, pc["worker"] # "idle"
       PROVE  i \in Cells /\ cell \in pending_item_t
    BY <1>20, <1>b DEF cell, TypeInv, TypeOK, Refs
<1>21. CASE Skip
    BY <1>21 DEF Skip, At, NextCell, WorkerGoto, NoFrame, TypeInv, TypeOK, Refs
<1>22. CASE GiveUpInvite \/ GiveUpSend
  <2>1. i \in Cells /\ cell \in pending_item_t
      BY <1>22, <1>20 DEF pending_worker, GiveUpInvite, GiveUpSend, HasMessage, At
  <2>2. GivenUp(cell) \in pending_item_t /\ cell.nodeid \in Nodes \cup {NoNode}
      BY <1>a, <2>1, Items, ItemFields
  <2>3. pending' \in [Cells -> pending_item_t]
      BY <1>22, <1>a, <2>1, <2>2, PoolStep DEF GiveUpInvite, GiveUpSend, GiveUp, cell
  <2>4. cell.fifo # <<>> => Head(cell.fifo).id \in Nat
    <3>1. cell.fifo \in Seq(Frame)
        BY <2>1, ItemFields
    <3> QED
        BY <3>1, FifoHead
  <2>5. out' \in Output
      BY <1>22, <2>2, <2>4 DEF GiveUpInvite, GiveUpSend, GiveUp, HasMessage
  <2> QED
      BY <1>22, <2>1, <2>3, <2>5 DEF GiveUpInvite, GiveUpSend, HasMessage, At, NextCell, WorkerGoto, NoFrame, TypeInv, TypeOK, Refs
<1>23. CASE StartInvite \/ DoInvite
  <2>1. i \in Cells /\ cell \in pending_item_t
      BY <1>23, <1>20 DEF pending_worker, StartInvite, DoInvite, HasMessage, At
  <2>2. InvitedAgain(cell) \in pending_item_t /\ cell.nodeid \in Nodes \cup {NoNode}
      BY <1>a, <2>1, Items, ItemFields
  <2>3. pending' \in [Cells -> pending_item_t]
      BY <1>23, <1>a, <2>1, <2>2, PoolStep DEF StartInvite, DoInvite, InviteAttempt, cell
  <2>4. out' \in Output
      BY <1>23, <2>2 DEF StartInvite, DoInvite
  <2> QED
      BY <1>23, <2>1, <2>3, <2>4 DEF StartInvite, DoInvite, InviteAttempt, Resetting, HasMessage, At, NextCell, WorkerGoto, NoFrame, TypeInv, TypeOK, Refs
<1>24. CASE StartSend
  <2>1. i \in Cells /\ cell \in pending_item_t
      BY <1>24, <1>20 DEF pending_worker, StartSend, HasMessage, At
  <2>2. Attempted(cell) \in pending_item_t
      BY <1>a, <2>1, Items
  <2>3. pending' \in [Cells -> pending_item_t]
      BY <1>24, <1>a, <2>1, <2>2, PoolStep DEF StartSend, cell
  <2>4. buf' \in Frame
      BY <1>24, <2>1, ItemFields DEF StartSend, HasMessage
  <2> QED
      BY <1>24, <2>1, <2>3, <2>4 DEF StartSend, Resetting, WorkerGoto, HasMessage, At, TypeInv, TypeOK, Refs
<1>25. CASE DoSend
  <2>1. i \in Cells /\ cell \in pending_item_t
      BY <1>25, <1>20 DEF pending_worker, DoSend, At
  <2>2. Transmitted(cell) \in pending_item_t
      BY <1>a, <2>1, Items
  <2>3. pending' \in [Cells -> pending_item_t]
      BY <1>25, <1>a, <2>1, <2>2, PoolStep DEF DoSend, cell
  <2>4. buf.to \in Nodes /\ buf.id \in Nat
      BY <1>25 DEF DoSend, At, Frame, TypeInv, TypeOK, Refs
  <2> QED
      BY <1>25, <2>1, <2>3, <2>4 DEF DoSend, At, NextCell, WorkerGoto, NoFrame, TypeInv, TypeOK, Refs
<1>26. CASE Tick
  <2>1. \A c \in Cells : Aged(pending[c]) \in pending_item_t
      BY <1>a, <1>b, Items
  <2>2. pending' \in [Cells -> pending_item_t]
      BY <1>26, <2>1 DEF Tick
  <2>3. current' \in 0..MaxAge
      BY <1>26, <1>a DEF Tick, Smaller
  <2> QED
      BY <1>26, <2>2, <2>3 DEF Tick, TypeInv, TypeOK, Refs
<1>27. CASE UNCHANGED vars
    BY <1>27 DEF vars, TypeInv, TypeOK, Refs
<1> QED
    BY <1>1, <1>2, <1>3, <1>4, <1>5, <1>6, <1>7, <1>8, <1>9, <1>10, <1>11, <1>12, <1>13, <1>14,
       <1>15, <1>16, <1>17, <1>18, <1>19, <1>21, <1>22, <1>23, <1>24, <1>25, <1>26, <1>27
    DEF Next, message_to_mote, add_device, serve_reply, Serve, pending_worker

\* Every variable keeps its type, and no thread uses a local it has not set.
THEOREM TypeCorrect == Spec => []TypeOK
<1>1. TypeInv => TypeOK
    BY DEF TypeInv
<1> QED
    BY InitType, NextType, <1>1, PTL DEF Spec

------------------------------------------------------------------------------
(* One cell per node.  The scans of add_device and of the worker exclude each other
   (MutexInv); the thread that marked a cell keeps it, no settled cell bears the
   name it is about to write, and once written the name stays (OwnInv). *)
InCell(t) == pc[t] \in {"occupied", "named"}

MutexInv ==
    /\ mutex_pending = "worker" <=> pc["worker"] # "idle"
    /\ \A t \in Adders : mutex_pending = t <=> InCell(t)

OwnInv == \A t \in Adders :
    /\ InCell(t) => ~pending_free[ptr[t]]
    /\ pc[t] = "occupied" =>
          \A c \in Cells : Settled(c) => pending[c].nodeid # AddArgs(t).nodeid
    /\ pc[t] = "named" => pending[ptr[t]].nodeid = AddArgs(t).nodeid

CellInv == TypeInv /\ MutexInv /\ OwnInv /\ UniqueCell

(* What most steps keep: which cells are taken, the names in them, and what the
   threads inside add_device hold. *)
Keeps ==
    /\ pending_free' = pending_free
    /\ \A c \in Cells : pending'[c].nodeid = pending[c].nodeid
    /\ \A t \in Adders :
        /\ pc'[t] = "occupied" <=> pc[t] = "occupied"
        /\ pc'[t] = "named" => pc[t] = "named"
        /\ InCell(t) => ptr'[t] = ptr[t]
    /\ InCell("mqtt") => msg' = msg
    /\ InCell("publisher") => reply' = reply

LEMMA KeepsCell == ASSUME CellInv, Keeps PROVE OwnInv' /\ UniqueCell'
<1>1. \A t \in Adders : InCell(t) => AddArgs(t)'.nodeid = AddArgs(t).nodeid
    BY DEF Keeps, AddArgs, Adders
<1>2. \A t \in Adders : InCell(t) => ptr[t] \in Cells /\ ptr'[t] = ptr[t]
    BY DEF Keeps, CellInv, TypeInv, Refs, Adders, InCell
<1>3. \A c \in Cells : Settled(c)' <=> Settled(c)
    BY <1>2 DEF Keeps, Settled, Adders, InCell
<1>4. UniqueCell'
    BY <1>3 DEF Keeps, CellInv, UniqueCell
<1>5. ASSUME NEW t \in Adders
      PROVE  /\ InCell(t)' => ~pending_free'[ptr'[t]]
             /\ pc'[t] = "occupied" =>
                   \A c \in Cells : Settled(c)' => pending'[c].nodeid # AddArgs(t)'.nodeid
             /\ pc'[t] = "named" => pending'[ptr'[t]].nodeid = AddArgs(t)'.nodeid
    BY <1>1, <1>2, <1>3 DEF Keeps, CellInv, OwnInv, InCell
<1> QED
    BY <1>4, <1>5 DEF OwnInv

LEMMA NameKept ==
    ASSUME pending \in [Cells -> pending_item_t], NEW c \in Cells, NEW r,
           pending' = [pending EXCEPT ![c] = r], r.nodeid = pending[c].nodeid
    PROVE  \A d \in Cells : pending'[d].nodeid = pending[d].nodeid
OBVIOUS

LEMMA WorkerKeeps ==
    ASSUME TypeInv, NEW l, NEW lost \in SUBSET Resetting, WorkerGoto(l, lost)
    PROVE  /\ pc'["worker"] = l
           /\ \A t \in Adders : pc'[t] = pc[t] \/ (pc[t] = "reset" /\ pc'[t] = "added")
BY DEF WorkerGoto, Resetting, Threads, Adders

LEMMA NextKeeps ==
    ASSUME CellInv, [Next]_vars, ~Kick, \A t \in Adders : ~AddOccupy(t) /\ ~AddName(t)
    PROVE  Keeps
<1>a. /\ pending \in [Cells -> pending_item_t] /\ current \in 0..MaxAge
      /\ \A c \in Cells : pending[c] \in pending_item_t
    BY DEF CellInv, TypeInv, TypeOK
<1>b. /\ DOMAIN pc = Threads /\ DOMAIN ptr = Adders
      /\ pc["worker"] \in {"idle", "scan", "send", "invite"}
    BY DEF CellInv, TypeInv, TypeOK, Refs, Adders
<1>c. \A t \in Adders : InCell(t) => mutex_pending = t
    BY DEF CellInv, MutexInv
<1> USE DEF Adders, Threads, Free, InCell
<1> DEFINE NamesKept == \A c \in Cells : pending'[c].nodeid = pending[c].nodeid
<1>1. ASSUME NEW n \in Nodes, Submit(n) PROVE Keeps
    BY <1>1, <1>b DEF Submit, Goto, pool, Keeps
<1>2. CASE MoteKnown
    BY <1>2, <1>b DEF MoteKnown, Goto, pool, Keeps
<1>3. CASE MoteUnknown
    BY <1>3, <1>b DEF MoteUnknown, MqttDone, Goto, pool, Keeps
<1>4. CASE Relookup
    BY <1>4, <1>b DEF Relookup, MqttDone, Goto, pool, Keeps
<1>5. CASE Enqueue
  <2>1. ptr["mqtt"] \in Cells /\ msg \in Frame
      BY <1>5 DEF Enqueue, CellInv, TypeInv, Refs
  <2>2. NamesKept
    <3>1. CASE UNCHANGED pending
        BY <3>1
    <3>2. CASE pending' = [pending EXCEPT ![ptr["mqtt"]] = Enqueued(@, msg)]
      <4>1. Enqueued(pending[ptr["mqtt"]], msg).nodeid = pending[ptr["mqtt"]].nodeid
          BY <1>a, <2>1, Items
      <4> QED
          BY <3>2, <1>a, <2>1, <4>1, NameKept
    <3> QED
        BY <1>5, <3>1, <3>2 DEF Enqueue
  <2> QED
      BY <1>5, <1>b, <2>2 DEF Enqueue, MqttDone, Goto, Keeps
<1>6. ASSUME NEW t \in Adders, AddExisting(t) PROVE Keeps
  <2>1. PICK c \in Cells : pending' = [pending EXCEPT ![c] = Rejoined(@, AddArgs(t))]
      BY <1>6 DEF AddExisting
  <2>2. AddArgs(t).nodeclass \in Class
      BY <1>6 DEF AddExisting, AddArgs, Class, Reply, CellInv, TypeInv, Refs
  <2>3. Rejoined(pending[c], AddArgs(t)).nodeid = pending[c].nodeid
      BY <1>a DEF Rejoined, pending_item_t
  <2>4. NamesKept
      BY <1>a, <2>1, <2>3, NameKept
  <2> QED
      BY <1>6, <1>b, <1>c, <2>4 DEF AddExisting, Goto, Keeps
<1>7. ASSUME NEW t \in Adders, AddReset(t) PROVE Keeps
  <2>1. ptr[t] \in Cells
      BY <1>7 DEF AddReset, CellInv, TypeInv, Refs
  <2>2. NamesKept
      BY <1>7, <1>a, <2>1, Items, NameKept DEF AddReset
  <2> QED
      BY <1>7, <1>b, <2>2 DEF AddReset, Goto, Keeps
<1>8. ASSUME NEW t \in Adders, AddInitialize(t) PROVE Keeps
  <2>1. ptr[t] \in Cells /\ pending[ptr[t]].nodeid = AddArgs(t).nodeid
      BY <1>8 DEF AddInitialize, CellInv, TypeInv, Refs, OwnInv
  <2>2. NewItem(AddArgs(t)).nodeid = AddArgs(t).nodeid
      BY DEF NewItem
  <2>3. NamesKept
      BY <1>8, <1>a, <2>1, <2>2, NameKept DEF AddInitialize
  <2> QED
      BY <1>8, <1>b, <2>3 DEF AddInitialize, Goto, Keeps
<1>9. ASSUME NEW t \in Adders, AddFull(t) PROVE Keeps
    BY <1>9, <1>b DEF AddFull, Goto, pool, Keeps
<1>10. ASSUME NEW r \in Replies, ServeAdd(r) PROVE Keeps
    BY <1>10, <1>b DEF ServeAdd, Take, Goto, pool, Keeps
<1>11. CASE Added
    BY <1>11, <1>b DEF Added, ReplyDone, Goto, pool, Keeps
<1>12. CASE Notify
    BY <1>12, <1>b DEF Notify, ReplyDone, Goto, pool, Keeps
<1>13. ASSUME NEW r \in Replies, ServeLookup(r) PROVE Keeps
    BY <1>13, <1>b DEF ServeLookup, Take, Goto, pool, Keeps
<1>14. CASE Ack
  <2>1. ptr["publisher"] \in Cells
      BY <1>14 DEF Ack, CellInv, TypeInv, Refs
  <2>2. NamesKept
      BY <1>14, <1>a, <2>1, Items, NameKept DEF Ack
  <2> QED
      BY <1>14, <1>b, <2>2 DEF Ack, ReplyDone, Goto, Keeps
<1>15. CASE Request
  <2>1. ptr["publisher"] \in Cells
      BY <1>15 DEF Request, CellInv, TypeInv, Refs
  <2>2. NamesKept
      BY <1>15, <1>a, <2>1, Items, NameKept DEF Request
  <2> QED
      BY <1>15, <1>b, <2>2 DEF Request, ReplyDone, Goto, Keeps
<1>16. CASE WorkerLock
    BY <1>16, <1>b DEF WorkerLock, Goto, pool, Keeps
<1>w. ASSUME NEW l, NEW lost \in SUBSET Resetting, WorkerGoto(l, lost), UNCHANGED others, NamesKept
      PROVE  Keeps
    BY <1>w, WorkerKeeps DEF others, Keeps, CellInv
<1>x. ASSUME NEW lost \in SUBSET Resetting, NextCell(lost), UNCHANGED others, NamesKept
      PROVE  Keeps
    BY <1>x, <1>w DEF NextCell
<1>y. i \in Cells \/ pc["worker"] = "idle"
    BY DEF CellInv, TypeInv, Refs
<1>17. CASE Skip
    BY <1>17, <1>x DEF Skip
<1>18. CASE GiveUpInvite \/ GiveUpSend
  <2>1. i \in Cells
      BY <1>18, <1>y DEF GiveUpInvite, GiveUpSend, HasMessage, At
  <2>2. UNCHANGED pending \/ pending' = [pending EXCEPT ![i] = GivenUp(@)]
      BY <1>18 DEF GiveUpInvite, GiveUpSend, GiveUp
  <2>3. NamesKept
      BY <1>a, <2>1, <2>2, Items, NameKept
  <2> QED
      BY <1>18, <1>x, <2>3 DEF GiveUpInvite, GiveUpSend
<1>19. ASSUME NEW lost \in SUBSET Resetting, InviteAttempt(lost), UNCHANGED others, i \in Cells
       PROVE  Keeps
  <2>1. NamesKept
      BY <1>19, <1>a, Items, NameKept DEF InviteAttempt
  <2> QED
      BY <1>19, <1>x, <2>1 DEF InviteAttempt
<1>20. CASE StartInvite
  <2>1. i \in Cells
      BY <1>20, <1>y DEF StartInvite, HasMessage, At
  <2>2. CASE WorkerGoto("invite", {}) /\ UNCHANGED pending
      BY <1>20, <1>w, <2>2 DEF StartInvite
  <2>3. CASE \E lost \in SUBSET Resetting : InviteAttempt(lost)
      BY <1>20, <1>19, <2>1, <2>3 DEF StartInvite
  <2> QED
      BY <1>20, <2>2, <2>3 DEF StartInvite
<1>21. CASE DoInvite
    BY <1>21, <1>19, <1>y DEF DoInvite, At
<1>22. CASE StartSend
  <2>1. i \in Cells
      BY <1>22, <1>y DEF StartSend, HasMessage, At
  <2>2. NamesKept
      BY <1>22, <1>a, <2>1, Items, NameKept DEF StartSend
  <2> QED
      BY <1>22, <1>w, <2>2 DEF StartSend
<1>23. CASE DoSend
  <2>1. i \in Cells
      BY <1>23, <1>y DEF DoSend, At
  <2>2. NamesKept
      BY <1>23, <1>a, <2>1, Items, NameKept DEF DoSend
  <2> QED
      BY <1>23, <1>x, <2>2 DEF DoSend
<1>24. CASE Tick
  <2>1. NamesKept
      BY <1>24, <1>a, Items DEF Tick
  <2> QED
      BY <1>24, <2>1 DEF Tick, Keeps
<1>25. CASE UNCHANGED vars
    BY <1>25 DEF vars, Keeps
<1> QED
    BY <1>1, <1>2, <1>3, <1>4, <1>5, <1>6, <1>7, <1>8, <1>9, <1>10, <1>11, <1>12, <1>13, <1>14,
       <1>15, <1>16, <1>17, <1>18, <1>20, <1>21, <1>22, <1>23, <1>24, <1>25
    DEF Next, message_to_mote, add_device, serve_reply, Serve, pending_worker

(* mutex_pending passes from Free to one thread and back. *)
LEMMA NextMutex == ASSUME CellInv, [Next]_vars PROVE MutexInv'
<1>b. /\ DOMAIN pc = Threads /\ pc["worker"] \in {"idle", "scan", "send", "invite"}
      /\ MutexInv
    BY DEF CellInv, TypeInv, TypeOK, Refs
<1> USE DEF Adders, Threads, Free, InCell
<1>r. ASSUME NEW t \in Adders, mutex_pending = Free, mutex_pending' = Free,
             \A u \in Threads : pc'[u] = pc[u] \/ (u = t /\ pc'[u] \notin {"occupied", "named"})
      PROVE  MutexInv'
    BY <1>r, <1>b DEF MutexInv
<1>s. ASSUME NEW t \in Adders, mutex_pending' = mutex_pending,
             \A u \in Threads : pc'[u] = pc[u] \/ (u = t /\ ~InCell(u) /\ ~InCell(u)')
      PROVE  MutexInv'
    BY <1>s, <1>b DEF MutexInv
<1>1. ASSUME NEW n \in Nodes, Submit(n) PROVE MutexInv'
    BY <1>1, <1>b, <1>s DEF Submit, Goto
<1>2. CASE MoteKnown \/ MoteUnknown \/ Relookup
    BY <1>2, <1>b, <1>s DEF MoteKnown, MoteUnknown, Relookup, MqttDone, Goto
<1>3. CASE Enqueue
    BY <1>3, <1>b, <1>s DEF Enqueue, MqttDone, Goto
<1>4. ASSUME NEW t \in Adders, AddExisting(t) \/ AddReset(t) \/ AddFull(t) PROVE MutexInv'
    BY <1>4, <1>b, <1>s DEF AddExisting, AddReset, AddFull, Goto
<1>5. ASSUME NEW t \in Adders, AddOccupy(t) PROVE MutexInv'
    BY <1>5, <1>b DEF AddOccupy, Goto, MutexInv
<1>6. ASSUME NEW t \in Adders, AddName(t) PROVE MutexInv'
    BY <1>6, <1>b DEF AddName, Goto, MutexInv
<1>7. ASSUME NEW t \in Adders, AddInitialize(t) PROVE MutexInv'
    BY <1>7, <1>b DEF AddInitialize, Goto, MutexInv
<1>8. ASSUME NEW r \in Replies, ServeAdd(r) \/ ServeLookup(r) PROVE MutexInv'
    BY <1>8, <1>b, <1>s DEF ServeAdd, ServeLookup, Take, Goto
<1>9. CASE Added \/ Notify \/ Kick \/ Ack \/ Request
    BY <1>9, <1>b, <1>s DEF Added, Notify, Kick, Ack, Request, ReplyDone, Goto
<1>10. CASE WorkerLock
    BY <1>10, <1>b DEF WorkerLock, Goto, MutexInv
<1>w. ASSUME NEW l, NEW lost \in SUBSET Resetting, WorkerGoto(l, lost), pc["worker"] # "idle",
             mutex_pending' = IF l = "idle" THEN Free ELSE mutex_pending
      PROVE  MutexInv'
  <2>1. /\ pc'["worker"] = l
        /\ \A t \in Adders : InCell(t)' <=> InCell(t)
      BY <1>w, WorkerKeeps DEF CellInv
  <2> QED
      BY <1>w, <1>b, <2>1 DEF MutexInv
<1>x. ASSUME NEW lost \in SUBSET Resetting, NextCell(lost), pc["worker"] # "idle" PROVE MutexInv'
    BY <1>x, <1>w DEF NextCell
<1>11. CASE Skip \/ GiveUpInvite \/ GiveUpSend \/ DoSend
    BY <1>11, <1>x DEF Skip, GiveUpInvite, GiveUpSend, DoSend, HasMessage, At
<1>12. CASE StartInvite \/ DoInvite
    BY <1>12, <1>w, <1>x DEF StartInvite, DoInvite, InviteAttempt, HasMessage, At
<1>13. CASE StartSend
    BY <1>13, <1>w DEF StartSend, HasMessage, At
<1>14. CASE Tick
    BY <1>14, <1>b DEF Tick, MutexInv
<1>15. CASE UNCHANGED vars
    BY <1>15, <1>b DEF vars, MutexInv
<1> QED
    BY <1>1, <1>2, <1>3, <1>4, <1>5, <1>6, <1>7, <1>8, <1>9, <1>10, <1>11, <1>12, <1>13, <1>14, <1>15
    DEF Next, message_to_mote, add_device, serve_reply, Serve, pending_worker

LEMMA InitCell == Init => CellInv
BY InitType, Constants
DEF Init, init_pending, CellInv, MutexInv, OwnInv, UniqueCell, Settled, InCell, Adders, Threads, Free

LEMMA NextCellInv == CellInv /\ [Next]_vars => CellInv'
<1> SUFFICES ASSUME CellInv, [Next]_vars PROVE OwnInv' /\ UniqueCell'
    BY NextType, NextMutex DEF CellInv
<1>a. /\ pending \in [Cells -> pending_item_t]
      /\ \A c \in Cells : pending[c] \in pending_item_t
      /\ pending_free \in [Cells -> BOOLEAN]
      /\ DOMAIN pc = Threads /\ DOMAIN ptr = Adders
      /\ MutexInv /\ OwnInv /\ UniqueCell
    BY DEF CellInv, TypeInv, TypeOK, Adders
<1>b. \A t \in Adders : InCell(t) => ptr[t] \in Cells
    BY DEF CellInv, TypeInv, Refs, Adders, InCell
<1>c. \A t, u \in Adders : InCell(t) /\ InCell(u) => t = u
    BY <1>a DEF MutexInv
<1> USE DEF Adders, Threads, Free
<1>1. ASSUME NEW t \in Adders, AddOccupy(t) PROVE OwnInv' /\ UniqueCell'
  <2> DEFINE n == AddArgs(t).nodeid
  <2>1. PICK e \in Cells : /\ pending_free[e] /\ ptr' = [ptr EXCEPT ![t] = e]
                           /\ pending_free' = [pending_free EXCEPT ![e] = FALSE]
      BY <1>1 DEF AddOccupy
  <2>2. \A u \in Adders : ~InCell(u)
      BY <1>1, <1>a DEF AddOccupy, MutexInv
  <2>3. /\ pc' = [pc EXCEPT ![t] = "occupied"] /\ pending' = pending
        /\ msg' = msg /\ reply' = reply /\ AddArgs(t)' = AddArgs(t)
      BY <1>1 DEF AddOccupy, Goto, AddArgs
  <2>4. \A u \in Adders : InCell(u)' => u = t
      BY <1>a, <2>2, <2>3 DEF InCell
  <2>5. ptr'[t] = e /\ pc'[t] = "occupied" /\ ~pending_free'[e]
      BY <1>a, <2>1, <2>3
  <2>6. \A c \in Cells : Settled(c)' => c # e /\ ~pending_free[c] /\ Settled(c)
      BY <1>a, <2>1, <2>2, <2>5 DEF Settled, InCell
  <2>7. \A c \in Cells : ~pending_free[c] => pending[c].nodeid # n
      BY <1>1 DEF AddOccupy, Occupied
  <2>8. UniqueCell'
      BY <1>a, <2>3, <2>6 DEF UniqueCell
  <2> QED
      BY <2>3, <2>4, <2>5, <2>6, <2>7, <2>8 DEF OwnInv, InCell
<1>2. ASSUME NEW t \in Adders, AddName(t) PROVE OwnInv' /\ UniqueCell'
  <2> DEFINE n == AddArgs(t).nodeid
             e == ptr[t]
  <2>1. /\ pc[t] = "occupied" /\ InCell(t) /\ e \in Cells /\ n \in Nodes
        /\ pc' = [pc EXCEPT ![t] = "named"] /\ pending' = [pending EXCEPT ![e] = Named(@, n)]
        /\ pending_free' = pending_free /\ ptr' = ptr /\ AddArgs(t)' = AddArgs(t)
      BY <1>2, <1>b DEF AddName, Goto, AddArgs, InCell, CellInv, TypeInv, Refs, Frame, Reply
  <2>2. Named(pending[e], n).nodeid = n
      BY <1>a, <2>1 DEF Named, pending_item_t
  <2>3. pending'[e].nodeid = n /\ \A c \in Cells \ {e} : pending'[c] = pending[c]
      BY <1>a, <2>1, <2>2
  <2>4. \A u \in Adders : InCell(u)' => u = t
      BY <1>a, <1>c, <2>1 DEF InCell
  <2>5. pc'[t] = "named" /\ ~pending_free'[e]
      BY <1>a, <2>1 DEF OwnInv
  <2>6. \A c \in Cells : Settled(c)' => Settled(c) \/ c = e
      BY <1>a, <1>c, <2>1 DEF Settled, InCell
  <2>7. \A c \in Cells : Settled(c) => c # e /\ pending[c].nodeid # n
      BY <1>a, <2>1 DEF OwnInv, Settled
  <2>8. UniqueCell'
      BY <1>a, <2>3, <2>6, <2>7 DEF UniqueCell
  <2> HIDE DEF n, e
  <2>9. ptr'[t] = e /\ AddArgs(t)'.nodeid = n
      BY <2>1 DEF n, e
  <2> QED
      BY <2>3, <2>4, <2>5, <2>8, <2>9 DEF OwnInv, InCell
<1>3. CASE Kick
  <2>1. \A u \in Adders : ~InCell(u)
      BY <1>3, <1>a DEF Kick, MutexInv
  <2>2. \A u \in Adders : ~InCell(u)'
      BY <1>3, <1>a, <2>1 DEF Kick, ReplyDone, Goto, InCell
  <2>3. \A c \in Cells : pending_free[c] => pending_free'[c]
      BY <1>3, <1>a DEF Kick, pool
  <2>4. \A c \in Cells : pending'[c].nodeid = pending[c].nodeid
    <3>1. CASE UNCHANGED pending
        BY <3>1
    <3>2. ASSUME NEW e \in Cells, pending' = [pending EXCEPT ![e] = Emptied(@)]
          PROVE  \A c \in Cells : pending'[c].nodeid = pending[c].nodeid
      <4>1. Emptied(pending[e]).nodeid = pending[e].nodeid
          BY <1>a DEF Emptied, pending_item_t
      <4> QED
          BY <3>2, <1>a, <4>1, NameKept
    <3> QED
        BY <1>3, <3>1, <3>2 DEF Kick, pool
  <2>5. \A c \in Cells : Settled(c)' => Settled(c)
      BY <2>1, <2>2, <2>3 DEF Settled, InCell
  <2> QED
      BY <1>a, <2>2, <2>4, <2>5 DEF OwnInv, UniqueCell, InCell
<1> QED
    BY <1>1, <1>2, <1>3, NextKeeps, KeepsCell

\* One cell per node, whatever the sizes, the gate and the order of the threads.
THEOREM OneCellPerNode == Spec => []UniqueCell
<1>1. CellInv => UniqueCell
    BY DEF CellInv
<1> QED
    BY InitCell, NextCellInv, <1>1, PTL DEF Spec

------------------------------------------------------------------------------
(* Attempts.  Before an invitation the worker has checked num_retries, and until it
   has written to the UART nothing but the unlocked reset touches its cell. *)
RetryBound == \A c \in Cells : pending[c].num_retries <= Larger(NumRetries, NumRetriesInv) + 1
AttemptInv ==
    /\ RetryBound /\ WorkerCellStable
    /\ At("invite") => cell.num_retries <= NumRetriesInv

WorkerInv == CellInv /\ AttemptInv

LEMMA InitWorker == Init => WorkerInv
BY InitCell, LimitsAssumption
DEF Init, init_pending, WorkerInv, AttemptInv, RetryBound, WorkerCellStable, At, Threads, Larger

LEMMA NextWorker == WorkerInv /\ [Next]_vars => WorkerInv'
<1> SUFFICES ASSUME WorkerInv, [Next]_vars PROVE AttemptInv'
    BY NextCellInv DEF WorkerInv
<1> DEFINE Limit == Larger(NumRetries, NumRetriesInv) + 1
           Busy(j, p, f, l, b) ==
               l \in {"send", "invite"} =>
                   /\ ~f[j] /\ p[j].fifo # <<>>
                   /\ l = "send" => Head(p[j].fifo) = b
                   /\ l = "invite" => p[j].num_retries <= NumRetriesInv
<1>a. /\ pending \in [Cells -> pending_item_t] /\ current \in 0..MaxAge
      /\ \A c \in Cells : pending[c] \in pending_item_t
      /\ DOMAIN pc = Threads /\ DOMAIN ptr = Adders
      /\ pc["worker"] \in {"idle", "scan", "send", "invite"} /\ MutexInv
      /\ i \in Cells \/ pc["worker"] = "idle"
    BY DEF WorkerInv, CellInv, TypeInv, TypeOK, Refs, Adders
<1>b. /\ Limit \in Nat /\ 1 <= Limit /\ NumRetries + 1 <= Limit /\ NumRetriesInv + 1 <= Limit
      /\ NumRetries \in Nat /\ NumRetriesInv \in Nat
    BY LimitsAssumption DEF Larger
<1>c. \A c \in Cells : pending[c].num_retries \in Nat /\ pending[c].num_retries <= Limit
    BY <1>a, ItemFields DEF WorkerInv, AttemptInv, RetryBound
<1>d. Busy(i, pending, pending_free, pc["worker"], buf)
    BY DEF WorkerInv, AttemptInv, WorkerCellStable, At, cell
<1>e. ASSUME Busy(i', pending', pending_free', pc'["worker"], buf'),
             \A c \in Cells : pending'[c].num_retries <= Limit
      PROVE  AttemptInv'
    BY <1>e DEF AttemptInv, RetryBound, WorkerCellStable, At, cell
<1> USE DEF Adders, Threads, Free
<1>i. ASSUME mutex_pending # "worker" PROVE pc["worker"] = "idle"
    BY <1>i, <1>a DEF MutexInv
<1>s. ASSUME UNCHANGED <<pending, pending_free, i, buf>>, pc'["worker"] = pc["worker"]
      PROVE  AttemptInv'
    BY <1>s, <1>c, <1>d, <1>e
<1>p. ASSUME NEW c \in Cells, NEW r, pending' = [pending EXCEPT ![c] = r], r.num_retries <= Limit
      PROVE  \A d \in Cells : pending'[d].num_retries <= Limit
    BY <1>p, <1>a, <1>c
<1>q. ASSUME pc'["worker"] \in {"idle", "scan"}, \A c \in Cells : pending'[c].num_retries <= Limit
      PROVE  AttemptInv'
    BY <1>q, <1>e
<1> HIDE DEF Limit
<1>1. ASSUME NEW n \in Nodes, Submit(n) PROVE AttemptInv'
    BY <1>1, <1>s, <1>a DEF Submit, Goto, pool, worker
<1>2. CASE MoteKnown \/ MoteUnknown \/ Relookup
    BY <1>2, <1>s, <1>a DEF MoteKnown, MoteUnknown, Relookup, MqttDone, Goto, pool, worker
<1>3. CASE Enqueue
  <2>1. pc'["worker"] = "idle" /\ ptr["mqtt"] \in Cells
      BY <1>3, <1>a, <1>i DEF Enqueue, MqttDone, Goto, WorkerInv, CellInv, TypeInv, Refs
  <2>2. Enqueued(pending[ptr["mqtt"]], msg).num_retries <= Limit
      BY <1>a, <1>c, <2>1 DEF Enqueued, pending_item_t
  <2>3. \A c \in Cells : pending'[c].num_retries <= Limit
      BY <1>3, <1>c, <1>p, <2>1, <2>2 DEF Enqueue
  <2> QED
      BY <2>1, <2>3, <1>q
<1>4. ASSUME NEW t \in Adders, AddExisting(t) PROVE AttemptInv'
  <2>1. pc'["worker"] = "idle"
      BY <1>4, <1>a, <1>i DEF AddExisting, Goto
  <2>2. PICK c \in Cells : pending' = [pending EXCEPT ![c] = Rejoined(@, AddArgs(t))]
      BY <1>4 DEF AddExisting
  <2>3. Rejoined(pending[c], AddArgs(t)).num_retries <= Limit
      BY <1>a, <1>c DEF Rejoined, pending_item_t
  <2> QED
      BY <2>1, <2>2, <2>3, <1>p, <1>q
<1>5. ASSUME NEW t \in Adders, AddReset(t) PROVE AttemptInv'
  <2>1. /\ ptr[t] \in Cells /\ pc'["worker"] = pc["worker"]
        /\ pending' = [pending EXCEPT ![ptr[t]] = Reset(@)]
        /\ UNCHANGED <<pending_free, i, buf>>
      BY <1>5, <1>a DEF AddReset, Goto, worker, WorkerInv, CellInv, TypeInv, Refs
  <2>2. Reset(pending[ptr[t]]).num_retries = 0 /\ Reset(pending[ptr[t]]).fifo = pending[ptr[t]].fifo
      BY <1>a, <2>1 DEF Reset, pending_item_t
  <2>3. \A c \in Cells : pending'[c].num_retries <= Limit
    <3>1. Reset(pending[ptr[t]]).num_retries <= Limit
        BY <1>b, <2>2
    <3> QED
        BY <1>p, <2>1, <3>1
  <2>4. \A c \in Cells : /\ pending'[c].fifo = pending[c].fifo
                          /\ pending'[c].num_retries \in {0, pending[c].num_retries}
      BY <1>a, <2>1, <2>2
  <2>5. Busy(i', pending', pending_free', pc'["worker"], buf')
      BY <1>a, <1>b, <1>d, <2>1, <2>4
  <2> QED
      BY <1>e, <2>3, <2>5
<1>6. ASSUME NEW t \in Adders, AddOccupy(t) \/ AddFull(t) PROVE AttemptInv'
    BY <1>6, <1>a, <1>c, <1>i, <1>q DEF AddOccupy, AddFull, Goto, pool
<1>7. ASSUME NEW t \in Adders, AddName(t) \/ AddInitialize(t) PROVE AttemptInv'
  <2>1. ptr[t] \in Cells /\ pc'["worker"] = "idle"
      BY <1>7, <1>a, <1>i DEF AddName, AddInitialize, Goto, MutexInv, InCell, WorkerInv, CellInv, TypeInv, Refs
  <2>2. /\ Named(pending[ptr[t]], AddArgs(t).nodeid).num_retries <= Limit
        /\ NewItem(AddArgs(t)).num_retries <= Limit
      BY <1>a, <1>b, <1>c, <2>1 DEF Named, NewItem, pending_item_t
  <2>3. \A c \in Cells : pending'[c].num_retries <= Limit
      BY <1>7, <1>p, <2>1, <2>2 DEF AddName, AddInitialize
  <2> QED
      BY <2>1, <2>3, <1>q
<1>8. ASSUME NEW r \in Replies, ServeAdd(r) \/ ServeLookup(r) PROVE AttemptInv'
    BY <1>8, <1>s, <1>a DEF ServeAdd, ServeLookup, Take, Goto, pool, worker
<1>9. CASE Added \/ Notify
    BY <1>9, <1>s, <1>a DEF Added, Notify, ReplyDone, Goto, pool, worker
<1>10. CASE Kick
  <2>1. pc'["worker"] = "idle"
      BY <1>10, <1>a, <1>i DEF Kick, ReplyDone, Goto
  <2>2. ASSUME NEW c \in Cells PROVE Emptied(pending[c]).num_retries <= Limit
      BY <1>a, <1>c DEF Emptied, pending_item_t
  <2>3. \A c \in Cells : pending'[c].num_retries <= Limit
      BY <1>10, <1>c, <1>p, <2>2 DEF Kick, pool
  <2> QED
      BY <2>1, <2>3, <1>q
<1>11. CASE Ack \/ Request
  <2>1. ptr["publisher"] \in Cells /\ pc'["worker"] = "idle"
      BY <1>11, <1>a, <1>i DEF Ack, Request, ReplyDone, Goto, WorkerInv, CellInv, TypeInv, Refs
  <2>2. /\ Acked(pending[ptr["publisher"]]).num_retries <= Limit
        /\ Requested(pending[ptr["publisher"]]).num_retries <= Limit
      BY <1>a, <1>b, <1>c, <2>1 DEF Acked, Requested, pending_item_t
  <2>3. \A c \in Cells : pending'[c].num_retries <= Limit
      BY <1>11, <1>p, <2>1, <2>2 DEF Ack, Request
  <2> QED
      BY <2>1, <2>3, <1>q
<1>12. CASE WorkerLock
    BY <1>12, <1>a, <1>c, <1>q DEF WorkerLock, Goto, pool
<1>w. ASSUME NEW l, NEW lost \in SUBSET Resetting, WorkerGoto(l, lost) PROVE pc'["worker"] = l
    BY <1>w, WorkerKeeps DEF WorkerInv, CellInv
<1>x. ASSUME NEW lost \in SUBSET Resetting, NextCell(lost),
             \A c \in Cells : pending'[c].num_retries <= Limit
      PROVE  AttemptInv'
    BY <1>x, <1>w, <1>q DEF NextCell
<1>13. CASE Skip
    BY <1>13, <1>c, <1>x DEF Skip
<1>14. CASE GiveUpInvite \/ GiveUpSend
  <2>1. i \in Cells
      BY <1>14, <1>a DEF GiveUpInvite, GiveUpSend, HasMessage, At
  <2>2. GivenUp(pending[i]).num_retries <= Limit
      BY <1>a, <1>b, <2>1 DEF GivenUp, pending_item_t
  <2>3. \A c \in Cells : pending'[c].num_retries <= Limit
      BY <1>14, <1>c, <1>p, <2>1, <2>2 DEF GiveUpInvite, GiveUpSend, GiveUp
  <2> QED
      BY <1>14, <1>x, <2>3 DEF GiveUpInvite, GiveUpSend
<1>15. ASSUME NEW lost \in SUBSET Resetting, InviteAttempt(lost), i \in Cells,
              pending[i].num_retries <= NumRetriesInv
       PROVE  AttemptInv'
  <2>1. InvitedAgain(pending[i]).num_retries <= Limit
      BY <1>15, <1>a, <1>b, <1>c DEF InvitedAgain, pending_item_t
  <2>2. \A c \in Cells : pending'[c].num_retries <= Limit
      BY <1>15, <1>p, <2>1 DEF InviteAttempt
  <2> QED
      BY <1>15, <1>x, <2>2 DEF InviteAttempt
<1>16. CASE StartInvite
  <2>1. i \in Cells /\ pending[i].num_retries <= NumRetriesInv
      BY <1>16, <1>a DEF StartInvite, HasMessage, At, cell
  <2>2. CASE WorkerGoto("invite", {}) /\ UNCHANGED <<pending, mutex_pending, worker>>
    <3>1. Busy(i', pending', pending_free', pc'["worker"], buf')
        BY <1>16, <1>w, <2>1, <2>2 DEF StartInvite, HasMessage, cell, others, worker
    <3> QED
        BY <1>c, <1>e, <2>2, <3>1
  <2>3. CASE \E lost \in SUBSET Resetting : InviteAttempt(lost)
      BY <1>15, <2>1, <2>3
  <2> QED
      BY <1>16, <2>2, <2>3 DEF StartInvite
<1>17. CASE DoInvite
    BY <1>17, <1>15, <1>a, <1>d DEF DoInvite, At
<1>18. CASE StartSend
  <2>1. i \in Cells /\ pending[i].num_retries <= NumRetries
      BY <1>18, <1>a DEF StartSend, HasMessage, At, cell
  <2>2. /\ Attempted(pending[i]).num_retries <= Limit
        /\ Attempted(pending[i]).fifo = pending[i].fifo
      BY <1>a, <1>b, <1>c, <2>1 DEF Attempted, pending_item_t
  <2>3. \A c \in Cells : pending'[c].num_retries <= Limit
      BY <1>18, <1>p, <2>1, <2>2 DEF StartSend
  <2>4. pending'[i].fifo = pending[i].fifo
      BY <1>18, <1>a, <2>1, <2>2 DEF StartSend
  <2>5. /\ i' = i /\ pc'["worker"] = "send" /\ buf' = Head(pending[i].fifo)
        /\ ~pending_free'[i] /\ pending[i].fifo # <<>>
      BY <1>18, <1>w DEF StartSend, HasMessage, cell, others
  <2>6. Busy(i', pending', pending_free', pc'["worker"], buf')
      BY <2>4, <2>5
  <2> QED
      BY <1>e, <2>3, <2>6
<1>19. CASE DoSend
  <2>1. i \in Cells
      BY <1>19, <1>a DEF DoSend, At
  <2>2. Transmitted(pending[i]).num_retries <= Limit
      BY <1>a, <1>b, <1>c, <2>1 DEF Transmitted, pending_item_t
  <2>3. \A c \in Cells : pending'[c].num_retries <= Limit
      BY <1>19, <1>p, <2>1, <2>2 DEF DoSend
  <2> QED
      BY <1>19, <1>x, <2>3 DEF DoSend
<1>20. CASE Tick
  <2>1. \A c \in Cells : /\ pending'[c].num_retries = pending[c].num_retries
                          /\ pending'[c].fifo = pending[c].fifo
      BY <1>20, <1>a DEF Tick, Aged, pending_item_t
  <2>2. Busy(i', pending', pending_free', pc'["worker"], buf')
      BY <1>20, <1>a, <1>d, <2>1 DEF Tick
  <2> QED
      BY <1>c, <1>e, <2>1, <2>2
<1>21. CASE UNCHANGED vars
    BY <1>21, <1>s DEF vars
<1> QED
    BY <1>1, <1>2, <1>3, <1>4, <1>5, <1>6, <1>7, <1>8, <1>9, <1>10, <1>11, <1>12, <1>13, <1>14,
       <1>16, <1>17, <1>18, <1>19, <1>20, <1>21
    DEF Next, message_to_mote, add_device, serve_reply, Serve, pending_worker

\* The frame the worker writes is the one at the head of a queue still in the pool.
THEOREM WorkerKeepsItsCell == Spec => []WorkerCellStable
<1>1. WorkerInv => WorkerCellStable
    BY DEF WorkerInv, AttemptInv
<1> QED
    BY InitWorker, NextWorker, <1>1, PTL DEF Spec

------------------------------------------------------------------------------
(* How often a message is tried.  What num_retries does not count is only the
   transmissions before the turn to invitations, all of them but one. *)
Inviting(e) == e.nodeclass = "C" /\ e.has_been_invited
Repeats == Larger(TxMaxRetr - 1, 0)

Fits(e, k) ==
    /\ e.fifo = <<>> => k = 0
    /\ Inviting(e) => k <= e.num_retries + Repeats /\ k <= NumRetriesInv + 1 + Repeats
    /\ ~Inviting(e) => k <= e.num_retries /\ k <= NumRetries + 1

TriesInv ==
    /\ tries \in [Cells -> Nat]
    /\ \A c \in Cells : Fits(pending[c], tries[c])
    /\ At("send") => ~Inviting(cell)
    /\ At("invite") => Inviting(cell)

Alike(e, f) ==
    /\ f.nodeclass = e.nodeclass /\ f.has_been_invited = e.has_been_invited
    /\ f.num_retries = e.num_retries

(* Between two messages, and two adds, a cell changes its count only in the worker. *)
LEMMA CellAttempts ==
    ASSUME WorkerInv, TriesInv, [Next]_vars, NEW c \in Cells, ~Anew(c)
    PROVE  \/ Alike(pending[c], pending'[c])
           \/ c = i /\ pending'[c] = Attempted(pending[c])
              /\ At("scan") /\ ~Inviting(pending[c]) /\ pending[c].num_retries <= NumRetries
           \/ c = i /\ pending'[c] = InvitedAgain(pending[c])
              /\ ~At("send") /\ Inviting(pending[c]) /\ pending[c].num_retries <= NumRetriesInv
           \/ c = i /\ pending'[c] = Transmitted(pending[c])
              /\ At("send") /\ ~Inviting(pending[c])
<1>a. /\ pending \in [Cells -> pending_item_t] /\ pending[c] \in pending_item_t
      /\ DOMAIN pc = Threads /\ DOMAIN ptr = Adders /\ TypeInv
    BY DEF WorkerInv, CellInv, TypeInv, TypeOK, Refs, Adders
<1>b. /\ ~(Len(pending'[c].fifo) < Len(pending[c].fifo)) /\ pending'[c].fifo # <<>>
      /\ \A t \in Adders : AddExisting(t) \/ AddInitialize(t) \/ AddReset(t) => ptr'[t] # c
    BY DEF Anew, Adders
<1>c. ASSUME pending'[c] = pending[c] PROVE Alike(pending[c], pending'[c])
    BY <1>c DEF Alike
<1>d. ASSUME NEW e \in Cells, NEW r, pending' = [pending EXCEPT ![e] = r]
      PROVE  /\ c # e => Alike(pending[c], pending'[c])
             /\ c = e => pending'[c] = r
    BY <1>a, <1>d DEF Alike
<1>e. ASSUME NEW r, r.fifo = m_dequeue(pending[c].fifo), pending'[c] = r PROVE FALSE
  <2>1. pending[c].fifo \in Seq(Frame)
      BY <1>a, ItemFields
  <2>2. m_dequeue(pending[c].fifo) = <<>> \/ Len(m_dequeue(pending[c].fifo)) < Len(pending[c].fifo)
      BY <2>1 DEF m_dequeue
  <2> QED
      BY <1>b, <1>e, <2>2
<1> USE DEF Adders
<1>1. CASE UNCHANGED pending
    BY <1>1, <1>c
<1>2. CASE Enqueue
  <2>1. /\ ptr["mqtt"] \in Cells
        /\ \A e \in pending_item_t : Alike(e, Enqueued(e, msg))
      BY <1>2, <1>a DEF Enqueue, TypeInv, Refs, Enqueued, Alike, pending_item_t
  <2> QED
      BY <1>2, <1>a, <1>c, <1>d, <2>1 DEF Enqueue
<1>3. ASSUME NEW t \in Adders, AddExisting(t) PROVE Alike(pending[c], pending'[c])
  <2>1. PICK e \in Cells : /\ pending' = [pending EXCEPT ![e] = Rejoined(@, AddArgs(t))]
                           /\ ptr' = [ptr EXCEPT ![t] = e]
      BY <1>3 DEF AddExisting
  <2> QED
      BY <1>a, <1>b, <1>3, <1>d, <2>1
<1>4. ASSUME NEW t \in Adders, AddInitialize(t) \/ AddReset(t) PROVE Alike(pending[c], pending'[c])
  <2>1. /\ ptr[t] \in Cells /\ ptr' = ptr
        /\ \/ pending' = [pending EXCEPT ![ptr[t]] = NewItem(AddArgs(t))]
           \/ pending' = [pending EXCEPT ![ptr[t]] = Reset(@)]
      BY <1>4, <1>a DEF AddInitialize, AddReset, TypeInv, Refs
  <2> QED
      BY <1>a, <1>b, <1>4, <1>d, <2>1
<1>5. ASSUME NEW t \in Adders, AddName(t) PROVE Alike(pending[c], pending'[c])
  <2>1. /\ ptr[t] \in Cells
        /\ pending' = [pending EXCEPT ![ptr[t]] = Named(@, AddArgs(t).nodeid)]
      BY <1>5, <1>a DEF AddName, TypeInv, Refs
  <2>2. Alike(pending[ptr[t]], Named(pending[ptr[t]], AddArgs(t).nodeid))
      BY <1>a, <2>1 DEF Named, Alike, pending_item_t
  <2> QED
      BY <1>d, <2>1, <2>2
<1>6. CASE Kick
  <2>1. ASSUME NEW e \in Cells, pending' = [pending EXCEPT ![e] = Emptied(@)]
        PROVE  Alike(pending[c], pending'[c])
    <3>1. Emptied(pending[e]).fifo = <<>>
        BY <1>a DEF Emptied, pending_item_t
    <3> QED
        BY <1>b, <1>d, <2>1, <3>1
  <2> QED
      BY <1>6, <1>1, <2>1 DEF Kick, pool
<1>7. CASE Ack
  <2>1. ptr["publisher"] \in Cells /\ pending' = [pending EXCEPT ![ptr["publisher"]] = Acked(@)]
      BY <1>7, <1>a DEF Ack, TypeInv, Refs
  <2>2. Acked(pending[c]).fifo = m_dequeue(pending[c].fifo)
      BY <1>a DEF Acked, pending_item_t
  <2> QED
      BY <1>d, <1>e, <2>1, <2>2
<1>8. CASE Request
  <2>1. /\ ptr["publisher"] \in Cells
        /\ pending' = [pending EXCEPT ![ptr["publisher"]] = Requested(@)]
      BY <1>8, <1>a DEF Request, TypeInv, Refs
  <2>2. \A e \in pending_item_t : Alike(e, Requested(e))
      BY DEF Requested, Alike, pending_item_t
  <2> QED
      BY <1>a, <1>d, <2>1, <2>2
<1>9. CASE GiveUpInvite \/ GiveUpSend
  <2>1. i \in Cells /\ (pending' = [pending EXCEPT ![i] = GivenUp(@)] \/ UNCHANGED pending)
      BY <1>9, <1>a DEF GiveUpInvite, GiveUpSend, GiveUp, HasMessage, At, TypeInv, Refs
  <2>2. GivenUp(pending[c]).fifo = m_dequeue(pending[c].fifo)
      BY <1>a DEF GivenUp, pending_item_t
  <2> QED
      BY <1>c, <1>d, <1>e, <2>1, <2>2
<1>10. CASE StartInvite
  <2>1. /\ i \in Cells /\ At("scan") /\ Inviting(pending[i]) /\ pending[i].num_retries <= NumRetriesInv
        /\ pending' = [pending EXCEPT ![i] = InvitedAgain(@)] \/ UNCHANGED pending
      BY <1>10, <1>a
      DEF StartInvite, HasMessage, At, TypeInv, Refs, InviteAttempt, Invited, Inviting, cell
  <2> QED
      BY <1>c, <1>d, <2>1 DEF At
<1>11. CASE DoInvite
  <2>1. /\ i \in Cells /\ At("invite") /\ pending' = [pending EXCEPT ![i] = InvitedAgain(@)]
        /\ Inviting(pending[i]) /\ pending[i].num_retries <= NumRetriesInv
      BY <1>11, <1>a DEF DoInvite, InviteAttempt, At, TypeInv, Refs, TriesInv, cell, WorkerInv, AttemptInv
  <2> QED
      BY <1>d, <2>1 DEF At
<1>12. CASE StartSend
  <2>1. /\ i \in Cells /\ At("scan") /\ ~Inviting(pending[i]) /\ pending[i].num_retries <= NumRetries
        /\ pending' = [pending EXCEPT ![i] = Attempted(@)]
      BY <1>12, <1>a DEF StartSend, HasMessage, At, TypeInv, Refs, Invited, Inviting, cell
  <2> QED
      BY <1>d, <2>1
<1>13. CASE DoSend
  <2>1. /\ i \in Cells /\ At("send") /\ ~Inviting(pending[i])
        /\ pending' = [pending EXCEPT ![i] = Transmitted(@)]
      BY <1>13, <1>a DEF DoSend, At, TypeInv, Refs, TriesInv, cell
  <2> QED
      BY <1>d, <2>1
<1>14. CASE Tick
  <2>1. pending'[c] = Aged(pending[c])
      BY <1>14 DEF Tick
  <2>2. Alike(pending[c], Aged(pending[c]))
      BY <1>a DEF Aged, Alike, pending_item_t
  <2> QED
      BY <2>1, <2>2
<1>15. UNCHANGED pending
       \/ Enqueue \/ Kick \/ Ack \/ Request \/ GiveUpInvite \/ GiveUpSend \/ StartInvite \/ DoInvite
       \/ StartSend \/ DoSend \/ Tick
       \/ \E t \in Adders : AddExisting(t) \/ AddInitialize(t) \/ AddReset(t) \/ AddName(t)
  <2>1. ASSUME message_to_mote, ~Enqueue PROVE UNCHANGED pending
      BY <2>1 DEF message_to_mote, Submit, MoteKnown, MoteUnknown, Relookup, pool
  <2>2. ASSUME serve_reply, ~Kick, ~Ack, ~Request PROVE UNCHANGED pending
      BY <2>2 DEF serve_reply, Serve, ServeAdd, ServeLookup, Added, Notify, pool
  <2>3. ASSUME NEW t \in Adders, AddOccupy(t) \/ AddFull(t) PROVE UNCHANGED pending
      BY <2>3 DEF AddOccupy, AddFull, pool
  <2>4. WorkerLock \/ Skip \/ UNCHANGED vars => UNCHANGED pending
      BY DEF WorkerLock, Skip, pool, vars
  <2> QED
      BY <2>1, <2>2, <2>3, <2>4 DEF Next, add_device, pending_worker
<1> QED
    BY <1>1, <1>2, <1>3, <1>4, <1>5, <1>6, <1>7, <1>8, <1>9, <1>10, <1>11, <1>12, <1>13, <1>14, <1>15

(* While the worker waits for mutex_uart its cell goes on being invited, or not. *)
LEMMA BusyKeeps ==
    ASSUME WorkerInv, [Next]_vars, pc["worker"] \in {"send", "invite"}, pc'["worker"] = pc["worker"]
    PROVE  i' = i /\ (Inviting(pending'[i]) <=> Inviting(pending[i]))
<1>a. /\ pending \in [Cells -> pending_item_t] /\ i \in Cells /\ pending[i] \in pending_item_t
      /\ DOMAIN pc = Threads /\ TypeInv /\ MutexInv
    BY DEF WorkerInv, CellInv, TypeInv, TypeOK, Refs
<1>b. mutex_pending = "worker" /\ mutex_pending # Free /\ \A t \in Adders : ~InCell(t)
    BY <1>a DEF MutexInv, Free, Adders
<1> USE DEF Adders
<1>1. ASSUME UNCHANGED <<pending, i>> PROVE i' = i /\ (Inviting(pending'[i]) <=> Inviting(pending[i]))
    BY <1>1
<1>2. CASE message_to_mote
    BY <1>1, <1>2, <1>b
    DEF message_to_mote, Submit, MoteKnown, MoteUnknown, Relookup, Enqueue, pool, worker
<1>3. CASE serve_reply
    BY <1>1, <1>3, <1>b
    DEF serve_reply, Serve, ServeAdd, ServeLookup, Added, Notify, Kick, Ack, Request, pool, worker
<1>4. ASSUME NEW t \in Adders, add_device(t) PROVE i' = i /\ (Inviting(pending'[i]) <=> Inviting(pending[i]))
  <2>1. AddReset(t)
      BY <1>4, <1>b
      DEF add_device, AddExisting, AddOccupy, AddName, AddInitialize, AddFull, InCell
  <2>2. /\ i' = i /\ ptr[t] \in Cells /\ pending' = [pending EXCEPT ![ptr[t]] = Reset(@)]
      BY <2>1, <1>a DEF AddReset, worker, TypeInv, Refs
  <2>3. pending'[i] = pending[i] \/ pending'[i] = Reset(pending[i])
      BY <1>a, <2>2
  <2>4. Inviting(Reset(pending[i])) <=> Inviting(pending[i])
      BY <1>a DEF Reset, Inviting, pending_item_t
  <2> QED
      BY <2>2, <2>3, <2>4
<1>5. CASE pending_worker
  <2>1. At("scan") \/ At("idle") => FALSE
      BY DEF At
  <2>2. CASE DoInvite \/ DoSend
      BY <1>a, <2>2, WorkerKeeps DEF DoInvite, DoSend, InviteAttempt, NextCell, At, Resetting
  <2> QED
      BY <1>5, <2>1, <2>2
      DEF pending_worker, WorkerLock, Skip, GiveUpInvite, GiveUpSend, StartInvite, StartSend,
          HasMessage, At
<1>6. CASE Tick
  <2>1. pending'[i] = Aged(pending[i]) /\ i' = i
      BY <1>6, <1>a DEF Tick
  <2>2. Inviting(Aged(pending[i])) <=> Inviting(pending[i])
      BY <1>a DEF Aged, Inviting, pending_item_t
  <2> QED
      BY <2>1, <2>2
<1>7. CASE UNCHANGED vars
    BY <1>1, <1>7 DEF vars, worker
<1> QED
    BY <1>2, <1>3, <1>4, <1>5, <1>6, <1>7 DEF Next

(* The worker comes to wait for mutex_uart in two steps only. *)
LEMMA GoesBusy ==
    ASSUME WorkerInv, [Next]_vars
    PROVE  /\ pc'["worker"] = "send" /\ pc["worker"] # "send" => StartSend
           /\ pc'["worker"] = "invite" /\ pc["worker"] # "invite"
                => StartInvite /\ UNCHANGED <<pending, i>>
<1>a. DOMAIN pc = Threads /\ TypeInv
    BY DEF WorkerInv, CellInv, TypeInv, TypeOK
<1> DEFINE Goal == pc'["worker"] \in {"send", "invite"} =>
                      \/ pc'["worker"] = pc["worker"]
                      \/ StartSend /\ pc'["worker"] = "send"
                      \/ StartInvite /\ UNCHANGED <<pending, i>> /\ pc'["worker"] = "invite"
<1>1. ASSUME NEW t \in Adders, NEW l, Goto(t, l) PROVE Goal
    BY <1>1, <1>a DEF Goto, Adders, Threads
<1>2. CASE message_to_mote
    BY <1>1, <1>2
    DEF message_to_mote, Submit, MoteKnown, MoteUnknown, Relookup, Enqueue, MqttDone, Adders
<1>3. CASE serve_reply
    BY <1>1, <1>3
    DEF serve_reply, Serve, ServeAdd, ServeLookup, Added, Notify, Kick, Ack, Request, Take,
        ReplyDone, Adders
<1>4. ASSUME NEW t \in Adders, add_device(t) PROVE Goal
    BY <1>1, <1>4
    DEF add_device, AddExisting, AddReset, AddOccupy, AddName, AddInitialize, AddFull
<1>5. ASSUME NEW l, NEW lost \in SUBSET Resetting, WorkerGoto(l, lost) PROVE pc'["worker"] = l
    BY <1>5, <1>a, WorkerKeeps
<1>6. ASSUME NEW lost \in SUBSET Resetting, NextCell(lost) PROVE pc'["worker"] \in {"scan", "idle"}
    BY <1>5, <1>6 DEF NextCell
<1>7. CASE WorkerLock
    BY <1>7, <1>a DEF WorkerLock, Goto, Threads
<1>8. CASE Skip \/ GiveUpInvite \/ GiveUpSend \/ DoSend \/ DoInvite
    BY <1>6, <1>8 DEF Skip, GiveUpInvite, GiveUpSend, DoSend, DoInvite, InviteAttempt
<1>9. CASE StartInvite
    BY <1>5, <1>6, <1>9 DEF StartInvite, InviteAttempt, worker
<1>10. CASE StartSend
    BY <1>5, <1>10 DEF StartSend
<1>11. CASE Tick \/ UNCHANGED vars
    BY <1>11 DEF Tick, vars
<1>12. Goal
    BY <1>2, <1>3, <1>4, <1>7, <1>8, <1>9, <1>10, <1>11 DEF Next, pending_worker, Adders
<1> QED
    BY <1>12

(* What each update of the worker does to the count and its limits. *)
LEMMA FitsAgain ==
    ASSUME NEW e \in pending_item_t, NEW k \in Nat, Fits(e, k), current \in 0..MaxAge
    PROVE  /\ \A f : Alike(e, f) /\ f.fifo # <<>> => Fits(f, k)
           /\ ~Inviting(e) /\ e.num_retries <= NumRetries /\ e.fifo # <<>>
                => Fits(Attempted(e), k + 1) /\ ~Inviting(Attempted(e))
           /\ Inviting(e) /\ e.num_retries <= NumRetriesInv /\ e.fifo # <<>>
                => Fits(InvitedAgain(e), k + 1)
           /\ ~Inviting(e) /\ e.fifo # <<>> => Fits(Transmitted(e), k)
<1>a. /\ e.num_retries \in Nat /\ e.fifo \in Seq(Frame) /\ e.has_been_invited \in BOOLEAN
      /\ NumRetries \in Nat /\ NumRetriesInv \in Nat /\ TxMaxRetr \in Int
      /\ Repeats \in Nat /\ TxMaxRetr <= 1 + Repeats
    BY ItemFields, LimitsAssumption DEF Repeats, Larger
<1>1. \A f : Alike(e, f) /\ f.fifo # <<>> => Fits(f, k)
    BY DEF Alike, Fits, Inviting
<1>2. ASSUME ~Inviting(e), e.num_retries <= NumRetries, e.fifo # <<>>
      PROVE  Fits(Attempted(e), k + 1) /\ ~Inviting(Attempted(e))
  <2> DEFINE f == Attempted(e)
  <2>1. /\ f.fifo # <<>> /\ f.num_retries = e.num_retries + 1 /\ ~Inviting(f)
      BY <1>2 DEF Attempted, Inviting, pending_item_t
  <2> HIDE DEF f
  <2>2. k <= e.num_retries
      BY <1>2 DEF Fits
  <2>3. k + 1 <= f.num_retries /\ k + 1 <= NumRetries + 1
      BY <1>a, <1>2, <2>1, <2>2
  <2>4. Fits(f, k + 1)
      BY <2>1, <2>3 DEF Fits
  <2> QED
      BY <2>1, <2>4 DEF f
<1>3. ASSUME Inviting(e), e.num_retries <= NumRetriesInv, e.fifo # <<>>
      PROVE  Fits(InvitedAgain(e), k + 1)
  <2> DEFINE f == InvitedAgain(e)
  <2>1. /\ f.fifo # <<>> /\ f.num_retries = e.num_retries + 1 /\ Inviting(f)
      BY <1>3 DEF InvitedAgain, Inviting, pending_item_t
  <2> HIDE DEF f
  <2>2. Fits(f, k + 1)
      BY <1>a, <1>3, <2>1 DEF Fits
  <2> QED
      BY <2>2 DEF f
<1>4. ASSUME ~Inviting(e), e.fifo # <<>> PROVE Fits(Transmitted(e), k)
  <2> DEFINE f == Transmitted(e)
             invite == e.nodeclass = "C" /\ e.num_retries = TxMaxRetr
  <2>1. /\ f.fifo # <<>>
        /\ f.num_retries = IF invite THEN 1 ELSE e.num_retries
        /\ f.nodeclass = e.nodeclass /\ f.has_been_invited = (e.has_been_invited \/ invite)
      BY <1>4 DEF Transmitted, pending_item_t
  <2> HIDE DEF f
  <2>2. CASE invite
    <3>1. Inviting(f) /\ f.num_retries = 1 /\ e.num_retries = TxMaxRetr
        BY <2>1, <2>2 DEF Inviting
    <3> QED
        BY <1>a, <1>4, <2>1, <3>1 DEF Fits, f
  <2>3. CASE ~invite
    <3>1. ~Inviting(f) /\ f.num_retries = e.num_retries
        BY <1>4, <2>1, <2>3 DEF Inviting
    <3> QED
        BY <1>a, <1>4, <2>1, <3>1 DEF Fits, f
  <2> QED
      BY <2>2, <2>3
<1> QED
    BY <1>1, <1>2, <1>3, <1>4

LEMMA InitTries == AInit => TriesInv
BY LimitsAssumption
DEF AInit, Init, init_pending, TriesInv, Fits, Inviting, Repeats, Larger, At, Threads

LEMMA NextTries == WorkerInv /\ TriesInv /\ [ANext]_avars => TriesInv'
<1> SUFFICES ASSUME WorkerInv, TriesInv, [ANext]_avars PROVE TriesInv'
    OBVIOUS
<1>a. /\ pending \in [Cells -> pending_item_t] /\ \A c \in Cells : pending[c] \in pending_item_t
      /\ current \in 0..MaxAge /\ pc["worker"] \in {"idle", "scan", "send", "invite"}
      /\ TypeInv /\ [Next]_vars
    BY DEF WorkerInv, CellInv, TypeInv, TypeOK, Refs, ANext, avars
<1>b. \A c \in Cells : pending'[c] \in pending_item_t
  <2>1. TypeInv'
      BY <1>a, NextType
  <2> QED
      BY <2>1 DEF TypeInv, TypeOK
<1>c. tries \in [Cells -> Nat] /\ \A c \in Cells : Fits(pending[c], tries[c])
    BY DEF TriesInv
<1>d. \/ /\ tries' = [c \in Cells |->
              IF Anew(c) THEN 0 ELSE IF Counted(c) THEN tries[c] + 1 ELSE tries[c]]
      \/ tries' = tries /\ pending' = pending
    BY DEF ANext, avars, vars
<1>1. tries' \in [Cells -> Nat]
    BY <1>c, <1>d
<1>2. ASSUME NEW c \in Cells PROVE Fits(pending'[c], tries'[c])
  <2>1. CASE tries' = tries /\ pending' = pending
      BY <1>c, <2>1
  <2>2. CASE tries'[c] = 0
    <3>1. pending'[c].num_retries \in Nat /\ NumRetries \in Nat /\ NumRetriesInv \in Nat /\ Repeats \in Nat
        BY <1>b, ItemFields, LimitsAssumption DEF Repeats, Larger
    <3> QED
        BY <2>2, <3>1 DEF Fits
  <2>3. CASE /\ ~Anew(c)
             /\ tries'[c] = IF Counted(c) THEN tries[c] + 1 ELSE tries[c]
    <3> DEFINE e == pending[c]
               k == tries[c]
    <3>1. /\ e \in pending_item_t /\ k \in Nat /\ Fits(e, k) /\ pending'[c].fifo # <<>>
          /\ e.num_retries \in Nat
        BY <1>a, <1>c, <2>3, ItemFields DEF Anew
    <3>2. /\ Alike(e, pending'[c]) => ~Counted(c)
          /\ pending'[c] = Transmitted(e) /\ At("send") => ~Counted(c)
          /\ c = i /\ At("scan") /\ pending'[c] = Attempted(e) => Counted(c)
          /\ c = i /\ ~At("send") /\ pending'[c] = InvitedAgain(e) => Counted(c)
      <4>1. /\ Attempted(e).num_retries = e.num_retries + 1
            /\ InvitedAgain(e).num_retries = e.num_retries + 1
          BY <1>a, <3>1, Items
      <4> QED
          BY <3>1, <4>1 DEF Alike, Counted, At
    <3>3. /\ pending'[c] = Attempted(e) => e.fifo # <<>>
          /\ pending'[c] = InvitedAgain(e) => e.fifo # <<>>
          /\ pending'[c] = Transmitted(e) => e.fifo # <<>>
        BY <3>1 DEF Attempted, InvitedAgain, Transmitted, pending_item_t
    <3> HIDE DEF e, k
    <3>4. /\ \A f : Alike(e, f) /\ f.fifo # <<>> => Fits(f, k)
          /\ ~Inviting(e) /\ e.num_retries <= NumRetries /\ e.fifo # <<>> => Fits(Attempted(e), k + 1)
          /\ Inviting(e) /\ e.num_retries <= NumRetriesInv /\ e.fifo # <<>>
                => Fits(InvitedAgain(e), k + 1)
          /\ ~Inviting(e) /\ e.fifo # <<>> => Fits(Transmitted(e), k)
        BY <1>a, <3>1, FitsAgain
    <3>5. \/ Alike(e, pending'[c])
          \/ c = i /\ pending'[c] = Attempted(e) /\ At("scan") /\ ~Inviting(e) /\ e.num_retries <= NumRetries
          \/ c = i /\ pending'[c] = InvitedAgain(e) /\ ~At("send") /\ Inviting(e)
             /\ e.num_retries <= NumRetriesInv
          \/ c = i /\ pending'[c] = Transmitted(e) /\ At("send") /\ ~Inviting(e)
        BY <1>a, <2>3, CellAttempts DEF e
    <3>6. /\ Counted(c) => tries'[c] = k + 1
          /\ ~Counted(c) => tries'[c] = k
        BY <2>3 DEF k
    <3> QED
        BY <3>1, <3>2, <3>3, <3>4, <3>5, <3>6
  <2> QED
      BY <1>d, <2>1, <2>2, <2>3
<1>3. (At("send") => ~Inviting(cell))' /\ (At("invite") => Inviting(cell))'
  <2>1. CASE pc["worker"] \in {"send", "invite"} /\ pc'["worker"] = pc["worker"]
    <3>1. i' = i /\ (Inviting(pending'[i]) <=> Inviting(pending[i]))
        BY <1>a, <2>1, BusyKeeps
    <3> QED
        BY <2>1, <3>1 DEF TriesInv, At, cell
  <2>2. CASE pc'["worker"] = "send" /\ pc["worker"] # "send"
    <3>1. StartSend
        BY <1>a, <2>2, GoesBusy
    <3>2. /\ i \in Cells /\ i' = i /\ ~Inviting(pending[i])
          /\ pending'[i] = Attempted(pending[i])
        BY <1>a, <3>1
        DEF StartSend, HasMessage, At, TypeInv, Refs, Invited, Inviting, cell
    <3>3. ~Inviting(Attempted(pending[i]))
        BY <1>a, <3>2 DEF Attempted, Inviting, pending_item_t
    <3> QED
        BY <2>2, <3>2, <3>3 DEF At, cell
  <2>3. CASE pc'["worker"] = "invite" /\ pc["worker"] # "invite"
    <3>1. StartInvite /\ UNCHANGED <<pending, i>>
        BY <1>a, <2>3, GoesBusy
    <3>2. Inviting(pending[i])
        BY <3>1 DEF StartInvite, Invited, Inviting, cell
    <3> QED
        BY <2>3, <3>1, <3>2 DEF At, cell
  <2> QED
      BY <2>1, <2>2, <2>3 DEF At
<1> QED
    BY <1>1, <1>2, <1>3 DEF TriesInv

\* However transmissions, invitations, changes of class and the resets that race with
\* num_retries++ alternate, no message is tried more often than its limits and tx_maxretr
\* allow before it is given up or its node is added again; for every limit and every gate
\* (mqtt.c:194, 699, 801-856, 902-911).
THEOREM AttemptsBounded == ASpec => []AttemptsBound
<1>1. AInit => WorkerInv /\ TriesInv
    BY InitWorker, InitTries DEF AInit
<1>2. WorkerInv /\ TriesInv /\ [ANext]_avars => WorkerInv' /\ TriesInv'
  <2>1. [ANext]_avars => [Next]_vars
      BY DEF ANext, avars
  <2> QED
      BY <2>1, NextWorker, NextTries
<1>3. TriesInv => AttemptsBound
  <2> SUFFICES ASSUME TriesInv, NEW c \in Cells
               PROVE  tries[c] <= Larger(NumRetries + 1, NumRetriesInv + Larger(TxMaxRetr, 1))
      BY DEF AttemptsBound
  <2>1. tries[c] \in Nat /\ (tries[c] <= NumRetries + 1 \/ tries[c] <= NumRetriesInv + 1 + Repeats)
      BY DEF TriesInv, Fits
  <2>2. NumRetries \in Nat /\ NumRetriesInv \in Nat /\ TxMaxRetr \in Int
      BY LimitsAssumption
  <2> QED
      BY <2>1, <2>2 DEF Repeats, Larger
<1> QED
    BY <1>1, <1>2, <1>3, PTL DEF ASpec
=======
