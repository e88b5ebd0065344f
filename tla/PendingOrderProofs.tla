-------------------------- MODULE PendingOrderProofs -------------------------
(* FifoOrder for every instance of PendingPool: messages are numbered as they
   arrive, every number in a queue has been given out, and the message being handled has the
   last one, in no queue yet. *)
EXTENDS PendingPoolProofs

Numbered ==
    /\ \A c \in Cells : \A k \in DOMAIN pending[c].fifo : pending[c].fifo[k].id <= submitted
    /\ pc["mqtt"] # "idle" => msg.id = submitted

QueueInv == TypeInv /\ FifoOrder /\ Numbered

\* What all steps but Submit and Enqueue do to the queues and to the MQTT thread.
Shrinks ==
    /\ \A c \in Cells :
          pending'[c].fifo \in {pending[c].fifo, m_dequeue(pending[c].fifo), <<>>}
    /\ submitted' = submitted
    /\ pc'["mqtt"] # "idle" => pc["mqtt"] # "idle" /\ msg' = msg

(* A queue that shrank is the old one, shifted by one place or not at all. *)
LEMMA Shifted ==
    ASSUME NEW q \in Seq(Frame), NEW r \in {q, m_dequeue(q), <<>>}
    PROVE  /\ DOMAIN r \subseteq Int
           /\ \E s \in {0, 1} : \A k \in DOMAIN r : k + s \in DOMAIN q /\ r[k] = q[k + s]
<1>1. CASE r = q
    BY <1>1
<1>2. CASE r = <<>>
    BY <1>2
<1>3. CASE q # <<>> /\ r = Tail(q)
  <2>1. \A k \in DOMAIN r : k + 1 \in DOMAIN q /\ r[k] = q[k + 1]
      BY <1>3
  <2>2. DOMAIN r \subseteq Int
      BY <1>3
  <2> QED
      BY <2>1, <2>2
<1> QED
    BY <1>1, <1>2, <1>3 DEF m_dequeue

LEMMA ShrinksKeepsOrder ==
    ASSUME QueueInv, Shrinks PROVE FifoOrder' /\ Numbered'
<1>1. ASSUME NEW c \in Cells
      PROVE  /\ DOMAIN pending'[c].fifo \subseteq Int
             /\ \E s \in {0, 1} : \A k \in DOMAIN pending'[c].fifo :
                   /\ k + s \in DOMAIN pending[c].fifo
                   /\ pending'[c].fifo[k] = pending[c].fifo[k + s]
  <2>1. pending[c].fifo \in Seq(Frame)
      BY ItemFields DEF QueueInv, TypeInv, TypeOK
  <2> QED
      BY <2>1, Shifted DEF Shrinks
<1>2. ASSUME NEW c \in Cells PROVE Ids(c)' \subseteq Ids(c)
    BY <1>1 DEF Ids
<1>3. ASSUME NEW c \in Cells, NEW j \in DOMAIN pending'[c].fifo,
             NEW k \in DOMAIN pending'[c].fifo, j < k
      PROVE  pending'[c].fifo[j].id < pending'[c].fifo[k].id
  <2>1. PICK s \in {0, 1} : \A l \in DOMAIN pending'[c].fifo :
            /\ l + s \in DOMAIN pending[c].fifo
            /\ pending'[c].fifo[l] = pending[c].fifo[l + s]
      BY <1>1
  <2>2. j + s < k + s
      BY <1>1, <1>3
  <2> QED
      BY <2>1, <2>2 DEF QueueInv, FifoOrder
<1>4. FifoOrder'
    BY <1>2, <1>3 DEF QueueInv, FifoOrder, Shrinks
<1>5. Numbered'
    BY <1>1 DEF QueueInv, Numbered, Shrinks
<1> QED
    BY <1>4, <1>5

(* One cell updated by a step that leaves its queue alone or shortens it. *)
LEMMA CellShrinks ==
    ASSUME pending \in [Cells -> pending_item_t], NEW c \in Cells, NEW r,
           pending' = [pending EXCEPT ![c] = r],
           r.fifo \in {pending[c].fifo, m_dequeue(pending[c].fifo), <<>>}
    PROVE  \A d \in Cells :
               pending'[d].fifo \in {pending[d].fifo, m_dequeue(pending[d].fifo), <<>>}
OBVIOUS

(* What each update does to the queue of its cell. *)
LEMMA Fifos ==
    ASSUME NEW e \in pending_item_t
    PROVE  /\ \A a : Rejoined(e, a).fifo = e.fifo /\ NewItem(a).fifo = <<>>
           /\ \A n : Named(e, n).fifo = e.fifo
           /\ \A m : Enqueued(e, m).fifo = m_enqueue(e.fifo, m)
           /\ Reset(e).fifo = e.fifo /\ Requested(e).fifo = e.fifo
           /\ InvitedAgain(e).fifo = e.fifo /\ Attempted(e).fifo = e.fifo
           /\ Transmitted(e).fifo = e.fifo /\ Aged(e).fifo = e.fifo
           /\ Emptied(e).fifo = <<>>
           /\ Acked(e).fifo = m_dequeue(e.fifo) /\ GivenUp(e).fifo = m_dequeue(e.fifo)
BY DEF pending_item_t, Rejoined, NewItem, Named, Enqueued, Reset, Requested, InvitedAgain,
       Attempted, Transmitted, Aged, Emptied, Acked, GivenUp

LEMMA SubmitKeepsOrder ==
    ASSUME QueueInv, NEW n \in Nodes, Submit(n) PROVE FifoOrder' /\ Numbered'
<1>1. /\ submitted \in Nat /\ submitted' = submitted + 1 /\ msg'.id = submitted + 1
      /\ pending' = pending
    BY LimitsAssumption DEF Submit, pool, QueueInv, TypeInv, TypeOK
<1>2. \A c \in Cells : \A k \in DOMAIN pending[c].fifo :
          pending[c].fifo[k].id \in Int /\ pending[c].fifo[k].id < submitted + 1
  <2>1. \A c \in Cells : pending[c].fifo \in Seq(Frame)
      BY ItemFields DEF QueueInv, TypeInv, TypeOK
  <2>2. \A f \in Frame : f.id \in Int
      BY LimitsAssumption DEF Frame
  <2>3. \A c \in Cells : \A k \in DOMAIN pending[c].fifo : pending[c].fifo[k].id \in Int
      BY <2>1, <2>2
  <2> QED
      BY <1>1, <2>3 DEF QueueInv, Numbered
<1>3. \A c \in Cells : Ids(c)' = Ids(c) /\ submitted + 1 \notin Ids(c)
    BY <1>1, <1>2 DEF Ids
<1>4. FifoOrder'
    BY <1>1, <1>3 DEF QueueInv, FifoOrder
<1>5. Numbered'
    BY <1>1, <1>2 DEF Numbered
<1> QED
    BY <1>4, <1>5

LEMMA EnqueueKeepsOrder ==
    ASSUME QueueInv, Enqueue, UNCHANGED submitted PROVE FifoOrder' /\ Numbered'
<1>0. PICK e \in Cells : e = ptr["mqtt"]
    BY DEF Enqueue, QueueInv, TypeInv, Refs
<1> DEFINE q == pending[e].fifo
<1>1. /\ msg \in Frame /\ pc["mqtt"] # "idle" /\ pc'["mqtt"] = "idle"
      /\ msg.id = submitted /\ submitted \in Nat
      /\ pending \in [Cells -> pending_item_t]
    BY LimitsAssumption
    DEF Enqueue, MqttDone, Goto, QueueInv, Numbered, TypeInv, TypeOK, Refs, Threads
<1>2. CASE UNCHANGED pending
  <2>1. \A c \in Cells : Ids(c)' = Ids(c)
      BY <1>2 DEF Ids
  <2> QED
      BY <1>1, <1>2, <2>1 DEF QueueInv, FifoOrder, Numbered
<1>3. CASE pending' = [pending EXCEPT ![e] = Enqueued(@, msg)]
  <2>1. /\ pending'[e].fifo = Append(q, msg)
        /\ \A c \in Cells \ {e} : pending'[c].fifo = pending[c].fifo
      BY <1>1, <1>3, Fifos DEF m_enqueue
  <2>2. q \in Seq(Frame)
      BY <1>1, ItemFields
  <2>3. /\ DOMAIN Append(q, msg) = DOMAIN q \cup {Len(q) + 1}
        /\ \A k \in DOMAIN q : k \in Int /\ k <= Len(q) /\ Append(q, msg)[k] = q[k]
        /\ Append(q, msg)[Len(q) + 1] = msg /\ Len(q) \in Nat
      BY <1>1, <2>2
  <2>4. \A k \in DOMAIN q : q[k].id \in Int /\ q[k].id < submitted
    <3>1. \A f \in Frame : f.id \in Int
        BY LimitsAssumption DEF Frame
    <3>2. \A k \in DOMAIN q : q[k].id \in Int /\ q[k].id # msg.id
        BY <1>1, <2>2, <3>1 DEF QueueInv, FifoOrder, Ids
    <3> QED
        BY <1>1, <3>2 DEF QueueInv, Numbered
  <2>5. /\ Ids(e)' = Ids(e) \cup {msg.id}
        /\ \A c \in Cells \ {e} : Ids(c)' = Ids(c)
    <3>1. Ids(e)' = {Append(q, msg)[k].id : k \in DOMAIN q \cup {Len(q) + 1}}
        BY <2>1, <2>3 DEF Ids
    <3>2. @ = {q[k].id : k \in DOMAIN q} \cup {msg.id}
        BY <2>3
    <3>3. {q[k].id : k \in DOMAIN q} = Ids(e)
        BY DEF Ids
    <3>4. \A c \in Cells \ {e} : Ids(c)' = Ids(c)
        BY <2>1 DEF Ids
    <3> QED
        BY <3>1, <3>2, <3>3, <3>4
  <2>6. \A c \in Cells : \A d \in Cells \ {c} : Ids(c)' \cap Ids(d)' = {}
    <3>1. \A c \in Cells : msg.id \notin Ids(c) /\ \A d \in Cells \ {c} : Ids(c) \cap Ids(d) = {}
        BY <1>1 DEF QueueInv, FifoOrder
    <3> QED
        BY <2>5, <3>1
  <2>7. ASSUME NEW c \in Cells, NEW j \in DOMAIN pending'[c].fifo,
               NEW k \in DOMAIN pending'[c].fifo, j < k
        PROVE  pending'[c].fifo[j].id < pending'[c].fifo[k].id
    <3>1. CASE c # e
        BY <2>1, <2>7, <3>1 DEF QueueInv, FifoOrder
    <3>2. CASE c = e /\ k \in DOMAIN q
      <4>1. j \in DOMAIN q
          BY <2>1, <2>3, <2>7, <3>2
      <4> QED
          BY <2>1, <2>3, <2>7, <3>2, <4>1 DEF QueueInv, FifoOrder
    <3>3. CASE c = e /\ k = Len(q) + 1
      <4>1. j \in DOMAIN q
          BY <2>1, <2>3, <2>7, <3>3
      <4> QED
          BY <1>1, <2>1, <2>3, <2>4, <3>3, <4>1
    <3> QED
        BY <2>1, <2>3, <2>7, <3>1, <3>2, <3>3
  <2>8. FifoOrder'
      BY <1>1, <2>6, <2>7 DEF FifoOrder
  <2>9. Numbered'
    <3>1. ASSUME NEW c \in Cells, NEW k \in DOMAIN pending'[c].fifo
          PROVE  pending'[c].fifo[k].id <= submitted
      <4>1. CASE c # e
          BY <2>1, <3>1, <4>1 DEF QueueInv, Numbered
      <4>2. CASE c = e /\ k \in DOMAIN q
          BY <1>1, <2>1, <2>3, <2>4, <4>2
      <4>3. CASE c = e /\ k = Len(q) + 1
          BY <1>1, <2>1, <2>3, <4>3
      <4> QED
          BY <2>1, <2>3, <3>1, <4>1, <4>2, <4>3
    <3> QED
        BY <1>1, <3>1 DEF Numbered
  <2> QED
      BY <2>8, <2>9
<1> QED
    BY <1>0, <1>2, <1>3 DEF Enqueue

LEMMA NextShrinks ==
    ASSUME QueueInv, [Next]_vars, ~Enqueue, \A n \in Nodes : ~Submit(n)
    PROVE  Shrinks
<1> DEFINE Fewer == \A c \in Cells :
        pending'[c].fifo \in {pending[c].fifo, m_dequeue(pending[c].fifo), <<>>}
<1>a. /\ pending \in [Cells -> pending_item_t]
      /\ \A c \in Cells : pending[c] \in pending_item_t
      /\ DOMAIN pc = Threads
    BY DEF QueueInv, TypeInv, TypeOK
<1>c. ASSUME UNCHANGED pending PROVE Fewer
    BY <1>c
<1>p. ASSUME NEW c \in Cells, NEW r, pending' = [pending EXCEPT ![c] = r],
             r.fifo \in {pending[c].fifo, m_dequeue(pending[c].fifo), <<>>}
      PROVE  Fewer
    BY <1>p, <1>a, CellShrinks
<1> USE DEF Adders, Threads
<1> HIDE DEF Fewer
<1>s. ASSUME Fewer, UNCHANGED <<submitted, msg>>, pc'["mqtt"] # "idle" => pc["mqtt"] # "idle"
      PROVE  Shrinks
    BY <1>s DEF Shrinks, Fewer
<1>1. CASE MoteKnown \/ MoteUnknown \/ Relookup
    BY <1>1, <1>a DEF MoteKnown, MoteUnknown, Relookup, MqttDone, Goto, pool, Shrinks
<1>2. ASSUME NEW t \in Adders, AddExisting(t) PROVE Shrinks
  <2>1. PICK c \in Cells : pending' = [pending EXCEPT ![c] = Rejoined(@, AddArgs(t))]
      BY <1>2 DEF AddExisting
  <2>2. Fewer
      BY <1>a, <1>p, <2>1, Fifos
  <2> QED
      BY <1>2, <1>a, <1>s, <2>2 DEF AddExisting, Goto
<1>3. ASSUME NEW t \in Adders, AddReset(t) \/ AddName(t) \/ AddInitialize(t) PROVE Shrinks
  <2>1. ptr[t] \in Cells
      BY <1>3 DEF AddReset, AddName, AddInitialize, QueueInv, TypeInv, Refs
  <2>2. PICK r \in {Reset(pending[ptr[t]]), Named(pending[ptr[t]], AddArgs(t).nodeid),
                    NewItem(AddArgs(t))} : pending' = [pending EXCEPT ![ptr[t]] = r]
      BY <1>3 DEF AddReset, AddName, AddInitialize
  <2>3. r.fifo \in {pending[ptr[t]].fifo, <<>>}
      BY <1>a, <2>1, <2>2, Fifos
  <2>4. Fewer
      BY <1>p, <2>1, <2>2, <2>3
  <2> QED
      BY <1>3, <1>a, <1>s, <2>4 DEF AddReset, AddName, AddInitialize, Goto
<1>4. ASSUME NEW t \in Adders, AddOccupy(t) \/ AddFull(t) PROVE Shrinks
    BY <1>4, <1>a, <1>c, <1>s DEF AddOccupy, AddFull, Goto, pool
<1>5. ASSUME NEW r \in Replies, ServeAdd(r) \/ ServeLookup(r) PROVE Shrinks
    BY <1>5, <1>a, <1>c, <1>s DEF ServeAdd, ServeLookup, Take, Goto, pool
<1>6. CASE Added \/ Notify
    BY <1>6, <1>a, <1>c, <1>s DEF Added, Notify, ReplyDone, Goto, pool
<1>7. CASE Kick
  <2>1. Fewer
    <3>1. CASE UNCHANGED pending
        BY <1>c, <3>1
    <3>2. ASSUME NEW e \in Cells, pending' = [pending EXCEPT ![e] = Emptied(@)] PROVE Fewer
        BY <1>a, <1>p, <3>2, Fifos
    <3> QED
        BY <1>7, <3>1, <3>2 DEF Kick, pool
  <2> QED
      BY <1>7, <1>a, <1>s, <2>1 DEF Kick, ReplyDone, Goto
<1>8. CASE Ack \/ Request
  <2>1. ptr["publisher"] \in Cells
      BY <1>8 DEF Ack, Request, QueueInv, TypeInv, Refs
  <2>2. PICK r \in {Acked(pending[ptr["publisher"]]), Requested(pending[ptr["publisher"]])} :
            pending' = [pending EXCEPT ![ptr["publisher"]] = r]
      BY <1>8 DEF Ack, Request
  <2>3. r.fifo \in {pending[ptr["publisher"]].fifo, m_dequeue(pending[ptr["publisher"]].fifo)}
      BY <1>a, <2>1, <2>2, Fifos
  <2>4. Fewer
      BY <1>p, <2>1, <2>2, <2>3
  <2> QED
      BY <1>8, <1>a, <1>s, <2>4 DEF Ack, Request, ReplyDone, Goto
<1>9. CASE WorkerLock
    BY <1>9, <1>a, <1>c, <1>s DEF WorkerLock, Goto, pool
<1>g. ASSUME NEW l, NEW lost \in SUBSET Resetting, WorkerGoto(l, lost)
      PROVE  pc'["mqtt"] # "idle" => pc["mqtt"] # "idle"
    BY <1>g, WorkerKeeps DEF QueueInv
<1>w. ASSUME NEW l, NEW lost \in SUBSET Resetting, WorkerGoto(l, lost), others' = others, Fewer
      PROVE  Shrinks
    BY <1>w, <1>g, <1>s DEF others
<1>n. ASSUME NEW lost \in SUBSET Resetting, NextCell(lost), others' = others, Fewer PROVE Shrinks
    BY <1>n, <1>w DEF NextCell
<1>10. CASE Skip
    BY <1>10, <1>c, <1>n DEF Skip, others
<1>i. HasMessage \/ At("invite") \/ At("send") => i \in Cells
    BY DEF HasMessage, At, QueueInv, TypeInv, Refs
<1>11. CASE GiveUpInvite \/ GiveUpSend
  <2>1. i \in Cells
      BY <1>11, <1>i DEF GiveUpInvite, GiveUpSend
  <2>2. UNCHANGED pending \/ pending' = [pending EXCEPT ![i] = GivenUp(@)]
      BY <1>11 DEF GiveUpInvite, GiveUpSend, GiveUp
  <2>3. Fewer
      BY <1>a, <1>c, <1>p, <2>1, <2>2, Fifos
  <2> QED
      BY <1>11, <1>n, <2>3 DEF GiveUpInvite, GiveUpSend, others
<1>12. ASSUME NEW lost \in SUBSET Resetting, InviteAttempt(lost), i \in Cells, others' = others
       PROVE  Shrinks
  <2>1. Fewer
      BY <1>12, <1>a, <1>p, Fifos DEF InviteAttempt
  <2> QED
      BY <1>12, <1>n, <2>1 DEF InviteAttempt
<1>13. CASE StartInvite
  <2>1. CASE WorkerGoto("invite", {}) /\ UNCHANGED pending
      BY <1>13, <1>c, <1>w, <2>1 DEF StartInvite, others
  <2> QED
      BY <1>13, <1>12, <1>i, <2>1 DEF StartInvite, others
<1>14. CASE DoInvite
    BY <1>14, <1>12, <1>i DEF DoInvite, others
<1>15. CASE StartSend
  <2>1. Fewer
      BY <1>15, <1>a, <1>i, <1>p, Fifos DEF StartSend
  <2> QED
      BY <1>15, <1>w, <2>1 DEF StartSend, others
<1>16. CASE DoSend
  <2>1. Fewer
      BY <1>16, <1>a, <1>i, <1>p, Fifos DEF DoSend
  <2> QED
      BY <1>16, <1>n, <2>1 DEF DoSend, others
<1>17. CASE Tick
  <2>1. \A c \in Cells : pending'[c].fifo = pending[c].fifo
      BY <1>17, <1>a, Fifos DEF Tick
  <2> QED
      BY <1>17, <1>s, <2>1 DEF Tick, Fewer
<1>18. CASE UNCHANGED vars
    BY <1>18, <1>c, <1>s DEF vars
<1> QED
    BY <1>1, <1>2, <1>3, <1>4, <1>5, <1>6, <1>7, <1>8, <1>9, <1>10, <1>11, <1>13, <1>14, <1>15,
       <1>16, <1>17, <1>18
    DEF Next, message_to_mote, add_device, serve_reply, Serve, pending_worker

LEMMA InitQueue == Init => QueueInv
BY InitType DEF Init, init_pending, QueueInv, FifoOrder, Numbered, Ids, Threads

LEMMA NextQueue == QueueInv /\ [Next]_vars => QueueInv'
<1> SUFFICES ASSUME QueueInv, [Next]_vars PROVE QueueInv'
    OBVIOUS
<1>1. TypeInv'
    BY NextType DEF QueueInv
<1>2. FifoOrder' /\ Numbered'
  <2>1. CASE \E n \in Nodes : Submit(n)
      BY <2>1, SubmitKeepsOrder
  <2>2. CASE Enqueue
      BY <2>2, EnqueueKeepsOrder DEF Enqueue
  <2> QED
      BY <2>1, <2>2, NextShrinks, ShrinksKeepsOrder
<1> QED
    BY <1>1, <1>2 DEF QueueInv

\* Every queue holds messages in the order MQTT delivered them, and no message is
\* in two queues or in one twice, however many nodes, cells and messages there are
\* and whatever the gate does (mqtt.c:255-283).
THEOREM QueuesInOrder == Spec => []FifoOrder
<1>1. QueueInv => FifoOrder
    BY DEF QueueInv
<1> QED
    BY InitQueue, NextQueue, <1>1, PTL DEF Spec
==============================================================================
