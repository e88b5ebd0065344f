----------------------------- MODULE DownlinkProofs ----------------------------
(* What the pending pool promises the senders of downlink messages, for every pool,
   limit and set of nodes, with a gate that keeps to its protocol. *)
EXTENDS Downlink, PendingOrderProofs, SequenceTheorems

(* A cell nobody may use yet: free, or taken by add_device and not initialised. *)
Raw(c) == pending_free[c] \/ \E t \in Adders : InCell(t) /\ ptr[t] = c

(* A cell is a node's when it bears its name, or is about to. *)
Mine(c, n) ==
    \/ Settled(c) /\ pending[c].nodeid = n
    \/ \E t \in Adders : pc[t] = "occupied" /\ ptr[t] = c /\ AddArgs(t).nodeid = n

(* The pointers taken without the mutex still lead to the node they were looked up for. *)
Pointers ==
    /\ pc["mqtt"] = "enqueue" => Mine(ptr["mqtt"], msg.to)
    /\ pc["publisher"] \in {"ack", "request"} => Mine(ptr["publisher"], reply.nodeid)

(* Messages wait in initialised cells only, each in the cell of its addressee. *)
Delivery == \A c \in Cells :
    /\ Raw(c) => pending[c].fifo = <<>>
    /\ \A k \in DOMAIN pending[c].fifo : pending[c].fifo[k].to = pending[c].nodeid

(* A cell may send on demand only if its node has asked. *)
OnDemand ==
    /\ \A c \in Cells : ~Raw(c) /\ pending[c].can_send => pending[c].nodeid \in asked
    /\ OnDemandCell

PoolInv == WorkerInv /\ QueueInv
RouteInv == PoolInv /\ Pointers /\ Delivery

------------------------------------------------------------------------------
LEMMA StepOfPool == [DNext]_dvars => [Next]_vars
BY DEF DNext, dvars, Next, message_to_mote, serve_reply

LEMMA InitPool == DInit => PoolInv
BY InitWorker, InitQueue DEF DInit, PoolInv

LEMMA NextPool == ASSUME PoolInv, [DNext]_dvars PROVE PoolInv'
BY StepOfPool, NextWorker, NextQueue DEF PoolInv

(* PoolInv in the terms the proofs below need it. *)
LEMMA PoolFacts ==
    ASSUME PoolInv
    PROVE  /\ pending \in [Cells -> pending_item_t] /\ pending_free \in [Cells -> BOOLEAN]
           /\ \A c \in Cells : pending[c] \in pending_item_t /\ pending[c].fifo \in Seq(Frame)
           /\ DOMAIN pc = Threads /\ DOMAIN ptr = Adders
           /\ TypeInv /\ CellInv /\ MutexInv /\ OwnInv /\ UniqueCell /\ WorkerCellStable
           /\ QueueInv /\ FifoOrder /\ Numbered
           /\ \A t \in Adders : InCell(t) => ptr[t] \in Cells
           /\ \A t, u \in Adders : InCell(t) /\ InCell(u) => t = u
           /\ reply \in Reply \cup {NoReply}
           /\ pc["worker"] \in {"idle", "scan", "send", "invite"}
           /\ pc["worker"] # "idle" => i \in Cells
<1>1. TypeInv /\ CellInv /\ MutexInv /\ OwnInv /\ UniqueCell /\ WorkerCellStable /\ QueueInv /\ FifoOrder /\ Numbered
    BY DEF PoolInv, WorkerInv, CellInv, AttemptInv, QueueInv
<1>2. /\ pending \in [Cells -> pending_item_t] /\ pending_free \in [Cells -> BOOLEAN]
      /\ DOMAIN pc = Threads /\ DOMAIN ptr = Adders /\ reply \in Reply \cup {NoReply}
      /\ pc["worker"] \in {"idle", "scan", "send", "invite"}
      /\ pc["worker"] # "idle" => i \in Cells
      /\ \A t \in Adders : InCell(t) => ptr[t] \in Cells
    BY <1>1 DEF TypeInv, TypeOK, Refs, Adders, InCell
<1>3. \A c \in Cells : pending[c] \in pending_item_t /\ pending[c].fifo \in Seq(Frame)
    BY <1>2, ItemFields
<1>4. \A t, u \in Adders : InCell(t) /\ InCell(u) => t = u
    BY <1>1 DEF MutexInv
<1> QED
    BY <1>1, <1>2, <1>3, <1>4

(* What a step of another thread leaves alone, but for the unlocked reset it overwrites. *)
Rests(t) == pc'[t] = pc[t] \/ (pc[t] = "reset" /\ pc'[t] = "added")
PublisherRests == Rests("publisher") /\ reply' = reply /\ ptr'["publisher"] = ptr["publisher"]
MqttRests == Rests("mqtt") /\ msg' = msg /\ ptr'["mqtt"] = ptr["mqtt"]

MqttGoes == MoteKnown \/ MoteUnknown \/ Relookup \/ Enqueue \/ add_device("mqtt")
MqttMoves == MqttGoes \/ \E n \in Nodes : Submit(n)
PublisherGoes == Added \/ Notify \/ Kick \/ Ack \/ Request \/ add_device("publisher")
PublisherTakes(r) == ServeAdd(r) \/ ServeLookup(r)
PublisherMoves == PublisherGoes \/ \E r \in Replies : PublisherTakes(r)

LEMMA MqttAlone == ASSUME PoolInv, MqttMoves PROVE PublisherRests /\ pc'["worker"] = pc["worker"]
<1>a. DOMAIN pc = Threads /\ DOMAIN ptr = Adders
    BY PoolFacts
<1> USE DEF PublisherRests, Rests, Goto, Threads, Adders
<1>1. ASSUME NEW n \in Nodes, Submit(n) PROVE PublisherRests /\ pc'["worker"] = pc["worker"]
    BY <1>1, <1>a DEF Submit
<1>2. CASE MoteKnown \/ MoteUnknown \/ Relookup \/ Enqueue
    BY <1>2, <1>a DEF MoteKnown, MoteUnknown, Relookup, Enqueue, MqttDone
<1>3. CASE add_device("mqtt")
    BY <1>3, <1>a DEF add_device, AddExisting, AddReset, AddOccupy, AddName, AddInitialize, AddFull
<1> QED
    BY <1>1, <1>2, <1>3 DEF MqttMoves, MqttGoes

LEMMA PublisherAlone == ASSUME PoolInv, PublisherMoves PROVE MqttRests /\ pc'["worker"] = pc["worker"]
<1>a. DOMAIN pc = Threads /\ DOMAIN ptr = Adders
    BY PoolFacts
<1> USE DEF MqttRests, Rests, Goto, Threads, Adders
<1>1. ASSUME NEW r \in Replies, ServeAdd(r) \/ ServeLookup(r)
      PROVE  MqttRests /\ pc'["worker"] = pc["worker"]
    BY <1>1, <1>a DEF ServeAdd, ServeLookup, Take
<1>2. CASE Added \/ Notify \/ Kick \/ Ack \/ Request
    BY <1>2, <1>a DEF Added, Notify, Kick, Ack, Request, ReplyDone
<1>3. CASE add_device("publisher")
    BY <1>3, <1>a DEF add_device, AddExisting, AddReset, AddOccupy, AddName, AddInitialize, AddFull
<1> QED
    BY <1>1, <1>2, <1>3 DEF PublisherMoves, PublisherGoes, PublisherTakes

LEMMA WorkerAlone ==
    ASSUME PoolInv, pending_worker \/ Tick \/ UNCHANGED vars
    PROVE  MqttRests /\ PublisherRests /\ submitted' = submitted
<1>a. TypeInv /\ DOMAIN pc = Threads
    BY PoolFacts
<1>1. ASSUME NEW l, NEW lost \in SUBSET Resetting, WorkerGoto(l, lost), UNCHANGED others
      PROVE  MqttRests /\ PublisherRests /\ submitted' = submitted
    BY <1>1, <1>a, WorkerKeeps DEF MqttRests, PublisherRests, Rests, Adders, others
<1>2. ASSUME NEW lost \in SUBSET Resetting, NextCell(lost), UNCHANGED others
      PROVE  MqttRests /\ PublisherRests /\ submitted' = submitted
    BY <1>1, <1>2 DEF NextCell
<1>3. CASE WorkerLock
    BY <1>3, <1>a DEF WorkerLock, Goto, Threads, MqttRests, PublisherRests, Rests
<1>4. CASE Skip \/ GiveUpInvite \/ GiveUpSend \/ DoSend
    BY <1>2, <1>4 DEF Skip, GiveUpInvite, GiveUpSend, DoSend
<1>5. CASE StartInvite \/ DoInvite
    BY <1>1, <1>2, <1>5 DEF StartInvite, DoInvite, InviteAttempt
<1>6. CASE StartSend
    BY <1>1, <1>6 DEF StartSend
<1>7. CASE Tick \/ UNCHANGED vars
    BY <1>7 DEF Tick, vars, MqttRests, PublisherRests, Rests
<1> QED
    BY <1>3, <1>4, <1>5, <1>6, <1>7 DEF pending_worker

LEMMA DCases ==
    ASSUME [DNext]_dvars
    PROVE  \/ \E n \in Nodes : Submit(n) /\ Observe
           \/ MqttGoes /\ Observe
           \/ \E r \in Replies : Honest(r) /\ PublisherTakes(r) /\ Observe
           \/ PublisherGoes /\ Observe
           \/ (pending_worker \/ Tick) /\ Observe
           \/ UNCHANGED dvars
BY DEF DNext, MqttGoes, PublisherGoes, PublisherTakes, Serve

------------------------------------------------------------------------------
(* Which cells are settled, and under which name. *)
SameCells == \A c \in Cells :
    /\ Settled(c)' <=> Settled(c)
    /\ pending'[c].nodeid = pending[c].nodeid

LEMMA KeepsCells == ASSUME PoolInv, Keeps PROVE SameCells
<1>1. \A t \in Adders : InCell(t) => ptr'[t] = ptr[t]
    BY DEF Keeps
<1> QED
    BY <1>1 DEF Keeps, SameCells, Settled, Adders, InCell

LEMMA OccupyKeepsCells ==
    ASSUME PoolInv, NEW t \in Adders, AddOccupy(t)
    PROVE  SameCells
<1>a. /\ pending_free \in [Cells -> BOOLEAN] /\ DOMAIN pc = Threads /\ DOMAIN ptr = Adders
      /\ MutexInv
    BY PoolFacts
<1> USE DEF Adders, Threads, Free, InCell
<1>1. PICK e \in Cells : /\ pending_free[e] /\ ptr' = [ptr EXCEPT ![t] = e]
                         /\ pending_free' = [pending_free EXCEPT ![e] = FALSE]
    BY DEF AddOccupy
<1>2. /\ \A u \in Adders : pc[u] # "occupied"
      /\ pc' = [pc EXCEPT ![t] = "occupied"] /\ pending' = pending
    BY <1>a DEF AddOccupy, MutexInv, Goto
<1>3. \A u \in Adders : pc'[u] = "occupied" <=> u = t
    BY <1>a, <1>2
<1>4. ptr'[t] = e /\ ~pending_free'[e] /\ \A c \in Cells \ {e} : pending_free'[c] = pending_free[c]
    BY <1>a, <1>1
<1> QED
    BY <1>1, <1>2, <1>3, <1>4 DEF SameCells, Settled

(* A settled cell stays settled, and its node the same, until kick_device frees it. *)
LEMMA NameSettles ==
    ASSUME PoolInv, NEW t \in Adders, AddName(t)
    PROVE  /\ ptr[t] \in Cells /\ ~Settled(ptr[t]) /\ pending_free' = pending_free /\ ptr' = ptr
           /\ pending'[ptr[t]].nodeid = AddArgs(t).nodeid
           /\ \A c \in Cells \ {ptr[t]} : pending'[c] = pending[c]
           /\ \A c \in Cells : Settled(c)' <=> (Settled(c) \/ c = ptr[t])
           /\ \A c \in Cells \ {ptr[t]} : ~Settled(c) => pending_free[c]
           /\ \A u \in Adders : pc'[u] # "occupied"
           /\ \A u \in Adders \ {t} : pc'[u] = pc[u] /\ ~InCell(u)
<1>a. /\ pending \in [Cells -> pending_item_t] /\ pending_free \in [Cells -> BOOLEAN]
      /\ \A c \in Cells : pending[c] \in pending_item_t
      /\ DOMAIN pc = Threads /\ OwnInv /\ \A u \in Adders : InCell(u) => ptr[u] \in Cells
      /\ \A u, v \in Adders : InCell(u) /\ InCell(v) => u = v
    BY PoolFacts
<1> USE DEF Adders, Threads
<1>1. /\ pc[t] = "occupied" /\ InCell(t) /\ ptr[t] \in Cells
      /\ pc' = [pc EXCEPT ![t] = "named"] /\ pending_free' = pending_free /\ ptr' = ptr
      /\ pending' = [pending EXCEPT ![ptr[t]] = Named(@, AddArgs(t).nodeid)]
    BY <1>a DEF AddName, Goto, InCell
<1>2. Named(pending[ptr[t]], AddArgs(t).nodeid).nodeid = AddArgs(t).nodeid
    BY <1>a, <1>1 DEF Named, pending_item_t
<1>3. /\ pending'[ptr[t]].nodeid = AddArgs(t).nodeid
      /\ \A c \in Cells \ {ptr[t]} : pending'[c] = pending[c]
    BY <1>a, <1>1, <1>2
<1>4. /\ \A u \in Adders : pc[u] = "occupied" => u = t
      /\ \A u \in Adders : pc'[u] # "occupied"
      /\ \A u \in Adders \ {t} : pc'[u] = pc[u] /\ ~InCell(u)
    BY <1>a, <1>1 DEF InCell
<1>5. ~pending_free[ptr[t]]
    BY <1>a, <1>1 DEF OwnInv
<1>6. /\ \A c \in Cells : Settled(c)' <=> (Settled(c) \/ c = ptr[t])
      /\ ~Settled(ptr[t])
      /\ \A c \in Cells \ {ptr[t]} : ~Settled(c) => pending_free[c]
    BY <1>1, <1>4, <1>5 DEF Settled
<1> QED
    BY <1>1, <1>3, <1>4, <1>6

LEMMA SettledStays ==
    ASSUME PoolInv, [Next]_vars, ~Kick, NEW c \in Cells, Settled(c)
    PROVE  Settled(c)' /\ pending'[c].nodeid = pending[c].nodeid
<1>1. CASE \E t \in Adders : AddOccupy(t)
    BY <1>1, OccupyKeepsCells DEF SameCells
<1>2. CASE \E t \in Adders : AddName(t)
    BY <1>2, NameSettles
<1>3. CASE \A t \in Adders : ~AddOccupy(t) /\ ~AddName(t)
    BY <1>3, PoolFacts, NextKeeps, KeepsCells DEF SameCells
<1> QED
    BY <1>1, <1>2, <1>3

(* What is not a race when a step is taken. *)
LEMMA NotRaced ==
    ASSUME [DNext]_dvars, ~raced'
    PROVE  ~raced /\ (UNCHANGED dvars \/ (Observe /\ ~KickedUnder /\ ~FoundFormer))
<1>1. UNCHANGED dvars => ~raced
    BY ZenonT(20) DEF dvars, conversation
<1>2. Observe => ~raced /\ ~KickedUnder /\ ~FoundFormer
    BY Zenon DEF Observe
<1> QED
    BY <1>1, <1>2 DEF DNext

(* A lookup finds a cell of the node, unless it is being made for another. *)
LEMMA FoundMine ==
    ASSUME NEW n, NEW e \in Cells, pending_to_nodeid(n, e), ~Adding(e, n)
    PROVE  Mine(e, n)
<1>1. ~pending_free[e] /\ pending[e].nodeid = n
    BY Constants DEF pending_to_nodeid, Occupied
<1> QED
    BY <1>1 DEF Mine, Settled, Adding, Adders

LEMMA MineSettled ==
    ASSUME PoolInv, mutex_pending = Free, NEW c, NEW n, Mine(c, n)
    PROVE  Settled(c) /\ pending[c].nodeid = n
<1>1. \A t \in Adders : pc[t] # "occupied"
    BY PoolFacts DEF MutexInv, InCell, Adders, Free
<1> QED
    BY <1>1 DEF Mine

(* A node's cell stays its own until kick_device frees it. *)
LEMMA MineStays ==
    ASSUME PoolInv, [Next]_vars, ~Kick, NEW c \in Cells, NEW n, Mine(c, n)
    PROVE  Mine(c, n)'
<1>1. CASE Settled(c) /\ pending[c].nodeid = n
    BY <1>1, SettledStays DEF Mine
<1>2. ASSUME NEW t \in Adders, pc[t] = "occupied", ptr[t] = c, AddArgs(t).nodeid = n
      PROVE  Mine(c, n)'
  <2>1. InCell(t) /\ \A u \in Adders : ~AddOccupy(u)
      BY <1>2, PoolFacts DEF InCell, MutexInv, AddOccupy, Adders, Free
  <2>2. CASE AddName(t)
      BY <1>2, <2>2, NameSettles DEF Mine
  <2>3. ASSUME NEW u \in Adders, u # t PROVE ~AddName(u)
      BY <2>1, <2>3, PoolFacts DEF AddName, InCell
  <2>4. CASE ~AddName(t)
    <3>1. Keeps
        BY <2>1, <2>3, <2>4, NextKeeps DEF PoolInv, WorkerInv
    <3>2. AddArgs(t)'.nodeid = AddArgs(t).nodeid
        BY <2>1, <3>1 DEF Keeps, AddArgs, Adders
    <3> QED
        BY <1>2, <2>1, <3>1, <3>2 DEF Keeps, Mine
  <2> QED
      BY <2>2, <2>4
<1> QED
    BY <1>1, <1>2 DEF Mine

LEMMA MineKept ==
    ASSUME PoolInv, Kick, NEW c \in Cells, ~pending_free'[c], NEW n, Mine(c, n)
    PROVE  Mine(c, n)'
<1>a. /\ pending \in [Cells -> pending_item_t] /\ \A d \in Cells : pending[d] \in pending_item_t
      /\ DOMAIN pc = Threads /\ MutexInv
    BY PoolFacts
<1>1. Settled(c) /\ pending[c].nodeid = n
    BY MineSettled DEF Kick
<1>2. \A t \in Adders : pc'[t] # "occupied"
    BY <1>a DEF Kick, ReplyDone, Goto, MutexInv, InCell, Adders, Threads, Free
<1>3. \A d \in Cells : pending'[d].nodeid = pending[d].nodeid
  <2>1. ASSUME NEW e \in Cells, pending' = [pending EXCEPT ![e] = Emptied(@)]
        PROVE  \A d \in Cells : pending'[d].nodeid = pending[d].nodeid
    <3>1. Emptied(pending[e]).nodeid = pending[e].nodeid
        BY <1>a DEF Emptied, pending_item_t
    <3> QED
        BY <1>a, <2>1, <3>1, NameKept
  <2> QED
      BY <2>1 DEF Kick, pool
<1> QED
    BY <1>1, <1>2, <1>3 DEF Mine, Settled, Adders

------------------------------------------------------------------------------
(* Pointers: looked up without the mutex, kept until they are used under it. *)
LEMMA RestsNoKick == ASSUME PoolInv, PublisherRests PROVE ~Kick
BY PoolFacts DEF PublisherRests, Rests, Kick, ReplyDone, Goto, Threads

LEMMA NextPointers ==
    ASSUME PoolInv, Pointers, [DNext]_dvars, ~raced' PROVE Pointers'
<1>a. /\ DOMAIN pc = Threads /\ DOMAIN ptr = Adders
      /\ \A t \in Adders : pc[t] \in {"enqueue", "ack", "request"} => ptr[t] \in Cells
    BY PoolFacts DEF TypeInv, Refs, Adders
<1>b. [Next]_vars
    BY StepOfPool
<1>c. UNCHANGED dvars \/ (~KickedUnder /\ ~FoundFormer)
    BY NotRaced
<1> USE DEF Threads, Adders
<1> DEFINE Mqtt == pc["mqtt"] = "enqueue" => Mine(ptr["mqtt"], msg.to)
           Publisher == pc["publisher"] \in {"ack", "request"} => Mine(ptr["publisher"], reply.nodeid)
<1>p. Mqtt /\ Publisher
    BY DEF Pointers
<1>m. ASSUME MqttRests, pc'["mqtt"] = "enqueue" PROVE Mine(ptr["mqtt"], msg.to)'
  <2>1. /\ pc["mqtt"] = "enqueue" /\ ptr["mqtt"] \in Cells /\ Mine(ptr["mqtt"], msg.to)
        /\ ptr'["mqtt"] = ptr["mqtt"] /\ msg' = msg
      BY <1>a, <1>m, <1>p DEF MqttRests, Rests
  <2>2. PICK e, n : e = ptr["mqtt"] /\ n = msg.to
      OBVIOUS
  <2>3. CASE ~Kick
    <3>1. Mine(e, n)'
        BY <1>b, <2>1, <2>2, <2>3, MineStays
    <3> QED
        BY <2>1, <2>2, <3>1 DEF Mine
  <2>4. CASE Kick
    <3>1. ~pending_free[e]
        BY <2>1, <2>2, <2>4, MineSettled DEF Kick, Settled
    <3>2. ~UNCHANGED dvars
        BY <1>a, <2>4 DEF Kick, ReplyDone, Goto, dvars, vars
    <3>3. ~pending_free'[e]
        BY <1>c, <2>1, <2>2, <3>1, <3>2 DEF KickedUnder
    <3>4. Mine(e, n)'
        BY <2>1, <2>2, <2>4, <3>3, MineKept
    <3> QED
        BY <2>1, <2>2, <3>4 DEF Mine
  <2> QED
      BY <2>3, <2>4
<1>r. ASSUME PublisherRests, pc'["publisher"] \in {"ack", "request"}
      PROVE  Mine(ptr["publisher"], reply.nodeid)'
  <2>1. /\ ptr["publisher"] \in Cells /\ Mine(ptr["publisher"], reply.nodeid)
        /\ ptr'["publisher"] = ptr["publisher"] /\ reply' = reply
      BY <1>a, <1>r, <1>p DEF PublisherRests, Rests
  <2>2. PICK e, n : e = ptr["publisher"] /\ n = reply.nodeid
      OBVIOUS
  <2>3. Mine(e, n)'
      BY <1>b, <1>r, <2>1, <2>2, RestsNoKick, MineStays
  <2> QED
      BY <2>1, <2>2, <2>3 DEF Mine
\* A lookup that leads somewhere, by either thread.
<1>l. ASSUME NEW t \in Adders, NEW l \in {"enqueue", "ack", "request"}, Found(t, l), ~Kick,
             NEW e \in Cells, NEW n, pending_to_nodeid(n, e), ptr'[t] = e, ~FoundFormer,
             t = "mqtt" => n = msg.to /\ l = "enqueue", t = "publisher" => n = reply'.nodeid /\ l # "enqueue"
      PROVE  Mine(e, n)'
  <2>1. ~Adding(e, n)
      BY <1>l DEF FoundFormer
  <2> QED
      BY <1>b, <1>l, <2>1, FoundMine, MineStays
<1>1. CASE (\E n \in Nodes : Submit(n)) \/ MqttGoes
  <2>1. PublisherRests /\ ~Kick
      BY <1>1, MqttAlone, RestsNoKick DEF MqttMoves
  <2>2. ASSUME MoteKnown \/ Relookup, pc'["mqtt"] = "enqueue" PROVE Mine(ptr["mqtt"], msg.to)'
    <3>1. PICK e \in Cells : pending_to_nodeid(msg.to, e) /\ ptr' = [ptr EXCEPT !["mqtt"] = e]
        BY <2>2, <1>a DEF MoteKnown, Relookup, MqttDone, Goto
    <3>2. Found("mqtt", "enqueue") /\ msg' = msg /\ ptr'["mqtt"] = e
        BY <2>2, <1>a, <3>1 DEF MoteKnown, Relookup, MqttDone, Goto, Found
    <3>3. ~FoundFormer
        BY <1>c, <3>2 DEF Found, dvars, vars
    <3>4. PICK n : n = msg.to
        OBVIOUS
    <3>5. Mine(e, n)'
        BY <1>l, <2>1, <3>1, <3>2, <3>3, <3>4
    <3> QED
        BY <3>2, <3>4, <3>5 DEF Mine
  <2>3. Mqtt'
      BY <1>1, <1>a, <2>2
      DEF MqttGoes, Submit, MoteUnknown, Enqueue, MqttDone, Goto, add_device, AddExisting,
          AddReset, AddOccupy, AddName, AddInitialize, AddFull
  <2> QED
      BY <1>r, <2>1, <2>3 DEF Pointers
<1>2. ASSUME NEW r \in Replies, PublisherTakes(r) PROVE Pointers'
  <2>1. MqttRests /\ pc["publisher"] = "idle" /\ ~Kick
      BY <1>2, PublisherAlone
      DEF PublisherMoves, PublisherTakes, ServeAdd, ServeLookup, Take, Kick
  <2>2. ASSUME pc'["publisher"] \in {"ack", "request"} PROVE Mine(ptr["publisher"], reply.nodeid)'
    <3>1. PICK e \in Cells : /\ pending_to_nodeid(r.nodeid, e)
                             /\ ptr' = [ptr EXCEPT !["publisher"] = e]
        BY <1>2, <1>a, <2>1, <2>2 DEF PublisherTakes, ServeAdd, ServeLookup, Take, Goto
    <3>2. reply' = r /\ ptr'["publisher"] = e
        BY <1>2, <1>a, <2>1, <2>2, <3>1 DEF PublisherTakes, ServeAdd, ServeLookup, Take, Goto
    <3>3. PICK l \in {"ack", "request"} : Found("publisher", l)
        BY <2>1, <2>2 DEF Found
    <3>4. ~FoundFormer
        BY <1>c, <3>3 DEF Found, dvars, vars
    <3>5. PICK n : n = r.nodeid
        OBVIOUS
    <3>6. Mine(e, n)'
        BY <1>l, <2>1, <3>1, <3>2, <3>3, <3>4, <3>5
    <3> QED
        BY <3>2, <3>5, <3>6 DEF Mine
  <2> QED
      BY <1>m, <2>1, <2>2 DEF Pointers
<1>3. CASE PublisherGoes
  <2>1. MqttRests
      BY <1>3, PublisherAlone DEF PublisherMoves
  <2>2. pc'["publisher"] \notin {"ack", "request"}
      BY <1>3, <1>a
      DEF PublisherGoes, Added, Notify, Kick, Ack, Request, ReplyDone, add_device, AddExisting,
          AddReset, AddOccupy, AddName, AddInitialize, AddFull, Goto
  <2> QED
      BY <1>m, <2>1, <2>2 DEF Pointers
<1>4. CASE pending_worker \/ Tick \/ UNCHANGED vars
    BY <1>4, <1>m, <1>r, WorkerAlone DEF Pointers
<1> QED
    BY <1>1, <1>2, <1>3, <1>4, DCases DEF dvars

LEMMA InitPointers == DInit => Pointers
BY DEF DInit, Init, Pointers, Threads

------------------------------------------------------------------------------
(* Delivery: a message waits in an initialised cell, under its addressee's name. *)
LEMMA DeliveryKept ==
    ASSUME PoolInv, Delivery,
           \A c \in Cells : Raw(c)' => Raw(c) \/ pending'[c].fifo = <<>>,
           \A c \in Cells : pending'[c].fifo \in {pending[c].fifo, m_dequeue(pending[c].fifo), <<>>},
           \A c \in Cells : pending'[c].nodeid = pending[c].nodeid \/ pending'[c].fifo = <<>>
    PROVE  Delivery'
<1> SUFFICES ASSUME NEW c \in Cells
             PROVE  /\ Raw(c)' => pending'[c].fifo = <<>>
                    /\ \A k \in DOMAIN pending'[c].fifo : pending'[c].fifo[k].to = pending'[c].nodeid
    BY DEF Delivery
<1>1. Raw(c)' => pending'[c].fifo = <<>>
    BY DEF Delivery, m_dequeue
<1>2. PICK s \in {0, 1} : \A k \in DOMAIN pending'[c].fifo :
          k + s \in DOMAIN pending[c].fifo /\ pending'[c].fifo[k] = pending[c].fifo[k + s]
    BY PoolFacts, Shifted
<1>3. \A k \in DOMAIN pending[c].fifo : pending[c].fifo[k].to = pending[c].nodeid
    BY DEF Delivery
<1>4. CASE pending'[c].fifo = <<>>
    BY <1>1, <1>4
<1>5. CASE pending'[c].nodeid = pending[c].nodeid
    BY <1>1, <1>2, <1>3, <1>5
<1> QED
    BY <1>4, <1>5

LEMMA EnqueueDelivers ==
    ASSUME PoolInv, Pointers, Delivery, Keeps, Enqueue PROVE Delivery'
<1> DEFINE e == ptr["mqtt"]
<1>a. /\ pending \in [Cells -> pending_item_t] /\ pending[e] \in pending_item_t
      /\ pending[e].fifo \in Seq(Frame) /\ e \in Cells /\ MutexInv /\ msg \in Frame
    BY PoolFacts DEF Enqueue, TypeInv, Refs
<1>1. \A t \in Adders : ~InCell(t) /\ ~InCell(t)'
    BY <1>a DEF Enqueue, MutexInv, Keeps, InCell, Adders, Free
<1>2. Settled(e) /\ pending[e].nodeid = msg.to
    BY MineSettled DEF Pointers, Enqueue
<1>3. \A c \in Cells : (Raw(c)' <=> Raw(c)) /\ ~Raw(e)
    BY <1>1, <1>2 DEF Raw, Settled, Keeps
<1> HIDE DEF e
<1>4. CASE UNCHANGED pending
    BY <1>3, <1>4 DEF Delivery
<1>5. CASE pending' = [pending EXCEPT ![e] = Enqueued(@, msg)]
  <2>1. pending'[e].fifo = Append(pending[e].fifo, msg)
      BY <1>5, <1>a, Fifos DEF m_enqueue
  <2>2. pending'[e].nodeid = msg.to
      BY <1>2, <1>a DEF Keeps
  <2>3. \A k \in DOMAIN pending[e].fifo : pending[e].fifo[k].to = msg.to
      BY <1>2, <1>a DEF Delivery
  <2>4. \A k \in DOMAIN pending'[e].fifo : pending'[e].fifo[k].to = msg.to
      BY <1>a, <2>1, <2>3
  <2>5. \A c \in Cells \ {e} : pending'[c] = pending[c]
      BY <1>5, <1>a
  <2> QED
      BY <1>3, <2>2, <2>4, <2>5 DEF Delivery
<1> QED
    BY <1>4, <1>5 DEF Enqueue, e

LEMMA NextDelivery ==
    ASSUME PoolInv, Pointers, Delivery, [DNext]_dvars PROVE Delivery'
<1>a. /\ pending \in [Cells -> pending_item_t] /\ pending_free \in [Cells -> BOOLEAN]
      /\ \A c \in Cells : pending[c] \in pending_item_t
      /\ DOMAIN pc = Threads /\ DOMAIN ptr = Adders /\ QueueInv /\ CellInv /\ MutexInv
    BY PoolFacts DEF PoolInv, WorkerInv
<1>b. [Next]_vars
    BY StepOfPool
<1> USE DEF Threads, Adders, Free
<1>1. CASE Kick
  <2>1. \A t \in Adders : InCell(t)' => InCell(t) /\ ptr'[t] = ptr[t]
      BY <1>1, <1>a DEF Kick, ReplyDone, Goto, InCell
  <2>2. CASE UNCHANGED pool
      BY <2>1, <2>2, DeliveryKept DEF Raw, pool
  <2>3. ASSUME NEW e \in Cells, pending_free' = [pending_free EXCEPT ![e] = TRUE],
               pending' = [pending EXCEPT ![e] = Emptied(@)]
        PROVE  Delivery'
    <3>1. pending'[e].fifo = <<>> /\ \A c \in Cells \ {e} : pending'[c] = pending[c]
        BY <1>a, <2>3, Fifos
    <3>2. \A c \in Cells \ {e} : pending_free'[c] = pending_free[c]
        BY <1>a, <2>3
    <3>3. \A c \in Cells \ {e} : Raw(c)' => Raw(c)
        BY <2>1, <3>2 DEF Raw
    <3> QED
        BY <3>1, <3>3, DeliveryKept
  <2> QED
      BY <1>1, <2>2, <2>3 DEF Kick
<1>2. ASSUME NEW t \in Adders, AddOccupy(t) PROVE Delivery'
  <2>1. PICK e \in Cells : /\ pending_free[e] /\ ptr' = [ptr EXCEPT ![t] = e]
                           /\ pending_free' = [pending_free EXCEPT ![e] = FALSE]
      BY <1>2 DEF AddOccupy
  <2>2. pc' = [pc EXCEPT ![t] = "occupied"] /\ pending' = pending
      BY <1>2 DEF AddOccupy, Goto
  <2>3. \A c \in Cells : Raw(c)' => Raw(c)
      BY <1>a, <2>1, <2>2 DEF Raw, InCell
  <2> QED
      BY <2>2, <2>3, DeliveryKept
<1>3. ASSUME NEW t \in Adders, AddName(t) PROVE Delivery'
  <2>1. /\ ptr[t] \in Cells /\ pending_free' = pending_free /\ ptr' = ptr
        /\ \A c \in Cells \ {ptr[t]} : pending'[c] = pending[c]
        /\ pending' = [pending EXCEPT ![ptr[t]] = Named(@, AddArgs(t).nodeid)]
        /\ pc' = [pc EXCEPT ![t] = "named"] /\ InCell(t)
      BY <1>3, NameSettles DEF AddName, Goto, InCell
  <2>2. pending[ptr[t]].fifo = <<>>
      BY <2>1 DEF Delivery, Raw
  <2>3. pending'[ptr[t]].fifo = <<>>
      BY <1>a, <2>1, <2>2, Fifos
  <2>4. \A c \in Cells : Raw(c)' => Raw(c)
      BY <1>a, <2>1 DEF Raw, InCell
  <2> QED
      BY <2>1, <2>3, <2>4, DeliveryKept
<1>4. CASE ~Kick /\ \A t \in Adders : ~AddOccupy(t) /\ ~AddName(t)
  <2>1. Keeps
      BY <1>a, <1>b, <1>4, NextKeeps
  <2>2. \A c \in Cells : Raw(c)' => Raw(c)
      BY <2>1 DEF Keeps, Raw, InCell
  <2>3. CASE Enqueue
      BY <2>1, <2>3, EnqueueDelivers
  <2>4. CASE \E n \in Nodes : Submit(n)
    <3>1. pending' = pending
        BY <2>4 DEF Submit, pool
    <3> QED
        BY <2>2, <3>1, DeliveryKept
  <2>5. CASE ~Enqueue /\ \A n \in Nodes : ~Submit(n)
    <3>1. Shrinks
        BY <1>a, <1>b, <2>5, NextShrinks
    <3> QED
        BY <2>1, <2>2, <3>1, DeliveryKept DEF Shrinks, Keeps
  <2> QED
      BY <2>3, <2>4, <2>5
<1> QED
    BY <1>1, <1>2, <1>3, <1>4

LEMMA InitDelivery == DInit => Delivery
BY DEF DInit, Init, init_pending, Delivery

------------------------------------------------------------------------------
(* OnDemand: only a request lets a cell send, only a transmission takes the leave
   back, and while the worker waits for mutex_uart nobody changes its cell's class. *)
SendsLess == \A c \in Cells :
    /\ pending'[c].can_send => pending[c].can_send
    /\ mutex_pending = "worker" => pending'[c].nodeclass = pending[c].nodeclass

(* What each update does to the leave to send and to the class of its cell. *)
LEMMA Leaves ==
    ASSUME NEW e \in pending_item_t
    PROVE  /\ \A a : Rejoined(e, a).can_send = e.can_send /\ ~NewItem(a).can_send
           /\ \A n : Named(e, n).can_send = e.can_send /\ Named(e, n).nodeclass = e.nodeclass
           /\ \A m : Enqueued(e, m).can_send = e.can_send /\ Enqueued(e, m).nodeclass = e.nodeclass
           /\ \A f \in {Reset(e), InvitedAgain(e), Attempted(e), Aged(e), Emptied(e), Acked(e),
                        GivenUp(e)} :
                 f.can_send = e.can_send /\ f.nodeclass = e.nodeclass
           /\ Requested(e).nodeclass = e.nodeclass
           /\ ~Transmitted(e).can_send /\ Transmitted(e).nodeclass = e.nodeclass
BY DEF pending_item_t, Rejoined, NewItem, Named, Enqueued, Reset, Requested, InvitedAgain,
       Attempted, Transmitted, Aged, Emptied, Acked, GivenUp

LEMMA CellSendsLess ==
    ASSUME PoolInv, NEW e \in Cells, NEW r, pending' = [pending EXCEPT ![e] = r],
           r.can_send => pending[e].can_send,
           mutex_pending = "worker" => r.nodeclass = pending[e].nodeclass
    PROVE  SendsLess
BY PoolFacts DEF SendsLess

LEMMA NextSends ==
    ASSUME PoolInv, [Next]_vars, ~Request, ~DoSend PROVE SendsLess
<1>a. /\ \A c \in Cells : pending[c] \in pending_item_t
      /\ MutexInv /\ TypeInv
    BY PoolFacts
<1> USE DEF Adders, Free
<1>c. ASSUME UNCHANGED pending PROVE SendsLess
    BY <1>c DEF SendsLess
<1>1. CASE (\E n \in Nodes : Submit(n)) \/ MoteKnown \/ MoteUnknown \/ Relookup
    BY <1>1, <1>c DEF Submit, MoteKnown, MoteUnknown, Relookup, pool
<1>2. CASE Enqueue
  <2>1. ptr["mqtt"] \in Cells
      BY <1>2, <1>a DEF Enqueue, TypeInv, Refs
  <2>2. CASE pending' = [pending EXCEPT ![ptr["mqtt"]] = Enqueued(@, msg)]
    <3>1. /\ Enqueued(pending[ptr["mqtt"]], msg).can_send = pending[ptr["mqtt"]].can_send
          /\ Enqueued(pending[ptr["mqtt"]], msg).nodeclass = pending[ptr["mqtt"]].nodeclass
        BY <1>a, <2>1, Leaves
    <3> QED
        BY <2>1, <2>2, <3>1, CellSendsLess
  <2> QED
      BY <1>2, <1>c, <2>2 DEF Enqueue
<1>3. ASSUME NEW t \in Adders, AddExisting(t) PROVE SendsLess
  <2>1. PICK c \in Cells : pending' = [pending EXCEPT ![c] = Rejoined(@, AddArgs(t))]
      BY <1>3 DEF AddExisting
  <2>2. mutex_pending # "worker"
      BY <1>3 DEF AddExisting
  <2>3. Rejoined(pending[c], AddArgs(t)).can_send = pending[c].can_send
      BY <1>a, Leaves
  <2> QED
      BY <2>1, <2>2, <2>3, CellSendsLess
<1>4. ASSUME NEW t \in Adders, AddReset(t) PROVE SendsLess
  <2>1. ptr[t] \in Cells /\ pending' = [pending EXCEPT ![ptr[t]] = Reset(@)]
      BY <1>4, <1>a DEF AddReset, TypeInv, Refs
  <2> QED
      BY <1>a, <2>1, Leaves, CellSendsLess
<1>5. ASSUME NEW t \in Adders, AddName(t) PROVE SendsLess
  <2>1. ptr[t] \in Cells /\ pending' = [pending EXCEPT ![ptr[t]] = Named(@, AddArgs(t).nodeid)]
      BY <1>5, <1>a DEF AddName, TypeInv, Refs
  <2>2. /\ Named(pending[ptr[t]], AddArgs(t).nodeid).can_send = pending[ptr[t]].can_send
        /\ Named(pending[ptr[t]], AddArgs(t).nodeid).nodeclass = pending[ptr[t]].nodeclass
      BY <1>a, <2>1, Leaves
  <2> QED
      BY <2>1, <2>2, CellSendsLess
<1>6. ASSUME NEW t \in Adders, AddInitialize(t) PROVE SendsLess
  <2>1. ptr[t] \in Cells /\ pending' = [pending EXCEPT ![ptr[t]] = NewItem(AddArgs(t))]
      BY <1>6, <1>a DEF AddInitialize, TypeInv, Refs
  <2>2. mutex_pending # "worker"
      BY <1>6, <1>a DEF AddInitialize, MutexInv, InCell
  <2> QED
      BY <1>a, <2>1, <2>2, Leaves, CellSendsLess
<1>7. ASSUME NEW t \in Adders, AddOccupy(t) \/ AddFull(t) PROVE SendsLess
    BY <1>7, <1>c DEF AddOccupy, AddFull, pool
<1>8. CASE (\E r \in Replies : ServeAdd(r) \/ ServeLookup(r)) \/ Added \/ Notify
    BY <1>8, <1>c DEF ServeAdd, ServeLookup, Added, Notify, pool
<1>9. CASE Kick
  <2>1. CASE UNCHANGED pending
      BY <1>c, <2>1
  <2>2. ASSUME NEW e \in Cells, pending' = [pending EXCEPT ![e] = Emptied(@)] PROVE SendsLess
      BY <1>a, <2>2, Leaves, CellSendsLess
  <2> QED
      BY <1>9, <2>1, <2>2 DEF Kick, pool
<1>10. CASE Ack
  <2>1. /\ ptr["publisher"] \in Cells
        /\ pending' = [pending EXCEPT ![ptr["publisher"]] = Acked(@)]
      BY <1>10, <1>a DEF Ack, TypeInv, Refs
  <2> QED
      BY <1>a, <2>1, Leaves, CellSendsLess
<1>11. CASE WorkerLock \/ Skip \/ UNCHANGED vars
    BY <1>11, <1>c DEF WorkerLock, Skip, pool, vars
<1>12. ASSUME pending_worker, ~WorkerLock PROVE i \in Cells
    BY <1>12, <1>a
    DEF pending_worker, Skip, GiveUpInvite, GiveUpSend, StartInvite, DoInvite, StartSend, DoSend,
        HasMessage, At, TypeInv, Refs
<1>13. CASE pending_worker /\ ~WorkerLock /\ ~Skip
  <2>1. CASE UNCHANGED pending
      BY <1>c, <2>1
  <2>2. ASSUME NEW r \in {GivenUp(pending[i]), InvitedAgain(pending[i]), Attempted(pending[i])},
               pending' = [pending EXCEPT ![i] = r]
        PROVE  SendsLess
    <3>1. r.can_send = pending[i].can_send /\ r.nodeclass = pending[i].nodeclass
        BY <1>12, <1>13, <1>a, <2>2, Leaves
    <3> QED
        BY <1>12, <1>13, <2>2, <3>1, CellSendsLess
  <2>3. \/ UNCHANGED pending
        \/ \E r \in {GivenUp(pending[i]), InvitedAgain(pending[i]), Attempted(pending[i])} :
              pending' = [pending EXCEPT ![i] = r]
      BY <1>13
      DEF pending_worker, GiveUpInvite, GiveUpSend, GiveUp, StartInvite, DoInvite, InviteAttempt,
          StartSend
  <2> QED
      BY <2>1, <2>2, <2>3
<1>14. CASE Tick
    BY <1>14, <1>a, Leaves DEF Tick, SendsLess
<1> QED
    BY <1>1, <1>2, <1>3, <1>4, <1>5, <1>6, <1>7, <1>8, <1>9, <1>10, <1>11, <1>13, <1>14
    DEF Next, message_to_mote, add_device, serve_reply, Serve, pending_worker

LEMMA LeavesCell ==
    ASSUME PoolInv, [Next]_vars, NEW t \in Adders, InCell(t), ~InCell(t)'
    PROVE  AddInitialize(t)
<1>a. DOMAIN pc = Threads
    BY PoolFacts
<1> USE DEF Adders, Threads
<1>1. CASE t = "publisher"
  <2>1. ~PublisherRests
      BY <1>1 DEF PublisherRests, Rests, InCell
  <2>2. PublisherMoves
      BY <2>1, MqttAlone, WorkerAlone
      DEF Next, message_to_mote, serve_reply, Serve, MqttMoves, MqttGoes, PublisherMoves,
          PublisherGoes, PublisherTakes
  <2> QED
      BY <1>1, <1>a, <2>2
      DEF PublisherMoves, PublisherGoes, PublisherTakes, ServeAdd, ServeLookup, Take, Added, Notify,
          Kick, Ack, Request, add_device, AddExisting, AddReset, AddOccupy, AddName, AddFull, Goto,
          InCell
<1>2. CASE t = "mqtt"
  <2>1. ~MqttRests
      BY <1>2 DEF MqttRests, Rests, InCell
  <2>2. MqttMoves
      BY <2>1, PublisherAlone, WorkerAlone
      DEF Next, message_to_mote, serve_reply, Serve, MqttMoves, MqttGoes, PublisherMoves,
          PublisherGoes, PublisherTakes
  <2> QED
      BY <1>2, <1>a, <2>2
      DEF MqttMoves, MqttGoes, Submit, MoteKnown, MoteUnknown, Relookup, Enqueue, add_device,
          AddExisting, AddReset, AddOccupy, AddName, AddFull, Goto, InCell
<1> QED
    BY <1>1, <1>2

(* Only the worker's DoSend transmits a message. *)
LEMMA OnlyDoSend ==
    ASSUME Next, ~DoSend PROVE out'.event # "IND"
<1> USE DEF Says, Silent
<1>1. CASE message_to_mote
    BY <1>1 DEF message_to_mote, Submit, MoteKnown, MoteUnknown, Relookup, Enqueue, MqttDone
<1>2. ASSUME NEW t \in Adders, add_device(t) PROVE out'.event # "IND"
    BY <1>2 DEF add_device, AddExisting, AddReset, AddOccupy, AddName, AddInitialize, AddFull
<1>3. CASE serve_reply
    BY <1>3
    DEF serve_reply, Serve, ServeAdd, ServeLookup, Added, Notify, Kick, Ack, Request, ReplyDone
<1>4. CASE pending_worker
    BY <1>4
    DEF pending_worker, WorkerLock, Skip, GiveUpInvite, GiveUpSend, GiveUp, StartInvite, DoInvite,
        StartSend
<1>5. CASE Tick
    BY <1>5 DEF Tick
<1> QED
    BY <1>1, <1>2, <1>3, <1>4, <1>5 DEF Next, Adders

(* A cell that has or may use the leave to send had it before, unless it is asked for. *)
LEMMA LeaveKept ==
    ASSUME PoolInv, [Next]_vars, SendsLess, NEW c \in Cells, ~Raw(c)', pending'[c].can_send
    PROVE  ~Raw(c) /\ pending[c].can_send /\ pending'[c].nodeid = pending[c].nodeid
<1>a. /\ pending \in [Cells -> pending_item_t] /\ pending_free \in [Cells -> BOOLEAN]
      /\ \A d \in Cells : pending[d] \in pending_item_t
      /\ DOMAIN pc = Threads /\ DOMAIN ptr = Adders /\ CellInv /\ MutexInv /\ TypeInv
    BY PoolFacts DEF PoolInv, WorkerInv
<1> USE DEF Adders, Threads, Free
<1>0. pending[c].can_send
    BY DEF SendsLess
<1>1. CASE Kick
  <2>1. \A t \in Adders : InCell(t) <=> InCell(t)'
      BY <1>1, <1>a DEF Kick, ReplyDone, Goto, InCell
  <2>2. ~Raw(c)
      BY <1>1, <1>a, <2>1 DEF Kick, ReplyDone, Raw, pool, MutexInv, InCell
  <2>3. pending'[c].nodeid = pending[c].nodeid
    <3>1. CASE UNCHANGED pending
        BY <3>1
    <3>2. ASSUME NEW e \in Cells, pending' = [pending EXCEPT ![e] = Emptied(@)]
          PROVE  pending'[c].nodeid = pending[c].nodeid
      <4>1. Emptied(pending[e]).nodeid = pending[e].nodeid
          BY <1>a DEF Emptied, pending_item_t
      <4> QED
          BY <3>2, <1>a, <4>1
    <3> QED
        BY <1>1, <3>1, <3>2 DEF Kick, pool
  <2> QED
      BY <1>0, <2>2, <2>3
<1>2. ASSUME NEW t \in Adders, AddOccupy(t) PROVE ~Raw(c) /\ pending'[c] = pending[c]
  <2>1. PICK e \in Cells : /\ pending_free[e] /\ ptr' = [ptr EXCEPT ![t] = e]
                           /\ pending_free' = [pending_free EXCEPT ![e] = FALSE]
      BY <1>2 DEF AddOccupy
  <2>2. /\ pc' = [pc EXCEPT ![t] = "occupied"] /\ pending' = pending
        /\ \A u \in Adders : ~InCell(u)
      BY <1>2, <1>a DEF AddOccupy, Goto, MutexInv
  <2>3. InCell(t)' /\ ptr'[t] = e
      BY <1>a, <2>1, <2>2 DEF InCell
  <2>4. c # e /\ ~pending_free[c]
      BY <1>a, <2>1, <2>3 DEF Raw
  <2> QED
      BY <2>2, <2>4 DEF Raw
<1>3. ASSUME NEW t \in Adders, AddName(t) PROVE ~Raw(c) /\ pending'[c] = pending[c]
  <2>1. /\ ptr[t] \in Cells /\ pending_free' = pending_free /\ ptr' = ptr
        /\ \A d \in Cells \ {ptr[t]} : pending'[d] = pending[d]
        /\ pc' = [pc EXCEPT ![t] = "named"] /\ pc[t] = "occupied"
      BY <1>3, NameSettles DEF AddName, Goto
  <2>2. \A u \in Adders : InCell(u) <=> InCell(u)'
      BY <1>a, <2>1 DEF InCell
  <2>3. c # ptr[t] /\ ~Raw(c)
      BY <2>1, <2>2 DEF Raw, InCell
  <2> QED
      BY <2>1, <2>3
<1>4. CASE ~Kick /\ \A t \in Adders : ~AddOccupy(t) /\ ~AddName(t)
  <2>1. Keeps
      BY <1>a, <1>4, NextKeeps
  <2>2. SUFFICES ASSUME Raw(c) PROVE FALSE
      BY <1>0, <2>1 DEF Keeps
  <2>3. PICK t \in Adders : InCell(t) /\ ptr[t] = c
      BY <2>1, <2>2 DEF Raw, Keeps
  <2>4. AddInitialize(t)
      BY <2>1, <2>3, LeavesCell DEF Raw, Keeps
  <2>5. pending'[c] = NewItem(AddArgs(t))
      BY <1>a, <2>3, <2>4 DEF AddInitialize
  <2> QED
      BY <2>5 DEF NewItem
<1> QED
    BY <1>0, <1>1, <1>2, <1>3, <1>4

(* The transmission takes the leave of the cell's node, and of no other cell. *)
LEMMA SendKeepsOnDemand ==
    ASSUME PoolInv, Delivery, OnDemand, DoSend, Observe PROVE OnDemand'
<1>a. /\ pending \in [Cells -> pending_item_t] /\ \A c \in Cells : pending[c] \in pending_item_t
      /\ UniqueCell /\ WorkerCellStable /\ i \in Cells /\ pc["worker"] = "send" /\ TypeInv
    BY PoolFacts DEF DoSend, At
<1>1. pending[i].fifo # <<>> /\ Head(pending[i].fifo) = buf /\ pending[i].fifo \in Seq(Frame)
    BY <1>a, PoolFacts DEF WorkerCellStable, At, cell
<1>2. buf.to = pending[i].nodeid
  <2>1. 1 \in DOMAIN pending[i].fifo /\ pending[i].fifo[1] = buf
      BY <1>1
  <2> QED
      BY <1>a, <2>1 DEF Delivery
<1>3. Settled(i)
    BY <1>a, <1>1 DEF Delivery, Raw, Settled, Adders, InCell
<1>4. /\ \A t \in Adders : pc'[t] = pc[t]
      /\ ptr' = ptr /\ pending_free' = pending_free
      /\ pc'["worker"] # "send"
    BY <1>a DEF DoSend, NextCell, WorkerGoto, Adders, Threads, others
<1>5. ~pending'[i].can_send /\ \A c \in Cells \ {i} : pending'[c] = pending[c]
    BY <1>a, Leaves DEF DoSend
<1>6. ASSUME NEW c \in Cells, ~Raw(c)', pending'[c].can_send
      PROVE  pending'[c].nodeid \in asked'
  <2>1. c # i /\ ~Raw(c) /\ pending'[c] = pending[c] /\ pending[c].nodeid \in asked
      BY <1>4, <1>5, <1>6 DEF Raw, InCell, OnDemand
  <2>2. Settled(c)
      BY <2>1 DEF Raw, Settled, Adders, InCell
  <2>3. pending[c].nodeid # buf.to
      BY <1>a, <1>2, <1>3, <2>1, <2>2 DEF UniqueCell
  <2>4. out'.nodeid = buf.to
      BY DEF DoSend, Says
  <2> QED
      BY <2>1, <2>3, <2>4 DEF Observe
<1> QED
    BY <1>4, <1>6 DEF OnDemand, OnDemandCell, At

LEMMA NextOnDemand ==
    ASSUME PoolInv, Pointers, Delivery, OnDemand, [DNext]_dvars PROVE OnDemand'
<1>a. /\ pending \in [Cells -> pending_item_t] /\ \A c \in Cells : pending[c] \in pending_item_t
      /\ DOMAIN pc = Threads /\ DOMAIN ptr = Adders /\ TypeInv /\ CellInv /\ MutexInv
    BY PoolFacts DEF PoolInv, WorkerInv
<1>b. [Next]_vars
    BY StepOfPool
<1>1. CASE UNCHANGED dvars
    BY <1>1
    DEF dvars, vars, conversation, OnDemand, OnDemandCell, At, cell, Raw, InCell
<1>2. CASE DoSend /\ Observe
    BY <1>2, SendKeepsOnDemand
<1>3. CASE DNext /\ ~DoSend
  <2>1. Next /\ asked \subseteq asked'
      BY <1>3, OnlyDoSend DEF DNext, Next, message_to_mote, serve_reply, Observe, Writes
  <2>2. ASSUME ~Request, NEW c \in Cells, ~Raw(c)', pending'[c].can_send
        PROVE  pending'[c].nodeid \in asked'
    <3>1. SendsLess
        BY <1>b, <1>3, <2>2, NextSends
    <3>2. ~Raw(c) /\ pending[c].can_send /\ pending'[c].nodeid = pending[c].nodeid
        BY <1>b, <2>2, <3>1, LeaveKept
    <3> QED
        BY <2>1, <3>2 DEF OnDemand
  <2>3. ASSUME Request, NEW c \in Cells, ~Raw(c)', pending'[c].can_send
        PROVE  pending'[c].nodeid \in asked'
    <3> DEFINE e == ptr["publisher"]
    <3>1. /\ e \in Cells /\ pc["publisher"] = "request" /\ reply \in Reply
          /\ pc'["publisher"] = "idle" /\ out' = Silent
          /\ pending' = [pending EXCEPT ![e] = Requested(@)]
        BY <1>a, <2>3 DEF Request, ReplyDone, Goto, TypeInv, Refs, Threads
    <3>2. \A t \in Adders : ~InCell(t)
        BY <1>a, <2>3 DEF Request, MutexInv, Adders, Free
    <3> HIDE DEF e
    <3>3. CASE c = e
      <4>1. pending'[c].nodeid = reply.nodeid
        <5>1. Requested(pending[e]).nodeid = pending[e].nodeid
            BY <1>a, <3>1 DEF Requested, pending_item_t
        <5>2. pending[e].nodeid = reply.nodeid
            BY <2>3, <3>1, MineSettled DEF Pointers, Request, e
        <5> QED
            BY <1>a, <3>1, <3>3, <5>1, <5>2
      <4>2. reply.nodeid \in asked'
          BY <1>3, <3>1 DEF DNext, Observe, Writes, Silent, Says, Reply
      <4> QED
          BY <4>1, <4>2
    <3>4. CASE c # e
      <4>1. pending'[c] = pending[c] /\ pending_free' = pending_free
          BY <1>a, <2>3, <3>1, <3>4 DEF Request
      <4>2. ~Raw(c)
          BY <2>3, <3>2, <4>1 DEF Raw
      <4> QED
          BY <2>1, <2>3, <4>1, <4>2 DEF OnDemand
    <3> QED
        BY <3>3, <3>4
  <2>4. ASSUME pc'["worker"] = "send", pc["worker"] # "send" PROVE StartSend
    <3>1. ~MqttMoves /\ ~PublisherMoves
        BY <2>4, MqttAlone, PublisherAlone
    <3>2. pending_worker
        BY <1>3, <2>4, <3>1
        DEF DNext, MqttMoves, MqttGoes, PublisherMoves, PublisherGoes, PublisherTakes, Serve, Tick
    <3> QED
        BY <1>3, <1>a, <2>4, <3>2
        DEF pending_worker, WorkerLock, Goto, Skip, GiveUpInvite, GiveUpSend, StartInvite, DoInvite,
            InviteAttempt, NextCell, WorkerGoto, Threads
  <2>5. ASSUME pc'["worker"] = "send", pc["worker"] = "send" PROVE i' = i
    <3>1. ~pending_worker
        BY <1>3, <1>a, <2>5
        DEF pending_worker, WorkerLock, Skip, GiveUpInvite, GiveUpSend, StartInvite, DoInvite,
            StartSend, HasMessage, At
    <3> QED
        BY <1>3, <3>1
        DEF DNext, Submit, MoteKnown, MoteUnknown, Relookup, Enqueue, Serve, ServeAdd, ServeLookup,
            Added, Notify, Kick, Ack, Request, add_device, AddExisting, AddReset, AddOccupy, AddName,
            AddInitialize, AddFull, Tick, worker
  <2>6. ASSUME StartSend PROVE OnDemandCell'
    <3>1. /\ i \in Cells /\ i' = i /\ pending[i].fifo # <<>>
          /\ pending[i].nodeclass = "A" => pending[i].can_send
          /\ pending' = [pending EXCEPT ![i] = Attempted(@)]
        BY <2>6, <1>a DEF StartSend, HasMessage, OnDemandOnly, At, cell, TypeInv, Refs
    <3>2. /\ pending'[i].nodeclass = pending[i].nodeclass
          /\ pending'[i].nodeid = pending[i].nodeid
      <4>1. /\ Attempted(pending[i]).nodeclass = pending[i].nodeclass
            /\ Attempted(pending[i]).nodeid = pending[i].nodeid
          BY <1>a, <3>1 DEF Attempted, pending_item_t
      <4> QED
          BY <1>a, <3>1, <4>1
    <3>3. ~Raw(i)
        BY <3>1 DEF Delivery
    <3>4. pending[i].nodeclass = "A" => pending[i].nodeid \in asked
        BY <3>1, <3>3 DEF OnDemand
    <3> QED
        BY <2>1, <3>1, <3>2, <3>4 DEF OnDemandCell, At, cell
  <2>7. ASSUME pc["worker"] = "send", pc'["worker"] = "send" PROVE OnDemandCell'
    <3>1. /\ mutex_pending = "worker" /\ i \in Cells /\ pending[i].fifo # <<>>
          /\ i' = i
        BY <1>a, <2>5, <2>7, PoolFacts DEF MutexInv, WorkerCellStable, At, cell
    <3>2. ~Kick /\ ~Request
        BY <3>1 DEF Kick, Request, Free
    <3>3. pending'[i].nodeclass = pending[i].nodeclass
        BY <1>b, <1>3, <3>1, <3>2, NextSends DEF SendsLess
    <3>4. Settled(i)
        BY <3>1 DEF Delivery, Raw, Settled, Adders, InCell
    <3>5. pending'[i].nodeid = pending[i].nodeid
        BY <1>b, <3>1, <3>2, <3>4, SettledStays
    <3> QED
        BY <2>1, <2>7, <3>1, <3>3, <3>5 DEF OnDemand, OnDemandCell, At, cell
  <2>8. OnDemandCell'
      BY <2>4, <2>6, <2>7 DEF OnDemandCell, At
  <2> QED
      BY <2>2, <2>3, <2>8 DEF OnDemand
<1> QED
    BY <1>1, <1>2, <1>3 DEF DNext

LEMMA InitOnDemand == DInit => OnDemand
BY DEF DInit, Init, init_pending, OnDemand, OnDemandCell, At, Threads

------------------------------------------------------------------------------
(* Until a pointer goes astray, every message is where it belongs. *)
Routed == raced \in BOOLEAN /\ PoolInv /\ (~raced => RouteInv /\ OnDemand)

LEMMA InitRouted == DInit => Routed
BY InitPool, InitPointers, InitDelivery, InitOnDemand DEF Routed, RouteInv, DInit

LEMMA NextRouted == ASSUME Routed, [DNext]_dvars PROVE Routed'
<1>1. raced' \in BOOLEAN
    BY DEF Routed, DNext, Observe, dvars, conversation
<1>2. PoolInv'
    BY NextPool DEF Routed
<1>3. ASSUME ~raced' PROVE RouteInv' /\ OnDemand'
  <2>1. RouteInv /\ OnDemand
      BY <1>3, NotRaced DEF Routed
  <2> QED
      BY <1>2, <1>3, <2>1, NextPointers, NextDelivery, NextOnDemand DEF RouteInv
<1> QED
    BY <1>1, <1>2, <1>3 DEF Routed

\* A message leaves for a node recorded as class A only on a request made since the
\* last transmission, with any pool, limits and replies, and however the threads
\* interleave, until a pointer goes astray (mqtt.c:795-798, 724-727, 916).
THEOREM SentOnDemand == DSpec => []SentOnAsk
<1>1. Routed => SentOnAsk
    BY DEF Routed, OnDemand, SentOnAsk
<1>2. Routed /\ [DNext]_dvars => Routed'
    BY NextRouted
<1> QED
    BY <1>1, <1>2, InitRouted, PTL DEF DSpec

------------------------------------------------------------------------------
(* What a step does to the messages: it takes one from MQTT, queues or refuses it,
   transmits or removes the head of a queue, empties the queue of a node kicked out,
   or leaves them alone. *)
SameFifos == \A c \in Cells : pending'[c].fifo = pending[c].fifo
SameMsg == msg' = msg /\ submitted' = submitted
QuietStep == SameFifos /\ SameMsg /\ out'.event # "IND"
SubmitStep == SameFifos /\ \E n \in Nodes : Submit(n)
AcceptStep ==
    /\ Enqueue /\ Settled(ptr["mqtt"]) /\ pending[ptr["mqtt"]].nodeid = msg.to
    /\ pending'[ptr["mqtt"]].fifo = Append(pending[ptr["mqtt"]].fifo, msg)
    /\ \A c \in Cells \ {ptr["mqtt"]} : pending'[c].fifo = pending[c].fifo
    /\ msg' = NoFrame /\ out'.event \notin {"IND", "oom", "full"}
RefuseStep ==
    /\ SameFifos /\ pc["mqtt"] # "idle"
    /\ msg' = NoFrame /\ submitted' = submitted /\ out'.event \in {"oom", "full"}
RemoveStep == \E e \in Cells :
    /\ pending'[e].fifo = m_dequeue(pending[e].fifo)
    /\ \A c \in Cells \ {e} : pending'[c].fifo = pending[c].fifo
    /\ SameMsg /\ out'.event # "IND" /\ Accounted /\ ~Kick
KickStep == \E e \in Cells :
    /\ Kick /\ Settled(e) /\ pending[e].nodeid = reply.nodeid /\ pending'[e].fifo = <<>>
    /\ \A c \in Cells \ {e} : pending'[c].fifo = pending[c].fifo
    /\ SameMsg /\ out'.event # "IND"
SendStep ==
    /\ SameFifos /\ SameMsg /\ pc["worker"] = "send"
    /\ out' = Says("IND", buf.to, buf.id)

LEMMA StepKinds ==
    ASSUME RouteInv, [Next]_vars
    PROVE  \/ QuietStep \/ SubmitStep \/ AcceptStep \/ RefuseStep
           \/ RemoveStep \/ KickStep \/ SendStep \/ UNCHANGED vars
<1>a. /\ pending \in [Cells -> pending_item_t] /\ \A c \in Cells : pending[c] \in pending_item_t
      /\ DOMAIN pc = Threads /\ TypeInv /\ MutexInv /\ PoolInv /\ Delivery
    BY PoolFacts DEF RouteInv
<1> USE DEF Threads, Adders, Free, Says, Silent
<1>s. ASSUME NEW e \in Cells, NEW r, pending' = [pending EXCEPT ![e] = r]
      PROVE  /\ pending'[e] = r /\ \A c \in Cells \ {e} : pending'[c] = pending[c]
             /\ r.fifo = pending[e].fifo => SameFifos
    BY <1>a, <1>s DEF SameFifos
<1>u. UNCHANGED pending => SameFifos
    BY DEF SameFifos
<1>1. CASE (\E n \in Nodes : Submit(n)) \/ MoteKnown \/ MoteUnknown \/ Relookup
    BY <1>1, <1>u
    DEF Submit, MoteKnown, MoteUnknown, Relookup, MqttDone, pool, SubmitStep, QuietStep,
        RefuseStep, SameMsg
<1>2. CASE Enqueue
  <2> DEFINE e == ptr["mqtt"]
  <2>1. /\ e \in Cells /\ Settled(e) /\ pending[e].nodeid = msg.to
        /\ pc["mqtt"] # "idle" /\ msg' = NoFrame /\ submitted' = submitted
      BY <1>2, <1>a, MineSettled DEF Enqueue, MqttDone, RouteInv, Pointers, TypeInv, Refs
  <2>2. CASE /\ pending' = [pending EXCEPT ![e] = Enqueued(@, msg)]
             /\ out'.event \notin {"IND", "oom", "full"}
    <3>1. Enqueued(pending[e], msg).fifo = Append(pending[e].fifo, msg)
        BY <1>a, <2>1, Fifos DEF m_enqueue
    <3> HIDE DEF e
    <3>2. /\ pending'[e].fifo = Append(pending[e].fifo, msg)
          /\ \A c \in Cells \ {e} : pending'[c].fifo = pending[c].fifo
        BY <1>s, <2>1, <2>2, <3>1
    <3> QED
        BY <1>2, <2>1, <2>2, <3>2 DEF AcceptStep, e
  <2>3. CASE UNCHANGED pending /\ out'.event = "oom"
      BY <1>u, <2>1, <2>3 DEF RefuseStep
  <2> QED
      BY <1>2, <2>2, <2>3 DEF Enqueue, MqttDone
<1>3. ASSUME NEW t \in Adders, add_device(t) PROVE QuietStep
  <2>1. SameMsg /\ out' = Silent
      BY <1>3
      DEF add_device, AddExisting, AddReset, AddOccupy, AddName, AddInitialize, AddFull, SameMsg
  <2>2. ASSUME NEW e \in Cells, NEW r \in {Rejoined(pending[e], AddArgs(t)), Reset(pending[e]),
                                           Named(pending[e], AddArgs(t).nodeid)},
               pending' = [pending EXCEPT ![e] = r]
        PROVE  SameFifos
    <3>1. r.fifo = pending[e].fifo
        BY <1>a, <2>2, Fifos
    <3> QED
        BY <1>s, <2>2, <3>1
  <2>3. CASE AddInitialize(t)
    <3>1. ptr[t] \in Cells /\ pending' = [pending EXCEPT ![ptr[t]] = NewItem(AddArgs(t))]
        BY <2>3, <1>a DEF AddInitialize, TypeInv, Refs
    <3>2. InCell(t) /\ Delivery
        BY <1>a, <2>3 DEF AddInitialize, InCell
    <3>5. pending[ptr[t]].fifo = <<>>
        BY <1>3, <3>1, <3>2 DEF Delivery, Raw
    <3>3. NewItem(AddArgs(t)).fifo = <<>>
        BY DEF NewItem
    <3>4. SameFifos
        BY <1>s, <3>1, <3>5, <3>3
    <3> QED
        BY <2>1, <3>4 DEF QuietStep
  <2>4. CASE ~AddInitialize(t)
    <3>1. AddReset(t) \/ AddName(t) => ptr[t] \in Cells
        BY <1>a DEF AddReset, AddName, TypeInv, Refs
    <3>2. SameFifos
        BY <1>3, <1>u, <2>2, <2>4, <3>1
        DEF add_device, AddExisting, AddReset, AddOccupy, AddName, AddFull, pool
    <3> QED
        BY <2>1, <3>2 DEF QuietStep
  <2> QED
      BY <2>3, <2>4
<1>4. CASE (\E r \in Replies : ServeAdd(r) \/ ServeLookup(r)) \/ Added \/ Notify
    BY <1>4, <1>u
    DEF ServeAdd, ServeLookup, Added, Notify, ReplyDone, pool, QuietStep, SameMsg
<1>5. CASE Request
  <2>1. /\ ptr["publisher"] \in Cells
        /\ pending' = [pending EXCEPT ![ptr["publisher"]] = Requested(@)]
        /\ Requested(pending[ptr["publisher"]]).fifo = pending[ptr["publisher"]].fifo
      BY <1>5, <1>a, Fifos DEF Request, TypeInv, Refs
  <2>2. SameFifos
      BY <1>s, <2>1
  <2> QED
      BY <1>5, <2>2 DEF Request, ReplyDone, QuietStep, SameMsg
<1>6. CASE Ack
  <2> DEFINE e == ptr["publisher"]
  <2>1. /\ e \in Cells
        /\ pending' = [pending EXCEPT ![e] = Acked(@)]
        /\ Acked(pending[e]).fifo = m_dequeue(pending[e].fifo)
      BY <1>6, <1>a, Fifos DEF Ack, TypeInv, Refs
  <2>2. SameMsg /\ out'.event # "IND" /\ Accounted /\ ~Kick
      BY <1>6, <1>a DEF Ack, ReplyDone, Goto, SameMsg, Accounted, Kick
  <2> HIDE DEF e
  <2>3. /\ pending'[e].fifo = m_dequeue(pending[e].fifo)
        /\ \A c \in Cells \ {e} : pending'[c].fifo = pending[c].fifo
      BY <1>s, <2>1
  <2> QED
      BY <2>1, <2>2, <2>3 DEF RemoveStep
<1>7. CASE Kick
  <2>1. SameMsg /\ out'.event # "IND"
      BY <1>7 DEF Kick, ReplyDone, SameMsg
  <2>2. CASE UNCHANGED pool
      BY <1>u, <2>1, <2>2 DEF QuietStep, pool
  <2>3. ASSUME NEW e \in Cells, pending_to_nodeid(reply.nodeid, e),
               pending' = [pending EXCEPT ![e] = Emptied(@)]
        PROVE  KickStep
    <3>1. Settled(e) /\ pending[e].nodeid = reply.nodeid
        BY <1>7, <1>a, <2>3, Constants
        DEF Kick, MutexInv, InCell, Settled, pending_to_nodeid, Occupied
    <3>2. Emptied(pending[e]).fifo = <<>>
        BY <1>a, Fifos
    <3>3. /\ pending'[e].fifo = <<>>
          /\ \A c \in Cells \ {e} : pending'[c].fifo = pending[c].fifo
        BY <1>s, <2>3, <3>2
    <3> QED
        BY <1>7, <2>1, <3>1, <3>3 DEF KickStep
  <2> QED
      BY <1>7, <2>2, <2>3 DEF Kick
<1>8. CASE pending_worker
  <2>1. SameMsg
      BY <1>8
      DEF pending_worker, WorkerLock, Skip, GiveUpInvite, GiveUpSend, StartInvite, DoInvite,
          StartSend, DoSend, others, SameMsg
  <2>2. ~WorkerLock => i \in Cells
      BY <1>8, <1>a
      DEF pending_worker, Skip, GiveUpInvite, GiveUpSend, StartInvite, DoInvite, StartSend, DoSend,
          HasMessage, At, TypeInv, Refs
  <2>3. CASE WorkerLock \/ Skip
      BY <1>u, <2>1, <2>3 DEF WorkerLock, Skip, pool, QuietStep
  <2>4. CASE GiveUpInvite \/ GiveUpSend
    <3>0. i \in Cells
        BY <2>2, <2>4, <1>8 DEF WorkerLock, GiveUpInvite, GiveUpSend, HasMessage, At
    <3>1. CASE UNCHANGED pending /\ out'.event # "IND"
        BY <1>u, <2>1, <3>1 DEF QuietStep
    <3>2. CASE pending' = [pending EXCEPT ![i] = GivenUp(@)] /\ out'.event \in {"sent0", "invited0"}
      <4>1. GivenUp(pending[i]).fifo = m_dequeue(pending[i].fifo)
          BY <1>a, <3>0, Fifos
      <4>2. /\ pending'[i].fifo = m_dequeue(pending[i].fifo)
            /\ \A c \in Cells \ {i} : pending'[c].fifo = pending[c].fifo
          BY <1>s, <3>0, <3>2, <4>1
      <4>3. ~Kick
          BY <2>4, <1>a DEF GiveUpInvite, GiveUpSend, HasMessage, At, MutexInv, Kick
      <4> QED
          BY <2>1, <3>0, <3>2, <4>2, <4>3 DEF RemoveStep, Accounted, Writes
    <3> QED
        BY <2>4, <3>1, <3>2 DEF GiveUpInvite, GiveUpSend, GiveUp
  <2>5. CASE StartInvite \/ DoInvite
    <3>0. i \in Cells
        BY <2>2, <2>5, <1>8 DEF WorkerLock, StartInvite, DoInvite, HasMessage, At
    <3>1. out'.event # "IND"
        BY <2>5 DEF StartInvite, DoInvite
    <3>2. CASE UNCHANGED pending
        BY <1>u, <2>1, <3>1, <3>2 DEF QuietStep
    <3>3. CASE pending' = [pending EXCEPT ![i] = InvitedAgain(@)]
      <4>1. InvitedAgain(pending[i]).fifo = pending[i].fifo
          BY <1>a, <3>0, Fifos
      <4>2. SameFifos
          BY <1>s, <3>0, <3>3, <4>1
      <4> QED
          BY <2>1, <3>1, <4>2 DEF QuietStep
    <3> QED
        BY <2>5, <3>2, <3>3 DEF StartInvite, DoInvite, InviteAttempt
  <2>6. CASE StartSend
    <3>1. /\ i \in Cells /\ pending' = [pending EXCEPT ![i] = Attempted(@)] /\ out' = Silent
          /\ Attempted(pending[i]).fifo = pending[i].fifo
        BY <2>2, <2>6, <1>8, <1>a, Fifos DEF WorkerLock, StartSend, HasMessage, At
    <3>2. SameFifos
        BY <1>s, <3>1
    <3> QED
        BY <2>1, <3>1, <3>2 DEF QuietStep
  <2>7. CASE DoSend
    <3>1. /\ i \in Cells /\ pending' = [pending EXCEPT ![i] = Transmitted(@)]
          /\ pc["worker"] = "send" /\ out' = Says("IND", buf.to, buf.id)
          /\ Transmitted(pending[i]).fifo = pending[i].fifo
        BY <2>2, <2>7, <1>8, <1>a, Fifos DEF WorkerLock, DoSend, At
    <3>2. SameFifos
        BY <1>s, <3>1
    <3> QED
        BY <2>1, <3>1, <3>2 DEF SendStep
  <2> QED
      BY <1>8, <2>3, <2>4, <2>5, <2>6, <2>7 DEF pending_worker
<1>9. CASE Tick
  <2>1. SameFifos
      BY <1>9, <1>a, Fifos DEF Tick, SameFifos
  <2> QED
      BY <1>9, <2>1 DEF Tick, QuietStep, SameMsg
<1> QED
    BY <1>1, <1>2, <1>3, <1>4, <1>5, <1>6, <1>7, <1>8, <1>9
    DEF Next, message_to_mote, serve_reply, Serve

------------------------------------------------------------------------------
(* The numbers of the messages of a queue. *)
Numbers(f) == [k \in DOMAIN f |-> f[k].id]

LEMMA NumbersOf ==
    ASSUME NEW f \in Seq(Frame)
    PROVE  /\ Numbers(f) \in Seq(1..MaxMsgs)
           /\ Len(Numbers(f)) = Len(f)
           /\ f = <<>> => Numbers(f) = <<>>
           /\ f # <<>> => Numbers(f) # <<>> /\ Head(Numbers(f)) = Head(f).id
           /\ f # <<>> => Numbers(m_dequeue(f)) = Tail(Numbers(f))
           /\ \A m \in Frame : Numbers(Append(f, m)) = Append(Numbers(f), m.id)
<1>1. \A k \in 1..Len(f) : f[k].id \in 1..MaxMsgs
  <2>1. \A m \in Frame : m.id \in 1..MaxMsgs
      BY DEF Frame
  <2> QED
      BY <2>1
<1>2. Numbers(f) \in Seq(1..MaxMsgs) /\ Len(Numbers(f)) = Len(f)
  <2>1. Numbers(f) = [k \in 1..Len(f) |-> f[k].id] /\ Len(f) \in Nat
      BY DEF Numbers
  <2> QED
      BY <1>1, <2>1
<1>3. f = <<>> => Numbers(f) = <<>>
    BY <1>2
<1>4. f # <<>> => Numbers(f) # <<>> /\ Head(Numbers(f)) = Head(f).id
    BY <1>2 DEF Numbers
<1>5. ASSUME f # <<>> PROVE Numbers(m_dequeue(f)) = Tail(Numbers(f))
  <2>1. /\ m_dequeue(f) = Tail(f) /\ Tail(f) \in Seq(Frame) /\ Len(Tail(f)) = Len(f) - 1
        /\ \A k \in 1..(Len(f) - 1) : Tail(f)[k] = f[k + 1]
      BY <1>5 DEF m_dequeue
  <2>2. /\ Tail(Numbers(f)) \in Seq(1..MaxMsgs) /\ Len(Tail(Numbers(f))) = Len(f) - 1
        /\ \A k \in 1..(Len(f) - 1) : Tail(Numbers(f))[k] = Numbers(f)[k + 1]
      BY <1>2, <1>4, <1>5
  <2>3. \A k \in 1..(Len(f) - 1) : Numbers(f)[k + 1] = f[k + 1].id
      BY DEF Numbers
  <2>4. Numbers(Tail(f)) = [k \in 1..(Len(f) - 1) |-> Tail(f)[k].id]
      BY <2>1 DEF Numbers
  <2>5. Tail(Numbers(f)) = [k \in 1..(Len(f) - 1) |-> Tail(Numbers(f))[k]]
    <3>1. Tail(Numbers(f)) \in [1..(Len(f) - 1) -> 1..MaxMsgs]
        BY <2>2, LenProperties
    <3> QED
        BY <3>1
  <2> QED
      BY <2>1, <2>2, <2>3, <2>4, <2>5
<1>6. ASSUME NEW m \in Frame PROVE Numbers(Append(f, m)) = Append(Numbers(f), m.id)
  <2>1. Append(f, m) \in Seq(Frame) /\ Len(Append(f, m)) = Len(f) + 1
      OBVIOUS
  <2>2. m.id \in 1..MaxMsgs
      BY DEF Frame
  <2>3. /\ Append(Numbers(f), m.id) \in Seq(1..MaxMsgs)
        /\ Len(Append(Numbers(f), m.id)) = Len(f) + 1
      BY <1>2, <2>2
  <2>4. \A k \in 1..(Len(f) + 1) :
            Append(Numbers(f), m.id)[k] = Append(f, m)[k].id
      BY <1>2, <2>2 DEF Numbers
  <2>5. Numbers(Append(f, m)) = [k \in 1..(Len(f) + 1) |-> Append(f, m)[k].id]
      BY <2>1 DEF Numbers
  <2>6. Append(Numbers(f), m.id) = [k \in 1..(Len(f) + 1) |-> Append(Numbers(f), m.id)[k]]
      BY <2>3
  <2> QED
      BY <2>4, <2>5, <2>6
<1> QED
    BY <1>2, <1>3, <1>4, <1>5, <1>6

(* The queue of a node is that of its settled cell; no other with its name has messages. *)
Queues == \A n \in Nodes :
    /\ \A c \in Cells : pending[c].nodeid = n /\ (Settled(c) \/ pending[c].fifo # <<>>)
                           => QueueOf(n) = Numbers(pending[c].fifo)
    /\ (\A c \in Cells : pending[c].nodeid = n => pending[c].fifo = <<>>) => QueueOf(n) = <<>>

LEMMA RouteQueues == RouteInv => Queues
<1> SUFFICES ASSUME RouteInv, NEW n \in Nodes
             PROVE  /\ \A c \in Cells : pending[c].nodeid = n /\ (Settled(c) \/ pending[c].fifo # <<>>)
                                           => QueueOf(n) = Numbers(pending[c].fifo)
                    /\ (\A c \in Cells : pending[c].nodeid = n => pending[c].fifo = <<>>)
                           => QueueOf(n) = <<>>
    BY DEF Queues
<1>a. PoolInv /\ Delivery /\ UniqueCell /\ \A c \in Cells : pending[c].fifo \in Seq(Frame)
    BY PoolFacts DEF RouteInv
<1>1. ASSUME NEW c \in Cells, pending[c].nodeid = n, Settled(c) \/ pending[c].fifo # <<>>
      PROVE  c \in CellsOf(n)
    BY <1>a, <1>1 DEF Delivery, Raw, Settled, CellsOf, Adders, InCell
<1>2. ASSUME NEW c \in CellsOf(n) PROVE QueueOf(n) = Numbers(pending[c].fifo)
  <2> DEFINE g == CHOOSE d \in Cells : d \in CellsOf(n)
  <2>1. \A d \in Cells : d \in CellsOf(n) => d = c
      BY <1>a, <1>2 DEF CellsOf, UniqueCell
  <2>2. g = c
      BY <1>2, <2>1 DEF CellsOf
  <2>3. QueueOf(n) = Numbers(pending[g].fifo)
      BY <1>2, Zenon DEF QueueOf, Numbers
  <2> QED
      BY <2>2, <2>3
<1>3. CellsOf(n) = {} => QueueOf(n) = <<>>
    BY DEF QueueOf
<1>4. ASSUME \A c \in Cells : pending[c].nodeid = n => pending[c].fifo = <<>>
      PROVE  QueueOf(n) = <<>>
  <2>1. ASSUME NEW c \in CellsOf(n) PROVE QueueOf(n) = <<>>
    <3>1. pending[c].fifo = <<>>
        BY <1>4, <2>1 DEF CellsOf
    <3> QED
        BY <1>2, <1>a, <2>1, <3>1, NumbersOf DEF CellsOf
  <2> QED
      BY <1>3, <2>1
<1> QED
    BY <1>1, <1>2, <1>4

------------------------------------------------------------------------------
(* Between two messages the MQTT thread holds none. *)
MsgIdle == pc["mqtt"] = "idle" => msg = NoFrame

LEMMA NextMsgIdle == ASSUME PoolInv, MsgIdle, [Next]_vars PROVE MsgIdle'
<1>a. DOMAIN pc = Threads
    BY PoolFacts
<1>1. CASE MqttMoves
    BY <1>1, <1>a
    DEF MqttMoves, MqttGoes, Submit, MoteKnown, MoteUnknown, Relookup, Enqueue, MqttDone, Goto,
        add_device, AddExisting, AddReset, AddOccupy, AddName, AddInitialize, AddFull, MsgIdle,
        Threads
<1>2. CASE MqttRests
    BY <1>2 DEF MqttRests, Rests, MsgIdle
<1> QED
    BY <1>1, <1>2, PublisherAlone, WorkerAlone
    DEF Next, message_to_mote, serve_reply, Serve, MqttMoves, MqttGoes, PublisherMoves,
        PublisherGoes, PublisherTakes

LEMMA InitMsgIdle == DInit => MsgIdle
BY DEF DInit, Init, MsgIdle

ServiceInv == RouteInv /\ Queues /\ MsgIdle

LEMMA QueuedNames ==
    ASSUME RouteInv, [Next]_vars, NEW c \in Cells, Settled(c) \/ pending[c].fifo # <<>>
    PROVE  Settled(c) /\ pending'[c].nodeid = pending[c].nodeid
<1>a. /\ pending \in [Cells -> pending_item_t] /\ \A d \in Cells : pending[d] \in pending_item_t
      /\ PoolInv /\ Delivery
    BY PoolFacts DEF RouteInv
<1>1. Settled(c)
    BY <1>a DEF Delivery, Raw, Settled, Adders, InCell
<1>2. CASE Kick
  <2>1. CASE UNCHANGED pending
      BY <1>1, <2>1
  <2>2. ASSUME NEW e \in Cells, pending' = [pending EXCEPT ![e] = Emptied(@)]
        PROVE  pending'[c].nodeid = pending[c].nodeid
    <3>1. Emptied(pending[e]).nodeid = pending[e].nodeid
        BY <1>a DEF Emptied, pending_item_t
    <3> QED
        BY <1>a, <2>2, <3>1
  <2> QED
      BY <1>1, <1>2, <2>1, <2>2 DEF Kick, pool
<1> QED
    BY <1>a, <1>1, <1>2, SettledStays

(* The queue of a node changes only with the queue of a cell of its name. *)
LEMMA QueueKept ==
    ASSUME RouteInv, Queues, Queues', [Next]_vars, NEW n \in Nodes,
           \A c \in Cells : \/ pending'[c].fifo = pending[c].fifo
                            \/ pending[c].nodeid # n /\ Settled(c)
    PROVE  QueueOf(n)' = QueueOf(n)
<1>1. CASE \E c \in Cells : pending[c].nodeid = n /\ pending[c].fifo # <<>>
  <2>1. PICK c \in Cells : pending[c].nodeid = n /\ pending[c].fifo # <<>>
      BY <1>1
  <2>2. pending'[c].fifo = pending[c].fifo /\ pending'[c].nodeid = n
      BY <2>1, QueuedNames
  <2>3. QueueOf(n) = Numbers(pending[c].fifo)
      BY <2>1 DEF Queues
  <2>4. QueueOf(n)' = Numbers(pending[c].fifo)
      BY <2>1, <2>2 DEF Queues, Numbers
  <2> QED
      BY <2>3, <2>4
<1>2. CASE \A c \in Cells : pending[c].nodeid = n => pending[c].fifo = <<>>
  <2>1. ASSUME NEW c \in Cells, pending'[c].nodeid = n, pending'[c].fifo # <<>> PROVE FALSE
    <3>1. Settled(c) \/ pending[c].fifo # <<>>
        BY <2>1
    <3>2. pending[c].nodeid = n
        BY <2>1, <3>1, QueuedNames
    <3> QED
        BY <1>2, <2>1, <3>2
  <2>2. QueueOf(n) = <<>> /\ QueueOf(n)' = <<>>
      BY <1>2, <2>1 DEF Queues
  <2> QED
      BY <2>2
<1> QED
    BY <1>1, <1>2

(* A step of the pool is a step of the service, or changes nothing of it. *)
Waiting == [n \in Nodes |-> QueueOf(n)]
Air == IF out.event = "IND" THEN [to |-> out.nodeid, id |-> out.num] ELSE NoFrame

LEMMA ServiceSteps ==
    ASSUME \/ /\ msg' = msg /\ submitted' = submitted /\ Waiting' = Waiting
              /\ Air' = NoFrame \/ Air' = Air
           \/ \E n \in Nodes : /\ msg = NoFrame /\ submitted < MaxMsgs /\ Waiting' = Waiting
                               /\ msg' = [to |-> n, id |-> submitted + 1]
                               /\ submitted' = submitted + 1 /\ Air' = NoFrame
           \/ /\ msg # NoFrame /\ msg' = NoFrame /\ submitted' = submitted /\ Air' = NoFrame
              /\ \/ Waiting' = Waiting
                 \/ Waiting' = [Waiting EXCEPT ![msg.to] = Append(@, msg.id)]
           \/ /\ msg' = msg /\ submitted' = submitted
              /\ \E n \in Nodes :
                    \/ /\ Waiting[n] # <<>> /\ Waiting' = Waiting
                       /\ Air' = [to |-> n, id |-> Head(Waiting[n])]
                    \/ /\ Waiting[n] # <<>> /\ Air' = NoFrame
                       /\ Waiting' = [Waiting EXCEPT ![n] = Tail(@)]
                    \/ Waiting' = [Waiting EXCEPT ![n] = <<>>] /\ Air' = NoFrame
    PROVE  Service!Serve \/ UNCHANGED <<msg, submitted, Waiting, Air>>
BY DEF Waiting, Air, Service!Serve, Service!Submit, Service!Accept, Service!Refuse,
       Service!Transmit, Service!Remove, Service!Kick, Service!Quiet, Service!NoMsg, NoFrame

LEMMA NextService ==
    ASSUME ServiceInv, ServiceInv', [DNext]_dvars
    PROVE  Service!Serve \/ UNCHANGED <<msg, submitted, Waiting, Air>>
<1>a. /\ RouteInv /\ Queues /\ Queues' /\ MsgIdle /\ PoolInv /\ Delivery
      /\ [Next]_vars
    BY StepOfPool DEF ServiceInv, RouteInv
<1>b. /\ pending \in [Cells -> pending_item_t]
      /\ \A c \in Cells : pending[c] \in pending_item_t /\ pending[c].fifo \in Seq(Frame)
      /\ UniqueCell /\ WorkerCellStable /\ TypeInv
    BY <1>a, PoolFacts
<1>c. ASSUME NEW c \in Cells, pending[c].fifo # <<>>
      PROVE  /\ Settled(c) /\ pending[c].nodeid \in Nodes
             /\ Head(pending[c].fifo).to = pending[c].nodeid
             /\ QueueOf(pending[c].nodeid) = Numbers(pending[c].fifo)
  <2>1. 1 \in DOMAIN pending[c].fifo /\ Head(pending[c].fifo) = pending[c].fifo[1]
      BY <1>b, <1>c
  <2>2. Head(pending[c].fifo).to = pending[c].nodeid
      BY <1>a, <2>1 DEF Delivery
  <2>3. Head(pending[c].fifo).to \in Nodes
      BY <1>b, <1>c, FifoHead DEF Frame
  <2> QED
      BY <1>a, <1>c, <2>2, <2>3, QueuedNames DEF Queues
<1>d. ASSUME NEW c \in Cells, NEW d \in Cells, pending[c].nodeid = pending[d].nodeid,
             Settled(c), Settled(d)
      PROVE  c = d
    BY <1>b, <1>d DEF UniqueCell
<1>m. pc["mqtt"] # "idle" => msg \in Frame /\ msg # NoFrame
    BY <1>b, NodesAssumption DEF TypeInv, Refs, Frame, NoFrame
<1>f. SameFifos => Waiting' = Waiting
    BY <1>a, QueueKept DEF SameFifos, Waiting
\* One queue changed.
<1>w. ASSUME NEW n \in Nodes, NEW q, QueueOf(n)' = q,
             \A o \in Nodes \ {n} : QueueOf(o)' = QueueOf(o)
      PROVE  Waiting' = [Waiting EXCEPT ![n] = q]
    BY <1>w DEF Waiting
<1>o. ASSUME NEW e \in Cells, Settled(e),
             \A c \in Cells \ {e} : pending'[c].fifo = pending[c].fifo
      PROVE  \A o \in Nodes \ {pending[e].nodeid} : QueueOf(o)' = QueueOf(o)
    BY <1>a, <1>o, QueueKept
<1>1. CASE QuietStep
  <2>1. Air' = NoFrame
      BY <1>1 DEF QuietStep, Air
  <2> QED
      BY <1>1, <1>f, <2>1, ServiceSteps DEF QuietStep, SameMsg
<1>2. CASE SubmitStep
  <2>1. PICK n \in Nodes : Submit(n)
      BY <1>2 DEF SubmitStep
  <2>2. /\ msg = NoFrame /\ submitted < MaxMsgs /\ submitted' = submitted + 1
        /\ msg' = [to |-> n, id |-> submitted + 1] /\ Air' = NoFrame
      BY <1>a, <2>1 DEF Submit, MsgIdle, Air, Silent, Says
  <2>3. Waiting' = Waiting
      BY <1>2, <1>f DEF SubmitStep
  <2> QED
      BY <2>2, <2>3, ServiceSteps
<1>3. CASE AcceptStep
  <2> DEFINE e == ptr["mqtt"]
  <2>1. /\ e \in Cells /\ Settled(e) /\ pending[e].nodeid = msg.to /\ pc["mqtt"] # "idle"
        /\ pending'[e].fifo = Append(pending[e].fifo, msg)
        /\ \A c \in Cells \ {e} : pending'[c].fifo = pending[c].fifo
        /\ msg' = NoFrame /\ Air' = NoFrame /\ submitted' = submitted
      BY <1>b, <1>3 DEF AcceptStep, Enqueue, TypeInv, Refs, Air
  <2> HIDE DEF e
  <2>0. msg \in Frame /\ msg.to \in Nodes /\ msg # NoFrame
      BY <1>m, <2>1 DEF Frame
  <2>2. PICK n \in Nodes : n = msg.to
      BY <2>0
  <2>3. QueueOf(n) = Numbers(pending[e].fifo)
      BY <1>a, <2>1, <2>2 DEF Queues
  <2>4. QueueOf(n)' = Append(QueueOf(n), msg.id)
    <3>1. Append(pending[e].fifo, msg) # <<>>
        BY <1>b, <2>0, <2>1, AppendProperties
    <3>2. pending'[e].nodeid = n
        BY <1>a, <2>1, <2>2, QueuedNames
    <3>3. QueueOf(n)' = Numbers(pending'[e].fifo)
        BY <1>a, <2>1, <3>1, <3>2 DEF Queues, Numbers
    <3> QED
        BY <1>b, <2>0, <2>1, <2>3, <3>3, NumbersOf
  <2>5. \A o \in Nodes \ {n} : QueueOf(o)' = QueueOf(o)
      BY <1>o, <2>1, <2>2
  <2>6. Waiting' = [Waiting EXCEPT ![n] = Append(QueueOf(n), msg.id)]
      BY <1>w, <2>4, <2>5
  <2>7. Waiting[n] = QueueOf(n)
      BY DEF Waiting
  <2>8. Waiting' = [Waiting EXCEPT ![msg.to] = Append(@, msg.id)]
      BY <2>2, <2>6, <2>7
  <2> QED
      BY <2>0, <2>1, <2>8, ServiceSteps
<1>4. CASE RefuseStep
  <2>1. /\ msg # NoFrame /\ msg' = NoFrame /\ submitted' = submitted
        /\ Air' = NoFrame /\ Waiting' = Waiting
      BY <1>4, <1>f, <1>m DEF RefuseStep, Air
  <2> QED
      BY <2>1, ServiceSteps
<1>5. CASE RemoveStep
  <2>1. PICK e \in Cells : /\ pending'[e].fifo = m_dequeue(pending[e].fifo)
                           /\ \A c \in Cells \ {e} : pending'[c].fifo = pending[c].fifo
                           /\ ~Kick /\ SameMsg /\ out'.event # "IND"
      BY <1>5 DEF RemoveStep
  <2>2. Air' = NoFrame /\ msg' = msg /\ submitted' = submitted
      BY <2>1 DEF Air, SameMsg
  <2>3. CASE pending[e].fifo = <<>>
    <3>1. SameFifos
        BY <2>1, <2>3 DEF SameFifos, m_dequeue
    <3> QED
        BY <1>f, <2>2, <3>1, ServiceSteps
  <2>4. CASE pending[e].fifo # <<>>
    <3>0. PICK n \in Nodes : n = pending[e].nodeid
        BY <1>c, <2>4
    <3>1. Settled(e) /\ QueueOf(n) = Numbers(pending[e].fifo) /\ QueueOf(n) # <<>>
        BY <1>b, <1>c, <2>4, <3>0, NumbersOf
    <3>2. Settled(e)' /\ pending'[e].nodeid = n
        BY <1>a, <2>1, <3>0, <3>1, SettledStays
    <3>3. QueueOf(n)' = Numbers(pending'[e].fifo)
        BY <1>a, <3>1, <3>2 DEF Queues, Numbers
    <3>4. QueueOf(n)' = Tail(QueueOf(n))
        BY <1>b, <2>1, <2>4, <3>1, <3>3, NumbersOf
    <3>5. \A o \in Nodes \ {n} : QueueOf(o)' = QueueOf(o)
        BY <1>o, <2>1, <3>0, <3>1
    <3>6. Waiting[n] = QueueOf(n) /\ Waiting' = [Waiting EXCEPT ![n] = Tail(QueueOf(n))]
        BY <1>w, <3>4, <3>5 DEF Waiting
    <3>7. Waiting' = [Waiting EXCEPT ![n] = Tail(@)]
        BY <3>6
    <3> QED
        BY <2>2, <3>1, <3>6, <3>7, ServiceSteps
  <2> QED
      BY <2>3, <2>4
<1>6. CASE KickStep
  <2>1. PICK e \in Cells : /\ Kick /\ Settled(e) /\ pending[e].nodeid = reply.nodeid
                           /\ pending'[e].fifo = <<>>
                           /\ \A c \in Cells \ {e} : pending'[c].fifo = pending[c].fifo
                           /\ SameMsg /\ out'.event # "IND"
      BY <1>6 DEF KickStep
  <2>0. PICK n \in Nodes : n = reply.nodeid
      BY <1>b, <2>1 DEF Kick, TypeInv, Refs, Reply
  <2>2. Air' = NoFrame /\ msg' = msg /\ submitted' = submitted
      BY <2>1 DEF Air, SameMsg
  <2>3. ASSUME NEW c \in Cells, pending'[c].nodeid = n PROVE pending'[c].fifo = <<>>
    <3>1. SUFFICES ASSUME c # e, pending[c].fifo # <<>> PROVE FALSE
        BY <2>1
    <3>2. Settled(c) /\ pending[c].nodeid = n
        BY <1>a, <2>1, <2>3, <3>1, QueuedNames
    <3> QED
        BY <1>d, <2>0, <2>1, <3>1, <3>2
  <2>4. QueueOf(n)' = <<>>
      BY <1>a, <2>3 DEF Queues
  <2>5. \A o \in Nodes \ {n} : QueueOf(o)' = QueueOf(o)
      BY <1>o, <2>0, <2>1
  <2>6. Waiting' = [Waiting EXCEPT ![n] = <<>>]
      BY <1>w, <2>4, <2>5
  <2> QED
      BY <2>2, <2>6, ServiceSteps
<1>7. CASE SendStep
  <2> DEFINE n == buf.to
  <2>1. /\ i \in Cells /\ pending[i].fifo # <<>> /\ Head(pending[i].fifo) = buf
      BY <1>b, <1>7 DEF SendStep, WorkerCellStable, At, cell, TypeInv, Refs
  <2>2. n \in Nodes /\ QueueOf(n) = Numbers(pending[i].fifo)
      BY <1>c, <2>1
  <2>3. Waiting[n] # <<>> /\ Head(Waiting[n]) = buf.id
      BY <1>b, <2>1, <2>2, NumbersOf DEF Waiting
  <2>4. Air' = [to |-> n, id |-> buf.id] /\ msg' = msg /\ submitted' = submitted
      BY <1>7 DEF SendStep, Says, Air, SameMsg
  <2>5. Waiting' = Waiting
      BY <1>7, <1>f DEF SendStep
  <2> QED
      BY <2>2, <2>3, <2>4, <2>5, ServiceSteps
<1>8. CASE UNCHANGED vars
  <2>1. /\ SameFifos /\ Air' = Air /\ msg' = msg /\ submitted' = submitted
      BY <1>8 DEF vars, SameFifos, Air
  <2> QED
      BY <1>f, <2>1, ServiceSteps
<1> QED
    BY <1>a, <1>1, <1>2, <1>3, <1>4, <1>5, <1>6, <1>7, <1>8, StepKinds

\* Until a pointer goes astray, the pool, its threads and its lookups outside the mutex
\* implement the service: a message is refused or joins the queue of its addressee, only
\* the head of a queue is transmitted, to the node of that queue, and messages leave from
\* the head or all at once with a kick; for every pool, set of nodes, limits and replies
\* (mqtt.c:776-926, 1096-1167).
THEOREM PoolIsService == DSpec => Implements
<1>1. DInit => Routed /\ MsgIdle
    BY InitRouted, InitMsgIdle
<1>2. Routed /\ MsgIdle /\ [DNext]_dvars => Routed' /\ MsgIdle'
    BY NextRouted, NextMsgIdle, StepOfPool DEF Routed
<1>3. DInit => Service!Init
  <2>1. DInit => \A n \in Nodes : QueueOf(n) = <<>>
      BY DEF DInit, Init, init_pending, QueueOf, CellsOf, Settled
  <2> QED
      BY <2>1 DEF DInit, Init, Service!Init, Service!NoMsg, NoFrame, Silent, Says
<1>5. /\ RouteInv => Queues
      /\ RouteInv' => Queues'
    BY RouteQueues, PTL
<1>4. ASSUME Routed, MsgIdle, Routed', MsgIdle', [DNext]_dvars
      PROVE  [Service!Next]_(Service!vars)
  <2>1. CASE raced'
    <3>1. raced' = TRUE
        BY <1>4, <2>1 DEF Routed
    <3> QED
        BY <3>1 DEF Service!Next, Service!GoAstray
  <2>2. CASE ~raced'
    <3>1. ServiceInv /\ ServiceInv'
        BY <1>4, <1>5, <2>2, NotRaced DEF Routed, ServiceInv
    <3>2. raced' = raced
        BY <1>4, <2>2, NotRaced DEF Routed
    <3>3. Service!Serve \/ UNCHANGED <<msg, submitted, Waiting, Air>>
        BY <1>4, <3>1, NextService
    <3> QED
        BY <3>2, <3>3 DEF Service!Next, Service!vars, Waiting, Air
  <2> QED
      BY <2>1, <2>2
<1> QED
    BY <1>1, <1>2, <1>3, <1>4, PTL DEF DSpec, Implements, Service!Spec

\* Until a pointer goes astray, an acknowledgement changes the queue of the node that
\* sent it and no other, though the publisher uses a cell it looked up before it locked
\* the mutex; for every pool, set of nodes, limits and replies (mqtt.c:683-699).
THEOREM AckKeepsOthers == DSpec => AcksOwn
<1>1. (RouteInv => Queues) /\ (RouteInv' => Queues')
    BY RouteQueues, PTL
<1>2. ASSUME Routed, Routed', [DNext]_dvars, AckStep, ~raced', NEW n \in Nodes \ {reply.nodeid}
      PROVE  QueueOf(n)' = QueueOf(n)
  <2>a. RouteInv /\ RouteInv' /\ PoolInv /\ [Next]_vars
      BY <1>2, NotRaced, StepOfPool DEF Routed
  <2>b. /\ pending \in [Cells -> pending_item_t] /\ DOMAIN pc = Threads /\ TypeInv
      BY <2>a, PoolFacts
  <2>1. Ack
    <3>1. pc["publisher"] = "ack" /\ pc'["publisher"] = "idle"
        BY <1>2 DEF AckStep
    <3>2. CASE MqttMoves
        BY <2>a, <3>1, <3>2, MqttAlone DEF PublisherRests, Rests
    <3>3. CASE pending_worker \/ Tick \/ UNCHANGED dvars
        BY <2>a, <3>1, <3>3, WorkerAlone DEF PublisherRests, Rests, dvars
    <3>4. CASE \E r \in Replies : PublisherTakes(r)
        BY <3>1, <3>4 DEF PublisherTakes, ServeAdd, ServeLookup, Take
    <3>5. CASE Added \/ Notify \/ Kick \/ Request
        BY <3>1, <3>5 DEF Added, Notify, Kick, Request
    <3>6. CASE add_device("publisher")
        BY <3>1, <3>6
        DEF add_device, AddExisting, AddReset, AddOccupy, AddName, AddInitialize, AddFull
    <3> QED
      <4>1. \/ MqttMoves \/ (\E r \in Replies : PublisherTakes(r)) \/ PublisherGoes
            \/ pending_worker \/ Tick \/ UNCHANGED dvars
          BY <1>2, DCases DEF MqttMoves
      <4> QED
          BY <3>2, <3>3, <3>4, <3>5, <3>6, <4>1 DEF PublisherGoes
  <2> DEFINE e == ptr["publisher"]
  <2>2. e \in Cells /\ Settled(e) /\ pending[e].nodeid = reply.nodeid
      BY <2>1, <2>a, <2>b, MineSettled DEF Ack, RouteInv, Pointers, TypeInv, Refs
  <2>3. \A c \in Cells \ {e} : pending'[c].fifo = pending[c].fifo
      BY <2>1, <2>b, <2>2 DEF Ack
  <2> HIDE DEF e
  <2> QED
      BY <1>1, <1>2, <2>a, <2>2, <2>3, QueueKept
<1>3. Routed /\ Routed' /\ [DNext]_dvars =>
          [AckStep /\ ~raced' => \A n \in Nodes \ {reply.nodeid} : QueueOf(n)' = QueueOf(n)]_dvars
    BY <1>2
<1>4. Routed /\ [DNext]_dvars => Routed'
    BY NextRouted
<1> QED
    BY <1>3, <1>4, InitRouted, PTL DEF DSpec, AcksOwn

------------------------------------------------------------------------------
(* NoSilentLoss: free cells hold no message, so no message leaves the queues but by
   a step that accounts for it. *)
AllQueued == Queued = UNION {Ids(c) : c \in Cells}

LEMMA RouteAllQueued == RouteInv => AllQueued
<1> SUFFICES ASSUME RouteInv PROVE AllQueued
    OBVIOUS
<1>1. \A c \in Cells : pending_free[c] => Ids(c) = {}
    BY DEF RouteInv, Delivery, Raw, Ids
<1> QED
    BY <1>1 DEF AllQueued, Queued

(* The step neither takes a message nor finishes with one, and accounts for those that
   leave the queues. *)
LEMMA Accounts ==
    ASSUME NoSilentLoss, Observe, msg' = msg, submitted' = submitted,
           Queued' \subseteq Queued, Accounted \/ Queued' = Queued,
           msg = NoFrame \/ msg' # NoFrame
    PROVE  NoSilentLoss'
<1>1. InFlight' = InFlight
    BY DEF InFlight
<1>2. \A id \in 1..MaxMsgs : ~((Writes("oom") \/ Writes("full")) /\ msg.id = id /\ msg' = NoFrame)
    BY LimitsAssumption DEF NoFrame
<1>3. ended' = ended \cup (Queued \ Queued')
    BY <1>2 DEF Observe
<1> QED
    BY <1>1, <1>3 DEF NoSilentLoss

LEMMA NextLoss ==
    ASSUME RouteInv, MsgIdle, AllQueued, AllQueued', NoSilentLoss, [DNext]_dvars
    PROVE  NoSilentLoss'
<1>a. PoolInv /\ [Next]_vars
    BY StepOfPool DEF RouteInv
<1>b. /\ \A c \in Cells : pending[c].fifo \in Seq(Frame)
      /\ TypeInv /\ Numbered
    BY <1>a, PoolFacts
<1>p. DOMAIN pc = Threads
    BY <1>a, PoolFacts
<1>m. pc["mqtt"] # "idle" =>
          /\ msg \in Frame /\ msg # NoFrame /\ msg.id = submitted /\ msg.id \in 1..MaxMsgs
    BY <1>b, NodesAssumption DEF TypeInv, Refs, Frame, NoFrame, Numbered
<1>f. SameFifos => Queued' = Queued
  <2>1. SameFifos => \A c \in Cells : Ids(c)' = Ids(c)
      BY DEF SameFifos, Ids
  <2> QED
      BY <2>1 DEF AllQueued
<1>0. CASE UNCHANGED dvars
  <2>1. Queued' = Queued
      BY <1>0 DEF dvars, vars, Queued, Ids
  <2> QED
      BY <1>0, <2>1 DEF dvars, vars, conversation, NoSilentLoss, InFlight
<1>o. CASE Observe
  <2>1. CASE QuietStep \/ SendStep
      BY <1>f, <1>o, <2>1, Accounts DEF QuietStep, SendStep, SameMsg
  <2>2. CASE SubmitStep
    <3>1. PICK n \in Nodes : Submit(n)
        BY <2>2 DEF SubmitStep
    <3>2. /\ InFlight = {} /\ InFlight' = {submitted + 1} /\ submitted' = submitted + 1
          /\ submitted \in Nat
      <4>1. msg' # NoFrame
          BY <3>1, NodesAssumption DEF Submit, NoFrame
      <4> QED
          BY <1>b, <3>1, <4>1, LimitsAssumption
          DEF Submit, MsgIdle, InFlight, TypeInv, TypeOK
    <3>3. Queued' = Queued
        BY <1>f, <2>2 DEF SubmitStep
    <3>4. ended' = ended
        BY <1>o, <3>1, <3>3 DEF Observe, Submit, Writes, Silent, Says
    <3>5. 1..submitted' = 1..submitted \cup {submitted + 1}
        BY <3>2
    <3> QED
        BY <3>2, <3>3, <3>4, <3>5 DEF NoSilentLoss
  <2>3. CASE AcceptStep
    <3>0. PICK e \in Cells : e = ptr["mqtt"]
        BY <1>b, <2>3 DEF AcceptStep, Enqueue, TypeInv, Refs
    <3>1. /\ pending'[e].fifo = Append(pending[e].fifo, msg)
          /\ \A c \in Cells \ {e} : pending'[c].fifo = pending[c].fifo
          /\ msg' = NoFrame /\ submitted' = submitted /\ pc["mqtt"] # "idle"
          /\ out'.event \notin {"oom", "full"}
        BY <2>3, <3>0 DEF AcceptStep, Enqueue
    <3>2. InFlight = {msg.id} /\ InFlight' = {} /\ msg \in Frame
        BY <1>m, <3>1 DEF InFlight
    <3>3. Ids(e)' = Ids(e) \cup {msg.id} /\ \A c \in Cells \ {e} : Ids(c)' = Ids(c)
      <4>1. pending[e].fifo \in Seq(Frame)
          BY <1>b, <3>1
      <4>2. /\ DOMAIN Append(pending[e].fifo, msg) = DOMAIN pending[e].fifo \cup {Len(pending[e].fifo) + 1}
            /\ \A k \in DOMAIN pending[e].fifo : Append(pending[e].fifo, msg)[k] = pending[e].fifo[k]
            /\ Append(pending[e].fifo, msg)[Len(pending[e].fifo) + 1] = msg
          BY <3>2, <4>1
      <4>3. Ids(e)' = {Append(pending[e].fifo, msg)[k].id :
                          k \in DOMAIN pending[e].fifo \cup {Len(pending[e].fifo) + 1}}
          BY <3>1, <4>2 DEF Ids
      <4>4. @ = {pending[e].fifo[k].id : k \in DOMAIN pending[e].fifo} \cup {msg.id}
          BY <4>2
      <4>5. \A c \in Cells \ {e} : Ids(c)' = Ids(c)
          BY <3>1 DEF Ids
      <4> QED
          BY <4>3, <4>4, <4>5 DEF Ids
    <3>4. Queued' = Queued \cup {msg.id}
        BY <3>1, <3>3 DEF AllQueued
    <3>5. ended' = ended
        BY <1>o, <3>1, <3>4 DEF Observe, Writes
    <3> QED
        BY <3>1, <3>2, <3>4, <3>5 DEF NoSilentLoss
  <2>4. CASE RefuseStep
    <3>1. InFlight = {msg.id} /\ InFlight' = {} /\ Queued' = Queued /\ submitted' = submitted
        BY <1>f, <1>m, <2>4 DEF RefuseStep, InFlight
    <3>2. ended' = ended \cup {msg.id}
        BY <1>m, <1>o, <2>4, <3>1 DEF RefuseStep, Observe, Writes
    <3> QED
        BY <3>1, <3>2 DEF NoSilentLoss
  <2>r. ASSUME NEW e \in Cells, pending'[e].fifo \in {m_dequeue(pending[e].fifo), <<>>},
               \A c \in Cells \ {e} : pending'[c].fifo = pending[c].fifo
        PROVE  Queued' \subseteq Queued
    <3>1. Ids(e)' \subseteq Ids(e)
      <4>1. PICK s \in {0, 1} : \A k \in DOMAIN pending'[e].fifo :
                k + s \in DOMAIN pending[e].fifo /\ pending'[e].fifo[k] = pending[e].fifo[k + s]
          BY <1>b, <2>r, Shifted
      <4> QED
          BY <4>1 DEF Ids
    <3>2. \A c \in Cells \ {e} : Ids(c)' = Ids(c)
        BY <2>r DEF Ids
    <3> QED
        BY <3>1, <3>2 DEF AllQueued
  <2>5. CASE RemoveStep
      BY <1>o, <2>5, <2>r, Accounts DEF RemoveStep, SameMsg
  <2>6. CASE KickStep
    <3>2. Accounted
        BY <1>p, <2>6 DEF KickStep, Kick, ReplyDone, Goto, Accounted, Threads
    <3> QED
        BY <1>o, <2>6, <2>r, <3>2, Accounts DEF KickStep, SameMsg
  <2>7. CASE UNCHANGED vars
    <3>1. SameFifos /\ msg' = msg /\ submitted' = submitted
        BY <2>7 DEF vars, SameFifos
    <3> QED
        BY <1>f, <1>o, <3>1, Accounts
  <2> QED
      BY <1>a, <2>1, <2>2, <2>3, <2>4, <2>5, <2>6, <2>7, StepKinds
<1> QED
    BY <1>0, <1>o DEF DNext

\* With any pool, limits and replies, memory failing or not, and however the threads
\* interleave, a message taken from MQTT is being handled, is queued for its mote or had
\* its end announced, until a pointer goes astray (README.md:6; mqtt.c:636, 776-926,
\* 1096-1167).
THEOREM NothingLostSilently == DSpec => []KeptOrEnded
<1> DEFINE Inv == Routed /\ MsgIdle /\ KeptOrEnded
<1>1. DInit => Inv
  <2>1. DInit => NoSilentLoss
    <3> SUFFICES ASSUME DInit PROVE NoSilentLoss
        OBVIOUS
    <3>1. /\ Queued = {} /\ InFlight = {} /\ ended = {} /\ submitted = 0
        BY DEF DInit, Init, init_pending, Queued, Ids, InFlight, NoFrame
    <3> QED
        BY <3>1 DEF NoSilentLoss
  <2> QED
      BY <2>1, InitRouted, InitMsgIdle DEF KeptOrEnded
<1>0. /\ RouteInv => AllQueued
      /\ RouteInv' => AllQueued'
    BY RouteAllQueued, PTL
<1>2. ASSUME Inv, [DNext]_dvars PROVE Inv'
  <2>1. Routed' /\ MsgIdle'
      BY <1>2, NextRouted, NextMsgIdle, StepOfPool DEF Routed
  <2>2. ASSUME ~raced' PROVE NoSilentLoss'
    <3>1. RouteInv /\ RouteInv' /\ NoSilentLoss
        BY <1>2, <2>1, <2>2, NotRaced DEF Routed, KeptOrEnded
    <3>2. AllQueued /\ AllQueued'
        BY <1>0, <3>1
    <3> QED
        BY <1>2, <3>1, <3>2, NextLoss
  <2> QED
      BY <2>1, <2>2 DEF KeptOrEnded
<1> QED
    BY <1>1, <1>2, PTL DEF DSpec
==============================================================================
