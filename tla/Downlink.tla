------------------------------- MODULE Downlink ------------------------------
(* The pending pool talking to a gate that keeps to its protocol: it acknowledges
   a message only after the pool transmitted one, asks for a pending message only
   of a class A node it was told has some, kicks only a joined node and lists a
   node with the class it joined with.  The new variables record the conversation;
   they hold the gate to Honest and never hold a thread of the program back. *)
EXTENDS PendingPool

CONSTANTS
    AckBound,   \* bound: acknowledgements outstanding per node
    SentBound   \* bound: transmissions counted per message
ASSUME CountsAssumption == AckBound \in Nat \ {0} /\ SentBound \in Nat

VARIABLES
    acks,    \* per node, acknowledgements it may still send: one per transmission
    joined,  \* per node, the class it last joined with, "-" if not in the network
    told,    \* per node, the pending packets last announced to the gate
    asked,   \* the nodes with a request granted and not yet used
    sent,    \* per message, how often it was transmitted, up to SentBound
    ended,   \* the messages acknowledged, reported, kicked out or refused
    raced    \* whether a pointer found without mutex_pending went astray

conversation == <<acks, joined, told, asked, sent, ended, raced>>
dvars == <<vars, conversation>>

DInit ==
    /\ Init
    /\ acks = [n \in Nodes |-> 0] /\ joined = [n \in Nodes |-> "-"]
    /\ told = [n \in Nodes |-> 0] /\ asked = {} /\ sent = [id \in 1..MaxMsgs |-> 0] /\ ended = {}
    /\ raced = FALSE

Honest(r) ==
    /\ r.type = "ACK" => acks[r.nodeid] > 0
    /\ r.type = "PENDING_REQ" => told[r.nodeid] > 0 /\ joined[r.nodeid] = "A"
    /\ r.type = "KICK" => joined[r.nodeid] # "-"
    /\ r.type = "LIST" => joined[r.nodeid] = r.nodeclass

\* kick_device frees the cell message_to_mote has looked up and not yet used.
KickedUnder ==
    /\ pc["mqtt"] = "enqueue" /\ ~pending_free[ptr["mqtt"]]
    /\ pending_free'[ptr["mqtt"]]

\* A lookup finds a cell that one thread has marked occupied (mqtt.c:201) for a node
\* and not yet named (203): it goes by the name of the node kicked from it.
Adding(c, n) ==
    \E t \in {"mqtt", "publisher"} :
        pc[t] = "occupied" /\ ptr[t] = c /\ AddArgs(t).nodeid # n
Found(t, l) == pc[t] # l /\ pc'[t] = l
FoundFormer ==
    \/ Found("mqtt", "enqueue") /\ Adding(ptr'["mqtt"], msg.to)
    \/ (Found("publisher", "ack") \/ Found("publisher", "request"))
       /\ Adding(ptr'["publisher"], reply'.nodeid)

Queued == UNION {Ids(c) : c \in {d \in Cells : ~pending_free[d]}}
Takes(t) == pc["publisher"] = "idle" /\ reply'.type = t
Writes(e) == out'.event = e

\* The step acknowledges a message, publishes its failure or kicks its node out; a
\* kick is logged before anything can fail (mqtt.c:636).
Accounted ==
    \/ pc["publisher"] \in {"ack", "kick"} /\ pc'["publisher"] = "idle"
    \/ Writes("sent0") \/ Writes("invited0")

\* What the gate, the motes and a bystander note of a step of the pool.
Observe ==
    /\ acks' = [n \in Nodes |->
          IF Writes("IND") /\ out'.nodeid = n THEN Smaller(acks[n] + 1, AckBound)
          ELSE IF Takes("ACK") /\ reply'.nodeid = n THEN acks[n] - 1 ELSE acks[n]]
    /\ joined' = [n \in Nodes |->
          IF Takes("JOIN") /\ reply'.nodeid = n THEN reply'.nodeclass
          ELSE IF Takes("KICK") /\ reply'.nodeid = n THEN "-" ELSE joined[n]]
    /\ told' = [n \in Nodes |->
          IF Writes("HAS_PENDING") /\ out'.nodeid = n THEN out'.num ELSE told[n]]
    /\ asked' = (asked \cup {n \in Nodes : pc["publisher"] = "request" /\ reply.nodeid = n
                                            /\ pc'["publisher"] = "idle"})
                \ {n \in Nodes : Writes("IND") /\ out'.nodeid = n}
    /\ sent' = [id \in 1..MaxMsgs |->
          IF Writes("IND") /\ out'.num = id THEN Smaller(sent[id] + 1, SentBound) ELSE sent[id]]
    /\ ended' = ended \cup (IF Accounted THEN Queued \ Queued' ELSE {})
                \cup {id \in 1..MaxMsgs : (Writes("oom") \/ Writes("full"))
                                         /\ msg.id = id /\ msg' = NoFrame}
    /\ raced' = (raced \/ KickedUnder \/ FoundFormer)

DNext ==
    /\ \/ \E n \in Nodes : Submit(n)
       \/ MoteKnown \/ MoteUnknown \/ Relookup \/ Enqueue
       \/ \E r \in Replies : Honest(r) /\ Serve(r)
       \/ Added \/ Notify \/ Kick \/ Ack \/ Request
       \/ add_device("mqtt") \/ add_device("publisher")
       \/ pending_worker \/ Tick
    /\ Observe

DSpec == DInit /\ [][DNext]_dvars

------------------------------------------------------------------------------
\* Implements: until one of the two races of raced happens, the pool is the service of
\* DownlinkService: each message goes, in order and to its addressee, through the
\* queue of its own node (mqtt.c:776-926, 1096-1167).
CellsOf(n) == {c \in Cells : Settled(c) /\ pending[c].nodeid = n}
QueueOf(n) ==
    IF CellsOf(n) = {} THEN <<>>
    ELSE LET fifo == pending[CHOOSE c \in Cells : c \in CellsOf(n)].fifo
         IN [k \in DOMAIN fifo |-> fifo[k].id]

Service == INSTANCE DownlinkService WITH
    count <- submitted,
    queue <- [n \in Nodes |-> QueueOf(n)],
    air <- IF out.event = "IND" THEN [to |-> out.nodeid, id |-> out.num] ELSE NoFrame,
    astray <- raced
Implements == Service!Spec

\* AcksOwn: an acknowledgement takes a message from the queue of the node that sent it
\* and from no other, though its cell was looked up without the mutex (mqtt.c:683-693).
AckStep == pc["publisher"] = "ack" /\ pc'["publisher"] = "idle"
AcksOwn == [][AckStep /\ ~raced' => \A n \in Nodes \ {reply.nodeid} : QueueOf(n)' = QueueOf(n)]_dvars

\* SentOnAsk: a message leaves for a node recorded as class A only if the gate asked for
\* one since the last transmission (mqtt.c:795-798, 724-727, 916).
OnDemandCell == At("send") /\ cell.nodeclass = "A" => cell.nodeid \in asked
SentOnAsk == ~raced => OnDemandCell

\* KeptOrEnded: a message taken from MQTT is being handled, or queued where the worker
\* will find it, or its end was reported or logged, until one of the two races of raced.
InFlight == IF msg = NoFrame THEN {} ELSE {msg.id}
NoSilentLoss == 1..submitted = InFlight \cup Queued \cup ended
KeptOrEnded == ~raced => NoSilentLoss

------------------------------------------------------------------------------
(* What the source says of itself, and does not keep. *)

\* NoSilentLoss, above, without the races left out: "MQTT messages published by
\* external source are translated to commands specific for LoRa motes" (README.md:6).

\* AckedWasSent: an acknowledgement removes a message that was transmitted.
\* "Peek message from queue but don't remove. Will be removed on acknowledge"
\* (mqtt.c:894), of what the ACK branch does at mqtt.c:686-699.
AckedWasSent == [][AckStep => \A id \in Queued \ Queued' : sent[id] > 0]_dvars

\* RejoinNotified: once the JOIN of a class A node has been served, the gate knows
\* of the messages waiting for it: "If device is rejoined, check the pending
\* messages" (mqtt.c:607), of mqtt.c:608-614.
RejoinNotified == \A n \in Nodes :
    joined[n] = "A" /\ reply = NoReply /\ msg = NoFrame /\ QueueOf(n) # <<>> => told[n] > 0
==============================================================================
