--------------------------- MODULE DownlinkService ---------------------------
(* What the gate service promises a publisher of downlink messages, whatever
   threads, cells and locks it uses: a message is refused or appended to the
   queue of its addressee; only the head of a queue is transmitted, to that
   queue's node; messages leave one at a time from the head, or all together
   when the node is kicked.  Once a message has gone astray it promises nothing. *)
EXTENDS Naturals, Sequences

CONSTANTS Nodes, NoNode, MaxMsgs

VARIABLES
    msg,    \* the message being handled: its addressee and its number
    count,  \* messages handled so far
    queue,  \* per node, the numbers of the messages waiting for it
    air,    \* the node and message being transmitted, if any
    astray  \* whether a message may have gone to the wrong place

NoMsg == [to |-> NoNode, id |-> 0]
vars == <<msg, count, queue, air, astray>>

Init ==
    /\ msg = NoMsg /\ count = 0 /\ queue = [n \in Nodes |-> <<>>]
    /\ air = NoMsg /\ astray = FALSE

Submit(n) ==
    /\ msg = NoMsg /\ count < MaxMsgs
    /\ msg' = [to |-> n, id |-> count + 1] /\ count' = count + 1 /\ air' = NoMsg
    /\ UNCHANGED queue

Accept ==
    /\ msg # NoMsg
    /\ queue' = [queue EXCEPT ![msg.to] = Append(@, msg.id)] /\ msg' = NoMsg /\ air' = NoMsg
    /\ UNCHANGED count

Refuse == msg # NoMsg /\ msg' = NoMsg /\ air' = NoMsg /\ UNCHANGED <<queue, count>>

Transmit(n) ==
    /\ queue[n] # <<>>
    /\ air' = [to |-> n, id |-> Head(queue[n])]
    /\ UNCHANGED <<msg, count, queue>>

\* Acknowledged, or given up.
Remove(n) ==
    /\ queue[n] # <<>>
    /\ queue' = [queue EXCEPT ![n] = Tail(@)] /\ air' = NoMsg
    /\ UNCHANGED <<msg, count>>

Kick(n) == queue' = [queue EXCEPT ![n] = <<>>] /\ air' = NoMsg /\ UNCHANGED <<msg, count>>

Quiet == air' = NoMsg /\ UNCHANGED <<msg, count, queue>>

Serve ==
    \/ Accept \/ Refuse \/ Quiet
    \/ \E n \in Nodes : Submit(n) \/ Transmit(n) \/ Remove(n) \/ Kick(n)

GoAstray == astray' = TRUE

Next == GoAstray \/ (Serve /\ UNCHANGED astray)

Spec == Init /\ [][Next]_vars
==============================================================================
