----------------------------- MODULE PendingAttempts ----------------------------
(* PendingPool with a count it does not keep itself: how often the worker has tried
   the message at the head of each queue.  num_retries is no such count: it restarts
   at 1 when the worker turns from transmitting to inviting (mqtt.c:911). *)
EXTENDS PendingPool

VARIABLE tries
avars == <<vars, tries>>

AInit == Init /\ tries = [c \in Cells |-> 0]

\* The head of the queue goes, or add_device writes the cell of its node.
Anew(c) ==
    \/ Len(pending'[c].fifo) < Len(pending[c].fifo) \/ pending'[c].fifo = <<>>
    \/ \E t \in {"mqtt", "publisher"} :
        (AddExisting(t) \/ AddInitialize(t) \/ AddReset(t)) /\ ptr'[t] = c

\* The worker counts a transmission or an invitation (mqtt.c:841, 902).
Counted(c) ==
    c = i /\ ~At("send") /\ pending'[c].num_retries = pending[c].num_retries + 1

ANext ==
    /\ Next
    /\ tries' = [c \in Cells |->
          IF Anew(c) THEN 0 ELSE IF Counted(c) THEN tries[c] + 1 ELSE tries[c]]

ASpec == AInit /\ [][ANext]_avars

------------------------------------------------------------------------------
\* AttemptsBound: however transmissions, invitations, changes of class and resets that
\* race with num_retries++ alternate, the worker gives a message up after NUM_RETRIES + 1
\* transmissions, NUM_RETRIES_INV + 1 invitations, or NUM_RETRIES_INV invitations on top of
\* tx_maxretr transmissions, unless its node is added again (mqtt.c:803, 856, 911).  The
\* log lines at 803 and 856 name NUM_RETRIES_INV and NUM_RETRIES.
AttemptsBound == \A c \in Cells :
    tries[c] <= Larger(NumRetries + 1, NumRetriesInv + Larger(TxMaxRetr, 1))
==============================================================================
