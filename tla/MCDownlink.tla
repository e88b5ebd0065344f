------------------------------ MODULE MCDownlink -----------------------------
(* Small instances of Downlink for TLC. *)
EXTENDS Downlink, TLC

CONSTANTS n1, n2
mcNodes == {n1, n2}
mcOneNode == {n1}
mcSymmetry == Permutations(mcNodes)

Of(types, nodes, classes) == [type : types, nodeid : nodes, nodeclass : classes]
Bare(types, nodes) == Of(types, nodes, {"A"})   \* a reply that names no class

mcReplies == Of({"JOIN"}, mcNodes, {"A", "C"}) \cup Bare({"KICK", "ACK", "PENDING_REQ"}, mcNodes)

mcClassA == Of({"JOIN"}, mcOneNode, {"A"}) \cup Bare({"ACK", "PENDING_REQ"}, mcOneNode)
mcClassB == Of({"JOIN"}, mcOneNode, {"B"}) \cup Bare({"ACK"}, mcOneNode)
mcOneKicks == Of({"JOIN"}, mcOneNode, {"C"}) \cup Bare({"KICK"}, mcOneNode)

\* What Downlink says of the pool ends with the first race: nothing is lost by not
\* going on after it.
mcUnraced == ~raced
==============================================================================
