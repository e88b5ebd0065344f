---------------------------- MODULE MCPendingPool ----------------------------
(* Small instances of PendingPool for TLC. *)
EXTENDS PendingPool, TLC

CONSTANTS n1, n2, n3
mcNodes == {n1, n2}
mcThreeNodes == {n1, n2, n3}
mcOneNode == {n1}
mcSymmetry == Permutations(mcNodes)
mcSymmetryOfThree == Permutations(mcThreeNodes)

Of(types, nodes, classes) == [type : types, nodeid : nodes, nodeclass : classes]
Bare(types, nodes) == Of(types, nodes, {"A"})   \* a reply that names no class

\* Joins of every class, and everything else the gate can say, of every node.
mcReplies == Of({"JOIN", "LIST"}, mcNodes, Class) \cup Bare({"KICK", "ACK", "PENDING_REQ"}, mcNodes)

\* Both threads add three nodes, and the publisher kicks.
mcMembership ==
    Of({"JOIN"}, mcThreeNodes, {"C"}) \cup Bare({"KICK", "ACK"}, mcThreeNodes)

\* A class C node that may also come back as class A.
mcTalk == Of({"JOIN"}, mcOneNode, {"A", "C"}) \cup Bare({"KICK", "ACK", "PENDING_REQ"}, mcOneNode)
==============================================================================
