--------------------------- MODULE MCPendingAttempts --------------------------
(* Small instances of PendingAttempts for TLC. *)
EXTENDS MCPendingPool, PendingAttempts
==============================================================================
