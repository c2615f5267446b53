--------------------------- MODULE MCPendingEvents ---------------------------
(***************************************************************************)
(* Small instances of PendingEvents.                                       *)
(***************************************************************************)
EXTENDS PendingEvents, TLC
=============================================================================
