--------------------------- MODULE MCArchiveWorker ---------------------------
(***************************************************************************)
(* Up to three connections: each strategy in full, and each one that is    *)
(* replaced by a simpler one for want of connections.  A session can begin *)
(* while threads that an earlier one has lost still run.                   *)
(***************************************************************************)
EXTENDS ArchiveWorker
=============================================================================
