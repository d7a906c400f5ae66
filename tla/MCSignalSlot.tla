---------------------------- MODULE MCSignalSlot ----------------------------
(***************************************************************************)
(* Three signals, for chains and trees of them, and a slot that is         *)
(* connected twice in its life.                                            *)
(***************************************************************************)
EXTENDS SignalSlot
=============================================================================
