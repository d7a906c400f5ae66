---------------------------- MODULE MCTimedQueue ----------------------------
(***************************************************************************)
(* Two threads and two elements: one thread can take what another one is   *)
(* waiting for, and an earlier element can come after a later one.         *)
(***************************************************************************)
EXTENDS TimedQueue
=============================================================================
