---------------------------- MODULE MCConnection ----------------------------
(***************************************************************************)
(* One link, plain or with TLS, and messages with and without a body, each *)
(* of which either end may send; without TLS three, of which two may wait  *)
(* for the third.                                                          *)
(***************************************************************************)
EXTENDS Connection
CONSTANTS c1, s1, m1, m2, m3
MCPeer == [e \in {c1, s1} |-> IF e = c1 THEN s1 ELSE c1]
MCMessages == [tls \in BOOLEAN |-> IF tls THEN <<m1, m2>> ELSE <<m1, m2, m3>>]
=============================================================================
