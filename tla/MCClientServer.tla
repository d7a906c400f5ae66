--------------------------- MODULE MCClientServer ---------------------------
(***************************************************************************)
(* A client that connects twice to one server, so that a connection object *)
(* can outlive the interest of the client in it.                           *)
(***************************************************************************)
EXTENDS ClientServer
CONSTANTS c1, c2, s1, s2
MCPeer == [e \in {c1, c2, s1, s2} |->
             CASE e = c1 -> s1 [] e = c2 -> s2 [] e = s1 -> c1 [] e = s2 -> c2]
MCMessages == [tls \in BOOLEAN |-> <<>>]
=============================================================================
