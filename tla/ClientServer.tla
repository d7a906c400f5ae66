---------------------------- MODULE ClientServer ----------------------------
(***************************************************************************)
(* client_interface and server_interface of the SDK around the connections *)
(* they make: the client resolves, connects and reconnects, each time with *)
(* a new connection object, and the server accepts, keeps a list of its    *)
(* connections and stops.  What the connections carry is the business of   *)
(* Connection: here no message is sent.                                    *)
(*                                                                         *)
(* The application of the client asks for one connection at a time: it     *)
(* calls connect() again after on_connect_error() or on_disconnect().  The *)
(* class does not check this, and its own get_connection_state() says      *)
(* "disconnected" while a name is being resolved.                          *)
(***************************************************************************)
EXTENDS Connection

VARIABLES
    m_connection,   \* the client's
    resolving,      \* is an async_resolve outstanding
    asked,          \* is a client disconnect() posted and not yet run
    app,            \* what the client's callbacks have told the application
    acceptor,       \* is the server's acceptor open
    m_connections,  \* the server's
    stopping        \* is a server stop() posted and not yet run

clientVars == <<m_connection, resolving, asked, app>>
serverVars == <<acceptor, m_connections, stopping>>
csVars == <<vars, clientVars, serverVars>>

CSInit ==
    /\ Init
    /\ m_connection = None
    /\ resolving = FALSE
    /\ asked = FALSE
    /\ app = "idle"
    /\ acceptor = TRUE
    /\ m_connections = {}
    /\ stopping = FALSE

-----------------------------------------------------------------------------
(* client_interface                                                        *)

Connect ==
    /\ app = "idle"
    /\ app' = "waiting"
    /\ resolving' = TRUE
    /\ UNCHANGED <<vars, m_connection, asked, serverVars>>

\* a new object: which of the unused ones makes no difference
Resolved(e) ==
    /\ resolving
    /\ conn[e].state = "none" /\ e = CHOOSE c \in Client : conn[c].state = "none"
    /\ resolving' = FALSE
    /\ m_connection' = e
    /\ ConnectToServer(e)
    /\ UNCHANGED <<asked, app, serverVars>>

ResolveFailed ==
    /\ resolving
    /\ resolving' = FALSE
    /\ app' = "idle"
    /\ UNCHANGED <<vars, m_connection, asked, serverVars>>

\* bound: at most one call is on its way to a connection
Waiting(e) == "disconnect" \in Range(conn[e].posted)
AskDisconnect ==
    /\ ~asked
    /\ app # "idle"
    /\ \A e \in Client : ~Waiting(e)
    /\ asked' = TRUE
    /\ UNCHANGED <<vars, m_connection, resolving, app, serverVars>>

\* Seeded fault: only what is_connected() is disconnected.
RunDisconnectConnected ==
    /\ asked
    /\ asked' = FALSE
    /\ conn' = [e \in End |-> IF e = m_connection /\ IsConnected(conn[e])
                              THEN [conn[e] EXCEPT !.posted = Append(@, "disconnect")]
                              ELSE conn[e]]
    /\ UNCHANGED <<wire, link, sends, m_connection, resolving, app, serverVars>>

RunDisconnect ==
    /\ asked
    /\ asked' = FALSE
    /\ conn' = IF m_connection = None THEN conn
               ELSE [conn EXCEPT ![m_connection].posted = Append(@, "disconnect")]
    /\ UNCHANGED <<wire, link, sends, m_connection, resolving, app, serverVars>>

\* the callback of end e runs in this step
Notified(e) == conn'[e].notified > conn[e].notified

OnDisconnect(e) ==
    /\ m_connection' = IF Notified(e) THEN None ELSE m_connection
    /\ app' = IF Notified(e) THEN "idle" ELSE app

ClientHandler(e) ==
    /\ \E o \in conn[e].ops :
         /\ Handler(e, o)
         /\ IF o.kind = "connect"
            THEN /\ app' = IF Success(e, o) THEN "up" ELSE "idle"
                 /\ UNCHANGED m_connection
            ELSE OnDisconnect(e)
    /\ UNCHANGED <<resolving, asked, serverVars>>

ClientPosted(e) ==
    /\ RunPosted(e)
    /\ OnDisconnect(e)
    /\ UNCHANGED <<resolving, asked, serverVars>>

-----------------------------------------------------------------------------
(* server_interface                                                        *)

Accept(e) ==
    /\ acceptor
    /\ ConnectToClient(e)
    /\ m_connections' = m_connections \cup {e}
    /\ UNCHANGED <<clientVars, acceptor, stopping>>

\* on_connect() returned false, or the acceptor was closed meanwhile
Refuse(e) ==
    /\ link[Peer[e]] # "none"
    /\ conn[e].state = "none"
    /\ Step(e, [NoObject EXCEPT !.state = "disconnected"])
    /\ UNCHANGED <<wire, link, sends, clientVars, serverVars>>

\* Seeded fault: only a connection that had become connected is removed.
RemoveConnected(e) ==
    m_connections' = IF Notified(e) /\ conn[e].state = "connected"
                     THEN m_connections \ {e} ELSE m_connections

RemoveNotified(e) ==
    m_connections' = IF Notified(e) THEN m_connections \ {e} ELSE m_connections

ServerHandler(e) ==
    /\ Handlers(e)
    /\ RemoveNotified(e)
    /\ UNCHANGED <<clientVars, acceptor, stopping>>

ServerPosted(e) ==
    /\ RunPosted(e)
    /\ RemoveNotified(e)
    /\ UNCHANGED <<clientVars, acceptor, stopping>>

Stop ==
    /\ acceptor
    /\ ~stopping
    /\ stopping' = TRUE
    /\ UNCHANGED <<vars, clientVars, acceptor, m_connections>>

\* Seeded fault: the connections are left open.
RunStopAccepting ==
    /\ stopping
    /\ stopping' = FALSE
    /\ acceptor' = FALSE
    /\ UNCHANGED <<vars, clientVars, m_connections>>

RunStop ==
    /\ stopping
    /\ stopping' = FALSE
    /\ acceptor' = FALSE
    /\ conn' = [e \in End |-> IF e \in m_connections
                              THEN [conn[e] EXCEPT !.posted = Append(@, "disconnect")]
                              ELSE conn[e]]
    /\ UNCHANGED <<wire, link, sends, clientVars, m_connections>>

-----------------------------------------------------------------------------
\* nothing listens once the acceptor is closed
Net(e) ==
    /\ Kernel(e)
    /\ acceptor \/ link' = link
    /\ UNCHANGED <<clientVars, serverVars>>

LinkBreaks(e) == Break(e) /\ UNCHANGED <<clientVars, serverVars>>

CSNext ==
    /\ UNCHANGED secure
    /\ \/ Connect \/ ResolveFailed \/ AskDisconnect \/ RunDisconnect
       \/ Stop \/ RunStop
       \/ \E e \in Client : Resolved(e) \/ LinkBreaks(e) \/ ClientHandler(e) \/ ClientPosted(e)
       \/ \E e \in Server : Accept(e) \/ Refuse(e) \/ ServerHandler(e) \/ ServerPosted(e)
       \/ \E e \in End : Net(e)

\* Both contexts are run, the kernel completes what it can
CSFairness ==
    /\ WF_csVars(RunDisconnect) /\ WF_csVars(RunStop)
    /\ \A e \in Client : WF_csVars(ClientHandler(e)) /\ WF_csVars(ClientPosted(e))
    /\ \A e \in Server : /\ WF_csVars(ServerHandler(e)) /\ WF_csVars(ServerPosted(e))
                         /\ WF_csVars(Accept(e) \/ Refuse(e))
    /\ \A e \in End : WF_csVars(Due(e) /\ Net(e))

CSSpec == CSInit /\ [][CSNext]_<<csVars, secure>> /\ CSFairness

-----------------------------------------------------------------------------
(* Properties.                                                             *)

CSTypeOK ==
    /\ TypeOK
    /\ m_connection \in Client \cup {None}
    /\ {resolving, asked, acceptor, stopping} \subseteq BOOLEAN
    /\ app \in {"idle", "waiting", "up"}
    /\ m_connections \subseteq Server

\* connect_result() acts on m_connection, not on the connection that called
\* it: they are the same object, also when the client reconnects from within
\* the callback of an earlier connection.
ResultIsForCurrent ==
    \A e \in Client : \A o \in conn[e].ops : o.kind = "connect" => m_connection = e

\* The client holds the connection that is connected: no callback of an
\* earlier one has reset the pointer to it, and its send() reaches it.
CurrentIsHeld == \A e \in Client : conn[e].state = "connected" => m_connection = e

\* The server's list holds the accepted connections that are not closed, no
\* more and no fewer, however they ended.
ListHoldsOpen ==
    m_connections = {e \in Server : conn[e].state \in {"connecting", "connected"}}

\* What the two interfaces know of their connections is what is the case.
BookkeepingInvariant == CSTypeOK /\ ResultIsForCurrent /\ CurrentIsHeld /\ ListHoldsOpen

\* A stopped server, which stays stopped, keeps no connection in the end, and
\* leaves no client that believes to be connected, but on a link that has fallen
\* silent.
StopEndsAll ==
    []<>(~acceptor => m_connections = {} /\ (app = "up" => Unaware(m_connection)))

\* disconnect() on a connection that is being made or in use ends with the
\* application told so, by on_connect_error() or by on_disconnect().
DisconnectEnds ==
    asked /\ m_connection # None /\ conn[m_connection].state # "disconnected"
       ~> app = "idle"
=============================================================================
