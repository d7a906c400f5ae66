----------------------------- MODULE Connection -----------------------------
(***************************************************************************)
(* The message connection of the SDK, mplc::net::connection and its TLS    *)
(* variant ssl_connection: the two ends of a TCP link run the same class,  *)
(* one after connect_to_server(), the other after connect_to_client().     *)
(*                                                                         *)
(* Each end lives on an io_context that one thread runs: posted functions  *)
(* run in the order they were posted, completion handlers in any order     *)
(* with them.  An operation completes first (a step of the kernel), and    *)
(* its handler runs later: in between, other handlers may close the        *)
(* socket of an operation that has already succeeded.                      *)
(*                                                                         *)
(* A link breaks, which the kernel reports, or falls silent for good, which *)
(* nothing reports: the code sets no keepalive and no timeout.  What is    *)
(* outstanding on a silent link may fail or stay outstanding for ever.     *)
(***************************************************************************)
EXTENDS Integers, SequencesExt

CONSTANTS
    Client,         \* the ends that call connect_to_server()
    Server,         \* the ends an acceptor makes
    Peer,           \* pairs them: a function on Client \cup Server
    Messages,       \* bound: by variant, the messages passed to send(), in that order
    WithBody,       \* the messages whose body is not empty
    Secure          \* the variants considered: plain (FALSE), TLS (TRUE)

End == Client \cup Server
Message == UNION {Range(Messages[tls]) : tls \in BOOLEAN}
None == [none |-> TRUE]
Garbage == [garbage |-> TRUE]

ASSUME ConnectionAssumption ==
    /\ Client \cap Server = {}
    /\ Peer \in [End -> End]
    /\ \A e \in End : Peer[Peer[e]] = e /\ (e \in Client <=> Peer[e] \in Server)
    /\ Messages \in [BOOLEAN -> Seq(Message)] /\ WithBody \subseteq Message
    /\ None \notin Message
    /\ Secure \subseteq BOOLEAN

VARIABLES
    conn,           \* the object at each end, see Object below
    wire,           \* the parts an end has sent and its peer has not read
    link,           \* the TCP link, by its client end
    sends,          \* how many messages have been passed to send()
    secure          \* is this the TLS variant; it never changes

vars == <<conn, wire, link, sends>>

Kinds == {"connect", "handshake", "readHeader", "readBody", "writeHeader", "writeBody"}
Op == [kind : Kinds, msg : Message \cup {None, Garbage},
       res : {"pending", "ok", "error"}]

\* accepted, got, late, notified and stale are histories: what send() queued,
\* what the message callback got, how much of it after the disconnect callback,
\* how often that one ran, and whether the handler of a successful handshake
\* found the end closed already.
Object == [state : {"none", "connecting", "connected", "disconnected"},
           open : BOOLEAN, ops : SUBSET Op, posted : Seq(Message \cup {"disconnect"}),
           m_tx_data : Seq(Message), tx_msg_buf : Message \cup {None}, has_cb : BOOLEAN,
           accepted : Seq(Message), got : Seq(Message), late : Nat,
           notified : Nat, stale : BOOLEAN]

NoObject == [state |-> "none", open |-> FALSE, ops |-> {}, posted |-> <<>>,
             m_tx_data |-> <<>>, tx_msg_buf |-> None, has_cb |-> FALSE,
             accepted |-> <<>>, got |-> <<>>, late |-> 0, notified |-> 0,
             stale |-> FALSE]

Init ==
    /\ conn = [e \in End |-> NoObject]
    /\ wire = [e \in End |-> <<>>]
    /\ link = [e \in Client |-> "none"]
    /\ sends = 0
    /\ secure \in Secure

-----------------------------------------------------------------------------
(* What the member functions do to the object c.                           *)

Start(c, kind, msg) ==
    [c EXCEPT !.ops = @ \cup {[kind |-> kind, msg |-> msg, res |-> "pending"]}]

ReadHeader(c) == Start(c, "readHeader", None)

WriteHeader(c) ==
    Start([c EXCEPT !.m_tx_data = Tail(@), !.tx_msg_buf = Head(c.m_tx_data)],
          "writeHeader", Head(c.m_tx_data))

\* Seeded fault: the queue is left alone once a message has been written.
WriteNoMore(c) == [c EXCEPT !.tx_msg_buf = None]
WriteNext(c) ==
    IF c.m_tx_data = <<>> THEN [c EXCEPT !.tx_msg_buf = None] ELSE WriteHeader(c)

\* Seeded fault: no early return.
CloseAgain(c) ==
    [c EXCEPT !.state = "disconnected", !.open = FALSE,
              !.notified = IF c.has_cb THEN @ + 1 ELSE @]

\* _disconnect(); after it every new operation fails
Close(c) ==
    IF c.state = "disconnected" THEN c
    ELSE [c EXCEPT !.state = "disconnected", !.open = FALSE,
                   !.notified = IF c.has_cb THEN @ + 1 ELSE @]

Connected(c) == [c EXCEPT !.state = "connected"]

Deliver(c, msg) ==
    ReadHeader([c EXCEPT !.got = Append(@, msg),
                         !.late = IF c.notified > 0 THEN @ + 1 ELSE @])

\* Seeded fault: the newest message is put first.
PushFront(c, msg) ==
    LET need_write == c.m_tx_data = <<>> /\ c.tx_msg_buf = None
        d == [c EXCEPT !.m_tx_data = <<msg>> \o @, !.accepted = Append(@, msg)]
    IN IF need_write THEN WriteHeader(d) ELSE d

Push(c, msg) ==
    LET need_write == c.m_tx_data = <<>> /\ c.tx_msg_buf = None
        d == [c EXCEPT !.m_tx_data = Append(@, msg), !.accepted = Append(@, msg)]
    IN IF need_write THEN WriteHeader(d) ELSE d

\* The client sets its callbacks in the function connect_to_server() calls
\* before it sets the state.
ConnectHandler(c) ==
    LET d == [c EXCEPT !.has_cb = TRUE]
    IN IF secure THEN Start(d, "handshake", None) ELSE ReadHeader(Connected(d))

\* connect_to_client(), on a socket just accepted; its first statement
\* compares the state and assigns nothing
ToClient(c) ==
    LET d == [c EXCEPT !.state = "connecting", !.open = TRUE, !.has_cb = TRUE]
    IN IF secure THEN Start(d, "handshake", None) ELSE ReadHeader(d)

Received(c, msg) ==
    IF msg \in WithBody THEN Start(c, "readBody", msg) ELSE Deliver(c, msg)

\* on_handshake() does not look at the state
Handshaken(c) == [c EXCEPT !.stale = @ \/ c.state = "disconnected"]

Succeeded(c, o) ==
    CASE o.kind = "connect" -> ConnectHandler(c)
      [] o.kind = "handshake" -> ReadHeader(Connected(Handshaken(c)))
      [] o.kind = "readHeader" -> Received(c, o.msg)
      [] o.kind = "readBody" -> Deliver(c, o.msg)
      [] o.kind = "writeHeader" ->
           IF o.msg \in WithBody THEN Start(c, "writeBody", o.msg) ELSE WriteNext(c)
      [] o.kind = "writeBody" -> WriteNext(c)

\* Seeded fault: an error of a read is ignored.
FailedQuietly(c, o) ==
    IF o.kind \in {"readHeader", "readBody"} THEN c ELSE Close(c)

Failed(c, o) ==
    IF o.kind = "connect" THEN [c EXCEPT !.state = "disconnected", !.open = FALSE]
    ELSE Close(c)

-----------------------------------------------------------------------------
(* The steps of an end.                                                    *)

Step(e, c) == conn' = [conn EXCEPT ![e] = c]

ConnectToServer(e) ==
    /\ conn[e].state = "none"
    /\ Step(e, Start([NoObject EXCEPT !.state = "connecting", !.open = TRUE],
                     "connect", None))
    /\ UNCHANGED <<wire, link, sends>>

\* the acceptor's handler, for a link that is up
ConnectToClient(e) ==
    /\ link[Peer[e]] # "none"
    /\ conn[e].state = "none"
    /\ Step(e, ToClient(NoObject))
    /\ UNCHANGED <<wire, link, sends>>

\* async_connect() hands operation_aborted to the handler when it finds the
\* socket closed
Success(e, o) == o.res = "ok" /\ (o.kind = "connect" => conn[e].open)

Handler(e, o) ==
    /\ o \in conn[e].ops
    /\ o.res # "pending"
    /\ LET c == [conn[e] EXCEPT !.ops = @ \ {o}]
       IN Step(e, IF Success(e, o) THEN Succeeded(c, o) ELSE Failed(c, o))
    /\ UNCHANGED <<wire, link, sends>>

RunPosted(e) ==
    /\ conn[e].posted # <<>>
    /\ LET f == Head(conn[e].posted)
           c == [conn[e] EXCEPT !.posted = Tail(@)]
       IN Step(e, IF f = "disconnect" THEN Close(c) ELSE Push(c, f))
    /\ UNCHANGED <<wire, link, sends>>

\* send(), from any thread: a message is dropped silently unless is_connected()
IsConnected(c) == c.open /\ c.state = "connected"
Send(e) ==
    /\ conn[e].state # "none"
    /\ sends < Len(Messages[secure])
    /\ sends' = sends + 1
    /\ Step(e, IF IsConnected(conn[e])
               THEN [conn[e] EXCEPT !.posted = Append(@, Messages[secure][sends'])] ELSE conn[e])
    /\ UNCHANGED <<wire, link>>

\* disconnect(), from any thread; bound: one call is waiting at a time
Disconnect(e) ==
    /\ conn[e].state \notin {"none", "disconnected"}
    /\ "disconnect" \notin Range(conn[e].posted)
    /\ Step(e, [conn[e] EXCEPT !.posted = Append(@, "disconnect")])
    /\ UNCHANGED <<wire, link, sends>>

-----------------------------------------------------------------------------
(* The kernel: operations complete, links fail.                            *)

Link(e) == link[IF e \in Client THEN e ELSE Peer[e]]
Gone(e) == conn[e].state # "none" /\ ~conn[e].open
Completed(e, o, res, msg) ==
    conn' = [conn EXCEPT ![e].ops = (@ \ {o}) \cup {[o EXCEPT !.res = res, !.msg = msg]}]
Working(e) == conn[e].open /\ Link(e) = "up"

ConnectDone(e, o) ==
    /\ o.kind = "connect"
    /\ \/ /\ conn[e].open
          /\ Completed(e, o, "ok", None)
          /\ link' = [link EXCEPT ![e] = "up"]
       \/ Completed(e, o, "error", None) /\ UNCHANGED link
    /\ UNCHANGED wire

HandshakeDone(e, o) ==
    /\ o.kind = "handshake"
    /\ \/ Working(e) /\ conn[Peer[e]].state # "none" /\ Completed(e, o, "ok", None)
       \/ Completed(e, o, "error", None)
    /\ UNCHANGED <<link, wire>>

Part(kind) == IF kind \in {"readHeader", "writeHeader"} THEN "header" ELSE "body"

\* what is written on a silent link stays in the buffers of the kernel
WriteDone(e, o) ==
    /\ o.kind \in {"writeHeader", "writeBody"}
    /\ \/ /\ conn[e].open /\ Link(e) \in {"up", "silent"}
          /\ Completed(e, o, "ok", o.msg)
          /\ wire' = [wire EXCEPT ![e] = Append(@, <<Part(o.kind), o.msg>>)]
       \/ /\ ~Working(e) \/ Gone(Peer[e])
          /\ Completed(e, o, "error", o.msg)
          /\ UNCHANGED wire
    /\ UNCHANGED link

\* a header is read where a header starts, or what is read is garbage
ReadDone(e, o) ==
    /\ o.kind \in {"readHeader", "readBody"}
    /\ \/ /\ Working(e)
          /\ wire[Peer[e]] # <<>>
          /\ LET part == Head(wire[Peer[e]])
             IN Completed(e, o, "ok", IF part[1] = Part(o.kind) THEN part[2] ELSE Garbage)
          /\ wire' = [wire EXCEPT ![Peer[e]] = Tail(@)]
       \/ /\ ~Working(e) \/ Gone(Peer[e])
          /\ Completed(e, o, "error", o.msg)
          /\ UNCHANGED wire
    /\ UNCHANGED link

Complete(e, o) ==
    /\ o \in conn[e].ops
    /\ o.res = "pending"
    /\ ConnectDone(e, o) \/ HandshakeDone(e, o) \/ WriteDone(e, o) \/ ReadDone(e, o)
    /\ UNCHANGED sends

Break(e) ==
    /\ link[e] = "up"
    /\ \E how \in {"broken", "silent"} : link' = [link EXCEPT ![e] = how]
    /\ UNCHANGED <<conn, wire, sends>>

-----------------------------------------------------------------------------
Kernel(e) == \E o \in conn[e].ops : Complete(e, o)
Handlers(e) == \E o \in conn[e].ops : Handler(e, o)

Next ==
    /\ UNCHANGED secure
    /\ \/ \E e \in Client : ConnectToServer(e) \/ Break(e)
       \/ \E e \in Server : ConnectToClient(e)
       \/ \E e \in End : Kernel(e) \/ Handlers(e) \/ RunPosted(e) \/ Disconnect(e) \/ Send(e)

\* The context is run, the acceptor takes the links there are, and the kernel
\* completes what it can: on an open socket of a silent link it need not.
Due(e) == Link(e) = "silent" => ~conn[e].open
Fairness ==
    /\ \A e \in End : WF_vars(Due(e) /\ Kernel(e)) /\ WF_vars(Handlers(e)) /\ WF_vars(RunPosted(e))
    /\ \A e \in Server : WF_vars(ConnectToClient(e))

Spec == Init /\ [][Next]_<<vars, secure>> /\ Fairness

-----------------------------------------------------------------------------
(* Properties.                                                             *)

TypeOK ==
    /\ \A e \in End : conn[e] \in Object
    /\ wire \in [End -> Seq({"header", "body"} \X Message)]
    /\ link \in [Client -> {"none", "up", "broken", "silent"}]
    /\ sends \in 0 .. Len(Messages[secure])
    /\ secure \in Secure

\* What the peer's message callback has got is a beginning of what send()
\* queued: nothing is lost in the middle, reordered, repeated, or glued
\* together from parts of two messages.
InOrder == \A e \in End : IsPrefix(conn[Peer[e]].got, conn[e].accepted)

\* One write is outstanding at a time, and it is of the message in tx_msg_buf:
\* the buffer a pending write reads is not replaced under it.
OneWrite ==
    \A e \in End : \A o, p \in conn[e].ops :
       {o.kind, p.kind} \subseteq {"writeHeader", "writeBody"} =>
          o = p /\ o.msg = conn[e].tx_msg_buf

\* The message callback can still run after the disconnect callback, for a
\* read that had completed, but only once.
OneLateMessage == \A e \in End : conn[e].late <= 1

\* The disconnect callback runs at most once.  With TLS it runs a second time
\* when the handshake had completed before the socket was closed: the handler
\* makes the closed end connected again.
NoticesPerLife ==
    \A e \in End : conn[e].notified <= IF secure /\ conn[e].stale THEN 2 ELSE 1

\* Without TLS an accepted end never becomes connected, so that everything
\* passed to its send() is dropped, whatever the order of events.
AcceptedEndIsMute == ~secure => \A e \in Server : conn[e].accepted = <<>>

\* What is true of the data on a link, and of the callbacks of its ends.
LinkInvariant == TypeOK /\ InOrder /\ OneWrite /\ AcceptedEndIsMute
CallbackInvariant == NoticesPerLife /\ OneLateMessage

\* When either end of a link closes or the link breaks, an end that has its
\* callbacks learns of it: its disconnect callback runs and nothing stays
\* outstanding.  On a link that has fallen silent an end learns nothing, unless it
\* closes itself: then it comes to its end all the same.  (What is over stays so,
\* which is why []<> says the same as a leads-to, here and below.)
Over(e) == Gone(e) \/ Link(e) \in {"broken", "silent"}
Finished(e) == conn[e].state = "disconnected" /\ conn[e].ops = {} /\ conn[e].notified > 0
Unaware(e) == conn[e].open /\ Link(e) = "silent"
BothEndsLearn ==
    \A e \in End :
       []<>(conn[e].has_cb /\ (Over(e) \/ Over(Peer[e])) => Finished(e) \/ Unaware(e))

\* A message queued on a link that stays up reaches the other end's callback.
Delivered ==
    \A e \in End, msg \in Message :
       []<>(msg \in Range(conn[e].accepted)
              => msg \in Range(conn[Peer[e]].got) \/ Over(e) \/ Over(Peer[e]))
=============================================================================
