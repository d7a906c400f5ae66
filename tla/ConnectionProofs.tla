-------------------------- MODULE ConnectionProofs --------------------------
(***************************************************************************)
(* Proofs about Connection, for any links, messages and variants: how      *)
(* often the disconnect callback runs and how much may come after it, and  *)
(* that what a link delivers is what was put in, in order; and about       *)
(* ClientServer without TLS: that both interfaces know their connections.  *)
(***************************************************************************)
EXTENDS ClientServer, TLAPS

-----------------------------------------------------------------------------
(* Types.  They say of a message only that it is something: that what is   *)
(* read is a message at all needs the order of the parts on the wire,      *)
(* which the callbacks do not depend on.                                   *)

Thing == Message \cup {None, Garbage, "disconnect"}
AnyOp == [kind : Kinds, msg : Thing, res : {"pending", "ok", "error"}]
Shape == [state : {"none", "connecting", "connected", "disconnected"},
          open : BOOLEAN, ops : SUBSET AnyOp, posted : Seq(Thing),
          m_tx_data : Seq(Thing), tx_msg_buf : Thing, has_cb : BOOLEAN,
          accepted : Seq(Thing), got : Seq(Thing), late : Nat,
          notified : Nat, stale : BOOLEAN]

Typed ==
    /\ conn \in [End -> Shape]
    /\ wire \in [End -> Seq({"header", "body"} \X Thing)]
    /\ sends \in 0 .. Len(Messages[secure])
    /\ secure \in BOOLEAN

\* One member changes and the object keeps its shape.
LEMMA UpdateTyped ==
    ASSUME NEW c \in Shape
    PROVE  /\ \A v \in {"none", "connecting", "connected", "disconnected"} : [c EXCEPT !.state = v] \in Shape
           /\ \A v \in BOOLEAN : /\ [c EXCEPT !.open = v] \in Shape
                                 /\ [c EXCEPT !.has_cb = v] \in Shape
                                 /\ [c EXCEPT !.stale = v] \in Shape
           /\ \A v \in SUBSET AnyOp : [c EXCEPT !.ops = v] \in Shape
           /\ \A v \in Seq(Thing) : /\ [c EXCEPT !.posted = v] \in Shape
                                    /\ [c EXCEPT !.m_tx_data = v] \in Shape
                                    /\ [c EXCEPT !.accepted = v] \in Shape
                                    /\ [c EXCEPT !.got = v] \in Shape
           /\ \A v \in Thing : [c EXCEPT !.tx_msg_buf = v] \in Shape
           /\ \A v \in Nat : /\ [c EXCEPT !.late = v] \in Shape
                             /\ [c EXCEPT !.notified = v] \in Shape
<1>1. \A v \in {"none", "connecting", "connected", "disconnected"} : [c EXCEPT !.state = v] \in Shape
  BY DEF Shape
<1>2. \A v \in BOOLEAN : [c EXCEPT !.open = v] \in Shape
  BY DEF Shape
<1>3. \A v \in BOOLEAN : [c EXCEPT !.has_cb = v] \in Shape
  BY DEF Shape
<1>4. \A v \in BOOLEAN : [c EXCEPT !.stale = v] \in Shape
  BY DEF Shape
<1>5. \A v \in SUBSET AnyOp : [c EXCEPT !.ops = v] \in Shape
  BY DEF Shape
<1>6. \A v \in Seq(Thing) : [c EXCEPT !.posted = v] \in Shape
  BY DEF Shape
<1>7. \A v \in Seq(Thing) : [c EXCEPT !.m_tx_data = v] \in Shape
  BY DEF Shape
<1>8. \A v \in Seq(Thing) : [c EXCEPT !.accepted = v] \in Shape
  BY DEF Shape
<1>9. \A v \in Seq(Thing) : [c EXCEPT !.got = v] \in Shape
  BY DEF Shape
<1>10. \A v \in Thing : [c EXCEPT !.tx_msg_buf = v] \in Shape
  BY DEF Shape
<1>11. \A v \in Nat : [c EXCEPT !.late = v] \in Shape
  BY DEF Shape
<1>12. \A v \in Nat : [c EXCEPT !.notified = v] \in Shape
  BY DEF Shape
<1> QED
  BY <1>1, <1>2, <1>3, <1>4, <1>5, <1>6, <1>7, <1>8, <1>9, <1>10, <1>11, <1>12

LEMMA StartTyped ==
    ASSUME NEW c \in Shape, NEW kind \in Kinds, NEW msg \in Thing
    PROVE  Start(c, kind, msg) \in Shape
<1>1. c.ops \in SUBSET AnyOp
  BY DEF Shape
<1>2. [kind |-> kind, msg |-> msg, res |-> "pending"] \in AnyOp
  BY DEF AnyOp
<1>3. c.ops \cup {[kind |-> kind, msg |-> msg, res |-> "pending"]} \in SUBSET AnyOp
  BY <1>1, <1>2
<1> QED
  BY <1>3, UpdateTyped DEF Start

LEMMA PiecesTyped ==
    ASSUME NEW c \in Shape, NEW msg \in Thing
    PROVE  /\ ReadHeader(c) \in Shape
           /\ c.m_tx_data # <<>> => WriteHeader(c) \in Shape
           /\ WriteNext(c) \in Shape
           /\ Close(c) \in Shape
           /\ Connected(c) \in Shape
           /\ Handshaken(c) \in Shape
           /\ Deliver(c, msg) \in Shape
<1>1. None \in Thing /\ {"readHeader", "writeHeader", "readBody", "writeBody", "connect", "handshake"} \subseteq Kinds
  BY DEF Thing, Kinds
<1>2. \A d \in Shape : ReadHeader(d) \in Shape
  BY <1>1, StartTyped DEF ReadHeader
<1>3. c.m_tx_data # <<>> => WriteHeader(c) \in Shape
  <2> SUFFICES ASSUME c.m_tx_data # <<>> PROVE WriteHeader(c) \in Shape
    OBVIOUS
  <2>1. c.m_tx_data \in Seq(Thing)
    BY DEF Shape
  <2>2. Head(c.m_tx_data) \in Thing /\ Tail(c.m_tx_data) \in Seq(Thing)
    BY <2>1
  <2>3. [c EXCEPT !.m_tx_data = Tail(@), !.tx_msg_buf = Head(c.m_tx_data)] \in Shape
    BY <2>2 DEF Shape
  <2> QED
    BY <1>1, <2>2, <2>3, StartTyped DEF WriteHeader
<1>4. WriteNext(c) \in Shape
  <2>1. [c EXCEPT !.tx_msg_buf = None] \in Shape
    BY <1>1 DEF Shape
  <2> QED
    BY <1>3, <2>1 DEF WriteNext
<1>5. Close(c) \in Shape
  <2> DEFINE n == IF c.has_cb THEN c.notified + 1 ELSE c.notified
             d == [c EXCEPT !.notified = n]
             e == [d EXCEPT !.state = "disconnected"]
  <2>1. d \in Shape
    <3>1. c.notified \in Nat
      BY DEF Shape
    <3>2. n \in Nat
      BY <3>1
    <3> QED
      BY <3>2, UpdateTyped
  <2>2. e \in Shape
    BY <2>1, UpdateTyped
  <2>3. [e EXCEPT !.open = FALSE] \in Shape
    BY <2>2, UpdateTyped
  <2>4. [c EXCEPT !.state = "disconnected", !.open = FALSE, !.notified = IF c.has_cb THEN @ + 1 ELSE @]
          = [e EXCEPT !.open = FALSE]
    BY DEF Shape
  <2> QED
    BY <2>3, <2>4 DEF Close
<1>6. Connected(c) \in Shape /\ Handshaken(c) \in Shape
  BY DEF Connected, Handshaken, Shape
<1>7. Deliver(c, msg) \in Shape
  <2> DEFINE g == Append(c.got, msg)
             l == IF c.notified > 0 THEN c.late + 1 ELSE c.late
             d == [c EXCEPT !.got = g]
  <2>1. g \in Seq(Thing) /\ l \in Nat
    BY DEF Shape
  <2>2. d \in Shape
    BY <2>1, UpdateTyped
  <2>3. [d EXCEPT !.late = l] \in Shape
    BY <2>1, <2>2, UpdateTyped
  <2>4. [c EXCEPT !.got = Append(@, msg), !.late = IF c.notified > 0 THEN @ + 1 ELSE @]
          = [d EXCEPT !.late = l]
    BY DEF Shape
  <2> QED
    BY <1>2, <2>3, <2>4 DEF Deliver
<1> QED
  BY <1>2, <1>3, <1>4, <1>5, <1>6, <1>7

LEMMA HandlersTyped ==
    ASSUME NEW c \in Shape, NEW o \in AnyOp, secure \in BOOLEAN
    PROVE  Succeeded(c, o) \in Shape /\ Failed(c, o) \in Shape
<1>1. o.msg \in Thing /\ o.kind \in Kinds /\ None \in Thing
      /\ {"readHeader", "writeHeader", "readBody", "writeBody", "connect", "handshake"} \subseteq Kinds
  BY DEF AnyOp, Thing, Kinds
<1>2. Failed(c, o) \in Shape
  <2>1. [c EXCEPT !.state = "disconnected", !.open = FALSE] \in Shape
    BY DEF Shape
  <2> QED
    BY <2>1, PiecesTyped, <1>1 DEF Failed
<1>3. CASE o.kind = "connect"
  <2>1. [c EXCEPT !.has_cb = TRUE] \in Shape
    BY UpdateTyped
  <2>2. ConnectHandler(c) \in Shape
    BY <2>1, <1>1, PiecesTyped, StartTyped DEF ConnectHandler
  <2> QED
    BY <1>2, <1>3, <2>2 DEF Succeeded
<1>4. CASE o.kind = "handshake"
  <2>1. ReadHeader(Connected(Handshaken(c))) \in Shape
    BY PiecesTyped, <1>1
  <2> QED
    BY <1>2, <1>4, <2>1 DEF Succeeded
<1>5. CASE o.kind = "readHeader"
  <2>1. Received(c, o.msg) \in Shape
    BY <1>1, PiecesTyped, StartTyped DEF Received
  <2> QED
    BY <1>2, <1>5, <2>1 DEF Succeeded
<1>6. CASE o.kind = "readBody"
  <2>1. Deliver(c, o.msg) \in Shape
    BY <1>1, PiecesTyped
  <2> QED
    BY <1>2, <1>6, <2>1 DEF Succeeded
<1>7. CASE o.kind = "writeHeader"
  <2>1. Start(c, "writeBody", o.msg) \in Shape /\ WriteNext(c) \in Shape
    BY <1>1, PiecesTyped, StartTyped
  <2> QED
    BY <1>2, <1>7, <2>1 DEF Succeeded
<1>8. CASE o.kind = "writeBody"
  <2>1. WriteNext(c) \in Shape
    BY <1>1, PiecesTyped
  <2> QED
    BY <1>2, <1>8, <2>1 DEF Succeeded
<1> QED
  BY <1>1, <1>3, <1>4, <1>5, <1>6, <1>7, <1>8 DEF Kinds

LEMMA PushTyped ==
    ASSUME NEW c \in Shape, NEW msg \in Thing
    PROVE  Push(c, msg) \in Shape
<1> DEFINE need_write == c.m_tx_data = <<>> /\ c.tx_msg_buf = None
           d == [c EXCEPT !.m_tx_data = Append(@, msg), !.accepted = Append(@, msg)]
<1>1. d \in Shape /\ d.m_tx_data = Append(c.m_tx_data, msg) /\ c.m_tx_data \in Seq(Thing)
  <2>1. /\ c.m_tx_data \in Seq(Thing) /\ Append(c.m_tx_data, msg) \in Seq(Thing)
        /\ Append(c.accepted, msg) \in Seq(Thing)
    BY DEF Shape
  <2>2. [c EXCEPT !.m_tx_data = Append(c.m_tx_data, msg)] \in Shape
    BY <2>1, UpdateTyped
  <2>3. [[c EXCEPT !.m_tx_data = Append(c.m_tx_data, msg)]
            EXCEPT !.accepted = Append(c.accepted, msg)] \in Shape
    BY <2>1, <2>2, UpdateTyped
  <2>4. d = [[c EXCEPT !.m_tx_data = Append(c.m_tx_data, msg)]
                EXCEPT !.accepted = Append(c.accepted, msg)]
    BY DEF Shape
  <2>5. d.m_tx_data = Append(c.m_tx_data, msg)
    BY DEF Shape
  <2> QED
    BY <2>1, <2>3, <2>4, <2>5
<1>2. d.m_tx_data # <<>>
  BY <1>1
<1>3. WriteHeader(d) \in Shape
  BY <1>1, <1>2, PiecesTyped
<1>4. Push(c, msg) = IF need_write THEN WriteHeader(d) ELSE d
  BY DEF Push
<1> QED
  BY <1>1, <1>3, <1>4

-----------------------------------------------------------------------------
(* The callbacks of one end.                                               *)

Incoming == {"connect", "handshake", "readHeader", "readBody"}
Has(c, kind) == \E o \in c.ops : o.kind = kind
Opening(c) == Has(c, "connect") \/ Has(c, "handshake")
Revived(c, tls) == tls /\ c.stale /\ ~Opening(c)

\* One operation that reads or opens is outstanding at a time.
OneIncoming(c) ==
    \A o, p \in c.ops : o.kind \in Incoming /\ p.kind \in Incoming => o = p

\* How often the callback has run: not at all in an end that is not closed and
\* was never revived.
Notices(c, tls) ==
    IF c.state = "disconnected"
    THEN c.notified \in {0, 1} \/ (c.notified = 2 /\ Revived(c, tls))
    ELSE c.notified = 0 \/ (c.notified = 1 /\ Revived(c, tls))

\* No callbacks are set before the connect handler, only TLS shakes hands, and
\* nothing was delivered before the link was opened.
BeforeOpened(c, tls) ==
    /\ Has(c, "connect") => ~c.has_cb
    /\ Has(c, "handshake") => tls
    /\ Opening(c) => c.late = 0

\* After the callback the socket is closed: nothing can be read any more but
\* what had been read.
AfterNotice(c) ==
    /\ c.notified > 0 => ~c.open /\ c.has_cb
    /\ c.late > 0 => c.notified > 0 /\ \A o \in c.ops : o.kind \in Incoming => o.res # "ok"
    /\ c.late \in {0, 1}

Good(c, tls) == OneIncoming(c) /\ Notices(c, tls) /\ BeforeOpened(c, tls) /\ AfterNotice(c)

\* An operation that is done with is forgotten.
LEMMA ForgetGood ==
    ASSUME NEW c \in Shape, NEW o \in c.ops, NEW tls \in BOOLEAN, Good(c, tls)
    PROVE  LET d == [c EXCEPT !.ops = @ \ {o}]
           IN  /\ d \in Shape
               /\ Good(d, tls)
               /\ o.kind \in Incoming => \A p \in d.ops : p.kind \notin Incoming
               /\ o.kind = "connect" => ~d.has_cb /\ d.notified = 0 /\ d.late = 0
               /\ o.kind = "handshake" => d.notified = 0 \/ (d.notified = 1 /\ d.state = "disconnected")
               /\ o.kind = "handshake" => tls /\ d.late = 0
               /\ o.kind \in Incoming /\ o.res = "ok" => d.late = 0
<1> DEFINE d == [c EXCEPT !.ops = @ \ {o}]
<1>1. c.ops \ {o} \in SUBSET AnyOp
  BY DEF Shape
<1>2. d \in Shape
  BY <1>1, UpdateTyped
<1>3. /\ d.ops = c.ops \ {o} /\ d.state = c.state /\ d.open = c.open /\ d.has_cb = c.has_cb
      /\ d.late = c.late /\ d.notified = c.notified /\ d.stale = c.stale
  BY DEF Shape
<1>4. c.notified \in Nat /\ c.late \in Nat
  BY DEF Shape
<1> HIDE DEF d
<1>5. Good(d, tls)
  <2>1. OneIncoming(d) /\ BeforeOpened(d, tls)
    BY <1>3 DEF Good, OneIncoming, BeforeOpened, Has, Opening
  <2>2. AfterNotice(d)
    BY <1>3 DEF Good, AfterNotice
  <2>3. Revived(c, tls) => Revived(d, tls)
    BY <1>3 DEF Revived, Has, Opening
  <2>4. Notices(d, tls)
    BY <1>3, <2>3 DEF Good, Notices
  <2> QED
    BY <2>1, <2>2, <2>4 DEF Good
<1>6. o.kind \in Incoming => \A p \in d.ops : p.kind \notin Incoming
  BY <1>3 DEF Good, OneIncoming
<1>7. o.kind = "connect" => ~d.has_cb /\ d.notified = 0 /\ d.late = 0
  <2> SUFFICES ASSUME o.kind = "connect" PROVE ~d.has_cb /\ d.notified = 0 /\ d.late = 0
    OBVIOUS
  <2>1. Has(c, "connect")
    BY DEF Has
  <2>2. ~c.has_cb /\ c.late = 0
    BY <2>1 DEF Good, BeforeOpened, Opening
  <2>3. ~(c.notified > 0)
    BY <2>2 DEF Good, AfterNotice
  <2> QED
    BY <1>3, <1>4, <2>2, <2>3
<1>8. o.kind = "handshake" => d.notified = 0 \/ (d.notified = 1 /\ d.state = "disconnected")
  <2> SUFFICES ASSUME o.kind = "handshake"
               PROVE d.notified = 0 \/ (d.notified = 1 /\ d.state = "disconnected")
    OBVIOUS
  <2>1. ~Revived(c, tls)
    BY DEF Has, Revived, Opening
  <2> QED
    BY <1>3, <2>1 DEF Good, Notices
<1>9. o.kind = "handshake" => tls /\ d.late = 0
  BY <1>3 DEF Good, BeforeOpened, Opening, Has
<1>10. o.kind \in Incoming /\ o.res = "ok" => d.late = 0
  BY <1>3 DEF Good, AfterNotice
<1> QED
  BY <1>2, <1>5, <1>6, <1>7, <1>8, <1>9, <1>10 DEF d


\* Closing tells the application at most once.
LEMMA CloseGood ==
    ASSUME NEW c \in Shape, NEW tls \in BOOLEAN, Good(c, tls)
    PROVE  Good(Close(c), tls)
<1> DEFINE d == Close(c)
<1>1. CASE c.state = "disconnected"
  BY <1>1 DEF Close
<1>2. CASE c.state # "disconnected"
  <2>1. /\ d.ops = c.ops /\ d.state = "disconnected" /\ d.open = FALSE /\ d.has_cb = c.has_cb
        /\ d.late = c.late /\ d.stale = c.stale
        /\ d.notified = IF c.has_cb THEN c.notified + 1 ELSE c.notified
    BY <1>2 DEF Close, Shape
  <2>2. c.notified \in Nat /\ c.late \in Nat
    BY DEF Shape
  <2> HIDE DEF d
  <2>3. OneIncoming(d) /\ BeforeOpened(d, tls)
    BY <2>1 DEF Good, OneIncoming, BeforeOpened, Has, Opening
  <2>4. Revived(c, tls) => Revived(d, tls)
    BY <2>1 DEF Revived, Has, Opening
  <2>5. c.notified = 0 \/ (c.notified = 1 /\ Revived(c, tls))
    BY <1>2 DEF Good, Notices
  <2>6. Notices(d, tls)
    BY <2>1, <2>4, <2>5 DEF Notices
  <2>7. d.notified > 0 => d.has_cb
    BY <2>1 DEF Good, AfterNotice
  <2>8. c.notified > 0 => d.notified > 0
    BY <2>1, <2>2
  <2>9. AfterNotice(d)
    BY <2>1, <2>7, <2>8 DEF Good, AfterNotice
  <2> QED
    BY <2>3, <2>6, <2>9 DEF Good, d
<1> QED
  BY <1>1, <1>2

\* An end may start to write at any time, and to read or shake hands when
\* nothing else is coming in.
LEMMA StartGood ==
    ASSUME NEW c \in Shape, NEW tls \in BOOLEAN, Good(c, tls), NEW kind \in Kinds, NEW msg \in Thing,
           kind # "connect",
           kind \in Incoming => \A p \in c.ops : p.kind \notin Incoming,
           kind = "handshake" => tls /\ c.late = 0 /\ c.notified = 0
    PROVE  Good(Start(c, kind, msg), tls)
<1> DEFINE d == Start(c, kind, msg)
           n == [kind |-> kind, msg |-> msg, res |-> "pending"]
<1>1. /\ d.ops = c.ops \cup {n} /\ d.state = c.state /\ d.open = c.open /\ d.has_cb = c.has_cb
      /\ d.late = c.late /\ d.notified = c.notified /\ d.stale = c.stale
  BY DEF Start, Shape
<1>2. n.kind = kind /\ n.res = "pending"
  OBVIOUS
<1> HIDE DEF d, n
<1>3. OneIncoming(d)
  BY <1>1, <1>2 DEF Good, OneIncoming
<1>4. BeforeOpened(d, tls)
  BY <1>1, <1>2 DEF Good, BeforeOpened, Has, Opening
<1>5. AfterNotice(d)
  BY <1>1, <1>2 DEF Good, AfterNotice
<1>6. Notices(d, tls)
  <2>1. CASE kind = "handshake"
    BY <1>1, <2>1 DEF Notices
  <2>2. CASE kind # "handshake"
    <3>1. Revived(c, tls) => Revived(d, tls)
      BY <1>1, <1>2, <2>2 DEF Revived, Has, Opening
    <3> QED
      BY <1>1, <3>1 DEF Good, Notices
  <2> QED
    BY <2>1, <2>2
<1> QED
  BY <1>3, <1>4, <1>5, <1>6 DEF Good, d

\* What changes the queue of messages only does not concern the callbacks.
LEMMA QueueGood ==
    ASSUME NEW c \in Shape, NEW tls \in BOOLEAN, Good(c, tls), NEW d \in Shape,
           d.ops = c.ops, d.state = c.state, d.open = c.open, d.has_cb = c.has_cb,
           d.late = c.late, d.notified = c.notified, d.stale = c.stale
    PROVE  Good(d, tls)
<1>1. OneIncoming(d) /\ BeforeOpened(d, tls)
  BY DEF Good, OneIncoming, BeforeOpened, Has, Opening
<1>2. AfterNotice(d)
  BY DEF Good, AfterNotice
<1>3. Revived(c, tls) => Revived(d, tls)
  BY DEF Revived, Has, Opening
<1>4. Notices(d, tls)
  BY <1>3 DEF Good, Notices
<1> QED
  BY <1>1, <1>2, <1>4 DEF Good

LEMMA WriteGood ==
    ASSUME NEW c \in Shape, NEW tls \in BOOLEAN, Good(c, tls)
    PROVE  /\ c.m_tx_data # <<>> => Good(WriteHeader(c), tls)
           /\ Good(WriteNext(c), tls)
<1>0. None \in Thing /\ "writeHeader" \in Kinds /\ "writeHeader" \notin Incoming
      /\ "writeHeader" # "connect" /\ "writeHeader" # "handshake"
  BY DEF Thing, Kinds, Incoming
<1>1. c.m_tx_data # <<>> => Good(WriteHeader(c), tls)
  <2> SUFFICES ASSUME c.m_tx_data # <<>> PROVE Good(WriteHeader(c), tls)
    OBVIOUS
  <2> DEFINE h == Head(c.m_tx_data)
             r == Tail(c.m_tx_data)
             d == [c EXCEPT !.m_tx_data = Tail(@), !.tx_msg_buf = Head(c.m_tx_data)]
  <2>1. c.m_tx_data \in Seq(Thing)
    BY DEF Shape
  <2>2. h \in Thing /\ r \in Seq(Thing)
    BY <2>1
  <2>3. d \in Shape
    BY <2>2 DEF Shape
  <2>4. /\ d.ops = c.ops /\ d.state = c.state /\ d.open = c.open /\ d.has_cb = c.has_cb
        /\ d.late = c.late /\ d.notified = c.notified /\ d.stale = c.stale
    BY DEF Shape
  <2>5. WriteHeader(c) = Start(d, "writeHeader", h)
    BY DEF WriteHeader
  <2> HIDE DEF d, h, r
  <2>6. Good(d, tls)
    BY <2>3, <2>4, QueueGood
  <2> QED
    BY <1>0, <2>2, <2>3, <2>5, <2>6, StartGood
<1>2. Good(WriteNext(c), tls)
  <2> DEFINE d == [c EXCEPT !.tx_msg_buf = None]
  <2>1. d \in Shape
    BY <1>0, UpdateTyped
  <2>2. /\ d.ops = c.ops /\ d.state = c.state /\ d.open = c.open /\ d.has_cb = c.has_cb
        /\ d.late = c.late /\ d.notified = c.notified /\ d.stale = c.stale
    BY DEF Shape
  <2>3. Good(d, tls)
    BY <2>1, <2>2, QueueGood
  <2> QED
    BY <1>1, <2>3 DEF WriteNext
<1> QED
  BY <1>1, <1>2

LEMMA PushGood ==
    ASSUME NEW c \in Shape, NEW tls \in BOOLEAN, Good(c, tls), NEW msg \in Thing
    PROVE  Good(Push(c, msg), tls)
<1> DEFINE need_write == c.m_tx_data = <<>> /\ c.tx_msg_buf = None
           d == [c EXCEPT !.m_tx_data = Append(@, msg), !.accepted = Append(@, msg)]
           m == [c EXCEPT !.m_tx_data = Append(c.m_tx_data, msg)]
<1>1. /\ c.m_tx_data \in Seq(Thing) /\ Append(c.m_tx_data, msg) \in Seq(Thing)
      /\ Append(c.accepted, msg) \in Seq(Thing)
  BY DEF Shape
<1>2. m \in Shape
  BY <1>1, UpdateTyped
<1>3. d = [m EXCEPT !.accepted = Append(c.accepted, msg)]
  BY DEF Shape
<1>4. d \in Shape
  BY <1>1, <1>2, <1>3, UpdateTyped
<1>5. /\ d.ops = c.ops /\ d.state = c.state /\ d.open = c.open /\ d.has_cb = c.has_cb
      /\ d.late = c.late /\ d.notified = c.notified /\ d.stale = c.stale
      /\ d.m_tx_data = Append(c.m_tx_data, msg)
  BY DEF Shape
<1>6. Push(c, msg) = IF need_write THEN WriteHeader(d) ELSE d
  BY DEF Push
<1> HIDE DEF d, m
<1>7. Good(d, tls)
  BY <1>4, <1>5, QueueGood
<1>8. d.m_tx_data # <<>>
  BY <1>1, <1>5
<1>9. Good(WriteHeader(d), tls)
  BY <1>4, <1>7, <1>8, WriteGood
<1> QED
  BY <1>6, <1>7, <1>9

\* The one message that may come late leaves no other behind it.
LEMMA DeliverGood ==
    ASSUME NEW c \in Shape, NEW tls \in BOOLEAN, Good(c, tls), NEW msg \in Thing,
           \A p \in c.ops : p.kind \notin Incoming, c.late = 0
    PROVE  Good(Deliver(c, msg), tls)
<1> DEFINE g == Append(c.got, msg)
           l == IF c.notified > 0 THEN c.late + 1 ELSE c.late
           b == [c EXCEPT !.got = g]
           d == [c EXCEPT !.got = Append(@, msg), !.late = IF c.notified > 0 THEN @ + 1 ELSE @]
<1>1. g \in Seq(Thing) /\ l \in Nat
  BY DEF Shape
<1>2. b \in Shape
  BY <1>1, UpdateTyped
<1>3. d = [b EXCEPT !.late = l]
  BY DEF Shape
<1>4. d \in Shape
  BY <1>1, <1>2, <1>3, UpdateTyped
<1>5. /\ d.ops = c.ops /\ d.state = c.state /\ d.open = c.open /\ d.has_cb = c.has_cb
      /\ d.notified = c.notified /\ d.stale = c.stale
      /\ d.late = IF c.notified > 0 THEN 1 ELSE 0
  BY DEF Shape
<1>6. Deliver(c, msg) = Start(d, "readHeader", None)
  BY DEF Deliver, ReadHeader
<1> HIDE DEF b, d
<1>7. OneIncoming(d) /\ BeforeOpened(d, tls)
  BY <1>5 DEF Good, OneIncoming, BeforeOpened, Has, Opening, Incoming
<1>8. AfterNotice(d)
  BY <1>5 DEF Good, AfterNotice
<1>9. Revived(c, tls) => Revived(d, tls)
  BY <1>5 DEF Revived, Has, Opening
<1>10. Notices(d, tls)
  BY <1>5, <1>9 DEF Good, Notices
<1>11. Good(d, tls)
  BY <1>7, <1>8, <1>10 DEF Good
<1>12. "readHeader" \in Kinds /\ "readHeader" # "connect" /\ "readHeader" # "handshake" /\ None \in Thing
  BY DEF Kinds, Thing
<1> QED
  BY <1>4, <1>5, <1>6, <1>11, <1>12, StartGood

\* A successful connect or handshake makes an end connected, the latter also an end
\* that was closed meanwhile.
LEMMA OpenGood ==
    ASSUME NEW c \in Shape, secure \in BOOLEAN, Good(c, secure),
           \A p \in c.ops : p.kind \notin Incoming, c.late = 0
    PROVE  /\ ~c.has_cb /\ c.notified = 0 => Good(ConnectHandler(c), secure)
           /\ secure /\ (c.notified = 0 \/ (c.notified = 1 /\ c.state = "disconnected"))
                => Good(ReadHeader(Connected(Handshaken(c))), secure)
<1> DEFINE s == Handshaken(c)
           h == [c EXCEPT !.has_cb = TRUE]
           d == Connected(s)
           k == Connected(h)
<1>0. /\ {"readHeader", "handshake"} \subseteq Kinds /\ None \in Thing
      /\ "readHeader" # "connect" /\ "readHeader" # "handshake" /\ "handshake" # "connect"
  BY DEF Kinds, Thing
<1>1. s \in Shape /\ h \in Shape /\ d \in Shape /\ k \in Shape
  BY <1>0, PiecesTyped, UpdateTyped
<1>2. /\ s.ops = c.ops /\ s.state = c.state /\ s.open = c.open /\ s.has_cb = c.has_cb
      /\ s.late = c.late /\ s.notified = c.notified
      /\ s.stale <=> c.stale \/ c.state = "disconnected"
  BY Zenon DEF Handshaken, Shape
<1>3. /\ h.ops = c.ops /\ h.state = c.state /\ h.open = c.open /\ h.has_cb = TRUE
      /\ h.late = c.late /\ h.notified = c.notified /\ h.stale = c.stale
  BY <1>1 DEF Shape
<1>4. \A b \in Shape : LET e == Connected(b) IN
         /\ e.ops = b.ops /\ e.state = "connected" /\ e.open = b.open /\ e.has_cb = b.has_cb
         /\ e.late = b.late /\ e.notified = b.notified /\ e.stale = b.stale
  BY DEF Connected, Shape
<1>5. ConnectHandler(c) = IF secure THEN Start(h, "handshake", None) ELSE Start(k, "readHeader", None)
  BY DEF ConnectHandler, ReadHeader
<1>6. ReadHeader(d) = Start(d, "readHeader", None)
  BY DEF ReadHeader
<1>7. /\ d.ops = c.ops /\ d.state = "connected" /\ d.open = c.open /\ d.has_cb = c.has_cb
      /\ d.late = c.late /\ d.notified = c.notified /\ d.stale = s.stale
  BY <1>1, <1>2, <1>4
<1>8. /\ k.ops = c.ops /\ k.state = "connected" /\ k.has_cb = TRUE
      /\ k.late = c.late /\ k.notified = c.notified
  BY <1>1, <1>2, <1>3, <1>4
<1>9. /\ h.ops = c.ops /\ h.state = c.state /\ h.has_cb = TRUE
      /\ h.late = c.late /\ h.notified = c.notified
  BY <1>2, <1>3
<1> HIDE DEF s, h, d, k
<1>10. \A b \in Shape : b.ops = c.ops => OneIncoming(b) /\ ~Opening(b) /\ BeforeOpened(b, secure)
  BY DEF OneIncoming, BeforeOpened, Has, Opening, Incoming
<1>11. ASSUME c.notified = 0 PROVE Good(h, secure) /\ Good(k, secure)
  <2>1. AfterNotice(h) /\ AfterNotice(k)
    BY <1>8, <1>9, <1>11 DEF AfterNotice
  <2>2. Notices(h, secure) /\ Notices(k, secure)
    BY <1>8, <1>9, <1>11 DEF Notices
  <2> QED
    BY <1>1, <1>8, <1>9, <1>10, <2>1, <2>2 DEF Good
<1>12. ASSUME ~c.has_cb, c.notified = 0 PROVE Good(ConnectHandler(c), secure)
  <2>1. secure => Good(Start(h, "handshake", None), secure)
    BY <1>0, <1>1, <1>9, <1>11, <1>12, StartGood
  <2>2. Good(Start(k, "readHeader", None), secure)
    BY <1>0, <1>1, <1>8, <1>11, <1>12, StartGood
  <2> QED
    BY <1>5, <2>1, <2>2
<1>13. ASSUME secure, c.notified = 0 \/ (c.notified = 1 /\ c.state = "disconnected")
       PROVE  Good(ReadHeader(d), secure)
  <2>1. AfterNotice(d)
    BY <1>7 DEF Good, AfterNotice
  <2>2. c.state = "disconnected" => Revived(d, secure)
    BY <1>1, <1>2, <1>7, <1>10, <1>13 DEF Revived
  <2>3. Notices(d, secure)
    BY <1>7, <1>13, <2>2 DEF Notices
  <2>4. Good(d, secure)
    BY <1>1, <1>7, <1>10, <2>1, <2>3 DEF Good
  <2> QED
    BY <1>0, <1>1, <1>6, <1>7, <2>4, StartGood
<1> QED
  BY <1>12, <1>13 DEF s, d

\* Whatever the outcome of an operation, its handler keeps the end as it must be.
LEMMA HandlerGood ==
    ASSUME NEW c \in Shape, secure \in BOOLEAN, Good(c, secure), NEW o \in c.ops, o.res # "pending"
    PROVE  LET d == [c EXCEPT !.ops = @ \ {o}]
           IN  /\ o.res = "ok" => Good(Succeeded(d, o), secure)
               /\ Good(Failed(d, o), secure)
<1> DEFINE d == [c EXCEPT !.ops = @ \ {o}]
<1>0. /\ {"readHeader", "writeHeader", "readBody", "writeBody", "connect", "handshake"} \subseteq Kinds
      /\ {"readHeader", "readBody", "connect", "handshake"} \subseteq Incoming
      /\ "writeBody" \notin Incoming
      /\ o \in AnyOp /\ o.kind \in Kinds /\ o.msg \in Thing
  BY DEF Kinds, Incoming, Shape, AnyOp
<1>1. /\ d \in Shape
      /\ Good(d, secure)
      /\ o.kind \in Incoming => \A p \in d.ops : p.kind \notin Incoming
      /\ o.kind = "connect" => ~d.has_cb /\ d.notified = 0 /\ d.late = 0
      /\ o.kind = "handshake" => d.notified = 0 \/ (d.notified = 1 /\ d.state = "disconnected")
      /\ o.kind = "handshake" => secure /\ d.late = 0
      /\ o.kind \in Incoming /\ o.res = "ok" => d.late = 0
  BY ForgetGood
<1> HIDE DEF d
<1>2. Good(Failed(d, o), secure)
  <2>1. CASE o.kind # "connect"
    <3>1. Good(Close(d), secure)
      BY <1>1, CloseGood
    <3> QED
      BY <2>1, <3>1 DEF Failed
  <2>2. CASE o.kind = "connect"
    <3> DEFINE e == [d EXCEPT !.state = "disconnected", !.open = FALSE]
    <3>1. /\ e.ops = d.ops /\ e.state = "disconnected" /\ e.has_cb = d.has_cb
          /\ e.late = d.late /\ e.notified = d.notified
      BY <1>1 DEF Shape
    <3>2. Failed(d, o) = e
      BY <2>2 DEF Failed
    <3>3. d.notified = 0 /\ d.late = 0
      BY <1>1, <2>2
    <3> HIDE DEF e
    <3>4. OneIncoming(e) /\ BeforeOpened(e, secure)
      BY <1>1, <3>1 DEF Good, OneIncoming, BeforeOpened, Has, Opening
    <3>5. Notices(e, secure) /\ AfterNotice(e)
      BY <3>1, <3>3 DEF Notices, AfterNotice
    <3> QED
      BY <3>2, <3>4, <3>5 DEF Good
  <2> QED
    BY <2>1, <2>2
<1>3. ASSUME o.res = "ok" PROVE Good(Succeeded(d, o), secure)
  <2>1. CASE o.kind = "connect"
    <3>1. Good(ConnectHandler(d), secure)
      BY <1>0, <1>1, <2>1, OpenGood
    <3> QED
      BY <2>1, <3>1 DEF Succeeded
  <2>2. CASE o.kind = "handshake"
    <3>1. secure
      BY <1>1, <2>2
    <3>2. Good(ReadHeader(Connected(Handshaken(d))), secure)
      BY <1>0, <1>1, <2>2, <3>1, OpenGood
    <3> QED
      BY <2>2, <3>2 DEF Succeeded
  <2>3. CASE o.kind = "readHeader"
    <3>1. Good(Deliver(d, o.msg), secure)
      BY <1>0, <1>1, <1>3, <2>3, DeliverGood
    <3>2. Good(Start(d, "readBody", o.msg), secure)
      BY <1>0, <1>1, <2>3, StartGood
    <3>3. Good(Received(d, o.msg), secure)
      BY <3>1, <3>2 DEF Received
    <3> QED
      BY <2>3, <3>3 DEF Succeeded
  <2>4. CASE o.kind = "readBody"
    <3>1. Good(Deliver(d, o.msg), secure)
      BY <1>0, <1>1, <1>3, <2>4, DeliverGood
    <3> QED
      BY <2>4, <3>1 DEF Succeeded
  <2>5. CASE o.kind = "writeHeader"
    <3>1. Good(WriteNext(d), secure)
      BY <1>1, WriteGood
    <3>2. Good(Start(d, "writeBody", o.msg), secure)
      BY <1>0, <1>1, StartGood
    <3> QED
      BY <2>5, <3>1, <3>2 DEF Succeeded
  <2>6. CASE o.kind = "writeBody"
    <3>1. Good(WriteNext(d), secure)
      BY <1>1, WriteGood
    <3> QED
      BY <2>6, <3>1 DEF Succeeded
  <2> QED
    BY <1>0, <2>1, <2>2, <2>3, <2>4, <2>5, <2>6 DEF Kinds
<1> QED
  BY <1>2, <1>3 DEF d

\* An operation completes: nothing is read from a closed socket.
LEMMA CompletedGood ==
    ASSUME NEW c \in Shape, NEW tls \in BOOLEAN, Good(c, tls), NEW o \in c.ops,
           NEW res \in {"ok", "error"}, NEW msg \in Thing,
           res = "ok" /\ o.kind \in Incoming => c.open
    PROVE  LET d == [c EXCEPT !.ops = (@ \ {o}) \cup {[o EXCEPT !.res = res, !.msg = msg]}]
           IN  d \in Shape /\ Good(d, tls)
<1> DEFINE n == [o EXCEPT !.res = res, !.msg = msg]
           d == [c EXCEPT !.ops = (@ \ {o}) \cup {n}]
<1>1. o \in AnyOp
  BY DEF Shape
<1>2. n \in AnyOp /\ n.kind = o.kind /\ n.res = res
  BY <1>1 DEF AnyOp
<1>3. (c.ops \ {o}) \cup {n} \in SUBSET AnyOp
  BY <1>2 DEF Shape
<1>4. d \in Shape
  BY <1>3, UpdateTyped
<1>5. /\ d.ops = (c.ops \ {o}) \cup {n} /\ d.state = c.state /\ d.open = c.open /\ d.has_cb = c.has_cb
      /\ d.late = c.late /\ d.notified = c.notified /\ d.stale = c.stale
  BY DEF Shape
<1> HIDE DEF n, d
<1>6. \A kind : Has(d, kind) <=> Has(c, kind)
  BY <1>2, <1>5 DEF Has
<1>7. OneIncoming(d)
  BY <1>2, <1>5 DEF Good, OneIncoming
<1>8. BeforeOpened(d, tls)
  BY <1>5, <1>6 DEF Good, BeforeOpened, Opening
<1>9. AfterNotice(d)
  BY <1>2, <1>5 DEF Good, AfterNotice
<1>10. Revived(c, tls) => Revived(d, tls)
  BY <1>5, <1>6 DEF Revived, Opening
<1>11. Notices(d, tls)
  BY <1>5, <1>10 DEF Good, Notices
<1> QED
  BY <1>4, <1>7, <1>8, <1>9, <1>11 DEF Good, d, n

LEMMA FreshGood ==
    ASSUME NEW tls \in BOOLEAN
    PROVE  NoObject \in Shape /\ Good(NoObject, tls)
<1>1. NoObject \in Shape
  BY DEF NoObject, Shape, Thing
<1>2. /\ NoObject.ops = {} /\ NoObject.state = "none" /\ NoObject.notified = 0 /\ NoObject.late = 0
  BY DEF NoObject
<1>3. OneIncoming(NoObject) /\ BeforeOpened(NoObject, tls) /\ AfterNotice(NoObject)
  BY <1>2 DEF OneIncoming, BeforeOpened, AfterNotice, Has, Opening
<1>4. Notices(NoObject, tls)
  BY <1>2 DEF Notices
<1> QED
  BY <1>1, <1>3, <1>4 DEF Good

LEMMA BeginGood ==
    ASSUME secure \in BOOLEAN
    PROVE  /\ LET d == Start([NoObject EXCEPT !.state = "connecting", !.open = TRUE], "connect", None)
              IN  d \in Shape /\ Good(d, secure)
           /\ ToClient(NoObject) \in Shape /\ Good(ToClient(NoObject), secure)
<1> DEFINE f == [NoObject EXCEPT !.state = "connecting", !.open = TRUE]
           g == [NoObject EXCEPT !.state = "connecting", !.open = TRUE, !.has_cb = TRUE]
           n == [kind |-> "connect", msg |-> None, res |-> "pending"]
           d == Start(f, "connect", None)
<1>0. {"connect", "handshake", "readHeader"} \subseteq Kinds /\ None \in Thing
  BY DEF Kinds, Thing
<1>1. f \in Shape /\ g \in Shape
  BY FreshGood, <1>0 DEF Shape
<1>2. /\ f.ops = {} /\ f.state = "connecting" /\ f.notified = 0 /\ f.late = 0 /\ f.has_cb = FALSE
      /\ g.ops = {} /\ g.state = "connecting" /\ g.notified = 0 /\ g.late = 0
  BY DEF NoObject
<1>3. \A kind \in Kinds : Start(f, kind, None) \in Shape /\ Start(g, kind, None) \in Shape
  BY <1>0, <1>1, StartTyped
<1>4. ToClient(NoObject) = IF secure THEN Start(g, "handshake", None) ELSE Start(g, "readHeader", None)
  BY DEF ToClient, ReadHeader
<1>5. /\ d.ops = {n} /\ d.state = "connecting" /\ d.notified = 0 /\ d.late = 0 /\ d.has_cb = FALSE
  BY <1>1, <1>2 DEF Start, Shape
<1>6. n.kind = "connect"
  OBVIOUS
<1> HIDE DEF f, g, d, n
<1>7. Good(d, secure)
  <2>1. OneIncoming(d) /\ BeforeOpened(d, secure) /\ AfterNotice(d)
    BY <1>5, <1>6 DEF OneIncoming, BeforeOpened, AfterNotice, Has, Opening
  <2>2. Notices(d, secure)
    BY <1>5 DEF Notices
  <2> QED
    BY <2>1, <2>2 DEF Good
<1>8. Good(g, secure)
  <2>1. OneIncoming(g) /\ BeforeOpened(g, secure) /\ AfterNotice(g)
    BY <1>2 DEF OneIncoming, BeforeOpened, AfterNotice, Has, Opening
  <2>2. Notices(g, secure)
    BY <1>2 DEF Notices
  <2> QED
    BY <2>1, <2>2 DEF Good
<1>9. ToClient(NoObject) \in Shape
  BY <1>0, <1>3, <1>4
<1>10. secure => Good(Start(g, "handshake", None), secure)
  BY <1>0, <1>1, <1>2, <1>8, StartGood
<1>11. Good(Start(g, "readHeader", None), secure)
  BY <1>0, <1>1, <1>2, <1>8, StartGood
<1> QED
  BY <1>0, <1>3, <1>4, <1>7, <1>9, <1>10, <1>11 DEF d, f

-----------------------------------------------------------------------------
(* All ends.                                                               *)

CallbackInv == Typed /\ \A e \in End : Good(conn[e], secure)

LEMMA StepGood ==
    ASSUME CallbackInv, NEW e \in End, NEW d \in Shape, Good(d, secure), Step(e, d)
    PROVE  conn' \in [End -> Shape] /\ \A x \in End : Good(conn'[x], secure)
<1>1. conn \in [End -> Shape]
  BY DEF CallbackInv, Typed
<1>2. conn' \in [End -> Shape] /\ \A x \in End : conn'[x] = IF x = e THEN d ELSE conn[x]
  BY <1>1 DEF Step
<1> QED
  BY <1>2 DEF CallbackInv

\* The steps of the objects themselves leave the wire alone.
LEMMA EndSteps ==
    ASSUME CallbackInv, NEW e \in End,
           ConnectToServer(e) \/ ConnectToClient(e) \/ Handlers(e) \/ RunPosted(e) \/ Disconnect(e) \/ Send(e)
    PROVE  conn' \in [End -> Shape] /\ \A x \in End : Good(conn'[x], secure)
<1> DEFINE c == conn[e]
<1>0. c \in Shape /\ Good(c, secure) /\ secure \in BOOLEAN
  BY DEF CallbackInv, Typed
<1>1. CASE ConnectToServer(e)
  BY <1>0, <1>1, BeginGood, StepGood DEF ConnectToServer
<1>2. CASE ConnectToClient(e)
  BY <1>0, <1>2, BeginGood, StepGood DEF ConnectToClient
<1>3. CASE Handlers(e)
  <2>1. PICK o \in c.ops : Handler(e, o)
    BY <1>3 DEF Handlers
  <2> DEFINE d == [c EXCEPT !.ops = @ \ {o}]
             r == IF Success(e, o) THEN Succeeded(d, o) ELSE Failed(d, o)
  <2>2. o.res # "pending" /\ Step(e, r) /\ (Success(e, o) => o.res = "ok")
    BY <2>1 DEF Handler, Success
  <2>3. o \in AnyOp /\ d \in Shape
    BY <1>0, ForgetGood DEF Shape
  <2>4. r \in Shape
    BY <1>0, <2>3, HandlersTyped
  <2>5. Good(r, secure)
    BY <1>0, <2>2, HandlerGood
  <2> QED
    BY <2>2, <2>4, <2>5, StepGood
<1>4. CASE RunPosted(e)
  <2> DEFINE f == Head(c.posted)
             d == [c EXCEPT !.posted = Tail(@)]
  <2>1. c.posted \in Seq(Thing) /\ c.posted # <<>>
    BY <1>0, <1>4 DEF RunPosted, Shape
  <2>2. f \in Thing /\ Tail(c.posted) \in Seq(Thing)
    BY <2>1
  <2>3. d \in Shape
    BY <1>0, <2>2, UpdateTyped
  <2>4. /\ d.ops = c.ops /\ d.state = c.state /\ d.open = c.open /\ d.has_cb = c.has_cb
        /\ d.late = c.late /\ d.notified = c.notified /\ d.stale = c.stale
    BY <1>0 DEF Shape
  <2>5. Step(e, IF f = "disconnect" THEN Close(d) ELSE Push(d, f))
    BY <1>4 DEF RunPosted
  <2> HIDE DEF d, f
  <2>6. Good(d, secure)
    BY <1>0, <2>3, <2>4, QueueGood
  <2>7. Close(d) \in Shape /\ Good(Close(d), secure)
    BY <1>0, <2>2, <2>3, <2>6, PiecesTyped, CloseGood
  <2>8. Push(d, f) \in Shape /\ Good(Push(d, f), secure)
    BY <1>0, <2>2, <2>3, <2>6, PushTyped, PushGood
  <2> QED
    BY <2>5, <2>7, <2>8, StepGood
<1>5. ASSUME NEW x \in Thing, Step(e, [c EXCEPT !.posted = Append(@, x)])
      PROVE  conn' \in [End -> Shape] /\ \A y \in End : Good(conn'[y], secure)
  <2> DEFINE d == [c EXCEPT !.posted = Append(@, x)]
  <2>1. Append(c.posted, x) \in Seq(Thing)
    BY <1>0 DEF Shape
  <2>2. d \in Shape
    BY <1>0, <2>1, UpdateTyped
  <2>3. /\ d.ops = c.ops /\ d.state = c.state /\ d.open = c.open /\ d.has_cb = c.has_cb
        /\ d.late = c.late /\ d.notified = c.notified /\ d.stale = c.stale
    BY <1>0 DEF Shape
  <2> HIDE DEF d
  <2>4. Good(d, secure)
    BY <1>0, <2>2, <2>3, QueueGood
  <2> QED
    BY <1>5, <2>2, <2>4, StepGood DEF d
<1>6. CASE Disconnect(e)
  <2>1. "disconnect" \in Thing
    BY DEF Thing
  <2> QED
    BY <1>5, <1>6, <2>1 DEF Disconnect
<1>7. CASE Send(e)
  <2>1. Messages[secure] \in Seq(Message) /\ sends \in 0 .. Len(Messages[secure])
    BY <1>0, ConnectionAssumption DEF CallbackInv, Typed
  <2>2. sends < Len(Messages[secure]) /\ sends' = sends + 1
    BY <1>7 DEF Send
  <2>3. Messages[secure][sends'] \in Thing
    BY <2>1, <2>2 DEF Thing
  <2>4. Step(e, [c EXCEPT !.posted = Append(@, Messages[secure][sends'])]) \/ Step(e, c)
    BY <1>7 DEF Send
  <2> QED
    BY <1>0, <1>5, <2>3, <2>4, StepGood
<1> QED
  BY <1>1, <1>2, <1>3, <1>4, <1>6, <1>7

\* The kernel completes an operation.
LEMMA KernelSteps ==
    ASSUME CallbackInv, NEW e \in End, NEW o \in conn[e].ops, Complete(e, o)
    PROVE  /\ conn' \in [End -> Shape] /\ \A x \in End : Good(conn'[x], secure)
           /\ wire' \in [End -> Seq({"header", "body"} \X Thing)]
<1>0. /\ conn \in [End -> Shape] /\ conn[e] \in Shape /\ Good(conn[e], secure) /\ secure \in BOOLEAN
      /\ o \in AnyOp /\ o.msg \in Thing
      /\ wire \in [End -> Seq({"header", "body"} \X Thing)]
  BY SMTT(30) DEF CallbackInv, Typed, Shape, AnyOp
<1>1. None \in Thing /\ Garbage \in Thing /\ Peer[e] \in End
  BY ConnectionAssumption DEF Thing
<1>2. ASSUME NEW res \in {"ok", "error"}, NEW msg \in Thing, Completed(e, o, res, msg),
             res = "ok" /\ o.kind \in Incoming => conn[e].open
      PROVE  conn' \in [End -> Shape] /\ \A x \in End : Good(conn'[x], secure)
  <2> DEFINE d == [conn[e] EXCEPT !.ops = (@ \ {o}) \cup {[o EXCEPT !.res = res, !.msg = msg]}]
  <2>1. d \in Shape /\ Good(d, secure)
    BY <1>0, <1>2, CompletedGood, ZenonT(30)
  <2>2. Step(e, d)
    BY <1>0, <1>2 DEF Completed, Step
  <2> HIDE DEF d
  <2> QED
    BY <2>1, <2>2, StepGood
<1>3. CASE ConnectDone(e, o)
  <2>1. wire' = wire
    BY <1>3 DEF ConnectDone
  <2>2. \/ conn[e].open /\ Completed(e, o, "ok", None)
        \/ Completed(e, o, "error", None)
    BY <1>3 DEF ConnectDone
  <2> QED
    BY <1>0, <1>1, <1>2, <2>1, <2>2
<1>4. CASE HandshakeDone(e, o)
  <2>1. wire' = wire
    BY <1>4 DEF HandshakeDone
  <2>2. \/ conn[e].open /\ Completed(e, o, "ok", None)
        \/ Completed(e, o, "error", None)
    BY <1>4 DEF HandshakeDone, Working
  <2> QED
    BY <1>0, <1>1, <1>2, <2>1, <2>2
<1>5. CASE WriteDone(e, o)
  <2>1. \/ Completed(e, o, "ok", o.msg)
        \/ Completed(e, o, "error", o.msg)
    BY <1>5 DEF WriteDone
  <2>2. o.kind \notin Incoming
    BY <1>5 DEF WriteDone, Incoming
  <2>3. wire' = wire \/ wire' = [wire EXCEPT ![e] = Append(@, <<Part(o.kind), o.msg>>)]
    BY <1>5 DEF WriteDone
  <2>4. <<Part(o.kind), o.msg>> \in {"header", "body"} \X Thing
    BY <1>0 DEF Part
  <2>5. Append(wire[e], <<Part(o.kind), o.msg>>) \in Seq({"header", "body"} \X Thing)
    BY <1>0, <2>4
  <2>6. wire' \in [End -> Seq({"header", "body"} \X Thing)]
    BY <1>0, <2>3, <2>5
  <2> QED
    BY <1>0, <1>2, <2>1, <2>2, <2>6
<1>6. CASE ReadDone(e, o)
  <2> DEFINE part == Head(wire[Peer[e]])
  <2>2. CASE /\ conn[e].open /\ wire[Peer[e]] # <<>>
             /\ Completed(e, o, "ok", IF part[1] = Part(o.kind) THEN part[2] ELSE Garbage)
             /\ wire' = [wire EXCEPT ![Peer[e]] = Tail(@)]
    <3>1. wire[Peer[e]] \in Seq({"header", "body"} \X Thing)
      BY <1>0, <1>1
    <3>2. part \in {"header", "body"} \X Thing /\ Tail(wire[Peer[e]]) \in Seq({"header", "body"} \X Thing)
      BY <2>2, <3>1
    <3>3. wire' \in [End -> Seq({"header", "body"} \X Thing)]
      BY <1>0, <1>1, <2>2, <3>2
    <3>4. (IF part[1] = Part(o.kind) THEN part[2] ELSE Garbage) \in Thing
      BY <1>1, <3>2
    <3> HIDE DEF part
    <3> QED
      BY <1>2, <2>2, <3>3, <3>4
  <2>3. CASE Completed(e, o, "error", o.msg) /\ wire' = wire
    BY <1>0, <1>2, <2>3
  <2> QED
    BY <1>6, <2>2, <2>3 DEF ReadDone, Working
<1> QED
  BY <1>3, <1>4, <1>5, <1>6 DEF Complete

LEMMA CallbackInit == Init => CallbackInv
<1> SUFFICES ASSUME Init PROVE CallbackInv
  OBVIOUS
<1>1. secure \in BOOLEAN
  BY ConnectionAssumption DEF Init
<1>2. Messages[secure] \in Seq(Message)
  BY <1>1, ConnectionAssumption
<1>3. sends \in 0 .. Len(Messages[secure])
  BY <1>2 DEF Init
<1>4. conn \in [End -> Shape] /\ \A e \in End : Good(conn[e], secure)
  BY <1>1, FreshGood DEF Init
<1>5. wire \in [End -> Seq({"header", "body"} \X Thing)]
  BY DEF Init
<1> QED
  BY <1>1, <1>3, <1>4, <1>5 DEF CallbackInv, Typed

LEMMA CallbackSteps ==
    ASSUME CallbackInv, secure' = secure, NEW e \in End,
           \/ ConnectToServer(e) \/ ConnectToClient(e) \/ Handlers(e) \/ RunPosted(e)
           \/ Disconnect(e) \/ Send(e) \/ Kernel(e) \/ Break(e)
    PROVE  CallbackInv'
<1>1. /\ conn \in [End -> Shape] /\ \A x \in End : Good(conn[x], secure)
      /\ wire \in [End -> Seq({"header", "body"} \X Thing)]
      /\ sends \in 0 .. Len(Messages[secure]) /\ secure \in BOOLEAN
  BY DEF CallbackInv, Typed
<1>2. Messages[secure] \in Seq(Message)
  BY <1>1, ConnectionAssumption
<1>3. ASSUME conn' \in [End -> Shape], \A x \in End : Good(conn'[x], secure),
             wire' \in [End -> Seq({"header", "body"} \X Thing)],
             sends' \in 0 .. Len(Messages[secure])
      PROVE  CallbackInv'
  BY <1>1, <1>3 DEF CallbackInv, Typed
<1>4. CASE \/ ConnectToServer(e) \/ ConnectToClient(e) \/ Handlers(e) \/ RunPosted(e)
           \/ Disconnect(e) \/ Send(e)
  <2>1. conn' \in [End -> Shape] /\ \A x \in End : Good(conn'[x], secure)
    BY <1>4, EndSteps
  <2>2. wire' = wire
    BY <1>4 DEF ConnectToServer, ConnectToClient, Handlers, Handler, RunPosted, Disconnect, Send
  <2>3. sends' = sends \/ (sends < Len(Messages[secure]) /\ sends' = sends + 1)
    BY <1>4 DEF ConnectToServer, ConnectToClient, Handlers, Handler, RunPosted, Disconnect, Send
  <2>4. sends' \in 0 .. Len(Messages[secure])
    BY <1>1, <1>2, <2>3
  <2> QED
    BY <1>1, <1>3, <2>1, <2>2, <2>4
<1>5. CASE Kernel(e)
  <2>1. PICK o \in conn[e].ops : Complete(e, o)
    BY <1>5 DEF Kernel
  <2>2. sends' = sends
    BY <2>1 DEF Complete
  <2>3. conn' \in [End -> Shape] /\ \A x \in End : Good(conn'[x], secure)
    BY <2>1, KernelSteps
  <2>4. wire' \in [End -> Seq({"header", "body"} \X Thing)]
    BY <2>1, KernelSteps
  <2> QED
    BY <1>1, <1>3, <2>2, <2>3, <2>4
<1>6. CASE Break(e)
  BY <1>1, <1>3, <1>6 DEF Break
<1> QED
  BY <1>4, <1>5, <1>6

\* The disconnect callback of an end runs once in its life, a second time at most
\* if TLS has revived it, and at most one message comes after it.
THEOREM CalledBackOnce == Spec => []CallbackInvariant
<1>1. Init => CallbackInv
  BY CallbackInit
<1>2. CallbackInv /\ [Next]_<<vars, secure>> => CallbackInv'
  <2> SUFFICES ASSUME CallbackInv, [Next]_<<vars, secure>> PROVE CallbackInv'
    OBVIOUS
  <2>1. secure' = secure
    BY DEF Next
  <2>2. CASE Next
    BY <2>1, <2>2, CallbackSteps DEF Next, End
  <2>3. CASE UNCHANGED vars
    BY <2>1, <2>3 DEF vars, CallbackInv, Typed
  <2> QED
    BY <2>2, <2>3
<1>3. CallbackInv => CallbackInvariant
  <2> SUFFICES ASSUME CallbackInv, NEW e \in End
               PROVE /\ conn[e].notified <= IF secure /\ conn[e].stale THEN 2 ELSE 1
                     /\ conn[e].late <= 1
    BY DEF CallbackInvariant, NoticesPerLife, OneLateMessage
  <2>1. Good(conn[e], secure)
    BY DEF CallbackInv
  <2>2. conn[e].late \in {0, 1}
    BY <2>1 DEF Good, AfterNotice
  <2>3. conn[e].notified \in {0, 1} \/ (conn[e].notified = 2 /\ secure /\ conn[e].stale)
    BY <2>1 DEF Good, Notices, Revived
  <2> QED
    BY <2>2, <2>3
<1> QED
  BY <1>1, <1>2, <1>3, PTL DEF Spec

-----------------------------------------------------------------------------
(* What is on its way.  A place is a part of a message: the number of the  *)
(* message in what send() queued, and its header or its body.  The parts   *)
(* on the wire lie on a road of places, from the one that is read next to  *)
(* the one that is written next.                                           *)

Outgoing == {"writeHeader", "writeBody"}
Ins(c) == {o \in c.ops : o.kind \in Incoming}
Outs(c) == {o \in c.ops : o.kind \in Outgoing}

Place == Nat \X {"header", "body"}
First == <<1, "header">>
After(s, at) ==
    IF at[2] = "header" /\ s[at[1]] \in WithBody THEN <<at[1], "body">> ELSE <<at[1] + 1, "header">>

Road(w, s, at) ==
    /\ at \in Seq(Place)
    /\ Len(at) = Len(w) + 1
    /\ \A i \in 1 .. Len(w) :
         /\ at[i][1] \in 1 .. Len(s)
         /\ w[i] = <<at[i][2], s[at[i][1]]>>
         /\ at[i + 1] = After(s, at[i])

\* The message being written, by its number, or the last one written.
Current(c) == Len(c.accepted) - Len(c.m_tx_data)

\* What is queued is the end of what was accepted, and the message before it is
\* in the buffer of the write.
Lined(c) ==
    /\ Current(c) \in 0 .. Len(c.accepted)
    /\ \A i \in 1 .. Len(c.m_tx_data) : c.accepted[Current(c) + i] = c.m_tx_data[i]
Queued(c) ==
    /\ Lined(c)
    /\ IF c.tx_msg_buf = None THEN c.m_tx_data = <<>> /\ Outs(c) = {}
       ELSE Current(c) > 0 /\ c.accepted[Current(c)] = c.tx_msg_buf
    /\ \A o, p \in Outs(c) : o = p
    /\ \A o \in Outs(c) : o.msg = c.tx_msg_buf

\* The end c writes next at this place.
Writes(c, at) ==
    /\ c.tx_msg_buf = None => at = <<Len(c.accepted) + 1, "header">>
    /\ \A o \in Outs(c) :
         /\ o.res = "pending" => at = <<Current(c), Part(o.kind)>>
         /\ o.res = "ok" => at = After(c.accepted, <<Current(c), Part(o.kind)>>)

\* The end c reads next at this place of what was accepted, s.
Expected(c) == Len(c.got) + 1
ReadsBy(c, o, s, at) ==
    /\ o.kind \in {"connect", "handshake"} => c.got = <<>> /\ at = First
    /\ o.kind \in {"readHeader", "readBody"} /\ o.res = "pending" => at = <<Expected(c), Part(o.kind)>>
    /\ o.kind \in {"readHeader", "readBody"} /\ o.res = "ok" => at = After(s, <<Expected(c), Part(o.kind)>>)
    /\ (o.kind = "readHeader" /\ o.res = "ok") \/ o.kind = "readBody" =>
          Expected(c) <= Len(s) /\ o.msg = s[Expected(c)]
Reads(c, s, at) ==
    /\ Len(c.got) <= Len(s) /\ \A i \in 1 .. Len(c.got) : c.got[i] = s[i]
    /\ c.state = "none" => c.got = <<>> /\ at = First
    /\ \A o \in Ins(c) : ReadsBy(c, o, s, at)

Stream(w, c, d) ==
    \E at \in Seq(Place) :
       Road(w, c.accepted, at) /\ Writes(c, at[Len(at)]) /\ Reads(d, c.accepted, at[1])

Proper(c) ==
    /\ c.accepted \in Seq(Message) /\ c.m_tx_data \in Seq(Message)
    /\ c.tx_msg_buf \in Message \cup {None}
    /\ c.posted \in Seq(Message \cup {"disconnect"})
    /\ \A o \in c.ops : o.msg \in Message \cup {None}

\* What is true of an end that exists, on its own.
Sound(c) == Proper(c) /\ Queued(c)

\* A step of an end does not disturb what is on its way to it and from it.
Keeps(c, d) ==
    /\ Sound(d) /\ d.state # "none"
    /\ d.accepted = c.accepted \/ \E m \in Message : d.accepted = Append(c.accepted, m)
    /\ \A at : Writes(c, at) => Writes(d, at)
    /\ \A s \in Seq(Message) : \A at : Reads(c, s, at) => Reads(d, s, at)

\* Nothing that is written or queued changes, except that operations go.
LEMMA WritingKept ==
    ASSUME NEW c \in Shape, NEW d \in Shape, Sound(c), Outs(d) \subseteq Outs(c),
           d.accepted = c.accepted, d.m_tx_data = c.m_tx_data, d.tx_msg_buf = c.tx_msg_buf
    PROVE  Queued(d) /\ \A at : Writes(c, at) => Writes(d, at)
<1>1. Current(d) = Current(c)
  BY DEF Current
<1>2. Queued(d)
  BY <1>1 DEF Sound, Queued, Lined
<1>3. \A at : Writes(c, at) => Writes(d, at)
  BY <1>1 DEF Writes
<1> QED
  BY <1>2, <1>3

LEMMA ReadingKept ==
    ASSUME NEW c \in Shape, NEW d \in Shape, Ins(d) \subseteq Ins(c), d.got = c.got, d.state # "none"
    PROVE  \A s \in Seq(Message) : \A at : Reads(c, s, at) => Reads(d, s, at)
<1>1. Expected(d) = Expected(c)
  BY DEF Expected
<1>2. \A o, s, at : ReadsBy(c, o, s, at) => ReadsBy(d, o, s, at)
  BY <1>1 DEF ReadsBy
<1> QED
  BY <1>2 DEF Reads

\* Another operation comes in: what it expects follows from what was expected.
LEMMA ReadingGoesOn ==
    ASSUME NEW c \in Shape, NEW d \in Shape, NEW o \in Ins(c), NEW p, Ins(d) \subseteq {p},
           d.state # "none",
           \A s \in Seq(Message) : \A at : ReadsBy(c, o, s, at) => ReadsBy(d, p, s, at),
           \/ d.got = c.got
           \/ /\ o.kind = "readBody" \/ (o.kind = "readHeader" /\ o.res = "ok")
              /\ d.got = Append(c.got, o.msg)
    PROVE  \A s \in Seq(Message) : \A at : Reads(c, s, at) => Reads(d, s, at)
<1> SUFFICES ASSUME NEW s \in Seq(Message), NEW at, Reads(c, s, at) PROVE Reads(d, s, at)
  OBVIOUS
<1>0. c.got \in Seq(Thing)
  BY DEF Shape
<1>1. ReadsBy(c, o, s, at)
  BY DEF Reads
<1>2. ReadsBy(d, p, s, at)
  BY <1>1
<1>3. CASE d.got = c.got
  BY <1>2, <1>3 DEF Reads
<1>4. CASE /\ o.kind = "readBody" \/ (o.kind = "readHeader" /\ o.res = "ok")
           /\ d.got = Append(c.got, o.msg)
  <2>1. Expected(c) <= Len(s) /\ o.msg = s[Expected(c)] /\ Expected(c) = Len(c.got) + 1
    BY <1>1, <1>4 DEF ReadsBy, Expected
  <2>2. Len(d.got) = Len(c.got) + 1 /\ \A i \in 1 .. Len(d.got) : d.got[i] = IF i = Len(c.got) + 1 THEN o.msg ELSE c.got[i]
    BY <1>0, <1>4
  <2>3. Len(d.got) <= Len(s) /\ \A i \in 1 .. Len(d.got) : d.got[i] = s[i]
    BY <1>0, <2>1, <2>2 DEF Reads
  <2> QED
    BY <1>2, <2>3 DEF Reads
<1> QED
  BY <1>3, <1>4

\* An end forgets operations, closes, or gets functions posted.
LEMMA DroppedKeeps ==
    ASSUME NEW c \in Shape, NEW d \in Shape, Sound(c), d.state # "none", d.ops \subseteq c.ops,
           d.accepted = c.accepted, d.m_tx_data = c.m_tx_data, d.tx_msg_buf = c.tx_msg_buf,
           d.got = c.got, d.posted \in Seq(Message \cup {"disconnect"})
    PROVE  Keeps(c, d)
<1>1. Ins(d) \subseteq Ins(c) /\ Outs(d) \subseteq Outs(c)
  BY DEF Ins, Outs
<1>2. Proper(d)
  BY DEF Sound, Proper
<1>3. Queued(d) /\ \A at : Writes(c, at) => Writes(d, at)
  BY <1>1, WritingKept
<1>4. \A s \in Seq(Message) : \A at : Reads(c, s, at) => Reads(d, s, at)
  BY <1>1, ReadingKept
<1> QED
  BY <1>2, <1>3, <1>4 DEF Keeps, Sound

\* One incoming operation follows another.
LEMMA IncomingKeeps ==
    ASSUME NEW c \in Shape, NEW d \in Shape, Sound(c), OneIncoming(c), d.state # "none",
           NEW o \in Ins(c), NEW p, p.kind \in Incoming, p.msg \in Message \cup {None},
           d.ops = (c.ops \ {o}) \cup {p},
           d.accepted = c.accepted, d.m_tx_data = c.m_tx_data, d.tx_msg_buf = c.tx_msg_buf,
           d.posted = c.posted,
           \A s \in Seq(Message) : \A at : ReadsBy(c, o, s, at) => ReadsBy(d, p, s, at),
           \/ d.got = c.got
           \/ /\ o.kind = "readBody" \/ (o.kind = "readHeader" /\ o.res = "ok")
              /\ d.got = Append(c.got, o.msg)
    PROVE  Keeps(c, d)
<1>0. Incoming \cap Outgoing = {}
  BY DEF Incoming, Outgoing
<1>1. \A q \in Ins(c) : q = o
  BY DEF OneIncoming, Ins
<1>2. Ins(d) \subseteq {p}
  BY <1>1 DEF Ins
<1>3. Outs(d) \subseteq Outs(c)
  BY <1>0 DEF Ins, Outs
<1>4. Proper(d)
  BY DEF Sound, Proper, Ins
<1>5. Queued(d) /\ \A at : Writes(c, at) => Writes(d, at)
  BY <1>3, WritingKept
<1>6. \A s \in Seq(Message) : \A at : Reads(c, s, at) => Reads(d, s, at)
  BY <1>2, ReadingGoesOn
<1> QED
  BY <1>4, <1>5, <1>6 DEF Keeps, Sound

\* The next header is written: of the first message that is queued.
LEMMA HeaderKeeps ==
    ASSUME NEW c \in Shape, Proper(c), Lined(c), Outs(c) = {}, c.m_tx_data # <<>>
    PROVE  LET d == WriteHeader(c)
           IN  /\ Sound(d)
               /\ Outs(d) = {[kind |-> "writeHeader", msg |-> d.tx_msg_buf, res |-> "pending"]}
               /\ Ins(d) = Ins(c) /\ d.accepted = c.accepted /\ d.got = c.got /\ d.state = c.state
               /\ Current(d) = Current(c) + 1
<1> DEFINE d == WriteHeader(c)
           h == Head(c.m_tx_data)
           r == Tail(c.m_tx_data)
           n == [kind |-> "writeHeader", msg |-> h, res |-> "pending"]
<1>1. /\ c.m_tx_data \in Seq(Message) /\ c.accepted \in Seq(Message)
      /\ Current(c) = Len(c.accepted) - Len(c.m_tx_data) /\ Current(c) \in 0 .. Len(c.accepted)
      /\ \A i \in 1 .. Len(c.m_tx_data) : c.accepted[Current(c) + i] = c.m_tx_data[i]
  BY DEF Proper, Lined, Current
<1>2. /\ h \in Message /\ r \in Seq(Message) /\ h = c.m_tx_data[1] /\ Len(r) = Len(c.m_tx_data) - 1
      /\ \A i \in 1 .. Len(r) : r[i] = c.m_tx_data[i + 1]
      /\ Len(c.m_tx_data) \in Nat /\ Len(c.m_tx_data) > 0 /\ Len(r) \in Nat /\ Len(c.accepted) \in Nat
  BY <1>1
<1>20. /\ Len(r) = Len(c.m_tx_data) - 1 /\ Len(c.m_tx_data) \in Nat /\ Len(c.m_tx_data) > 0
       /\ Len(r) \in Nat
  BY <1>2
<1>3. /\ d.ops = c.ops \cup {n} /\ d.m_tx_data = r /\ d.tx_msg_buf = h
      /\ d.accepted = c.accepted /\ d.posted = c.posted /\ d.got = c.got /\ d.state = c.state
  BY DEF WriteHeader, Start, Shape
<1>4. n.kind = "writeHeader" /\ n.msg = h /\ n.res = "pending"
  OBVIOUS
<1>5. "writeHeader" \in Outgoing /\ "writeHeader" \notin Incoming
  BY DEF Outgoing, Incoming
<1>6. n = [kind |-> "writeHeader", msg |-> d.tx_msg_buf, res |-> "pending"]
  BY <1>3
<1> HIDE DEF d, h, r, n
<1>7. Outs(d) = {n} /\ Ins(d) = Ins(c)
  BY <1>3, <1>4, <1>5 DEF Outs, Ins
<1>8. Current(d) = Current(c) + 1 /\ Current(c) \in Nat /\ Current(c) + 1 <= Len(c.accepted)
  <2>1. Current(d) = Len(c.accepted) - Len(r)
    BY <1>3 DEF Current
  <2>3. Current(d) = Current(c) + 1
    BY <1>1, <1>2, <2>1
  <2> QED
    BY <1>1, <1>2, <2>3
<1>9. Proper(d)
  BY <1>2, <1>3, <1>4 DEF Proper
<1>10. h # None
  BY <1>2, ConnectionAssumption
<1>11. Queued(d)
  <2>1. Current(d) \in 0 .. Len(d.accepted) /\ Current(d) > 0
    BY <1>2, <1>3, <1>8
  <2>2. \A i \in 1 .. Len(d.m_tx_data) : d.accepted[Current(d) + i] = d.m_tx_data[i]
    <3> SUFFICES ASSUME NEW i \in 1 .. Len(r) PROVE c.accepted[Current(c) + 1 + i] = c.m_tx_data[i + 1]
      BY <1>2, <1>3, <1>8
    <3>1. i + 1 \in 1 .. Len(c.m_tx_data) 
      BY <1>20
    <3>2. Current(c) + 1 + i = Current(c) + (i + 1)
      BY <1>8, <1>20
    <3>3. c.accepted[Current(c) + (i + 1)] = c.m_tx_data[i + 1]
      BY <1>1, <3>1
    <3> QED
      BY <3>2, <3>3
  <2>3. d.accepted[Current(d)] = d.tx_msg_buf
    <3>1. 1 \in 1 .. Len(c.m_tx_data)
      BY <1>20
    <3>2. c.accepted[Current(c) + 1] = c.m_tx_data[1]
      BY <1>1, <3>1
    <3> QED
      BY <1>2, <1>3, <1>8, <3>2
  <2>4. \A o, p \in Outs(d) : o = p
    BY <1>7
  <2>5. \A o \in Outs(d) : o.msg = d.tx_msg_buf
    BY <1>3, <1>4, <1>7
  <2> QED
    BY <1>3, <1>10, <2>1, <2>2, <2>3, <2>4, <2>5 DEF Queued, Lined
<1> QED
  BY <1>3, <1>6, <1>7, <1>8, <1>9, <1>11 DEF Sound, d

\* A message has been written, and the next one follows.
LEMMA WrittenKeeps ==
    ASSUME NEW b \in Shape, NEW c \in Shape, Sound(c), c.state # "none",
           NEW o \in Outs(c), o.res = "ok", o.kind = "writeHeader" => o.msg \notin WithBody,
           b.ops = c.ops \ {o},
           b.accepted = c.accepted, b.m_tx_data = c.m_tx_data, b.tx_msg_buf = c.tx_msg_buf,
           b.posted = c.posted, b.got = c.got, b.state = c.state
    PROVE  Keeps(c, WriteNext(b))
<1> DEFINE d == WriteNext(b)
<1>1. Outs(b) = {} /\ Ins(b) = Ins(c)
  BY DEF Sound, Queued, Outs, Ins, Incoming, Outgoing
<1>2. Sound(b)
  <2>1. Keeps(c, b)
    BY DroppedKeeps DEF Sound, Proper
  <2> QED
    BY <2>1 DEF Keeps
<1>3. Current(c) = Current(b)
  BY DEF Current
<1>4. ASSUME NEW at, Writes(c, at) PROVE at = <<Current(c) + 1, "header">>
  <2>1. at = After(c.accepted, <<Current(c), Part(o.kind)>>)
    BY <1>4 DEF Writes
  <2>2. o.msg = c.tx_msg_buf /\ o.msg = c.accepted[Current(c)]
    BY DEF Sound, Queued
  <2>3. CASE o.kind = "writeHeader"
    BY <2>1, <2>2, <2>3 DEF After, Part
  <2>4. CASE o.kind = "writeBody"
    BY <2>1, <2>4 DEF After, Part
  <2> QED
    BY <2>3, <2>4 DEF Outs, Outgoing
<1>5. CASE b.m_tx_data = <<>>
  <2>1. d = [b EXCEPT !.tx_msg_buf = None]
    BY <1>5 DEF WriteNext
  <2>2. /\ d.ops = b.ops /\ d.accepted = c.accepted /\ d.m_tx_data = <<>> /\ d.tx_msg_buf = None
        /\ d.posted = c.posted /\ d.got = c.got /\ d.state = c.state
    BY <1>5, <2>1 DEF Shape
  <2>3. d \in Shape
    BY PiecesTyped DEF Thing
  <2> HIDE DEF d
  <2>4. Outs(d) = {} /\ Ins(d) = Ins(c)
    BY <1>1, <2>2 DEF Outs, Ins
  <2>5. Proper(d)
    BY <2>2, <1>2 DEF Sound, Proper
  <2>6. c.accepted \in Seq(Message)
    BY DEF Sound, Proper
  <2>7. Current(d) = Len(c.accepted) /\ Current(c) = Len(c.accepted) /\ Len(c.accepted) \in Nat
    BY <1>5, <2>2, <2>6 DEF Current
  <2>8. Queued(d)
    BY <2>2, <2>4, <2>7 DEF Queued, Lined
  <2>9. \A at : Writes(c, at) => Writes(d, at)
    BY <1>4, <2>2, <2>4, <2>7 DEF Writes
  <2>10. \A s \in Seq(Message) : \A at : Reads(c, s, at) => Reads(d, s, at)
    BY <2>2, <2>3, <2>4, ReadingKept
  <2> QED
    BY <2>2, <2>5, <2>8, <2>9, <2>10 DEF Keeps, Sound, d
<1>6. CASE b.m_tx_data # <<>>
  <2>1. d = WriteHeader(b)
    BY <1>6 DEF WriteNext
  <2>2. /\ Sound(d)
        /\ Outs(d) = {[kind |-> "writeHeader", msg |-> d.tx_msg_buf, res |-> "pending"]}
        /\ Ins(d) = Ins(b) /\ d.accepted = b.accepted /\ d.got = b.got /\ d.state = b.state
        /\ Current(d) = Current(b) + 1
    BY <1>1, <1>2, <1>6, <2>1, HeaderKeeps DEF Sound, Queued
  <2>3. d \in Shape
    BY PiecesTyped DEF Thing
  <2> HIDE DEF d
  <2>4. \A at : Writes(c, at) => Writes(d, at)
    <3> SUFFICES ASSUME NEW at, Writes(c, at) PROVE Writes(d, at)
      OBVIOUS
    <3>1. at = <<Current(d), Part("writeHeader")>>
      BY <1>3, <1>4, <2>2 DEF Part
    <3>2. d.tx_msg_buf # None
      BY <2>2 DEF Sound, Queued
    <3> QED
      BY <2>2, <3>1, <3>2 DEF Writes
  <2>5. \A s \in Seq(Message) : \A at : Reads(c, s, at) => Reads(d, s, at)
    BY <1>1, <2>2, <2>3, ReadingKept
  <2> QED
    BY <2>2, <2>4, <2>5 DEF Keeps, d
<1> QED
  BY <1>5, <1>6

\* Where the members of the queue lie when there is one more.
LEMMA Shifted ==
    ASSUME NEW x \in Nat, NEW y \in Nat, NEW k \in Nat, k = x - y, NEW i \in 1 .. y + 1
    PROVE  /\ i = y + 1 => k + i = x + 1
           /\ i # y + 1 => i \in 1 .. y /\ k + i \in 1 .. x
OBVIOUS

\* A message is queued, and written at once if nothing else is.
LEMMA PushKeeps ==
    ASSUME NEW c \in Shape, Sound(c), c.state # "none", NEW msg \in Message
    PROVE  Keeps(c, Push(c, msg))
<1> DEFINE m == Append(c.m_tx_data, msg)
           a == Append(c.accepted, msg)
           e == [c EXCEPT !.m_tx_data = Append(@, msg), !.accepted = Append(@, msg)]
           d == Push(c, msg)
<1>1. /\ e.ops = c.ops /\ e.m_tx_data = m /\ e.accepted = a /\ e.tx_msg_buf = c.tx_msg_buf
      /\ e.posted = c.posted /\ e.got = c.got /\ e.state = c.state
  BY DEF Shape
<1>2. /\ c.m_tx_data \in Seq(Message) /\ c.accepted \in Seq(Message)
      /\ Current(c) = Len(c.accepted) - Len(c.m_tx_data) /\ Current(c) \in 0 .. Len(c.accepted)
      /\ \A i \in 1 .. Len(c.m_tx_data) : c.accepted[Current(c) + i] = c.m_tx_data[i]
  BY DEF Sound, Proper, Queued, Lined, Current
<1>3. /\ m \in Seq(Message) /\ Len(m) = Len(c.m_tx_data) + 1 /\ m[Len(m)] = msg
      /\ \A i \in 1 .. Len(c.m_tx_data) : m[i] = c.m_tx_data[i]
      /\ a \in Seq(Message) /\ Len(a) = Len(c.accepted) + 1 /\ a[Len(a)] = msg
      /\ \A i \in 1 .. Len(c.accepted) : a[i] = c.accepted[i]
      /\ m # <<>>
  BY <1>2
<1>4. Len(c.m_tx_data) \in Nat /\ Len(c.accepted) \in Nat /\ Len(m) \in Nat /\ Len(a) \in Nat
  BY <1>2, <1>3
<1>5. d = IF c.m_tx_data = <<>> /\ c.tx_msg_buf = None THEN WriteHeader(e) ELSE e
  BY DEF Push
<1>6. e \in Shape
  <2>1. Message \subseteq Thing
    BY DEF Thing
  <2>2. m \in Seq(Thing) /\ a \in Seq(Thing)
    <3>1. c.m_tx_data \in Seq(Thing) /\ c.accepted \in Seq(Thing) /\ msg \in Thing
      BY <2>1 DEF Shape
    <3> QED
      BY <3>1
  <2>3. [c EXCEPT !.m_tx_data = m] \in Shape
    BY <2>2, UpdateTyped
  <2>4. [[c EXCEPT !.m_tx_data = m] EXCEPT !.accepted = a] \in Shape
    BY <2>2, <2>3, UpdateTyped
  <2>5. e = [[c EXCEPT !.m_tx_data = m] EXCEPT !.accepted = a]
    BY DEF Shape
  <2> QED
    BY <2>4, <2>5
<1> HIDE DEF e, d, m, a
<1>7. Outs(e) = Outs(c) /\ Ins(e) = Ins(c)
  BY <1>1 DEF Outs, Ins
<1>8. Proper(e)
  BY <1>1, <1>3 DEF Sound, Proper
<1>9. Current(e) = Current(c)
  <2>1. Current(e) = Len(a) - Len(m)
    BY <1>1 DEF Current
  <2>2. Len(a) = Len(c.accepted) + 1 /\ Len(m) = Len(c.m_tx_data) + 1
    BY <1>3
  <2>3. Current(c) = Len(c.accepted) - Len(c.m_tx_data)
    BY <1>2
  <2> QED
    BY <1>4, <2>1, <2>2, <2>3
<1>10. Lined(e)
  <2>1. Current(c) \in 0 .. Len(a)
    <3>1. Len(a) = Len(c.accepted) + 1 /\ Current(c) \in 0 .. Len(c.accepted)
      BY <1>2, <1>3
    <3> QED
      BY <1>4, <3>1
  <2>2. ASSUME NEW i \in 1 .. Len(m) PROVE a[Current(c) + i] = m[i]
    <3>0. /\ i = Len(m) => Current(c) + i = Len(a)
          /\ i # Len(m) => i \in 1 .. Len(c.m_tx_data) /\ Current(c) + i \in 1 .. Len(c.accepted)
      <4>1. Len(m) = Len(c.m_tx_data) + 1 /\ Len(a) = Len(c.accepted) + 1
        BY <1>3
      <4>2. Current(c) = Len(c.accepted) - Len(c.m_tx_data) /\ Current(c) \in Nat
        BY <1>2
      <4>3. i \in 1 .. Len(c.m_tx_data) + 1
        BY <4>1
      <4>4. Len(c.accepted) \in Nat /\ Len(c.m_tx_data) \in Nat
        BY <1>4
      <4>5. /\ i = Len(c.m_tx_data) + 1 => Current(c) + i = Len(c.accepted) + 1
            /\ i # Len(c.m_tx_data) + 1
                 => i \in 1 .. Len(c.m_tx_data) /\ Current(c) + i \in 1 .. Len(c.accepted)
        BY <4>2, <4>3, <4>4, Shifted
      <4> QED
        BY <4>1, <4>5
    <3>1. CASE i = Len(m)
      <4>1. Current(c) + i = Len(a)
        BY <3>0, <3>1
      <4> QED
        BY <1>3, <3>1, <4>1
    <3>2. CASE i # Len(m)
      <4>1. i \in 1 .. Len(c.m_tx_data) /\ Current(c) + i \in 1 .. Len(c.accepted)
        BY <3>0, <3>2
      <4> QED
        BY <1>2, <1>3, <4>1
    <3> QED
      BY <3>1, <3>2
  <2> QED
    BY <1>1, <1>9, <2>1, <2>2 DEF Lined
<1>11. CASE c.m_tx_data = <<>> /\ c.tx_msg_buf = None
  <2>1. Outs(c) = {}
    BY <1>11 DEF Sound, Queued
  <2>2. e.m_tx_data # <<>> /\ d = WriteHeader(e)
    BY <1>1, <1>3, <1>5, <1>11
  <2>3. /\ Sound(d)
        /\ Outs(d) = {[kind |-> "writeHeader", msg |-> d.tx_msg_buf, res |-> "pending"]}
        /\ Ins(d) = Ins(e) /\ d.accepted = e.accepted /\ d.got = e.got /\ d.state = e.state
        /\ Current(d) = Current(e) + 1
    BY <1>6, <1>7, <1>8, <1>10, <2>1, <2>2, HeaderKeeps
  <2>4. d \in Shape
    BY <1>6, <2>2, PiecesTyped DEF Thing
  <2>5. ASSUME NEW at, Writes(c, at) PROVE Writes(d, at)
    <3>1. at = <<Len(c.accepted) + 1, "header">>
      BY <1>11, <2>5 DEF Writes
    <3>2. Len(c.m_tx_data) = 0 /\ Current(c) = Len(c.accepted)
      <4>1. Len(c.m_tx_data) = 0
        BY <1>11
      <4> QED
        BY <1>2, <1>4, <4>1
    <3>3. at = <<Current(d), Part("writeHeader")>>
      BY <1>9, <2>3, <3>1, <3>2 DEF Part
    <3>4. d.tx_msg_buf # None
      BY <2>3 DEF Sound, Queued
    <3> QED
      BY <2>3, <3>3, <3>4 DEF Writes
  <2>6. \A s \in Seq(Message) : \A at : Reads(c, s, at) => Reads(d, s, at)
    BY <1>1, <1>7, <2>3, <2>4, ReadingKept
  <2>7. d.accepted = Append(c.accepted, msg) /\ d.state # "none"
    BY <1>1, <2>3 DEF a
  <2> QED
    BY <2>3, <2>5, <2>6, <2>7 DEF Keeps, d
<1>12. CASE ~(c.m_tx_data = <<>> /\ c.tx_msg_buf = None)
  <2>1. d = e
    BY <1>5, <1>12
  <2>2. c.tx_msg_buf # None
    BY <1>12 DEF Sound, Queued
  <2>3. Current(c) \in 1 .. Len(c.accepted)
    <3>1. Current(c) > 0
      BY <2>2 DEF Sound, Queued
    <3>2. Current(c) \in 0 .. Len(c.accepted)
      BY <1>2
    <3> QED
      BY <1>4, <3>1, <3>2
  <2>4. a[Current(c)] = c.accepted[Current(c)]
    BY <1>3, <2>3
  <2>5. Queued(e)
    BY <1>1, <1>7, <1>9, <1>10, <2>2, <2>3, <2>4 DEF Sound, Queued
  <2>6. ASSUME NEW at, Writes(c, at) PROVE Writes(e, at)
    <3>1. \A x : After(a, <<Current(c), x>>) = After(c.accepted, <<Current(c), x>>)
      BY <2>4 DEF After
    <3> QED
      BY <1>1, <1>7, <1>9, <2>2, <2>6, <3>1 DEF Writes
  <2>7. \A s \in Seq(Message) : \A at : Reads(c, s, at) => Reads(e, s, at)
    BY <1>1, <1>6, <1>7, ReadingKept
  <2>8. e.accepted = Append(c.accepted, msg) /\ e.state # "none"
    BY <1>1 DEF a
  <2> QED
    BY <1>8, <2>1, <2>5, <2>6, <2>7, <2>8 DEF Keeps, Sound, d
<1> QED
  BY <1>11, <1>12

\* The body of a message follows its header.
LEMMA BodyKeeps ==
    ASSUME NEW b \in Shape, NEW c \in Shape, Sound(c), c.state # "none",
           NEW o \in Outs(c), o.res = "ok", o.kind = "writeHeader", o.msg \in WithBody,
           b.ops = c.ops \ {o},
           b.accepted = c.accepted, b.m_tx_data = c.m_tx_data, b.tx_msg_buf = c.tx_msg_buf,
           b.posted = c.posted, b.got = c.got, b.state = c.state
    PROVE  Keeps(c, Start(b, "writeBody", o.msg))
<1> DEFINE d == Start(b, "writeBody", o.msg)
           n == [kind |-> "writeBody", msg |-> o.msg, res |-> "pending"]
<1>1. /\ d.ops = b.ops \cup {n} /\ d.accepted = c.accepted /\ d.m_tx_data = c.m_tx_data
      /\ d.tx_msg_buf = c.tx_msg_buf /\ d.posted = c.posted /\ d.got = c.got /\ d.state = c.state
  BY DEF Start, Shape
<1>2. n.kind = "writeBody" /\ n.msg = o.msg /\ n.res = "pending"
  OBVIOUS
<1>3. /\ o.msg = c.tx_msg_buf /\ c.tx_msg_buf # None /\ c.accepted[Current(c)] = c.tx_msg_buf
      /\ Outs(b) = {} /\ Ins(b) = Ins(c)
  BY DEF Sound, Queued, Outs, Ins, Incoming, Outgoing
<1>4. d \in Shape
  <2>1. o.msg \in Thing /\ "writeBody" \in Kinds
    BY DEF Outs, Shape, AnyOp, Kinds
  <2> QED
    BY <2>1, StartTyped
<1> HIDE DEF d, n
<1>5. Outs(d) = {n} /\ Ins(d) = Ins(c)
  BY <1>1, <1>2, <1>3 DEF Outs, Ins, Incoming, Outgoing
<1>6. Current(d) = Current(c)
  BY <1>1 DEF Current
<1>7. Sound(d)
  <2>1. Proper(d)
    BY <1>1, <1>2 DEF Sound, Proper, Outs
  <2>2. Queued(d)
    BY <1>1, <1>2, <1>3, <1>5, <1>6 DEF Sound, Queued, Lined
  <2> QED
    BY <2>1, <2>2 DEF Sound
<1>8. ASSUME NEW at, Writes(c, at) PROVE Writes(d, at)
  <2>1. at = After(c.accepted, <<Current(c), Part(o.kind)>>)
    BY <1>8 DEF Writes
  <2>2. at = <<Current(c), "body">>
    BY <1>3, <2>1 DEF After, Part
  <2> QED
    BY <1>1, <1>2, <1>3, <1>5, <1>6, <2>2 DEF Writes, Part
<1>9. \A s \in Seq(Message) : \A at : Reads(c, s, at) => Reads(d, s, at)
  BY <1>1, <1>4, <1>5, ReadingKept
<1> QED
  BY <1>1, <1>7, <1>8, <1>9 DEF Keeps, d

\* Whatever the outcome of an operation, its handler disturbs nothing.
LEMMA HandlerKeeps ==
    ASSUME NEW c \in Shape, Sound(c), secure \in BOOLEAN, Good(c, secure), c.state # "none",
           NEW o \in c.ops, o.res # "pending"
    PROVE  LET b == [c EXCEPT !.ops = @ \ {o}]
           IN  /\ o.res = "ok" => Keeps(c, Succeeded(b, o))
               /\ Keeps(c, Failed(b, o))
<1> DEFINE b == [c EXCEPT !.ops = @ \ {o}]
<1>0. /\ o \in AnyOp /\ o.kind \in Kinds /\ o.msg \in Thing /\ o.msg \in Message \cup {None} /\ None \in Thing
      /\ {"readHeader", "readBody", "handshake"} \subseteq Kinds \cap Incoming
      /\ o.kind \in Incoming => o \in Ins(c)
      /\ o.kind \in Outgoing => o \in Outs(c)
  BY DEF Sound, Proper, Shape, AnyOp, Ins, Outs, Kinds, Incoming, Thing
<1>1. b \in Shape
  BY ForgetGood
<1>2. /\ b.ops = c.ops \ {o} /\ b.accepted = c.accepted /\ b.m_tx_data = c.m_tx_data
      /\ b.tx_msg_buf = c.tx_msg_buf /\ b.posted = c.posted /\ b.got = c.got /\ b.state = c.state
  BY DEF Shape
<1>3. OneIncoming(c) /\ c.posted \in Seq(Message \cup {"disconnect"})
  BY DEF Good, Sound, Proper
<1> HIDE DEF b
<1>4. Keeps(c, Failed(b, o))
  <2> DEFINE d == Failed(b, o)
  <2>1. /\ d.ops = b.ops /\ d.accepted = b.accepted /\ d.m_tx_data = b.m_tx_data
        /\ d.tx_msg_buf = b.tx_msg_buf /\ d.posted = b.posted /\ d.got = b.got
        /\ d.state \in {b.state, "disconnected"}
    <3>1. CASE o.kind = "connect"
      BY <1>1, <3>1 DEF Failed, Shape
    <3>2. CASE o.kind # "connect"
      <4>1. d = Close(b)
        BY <3>2 DEF Failed
      <4>2. CASE b.state = "disconnected"
        BY <4>1, <4>2 DEF Close
      <4>3. CASE b.state # "disconnected"
        BY <1>1, <4>1, <4>3 DEF Close, Shape
      <4> QED
        BY <4>2, <4>3
    <3> QED
      BY <3>1, <3>2
  <2>2. d \in Shape
    BY <1>0, <1>1, HandlersTyped
  <2> HIDE DEF d
  <2>3. Keeps(c, d)
    BY <1>2, <1>3, <2>1, <2>2, DroppedKeeps
  <2> QED
    BY <2>3 DEF d
<1>5. ASSUME o.res = "ok" PROVE Keeps(c, Succeeded(b, o))
  <2>1. \A x \in Shape : \A kind, msg :
          LET y == Start(x, kind, msg) IN
            /\ y.ops = x.ops \cup {[kind |-> kind, msg |-> msg, res |-> "pending"]}
            /\ y.accepted = x.accepted /\ y.m_tx_data = x.m_tx_data /\ y.tx_msg_buf = x.tx_msg_buf
            /\ y.posted = x.posted /\ y.got = x.got /\ y.state = x.state
    BY DEF Start, Shape
  <2>2. ASSUME NEW x \in Shape, NEW kind \in Kinds \cap Incoming, NEW msg \in Message \cup {None},
               x.ops = b.ops, x.accepted = b.accepted, x.m_tx_data = b.m_tx_data,
               x.tx_msg_buf = b.tx_msg_buf, x.posted = b.posted, x.state # "none", o.kind \in Incoming,
               \/ x.got = c.got
               \/ o.kind \in {"readBody", "readHeader"} /\ x.got = Append(c.got, o.msg),
               \A s \in Seq(Message) : \A at : ReadsBy(c, o, s, at) =>
                  ReadsBy(Start(x, kind, msg), [kind |-> kind, msg |-> msg, res |-> "pending"], s, at)
        PROVE  Keeps(c, Start(x, kind, msg))
    <3> DEFINE d == Start(x, kind, msg)
               p == [kind |-> kind, msg |-> msg, res |-> "pending"]
    <3>1. d \in Shape
      BY <1>0, StartTyped DEF Thing
    <3>2. /\ d.ops = x.ops \cup {p}
          /\ d.accepted = x.accepted /\ d.m_tx_data = x.m_tx_data /\ d.tx_msg_buf = x.tx_msg_buf
          /\ d.posted = x.posted /\ d.got = x.got /\ d.state = x.state
      BY <2>1
    <3>3. p.kind \in Incoming /\ p.msg \in Message \cup {None}
      OBVIOUS
    <3>4. \A s \in Seq(Message) : \A at : ReadsBy(c, o, s, at) => ReadsBy(d, p, s, at)
      BY <2>2
    <3>5. o \in Ins(c) /\ d.state # "none" /\ d.ops = (c.ops \ {o}) \cup {p}
      BY <1>0, <1>2, <2>2, <3>2
    <3>6. /\ d.accepted = c.accepted /\ d.m_tx_data = c.m_tx_data /\ d.tx_msg_buf = c.tx_msg_buf
          /\ d.posted = c.posted
      BY <1>2, <2>2, <3>2
    <3>7. \/ d.got = c.got
          \/ /\ o.kind = "readBody" \/ (o.kind = "readHeader" /\ o.res = "ok")
             /\ d.got = Append(c.got, o.msg)
      BY <1>5, <2>2, <3>2
    <3> HIDE DEF d, p
    <3>8. Keeps(c, d)
      BY <1>3, <3>1, <3>3, <3>4, <3>5, <3>6, <3>7, IncomingKeeps
    <3> QED
      BY <3>8 DEF d
  <2>3. ASSUME NEW x \in Shape, x.got = c.got, o.kind \in {"connect", "handshake"}
        PROVE  /\ \A s \in Seq(Message) : \A at : ReadsBy(c, o, s, at) =>
                    ReadsBy(Start(x, "handshake", None), [kind |-> "handshake", msg |-> None, res |-> "pending"], s, at)
               /\ \A s \in Seq(Message) : \A at : ReadsBy(c, o, s, at) =>
                    ReadsBy(Start(x, "readHeader", None), [kind |-> "readHeader", msg |-> None, res |-> "pending"], s, at)
    <3>1. Start(x, "handshake", None).got = c.got /\ Start(x, "readHeader", None).got = c.got
      BY <2>1, <2>3
    <3>2. c.got = <<>> => Len(c.got) = 0
      OBVIOUS
    <3> QED
      BY <2>3, <3>1, <3>2 DEF ReadsBy, Expected, First, Part
  <2>4. CASE o.kind = "connect"
    <3> DEFINE h == [b EXCEPT !.has_cb = TRUE]
               k == Connected(h)
    <3>1. h \in Shape /\ k \in Shape
      BY <1>0, <1>1, PiecesTyped, UpdateTyped
    <3>2. /\ h.ops = b.ops /\ h.accepted = b.accepted /\ h.m_tx_data = b.m_tx_data
          /\ h.tx_msg_buf = b.tx_msg_buf /\ h.posted = b.posted /\ h.got = b.got /\ h.state = b.state
      BY <1>1 DEF Shape
    <3>3. /\ k.ops = b.ops /\ k.accepted = b.accepted /\ k.m_tx_data = b.m_tx_data
          /\ k.tx_msg_buf = b.tx_msg_buf /\ k.posted = b.posted /\ k.got = b.got /\ k.state = "connected"
      BY <3>1, <3>2 DEF Connected, Shape
    <3>4. Succeeded(b, o) = IF secure THEN Start(h, "handshake", None) ELSE Start(k, "readHeader", None)
      BY <1>0, <2>4 DEF Succeeded, ConnectHandler, ReadHeader
    <3>5. o.kind \in Incoming
      BY <2>4 DEF Incoming
    <3> HIDE DEF h, k
    <3>6. Keeps(c, Start(h, "handshake", None))
      BY <1>0, <1>2, <2>2, <2>3, <2>4, <3>1, <3>2, <3>5
    <3>7. Keeps(c, Start(k, "readHeader", None))
      BY <1>0, <1>2, <2>2, <2>3, <2>4, <3>1, <3>3, <3>5
    <3> QED
      BY <3>4, <3>6, <3>7
  <2>5. CASE o.kind = "handshake"
    <3> DEFINE t == Handshaken(b)
               k == Connected(t)
    <3>1. t \in Shape /\ k \in Shape
      BY <1>0, <1>1, PiecesTyped
    <3>2. /\ k.ops = b.ops /\ k.accepted = b.accepted /\ k.m_tx_data = b.m_tx_data
          /\ k.tx_msg_buf = b.tx_msg_buf /\ k.posted = b.posted /\ k.got = b.got /\ k.state = "connected"
      BY <1>1 DEF Handshaken, Connected, Shape
    <3>3. Succeeded(b, o) = Start(k, "readHeader", None)
      BY <1>0, <2>5 DEF Succeeded, ReadHeader
    <3>5. o.kind \in Incoming
      BY <2>5 DEF Incoming
    <3> HIDE DEF t, k
    <3>6. Keeps(c, Start(k, "readHeader", None))
      BY <1>0, <1>2, <2>2, <2>3, <2>5, <3>1, <3>2, <3>5
    <3> QED
      BY <3>3, <3>6
  <2>6. ASSUME o.kind \in {"readHeader", "readBody"}, o.kind = "readHeader" => o.msg \notin WithBody
        PROVE  Keeps(c, Deliver(b, o.msg))
    <3> DEFINE g == Append(b.got, o.msg)
               l == IF b.notified > 0 THEN b.late + 1 ELSE b.late
               f == [b EXCEPT !.got = g]
               x == [b EXCEPT !.got = Append(@, o.msg), !.late = IF b.notified > 0 THEN @ + 1 ELSE @]
    <3>1. g \in Seq(Thing) /\ l \in Nat
      BY <1>0, <1>1 DEF Shape
    <3>2. f \in Shape
      BY <1>1, <3>1, UpdateTyped
    <3>3. x = [f EXCEPT !.late = l]
      BY <1>1 DEF Shape
    <3>4. x \in Shape
      BY <3>1, <3>2, <3>3, UpdateTyped
    <3>5. /\ x.ops = b.ops /\ x.accepted = b.accepted /\ x.m_tx_data = b.m_tx_data
          /\ x.tx_msg_buf = b.tx_msg_buf /\ x.posted = b.posted /\ x.got = Append(c.got, o.msg)
          /\ x.state = b.state
      BY <1>1, <1>2 DEF Shape
    <3>6. Deliver(b, o.msg) = Start(x, "readHeader", None)
      BY DEF Deliver, ReadHeader
    <3>7. o.kind \in Incoming
      BY <2>6 DEF Incoming
    <3> HIDE DEF x, f, g, l
    <3> DEFINE d == Start(x, "readHeader", None)
               p == [kind |-> "readHeader", msg |-> None, res |-> "pending"]
    <3>8. d.got = Append(c.got, o.msg)
      BY <2>1, <3>4, <3>5
    <3>9. p.kind = "readHeader" /\ p.res = "pending"
      OBVIOUS
    <3> HIDE DEF d, p
    <3>10. c.got \in Seq(Thing) /\ Expected(d) = Expected(c) + 1
      BY <1>0, <3>8 DEF Shape, Expected
    <3>11. ASSUME NEW s \in Seq(Message), NEW at, ReadsBy(c, o, s, at) PROVE ReadsBy(d, p, s, at)
      <4>1. at = After(s, <<Expected(c), Part(o.kind)>>) /\ o.msg = s[Expected(c)]
        BY <1>5, <2>6, <3>11 DEF ReadsBy
      <4>2. at = <<Expected(c) + 1, "header">>
        <5>1. CASE o.kind = "readHeader"
          BY <2>6, <4>1, <5>1 DEF After, Part
        <5>2. CASE o.kind = "readBody"
          BY <4>1, <5>2 DEF After, Part
        <5> QED
          BY <2>6, <5>1, <5>2
      <4> QED
        BY <3>9, <3>10, <4>2 DEF ReadsBy, Part
    <3>12. \A s \in Seq(Message) : \A at : ReadsBy(c, o, s, at) =>
             ReadsBy(Start(x, "readHeader", None), [kind |-> "readHeader", msg |-> None, res |-> "pending"], s, at)
      BY <3>11 DEF d, p
    <3> QED
      BY <1>0, <1>2, <2>2, <2>6, <3>4, <3>5, <3>6, <3>7, <3>12
  <2>7. CASE o.kind = "readHeader"
    <3>1. Succeeded(b, o) = Received(b, o.msg)
      BY <1>0, <2>7 DEF Succeeded
    <3>2. CASE o.msg \in WithBody
      <4> DEFINE d == Start(b, "readBody", o.msg)
                 p == [kind |-> "readBody", msg |-> o.msg, res |-> "pending"]
      <4>1. d.got = c.got
        BY <1>1, <1>2, <2>1
      <4>2. p.kind = "readBody" /\ p.res = "pending" /\ p.msg = o.msg
        OBVIOUS
      <4> HIDE DEF d, p
      <4>3. ASSUME NEW s \in Seq(Message), NEW at, ReadsBy(c, o, s, at) PROVE ReadsBy(d, p, s, at)
        <5>1. /\ at = After(s, <<Expected(c), "header">>) /\ o.msg = s[Expected(c)]
              /\ Expected(c) <= Len(s)
          BY <1>5, <2>7, <4>3 DEF ReadsBy, Part
        <5>2. at = <<Expected(c), "body">>
          BY <3>2, <5>1 DEF After
        <5>3. Expected(d) = Expected(c)
          BY <4>1 DEF Expected
        <5> QED
          BY <4>2, <5>1, <5>2, <5>3 DEF ReadsBy, Part
      <4>4. \A s \in Seq(Message) : \A at : ReadsBy(c, o, s, at) =>
               ReadsBy(Start(b, "readBody", o.msg), [kind |-> "readBody", msg |-> o.msg, res |-> "pending"], s, at)
        BY <4>3 DEF d, p
      <4>5. Keeps(c, Start(b, "readBody", o.msg))
        BY <1>0, <1>1, <1>2, <2>2, <2>7, <4>4
      <4> QED
        BY <3>1, <3>2, <4>5 DEF Received
    <3>3. CASE o.msg \notin WithBody
      BY <2>6, <2>7, <3>1, <3>3 DEF Received
    <3> QED
      BY <3>2, <3>3
  <2>8. CASE o.kind = "readBody"
    <3>1. Succeeded(b, o) = Deliver(b, o.msg)
      BY <1>0, <2>8 DEF Succeeded
    <3> QED
      BY <2>6, <2>8, <3>1
  <2>9. CASE o.kind \in Outgoing
    <3>1. o \in Outs(c)
      BY <1>0, <2>9
    <3>2. o.kind = "writeHeader" /\ o.msg \in WithBody => Keeps(c, Start(b, "writeBody", o.msg))
      BY <1>1, <1>2, <1>5, <3>1, BodyKeeps
    <3>3. (o.kind = "writeHeader" => o.msg \notin WithBody) => Keeps(c, WriteNext(b))
      BY <1>1, <1>2, <1>5, <3>1, WrittenKeeps
    <3>4. CASE o.kind = "writeHeader"
      <4>1. Succeeded(b, o) = IF o.msg \in WithBody THEN Start(b, "writeBody", o.msg) ELSE WriteNext(b)
        BY <3>4 DEF Succeeded
      <4> QED
        BY <3>2, <3>3, <3>4, <4>1
    <3>5. CASE o.kind = "writeBody"
      <4>1. Succeeded(b, o) = WriteNext(b)
        BY <3>5 DEF Succeeded
      <4> QED
        BY <3>3, <3>5, <4>1
    <3> QED
      BY <2>9, <3>4, <3>5 DEF Outgoing
  <2> QED
    BY <1>0, <2>4, <2>5, <2>7, <2>8, <2>9 DEF Kinds, Outgoing
<1> QED
  BY <1>4, <1>5 DEF b

\* The stream does not notice a step that disturbs nothing, of the end that writes
LEMMA WriterSteps ==
    ASSUME NEW c \in Shape, NEW b \in Shape, NEW d \in Shape, NEW w, Stream(w, c, d), Sound(c),
           b.accepted = c.accepted \/ \E m \in Message : b.accepted = Append(c.accepted, m),
           \A at : Writes(c, at) => Writes(b, at)
    PROVE  Stream(w, b, d)
<1> DEFINE s == c.accepted
           t == b.accepted
<1>1. PICK at \in Seq(Place) : Road(w, s, at) /\ Writes(c, at[Len(at)]) /\ Reads(d, s, at[1])
  BY DEF Stream
<1>2. s \in Seq(Message) /\ d.got \in Seq(Thing)
  BY DEF Sound, Proper, Shape
<1>3. Len(s) <= Len(t) /\ \A i \in 1 .. Len(s) : t[i] = s[i]
  BY <1>2
<1>4. Len(s) \in Nat /\ Len(t) \in Nat /\ Len(d.got) \in Nat
  BY <1>2
<1> HIDE DEF s, t
<1>5. \A q : q[1] \in 1 .. Len(s) => After(t, q) = After(s, q)
  BY <1>3 DEF After
<1>6. Road(w, t, at)
  <2>1. ASSUME NEW i \in 1 .. Len(w)
        PROVE  at[i][1] \in 1 .. Len(t) /\ w[i] = <<at[i][2], t[at[i][1]]>> /\ at[i + 1] = After(t, at[i])
    <3>1. at[i][1] \in 1 .. Len(s) /\ w[i] = <<at[i][2], s[at[i][1]]>> /\ at[i + 1] = After(s, at[i])
      BY <1>1 DEF Road
    <3>2. at[i][1] \in 1 .. Len(t)
      BY <1>3, <1>4, <3>1
    <3> QED
      BY <1>3, <1>5, <3>1, <3>2
  <2> QED
    BY <1>1, <2>1 DEF Road
<1>7. Reads(d, t, at[1])
  <2>1. Len(d.got) <= Len(t)
    BY <1>1, <1>3, <1>4 DEF Reads
  <2>2. \A i \in 1 .. Len(d.got) : i \in 1 .. Len(s)
    BY <1>1, <1>4 DEF Reads
  <2>3. \A i \in 1 .. Len(d.got) : d.got[i] = t[i]
    BY <1>1, <1>3, <2>2 DEF Reads
  <2>4. ASSUME NEW o \in Ins(d) PROVE ReadsBy(d, o, t, at[1])
    <3>1. ReadsBy(d, o, s, at[1])
      BY <1>1 DEF Reads
    <3>2. o.kind \in {"connect", "handshake"} => d.got = <<>> /\ at[1] = First
      BY <3>1 DEF ReadsBy
    <3>3. o.kind \in {"readHeader", "readBody"} /\ o.res = "pending" => at[1] = <<Expected(d), Part(o.kind)>>
      BY <3>1 DEF ReadsBy
    <3>4. (o.kind = "readHeader" /\ o.res = "ok") \/ o.kind = "readBody" =>
             Expected(d) \in 1 .. Len(s) /\ o.msg = s[Expected(d)]
      BY <1>4, <3>1 DEF ReadsBy, Expected
    <3>5. (o.kind = "readHeader" /\ o.res = "ok") \/ o.kind = "readBody" =>
             Expected(d) <= Len(t) /\ o.msg = t[Expected(d)]
      BY <1>3, <1>4, <3>4
    <3>6. o.kind \in {"readHeader", "readBody"} /\ o.res = "ok"
             => at[1] = After(t, <<Expected(d), Part(o.kind)>>)
      <4> SUFFICES ASSUME o.kind \in {"readHeader", "readBody"}, o.res = "ok"
                   PROVE  at[1] = After(t, <<Expected(d), Part(o.kind)>>)
        OBVIOUS
      <4>1. at[1] = After(s, <<Expected(d), Part(o.kind)>>)
        BY <3>1 DEF ReadsBy
      <4>2. Expected(d) \in 1 .. Len(s)
        BY <3>4
      <4> QED
        BY <1>5, <4>1, <4>2
    <3> QED
      BY <3>2, <3>3, <3>5, <3>6 DEF ReadsBy
  <2> QED
    BY <1>1, <2>1, <2>3, <2>4 DEF Reads
<1> QED
  BY <1>1, <1>6, <1>7 DEF Stream, t

\* or of the end that reads.
LEMMA ReaderSteps ==
    ASSUME NEW c \in Shape, Sound(c), NEW b, NEW d, NEW w, Stream(w, c, b),
           \A s \in Seq(Message) : \A at : Reads(b, s, at) => Reads(d, s, at)
    PROVE  Stream(w, c, d)
BY DEF Stream, Sound, Proper

\* What has been written lies at the end of the road.
LEMMA WrittenOnTheRoad ==
    ASSUME NEW c \in Shape, NEW d \in Shape, NEW w \in Seq({"header", "body"} \X Thing),
           Stream(w, c, d), Sound(c), NEW o \in Outs(c), o.res = "pending", NEW b \in Shape,
           \A p \in Outs(b) : p.kind = o.kind /\ p.res = "ok",
           b.accepted = c.accepted, b.m_tx_data = c.m_tx_data, b.tx_msg_buf = c.tx_msg_buf
    PROVE  Stream(Append(w, <<Part(o.kind), o.msg>>), b, d)
<1> DEFINE s == c.accepted
           n == Len(w)
           v == Append(w, <<Part(o.kind), o.msg>>)
           last == <<Current(c), Part(o.kind)>>
           next == After(s, last)
<1>1. PICK at \in Seq(Place) : Road(w, s, at) /\ Writes(c, at[Len(at)]) /\ Reads(d, s, at[1])
  BY DEF Stream
<1>2. Len(at) = n + 1 /\ n \in Nat /\ at[n + 1] = last
  <2>1. Len(at) = n + 1 /\ n \in Nat
    BY <1>1 DEF Road
  <2>2. at[Len(at)] = last
    BY <1>1 DEF Writes
  <2> QED
    BY <2>1, <2>2
<1>3. /\ Current(c) \in 1 .. Len(s) /\ s[Current(c)] = o.msg /\ c.tx_msg_buf # None
  <2>1. Current(c) \in 0 .. Len(s) /\ c.tx_msg_buf # None /\ Current(c) > 0
    BY DEF Sound, Queued, Lined
  <2>2. s[Current(c)] = o.msg
    BY DEF Sound, Queued
  <2> QED
    BY <2>1, <2>2
<1>4. last \in Place /\ next \in Place
  <2>1. Current(c) \in Nat /\ Current(c) + 1 \in Nat /\ Part(o.kind) \in {"header", "body"}
    BY <1>3 DEF Part
  <2> QED
    BY <2>1 DEF Place, After
<1>5. /\ v \in Seq({"header", "body"} \X Thing) /\ Len(v) = n + 1 /\ v[n + 1] = <<Part(o.kind), o.msg>>
      /\ \A i \in 1 .. n : v[i] = w[i]
  <2>1. <<Part(o.kind), o.msg>> \in {"header", "body"} \X Thing
    BY DEF Part, Outs, Shape, AnyOp
  <2> QED
    BY <2>1
<1> DEFINE to == Append(at, next)
<1>6. /\ to \in Seq(Place) /\ Len(to) = n + 2 /\ to[n + 2] = next
      /\ \A i \in 1 .. n + 1 : to[i] = at[i]
  BY <1>2, <1>4
<1> HIDE DEF to, v, next, last, n, s
<1>7. Road(v, s, to)
  <2>1. ASSUME NEW i \in 1 .. n + 1
        PROVE  to[i][1] \in 1 .. Len(s) /\ v[i] = <<to[i][2], s[to[i][1]]>> /\ to[i + 1] = After(s, to[i])
    <3>1. CASE i = n + 1
      <4>1. to[i] = last /\ to[i + 1] = next
        BY <1>2, <1>6, <3>1
      <4>2. last[1] = Current(c) /\ last[2] = Part(o.kind) /\ next = After(s, last)
        BY DEF last, next
      <4> QED
        BY <1>3, <1>5, <3>1, <4>1, <4>2
    <3>2. CASE i # n + 1
      <4>1. i \in 1 .. n /\ i + 1 \in 1 .. n + 1 /\ i \in 1 .. n + 1
        BY <1>2, <3>2
      <4>2. at[i][1] \in 1 .. Len(s) /\ w[i] = <<at[i][2], s[at[i][1]]>> /\ at[i + 1] = After(s, at[i])
        BY <1>1, <4>1 DEF Road, n
      <4> QED
        BY <1>5, <1>6, <4>1, <4>2
    <3> QED
      BY <3>1, <3>2
  <2>2. Len(to) = Len(v) + 1
    BY <1>2, <1>5, <1>6
  <2> QED
    BY <1>5, <1>6, <2>1, <2>2 DEF Road
<1>8. Writes(b, to[Len(to)])
  <2>1. Current(b) = Current(c) /\ b.accepted = s /\ b.tx_msg_buf # None
    BY <1>3 DEF Current, s
  <2>2. to[Len(to)] = After(s, <<Current(c), Part(o.kind)>>)
    BY <1>6 DEF next, last
  <2> QED
    BY <2>1, <2>2 DEF Writes
<1>9. Reads(d, s, to[1])
  <2>1. 1 \in 1 .. n + 1
    BY <1>2
  <2>2. to[1] = at[1]
    BY <1>6, <2>1
  <2> QED
    BY <1>1, <2>2
<1> QED
  BY <1>6, <1>7, <1>8, <1>9 DEF Stream, s, v

\* What is read lies at the beginning of the road, where the reader expects it.
LEMMA ReadOnTheRoad ==
    ASSUME NEW c \in Shape, NEW d \in Shape, NEW w \in Seq({"header", "body"} \X Thing), w # <<>>,
           Stream(w, c, d), Sound(c), NEW o \in Ins(d), o.res = "pending",
           o.kind \in {"readHeader", "readBody"}, d.state # "none"
    PROVE  /\ Head(w)[1] = Part(o.kind) /\ Head(w)[2] \in Message
           /\ \A b \in Shape : \A p :
                 (/\ b.got = d.got /\ b.state = d.state /\ Ins(b) \subseteq {p}
                  /\ p.kind = o.kind /\ p.res = "ok" /\ p.msg = Head(w)[2])
                   => Stream(Tail(w), c, b)
<1> DEFINE s == c.accepted
           n == Len(w)
           v == Tail(w)
<1>1. PICK at \in Seq(Place) : Road(w, s, at) /\ Writes(c, at[Len(at)]) /\ Reads(d, s, at[1])
  BY DEF Stream
<1>2. /\ n \in Nat /\ n > 0 /\ Head(w) = w[1] /\ Len(v) = n - 1 /\ Len(at) = n + 1
      /\ \A i \in 1 .. n - 1 : v[i] = w[i + 1]
  BY <1>1 DEF Road
<1>3. at[1] = <<Expected(d), Part(o.kind)>>
  BY <1>1 DEF Reads, ReadsBy
<1>4. Expected(d) \in 1 .. Len(s) /\ w[1] = <<Part(o.kind), s[Expected(d)]>> /\ at[2] = After(s, at[1])
  <2>1. 1 \in 1 .. Len(w) /\ 1 + 1 = 2
    BY <1>2
  <2>2. at[1][1] \in 1 .. Len(s) /\ w[1] = <<at[1][2], s[at[1][1]]>> /\ at[1 + 1] = After(s, at[1])
    BY <1>1, <2>1 DEF Road
  <2> QED
    BY <1>3, <2>1, <2>2
<1>5. s \in Seq(Message)
  BY DEF Sound, Proper
<1>6. Head(w)[1] = Part(o.kind) /\ Head(w)[2] = s[Expected(d)] /\ s[Expected(d)] \in Message
  BY <1>2, <1>4, <1>5
<1> DEFINE to == Tail(at)
<1>7. to \in Seq(Place) /\ Len(to) = n /\ \A i \in 1 .. n : to[i] = at[i + 1]
  BY <1>2
<1> HIDE DEF to, v, n, s
<1>8. Road(v, s, to)
  <2>1. ASSUME NEW i \in 1 .. n - 1
        PROVE  to[i][1] \in 1 .. Len(s) /\ v[i] = <<to[i][2], s[to[i][1]]>> /\ to[i + 1] = After(s, to[i])
    <3>1. i \in 1 .. n /\ i + 1 \in 1 .. n
      BY <1>2
    <3>2. to[i] = at[i + 1] /\ to[i + 1] = at[(i + 1) + 1] /\ v[i] = w[i + 1]
      BY <1>2, <1>7, <3>1
    <3>3. /\ at[i + 1][1] \in 1 .. Len(s) /\ w[i + 1] = <<at[i + 1][2], s[at[i + 1][1]]>>
          /\ at[(i + 1) + 1] = After(s, at[i + 1])
      BY <1>1, <3>1 DEF Road, n
    <3> QED
      BY <3>2, <3>3
  <2>2. Len(to) = Len(v) + 1
    BY <1>2, <1>7
  <2>3. Len(v) = n - 1
    BY <1>2
  <2> QED
    BY <1>7, <2>1, <2>2, <2>3 DEF Road
<1>9. to[Len(to)] = at[Len(at)] /\ to[1] = at[2]
  BY <1>2, <1>7
<1>10. ASSUME NEW b \in Shape, NEW p, b.got = d.got, b.state = d.state, Ins(b) \subseteq {p},
              p.kind = o.kind, p.res = "ok", p.msg = Head(w)[2]
       PROVE  Stream(v, c, b)
  <2>1. Expected(b) = Expected(d)
    BY <1>10 DEF Expected
  <2>2. Expected(d) <= Len(s)
    BY <1>4
  <2>3. to[1] = After(s, <<Expected(d), Part(p.kind)>>)
    BY <1>3, <1>4, <1>9, <1>10
  <2>4. ReadsBy(b, p, s, to[1])
    BY <1>6, <1>10, <2>1, <2>2, <2>3 DEF ReadsBy
  <2>5. Reads(b, s, to[1])
    BY <1>1, <1>10, <2>4 DEF Reads
  <2> QED
    BY <1>1, <1>7, <1>8, <1>9, <2>5 DEF Stream, s
<1>11. \A b \in Shape : \A p :
          (/\ b.got = d.got /\ b.state = d.state /\ Ins(b) \subseteq {p}
           /\ p.kind = o.kind /\ p.res = "ok" /\ p.msg = Head(w)[2])
            => Stream(v, c, b)
  BY <1>10
<1> QED
  BY <1>6, <1>11 DEF v

\* The kernel is done with an operation that writes,
LEMMA CompletedWrite ==
    ASSUME NEW c \in Shape, Sound(c), c.state # "none", NEW o \in Outs(c), NEW res \in {"ok", "error"}
    PROVE  LET d == [c EXCEPT !.ops = (@ \ {o}) \cup {[o EXCEPT !.res = res, !.msg = o.msg]}]
           IN  /\ d \in Shape /\ Sound(d) /\ d.state = c.state
               /\ d.accepted = c.accepted /\ d.m_tx_data = c.m_tx_data /\ d.tx_msg_buf = c.tx_msg_buf
               /\ \A p \in Outs(d) : p.kind = o.kind /\ p.res = res
               /\ \A s \in Seq(Message) : \A at : Reads(c, s, at) => Reads(d, s, at)
               /\ res = "error" => Keeps(c, d)
<1> DEFINE n == [o EXCEPT !.res = res, !.msg = o.msg]
           d == [c EXCEPT !.ops = (@ \ {o}) \cup {n}]
<1>1. o \in AnyOp /\ o \in c.ops /\ o.kind \in Outgoing
  BY DEF Outs, Shape
<1>2. n \in AnyOp /\ n.kind = o.kind /\ n.res = res /\ n.msg = o.msg
  BY <1>1 DEF AnyOp
<1>3. (c.ops \ {o}) \cup {n} \in SUBSET AnyOp
  BY <1>2 DEF Shape
<1>4. d \in Shape
  BY <1>3, UpdateTyped
<1>5. /\ d.ops = (c.ops \ {o}) \cup {n} /\ d.accepted = c.accepted /\ d.m_tx_data = c.m_tx_data
      /\ d.tx_msg_buf = c.tx_msg_buf /\ d.posted = c.posted /\ d.got = c.got /\ d.state = c.state
  BY DEF Shape
<1> HIDE DEF d, n
<1>6. Outs(d) = {n} /\ Ins(d) = Ins(c)
  <2>1. \A p \in Outs(c) : p = o
    BY DEF Sound, Queued
  <2> QED
    BY <1>1, <1>2, <1>5, <2>1 DEF Outs, Ins, Incoming, Outgoing
<1>7. Sound(d)
  <2>1. Proper(d)
    BY <1>1, <1>2, <1>5 DEF Sound, Proper
  <2>2. Current(d) = Current(c)
    BY <1>5 DEF Current
  <2>3. c.tx_msg_buf # None /\ n.msg = c.tx_msg_buf
    BY <1>2 DEF Sound, Queued
  <2>4. Queued(d)
    BY <1>5, <1>6, <2>2, <2>3 DEF Sound, Queued, Lined
  <2> QED
    BY <2>1, <2>4 DEF Sound
<1>8. \A s \in Seq(Message) : \A at : Reads(c, s, at) => Reads(d, s, at)
  BY <1>4, <1>5, <1>6, ReadingKept
<1>9. ASSUME res = "error" PROVE Keeps(c, d)
  <2>1. c.tx_msg_buf # None
    BY DEF Sound, Queued
  <2>2. \A at : Writes(d, at)
    BY <1>2, <1>5, <1>6, <1>9, <2>1 DEF Writes
  <2> QED
    BY <1>5, <1>7, <1>8, <2>2 DEF Keeps
<1>10. \A p \in Outs(d) : p.kind = o.kind /\ p.res = res
  BY <1>2, <1>6
<1> QED
  BY <1>4, <1>5, <1>7, <1>8, <1>9, <1>10 DEF d, n

\* or with one that comes in: nothing is new if it opens or fails.
LEMMA CompletedRead ==
    ASSUME NEW c \in Shape, Sound(c), OneIncoming(c), c.state # "none", NEW o \in Ins(c),
           o.res = "pending", NEW res \in {"ok", "error"}, NEW msg \in Message \cup {None}
    PROVE  LET n == [o EXCEPT !.res = res, !.msg = msg]
               d == [c EXCEPT !.ops = (@ \ {o}) \cup {n}]
           IN  /\ d \in Shape /\ Sound(d) /\ d.state = c.state /\ d.got = c.got
               /\ d.accepted = c.accepted
               /\ Ins(d) \subseteq {n} /\ n.kind = o.kind /\ n.res = res /\ n.msg = msg
               /\ \A at : Writes(c, at) => Writes(d, at)
               /\ o.kind \in {"connect", "handshake"} \/ (res = "error" /\ msg = o.msg) => Keeps(c, d)
<1> DEFINE n == [o EXCEPT !.res = res, !.msg = msg]
           d == [c EXCEPT !.ops = (@ \ {o}) \cup {n}]
<1>1. o \in AnyOp /\ o \in c.ops /\ o.kind \in Incoming
  BY DEF Ins, Shape
<1>2. n \in AnyOp /\ n.kind = o.kind /\ n.res = res /\ n.msg = msg
  BY <1>1 DEF AnyOp, Thing
<1>3. (c.ops \ {o}) \cup {n} \in SUBSET AnyOp
  BY <1>2 DEF Shape
<1>4. d \in Shape
  BY <1>3, UpdateTyped
<1>5. /\ d.ops = (c.ops \ {o}) \cup {n} /\ d.accepted = c.accepted /\ d.m_tx_data = c.m_tx_data
      /\ d.tx_msg_buf = c.tx_msg_buf /\ d.posted = c.posted /\ d.got = c.got /\ d.state = c.state
  BY DEF Shape
<1> HIDE DEF d, n
<1>6. Ins(d) \subseteq {n} /\ Outs(d) = Outs(c)
  BY <1>1, <1>2, <1>5 DEF OneIncoming, Outs, Ins, Incoming, Outgoing
<1>7. Queued(d) /\ \A at : Writes(c, at) => Writes(d, at)
  BY <1>4, <1>5, <1>6, WritingKept
<1>8. Sound(d)
  BY <1>2, <1>5, <1>7 DEF Sound, Proper
<1>9. ASSUME o.kind \in {"connect", "handshake"} \/ (res = "error" /\ msg = o.msg) PROVE Keeps(c, d)
  <2>1. Expected(d) = Expected(c)
    BY <1>5 DEF Expected
  <2>2. ASSUME NEW s \in Seq(Message), NEW at, ReadsBy(c, o, s, at) PROVE ReadsBy(d, n, s, at)
    <3>1. CASE o.kind \in {"connect", "handshake"}
      BY <1>2, <1>5, <2>2, <3>1 DEF ReadsBy
    <3>2. CASE res = "error" /\ msg = o.msg
      BY <1>2, <1>5, <2>1, <2>2, <3>2 DEF ReadsBy
    <3> QED
      BY <1>9, <3>1, <3>2
  <2> QED
    BY <1>1, <1>2, <1>4, <1>5, <2>2, IncomingKeeps
<1> QED
  BY <1>2, <1>4, <1>5, <1>6, <1>7, <1>8, <1>9 DEF d, n

\* An end begins with nothing on its way.
LEMMA FreshSound == Sound(NoObject) /\ \A w : Road(w, <<>>, <<First>>) => Stream(w, NoObject, NoObject)
<1>1. /\ NoObject.accepted = <<>> /\ NoObject.m_tx_data = <<>> /\ NoObject.tx_msg_buf = None
      /\ NoObject.posted = <<>> /\ NoObject.got = <<>> /\ NoObject.ops = {}
  BY DEF NoObject
<1>2. Outs(NoObject) = {} /\ Ins(NoObject) = {} /\ Current(NoObject) = 0
  BY <1>1 DEF Outs, Ins, Current
<1>3. Sound(NoObject)
  BY <1>1, <1>2 DEF Sound, Proper, Queued, Lined
<1>4. Writes(NoObject, First) /\ Reads(NoObject, <<>>, First)
  BY <1>1, <1>2 DEF Writes, Reads, First
<1>5. <<First>> \in Seq(Place) /\ <<First>>[1] = First /\ Len(<<First>>) = 1
  BY DEF First, Place
<1> QED
  BY <1>1, <1>3, <1>4, <1>5 DEF Stream

LEMMA BeginKeeps ==
    ASSUME secure \in BOOLEAN
    PROVE  /\ Keeps(NoObject, Start([NoObject EXCEPT !.state = "connecting", !.open = TRUE], "connect", None))
           /\ Keeps(NoObject, ToClient(NoObject))
<1> DEFINE f == [NoObject EXCEPT !.state = "connecting", !.open = TRUE]
           g == [NoObject EXCEPT !.state = "connecting", !.open = TRUE, !.has_cb = TRUE]
<1>0. {"connect", "handshake", "readHeader"} \subseteq Kinds /\ {"connect", "handshake", "readHeader"} \subseteq Incoming
      /\ None \in Thing
  BY DEF Kinds, Incoming, Thing
<1>1. f \in Shape /\ g \in Shape /\ NoObject \in Shape
  BY FreshGood, <1>0 DEF Shape
<1>2. \A x \in {f, g} : /\ x.ops = {} /\ x.state = "connecting" /\ x.accepted = <<>> /\ x.m_tx_data = <<>>
                        /\ x.tx_msg_buf = None /\ x.posted = <<>> /\ x.got = <<>>
  BY DEF NoObject
<1>3. ToClient(NoObject) = IF secure THEN Start(g, "handshake", None) ELSE Start(g, "readHeader", None)
  BY DEF ToClient, ReadHeader
<1> HIDE DEF f, g
<1>4. ASSUME NEW x \in {f, g}, NEW kind \in {"connect", "handshake", "readHeader"}
      PROVE  Keeps(NoObject, Start(x, kind, None))
  <2> DEFINE d == Start(x, kind, None)
             n == [kind |-> kind, msg |-> None, res |-> "pending"]
  <2>1. d \in Shape
    BY <1>0, <1>1, StartTyped
  <2>2. /\ d.ops = {n} /\ d.state = "connecting" /\ d.accepted = <<>> /\ d.m_tx_data = <<>>
        /\ d.tx_msg_buf = None /\ d.posted = <<>> /\ d.got = <<>>
    BY <1>1, <1>2 DEF Start, Shape
  <2>3. n.kind = kind /\ n.msg = None /\ n.res = "pending" /\ kind \in Incoming /\ kind \notin Outgoing
    BY DEF Incoming, Outgoing
  <2> HIDE DEF d, n
  <2>4. Ins(d) = {n} /\ Outs(d) = {}
    BY <2>2, <2>3 DEF Ins, Outs
  <2>5. NoObject.accepted = <<>> /\ NoObject.m_tx_data = <<>> /\ NoObject.tx_msg_buf = None /\ NoObject.state = "none"
        /\ Outs(NoObject) = {} /\ NoObject.posted = <<>>
    BY DEF NoObject, Outs
  <2>6. Proper(d)
    BY <2>2, <2>3 DEF Proper
  <2>7. Queued(d) /\ \A at : Writes(NoObject, at) => Writes(d, at)
    <3>1. Outs(d) \subseteq Outs(NoObject)
      BY <2>4
    <3> QED
      BY <1>1, <2>1, <2>2, <2>5, <3>1, FreshSound, WritingKept
  <2>8. ASSUME NEW s \in Seq(Message), NEW at, Reads(NoObject, s, at) PROVE Reads(d, s, at)
    <3>1. at = First
      BY <2>5, <2>8 DEF Reads
    <3>2. Expected(d) = 1
      BY <2>2 DEF Expected
    <3>3. ReadsBy(d, n, s, at)
      BY <2>2, <2>3, <3>1, <3>2 DEF ReadsBy, First, Part
    <3> QED
      BY <2>2, <2>4, <3>3 DEF Reads
  <2> QED
    BY <2>2, <2>5, <2>6, <2>7, <2>8 DEF Keeps, Sound, d
<1> QED
  BY <1>3, <1>4 DEF f

-----------------------------------------------------------------------------
(* Accepted ends without TLS.                                              *)

\* Nothing makes it connected, so that nothing is accepted.
Mute(c) ==
    /\ c.state # "connected" /\ c.accepted = <<>> /\ c.posted \in Seq({"disconnect"})
    /\ \A o \in c.ops : o.kind # "connect"

\* The end b stays as it is, as far as its application can see, or it closes.
Outcome(b, d) ==
    /\ d.has_cb = b.has_cb
    /\ \/ d.state = b.state /\ d.notified = b.notified
       \/ /\ b.state # "disconnected" /\ d.state = "disconnected"
          /\ d.notified = IF b.has_cb THEN b.notified + 1 ELSE b.notified
    /\ \A p \in d.ops : p \in b.ops \/ p.kind # "connect"

\* So it is with the handlers of what is read and written, which leave the
\* posted functions alone.
LEMMA HandlerFields ==
    ASSUME NEW b \in Shape, NEW o \in AnyOp, o.kind \notin {"connect", "handshake"},
           NEW d \in {Succeeded(b, o), Failed(b, o)}
    PROVE  Outcome(b, d) /\ d.accepted = b.accepted /\ d.posted = b.posted
<1> DEFINE Fits(x) == Outcome(b, x) /\ x.accepted = b.accepted /\ x.posted = b.posted
<1>1. Fits(b)
  BY DEF Outcome
<1>2. ASSUME NEW x \in Shape, Fits(x), NEW kind, NEW msg, kind # "connect" PROVE Fits(Start(x, kind, msg))
  <2> DEFINE n == [kind |-> kind, msg |-> msg, res |-> "pending"]
             y == Start(x, kind, msg)
  <2>1. /\ y.ops = x.ops \cup {n} /\ y.state = x.state /\ y.accepted = x.accepted /\ y.posted = x.posted
        /\ y.has_cb = x.has_cb /\ y.notified = x.notified
    BY DEF Start, Shape
  <2>2. n.kind = kind
    OBVIOUS
  <2> HIDE DEF y, n
  <2>3. Fits(y)
    BY <1>2, <2>1, <2>2 DEF Outcome
  <2> QED
    BY <2>3 DEF y
<1>3. Fits(Close(b))
  <2>1. CASE b.state = "disconnected"
    BY <2>1 DEF Close, Outcome
  <2>2. CASE b.state # "disconnected"
    BY <2>2 DEF Close, Shape, Outcome
  <2> QED
    BY <2>1, <2>2
<1>4. Fits(WriteNext(b))
  <2>1. CASE b.m_tx_data = <<>>
    BY <2>1 DEF WriteNext, Shape, Outcome
  <2>2. CASE b.m_tx_data # <<>>
    <3> DEFINE x == [b EXCEPT !.m_tx_data = Tail(@), !.tx_msg_buf = Head(b.m_tx_data)]
    <3>1. b.m_tx_data \in Seq(Thing)
      BY DEF Shape
    <3>2. Tail(b.m_tx_data) \in Seq(Thing) /\ Head(b.m_tx_data) \in Thing
      BY <2>2, <3>1
    <3>3. /\ x \in Shape /\ x.ops = b.ops /\ x.state = b.state /\ x.accepted = b.accepted /\ x.posted = b.posted
          /\ x.has_cb = b.has_cb /\ x.notified = b.notified
      BY <3>2 DEF Shape
    <3>4. WriteNext(b) = Start(x, "writeHeader", Head(b.m_tx_data))
      BY <2>2 DEF WriteNext, WriteHeader
    <3> HIDE DEF x
    <3>5. Fits(x)
      BY <3>3 DEF Outcome
    <3> HIDE DEF Fits
    <3> QED
      BY <1>2, <3>3, <3>4, <3>5
  <2> QED
    BY <2>1, <2>2
<1>5. Fits(Deliver(b, o.msg))
  <2> DEFINE l == IF b.notified > 0 THEN b.late + 1 ELSE b.late
             f == [b EXCEPT !.got = Append(b.got, o.msg)]
             x == [b EXCEPT !.got = Append(@, o.msg), !.late = IF b.notified > 0 THEN @ + 1 ELSE @]
  <2>1. Append(b.got, o.msg) \in Seq(Thing) /\ l \in Nat
    BY DEF Shape, AnyOp
  <2>2. f \in Shape
    BY <2>1, UpdateTyped
  <2>3. x = [f EXCEPT !.late = l]
    BY DEF Shape
  <2>4. x \in Shape
    BY <2>1, <2>2, <2>3, UpdateTyped
  <2>5. /\ x.ops = b.ops /\ x.state = b.state /\ x.accepted = b.accepted /\ x.posted = b.posted
        /\ x.has_cb = b.has_cb /\ x.notified = b.notified
    BY DEF Shape
  <2>6. Deliver(b, o.msg) = Start(x, "readHeader", None)
    BY DEF Deliver, ReadHeader
  <2> HIDE DEF x
  <2>7. Fits(x)
    BY <2>5 DEF Outcome
  <2> HIDE DEF Fits
  <2> QED
    BY <1>2, <2>4, <2>6, <2>7
<1>6. Fits(Start(b, "readBody", o.msg)) /\ Fits(Start(b, "writeBody", o.msg))
  <2> HIDE DEF Fits
  <2> QED
    BY <1>1, <1>2
<1> HIDE DEF Fits
<1>7. Fits(Failed(b, o))
  BY <1>3 DEF Failed
<1>8. Fits(Succeeded(b, o))
  <2>1. CASE o.kind = "readHeader"
    <3>1. Succeeded(b, o) = Received(b, o.msg)
      BY <2>1 DEF Succeeded
    <3> QED
      BY <1>5, <1>6, <3>1 DEF Received
  <2>2. CASE o.kind = "readBody"
    <3>1. Succeeded(b, o) = Deliver(b, o.msg)
      BY <2>2 DEF Succeeded
    <3> QED
      BY <1>5, <3>1
  <2>3. CASE o.kind = "writeHeader"
    <3>1. Succeeded(b, o) = IF o.msg \in WithBody THEN Start(b, "writeBody", o.msg) ELSE WriteNext(b)
      BY <2>3 DEF Succeeded
    <3> QED
      BY <1>4, <1>6, <3>1
  <2>4. CASE o.kind = "writeBody"
    <3>1. Succeeded(b, o) = WriteNext(b)
      BY <2>4 DEF Succeeded
    <3> QED
      BY <1>4, <3>1
  <2> QED
    BY <2>1, <2>2, <2>3, <2>4 DEF AnyOp, Kinds
<1> QED
  BY <1>7, <1>8 DEF Fits

-----------------------------------------------------------------------------
(* All links.                                                              *)

Linked ==
    /\ \A e \in End : Sound(conn[e]) /\ (conn[e].state = "none" => conn[e] = NoObject)
    /\ \A e \in End : Stream(wire[e], conn[e], conn[Peer[e]])
Muted == ~secure => \A e \in Server : Mute(conn[e])
Coupled == link \in [Client -> {"none", "up", "broken", "silent"}] /\ secure \in Secure

LinkInv == CallbackInv /\ Linked /\ Muted /\ Coupled

\* Ends move, and the wire is left alone.
LEMMA ObjectsMove ==
    ASSUME CallbackInv, Linked, conn' \in [End -> Shape], wire' = wire,
           \A x \in End : conn'[x] = conn[x] \/ Keeps(conn[x], conn'[x])
    PROVE  Linked'
<1>1. \A x \in End : Sound(conn'[x]) /\ (conn'[x].state = "none" => conn'[x] = NoObject)
  BY DEF Linked, Keeps
<1>2. ASSUME NEW x \in End PROVE Stream(wire[x], conn'[x], conn'[Peer[x]])
  <2>0. /\ Peer[x] \in End /\ conn[x] \in Shape /\ conn'[x] \in Shape /\ conn[Peer[x]] \in Shape
        /\ conn'[Peer[x]] \in Shape /\ Sound(conn[x]) /\ Stream(wire[x], conn[x], conn[Peer[x]])
    BY ConnectionAssumption DEF CallbackInv, Typed, Linked
  <2>1. Stream(wire[x], conn'[x], conn[Peer[x]])
    <3>1. CASE conn'[x] = conn[x]
      BY <2>0, <3>1
    <3>2. CASE Keeps(conn[x], conn'[x])
      BY <2>0, <3>2, WriterSteps DEF Keeps
    <3> QED
      BY <3>1, <3>2
  <2>2. CASE conn'[Peer[x]] = conn[Peer[x]]
    BY <2>1, <2>2
  <2>3. CASE Keeps(conn[Peer[x]], conn'[Peer[x]])
    BY <1>1, <2>0, <2>1, <2>3, ReaderSteps DEF Keeps
  <2> QED
    BY <2>0, <2>2, <2>3
<1>3. Linked' <=> /\ \A x \in End : Sound(conn'[x]) /\ (conn'[x].state = "none" => conn'[x] = NoObject)
                  /\ \A x \in End : Stream(wire'[x], conn'[x], conn'[Peer[x]])
  BY DEF Linked
<1> QED
  BY <1>1, <1>2, <1>3

LEMMA StepLinked ==
    ASSUME CallbackInv, Linked, wire' = wire, NEW e \in End, NEW d \in Shape, Step(e, d),
           Keeps(conn[e], d)
    PROVE  Linked'
<1>1. conn \in [End -> Shape]
  BY DEF CallbackInv, Typed
<1>2. conn' \in [End -> Shape] /\ \A x \in End : conn'[x] = IF x = e THEN d ELSE conn[x]
  BY <1>1 DEF Step
<1> QED
  BY <1>2, ObjectsMove

LEMMA StepMuted ==
    ASSUME CallbackInv, Muted, secure' = secure, NEW e \in End, NEW d \in Shape, Step(e, d),
           ~secure /\ e \in Server => Mute(d)
    PROVE  Muted'
<1>1. conn \in [End -> Shape]
  BY DEF CallbackInv, Typed
<1>2. \A x \in End : conn'[x] = IF x = e THEN d ELSE conn[x]
  BY <1>1 DEF Step
<1>3. secure' = secure /\ Server \subseteq End
  BY DEF End
<1>4. ~secure => \A x \in Server : Mute(conn'[x])
  BY <1>2, <1>3 DEF Muted
<1>5. Muted' <=> (~secure' => \A x \in Server : Mute(conn'[x]))
  BY DEF Muted
<1> QED
  BY <1>3, <1>4, <1>5

\* A function is posted.
LEMMA PostedKeeps ==
    ASSUME NEW c \in Shape, Sound(c), c.state # "none", NEW x \in Message \cup {"disconnect"}
    PROVE  LET d == [c EXCEPT !.posted = Append(@, x)]
           IN  d \in Shape /\ Keeps(c, d) /\ (Mute(c) /\ x = "disconnect" => Mute(d))
<1> DEFINE d == [c EXCEPT !.posted = Append(@, x)]
<1>1. c.posted \in Seq(Message \cup {"disconnect"}) /\ c.posted \in Seq(Thing) /\ x \in Thing
  BY DEF Sound, Proper, Shape, Thing
<1>2. Append(c.posted, x) \in Seq(Message \cup {"disconnect"}) /\ Append(c.posted, x) \in Seq(Thing)
  BY <1>1
<1>3. d \in Shape
  BY <1>2, UpdateTyped
<1>4. /\ d.ops = c.ops /\ d.accepted = c.accepted /\ d.m_tx_data = c.m_tx_data
      /\ d.tx_msg_buf = c.tx_msg_buf /\ d.posted = Append(c.posted, x) /\ d.got = c.got /\ d.state = c.state
  BY DEF Shape
<1> HIDE DEF d
<1>5. Keeps(c, d)
  BY <1>2, <1>3, <1>4, DroppedKeeps
<1>6. ASSUME Mute(c), x = "disconnect" PROVE Mute(d)
  <2>1. Append(c.posted, x) \in Seq({"disconnect"})
    BY <1>6 DEF Mute
  <2> QED
    BY <1>4, <1>6, <2>1 DEF Mute
<1> QED
  BY <1>3, <1>5, <1>6 DEF d

\* An end that closes disturbs nothing.
LEMMA CloseKeeps ==
    ASSUME NEW c \in Shape, Sound(c), c.state # "none"
    PROVE  Close(c) \in Shape /\ Keeps(c, Close(c)) /\ (Mute(c) => Mute(Close(c))) /\ Outcome(c, Close(c))
<1> DEFINE d == Close(c)
<1>1. d \in Shape
  BY PiecesTyped DEF Thing
<1>2. /\ d.ops = c.ops /\ d.accepted = c.accepted /\ d.m_tx_data = c.m_tx_data
      /\ d.tx_msg_buf = c.tx_msg_buf /\ d.posted = c.posted /\ d.got = c.got
      /\ d.state = "disconnected"
  <2>1. CASE c.state = "disconnected"
    BY <2>1 DEF Close
  <2>2. CASE c.state # "disconnected"
    BY <2>2 DEF Close, Shape
  <2> QED
    BY <2>1, <2>2
<1> HIDE DEF d
<1>3. Keeps(c, d)
  BY <1>1, <1>2, DroppedKeeps DEF Sound, Proper
<1>4. Mute(c) => Mute(d)
  BY <1>2 DEF Mute
<1>5. Outcome(c, d)
  <2>1. CASE c.state = "disconnected"
    BY <2>1 DEF Close, Outcome, d
  <2>2. CASE c.state # "disconnected"
    BY <2>2 DEF Close, Shape, Outcome, d
  <2> QED
    BY <2>1, <2>2
<1> QED
  BY <1>1, <1>3, <1>4, <1>5 DEF d

LEMMA PushFields ==
    ASSUME NEW c \in Shape, NEW msg \in Thing
    PROVE  Outcome(c, Push(c, msg))
<1> DEFINE e == [c EXCEPT !.m_tx_data = Append(@, msg), !.accepted = Append(@, msg)]
           f == [e EXCEPT !.m_tx_data = Tail(@), !.tx_msg_buf = Head(e.m_tx_data)]
           n == [kind |-> "writeHeader", msg |-> Head(e.m_tx_data), res |-> "pending"]
           d == [f EXCEPT !.ops = @ \cup {n}]
<1>1. /\ e.ops = c.ops /\ e.state = c.state /\ e.has_cb = c.has_cb /\ e.notified = c.notified
      /\ d.ops = c.ops \cup {n} /\ d.state = c.state /\ d.has_cb = c.has_cb /\ d.notified = c.notified
  BY DEF Shape
<1>2. Push(c, msg) \in {d, e}
  BY DEF Push, WriteHeader, Start
<1>3. n.kind = "writeHeader"
  OBVIOUS
<1> HIDE DEF n, d, e
<1> QED
  BY <1>1, <1>2, <1>3 DEF Outcome

\* The function posted first is run.
LEMMA PostedRuns ==
    ASSUME NEW c \in Shape, Sound(c), c.state # "none", c.posted # <<>>
    PROVE  LET f == Head(c.posted)
               b == [c EXCEPT !.posted = Tail(@)]
               d == IF f = "disconnect" THEN Close(b) ELSE Push(b, f)
           IN  d \in Shape /\ Keeps(c, d) /\ (Mute(c) => Mute(d)) /\ Outcome(c, d)
<1> DEFINE f == Head(c.posted)
           b == [c EXCEPT !.posted = Tail(@)]
           d == IF f = "disconnect" THEN Close(b) ELSE Push(b, f)
<1>1. c.posted \in Seq(Message \cup {"disconnect"}) /\ c.posted \in Seq(Thing)
  BY DEF Sound, Proper, Shape
<1>2. /\ f \in Message \cup {"disconnect"} /\ Tail(c.posted) \in Seq(Message \cup {"disconnect"})
      /\ Tail(c.posted) \in Seq(Thing)
  BY <1>1
<1>3. b \in Shape
  BY <1>2, UpdateTyped
<1>4. /\ b.ops = c.ops /\ b.accepted = c.accepted /\ b.m_tx_data = c.m_tx_data
      /\ b.tx_msg_buf = c.tx_msg_buf /\ b.posted = Tail(c.posted) /\ b.got = c.got /\ b.state = c.state
      /\ b.has_cb = c.has_cb /\ b.notified = c.notified
  BY DEF Shape
<1>5. Mute(c) => Mute(b) /\ f = "disconnect"
  <2> SUFFICES ASSUME Mute(c) PROVE Mute(b) /\ f = "disconnect"
    OBVIOUS
  <2>1. c.posted \in Seq({"disconnect"})
    BY DEF Mute
  <2>2. f \in {"disconnect"} /\ Tail(c.posted) \in Seq({"disconnect"})
    BY <2>1
  <2> QED
    BY <1>4, <2>2 DEF Mute
<1> HIDE DEF b, f
<1>6. Keeps(c, b)
  BY <1>2, <1>3, <1>4, DroppedKeeps
<1>7. Sound(b) /\ b.state # "none"
  BY <1>6 DEF Keeps
<1>8. ASSUME NEW x \in Shape, Keeps(b, x) PROVE Keeps(c, x)
  BY <1>4, <1>6, <1>8 DEF Keeps
<1>11. \A x : Outcome(b, x) => Outcome(c, x)
  BY <1>4 DEF Outcome
<1>9. CASE f = "disconnect"
  <2>1. Close(b) \in Shape /\ Keeps(b, Close(b)) /\ (Mute(b) => Mute(Close(b))) /\ Outcome(b, Close(b))
    BY <1>3, <1>7, CloseKeeps
  <2> QED
    BY <1>5, <1>8, <1>9, <1>11, <2>1 DEF f, b
<1>10. CASE f # "disconnect"
  <2>1. f \in Message /\ f \in Thing
    BY <1>2, <1>10 DEF Thing
  <2>2. Push(b, f) \in Shape /\ Keeps(b, Push(b, f)) /\ Outcome(b, Push(b, f))
    BY <1>3, <1>7, <2>1, PushTyped, PushKeeps, PushFields
  <2>3. ~Mute(c)
    BY <1>5, <1>10
  <2> QED
    BY <1>8, <1>10, <1>11, <2>2, <2>3 DEF f, b
<1> QED
  BY <1>9, <1>10

LEMMA LinkEndSteps ==
    ASSUME LinkInv, secure' = secure, NEW e \in End,
           \/ e \in Client /\ ConnectToServer(e)
           \/ e \in Server /\ ConnectToClient(e)
           \/ Handlers(e) \/ RunPosted(e) \/ Disconnect(e) \/ Send(e)
    PROVE  Linked' /\ Muted'
<1> DEFINE c == conn[e]
<1>0. /\ CallbackInv /\ Linked /\ Muted
      /\ c \in Shape /\ Good(c, secure) /\ secure \in BOOLEAN
      /\ Sound(c) /\ (c.state = "none" => c = NoObject)
      /\ ~secure /\ e \in Server => Mute(c)
  BY DEF LinkInv, CallbackInv, Typed, Linked, Muted
<1>1. ASSUME NEW d \in Shape, Step(e, d), Keeps(c, d), wire' = wire, ~secure /\ e \in Server => Mute(d)
      PROVE  Linked' /\ Muted'
  BY <1>0, <1>1, StepLinked, StepMuted
<1>2. CASE e \in Client /\ ConnectToServer(e)
  <2>1. c = NoObject /\ e \notin Server /\ wire' = wire
    BY <1>0, <1>2, ConnectionAssumption DEF ConnectToServer
  <2> QED
    BY <1>0, <1>1, <1>2, <2>1, BeginGood, BeginKeeps DEF ConnectToServer
<1>3. CASE e \in Server /\ ConnectToClient(e)
  <2>1. c = NoObject /\ wire' = wire
    BY <1>0, <1>3 DEF ConnectToClient
  <2>2. ~secure => Mute(ToClient(NoObject))
    <3> DEFINE g == [NoObject EXCEPT !.state = "connecting", !.open = TRUE, !.has_cb = TRUE]
               n == [kind |-> "readHeader", msg |-> None, res |-> "pending"]
    <3>1. g.ops = {} /\ g.state = "connecting" /\ g.accepted = <<>> /\ g.posted = <<>>
      BY DEF NoObject
    <3>0. g \in Shape
      BY FreshGood DEF Shape
    <3>2. ~secure => ToClient(NoObject) = Start(g, "readHeader", None)
      BY DEF ToClient, ReadHeader
    <3> DEFINE d == Start(g, "readHeader", None)
    <3>3. d.ops = {n} /\ d.state = "connecting" /\ d.accepted = <<>> /\ d.posted = <<>>
      BY <3>0, <3>1 DEF Start, Shape
    <3>4. n.kind # "connect"
      OBVIOUS
    <3> HIDE DEF n, d
    <3>5. d.posted \in Seq({"disconnect"})
      BY <3>3
    <3>6. Mute(d)
      BY <3>3, <3>4, <3>5 DEF Mute
    <3> QED
      BY <3>2, <3>6 DEF d
  <2> QED
    BY <1>0, <1>1, <1>3, <2>1, <2>2, BeginGood, BeginKeeps DEF ConnectToClient
<1>4. CASE Handlers(e)
  <2>1. PICK o \in c.ops : Handler(e, o)
    BY <1>4 DEF Handlers
  <2> DEFINE b == [c EXCEPT !.ops = @ \ {o}]
             r == IF Success(e, o) THEN Succeeded(b, o) ELSE Failed(b, o)
  <2>2. o.res # "pending" /\ Step(e, r) /\ wire' = wire /\ (Success(e, o) => o.res = "ok")
    BY <2>1 DEF Handler, Success
  <2>3. o \in AnyOp /\ b \in Shape
    BY <1>0, ForgetGood DEF Shape
  <2>4. r \in Shape
    BY <1>0, <2>3, HandlersTyped
  <2>5. c.state # "none"
    BY <1>0, <2>1 DEF NoObject
  <2>6. Keeps(c, r)
    <3>1. /\ o.res = "ok" => Keeps(c, Succeeded(b, o))
          /\ Keeps(c, Failed(b, o))
      BY <1>0, <2>2, <2>5, HandlerKeeps
    <3> QED
      BY <2>2, <3>1
  <2>7. ASSUME ~secure, e \in Server PROVE Mute(r)
    <3>1. Mute(c)
      BY <1>0, <2>7
    <3>2. o.kind \notin {"connect", "handshake"}
      BY <1>0, <2>7, <3>1 DEF Mute, Good, BeforeOpened, Has
    <3>3. b.ops = c.ops \ {o} /\ b.state = c.state /\ b.accepted = c.accepted /\ b.posted = c.posted
      BY <1>0 DEF Shape
    <3>4. r \in {Succeeded(b, o), Failed(b, o)}
      OBVIOUS
    <3> HIDE DEF r, b
    <3>5. Outcome(b, r) /\ r.accepted = b.accepted /\ r.posted = b.posted
      BY <2>3, <3>2, <3>4, HandlerFields
    <3> QED
      BY <3>1, <3>3, <3>5 DEF Mute, Outcome
  <2> QED
    BY <1>1, <2>2, <2>4, <2>6, <2>7
<1>5. CASE RunPosted(e)
  <2> DEFINE f == Head(c.posted)
             b == [c EXCEPT !.posted = Tail(@)]
             d == IF f = "disconnect" THEN Close(b) ELSE Push(b, f)
  <2>1. c.posted # <<>> /\ Step(e, d) /\ wire' = wire
    BY <1>5 DEF RunPosted
  <2>2. c.state # "none"
    BY <1>0, <2>1 DEF NoObject
  <2>3. d \in Shape /\ Keeps(c, d) /\ (Mute(c) => Mute(d)) /\ Outcome(c, d)
    BY <1>0, <2>1, <2>2, PostedRuns
  <2> HIDE DEF d
  <2> QED
    BY <1>0, <1>1, <2>1, <2>3
<1>6. CASE Disconnect(e)
  <2> DEFINE d == [c EXCEPT !.posted = Append(@, "disconnect")]
  <2>1. c.state # "none" /\ Step(e, d) /\ wire' = wire
    BY <1>6 DEF Disconnect
  <2>2. d \in Shape /\ Keeps(c, d) /\ (Mute(c) => Mute(d))
    BY <1>0, <2>1, PostedKeeps
  <2> HIDE DEF d
  <2> QED
    BY <1>0, <1>1, <2>1, <2>2
<1>7. CASE Send(e)
  <2>1. /\ c.state # "none" /\ sends < Len(Messages[secure]) /\ sends' = sends + 1 /\ wire' = wire
        /\ Step(e, IF IsConnected(c) THEN [c EXCEPT !.posted = Append(@, Messages[secure][sends'])] ELSE c)
    BY <1>7 DEF Send
  <2>2. Messages[secure] \in Seq(Message) /\ sends \in 0 .. Len(Messages[secure])
    BY <1>0, ConnectionAssumption DEF CallbackInv, Typed
  <2>3. Messages[secure][sends'] \in Message
    BY <2>1, <2>2
  <2> DEFINE x == Messages[secure][sends']
             d == [c EXCEPT !.posted = Append(@, x)]
  <2>4. d \in Shape /\ Keeps(c, d)
    BY <1>0, <2>1, <2>3, PostedKeeps
  <2>5. IsConnected(c) => ~(~secure /\ e \in Server)
    BY <1>0 DEF IsConnected, Mute
  <2>6. CASE IsConnected(c)
    <3>1. Step(e, d)
      BY <2>1, <2>6
    <3> HIDE DEF d
    <3> QED
      BY <1>1, <2>1, <2>4, <2>5, <2>6, <3>1
  <2>7. CASE ~IsConnected(c)
    <3>1. Step(e, c)
      BY <2>1, <2>7
    <3>2. Keeps(c, c)
      BY <1>0, <2>1 DEF Keeps
    <3> QED
      BY <1>0, <1>1, <2>1, <3>1, <3>2
  <2> QED
    BY <2>6, <2>7
<1> QED
  BY <1>2, <1>3, <1>4, <1>5, <1>6, <1>7

\* Peers are paired and no end is its own.
LEMMA Pairs ==
    ASSUME NEW e \in End
    PROVE  Peer[e] \in End /\ Peer[e] # e /\ Peer[Peer[e]] = e
           /\ \A x \in End : Peer[x] = e => x = Peer[e]
BY ConnectionAssumption DEF End

LEMMA LinkKernelSteps ==
    ASSUME LinkInv, secure' = secure, NEW e \in End, Kernel(e)
    PROVE  Linked' /\ Muted' /\ link' \in [Client -> {"none", "up", "broken", "silent"}]
<1> DEFINE c == conn[e]
           q == Peer[e]
<1>0. /\ CallbackInv /\ Linked /\ Muted /\ conn \in [End -> Shape]
      /\ c \in Shape /\ Good(c, secure) /\ OneIncoming(c) /\ secure \in BOOLEAN
      /\ Sound(c) /\ (c.state = "none" => c = NoObject)
      /\ wire \in [End -> Seq({"header", "body"} \X Thing)]
      /\ link \in [Client -> {"none", "up", "broken", "silent"}]
  BY DEF LinkInv, CallbackInv, Typed, Linked, Good, Coupled
<1>1. PICK o \in c.ops : Complete(e, o)
  BY DEF Kernel
<1>2. /\ o.res = "pending" /\ o \in AnyOp /\ o.kind \in Kinds /\ o.msg \in Message \cup {None}
      /\ c.state # "none"
      /\ o.kind \in Incoming => o \in Ins(c)
      /\ o.kind \in Outgoing => o \in Outs(c)
  BY <1>0, <1>1 DEF Complete, Sound, Proper, Shape, AnyOp, Ins, Outs, NoObject
<1>3. /\ q \in End /\ q # e /\ Peer[q] = e /\ \A x \in End : Peer[x] = e => x = q
      /\ conn[q] \in Shape /\ Sound(conn[q])
      /\ Stream(wire[e], c, conn[q]) /\ Stream(wire[q], conn[q], c)
      /\ wire[e] \in Seq({"header", "body"} \X Thing) /\ wire[q] \in Seq({"header", "body"} \X Thing)
  <2>1. q \in End /\ q # e /\ Peer[q] = e /\ \A x \in End : Peer[x] = e => x = q
    BY Pairs
  <2> QED
    BY <1>0, <2>1 DEF Linked
<1>4. ASSUME NEW res \in {"ok", "error"}, NEW msg \in Message \cup {None}, Completed(e, o, res, msg)
      PROVE  /\ Step(e, [c EXCEPT !.ops = (@ \ {o}) \cup {[o EXCEPT !.res = res, !.msg = msg]}])
             /\ Muted'
  <2> DEFINE n == [o EXCEPT !.res = res, !.msg = msg]
             d == [c EXCEPT !.ops = (@ \ {o}) \cup {n}]
  <2>1. Step(e, d)
    BY <1>0, <1>4 DEF Completed, Step
  <2>2. n \in AnyOp /\ n.kind = o.kind
    BY <1>2 DEF AnyOp, Thing
  <2>3. (c.ops \ {o}) \cup {n} \in SUBSET AnyOp
    BY <1>0, <2>2 DEF Shape
  <2>4. d \in Shape
    BY <1>0, <2>3, UpdateTyped
  <2>5. d.ops = (c.ops \ {o}) \cup {n} /\ d.accepted = c.accepted /\ d.posted = c.posted /\ d.state = c.state
    BY <1>0 DEF Shape
  <2> HIDE DEF n, d
  <2>6. ~secure /\ e \in Server => Mute(d)
    <3> SUFFICES ASSUME ~secure, e \in Server PROVE Mute(d)
      OBVIOUS
    <3>1. Mute(c)
      BY <1>0 DEF Muted
    <3>2. o.kind # "connect"
      BY <1>1, <3>1 DEF Mute
    <3> QED
      BY <2>2, <2>5, <3>1, <3>2 DEF Mute
  <2>7. Muted'
    BY <1>0, <2>1, <2>4, <2>6, StepMuted
  <2> QED
    BY <2>1, <2>7 DEF d, n
<1>5. ASSUME NEW res \in {"ok", "error"}, NEW msg \in Message \cup {None}, Completed(e, o, res, msg),
             o.kind \in {"connect", "handshake"} \/ (res = "error" /\ msg = o.msg), wire' = wire
      PROVE  Linked' /\ Muted'
  <2> DEFINE d == [c EXCEPT !.ops = (@ \ {o}) \cup {[o EXCEPT !.res = res, !.msg = msg]}]
  <2>1. Step(e, d) /\ Muted'
    BY <1>4, <1>5
  <2>2. d \in Shape /\ Keeps(c, d)
    <3>1. CASE o.kind \in Incoming
      <4>1. o \in Ins(c)
        BY <1>2, <3>1
      <4>2. /\ d \in Shape
            /\ o.kind \in {"connect", "handshake"} \/ (res = "error" /\ msg = o.msg) => Keeps(c, d)
        BY <1>0, <1>2, <4>1, CompletedRead, ZenonT(30)
      <4> QED
        BY <1>5, <4>2
    <3>2. CASE o.kind \in Outgoing
      <4>1. o \in Outs(c) /\ res = "error" /\ msg = o.msg
        BY <1>2, <1>5, <3>2 DEF Outgoing
      <4>2. /\ [c EXCEPT !.ops = (@ \ {o}) \cup {[o EXCEPT !.res = res, !.msg = o.msg]}] \in Shape
            /\ res = "error" => Keeps(c, [c EXCEPT !.ops = (@ \ {o}) \cup {[o EXCEPT !.res = res, !.msg = o.msg]}])
        BY <1>0, <1>2, <4>1, CompletedWrite
      <4> QED
        BY <4>1, <4>2
    <3> QED
      BY <1>2, <3>1, <3>2 DEF Kinds, Incoming, Outgoing
  <2> HIDE DEF d
  <2> QED
    BY <1>0, <1>5, <2>1, <2>2, StepLinked
<1>6. ASSUME NEW d \in Shape, Step(e, d), Sound(d), d.state # "none",
             Stream(wire'[e], d, conn[q]), Stream(wire'[q], conn[q], d),
             \A x \in End : x \notin {e, q} => wire'[x] = wire[x]
      PROVE  Linked'
  <2>1. \A x \in End : conn'[x] = IF x = e THEN d ELSE conn[x]
    BY <1>0, <1>6 DEF Step
  <2>2. \A x \in End : Sound(conn'[x]) /\ (conn'[x].state = "none" => conn'[x] = NoObject)
    BY <1>0, <1>6, <2>1 DEF Linked
  <2>3. ASSUME NEW x \in End PROVE Stream(wire'[x], conn'[x], conn'[Peer[x]])
    <3>1. CASE x = e
      BY <1>3, <1>6, <2>1, <3>1
    <3>2. CASE x = q
      BY <1>3, <1>6, <2>1, <3>2
    <3>3. CASE x \notin {e, q}
      <4>1. Peer[x] # e /\ Peer[x] \in End
        BY <1>3, <3>3, Pairs
      <4>2. wire'[x] = wire[x] /\ conn'[x] = conn[x] /\ conn'[Peer[x]] = conn[Peer[x]]
        BY <1>6, <2>1, <3>3, <4>1
      <4> QED
        BY <1>0, <4>2 DEF Linked
    <3> QED
      BY <3>1, <3>2, <3>3
  <2>4. Linked' <=> /\ \A x \in End : Sound(conn'[x]) /\ (conn'[x].state = "none" => conn'[x] = NoObject)
                    /\ \A x \in End : Stream(wire'[x], conn'[x], conn'[Peer[x]])
    BY DEF Linked
  <2> QED
    BY <2>2, <2>3, <2>4
<1>7. CASE ConnectDone(e, o)
  <2>1. /\ wire' = wire /\ o.kind = "connect"
        /\ Completed(e, o, "ok", None) \/ Completed(e, o, "error", None)
        /\ link' = link \/ link' = [link EXCEPT ![e] = "up"]
    BY <1>7 DEF ConnectDone
  <2>2. link' \in [Client -> {"none", "up", "broken", "silent"}]
    BY <1>0, <2>1
  <2> QED
    BY <1>5, <2>1, <2>2
<1>8. CASE HandshakeDone(e, o)
  <2>1. /\ wire' = wire /\ o.kind = "handshake" /\ link' = link
        /\ Completed(e, o, "ok", None) \/ Completed(e, o, "error", None)
    BY <1>8 DEF HandshakeDone
  <2> QED
    BY <1>0, <1>5, <2>1
<1>9. CASE WriteDone(e, o)
  <2>1. CASE Completed(e, o, "error", o.msg) /\ wire' = wire
    BY <1>0, <1>2, <1>5, <1>9, <2>1 DEF WriteDone
  <2>2. CASE Completed(e, o, "ok", o.msg) /\ wire' = [wire EXCEPT ![e] = Append(@, <<Part(o.kind), o.msg>>)]
    <3> DEFINE d == [c EXCEPT !.ops = (@ \ {o}) \cup {[o EXCEPT !.res = "ok", !.msg = o.msg]}]
    <3>1. o \in Outs(c)
      BY <1>2, <1>9 DEF WriteDone, Outgoing
    <3>2. Step(e, d) /\ Muted'
      BY <1>2, <1>4, <2>2
    <3>3. /\ d \in Shape /\ Sound(d) /\ d.state = c.state
          /\ d.accepted = c.accepted /\ d.m_tx_data = c.m_tx_data /\ d.tx_msg_buf = c.tx_msg_buf
          /\ \A p \in Outs(d) : p.kind = o.kind /\ p.res = "ok"
          /\ \A s \in Seq(Message) : \A at : Reads(c, s, at) => Reads(d, s, at)
      BY <1>0, <1>2, <3>1, CompletedWrite, ZenonT(30)
    <3> HIDE DEF d
    <3>4. wire'[e] = Append(wire[e], <<Part(o.kind), o.msg>>) /\ \A x \in End : x # e => wire'[x] = wire[x]
      BY <1>0, <2>2
    <3>5. Stream(wire'[e], d, conn[q])
      <4>1. /\ c \in Shape /\ conn[q] \in Shape /\ wire[e] \in Seq({"header", "body"} \X Thing)
            /\ Stream(wire[e], c, conn[q]) /\ Sound(c) /\ o.res = "pending"
        BY <1>0, <1>2, <1>3
      <4>2. Stream(Append(wire[e], <<Part(o.kind), o.msg>>), d, conn[q])
        BY <3>1, <3>3, <4>1, WrittenOnTheRoad
      <4> QED
        BY <3>4, <4>2
    <3>6. Stream(wire'[q], conn[q], d)
      <4>1. Stream(wire[q], conn[q], d)
        BY <1>3, <3>3, ReaderSteps
      <4> QED
        BY <1>3, <3>4, <4>1
    <3>7. Linked'
      BY <1>2, <1>6, <3>2, <3>3, <3>4, <3>5, <3>6
    <3> QED
      BY <1>0, <1>9, <3>2, <3>7 DEF WriteDone
  <2> QED
    BY <1>9, <2>1, <2>2 DEF WriteDone
<1>10. CASE ReadDone(e, o)
  <2>0. o.kind \in {"readHeader", "readBody"} /\ link' = link
    BY <1>10 DEF ReadDone
  <2>1. CASE Completed(e, o, "error", o.msg) /\ wire' = wire
    BY <1>0, <1>2, <1>5, <2>0, <2>1
  <2> DEFINE part == Head(wire[q])
             msg == IF part[1] = Part(o.kind) THEN part[2] ELSE Garbage
  <2>2. CASE /\ wire[q] # <<>>
             /\ Completed(e, o, "ok", msg)
             /\ wire' = [wire EXCEPT ![q] = Tail(@)]
    <3>1. o \in Ins(c)
      BY <1>2, <2>0 DEF Incoming
    <3>2. /\ Head(wire[q])[1] = Part(o.kind) /\ Head(wire[q])[2] \in Message
          /\ \A b \in Shape : \A p :
                 (/\ b.got = c.got /\ b.state = c.state /\ Ins(b) \subseteq {p}
                  /\ p.kind = o.kind /\ p.res = "ok" /\ p.msg = Head(wire[q])[2])
                   => Stream(Tail(wire[q]), conn[q], b)
      <4>1. /\ c \in Shape /\ conn[q] \in Shape /\ wire[q] \in Seq({"header", "body"} \X Thing)
            /\ wire[q] # <<>> /\ Stream(wire[q], conn[q], c) /\ Sound(conn[q]) /\ o.res = "pending"
            /\ c.state # "none"
        BY <1>0, <1>2, <1>3, <2>2
      <4> QED
        BY <2>0, <3>1, <4>1, ReadOnTheRoad
    <3>3. msg = part[2] /\ msg \in Message
      BY <3>2
    <3> HIDE DEF part, msg
    <3> DEFINE n == [o EXCEPT !.res = "ok", !.msg = msg]
               d == [c EXCEPT !.ops = (@ \ {o}) \cup {n}]
    <3>4. Step(e, d) /\ Muted'
      BY <1>4, <2>2, <3>3
    <3>5. /\ d \in Shape /\ Sound(d) /\ d.state = c.state /\ d.got = c.got
          /\ d.accepted = c.accepted
          /\ Ins(d) \subseteq {n} /\ n.kind = o.kind /\ n.res = "ok" /\ n.msg = msg
          /\ \A at : Writes(c, at) => Writes(d, at)
          /\ o.kind \in {"connect", "handshake"} \/ ("ok" = "error" /\ msg = o.msg) => Keeps(c, d)
      <4>1. c \in Shape /\ Sound(c) /\ OneIncoming(c) /\ c.state # "none" /\ o.res = "pending"
            /\ msg \in Message \cup {None}
        BY <1>0, <1>2, <3>3
      <4>2. "ok" \in {"ok", "error"}
        OBVIOUS
      <4> QED
        BY <3>1, <4>1, <4>2, CompletedRead, ZenonT(30)
    <3> HIDE DEF d, n
    <3>6. wire'[q] = Tail(wire[q]) /\ \A x \in End : x # q => wire'[x] = wire[x]
      BY <1>0, <1>3, <2>2
    <3>7. Stream(wire'[q], conn[q], d)
      <4>1. n.msg = Head(wire[q])[2]
        BY <3>3, <3>5 DEF part
      <4> QED
        BY <3>2, <3>5, <3>6, <4>1
    <3>8. Stream(wire'[e], d, conn[q])
      <4>1. Stream(wire[e], d, conn[q])
        BY <1>0, <1>3, <3>5, WriterSteps
      <4> QED
        BY <1>3, <3>6, <4>1
    <3>9. Linked'
      BY <1>2, <1>6, <3>4, <3>5, <3>6, <3>7, <3>8
    <3> QED
      BY <1>0, <2>0, <3>4, <3>9
  <2> QED
    BY <1>10, <2>1, <2>2 DEF ReadDone
<1> QED
  BY <1>1, <1>7, <1>8, <1>9, <1>10 DEF Complete

-----------------------------------------------------------------------------
LEMMA MembersOf ==
    ASSUME NEW S, NEW T, NEW s \in Seq(S), \A i \in 1 .. Len(s) : s[i] \in T
    PROVE  s \in Seq(T)
OBVIOUS

\* What is read is a beginning of what was accepted: the whole sequence is seen
\* part by part.
LEMMA PrefixOf ==
    ASSUME NEW S, NEW T, NEW s \in Seq(S), NEW t \in Seq(T), Len(s) <= Len(t),
           \A i \in 1 .. Len(s) : s[i] = t[i]
    PROVE  s \in Seq(T) /\ IsPrefix(s, t)
<1>1. Len(s) \in Nat /\ Len(t) \in Nat
  OBVIOUS
<1>2. \A i \in 1 .. Len(s) : s[i] \in T
  <2>1. \A i \in 1 .. Len(s) : i \in 1 .. Len(t)
    BY <1>1
  <2> QED
    BY <2>1
<1>3. s \in Seq(T)
  BY <1>2, MembersOf
<1>4. SubSeq(s, 1, Len(s)) = SubSeq(t, 1, Len(s))
  <2> DEFINE a == SubSeq(s, 1, Len(s))
             b == SubSeq(t, 1, Len(s))
  <2>1. /\ a = [i \in 1 .. Len(s) |-> s[i]]
        /\ b = [i \in 1 .. Len(s) |-> t[i]]
    BY <1>1, <1>3
  <2> QED
    BY <2>1
<1> QED
  BY <1>3, <1>4 DEF IsPrefix

LEMMA LinkImplies == LinkInv => LinkInvariant
<1> SUFFICES ASSUME LinkInv PROVE LinkInvariant
  OBVIOUS
<1>1. ASSUME NEW e \in End
      PROVE  /\ conn[e] \in Shape /\ Sound(conn[e]) /\ conn[e].accepted \in Seq(Message)
             /\ Stream(wire[e], conn[e], conn[Peer[e]])
             /\ Peer[e] \in End /\ Peer[Peer[e]] = e
  BY Pairs DEF LinkInv, CallbackInv, Typed, Linked, Sound, Proper
<1>2. ASSUME NEW e \in End
      PROVE  conn[Peer[e]].got \in Seq(Message) /\ IsPrefix(conn[Peer[e]].got, conn[e].accepted)
  <2> DEFINE g == conn[Peer[e]].got
             a == conn[e].accepted
  <2>1. g \in Seq(Thing) /\ a \in Seq(Message)
    BY <1>1 DEF Shape
  <2>2. PICK at \in Seq(Place) : Reads(conn[Peer[e]], a, at[1])
    BY <1>1 DEF Stream
  <2>3. Len(g) <= Len(a) /\ \A i \in 1 .. Len(g) : g[i] = a[i]
    BY <2>2 DEF Reads
  <2> HIDE DEF g, a
  <2>4. g \in Seq(Message) /\ IsPrefix(g, a)
    BY <2>1, <2>3, PrefixOf
  <2> QED
    BY <2>4 DEF g, a
<1>3. InOrder
  BY <1>2 DEF InOrder
<1>4. OneWrite
  <2> SUFFICES ASSUME NEW e \in End, NEW o \in conn[e].ops, NEW p \in conn[e].ops,
                      {o.kind, p.kind} \subseteq {"writeHeader", "writeBody"}
               PROVE  o = p /\ o.msg = conn[e].tx_msg_buf
    BY DEF OneWrite
  <2>1. o \in Outs(conn[e]) /\ p \in Outs(conn[e])
    BY DEF Outs, Outgoing
  <2> QED
    BY <1>1, <2>1 DEF Sound, Queued
<1>5. AcceptedEndIsMute
  BY DEF LinkInv, Muted, Mute, AcceptedEndIsMute
<1>6. TypeOK
  <2>1. ASSUME NEW e \in End PROVE conn[e] \in Object
    <3> DEFINE c == conn[e]
    <3>1. c \in Shape /\ Proper(c)
      BY <1>1 DEF Sound
    <3>2. c.got \in Seq(Message)
      <4>1. conn[Peer[Peer[e]]].got \in Seq(Message)
        BY <1>1, <1>2
      <4> QED
        BY <1>1, <4>1
    <3>3. c.ops \in SUBSET Op
      BY <3>1 DEF Proper, Shape, AnyOp, Op
    <3>4. c = [state |-> c.state, open |-> c.open, ops |-> c.ops, posted |-> c.posted,
               m_tx_data |-> c.m_tx_data, tx_msg_buf |-> c.tx_msg_buf, has_cb |-> c.has_cb,
               accepted |-> c.accepted, got |-> c.got, late |-> c.late,
               notified |-> c.notified, stale |-> c.stale]
      BY <3>1 DEF Shape
    <3>5. /\ c.state \in {"none", "connecting", "connected", "disconnected"}
          /\ c.open \in BOOLEAN /\ c.has_cb \in BOOLEAN /\ c.stale \in BOOLEAN
          /\ c.late \in Nat /\ c.notified \in Nat
      BY <3>1 DEF Shape
    <3>6. /\ c.posted \in Seq(Message \cup {"disconnect"}) /\ c.m_tx_data \in Seq(Message)
          /\ c.tx_msg_buf \in Message \cup {None} /\ c.accepted \in Seq(Message)
      BY <3>1 DEF Proper
    <3> HIDE DEF c
    <3> QED
      BY <3>2, <3>3, <3>4, <3>5, <3>6 DEF Object, c
  <2>2. ASSUME NEW e \in End PROVE wire[e] \in Seq({"header", "body"} \X Message)
    <3>1. PICK at \in Seq(Place) : Road(wire[e], conn[e].accepted, at)
      BY <1>1 DEF Stream
    <3>2. wire[e] \in Seq({"header", "body"} \X Thing) /\ Len(wire[e]) \in Nat /\ Len(at) = Len(wire[e]) + 1
      BY <3>1 DEF LinkInv, CallbackInv, Typed, Road
    <3>3. ASSUME NEW i \in 1 .. Len(wire[e]) PROVE wire[e][i] \in {"header", "body"} \X Message
      <4>1. at[i][1] \in 1 .. Len(conn[e].accepted) /\ wire[e][i] = <<at[i][2], conn[e].accepted[at[i][1]]>>
        BY <3>1 DEF Road
      <4>2. at[i] \in Place
        <5>1. i \in 1 .. Len(at)
          BY <3>2
        <5> QED
          BY <5>1
      <4>3. at[i][2] \in {"header", "body"}
        BY <4>2 DEF Place
      <4>4. conn[e].accepted[at[i][1]] \in Message
        BY <1>1, <4>1
      <4> QED
        BY <4>1, <4>3, <4>4
    <3>4. \A i \in 1 .. Len(wire[e]) : wire[e][i] \in {"header", "body"} \X Message
      BY <3>3
    <3> QED
      BY <3>2, <3>4, MembersOf
  <2>3. wire \in [End -> Seq({"header", "body"} \X Message)]
    BY <2>2 DEF LinkInv, CallbackInv, Typed
  <2> QED
    BY <2>1, <2>3 DEF TypeOK, LinkInv, CallbackInv, Typed, Coupled
<1> QED
  BY <1>3, <1>4, <1>5, <1>6 DEF LinkInvariant

LEMMA LinkInit == Init => LinkInv
<1> SUFFICES ASSUME Init PROVE LinkInv
  OBVIOUS
<1>1. CallbackInv
  BY CallbackInit
<1>2. \A e \in End : conn[e] = NoObject /\ wire[e] = <<>> /\ Peer[e] \in End
  BY Pairs DEF Init
<1>3. Road(<<>>, <<>>, <<First>>)
  <2>1. <<First>> \in Seq(Place) /\ Len(<<First>>) = 1
    BY DEF First, Place
  <2> QED
    BY <2>1 DEF Road
<1>4. Sound(NoObject) /\ Stream(<<>>, NoObject, NoObject)
  BY <1>3, FreshSound
<1>5. Linked
  BY <1>2, <1>4 DEF Linked
<1>6. Mute(NoObject)
  BY DEF Mute, NoObject
<1>7. Muted
  BY <1>2, <1>6 DEF Muted, End
<1> QED
  BY <1>1, <1>5, <1>7 DEF Init, LinkInv, Coupled

\* A step of either end, of the kernel or of a link.
LEMMA LinkSteps ==
    ASSUME LinkInv, secure' = secure, NEW e \in End,
           \/ e \in Client /\ ConnectToServer(e)
           \/ e \in Server /\ ConnectToClient(e)
           \/ Handlers(e) \/ RunPosted(e) \/ Disconnect(e) \/ Send(e) \/ Kernel(e) \/ Break(e)
    PROVE  LinkInv'
<1>1. CallbackInv'
  BY CallbackSteps DEF LinkInv
<1>2. link \in [Client -> {"none", "up", "broken", "silent"}] /\ secure \in Secure
  BY DEF LinkInv, Coupled
<1>3. CASE \/ e \in Client /\ ConnectToServer(e)
           \/ e \in Server /\ ConnectToClient(e)
           \/ Handlers(e) \/ RunPosted(e) \/ Disconnect(e) \/ Send(e)
  <2>1. Linked' /\ Muted'
    BY <1>3, LinkEndSteps
  <2>2. link' = link
    BY <1>3 DEF ConnectToServer, ConnectToClient, Handlers, Handler, RunPosted, Disconnect, Send
  <2> QED
    BY <1>1, <1>2, <2>1, <2>2 DEF LinkInv, Coupled
<1>4. CASE Kernel(e)
  <2>1. Linked' /\ Muted' /\ link' \in [Client -> {"none", "up", "broken", "silent"}]
    BY <1>4, LinkKernelSteps
  <2> QED
    BY <1>1, <1>2, <2>1 DEF LinkInv, Coupled
<1>5. CASE Break(e)
  <2>1. UNCHANGED <<conn, wire>> /\ link' \in [Client -> {"none", "up", "broken", "silent"}]
    BY <1>2, <1>5 DEF Break
  <2>2. Linked' /\ Muted'
    BY <2>1 DEF LinkInv, Linked, Muted
  <2> QED
    BY <1>1, <1>2, <2>1, <2>2 DEF LinkInv, Coupled
<1> QED
  BY <1>3, <1>4, <1>5

\* What comes out of a link is a beginning of what was put in, in order and whole,
\* one write is outstanding at a time, and an accepted end without TLS sends
\* nothing; whatever closes or fails at any moment.
THEOREM LinkCorrect == Spec => []LinkInvariant
<1>1. LinkInv /\ [Next]_<<vars, secure>> => LinkInv'
  <2> SUFFICES ASSUME LinkInv, [Next]_<<vars, secure>> PROVE LinkInv'
    OBVIOUS
  <2>1. secure' = secure
    BY DEF Next
  <2>2. CASE Next
    BY <2>1, <2>2, LinkSteps DEF Next, End
  <2>3. CASE UNCHANGED vars
    BY <2>1, <2>3 DEF vars, LinkInv, CallbackInv, Typed, Linked, Muted, Coupled
  <2> QED
    BY <2>2, <2>3
<1> QED
  BY <1>1, LinkInit, LinkImplies, PTL DEF Spec

-----------------------------------------------------------------------------
(* The client and the server around the connections, without TLS.          *)

\* disconnect() is posted to some ends at once.
LEMMA PostingSteps ==
    ASSUME LinkInv, secure' = secure, NEW S \in SUBSET End, \A e \in S : conn[e].state # "none",
           conn' = [e \in End |-> IF e \in S THEN [conn[e] EXCEPT !.posted = Append(@, "disconnect")]
                                  ELSE conn[e]],
           UNCHANGED <<wire, link, sends>>
    PROVE  /\ LinkInv'
           /\ \A e \in End : Outcome(conn[e], conn'[e])
<1>0. /\ CallbackInv /\ Linked /\ Muted /\ conn \in [End -> Shape] /\ secure \in BOOLEAN
      /\ \A e \in End : Good(conn[e], secure) /\ Sound(conn[e])
  BY DEF LinkInv, CallbackInv, Typed, Linked
<1>1. ASSUME NEW e \in End, e \in S
      PROVE  /\ conn'[e] \in Shape /\ Good(conn'[e], secure) /\ Keeps(conn[e], conn'[e])
             /\ (Mute(conn[e]) => Mute(conn'[e])) /\ Outcome(conn[e], conn'[e])
  <2> DEFINE c == conn[e]
             d == [c EXCEPT !.posted = Append(@, "disconnect")]
  <2>1. c \in Shape /\ Good(c, secure) /\ Sound(c) /\ c.state # "none" /\ conn'[e] = d
    BY <1>0, <1>1
  <2>2. d \in Shape /\ Keeps(c, d) /\ (Mute(c) => Mute(d))
    BY <2>1, PostedKeeps
  <2>3. /\ d.ops = c.ops /\ d.state = c.state /\ d.open = c.open /\ d.has_cb = c.has_cb
        /\ d.late = c.late /\ d.notified = c.notified /\ d.stale = c.stale
    BY <2>1 DEF Shape
  <2> HIDE DEF c, d
  <2>4. Good(d, secure)
    BY <1>0, <2>1, <2>2, <2>3, QueueGood
  <2>5. Outcome(c, d)
    BY <2>3 DEF Outcome
  <2> QED
    BY <2>1, <2>2, <2>4, <2>5 DEF c
<1>2. ASSUME NEW e \in End, e \notin S
      PROVE  conn'[e] = conn[e] /\ Outcome(conn[e], conn'[e])
  BY <1>2 DEF Outcome
<1>3. conn' \in [End -> Shape] /\ \A e \in End : Good(conn'[e], secure)
  <2>1. \A e \in End : conn'[e] \in Shape /\ Good(conn'[e], secure)
    BY <1>0, <1>1, <1>2
  <2> QED
    BY <2>1
<1>4. CallbackInv'
  BY <1>0, <1>3 DEF CallbackInv, Typed
<1>5. Linked'
  BY <1>0, <1>1, <1>2, <1>3, ObjectsMove
<1>6. Muted'
  BY <1>0, <1>1, <1>2 DEF Muted, End
<1> QED
  BY <1>1, <1>2, <1>4, <1>5, <1>6 DEF LinkInv, Coupled

\* A link is refused: the end that the acceptor made is closed at once.
LEMMA RefuseSteps ==
    ASSUME LinkInv, secure' = secure, NEW e \in Server, Refuse(e)
    PROVE  /\ LinkInv' /\ conn'[e].state = "disconnected"
           /\ \A x \in End : x # e => conn'[x] = conn[x]
<1> DEFINE d == [NoObject EXCEPT !.state = "disconnected"]
<1>0. /\ CallbackInv /\ Linked /\ Muted /\ conn \in [End -> Shape] /\ secure \in BOOLEAN /\ e \in End
      /\ conn[e].state = "none" /\ conn[e] = NoObject /\ Step(e, d) /\ UNCHANGED <<wire, link, sends>>
  BY DEF LinkInv, CallbackInv, Typed, Linked, Refuse, End
<1>1. d \in Shape
  BY FreshGood, UpdateTyped
<1>2. /\ d.ops = {} /\ d.state = "disconnected" /\ d.notified = 0 /\ d.late = 0
      /\ d.accepted = <<>> /\ d.m_tx_data = <<>> /\ d.tx_msg_buf = None /\ d.got = <<>> /\ d.posted = <<>>
  BY DEF NoObject
<1>3. /\ NoObject \in Shape /\ Sound(NoObject)
      /\ NoObject.accepted = <<>> /\ NoObject.m_tx_data = <<>> /\ NoObject.tx_msg_buf = None
      /\ NoObject.got = <<>>
  BY FreshGood, FreshSound DEF NoObject
<1> HIDE DEF d
<1>4. Good(d, secure)
  <2>1. OneIncoming(d) /\ BeforeOpened(d, secure) /\ AfterNotice(d)
    BY <1>2 DEF OneIncoming, BeforeOpened, AfterNotice, Has, Opening
  <2>2. Notices(d, secure)
    BY <1>2 DEF Notices
  <2> QED
    BY <2>1, <2>2 DEF Good
<1>5. Keeps(NoObject, d)
  <2>1. d.posted \in Seq(Message \cup {"disconnect"})
    BY <1>2
  <2>2. d.ops \subseteq NoObject.ops
    BY <1>2
  <2> QED
    BY <1>1, <1>2, <1>3, <2>1, <2>2, DroppedKeeps
<1>6. Mute(d)
  BY <1>2 DEF Mute
<1>7. conn' \in [End -> Shape] /\ \A x \in End : Good(conn'[x], secure)
  BY <1>0, <1>1, <1>4, StepGood
<1>8. CallbackInv'
  BY <1>0, <1>7 DEF CallbackInv, Typed
<1>9. Linked'
  BY <1>0, <1>1, <1>5, StepLinked
<1>10. Muted'
  BY <1>0, <1>1, <1>6, StepMuted
<1>11. conn'[e] = d /\ \A x \in End : x # e => conn'[x] = conn[x]
  BY <1>0 DEF Step
<1> QED
  BY <1>0, <1>2, <1>8, <1>9, <1>10, <1>11 DEF LinkInv, Coupled

\* What the steps of an end mean to its application.
LEMMA HandlerOutcome ==
    ASSUME LinkInv, ~secure, NEW e \in End, NEW o \in conn[e].ops, Handler(e, o), o.kind # "connect"
    PROVE  Outcome(conn[e], conn'[e]) /\ \A x \in End : x # e => conn'[x] = conn[x]
<1> DEFINE c == conn[e]
           b == [c EXCEPT !.ops = @ \ {o}]
           r == IF Success(e, o) THEN Succeeded(b, o) ELSE Failed(b, o)
<1>1. conn \in [End -> Shape] /\ c \in Shape /\ Good(c, secure) /\ secure \in BOOLEAN
  BY DEF LinkInv, CallbackInv, Typed
<1>2. Step(e, r)
  BY DEF Handler
<1>3. o \in AnyOp /\ b \in Shape
  BY <1>1, ForgetGood DEF Shape
<1>4. o.kind \notin {"connect", "handshake"}
  BY <1>1 DEF Good, BeforeOpened, Has
<1>5. r \in {Succeeded(b, o), Failed(b, o)}
  OBVIOUS
<1>6. b.ops = c.ops \ {o} /\ b.state = c.state /\ b.has_cb = c.has_cb /\ b.notified = c.notified
  BY <1>1 DEF Shape
<1>7. conn'[e] = r /\ \A x \in End : x # e => conn'[x] = conn[x]
  BY <1>1, <1>2 DEF Step
<1> HIDE DEF r, b
<1>8. Outcome(b, r)
  BY <1>3, <1>4, <1>5, HandlerFields
<1>9. Outcome(c, r)
  BY <1>6, <1>8 DEF Outcome
<1> QED
  BY <1>7, <1>9

LEMMA PostedOutcome ==
    ASSUME LinkInv, NEW e \in End, RunPosted(e)
    PROVE  Outcome(conn[e], conn'[e]) /\ \A x \in End : x # e => conn'[x] = conn[x]
<1> DEFINE c == conn[e]
           f == Head(c.posted)
           b == [c EXCEPT !.posted = Tail(@)]
           d == IF f = "disconnect" THEN Close(b) ELSE Push(b, f)
<1>1. /\ conn \in [End -> Shape] /\ c \in Shape /\ Sound(c) /\ (c.state = "none" => c = NoObject)
  BY DEF LinkInv, CallbackInv, Typed, Linked
<1>2. c.posted # <<>> /\ Step(e, d)
  BY DEF RunPosted
<1>3. c.state # "none"
  BY <1>1, <1>2 DEF NoObject
<1>4. d \in Shape /\ Keeps(c, d) /\ (Mute(c) => Mute(d)) /\ Outcome(c, d)
  BY <1>1, <1>2, <1>3, PostedRuns
<1> HIDE DEF d
<1> QED
  BY <1>1, <1>2, <1>4 DEF Step

\* The connect handler of a client.
LEMMA ConnectOutcome ==
    ASSUME LinkInv, ~secure, NEW e \in End, NEW o \in conn[e].ops, Handler(e, o), o.kind = "connect"
    PROVE  /\ ~Has(conn'[e], "connect")
           /\ conn'[e].state = IF Success(e, o) THEN "connected" ELSE "disconnected"
           /\ \A x \in End : x # e => conn'[x] = conn[x]
<1> DEFINE c == conn[e]
           b == [c EXCEPT !.ops = @ \ {o}]
           r == IF Success(e, o) THEN Succeeded(b, o) ELSE Failed(b, o)
<1>1. conn \in [End -> Shape] /\ c \in Shape /\ Good(c, secure) /\ secure \in BOOLEAN
  BY DEF LinkInv, CallbackInv, Typed
<1>2. Step(e, r)
  BY DEF Handler
<1>3. b \in Shape /\ \A p \in b.ops : p.kind \notin Incoming
  BY <1>1, ForgetGood DEF Incoming
<1>4. conn'[e] = r /\ \A x \in End : x # e => conn'[x] = conn[x]
  BY <1>1, <1>2 DEF Step
<1> HIDE DEF b
<1>5. CASE Success(e, o)
  <2> DEFINE h == [b EXCEPT !.has_cb = TRUE]
             k == Connected(h)
             n == [kind |-> "readHeader", msg |-> None, res |-> "pending"]
  <2>1. h \in Shape /\ k \in Shape
    BY <1>3, PiecesTyped, UpdateTyped DEF Thing
  <2>2. k.ops = b.ops /\ k.state = "connected"
    BY <1>3 DEF Connected, Shape
  <2>3. r = Start(k, "readHeader", None)
    BY <1>5 DEF Succeeded, ConnectHandler, ReadHeader
  <2> HIDE DEF k, h
  <2>4. Start(k, "readHeader", None).ops = k.ops \cup {n} /\ Start(k, "readHeader", None).state = k.state
    BY <2>1 DEF Start, Shape
  <2>5. n.kind = "readHeader"
    OBVIOUS
  <2> HIDE DEF n, r
  <2>6. ~Has(r, "connect")
    BY <1>3, <2>2, <2>3, <2>4, <2>5 DEF Has, Incoming
  <2> QED
    BY <1>4, <1>5, <2>2, <2>3, <2>4, <2>6
<1>6. CASE ~Success(e, o)
  <2>1. r = [b EXCEPT !.state = "disconnected", !.open = FALSE]
    BY <1>6 DEF Failed
  <2>2. r.ops = b.ops /\ r.state = "disconnected"
    BY <1>3, <2>1 DEF Shape
  <2> HIDE DEF r
  <2> QED
    BY <1>3, <1>4, <1>6, <2>2 DEF Has, Incoming
<1> QED
  BY <1>5, <1>6

\* The kernel changes no state.
LEMMA KernelOutcome ==
    ASSUME LinkInv, NEW e \in End, Kernel(e), NEW x \in End
    PROVE  /\ conn'[x].state = conn[x].state /\ conn'[x].has_cb = conn[x].has_cb
           /\ Has(conn'[x], "connect") => Has(conn[x], "connect")
<1>1. conn \in [End -> Shape]
  BY DEF LinkInv, CallbackInv, Typed
<1>2. PICK o \in conn[e].ops : Complete(e, o)
  BY DEF Kernel
<1>3. PICK res, msg : Completed(e, o, res, msg)
  BY <1>2 DEF Complete, ConnectDone, HandshakeDone, WriteDone, ReadDone
<1> DEFINE n == [o EXCEPT !.res = res, !.msg = msg]
           d == [conn[e] EXCEPT !.ops = (@ \ {o}) \cup {n}]
<1>4. conn'[x] = IF x = e THEN d ELSE conn[x]
  BY <1>1, <1>3 DEF Completed
<1>5. o \in AnyOp
  BY <1>1 DEF Shape
<1>6. n.kind = o.kind
  BY <1>5 DEF AnyOp
<1>7. d.ops = (conn[e].ops \ {o}) \cup {n} /\ d.state = conn[e].state /\ d.has_cb = conn[e].has_cb
  BY <1>1 DEF Shape
<1> HIDE DEF n, d
<1>8. Has(d, "connect") => Has(conn[e], "connect")
  BY <1>6, <1>7 DEF Has
<1> QED
  BY <1>4, <1>7, <1>8

\* An end that is or may still become connected.
Live(c) == c.state = "connected" \/ Has(c, "connect")

\* The client's connection is the live one, if any is, and before its connect
\* handler has run it cannot call back.
ClientKnows ==
    /\ m_connection \in Client \cup {None}
    /\ {resolving, asked} \subseteq BOOLEAN /\ app \in {"idle", "waiting", "up"}
    /\ \A e \in Client : Live(conn[e]) => m_connection = e /\ ~resolving /\ app # "idle"
    /\ \A e \in Client : conn[e].state = "connecting" => ~conn[e].has_cb
    /\ resolving => app # "idle"
    /\ m_connection # None => conn[m_connection].state # "none"

\* The server's list is right, and who is in it will call back.
ServerKnows ==
    /\ {acceptor, stopping} \subseteq BOOLEAN /\ m_connections \subseteq Server
    /\ \A e \in Server : conn[e].state = "connecting" => conn[e].has_cb
    /\ ListHoldsOpen

CSInv == LinkInv /\ secure = FALSE /\ ClientKnows /\ ServerKnows

LEMMA BookkeepingImplies == CSInv => BookkeepingInvariant
<1> SUFFICES ASSUME CSInv PROVE BookkeepingInvariant
  OBVIOUS
<1>1. TypeOK
  BY LinkImplies DEF CSInv, LinkInvariant
<1>2. CSTypeOK
  BY <1>1 DEF CSTypeOK, CSInv, ClientKnows, ServerKnows
<1>3. ResultIsForCurrent /\ CurrentIsHeld
  BY DEF ResultIsForCurrent, CurrentIsHeld, CSInv, ClientKnows, Live, Has
<1> QED
  BY <1>2, <1>3 DEF BookkeepingInvariant, CSInv, ServerKnows

LEMMA BookkeepingInit == ASSUME Secure = {FALSE} PROVE CSInit => CSInv
<1> SUFFICES ASSUME CSInit PROVE CSInv
  OBVIOUS
<1>1. LinkInv /\ secure = FALSE
  BY LinkInit DEF CSInit, Init
<1>2. \A e \in End : conn[e] = NoObject
  BY DEF CSInit, Init
<1>3. NoObject.state = "none" /\ NoObject.ops = {}
  BY DEF NoObject
<1>4. \A e \in End : conn[e].state = "none" /\ ~Live(conn[e])
  BY <1>2, <1>3 DEF Live, Has
<1>5. ClientKnows
  BY <1>4 DEF ClientKnows, CSInit, End
<1>6. ServerKnows
  BY <1>4 DEF ServerKnows, ListHoldsOpen, CSInit, End
<1> QED
  BY <1>1, <1>5, <1>6 DEF CSInv

\* What one side does leaves the other's books as they are.
LEMMA ServerUntouched ==
    ASSUME CSInv, UNCHANGED serverVars, \A x \in Server : conn'[x] = conn[x]
    PROVE  ServerKnows'
<1>1. UNCHANGED <<acceptor, m_connections, stopping>>
  BY DEF serverVars
<1> QED
  BY <1>1 DEF CSInv, ServerKnows, ListHoldsOpen

LEMMA ClientUntouched ==
    ASSUME CSInv, UNCHANGED clientVars, \A x \in Client : conn'[x] = conn[x]
    PROVE  ClientKnows'
<1>1. UNCHANGED <<m_connection, resolving, asked, app>>
  BY DEF clientVars
<1>2. \A x \in Client : conn'[x] = conn[x] /\ (Live(conn'[x]) <=> Live(conn[x]))
  BY DEF Live, Has
<1> QED
  BY <1>1, <1>2 DEF CSInv, ClientKnows

\* An end of the client closes or does not, and the client is told.
LEMMA ClientTold ==
    ASSUME CSInv, NEW e \in Client, Outcome(conn[e], conn'[e]), OnDisconnect(e),
           \A x \in End : x # e => conn'[x] = conn[x], UNCHANGED <<resolving, asked>>
    PROVE  ClientKnows'
<1>1. /\ conn[e] \in Shape /\ Good(conn[e], secure) /\ secure = FALSE /\ e \in End
      /\ conn[e].state = "none" => conn[e] = NoObject
  BY DEF CSInv, LinkInv, CallbackInv, Typed, Linked, End
<1>2. conn[e].notified \in Int /\ conn[e].state \in {"none", "connecting", "connected", "disconnected"}
  BY <1>1 DEF Shape
<1>3. Live(conn'[e]) => Live(conn[e])
  BY DEF Live, Has, Outcome
<1>4. conn'[e].state # "none" \/ conn[e].state = "none"
  BY DEF Outcome
<1>5. \A x \in Client : x # e => conn'[x] = conn[x]
  BY DEF End
<1>6. CASE Notified(e)
  <2>1. conn[e].has_cb /\ conn[e].state # "disconnected" /\ conn'[e].state = "disconnected"
    BY <1>2, <1>6 DEF Notified, Outcome
  <2>2. conn[e].state # "none" /\ conn[e].state # "connecting"
    BY <1>1, <2>1 DEF NoObject, CSInv, ClientKnows
  <2>3. Live(conn[e])
    BY <1>2, <2>1, <2>2 DEF Live
  <2>4. ~Has(conn'[e], "connect")
    <3>1. ~Has(conn[e], "connect")
      BY <1>1, <2>1 DEF Good, BeforeOpened
    <3> QED
      BY <3>1 DEF Outcome, Has
  <2>5. m_connection = e /\ ~resolving /\ \A x \in Client : x # e => ~Live(conn[x])
    BY <2>3 DEF CSInv, ClientKnows
  <2>6. m_connection' = None /\ app' = "idle"
    BY <1>6 DEF OnDisconnect
  <2>7. \A x \in Client : ~Live(conn'[x])
    BY <1>5, <2>1, <2>4, <2>5 DEF Live
  <2>8. \A x \in Client : conn'[x].state = "connecting" => ~conn'[x].has_cb
    BY <1>5, <2>1 DEF CSInv, ClientKnows
  <2> QED
    BY <2>5, <2>6, <2>7, <2>8 DEF CSInv, ClientKnows
<1>7. CASE ~Notified(e)
  <2>1. m_connection' = m_connection /\ app' = app
    BY <1>7 DEF OnDisconnect
  <2>2. \A x \in Client : Live(conn'[x]) => Live(conn[x])
    BY <1>3, <1>5
  <2>3. \A x \in Client : conn'[x].state = "connecting" => ~conn'[x].has_cb
    BY <1>5 DEF CSInv, ClientKnows, Outcome
  <2>4. \A x \in Client \cup {None} : x \in Client /\ conn[x].state # "none" => conn'[x].state # "none"
    BY <1>4, <1>5
  <2>5. m_connection' # None => conn'[m_connection'].state # "none"
    BY <2>1, <2>4 DEF CSInv, ClientKnows
  <2> QED
    BY <2>1, <2>2, <2>3, <2>5 DEF CSInv, ClientKnows
<1> QED
  BY <1>6, <1>7

\* So it is with the server, whose ends are never connected.
LEMMA ServerTold ==
    ASSUME CSInv, NEW e \in Server, conn[e].state # "none", Outcome(conn[e], conn'[e]),
           RemoveNotified(e), \A x \in End : x # e => conn'[x] = conn[x],
           UNCHANGED <<acceptor, stopping>>
    PROVE  ServerKnows'
<1>1. /\ conn[e] \in Shape /\ e \in End /\ conn[e].state # "connected"
  BY DEF CSInv, LinkInv, CallbackInv, Typed, Muted, Mute, End
<1>2. /\ conn[e].notified \in Int
      /\ conn[e].state \in {"connecting", "disconnected"}
  BY <1>1 DEF Shape
<1>3. \A x \in Server : x # e => conn'[x] = conn[x]
  BY DEF End
<1>4. \A x \in Server : conn'[x].state = "connecting" => conn'[x].has_cb
  BY <1>3 DEF CSInv, ServerKnows, Outcome
<1>5. m_connections \subseteq Server /\ ListHoldsOpen
  BY DEF CSInv, ServerKnows
<1>6. CASE Notified(e)
  <2>1. conn'[e].state = "disconnected"
    BY <1>2, <1>6 DEF Notified, Outcome
  <2>2. m_connections' = m_connections \ {e}
    BY <1>6 DEF RemoveNotified
  <2>3. ListHoldsOpen'
    BY <1>3, <1>5, <2>1, <2>2 DEF ListHoldsOpen
  <2> QED
    BY <1>4, <1>5, <2>2, <2>3 DEF CSInv, ServerKnows
<1>7. CASE ~Notified(e)
  <2>1. conn'[e].state = conn[e].state
    <3>1. ASSUME conn'[e].state # conn[e].state PROVE FALSE
      <4>1. /\ conn[e].state = "connecting"
            /\ conn'[e].notified = IF conn[e].has_cb THEN conn[e].notified + 1 ELSE conn[e].notified
        BY <1>2, <3>1 DEF Outcome
      <4>2. conn[e].has_cb
        BY <4>1 DEF CSInv, ServerKnows
      <4> QED
        BY <1>2, <1>7, <4>1, <4>2 DEF Notified
    <3> QED
      BY <3>1
  <2>2. m_connections' = m_connections
    BY <1>7 DEF RemoveNotified
  <2>3. ListHoldsOpen'
    BY <1>3, <1>5, <2>1, <2>2 DEF ListHoldsOpen
  <2> QED
    BY <1>4, <1>5, <2>2, <2>3 DEF CSInv, ServerKnows
<1> QED
  BY <1>6, <1>7

\* The kernel tells the applications nothing.
LEMMA NetBookkeeping ==
    ASSUME CSInv, secure' = secure, NEW e \in End, Net(e)
    PROVE  CSInv'
<1>1. Kernel(e) /\ UNCHANGED <<clientVars, serverVars>>
  BY DEF Net
<1>2. LinkInv'
  BY <1>1, LinkSteps DEF CSInv
<1>3. \A x \in End : /\ conn'[x].state = conn[x].state /\ conn'[x].has_cb = conn[x].has_cb
                     /\ Has(conn'[x], "connect") => Has(conn[x], "connect")
  BY <1>1, KernelOutcome DEF CSInv
<1>4. UNCHANGED <<m_connection, resolving, asked, app>> /\ UNCHANGED <<acceptor, m_connections, stopping>>
  BY <1>1 DEF clientVars, serverVars
<1>5. \A x \in Client : Live(conn'[x]) => Live(conn[x])
  BY <1>3 DEF Live, End
<1>6. \A x \in Client : conn'[x].state = conn[x].state /\ conn'[x].has_cb = conn[x].has_cb
  BY <1>3 DEF End
<1>7. ClientKnows'
  BY <1>4, <1>5, <1>6 DEF CSInv, ClientKnows
<1>8. \A x \in Server : conn'[x].state = conn[x].state /\ conn'[x].has_cb = conn[x].has_cb
  BY <1>3 DEF End
<1>9. ServerKnows'
  BY <1>4, <1>8 DEF CSInv, ServerKnows, ListHoldsOpen
<1> QED
  BY <1>2, <1>7, <1>9 DEF CSInv

\* disconnect() for some ends changes no state.
LEMMA PostedBookkeeping ==
    ASSUME CSInv, secure' = secure, NEW S \in SUBSET End, \A e \in S : conn[e].state # "none",
           conn' = [e \in End |-> IF e \in S THEN [conn[e] EXCEPT !.posted = Append(@, "disconnect")]
                                  ELSE conn[e]],
           UNCHANGED <<wire, link, sends>>, UNCHANGED <<m_connection, resolving, app, m_connections>>,
           {asked', acceptor', stopping'} \subseteq BOOLEAN
    PROVE  CSInv'
<1>1. LinkInv'
  BY PostingSteps DEF CSInv
<1>2. \A x \in End : conn'[x].ops = conn[x].ops /\ conn'[x].state = conn[x].state /\ conn'[x].has_cb = conn[x].has_cb
  BY DEF CSInv, LinkInv, CallbackInv, Typed, Shape
<1>3. \A x \in Client : /\ conn'[x].state = conn[x].state /\ conn'[x].has_cb = conn[x].has_cb
                        /\ (Live(conn'[x]) <=> Live(conn[x]))
  BY <1>2 DEF Live, Has, End
<1>4. ClientKnows'
  BY <1>3 DEF CSInv, ClientKnows
<1>5. \A x \in Server : conn'[x].state = conn[x].state /\ conn'[x].has_cb = conn[x].has_cb
  BY <1>2 DEF End
<1>6. ServerKnows'
  BY <1>5 DEF CSInv, ServerKnows, ListHoldsOpen
<1> QED
  BY <1>1, <1>4, <1>6 DEF CSInv

LEMMA RunDisconnectBookkeeping ==
    ASSUME CSInv, secure' = secure, RunDisconnect
    PROVE  CSInv'
<1> DEFINE S == IF m_connection = None THEN {} ELSE {m_connection}
<1>1. conn \in [End -> Shape]
  BY DEF CSInv, LinkInv, CallbackInv, Typed
<1>2. m_connection \in Client \cup {None} /\ {acceptor, stopping} \subseteq BOOLEAN
  BY DEF CSInv, ClientKnows, ServerKnows
<1>3. S \in SUBSET End /\ \A e \in S : conn[e].state # "none"
  BY <1>2 DEF CSInv, ClientKnows, End
<1>4. conn' = [e \in End |-> IF e \in S THEN [conn[e] EXCEPT !.posted = Append(@, "disconnect")]
                             ELSE conn[e]]
  BY <1>1, <1>2 DEF RunDisconnect, End
<1>5. /\ UNCHANGED <<wire, link, sends>> /\ UNCHANGED <<m_connection, resolving, app, m_connections>>
      /\ {asked', acceptor', stopping'} \subseteq BOOLEAN
  BY <1>2 DEF RunDisconnect, serverVars
<1> HIDE DEF S
<1> QED
  BY <1>3, <1>4, <1>5, PostedBookkeeping

LEMMA RunStopBookkeeping ==
    ASSUME CSInv, secure' = secure, RunStop
    PROVE  CSInv'
<1>1. m_connections \subseteq Server /\ ListHoldsOpen /\ {asked} \subseteq BOOLEAN
  BY DEF CSInv, ServerKnows, ClientKnows
<1>2. m_connections \in SUBSET End /\ \A e \in m_connections : conn[e].state # "none"
  BY <1>1 DEF ListHoldsOpen, End
<1>3. /\ UNCHANGED <<wire, link, sends>> /\ UNCHANGED <<m_connection, resolving, app, m_connections>>
      /\ {asked', acceptor', stopping'} \subseteq BOOLEAN
      /\ conn' = [e \in End |-> IF e \in m_connections THEN [conn[e] EXCEPT !.posted = Append(@, "disconnect")]
                                ELSE conn[e]]
  BY <1>1 DEF RunStop, clientVars
<1> QED
  BY <1>2, <1>3, PostedBookkeeping

\* Requests that are only noted.
LEMMA AskedBookkeeping ==
    ASSUME CSInv, secure' = secure, Connect \/ ResolveFailed \/ AskDisconnect \/ Stop
    PROVE  CSInv'
<1>1. UNCHANGED <<vars, m_connection, m_connections, acceptor>>
  BY DEF Connect, ResolveFailed, AskDisconnect, Stop, serverVars, clientVars
<1>2. LinkInv' /\ \A x \in Client : Live(conn'[x]) <=> Live(conn[x])
  BY <1>1 DEF CSInv, LinkInv, CallbackInv, Typed, Linked, Muted, Coupled, vars, Live, Has
<1>3. ClientKnows'
  <2>1. CASE Connect
    BY <1>1, <1>2, <2>1 DEF Connect, CSInv, ClientKnows, vars
  <2>2. CASE ResolveFailed
    BY <1>1, <1>2, <2>2 DEF ResolveFailed, CSInv, ClientKnows, vars
  <2>3. CASE AskDisconnect
    BY <1>1, <1>2, <2>3 DEF AskDisconnect, CSInv, ClientKnows, vars
  <2>4. CASE Stop
    BY <1>1, <1>2, <2>4 DEF Stop, CSInv, ClientKnows, vars, clientVars
  <2> QED
    BY <2>1, <2>2, <2>3, <2>4
<1>4. ServerKnows'
  <2>1. {stopping'} \subseteq BOOLEAN
    BY DEF Connect, ResolveFailed, AskDisconnect, Stop, serverVars, CSInv, ServerKnows
  <2> QED
    BY <1>1, <2>1 DEF CSInv, ServerKnows, ListHoldsOpen, vars
<1> QED
  BY <1>2, <1>3, <1>4 DEF CSInv

LEMMA ResolvedBookkeeping ==
    ASSUME CSInv, secure' = secure, NEW e \in Client, Resolved(e)
    PROVE  CSInv'
<1> DEFINE f == [NoObject EXCEPT !.state = "connecting", !.open = TRUE]
           d == Start(f, "connect", None)
<1>1. e \in End /\ conn \in [End -> Shape] /\ resolving /\ app # "idle"
  BY DEF Resolved, CSInv, LinkInv, CallbackInv, Typed, ClientKnows, End
<1>2. LinkInv'
  BY <1>1, LinkSteps DEF CSInv, Resolved
<1>3. conn' = [conn EXCEPT ![e] = d]
  BY DEF Resolved, ConnectToServer, Step
<1>4. f.state = "connecting" /\ f.has_cb = FALSE
  BY DEF NoObject
<1>5. d.state = "connecting" /\ d.has_cb = FALSE
  BY <1>4, FreshGood, UpdateTyped DEF Start, Shape
<1> HIDE DEF d, f
<1>6. conn'[e] = d /\ \A x \in Client : x # e => conn'[x] = conn[x]
  BY <1>1, <1>3 DEF End
<1>7. \A x \in Server : conn'[x] = conn[x]
  BY <1>1, <1>3, ConnectionAssumption DEF End
<1>8. ServerKnows'
  BY <1>7, ServerUntouched DEF Resolved
<1>9. m_connection' = e /\ resolving' = FALSE /\ UNCHANGED <<asked, app>>
  BY DEF Resolved
<1>10. \A x \in Client : x # e => ~Live(conn'[x])
  BY <1>1, <1>6 DEF CSInv, ClientKnows
<1>11. \A x \in Client : conn'[x].state = "connecting" => ~conn'[x].has_cb
  BY <1>5, <1>6 DEF CSInv, ClientKnows
<1>12. ClientKnows'
  BY <1>1, <1>5, <1>6, <1>9, <1>10, <1>11 DEF CSInv, ClientKnows
<1> QED
  BY <1>2, <1>8, <1>12 DEF CSInv

LEMMA ClientBookkeeping ==
    ASSUME CSInv, secure' = secure, NEW e \in Client, ClientHandler(e) \/ ClientPosted(e)
    PROVE  CSInv'
<1>1. e \in End /\ LinkInv /\ ~secure
  BY DEF CSInv, End
<1>2. LinkInv'
  <2>1. Handlers(e) \/ RunPosted(e)
    BY DEF ClientHandler, ClientPosted, Handlers
  <2> QED
    BY <1>1, <2>1, LinkSteps
<1>3. UNCHANGED <<resolving, asked, serverVars>>
  BY DEF ClientHandler, ClientPosted
<1>4. (\A x \in End : x # e => conn'[x] = conn[x]) => ServerKnows'
  <2>1. e \notin Server
    BY ConnectionAssumption
  <2> QED
    BY <1>3, <2>1, ServerUntouched DEF End
<1>5. CASE ClientPosted(e)
  <2>1. RunPosted(e) /\ OnDisconnect(e)
    BY <1>5 DEF ClientPosted
  <2>2. Outcome(conn[e], conn'[e]) /\ \A x \in End : x # e => conn'[x] = conn[x]
    BY <1>1, <2>1, PostedOutcome
  <2>3. ClientKnows'
    BY <1>3, <2>1, <2>2, ClientTold
  <2> QED
    BY <1>2, <1>4, <2>2, <2>3 DEF CSInv
<1>6. CASE ClientHandler(e)
  <2>1. PICK o \in conn[e].ops :
           /\ Handler(e, o)
           /\ IF o.kind = "connect"
              THEN /\ app' = IF Success(e, o) THEN "up" ELSE "idle"
                   /\ UNCHANGED m_connection
              ELSE OnDisconnect(e)
    BY <1>6 DEF ClientHandler
  <2>2. CASE o.kind # "connect"
    <3>1. Outcome(conn[e], conn'[e]) /\ \A x \in End : x # e => conn'[x] = conn[x]
      BY <1>1, <2>1, <2>2, HandlerOutcome
    <3>2. ClientKnows'
      BY <1>3, <2>1, <2>2, <3>1, ClientTold
    <3> QED
      BY <1>2, <1>4, <3>1, <3>2 DEF CSInv
  <2>3. CASE o.kind = "connect"
    <3>1. /\ ~Has(conn'[e], "connect")
          /\ conn'[e].state = IF Success(e, o) THEN "connected" ELSE "disconnected"
          /\ \A x \in End : x # e => conn'[x] = conn[x]
      BY <1>1, <2>1, <2>3, ConnectOutcome
    <3>2. \A x \in Client : x # e => conn'[x] = conn[x]
      BY <3>1 DEF End
    <3>3. m_connection = e /\ ~resolving /\ app # "idle"
      BY <2>3 DEF CSInv, ClientKnows, Live, Has
    <3>4. \A x \in Client : x # e => ~Live(conn'[x])
      BY <3>2, <3>3 DEF CSInv, ClientKnows
    <3>5. \A x \in Client : conn'[x].state = "connecting" => ~conn'[x].has_cb
      BY <3>1, <3>2 DEF CSInv, ClientKnows
    <3>6. /\ app' = IF Success(e, o) THEN "up" ELSE "idle"
          /\ m_connection' = m_connection
      BY <2>1, <2>3
    <3>7. Live(conn'[e]) => Success(e, o)
      BY <3>1 DEF Live
    <3>8. conn'[e].state # "none"
      BY <3>1
    <3>9. ClientKnows'
      BY <1>3, <3>3, <3>4, <3>5, <3>6, <3>7, <3>8 DEF CSInv, ClientKnows
    <3> QED
      BY <1>2, <1>4, <3>1, <3>9 DEF CSInv
  <2> QED
    BY <2>2, <2>3
<1> QED
  BY <1>5, <1>6

LEMMA ServerBookkeeping ==
    ASSUME CSInv, secure' = secure, NEW e \in Server, ServerHandler(e) \/ ServerPosted(e)
    PROVE  CSInv'
<1>1. e \in End /\ LinkInv /\ ~secure /\ (conn[e].state = "none" => conn[e] = NoObject)
  BY DEF CSInv, LinkInv, Linked, End
<1>2. LinkInv'
  BY <1>1, LinkSteps DEF ServerHandler, ServerPosted
<1>3. UNCHANGED clientVars /\ UNCHANGED <<acceptor, stopping>> /\ RemoveNotified(e)
  BY DEF ServerHandler, ServerPosted
<1>4. Outcome(conn[e], conn'[e]) /\ (\A x \in End : x # e => conn'[x] = conn[x]) /\ conn[e].state # "none"
  <2>1. NoObject.ops = {} /\ NoObject.posted = <<>>
    BY DEF NoObject
  <2>2. CASE ServerPosted(e)
    BY <1>1, <2>1, <2>2, PostedOutcome DEF ServerPosted, RunPosted
  <2>3. CASE ServerHandler(e)
    <3>1. PICK o \in conn[e].ops : Handler(e, o)
      BY <2>3 DEF ServerHandler, Handlers
    <3>2. o.kind # "connect"
      BY <1>1 DEF LinkInv, Muted, Mute
    <3> QED
      BY <1>1, <2>1, <3>1, <3>2, HandlerOutcome
  <2> QED
    BY <2>2, <2>3
<1>5. ServerKnows'
  BY <1>3, <1>4, ServerTold
<1>6. ClientKnows'
  <2>1. e \notin Client
    BY ConnectionAssumption
  <2> QED
    BY <1>3, <1>4, <2>1, ClientUntouched DEF End
<1> QED
  BY <1>2, <1>5, <1>6 DEF CSInv

LEMMA AcceptBookkeeping ==
    ASSUME CSInv, secure' = secure, NEW e \in Server, Accept(e) \/ Refuse(e)
    PROVE  CSInv'
<1>1. e \in End /\ conn \in [End -> Shape] /\ LinkInv /\ secure = FALSE /\ e \notin Client
  BY ConnectionAssumption DEF CSInv, LinkInv, CallbackInv, Typed, End
<1>2. m_connections \subseteq Server /\ ListHoldsOpen /\ {acceptor, stopping} \subseteq BOOLEAN
  BY DEF CSInv, ServerKnows
<1>3. UNCHANGED clientVars /\ UNCHANGED <<acceptor, stopping>> /\ conn[e].state = "none"
  BY DEF Accept, Refuse, serverVars, ConnectToClient
<1>4. ASSUME LinkInv', \A x \in End : x # e => conn'[x] = conn[x],
             \/ /\ conn'[e].state = "connecting" /\ conn'[e].has_cb
                /\ m_connections' = m_connections \cup {e}
             \/ conn'[e].state = "disconnected" /\ m_connections' = m_connections
      PROVE  CSInv'
  <2>1. \A x \in Server : x # e => conn'[x] = conn[x]
    BY <1>4 DEF End
  <2>2. \A x \in Client : conn'[x] = conn[x]
    BY <1>1, <1>4 DEF End
  <2>3. ClientKnows'
    BY <1>3, <2>2, ClientUntouched
  <2>4. ListHoldsOpen'
    BY <1>2, <1>3, <1>4, <2>1 DEF ListHoldsOpen
  <2>5. \A x \in Server : conn'[x].state = "connecting" => conn'[x].has_cb
    BY <1>4, <2>1 DEF CSInv, ServerKnows
  <2>6. m_connections' \subseteq Server
    BY <1>2, <1>4
  <2>7. ServerKnows'
    BY <1>2, <1>3, <2>4, <2>5, <2>6 DEF ServerKnows
  <2> QED
    BY <1>4, <2>3, <2>7 DEF CSInv
<1>5. CASE Accept(e)
  <2> DEFINE f == [NoObject EXCEPT !.state = "connecting", !.open = TRUE, !.has_cb = TRUE]
             d == ToClient(NoObject)
  <2>1. LinkInv'
    BY <1>1, <1>5, LinkSteps DEF Accept
  <2>2. conn' = [conn EXCEPT ![e] = d] /\ m_connections' = m_connections \cup {e}
    BY <1>5 DEF Accept, ConnectToClient, Step
  <2>3. d = Start(f, "readHeader", None)
    BY <1>1 DEF ToClient, ReadHeader
  <2>4. f \in Shape /\ f.state = "connecting" /\ f.has_cb = TRUE
    BY FreshGood DEF NoObject, Shape
  <2> HIDE DEF f, d
  <2>5. d.state = "connecting" /\ d.has_cb = TRUE
    BY <2>3, <2>4 DEF Start, Shape
  <2>6. conn'[e] = d /\ \A x \in End : x # e => conn'[x] = conn[x]
    BY <1>1, <2>2
  <2> QED
    BY <1>4, <2>1, <2>2, <2>5, <2>6
<1>6. CASE Refuse(e)
  <2>1. LinkInv' /\ conn'[e].state = "disconnected" /\ \A x \in End : x # e => conn'[x] = conn[x]
    BY <1>1, <1>6, RefuseSteps
  <2>2. m_connections' = m_connections
    BY <1>6 DEF Refuse, serverVars
  <2> QED
    BY <1>4, <2>1, <2>2
<1> QED
  BY <1>5, <1>6

LEMMA BrokenBookkeeping ==
    ASSUME CSInv, secure' = secure, NEW e \in Client, LinkBreaks(e)
    PROVE  CSInv'
<1>1. Break(e) /\ UNCHANGED <<clientVars, serverVars>> /\ conn' = conn /\ e \in End
  BY DEF LinkBreaks, Break, End
<1>2. LinkInv'
  BY <1>1, LinkSteps DEF CSInv
<1> QED
  BY <1>1, <1>2, ClientUntouched, ServerUntouched DEF CSInv

\* Without TLS both interfaces know what is the case: however connections are
\* made, refused and lost, the client holds the one that is connected and the
\* result of connecting is that of the connection it holds, and the server's
\* list is that of the open ones.
THEOREM BookkeepingCorrect ==
    ASSUME Secure = {FALSE}
    PROVE  CSSpec => []BookkeepingInvariant
<1>1. CSInit => CSInv
  BY BookkeepingInit
<1>2. CSInv /\ [CSNext]_<<csVars, secure>> => CSInv'
  <2> SUFFICES ASSUME CSInv, [CSNext]_<<csVars, secure>> PROVE CSInv'
    OBVIOUS
  <2>1. secure' = secure
    BY DEF CSNext
  <2>2. CASE Connect \/ ResolveFailed \/ AskDisconnect \/ Stop
    BY <2>1, <2>2, AskedBookkeeping
  <2>3. CASE RunDisconnect
    BY <2>1, <2>3, RunDisconnectBookkeeping
  <2>4. CASE RunStop
    BY <2>1, <2>4, RunStopBookkeeping
  <2>5. CASE \E e \in Client : Resolved(e) \/ LinkBreaks(e) \/ ClientHandler(e) \/ ClientPosted(e)
    BY <2>1, <2>5, ResolvedBookkeeping, BrokenBookkeeping, ClientBookkeeping
  <2>6. CASE \E e \in Server : Accept(e) \/ Refuse(e) \/ ServerHandler(e) \/ ServerPosted(e)
    BY <2>1, <2>6, AcceptBookkeeping, ServerBookkeeping
  <2>7. CASE \E e \in End : Net(e)
    BY <2>1, <2>7, NetBookkeeping
  <2>8. CASE UNCHANGED csVars
    <3>1. UNCHANGED <<vars, clientVars, serverVars>> /\ LinkInv'
      BY <2>1, <2>8 DEF csVars, vars, CSInv, LinkInv, CallbackInv, Typed, Linked, Muted, Coupled
    <3> QED
      BY <2>1, <3>1, ClientUntouched, ServerUntouched DEF CSInv, vars
  <2> QED
    BY <2>2, <2>3, <2>4, <2>5, <2>6, <2>7, <2>8 DEF CSNext
<1> QED
  BY <1>1, <1>2, BookkeepingImplies, PTL DEF CSSpec
=============================================================================
