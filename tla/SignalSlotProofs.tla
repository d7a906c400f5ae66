-------------------------- MODULE SignalSlotProofs --------------------------
(***************************************************************************)
(* Proofs about SignalSlot, for any signals and slots and any number of    *)
(* connections.  Each theorem names what its users must not do.            *)
(***************************************************************************)
EXTENDS SignalSlot, TLAPS

Connections == 1 .. MaxMade
Joints == [connection : Connections, owner : Slot]
Cleaners == [signal : Signal, connection : Connections]
Emission == [on : {TRUE}, kids : SUBSET Signal, todo : SUBSET Joints, at : SUBSET Joints,
             in : Signal \cup {None}, by : Signal \cup {None}]

Typed ==
    /\ alive \subseteq Signal /\ forsaken \subseteq Signal /\ ending \subseteq Slot
    /\ callbacks \in [Signal -> SUBSET Joints]
    /\ children \in [Signal -> SUBSET Signal]
    /\ parent \in [Signal -> Signal \cup {None}]
    /\ slot \in [Slot -> {"live", "leaving", "gone"}]
    /\ data \in [Slot -> 0 .. made] /\ made \in 0 .. MaxMade
    /\ cleaners \in [Slot -> SUBSET Cleaners]
    /\ copied \in [Slot -> SUBSET Cleaners]
    /\ joining \in [Slot -> SUBSET Cleaners]
    /\ lost \in [Slot -> SUBSET Cleaners]
    /\ emission \in [Signal -> {Idle} \cup Emission]

-----------------------------------------------------------------------------
(* What a slot knows.                                                      *)

\* the connections of the slot s that the signals hold
Held(s) == {k \in Cleaners : Joint(k.connection, s) \in callbacks[k.signal]}

\* Whoever can call a slot, it can disconnect itself from, but for what it has
\* lost: it has a cleaner for each other connection that is made or is being
\* made, or a copy of it while it leaves; a slot that has gone is held through
\* lost connections only.
Known(s) ==
    /\ cleaners[s] \subseteq (Held(s) \cup joining[s]) \ lost[s]
    /\ lost[s] \subseteq Held(s) \cup joining[s]
    /\ slot[s] = "live" => (Held(s) \cup joining[s]) \ lost[s] \subseteq cleaners[s]
    /\ joining[s] # {} => slot[s] = "live"
    /\ joining[s] \cap Held(s) = {}
    /\ \A k, l \in joining[s] : k = l
    /\ slot[s] = "leaving" => Held(s) \ lost[s] \subseteq copied[s]
    /\ slot[s] = "gone" => Held(s) \subseteq lost[s]
    /\ \A k \in Held(s) \cup joining[s] : k.connection \in 0 .. made

\* A signal that has ended holds no joint, and while one is emitted its joints
\* stay.
Called(g) ==
    /\ g \notin alive => callbacks[g] = {}
    /\ emission[g].on => emission[g].at \cup emission[g].todo \subseteq callbacks[g]

SlotInv ==
    /\ Typed
    /\ \A s \in Slot : Known(s) /\ \A j \in joining[s] : j.signal \in alive
    /\ \A g \in Signal : Called(g)

LEMMA Records ==
    /\ \A j \in Joints : j = Joint(j.connection, j.owner) /\ j.connection \in Connections /\ j.owner \in Slot
    /\ \A k \in Cleaners : k = Cleaner(k.signal, k.connection) /\ k.connection \in Connections /\ k.signal \in Signal
    /\ \A c \in Connections, s \in Slot :
         Joint(c, s) \in Joints /\ Joint(c, s).connection = c /\ Joint(c, s).owner = s
    /\ \A g \in Signal, c \in Connections :
         Cleaner(g, c) \in Cleaners /\ Cleaner(g, c).signal = g /\ Cleaner(g, c).connection = c
<1>1. \A j \in Joints : j = Joint(j.connection, j.owner) /\ j.connection \in Connections /\ j.owner \in Slot
  BY DEF Joints, Joint
<1>2. \A k \in Cleaners : k = Cleaner(k.signal, k.connection) /\ k.connection \in Connections /\ k.signal \in Signal
  BY DEF Cleaners, Cleaner
<1>3. \A c \in Connections, s \in Slot :
         Joint(c, s) \in Joints /\ Joint(c, s).connection = c /\ Joint(c, s).owner = s
  BY DEF Joints, Joint
<1>4. \A g \in Signal, c \in Connections :
         Cleaner(g, c) \in Cleaners /\ Cleaner(g, c).signal = g /\ Cleaner(g, c).connection = c
  BY DEF Cleaners, Cleaner
<1> QED
  BY <1>1, <1>2, <1>3, <1>4

\* A joint of a slot is a connection that is held.
LEMMA JointIsHeld ==
    ASSUME Typed, NEW g \in Signal, NEW j \in callbacks[g]
    PROVE  /\ j.owner \in Slot /\ Cleaner(g, j.connection) \in Held(j.owner)
           /\ j = Joint(j.connection, j.owner)
<1>1. j \in Joints
  BY DEF Typed
<1> DEFINE k == Cleaner(g, j.connection)
<1>2. j.owner \in Slot /\ k \in Cleaners /\ k.signal = g /\ k.connection = j.connection
      /\ j = Joint(j.connection, j.owner)
  BY <1>1, Records
<1> HIDE DEF k
<1>3. k \in Held(j.owner)
  BY <1>2 DEF Held
<1> QED
  BY <1>2, <1>3 DEF k

\* Who owns a joint has not gone, or has lost the connection.
LEMMA OwnersStay ==
    ASSUME Typed, \A s \in Slot : Known(s), NEW g \in Signal, NEW J \in SUBSET callbacks[g]
    PROVE  ~TouchesGone(g, J)
<1> SUFFICES ASSUME NEW j \in J, slot[j.owner] = "gone"
             PROVE  Cleaner(g, j.connection) \in lost[j.owner]
  BY DEF TouchesGone
<1>1. j.owner \in Slot /\ Cleaner(g, j.connection) \in Held(j.owner)
  BY JointIsHeld
<1> QED
  BY <1>1 DEF Known

\* The joints J of a signal that nobody emits go, and their owners are told: each
\* loses all of its cleaners, and a slot that lives loses the other connections.
LEMMA Forgetting ==
    ASSUME Typed, \A s \in Slot : Known(s), \A x \in Signal : Called(x),
           NEW g \in Signal, Free(g), NEW J \in SUBSET callbacks[g], NEW K, K = callbacks[g] \ J,
           callbacks' = [callbacks EXCEPT ![g] = K], Release(g, J),
           UNCHANGED <<slot, joining, emission, made>>,
           alive' \in SUBSET alive, \A x \in Signal : x \notin alive' => x \notin alive \/ (x = g /\ K = {}),
           \A s \in Slot : slot[s] = "leaving" => Held(s)' \cap copied[s] \subseteq copied'[s]
    PROVE  /\ callbacks' \in [Signal -> SUBSET Joints] /\ data' \in [Slot -> 0 .. made']
           /\ cleaners' \in [Slot -> SUBSET Cleaners] /\ lost' \in [Slot -> SUBSET Cleaners]
           /\ \A s \in Slot : Known(s)'
           /\ \A x \in Signal : Called(x)'
<1> DEFINE R == Owners(J)
           X(s) == CleanersOf(s, g, J)
           More(s) == IF s \in R /\ slot[s] = "live" THEN cleaners[s] ELSE {}
<1>1. /\ callbacks \in [Signal -> SUBSET Joints] /\ cleaners \in [Slot -> SUBSET Cleaners]
      /\ lost \in [Slot -> SUBSET Cleaners]
      /\ callbacks[g] \subseteq Joints /\ joining' = joining /\ slot' = slot /\ made' = made
  BY DEF Typed
<1>2. /\ data' = [s \in Slot |-> IF s \in R THEN NoConnection ELSE data[s]]
      /\ cleaners' = [s \in Slot |-> IF s \in R THEN {} ELSE cleaners[s]]
      /\ lost' = [s \in Slot |-> (lost[s] \cup More(s)) \ X(s)]
  BY DEF Release
<1>3. /\ callbacks' \in [Signal -> SUBSET Joints] /\ cleaners' \in [Slot -> SUBSET Cleaners]
      /\ lost' \in [Slot -> SUBSET Cleaners]
  <2>1. \A s \in Slot : More(s) \subseteq Cleaners
    BY <1>1
  <2> HIDE DEF R, X, More
  <2> QED
    BY <1>1, <1>2, <2>1
<1>4. data' \in [Slot -> 0 .. made']
  <2>1. data \in [Slot -> 0 .. made] /\ NoConnection \in 0 .. made
    BY SignalAssumption DEF Typed, NoConnection
  <2> QED
    BY <1>1, <1>2, <2>1
<1>5. callbacks'[g] = K /\ \A x \in Signal : x # g => callbacks'[x] = callbacks[x]
  BY <1>1
<1>6. ASSUME NEW s \in Slot
      PROVE  X(s) \subseteq Held(s) /\ Held(s)' = Held(s) \ X(s) /\ (s \notin R => X(s) = {})
  <2>1. \A j \in J : j.owner = s => Cleaner(g, j.connection) \in Held(s)
    BY JointIsHeld
  <2>2. X(s) \subseteq Held(s) /\ (s \notin R => X(s) = {})
    BY <2>1 DEF CleanersOf, Owners
  <2>3. ASSUME NEW k \in Cleaners
        PROVE  k \in X(s) <=> k.signal = g /\ Joint(k.connection, s) \in J
    <3>1. /\ k = Cleaner(k.signal, k.connection) /\ Joint(k.connection, s).owner = s
          /\ Joint(k.connection, s).connection = k.connection
      BY <2>3, Records
    <3>2. ASSUME k \in X(s) PROVE k.signal = g /\ Joint(k.connection, s) \in J
      <4>1. PICK j \in J : j.owner = s /\ k = Cleaner(g, j.connection)
        BY <3>2 DEF CleanersOf
      <4>2. j \in Joints
        BY <1>1
      <4>3. k.signal = g /\ k.connection = j.connection /\ j = Joint(j.connection, s)
        BY <4>1, <4>2, Records
      <4> QED
        BY <4>3
    <3>3. ASSUME k.signal = g, Joint(k.connection, s) \in J PROVE k \in X(s)
      BY <3>1, <3>3 DEF CleanersOf
    <3> QED
      BY <3>2, <3>3
  <2> HIDE DEF X
  <2>4. ASSUME NEW k \in Cleaners
        PROVE  Joint(k.connection, s) \in callbacks'[k.signal]
                 <=> Joint(k.connection, s) \in callbacks[k.signal] /\ k \notin X(s)
    <3>1. k.signal \in Signal
      BY <2>4, Records
    <3> QED
      BY <1>5, <2>3, <3>1
  <2>5. Held(s)' = Held(s) \ X(s)
    BY <2>4 DEF Held
  <2> QED
    BY <2>2, <2>5
<1>7. ASSUME NEW s \in Slot PROVE Known(s)'
  <2>1. /\ cleaners'[s] = (IF s \in R THEN {} ELSE cleaners[s]) /\ lost'[s] = (lost[s] \cup More(s)) \ X(s)
        /\ joining'[s] = joining[s] /\ slot'[s] = slot[s]
        /\ X(s) \subseteq Held(s) /\ Held(s)' = Held(s) \ X(s) /\ (s \notin R => X(s) = {})
        /\ (slot[s] = "leaving" => Held(s)' \cap copied[s] \subseteq copied'[s])
    BY <1>1, <1>2, <1>6
  <2>2. More(s) = IF s \in R /\ slot[s] = "live" THEN cleaners[s] ELSE {}
    OBVIOUS
  <2> HIDE DEF R, X, More
  <2>3. Known(s)
    OBVIOUS
  <2>4. joining[s] \cap Held(s)' = {} /\ \A k \in Held(s)' \cup joining[s] : k.connection \in 0 .. made
    BY <2>1, <2>3 DEF Known
  <2>5. /\ lost[s] \ X(s) \subseteq (Held(s) \ X(s)) \cup joining[s]
        /\ (lost[s] \cup cleaners[s]) \ X(s) \subseteq (Held(s) \ X(s)) \cup joining[s]
        /\ (Held(s) \cup joining[s]) \ lost[s] \subseteq cleaners[s]
             => ((Held(s) \ X(s)) \cup joining[s]) \ ((lost[s] \cup cleaners[s]) \ X(s)) = {}
        /\ (Held(s) \ X(s)) \ (lost[s] \ X(s)) \subseteq Held(s) \ lost[s]
        /\ Held(s) \subseteq lost[s] => Held(s) \ X(s) \subseteq lost[s] \ X(s)
    <3>1. /\ X(s) \subseteq Held(s) /\ joining[s] \cap Held(s) = {}
          /\ cleaners[s] \subseteq (Held(s) \cup joining[s]) \ lost[s] /\ lost[s] \subseteq Held(s) \cup joining[s]
      BY <2>1, <2>3 DEF Known
    <3> QED
      BY <3>1
  <2>6. CASE s \in R /\ slot[s] = "live"
    <3>1. cleaners'[s] = {} /\ lost'[s] = (lost[s] \cup cleaners[s]) \ X(s)
      BY <2>1, <2>2, <2>6
    <3>2. (Held(s)' \cup joining[s]) \ lost'[s] = {} /\ lost'[s] \subseteq Held(s)' \cup joining[s]
      BY <2>1, <2>3, <2>5, <2>6, <3>1 DEF Known
    <3> QED
      BY <1>1, <2>1, <2>3, <2>4, <2>6, <3>1, <3>2 DEF Known
  <2>7. CASE s \in R /\ slot[s] # "live"
    <3>1. cleaners'[s] = {} /\ lost'[s] = lost[s] \ X(s)
      BY <2>1, <2>2, <2>7
    <3>2. /\ lost'[s] \subseteq Held(s)' \cup joining[s]
          /\ Held(s)' \ lost'[s] \subseteq Held(s) \ lost[s]
          /\ Held(s) \subseteq lost[s] => Held(s)' \subseteq lost'[s]
      BY <2>1, <2>5, <3>1
    <3>3. slot[s] = "leaving" => Held(s)' \ lost'[s] \subseteq copied'[s]
      BY <2>1, <2>3, <3>2 DEF Known
    <3> QED
      BY <1>1, <2>1, <2>3, <2>4, <2>7, <3>1, <3>2, <3>3 DEF Known
  <2>8. CASE s \notin R
    <3>1. cleaners'[s] = cleaners[s] /\ lost'[s] = lost[s] /\ Held(s)' = Held(s)
      BY <2>1, <2>2, <2>8
    <3>2. slot[s] = "leaving" => Held(s)' \ lost'[s] \subseteq copied'[s]
      BY <2>1, <2>3, <3>1 DEF Known
    <3> QED
      BY <1>1, <2>1, <2>3, <2>4, <3>1, <3>2 DEF Known
  <2> QED
    BY <2>6, <2>7, <2>8
<1>8. ASSUME NEW x \in Signal PROVE Called(x)'
  <2>1. CASE x = g
    BY <1>5, <2>1 DEF Called, Free
  <2>2. CASE x # g
    BY <1>5, <2>2 DEF Called
  <2> QED
    BY <2>1, <2>2
<1> QED
  BY <1>3, <1>4, <1>7, <1>8

-----------------------------------------------------------------------------
(* The actions, one by one.                                                *)

LEMMA Counting ==
    ASSUME NEW n \in Nat, NEW m \in 0 .. n, m < n
    PROVE  /\ m \in Nat /\ m + 1 \in 1 .. n /\ m + 1 \in 0 .. n /\ m + 1 \in 0 .. (m + 1)
           /\ 0 .. m \subseteq 0 .. (m + 1) /\ m + 1 \notin 0 .. m
<1>1. m \in Nat /\ m + 1 \in 1 .. n
  OBVIOUS
<1>2. m + 1 \in 0 .. n /\ m + 1 \notin 0 .. m
  OBVIOUS
<1>3. m + 1 \in 0 .. (m + 1) /\ 0 .. m \subseteq 0 .. (m + 1)
  OBVIOUS
<1> QED
  BY <1>1, <1>2, <1>3

LEMMA ConnectSteps ==
    ASSUME SlotInv, NEW g \in Signal, NEW s \in Slot, Connect(g, s)
    PROVE  SlotInv'
<1> DEFINE k == Cleaner(g, made + 1)
<1>1. /\ g \in alive /\ slot[s] = "live" /\ joining[s] = {}
      /\ made' = made + 1 /\ data' = [data EXCEPT ![s] = made + 1]
      /\ cleaners' = [cleaners EXCEPT ![s] = @ \cup {k}] /\ joining' = [joining EXCEPT ![s] = {k}]
      /\ UNCHANGED <<alive, forsaken, children, parent, slot, copied, ending, lost, callbacks, emission>>
  BY DEF Connect, graph
<1>2. /\ made \in Nat /\ made + 1 \in Connections /\ made + 1 \in 0 .. MaxMade /\ made + 1 \in 0 .. (made + 1)
      /\ 0 .. made \subseteq 0 .. (made + 1) /\ made + 1 \notin 0 .. made
  <2>1. made \in 0 .. MaxMade /\ made < MaxMade /\ MaxMade \in Nat
    BY SignalAssumption DEF SlotInv, Typed, Connect
  <2> QED
    BY <2>1, Counting DEF Connections
<1>3. k \in Cleaners /\ k.signal = g /\ k.connection = made + 1
  BY <1>2, Records
<1> HIDE DEF k
<1>4. /\ data \in [Slot -> 0 .. made] /\ cleaners \in [Slot -> SUBSET Cleaners]
      /\ joining \in [Slot -> SUBSET Cleaners]
  BY DEF SlotInv, Typed
<1>5. data' \in [Slot -> 0 .. made']
  <2>1. \A x \in Slot : data[x] \in 0 .. (made + 1)
    BY <1>2, <1>4
  <2> QED
    BY <1>1, <1>2, <1>4, <2>1
<1>6. cleaners' \in [Slot -> SUBSET Cleaners] /\ joining' \in [Slot -> SUBSET Cleaners]
  BY <1>1, <1>3, <1>4
<1>7. Typed'
  <2>1. made' \in 0 .. MaxMade
    BY <1>1, <1>2
  <2> QED
    BY <1>1, <1>5, <1>6, <2>1 DEF SlotInv, Typed
<1>8. \A x \in Slot : Held(x)' = Held(x)
  BY <1>1 DEF Held
<1>9. \A x \in Slot : \A l \in Held(x)' \cup joining[x] : l.connection \in 0 .. made'
  BY <1>1, <1>2, <1>8 DEF SlotInv, Known
<1>10. Known(s)'
  <2>1. cleaners'[s] = cleaners[s] \cup {k} /\ joining'[s] = {k} /\ slot'[s] = "live" /\ lost'[s] = lost[s]
    BY <1>1, <1>4
  <2>2. Known(s)
    BY DEF SlotInv
  <2>3. k \notin Held(s)
    BY <1>2, <1>3, <2>2 DEF Known
  <2>4. k \notin lost[s]
    BY <1>1, <2>2, <2>3 DEF Known
  <2>5. cleaners[s] = Held(s) \ lost[s] /\ lost[s] \subseteq Held(s)
    BY <1>1, <2>2 DEF Known
  <2>6. /\ cleaners'[s] = (Held(s) \cup {k}) \ lost[s] /\ lost[s] \subseteq Held(s) \cup {k}
        /\ {k} \cap Held(s) = {} /\ \A l, m \in {k} : l = m
    BY <2>1, <2>3, <2>4, <2>5
  <2>7. \A l \in Held(s) \cup {k} : l.connection \in 0 .. made'
    BY <1>1, <1>2, <1>3, <1>8, <1>9
  <2> QED
    BY <1>8, <2>1, <2>6, <2>7 DEF Known
<1>11. ASSUME NEW x \in Slot, x # s PROVE Known(x)' /\ \A j \in joining'[x] : j.signal \in alive'
  <2>1. /\ cleaners'[x] = cleaners[x] /\ joining'[x] = joining[x] /\ lost' = lost
        /\ slot' = slot /\ copied' = copied /\ alive' = alive
    BY <1>1, <1>4, <1>11
  <2> QED
    BY <1>8, <1>9, <2>1 DEF SlotInv, Known
<1>12. \A j \in joining'[s] : j.signal \in alive'
  BY <1>1, <1>3, <1>4
<1>13. \A x \in Signal : Called(x)'
  BY <1>1 DEF SlotInv, Called
<1> QED
  BY <1>7, <1>10, <1>11, <1>12, <1>13 DEF SlotInv

LEMMA JoinSteps ==
    ASSUME SlotInv, NEW s \in Slot, Join(s)
    PROVE  SlotInv'
<1>1. PICK j \in joining[s] :
        /\ Free(j.signal)
        /\ callbacks' = [callbacks EXCEPT ![j.signal] = @ \cup {Joint(j.connection, s)}]
        /\ joining' = [joining EXCEPT ![s] = {}]
        /\ UNCHANGED <<alive, forsaken, children, parent, slot, data, cleaners, copied, ending, lost, emission, made>>
  BY DEF Join, graph
<1>2. callbacks \in [Signal -> SUBSET Joints] /\ joining \in [Slot -> SUBSET Cleaners]
  BY DEF SlotInv, Typed
<1> DEFINE n == Joint(j.connection, s)
           h == j.signal
<1>3. j \in Cleaners /\ h \in Signal /\ h \in alive /\ n \in Joints /\ n.owner = s /\ n.connection = j.connection
  BY <1>1, <1>2, Records DEF SlotInv
<1>4. /\ callbacks' \in [Signal -> SUBSET Joints] /\ joining' \in [Slot -> SUBSET Cleaners]
      /\ \A x \in Signal : callbacks'[x] = IF x = h THEN callbacks[x] \cup {n} ELSE callbacks[x]
      /\ \A x \in Slot : joining'[x] = IF x = s THEN {} ELSE joining[x]
  BY <1>1, <1>2, <1>3
<1>5. Typed'
  BY <1>1, <1>4 DEF SlotInv, Typed
<1>6. /\ Known(s) /\ slot[s] = "live" /\ joining[s] = {j} /\ j \notin Held(s)
      /\ cleaners[s] = (Held(s) \cup {j}) \ lost[s] /\ lost[s] \subseteq Held(s) \cup {j}
  <2>1. Known(s) /\ slot[s] = "live"
    BY <1>1 DEF SlotInv, Known
  <2>2. joining[s] = {j}
    BY <1>1, <2>1 DEF Known
  <2> QED
    BY <2>1, <2>2 DEF Known
<1>7. Held(s)' = Held(s) \cup {j}
  <2>1. ASSUME NEW k \in Cleaners PROVE Joint(k.connection, s) \in callbacks'[k.signal] <=> k \in Held(s) \/ k = j
    <3>1. /\ k.signal \in Signal /\ k.connection \in Connections /\ Joint(k.connection, s).connection = k.connection
          /\ k = Cleaner(k.signal, k.connection) /\ j = Cleaner(h, j.connection)
      BY <1>3, Records
    <3>2. Joint(k.connection, s) \in callbacks[k.signal] <=> k \in Held(s)
      BY <2>1 DEF Held
    <3> HIDE DEF n, h
    <3>3. Joint(k.connection, s) \in callbacks'[k.signal]
            <=> k \in Held(s) \/ (k.signal = h /\ Joint(k.connection, s) = n)
      BY <1>4, <3>1, <3>2
    <3>4. Joint(k.connection, s) = n => k.connection = j.connection
      BY <1>3, <3>1
    <3>5. k.signal = h /\ k.connection = j.connection => k = j
      BY <3>1
    <3>6. k = j => k.signal = h /\ Joint(k.connection, s) = n
      BY DEF n, h
    <3> QED
      BY <3>3, <3>4, <3>5, <3>6
  <2>2. Held(s)' = {k \in Cleaners : k \in Held(s) \/ k = j}
    BY <2>1 DEF Held
  <2>3. Held(s) \subseteq Cleaners
    BY DEF Held
  <2> QED
    BY <1>3, <2>2, <2>3
<1>8. Known(s)'
  <2>1. /\ joining'[s] = {} /\ UNCHANGED <<slot, cleaners, lost, copied, made>>
    BY <1>1, <1>4
  <2>2. \A k \in Held(s)' : k.connection \in 0 .. made
    BY <1>6, <1>7 DEF Known
  <2> QED
    BY <1>6, <1>7, <2>1, <2>2 DEF Known
<1>9. ASSUME NEW x \in Slot, x # s PROVE Known(x)' /\ \A i \in joining'[x] : i.signal \in alive'
  <2>1. Held(x)' = Held(x)
    <3>1. ASSUME NEW k \in Cleaners PROVE Joint(k.connection, x) \in callbacks'[k.signal] <=> Joint(k.connection, x) \in callbacks[k.signal]
      <4>1. k.signal \in Signal /\ Joint(k.connection, x) # n
        BY <1>3, <1>9, Records
      <4> HIDE DEF n, h
      <4> QED
        BY <1>4, <4>1
    <3> QED
      BY <3>1 DEF Held
  <2>2. joining'[x] = joining[x]
    BY <1>4, <1>9
  <2> QED
    BY <1>1, <2>1, <2>2 DEF SlotInv, Known
<1>10. \A i \in joining'[s] : i.signal \in alive'
  BY <1>4
<1>11. ASSUME NEW x \in Signal PROVE Called(x)'
  <2>1. callbacks[x] \subseteq callbacks'[x] /\ (x # h => callbacks'[x] = callbacks[x])
    BY <1>4
  <2>2. Called(x) /\ alive' = alive /\ emission' = emission /\ (x = h => x \in alive)
    BY <1>1, <1>3 DEF SlotInv
  <2> HIDE DEF h
  <2> QED
    BY <2>1, <2>2 DEF Called
<1> QED
  BY <1>5, <1>8, <1>9, <1>10, <1>11 DEF SlotInv

LEMMA DestroySteps ==
    ASSUME SlotInv, NEW g \in Signal, NEW c, Free(g), Destroy(g, c),
           UNCHANGED <<alive, forsaken, children, parent, slot, ending, joining, emission, made>>,
           copied' \in [Slot -> SUBSET Cleaners],
           \A s \in Slot : slot[s] = "leaving" => Held(s)' \cap copied[s] \subseteq copied'[s]
    PROVE  SlotInv' /\ (misused' => misused)
<1> DEFINE gone == {j \in callbacks[g] : j.connection = c}
           K == callbacks[g] \ gone
<1>1. /\ callbacks' = [callbacks EXCEPT ![g] = K] /\ Release(g, gone)
      /\ misused' = (misused \/ TouchesGone(g, gone))
  BY DEF Destroy, SlotInv, Typed
<1>2. gone \in SUBSET callbacks[g] /\ K = callbacks[g] \ gone
  OBVIOUS
<1> HIDE DEF K, gone
<1>3. /\ callbacks' \in [Signal -> SUBSET Joints] /\ data' \in [Slot -> 0 .. made']
      /\ cleaners' \in [Slot -> SUBSET Cleaners] /\ lost' \in [Slot -> SUBSET Cleaners]
      /\ \A s \in Slot : Known(s)'
      /\ \A x \in Signal : Called(x)'
  <2>1. alive' \in SUBSET alive /\ \A x \in Signal : x \notin alive' => x \notin alive \/ (x = g /\ K = {})
    OBVIOUS
  <2>2. Typed /\ (\A s \in Slot : Known(s)) /\ \A x \in Signal : Called(x)
    BY DEF SlotInv
  <2> QED
    BY <1>1, <1>2, <2>1, <2>2, Forgetting
<1>4. Typed'
  BY <1>3 DEF SlotInv, Typed
<1>5. misused' => misused
  <2>1. ~TouchesGone(g, gone)
    BY <1>2, OwnersStay DEF SlotInv
  <2> QED
    BY <1>1, <2>1
<1>6. SlotInv'
  BY <1>3, <1>4 DEF SlotInv
<1> QED
  BY <1>5, <1>6

LEMMA DisconnectSteps ==
    ASSUME SlotInv, NEW g \in Signal, NEW c, Disconnect(g, c)
    PROVE  SlotInv' /\ (misused' => misused)
<1>1. copied \in [Slot -> SUBSET Cleaners]
  BY DEF SlotInv, Typed
<1> QED
  BY <1>1, DestroySteps DEF Disconnect, graph

LEMMA CleanSteps ==
    ASSUME SlotInv, NEW s \in Slot, Clean(s)
    PROVE  SlotInv' /\ ((\A k \in copied[s] : k.signal \in alive) => (misused' => misused))
<1>1. PICK k \in copied[s] :
         /\ copied' = [copied EXCEPT ![s] = @ \ {k}]
         /\ IF k.signal \in alive
              THEN Free(k.signal) /\ Destroy(k.signal, k.connection)
              ELSE misused' = TRUE /\ UNCHANGED <<callbacks, data, cleaners, lost>>
         /\ UNCHANGED <<alive, forsaken, children, parent, slot, ending, joining, emission, made>>
  BY DEF Clean, graph
<1>2. copied \in [Slot -> SUBSET Cleaners] /\ callbacks \in [Signal -> SUBSET Joints]
  BY DEF SlotInv, Typed
<1>3. /\ copied' \in [Slot -> SUBSET Cleaners] /\ k \in Cleaners /\ k.signal \in Signal
      /\ \A x \in Slot : copied'[x] = IF x = s THEN copied[s] \ {k} ELSE copied[x]
  BY <1>1, <1>2, Records
<1>4. CASE k.signal \in alive
  <2>1. k \notin Held(s)'
    <3>1. callbacks'[k.signal] = {j \in callbacks[k.signal] : j.connection # k.connection}
      BY <1>1, <1>2, <1>3, <1>4 DEF Destroy
    <3>2. Joint(k.connection, s).connection = k.connection
      BY <1>3, Records
    <3> QED
      BY <3>1, <3>2 DEF Held
  <2>2. \A x \in Slot : slot[x] = "leaving" => Held(x)' \cap copied[x] \subseteq copied'[x]
    BY <1>3, <2>1
  <2> QED
    BY <1>1, <1>3, <1>4, <2>2, DestroySteps
<1>5. CASE k.signal \notin alive
  <2>1. UNCHANGED <<callbacks, data, cleaners, lost>>
    BY <1>1, <1>5
  <2>2. Typed'
    BY <1>1, <1>3, <2>1 DEF SlotInv, Typed
  <2>3. callbacks[k.signal] = {}
    BY <1>3, <1>5 DEF SlotInv, Called
  <2>4. k \notin Held(s)
    BY <2>3 DEF Held
  <2>5. ASSUME NEW x \in Slot PROVE Known(x)'
    <3>1. Held(x)' = Held(x) /\ slot' = slot /\ joining' = joining
      BY <1>1, <2>1 DEF Held
    <3>2. slot[x] = "leaving" => Held(x) \ lost[x] \subseteq copied'[x]
      BY <1>3, <2>4 DEF SlotInv, Known
    <3> QED
      BY <1>1, <2>1, <3>1, <3>2 DEF SlotInv, Known
  <2>6. \A x \in Signal : Called(x)'
    BY <1>1, <2>1 DEF SlotInv, Called
  <2> QED
    BY <1>1, <1>5, <2>2, <2>5, <2>6 DEF SlotInv
<1> QED
  BY <1>4, <1>5

LEMMA DisconnectAllSteps ==
    ASSUME SlotInv, NEW g \in Signal, DisconnectAll(g)
    PROVE  SlotInv' /\ (misused' => misused \/ ~(children[g] \subseteq alive))
<1>1. /\ callbacks' = [callbacks EXCEPT ![g] = {}] /\ Release(g, callbacks[g])
      /\ misused' = (misused \/ TouchesGone(g, callbacks[g]) \/ ~(children[g] \subseteq alive))
      /\ Free(g) /\ parent' = Orphaned(g) /\ children' = [children EXCEPT ![g] = {}]
      /\ UNCHANGED <<alive, forsaken, slot, copied, ending, joining, emission, made>>
  BY DEF DisconnectAll
<1>2. callbacks[g] \in SUBSET callbacks[g] /\ {} = callbacks[g] \ callbacks[g]
  OBVIOUS
<1>3. misused' => misused \/ ~(children[g] \subseteq alive)
  <2>1. ~TouchesGone(g, callbacks[g])
    BY OwnersStay DEF SlotInv
  <2> QED
    BY <1>1, <2>1
<1>4. /\ callbacks' \in [Signal -> SUBSET Joints] /\ data' \in [Slot -> 0 .. made']
      /\ cleaners' \in [Slot -> SUBSET Cleaners] /\ lost' \in [Slot -> SUBSET Cleaners]
      /\ \A s \in Slot : Known(s)'
      /\ \A x \in Signal : Called(x)'
  <2>1. Typed /\ (\A s \in Slot : Known(s)) /\ \A x \in Signal : Called(x)
    BY DEF SlotInv
  <2>2. alive' \in SUBSET alive /\ \A x \in Signal : x \notin alive' => x \notin alive \/ (x = g /\ {} = {})
    BY <1>1
  <2>3. \A s \in Slot : slot[s] = "leaving" => Held(s)' \cap copied[s] \subseteq copied'[s]
    BY <1>1
  <2> QED
    BY <1>1, <1>2, <2>1, <2>2, <2>3, Forgetting
<1>5. parent' \in [Signal -> Signal \cup {None}] /\ children' \in [Signal -> SUBSET Signal]
  BY <1>1 DEF Orphaned, SlotInv, Typed
<1>6. Typed'
  BY <1>1, <1>4, <1>5 DEF SlotInv, Typed
<1>7. \A s \in Slot : \A j \in joining'[s] : j.signal \in alive'
  BY <1>1 DEF SlotInv
<1> QED
  BY <1>3, <1>4, <1>6, <1>7 DEF SlotInv

LEMMA EndSignalSteps ==
    ASSUME SlotInv, NEW g \in Signal, EndSignal(g)
    PROVE  SlotInv' /\ (misused' => misused \/ FindsGone(g))
<1>1. /\ callbacks' = [callbacks EXCEPT ![g] = {}] /\ Release(g, callbacks[g])
      /\ misused' = (misused \/ TouchesGone(g, callbacks[g]) \/ FindsGone(g))
      /\ Free(g) /\ MayEnd(g) /\ alive' = alive \ {g}
      /\ parent' = [h \in Signal |-> IF h \in children[g] \cup {g} THEN None ELSE parent[h]]
      /\ forsaken' = forsaken \ (children[g] \cup {g})
      /\ children' = [h \in Signal |->
           IF h = g THEN {} ELSE IF h = parent[g] THEN children[h] \ {g} ELSE children[h]]
      /\ UNCHANGED <<slot, copied, ending, joining, emission, made>>
  BY DEF EndSignal
<1>2. callbacks[g] \in SUBSET callbacks[g] /\ {} = callbacks[g] \ callbacks[g]
  OBVIOUS
<1>3. misused' => misused \/ FindsGone(g)
  <2>1. ~TouchesGone(g, callbacks[g])
    BY OwnersStay DEF SlotInv
  <2> QED
    BY <1>1, <2>1
<1>4. /\ callbacks' \in [Signal -> SUBSET Joints] /\ data' \in [Slot -> 0 .. made']
      /\ cleaners' \in [Slot -> SUBSET Cleaners] /\ lost' \in [Slot -> SUBSET Cleaners]
      /\ \A s \in Slot : Known(s)'
      /\ \A x \in Signal : Called(x)'
  <2>1. Typed /\ (\A s \in Slot : Known(s)) /\ \A x \in Signal : Called(x)
    BY DEF SlotInv
  <2>2. alive' \in SUBSET alive /\ \A x \in Signal : x \notin alive' => x \notin alive \/ (x = g /\ {} = {})
    BY <1>1
  <2>3. \A s \in Slot : slot[s] = "leaving" => Held(s)' \cap copied[s] \subseteq copied'[s]
    BY <1>1
  <2>4. /\ callbacks' = [callbacks EXCEPT ![g] = {}] /\ Free(g) /\ Release(g, callbacks[g])
        /\ UNCHANGED <<slot, joining, emission, made>>
    BY <1>1
  <2> QED
    BY <1>2, <2>1, <2>2, <2>3, <2>4, Forgetting
<1>5. parent' \in [Signal -> Signal \cup {None}] /\ children' \in [Signal -> SUBSET Signal]
      /\ forsaken' \subseteq Signal
  BY <1>1 DEF SlotInv, Typed
<1>6. Typed'
  BY <1>1, <1>4, <1>5 DEF SlotInv, Typed
<1>7. \A s \in Slot : \A j \in joining'[s] : j.signal \in alive'
  <2>1. \A s \in Slot : \A j \in joining[s] : j.signal # g
    BY <1>1 DEF MayEnd
  <2> QED
    BY <1>1, <2>1 DEF SlotInv
<1> QED
  BY <1>3, <1>4, <1>6, <1>7 DEF SlotInv

LEMMA LeaveSteps ==
    ASSUME SlotInv, NEW s \in Slot, (\E ends \in BOOLEAN : Leave(s, ends)) \/ Left(s)
    PROVE  SlotInv'
<1>1. /\ UNCHANGED <<alive, forsaken, children, parent, data, cleaners, joining, lost, callbacks, emission, made>>
      /\ slot \in [Slot -> {"live", "leaving", "gone"}] /\ copied \in [Slot -> SUBSET Cleaners]
      /\ cleaners \in [Slot -> SUBSET Cleaners] /\ ending \subseteq Slot /\ Known(s) /\ joining[s] = {}
  BY DEF Leave, Left, graph, SlotInv, Typed, Known
<1>2. /\ slot' \in [Slot -> {"live", "leaving", "gone"}] /\ copied' \in [Slot -> SUBSET Cleaners]
      /\ ending' \subseteq Slot
      /\ \A x \in Slot : x # s => slot'[x] = slot[x] /\ copied'[x] = copied[x]
      /\ slot'[s] = "leaving" => copied'[s] = Held(s) \ lost[s]
      /\ slot'[s] # "leaving" => Held(s) \ lost[s] = {}
  <2>1. CASE Left(s)
    <3>1. slot'[s] # "leaving" /\ copied' = copied /\ ending' = ending /\ slot' = [slot EXCEPT ![s] = slot'[s]]
          /\ slot'[s] \in {"live", "leaving", "gone"} /\ Held(s) \ lost[s] \subseteq copied[s] /\ copied[s] = {}
      BY <1>1, <2>1 DEF Left, Known
    <3> QED
      BY <1>1, <3>1
  <2>2. CASE \E ends \in BOOLEAN : Leave(s, ends)
    <3>1. PICK ends \in BOOLEAN : Leave(s, ends)
      BY <2>2
    <3>2. cleaners[s] = Held(s) \ lost[s]
      BY <1>1, <3>1 DEF Leave, Known
    <3>3. slot' = [slot EXCEPT ![s] = "leaving"] /\ copied' = [copied EXCEPT ![s] = cleaners[s]]
          /\ ending' = IF ends THEN ending \cup {s} ELSE ending
      BY <3>1 DEF Leave
    <3> QED
      BY <1>1, <3>2, <3>3
  <2> QED
    BY <2>1, <2>2
<1>3. Typed'
  BY <1>1, <1>2 DEF SlotInv, Typed
<1>4. ASSUME NEW x \in Slot PROVE Known(x)'
  <2>1. Held(x)' = Held(x)
    BY <1>1 DEF Held
  <2>2. CASE x # s
    BY <1>1, <1>2, <2>1, <2>2 DEF SlotInv, Known
  <2>3. CASE x = s
    BY <1>1, <1>2, <2>1, <2>3 DEF Known
  <2> QED
    BY <2>2, <2>3
<1>5. \A x \in Signal : Called(x)'
  BY <1>1 DEF SlotInv, Called
<1> QED
  BY <1>1, <1>3, <1>4, <1>5 DEF SlotInv

\* What is done to the graph, and emissions, leaves what the slots know alone.
LEMMA SlotsUntouched ==
    ASSUME SlotInv, UNCHANGED <<alive, slots, callbacks, made>>, Typed',
           \A x \in Signal : emission'[x].on => emission'[x].at \cup emission'[x].todo \subseteq callbacks[x]
    PROVE  SlotInv'
<1>1. UNCHANGED <<slot, data, cleaners, copied, ending, joining, lost>>
  BY DEF slots
<1>2. \A s \in Slot : Held(s)' = Held(s)
  BY DEF Held
<1>3. \A s \in Slot : Known(s)'
  BY <1>1, <1>2 DEF SlotInv, Known
<1>4. \A x \in Signal : Called(x)'
  BY DEF SlotInv, Called
<1> QED
  BY <1>1, <1>3, <1>4 DEF SlotInv

LEMMA GraphSteps ==
    ASSUME SlotInv, NEW g \in Signal, NEW h \in Signal, Adopt(g, h) \/ Abandon(g, h)
    PROVE  SlotInv'
<1>1. /\ UNCHANGED <<alive, slots, callbacks, emission, made>>
      /\ children' \in [Signal -> SUBSET Signal] /\ parent' \in [Signal -> Signal \cup {None}]
      /\ forsaken' \subseteq Signal
  BY DEF Adopt, Abandon, SlotInv, Typed
<1>2. Typed'
  BY <1>1 DEF SlotInv, Typed, slots
<1>3. \A x \in Signal : emission'[x].on => emission'[x].at \cup emission'[x].todo \subseteq callbacks[x]
  BY <1>1 DEF SlotInv, Called
<1> QED
  BY <1>1, <1>2, <1>3, SlotsUntouched

LEMMA EmissionTyped ==
    ASSUME NEW m \in Emission
    PROVE  /\ m.on = TRUE /\ m.kids \in SUBSET Signal /\ m.todo \in SUBSET Joints /\ m.at \in SUBSET Joints
           /\ \A v \in SUBSET Signal : [m EXCEPT !.kids = v] \in Emission
           /\ \A v \in SUBSET Joints : [m EXCEPT !.todo = v] \in Emission /\ [m EXCEPT !.at = v] \in Emission
           /\ \A v \in Signal \cup {None} : [m EXCEPT !.in = v] \in Emission
<1>1. m.on = TRUE /\ m.kids \in SUBSET Signal /\ m.todo \in SUBSET Joints /\ m.at \in SUBSET Joints
  BY DEF Emission
<1>2. \A v \in SUBSET Signal : [m EXCEPT !.kids = v] \in Emission
  BY DEF Emission
<1>3. \A v \in SUBSET Joints : [m EXCEPT !.todo = v] \in Emission
  BY DEF Emission
<1>4. \A v \in SUBSET Joints : [m EXCEPT !.at = v] \in Emission
  BY DEF Emission
<1>5. \A v \in Signal \cup {None} : [m EXCEPT !.in = v] \in Emission
  BY DEF Emission
<1> QED
  BY <1>1, <1>2, <1>3, <1>4, <1>5

\* An emission is on, and has what it has, or it is not.
LEMMA EmissionIs ==
    ASSUME Typed, NEW g \in Signal
    PROVE  (emission[g].on /\ emission[g] \in Emission) \/ (~emission[g].on /\ emission[g] = Idle)
<1>1. emission[g] \in {Idle} \cup Emission
  BY DEF Typed
<1>2. Idle.on = FALSE
  BY DEF Idle
<1>3. \A m \in Emission : m.on = TRUE
  BY EmissionTyped
<1> QED
  BY <1>1, <1>2, <1>3

LEMMA StartedTyped ==
    ASSUME Typed, NEW g \in Signal, NEW by \in Signal \cup {None}
    PROVE  /\ Started(g, by) \in Emission /\ Started(g, by).kids = children[g]
           /\ Started(g, by).todo = callbacks[g] /\ Started(g, by).at = {}
  BY DEF Started, Emission, Typed

-----------------------------------------------------------------------------
(* Emissions.                                                              *)

\* An emission goes on with less to do, or it starts with all that there is, for
\* a signal that lives or is the child of one that is emitted.
Less(m, n) ==
    /\ n \in {Idle} \cup Emission
    /\ n.on => m.on /\ n.kids \subseteq m.kids /\ n.at \cup n.todo \subseteq m.at \cup m.todo
Begun(x, n) ==
    /\ \E by \in Signal \cup {None} : n = Started(x, by)
    /\ x \in alive \/ \E y \in Signal : emission[y].on /\ x \in emission[y].kids

LEMMA EmissionSteps ==
    ASSUME Typed, NEW g \in Signal, Emit(g) \/ EmissionStep(g)
    PROVE  /\ \A x \in Signal : Less(emission[x], emission'[x]) \/ Begun(x, emission'[x])
           /\ misused' => misused \/ \E y \in Signal : emission[y].on /\ ~ (emission[y].kids \subseteq alive)
           /\ UNCHANGED <<graph, slots, callbacks, made>>
           /\ emission' = [x \in Signal |-> emission'[x]]
<1> DEFINE m == emission[g]
<1>1. emission \in [Signal -> {Idle} \cup Emission] /\ emission = [x \in Signal |-> emission[x]]
  BY DEF Typed
<1>2. \A x \in Signal : Less(emission[x], emission[x])
  BY <1>1 DEF Less
<1>3. (m.on /\ m \in Emission) \/ ~m.on
  BY EmissionIs
<1>4. None \in Signal \cup {None} /\ g \in Signal \cup {None}
  OBVIOUS
<1>5. CASE Emit(g)
  <2>1. emission' = [emission EXCEPT ![g] = Started(g, None)] /\ g \in alive
        /\ UNCHANGED <<graph, slots, callbacks, made, misused>>
    BY <1>5 DEF Emit
  <2>2. Begun(g, Started(g, None))
    BY <1>4, <2>1 DEF Begun
  <2> QED
    BY <1>1, <1>2, <2>1, <2>2
<1>6. CASE EmitChild(g)
  <2>1. m.on /\ m \in Emission /\ UNCHANGED <<graph, slots, callbacks, made>>
    BY <1>3, <1>6 DEF EmitChild, Doing
  <2>2. PICK h \in m.kids :
          /\ Free(h)
          /\ emission' = [emission EXCEPT ![g].kids = @ \ {h}, ![g].in = h, ![h] = Started(h, g)]
          /\ misused' = (misused \/ h \notin alive)
    BY <1>6 DEF EmitChild
  <2>3. h \in Signal /\ h # g
    BY <2>1, <2>2, EmissionTyped DEF Free
  <2> DEFINE a == [m EXCEPT !.kids = @ \ {h}]
             b == [a EXCEPT !.in = h]
  <2>4. a \in Emission /\ b \in Emission
    <3>1. m.kids \ {h} \in SUBSET Signal
      BY <2>1, EmissionTyped
    <3> QED
      BY <2>1, <2>3, <3>1, EmissionTyped
  <2>5. b.on = TRUE /\ b.kids = m.kids \ {h} /\ b.at = m.at /\ b.todo = m.todo
    BY <2>1 DEF Emission
  <2>6. emission' = [x \in Signal |-> IF x = h THEN Started(h, g) ELSE IF x = g THEN b ELSE emission[x]]
    BY <1>1, <2>2, <2>3
  <2> HIDE DEF b, a
  <2>7. Less(m, b)
    BY <2>1, <2>4, <2>5 DEF Less
  <2>8. Begun(h, Started(h, g))
    BY <1>4, <2>1, <2>2, <2>3 DEF Begun
  <2>9. misused' => misused \/ \E y \in Signal : emission[y].on /\ ~ (emission[y].kids \subseteq alive)
    BY <2>1, <2>2
  <2> QED
    BY <1>2, <2>1, <2>3, <2>6, <2>7, <2>8, <2>9
<1>7. CASE Call(g) \/ CallReturns(g) \/ Emitted(g)
  <2>1. m.on /\ m \in Emission /\ UNCHANGED <<graph, slots, callbacks, made, misused>>
    BY <1>3, <1>7 DEF Call, CallReturns, Emitted, Doing
  <2>2. m.kids \in SUBSET Signal /\ m.todo \in SUBSET Joints /\ m.at \in SUBSET Joints /\ m.on = TRUE
    BY <2>1, EmissionTyped
  <2>3. ASSUME NEW n, Less(m, n), emission' = [emission EXCEPT ![g] = n]
        PROVE  /\ \A x \in Signal : Less(emission[x], emission'[x])
               /\ emission' = [x \in Signal |-> emission'[x]]
    BY <1>1, <1>2, <2>3
  <2>4. CASE Call(g)
    <3>1. PICK j \in m.todo, called \in BOOLEAN :
            emission' = [emission EXCEPT ![g].todo = @ \ {j}, ![g].at = IF called THEN {j} ELSE {}]
      BY <2>4 DEF Call
    <3> DEFINE at == IF called THEN {j} ELSE {}
               a == [m EXCEPT !.todo = @ \ {j}]
               n == [a EXCEPT !.at = at]
    <3>2. at \in SUBSET Joints /\ at \subseteq m.todo /\ m.todo \ {j} \in SUBSET Joints
      BY <2>2, <3>1
    <3>3. emission' = [emission EXCEPT ![g] = n]
      BY <1>1, <3>1
    <3> HIDE DEF at
    <3>4. a \in Emission /\ n \in Emission
      BY <2>1, <3>2, EmissionTyped
    <3>5. n.on = TRUE /\ n.kids = m.kids /\ n.at = at /\ n.todo = m.todo \ {j}
      BY <2>1 DEF Emission
    <3> HIDE DEF n, a
    <3>6. Less(m, n)
      BY <2>1, <3>2, <3>4, <3>5 DEF Less
    <3> QED
      BY <2>1, <2>3, <3>3, <3>6
  <2>5. CASE CallReturns(g)
    <3> DEFINE n == [m EXCEPT !.at = {}]
    <3>1. emission' = [emission EXCEPT ![g] = n]
      BY <2>5 DEF CallReturns
    <3>2. n \in Emission
      BY <2>1, EmissionTyped
    <3>3. n.on = TRUE /\ n.kids = m.kids /\ n.at = {} /\ n.todo = m.todo
      BY <2>1 DEF Emission
    <3> HIDE DEF n
    <3>4. Less(m, n)
      BY <2>1, <3>2, <3>3 DEF Less
    <3> QED
      BY <2>1, <2>3, <3>1, <3>4
  <2>6. CASE Emitted(g)
    <3>1. emission' = [h \in Signal |->
             IF h = g THEN Idle
             ELSE IF h = m.by THEN [emission[h] EXCEPT !.in = None] ELSE emission[h]]
      BY <2>6 DEF Emitted
    <3>2. Less(m, Idle)
      BY DEF Less, Idle
    <3>3. ASSUME NEW h \in Signal PROVE Less(emission[h], [emission[h] EXCEPT !.in = None])
      <4> DEFINE k == emission[h]
                 n == [k EXCEPT !.in = None]
      <4>1. CASE k.on /\ k \in Emission
        <5>1. n \in Emission
          BY <1>4, <4>1, EmissionTyped
        <5>2. n.on = TRUE /\ n.kids = k.kids /\ n.at = k.at /\ n.todo = k.todo
          BY <4>1 DEF Emission
        <5> HIDE DEF n, k
        <5>3. Less(k, n)
          BY <4>1, <5>1, <5>2 DEF Less
        <5> QED
          BY <5>3 DEF n, k
      <4>2. CASE k = Idle
        <5>1. [Idle EXCEPT !.in = None] = Idle
          BY DEF Idle
        <5>2. Less(Idle, Idle)
          BY DEF Less, Idle
        <5> QED
          BY <4>2, <5>1, <5>2
      <4> QED
        BY <4>1, <4>2, EmissionIs
    <3> QED
      BY <1>2, <2>1, <3>1, <3>2, <3>3
  <2> QED
    BY <1>7, <2>4, <2>5, <2>6
<1> QED
  BY <1>5, <1>6, <1>7 DEF EmissionStep

LEMMA EmissionSlots ==
    ASSUME SlotInv, NEW g \in Signal, Emit(g) \/ EmissionStep(g)
    PROVE  SlotInv'
<1>1. /\ \A x \in Signal : Less(emission[x], emission'[x]) \/ Begun(x, emission'[x])
      /\ UNCHANGED <<graph, slots, callbacks, made>>
      /\ emission' = [x \in Signal |-> emission'[x]] /\ Typed
  BY EmissionSteps DEF SlotInv
<1>2. ASSUME NEW x \in Signal
      PROVE  /\ emission'[x] \in {Idle} \cup Emission
             /\ emission'[x].on => emission'[x].at \cup emission'[x].todo \subseteq callbacks[x]
  <2>1. CASE Less(emission[x], emission'[x])
    BY <2>1 DEF Less, SlotInv, Called
  <2>2. CASE Begun(x, emission'[x])
    <3>1. PICK by \in Signal \cup {None} : emission'[x] = Started(x, by)
      BY <2>2 DEF Begun
    <3>2. Started(x, by) \in Emission /\ Started(x, by).todo = callbacks[x] /\ Started(x, by).at = {}
      BY <1>1, StartedTyped
    <3> QED
      BY <3>1, <3>2
  <2> QED
    BY <1>1, <2>1, <2>2
<1>3. emission' \in [Signal -> {Idle} \cup Emission]
  BY <1>1, <1>2
<1>4. UNCHANGED <<alive, forsaken, children, parent, slot, data, cleaners, copied, ending, joining, lost, callbacks, made>>
  BY <1>1 DEF graph, slots
<1>5. Typed'
  BY <1>3, <1>4 DEF SlotInv, Typed
<1> QED
  BY <1>1, <1>2, <1>4, <1>5, SlotsUntouched

LEMMA SlotInit == Init => SlotInv
<1> SUFFICES ASSUME Init PROVE SlotInv
  OBVIOUS
<1>1. 0 \in 0 .. MaxMade /\ 0 \in 0 .. made
  BY SignalAssumption DEF Init
<1>2. Typed
  BY <1>1 DEF Init, Typed, NoConnection
<1>3. \A s \in Slot : Held(s) = {}
  BY Records DEF Init, Held
<1>4. \A s \in Slot : Known(s) /\ joining[s] = {}
  BY <1>3 DEF Init, Known
<1>5. \A g \in Signal : Called(g)
  BY DEF Init, Called, Idle
<1> QED
  BY <1>2, <1>4, <1>5 DEF SlotInv

LEMMA SlotSteps ==
    ASSUME SlotInv, [Next]_vars
    PROVE  SlotInv'
<1>1. CASE \E g \in Signal : Emit(g) \/ EmissionStep(g)
  BY <1>1, EmissionSlots
<1>2. CASE \E g \in Signal : DisconnectAll(g) \/ EndSignal(g)
  BY <1>2, DisconnectAllSteps, EndSignalSteps
<1>3. CASE \E g \in Signal : \E h \in Signal : Adopt(g, h) \/ Abandon(g, h)
  BY <1>3, GraphSteps
<1>4. CASE \E g \in Signal : \E s \in Slot : Connect(g, s)
  BY <1>4, ConnectSteps
<1>5. CASE \E g \in Signal : \E c \in 1 .. made : Disconnect(g, c)
  BY <1>5, DisconnectSteps
<1>6. CASE \E s \in Slot : Join(s) \/ Clean(s)
  BY <1>6, JoinSteps, CleanSteps
<1>7. CASE \E s \in Slot : Left(s) \/ \E ends \in BOOLEAN : Leave(s, ends)
  BY <1>7, LeaveSteps
<1>8. CASE UNCHANGED vars
  <2>1. UNCHANGED <<alive, forsaken, children, parent, slot, data, cleaners, copied, ending, joining, lost,
                    callbacks, emission, made>>
    BY <1>8 DEF vars, graph, slots
  <2>2. Typed' /\ \A x \in Signal : emission'[x].on => emission'[x].at \cup emission'[x].todo \subseteq callbacks[x]
    BY <2>1 DEF SlotInv, Typed, Called
  <2> QED
    BY <2>1, <2>2, SlotsUntouched DEF slots
<1> QED
  BY <1>1, <1>2, <1>3, <1>4, <1>5, <1>6, <1>7, <1>8 DEF Next

\* The cleaners that a slot has are those of the joints that are there.
LEMMA SlotImplies == SlotInv => CleanersMatch
<1> SUFFICES ASSUME SlotInv, NEW s \in Slot
             PROVE  LET held == UNION {CleanersOf(s, g, callbacks[g]) : g \in Signal}
                    IN  /\ slot[s] = "live" /\ joining[s] = {} => cleaners[s] = held \ lost[s]
                        /\ lost[s] \subseteq held \cup joining[s]
  BY DEF CleanersMatch
<1> DEFINE U == UNION {CleanersOf(s, g, callbacks[g]) : g \in Signal}
<1>1. ASSUME NEW k \in Held(s) PROVE k \in U
  <2>1. k \in Cleaners /\ Joint(k.connection, s) \in callbacks[k.signal]
    BY <1>1 DEF Held
  <2>2. /\ k.signal \in Signal /\ k = Cleaner(k.signal, k.connection)
        /\ Joint(k.connection, s).owner = s /\ Joint(k.connection, s).connection = k.connection
    BY <2>1, Records
  <2>3. k \in CleanersOf(s, k.signal, callbacks[k.signal])
    BY <2>1, <2>2 DEF CleanersOf
  <2> QED
    BY <2>2, <2>3
<1>2. ASSUME NEW g \in Signal, NEW k \in CleanersOf(s, g, callbacks[g]) PROVE k \in Held(s)
  <2>1. PICK j \in callbacks[g] : j.owner = s /\ k = Cleaner(g, j.connection)
    BY DEF CleanersOf
  <2> QED
    BY <2>1, JointIsHeld DEF SlotInv
<1>3. U = Held(s)
  BY <1>1, <1>2
<1> HIDE DEF U
<1>4. Known(s)
  BY DEF SlotInv
<1> QED
  BY <1>3, <1>4 DEF Known, U

\* A slot whose destructor has returned is never called again, but through a
\* connection it had lost, whatever signals are emitted, connected to each other or
\* destroyed meanwhile; and what a slot knows of its other connections is what the
\* signals know.
THEOREM NobodyCallsTheDead == Spec => [](NoCallAfterEnd /\ CleanersMatch)
<1>1. SlotInv => NoCallAfterEnd
  <2> SUFFICES ASSUME SlotInv, NEW g \in Signal, emission[g].on, NEW j \in emission[g].at,
                      slot[j.owner] = "gone"
               PROVE  Cleaner(g, j.connection) \in lost[j.owner]
    BY DEF NoCallAfterEnd
  <2>1. j \in callbacks[g]
    BY DEF SlotInv, Called
  <2>2. j.owner \in Slot /\ Cleaner(g, j.connection) \in Held(j.owner)
    BY <2>1, JointIsHeld DEF SlotInv
  <2> QED
    BY <2>2 DEF SlotInv, Known
<1>2. Init => SlotInv
  BY SlotInit
<1>3. SlotInv /\ [Next]_vars => SlotInv'
  BY SlotSteps
<1> QED
  BY <1>1, <1>2, <1>3, SlotImplies, PTL DEF Spec

-----------------------------------------------------------------------------
(* The graph of signals.                                                   *)

\* The children of a signal that exists do, a signal knows the parent that has it,
\* and the parent has it unless it is forsaken; what a slot has yet to leave exists, and a signal that is emitted keeps the children it has
\* yet to emit.
Family ==
    /\ \A g \in alive : children[g] \subseteq alive
    /\ ChildKnowsParent
Busy(g) == emission[g].on => g \in alive /\ emission[g].kids \subseteq children[g]

LiveInv ==
    /\ misused = FALSE
    /\ \A s \in Slot : \A k \in copied[s] : k.signal \in alive
    /\ Family
    /\ \A g \in Signal : Busy(g)

GraphInv == SlotInv /\ LiveInv

\* What is done to slots leaves the graph alone.
LEMMA GraphUntouched ==
    ASSUME LiveInv, UNCHANGED <<graph, emission>>, misused' => misused, misused' \in BOOLEAN,
           \A s \in Slot : \A k \in copied'[s] : k.signal \in alive
    PROVE  LiveInv'
<1>1. UNCHANGED <<alive, children, parent, forsaken>>
  BY DEF graph
<1> QED
  BY <1>1 DEF LiveInv, Family, ChildKnowsParent, Busy

LEMMA SlotActions ==
    ASSUME GraphInv, NEW s \in Slot,
           \/ \E g \in Signal : Connect(g, s) \/ \E c \in 1 .. made : Disconnect(g, c)
           \/ Join(s) \/ Clean(s) \/ Left(s) \/ \E ends \in BOOLEAN : Leave(s, ends)
    PROVE  LiveInv'
<1>1. /\ copied \in [Slot -> SUBSET Cleaners] /\ misused = FALSE /\ SlotInv /\ LiveInv
      /\ \A x \in Slot : \A k \in copied[x] : k.signal \in alive
  BY DEF GraphInv, SlotInv, Typed, LiveInv
<1>2. CASE Join(s) \/ Left(s) \/ \E g \in Signal : Connect(g, s)
  <2>1. UNCHANGED <<graph, emission, misused, copied>>
    BY <1>2 DEF Join, Left, Connect
  <2> QED
    BY <1>1, <2>1, GraphUntouched
<1>3. CASE \E g \in Signal : \E c \in 1 .. made : Disconnect(g, c)
  <2>1. PICK g \in Signal, c \in 1 .. made : Disconnect(g, c)
    BY <1>3
  <2>2. UNCHANGED <<graph, emission, copied>> /\ misused' \in BOOLEAN
    BY <2>1 DEF Disconnect, Destroy, Release
  <2>3. misused' => misused
    BY <1>1, <2>1, DisconnectSteps
  <2> QED
    BY <1>1, <2>2, <2>3, GraphUntouched
<1>4. CASE Clean(s)
  <2>1. UNCHANGED <<graph, emission>> /\ misused' \in BOOLEAN
    BY <1>4 DEF Clean, Destroy, Release
  <2>2. misused' => misused
    BY <1>1, <1>4, CleanSteps
  <2>3. \A x \in Slot : copied'[x] \subseteq copied[x]
    BY <1>1, <1>4 DEF Clean
  <2> QED
    BY <1>1, <2>1, <2>2, <2>3, GraphUntouched
<1>5. CASE \E ends \in BOOLEAN : Leave(s, ends)
  <2>1. /\ UNCHANGED <<graph, emission, misused>> /\ joining[s] = {}
        /\ copied' = [copied EXCEPT ![s] = cleaners[s]]
    BY <1>5 DEF Leave
  <2>2. \A k \in cleaners[s] : k.signal \in alive
    <3>1. cleaners[s] \subseteq Held(s)
      <4>1. cleaners[s] \subseteq (Held(s) \cup joining[s]) \ lost[s]
        BY <1>1 DEF SlotInv, Known
      <4> QED
        BY <2>1, <4>1
    <3>2. ASSUME NEW k \in Held(s) PROVE k.signal \in alive
      <4>1. k \in Cleaners /\ callbacks[k.signal] # {}
        BY <3>2 DEF Held
      <4> QED
        BY <1>1, <4>1, Records DEF SlotInv, Called
    <3> QED
      BY <3>1, <3>2
  <2>3. \A x \in Slot : \A k \in copied'[x] : k.signal \in alive
    BY <1>1, <2>1, <2>2
  <2> QED
    BY <1>1, <2>1, <2>3, GraphUntouched
<1> QED
  BY <1>2, <1>3, <1>4, <1>5

LEMMA AdoptActions ==
    ASSUME "share child" \notin Liberty, GraphInv, NEW g \in Signal, NEW h \in Signal,
           Adopt(g, h) \/ Abandon(g, h)
    PROVE  LiveInv'
<1>1. /\ children \in [Signal -> SUBSET Signal] /\ parent \in [Signal -> Signal \cup {None}]
      /\ alive \subseteq Signal /\ LiveInv /\ ChildKnowsParent
      /\ \A x \in alive : children[x] \subseteq alive
  BY DEF GraphInv, SlotInv, Typed, LiveInv, Family
<1>2. /\ g \in alive /\ Free(g) /\ UNCHANGED <<alive, copied, emission, misused>>
      /\ \A x \in Signal : x # g => children'[x] = children[x]
  BY <1>1 DEF Adopt, Abandon, slots
<1>3. Family'
  <2>1. CASE Adopt(g, h)
    <3>1. /\ h \in alive /\ forsaken' = forsaken \ {h}
          /\ \A x \in Signal : parent'[x] = IF x = h THEN g ELSE parent[x]
          /\ \A x \in Signal : children'[x] = IF x = g THEN children[g] \cup {h} ELSE children[x]
      BY <1>1, <2>1 DEF Adopt
    <3>2. \A x \in alive : h \notin children[x]
      BY <2>1 DEF Adopt, MayAdopt
    <3>3. ASSUME NEW x \in alive, NEW k \in children'[x] PROVE parent'[k] = x
      <4>1. x \in Signal /\ (k \in children[x] \/ (x = g /\ k = h)) /\ children[x] \subseteq Signal
        BY <1>1, <3>1, <3>3
      <4>2. k \in children[x] => k # h /\ parent[k] = x
        BY <1>1, <3>2 DEF ChildKnowsParent
      <4> QED
        BY <3>1, <4>1, <4>2
    <3>4. ASSUME NEW x \in alive \ forsaken', parent'[x] # None
          PROVE  parent'[x] \in alive /\ x \in children'[parent'[x]]
      <4>1. CASE x = h
        BY <1>1, <1>2, <3>1, <4>1
      <4>2. CASE x # h
        <5>1. x \in alive \ forsaken /\ parent'[x] = parent[x]
          BY <1>1, <3>1, <4>2
        <5>2. parent[x] \in alive /\ x \in children[parent[x]]
          BY <1>1, <3>4, <5>1 DEF ChildKnowsParent
        <5>3. parent[x] \in Signal
          BY <1>1, <5>2
        <5>4. children[parent[x]] \subseteq children'[parent[x]]
          BY <3>1, <5>3
        <5> QED
          BY <5>1, <5>2, <5>4
      <4> QED
        BY <4>1, <4>2
    <3>5. \A x \in alive : children'[x] \subseteq alive
      BY <1>1, <3>1
    <3> QED
      BY <1>2, <3>3, <3>4, <3>5 DEF Family, ChildKnowsParent
  <2>2. CASE Abandon(g, h)
    <3>1. /\ h \in children[g] /\ parent' = parent /\ forsaken \subseteq forsaken'
          /\ parent[h] = g => h \in forsaken'
          /\ \A x \in Signal : children'[x] = IF x = g THEN children[g] \ {h} ELSE children[x]
      BY <1>1, <2>2 DEF Abandon
    <3>2. h \in forsaken'
      BY <1>1, <1>2, <3>1 DEF ChildKnowsParent
    <3>3. ASSUME NEW x \in alive \ forsaken', parent'[x] # None
          PROVE  parent'[x] \in alive /\ x \in children'[parent'[x]]
      <4>1. x \in alive \ forsaken /\ parent'[x] = parent[x] /\ x # h
        BY <3>1, <3>2
      <4>2. parent[x] \in alive /\ x \in children[parent[x]]
        BY <1>1, <3>3, <4>1 DEF ChildKnowsParent
      <4> QED
        BY <1>1, <3>1, <4>1, <4>2
    <3>4. \A x \in alive : \A k \in children'[x] : parent'[k] = x
      BY <1>1, <3>1 DEF ChildKnowsParent
    <3>5. \A x \in alive : children'[x] \subseteq alive
      BY <1>1, <3>1
    <3> QED
      BY <1>2, <3>3, <3>4, <3>5 DEF Family, ChildKnowsParent
  <2> QED
    BY <2>1, <2>2
<1>4. \A x \in Signal : Busy(x)'
  BY <1>1, <1>2 DEF LiveInv, Busy, Free
<1> QED
  BY <1>1, <1>2, <1>3, <1>4 DEF LiveInv

LEMMA DisconnectAllActions ==
    ASSUME GraphInv, NEW g \in Signal, DisconnectAll(g)
    PROVE  LiveInv'
<1>1. /\ children \in [Signal -> SUBSET Signal] /\ parent \in [Signal -> Signal \cup {None}]
      /\ alive \subseteq Signal /\ LiveInv /\ SlotInv /\ misused = FALSE /\ ChildKnowsParent
      /\ \A x \in alive : children[x] \subseteq alive
  BY DEF GraphInv, SlotInv, Typed, LiveInv, Family
<1>2. /\ g \in alive /\ Free(g) /\ UNCHANGED <<alive, forsaken, copied, emission>>
      /\ \A x \in Signal : children'[x] = IF x = g THEN {} ELSE children[x]
      /\ \A x \in Signal : parent'[x] = IF x \in children[g] /\ parent[x] = g THEN None ELSE parent[x]
      /\ misused' \in BOOLEAN
  BY <1>1 DEF DisconnectAll, Orphaned
<1>3. misused' = FALSE
  BY <1>1, <1>2, DisconnectAllSteps
<1>4. Family'
  <2>1. \A x \in alive : \A k \in children'[x] : parent'[k] = x
    BY <1>1, <1>2 DEF ChildKnowsParent
  <2>2. ASSUME NEW x \in alive \ forsaken, parent'[x] # None
        PROVE  parent'[x] \in alive /\ x \in children'[parent'[x]]
    <3>1. parent'[x] = parent[x] /\ (parent[x] = g => x \notin children[g])
      BY <1>1, <1>2, <2>2
    <3>2. parent[x] \in alive /\ x \in children[parent[x]]
      BY <1>1, <2>2, <3>1 DEF ChildKnowsParent
    <3> QED
      BY <1>1, <1>2, <3>1, <3>2
  <2>3. \A x \in alive : children'[x] \subseteq alive
    BY <1>1, <1>2
  <2> QED
    BY <1>2, <2>1, <2>2, <2>3 DEF Family, ChildKnowsParent
<1>5. \A x \in Signal : Busy(x)'
  BY <1>1, <1>2 DEF LiveInv, Busy, Free
<1> QED
  BY <1>1, <1>2, <1>3, <1>4, <1>5 DEF LiveInv

LEMMA EndActions ==
    ASSUME "end in use" \notin Liberty, GraphInv, NEW g \in Signal, EndSignal(g)
    PROVE  LiveInv'
<1>1. /\ children \in [Signal -> SUBSET Signal] /\ parent \in [Signal -> Signal \cup {None}]
      /\ alive \subseteq Signal /\ LiveInv /\ SlotInv /\ misused = FALSE /\ ChildKnowsParent
      /\ \A x \in alive : children[x] \subseteq alive
  BY DEF GraphInv, SlotInv, Typed, LiveInv, Family
<1>2. /\ g \in alive /\ Free(g) /\ alive' = alive \ {g} /\ UNCHANGED <<copied, emission>>
      /\ forsaken' = forsaken \ (children[g] \cup {g})
      /\ \A x \in Signal : x # g =>
           children'[x] = IF x = parent[g] THEN children[x] \ {g} ELSE children[x]
      /\ \A x \in Signal : x # g => parent'[x] = IF x \in children[g] THEN None ELSE parent[x]
  BY <1>1 DEF EndSignal
<1>3. /\ \A s \in Slot : \A k \in copied[s] : k.signal # g
      /\ \A x \in Signal : g \in children[x] => Free(x)
  BY DEF EndSignal, MayEnd
<1>4. misused' = FALSE
  <2>1. ~FindsGone(g)
    <3>1. g \notin forsaken /\ parent[g] # None => parent[g] \in alive
      BY <1>1, <1>2 DEF ChildKnowsParent
    <3>2. children[g] \subseteq alive
      BY <1>1, <1>2
    <3> QED
      BY <3>1, <3>2 DEF FindsGone
  <2>2. misused' \in BOOLEAN
    BY DEF EndSignal
  <2> QED
    BY <1>1, <2>1, <2>2, EndSignalSteps
<1>5. Family'
  <2>1. ASSUME NEW x \in alive, x # g
        PROVE  /\ children'[x] \subseteq alive \ {g}
               /\ \A k \in children'[x] : parent'[k] = x
    <3>1. x \in Signal /\ children[x] \subseteq alive /\ \A k \in children[x] : k \in Signal /\ parent[k] = x
      BY <1>1, <2>1 DEF ChildKnowsParent
    <3>2. g \notin children'[x] /\ children'[x] \subseteq children[x]
      BY <1>2, <2>1, <3>1
    <3>3. \A k \in children[x] : k \notin children[g]
      <4>1. \A k \in children[g] : parent[k] = g
        BY <1>1, <1>2 DEF ChildKnowsParent
      <4> QED
        BY <2>1, <3>1, <4>1
    <3> QED
      BY <1>2, <3>1, <3>2, <3>3
  <2>2. ASSUME NEW x \in alive', x \notin forsaken', parent'[x] # None
        PROVE  parent'[x] \in alive' /\ x \in children'[parent'[x]]
    <3>1. x \in alive /\ x \in Signal /\ x # g /\ x \notin children[g] /\ x \notin forsaken
          /\ parent'[x] = parent[x]
      BY <1>1, <1>2, <2>2
    <3>2. parent[x] \in alive /\ x \in children[parent[x]]
      BY <1>1, <2>2, <3>1 DEF ChildKnowsParent
    <3>3. parent[x] # g /\ parent[x] \in Signal
      BY <1>1, <3>1, <3>2
    <3> QED
      BY <1>2, <3>1, <3>2, <3>3
  <2> QED
    BY <1>2, <2>1, <2>2 DEF Family, ChildKnowsParent
<1>6. ASSUME NEW x \in Signal PROVE Busy(x)'
  <2> SUFFICES ASSUME emission[x].on
               PROVE  x \in alive' /\ emission[x].kids \subseteq children'[x]
    BY <1>2 DEF Busy
  <2>1. x \in alive /\ x # g /\ g \notin children[x] /\ emission[x].kids \subseteq children[x]
    BY <1>1, <1>2, <1>3 DEF LiveInv, Busy, Free
  <2> QED
    BY <1>2, <2>1
<1>7. \A s \in Slot : \A k \in copied'[s] : k.signal \in alive'
  BY <1>1, <1>2, <1>3 DEF LiveInv
<1> QED
  BY <1>4, <1>5, <1>6, <1>7 DEF LiveInv

LEMMA EmissionActions ==
    ASSUME GraphInv, NEW g \in Signal, Emit(g) \/ EmissionStep(g)
    PROVE  LiveInv'
<1>1. /\ children \in [Signal -> SUBSET Signal] /\ alive \subseteq Signal /\ LiveInv /\ SlotInv /\ Typed
      /\ misused = FALSE
  BY DEF GraphInv, SlotInv, Typed, LiveInv
<1>2. /\ \A x \in Signal : Less(emission[x], emission'[x]) \/ Begun(x, emission'[x])
      /\ misused' => misused \/ \E y \in Signal : emission[y].on /\ ~ (emission[y].kids \subseteq alive)
      /\ UNCHANGED <<graph, slots, callbacks, made>>
  BY <1>1, EmissionSteps
<1>3. misused' \in BOOLEAN
  BY <1>1 DEF Emit, EmissionStep, EmitChild, Call, CallReturns, Emitted
<1>4. \A y \in Signal : emission[y].on => emission[y].kids \subseteq alive
  BY <1>1 DEF LiveInv, Family, Busy
<1>5. UNCHANGED <<alive, children, parent, forsaken, copied>>
  BY <1>2 DEF graph, slots
<1>6. ASSUME NEW x \in Signal PROVE Busy(x)'
  <2>1. CASE Less(emission[x], emission'[x])
    BY <1>1, <1>5, <2>1 DEF Less, LiveInv, Busy
  <2>2. CASE Begun(x, emission'[x])
    <3>1. PICK by \in Signal \cup {None} : emission'[x] = Started(x, by)
      BY <2>2 DEF Begun
    <3>2. emission'[x].kids = children[x]
      BY <1>1, <3>1, StartedTyped
    <3>3. x \in alive
      BY <1>4, <2>2 DEF Begun
    <3> QED
      BY <1>5, <3>2, <3>3 DEF Busy
  <2> QED
    BY <1>2, <2>1, <2>2
<1>7. misused' = FALSE
  BY <1>1, <1>2, <1>3, <1>4
<1>8. Family'
  BY <1>1, <1>5 DEF LiveInv, Family, ChildKnowsParent
<1>9. \A s \in Slot : \A k \in copied'[s] : k.signal \in alive'
  BY <1>1, <1>5 DEF LiveInv
<1> QED
  BY <1>6, <1>7, <1>8, <1>9 DEF LiveInv

LEMMA GraphInit == Init => GraphInv
<1> SUFFICES ASSUME Init PROVE GraphInv
  OBVIOUS
<1>1. LiveInv
  BY DEF Init, LiveInv, Family, ChildKnowsParent, Busy, Idle
<1> QED
  BY <1>1, SlotInit DEF GraphInv

LEMMA GraphNext ==
    ASSUME Liberty \subseteq {"close ring"}, GraphInv, [Next]_vars
    PROVE  GraphInv'
<1>1. {"share child", "end in use"} \cap Liberty = {}
  OBVIOUS
<1>2. SlotInv'
  BY SlotSteps DEF GraphInv
<1> SUFFICES LiveInv'
  BY <1>2 DEF GraphInv
<1>3. CASE \E g \in Signal : Emit(g) \/ EmissionStep(g)
  BY <1>3, EmissionActions
<1>4. CASE \E g \in Signal : DisconnectAll(g) \/ EndSignal(g)
  BY <1>1, <1>4, DisconnectAllActions, EndActions
<1>5. CASE \E g \in Signal : \E h \in Signal : Adopt(g, h) \/ Abandon(g, h)
  BY <1>1, <1>5, AdoptActions
<1>6. CASE \/ \E g \in Signal : \E s \in Slot : Connect(g, s)
           \/ \E s \in Slot : Join(s) \/ Clean(s) \/ Left(s) \/ \E ends \in BOOLEAN : Leave(s, ends)
  BY <1>1, <1>6, SlotActions
<1>7. CASE \E g \in Signal : \E c \in 1 .. made : Disconnect(g, c)
  <2>1. PICK g \in Signal, c \in 1 .. made : Disconnect(g, c)
    BY <1>7
  <2>2. UNCHANGED <<graph, emission, copied>> /\ misused' \in BOOLEAN
    BY <2>1 DEF Disconnect, Destroy, Release
  <2>3. misused' => misused
    BY <2>1, DisconnectSteps DEF GraphInv
  <2> QED
    BY <1>2, <2>2, <2>3, GraphUntouched DEF GraphInv, LiveInv
<1>8. CASE UNCHANGED vars
  BY <1>2, <1>8 DEF vars, graph, slots, GraphInv, LiveInv, Family, ChildKnowsParent, Busy
<1> QED
  BY <1>2, <1>3, <1>4, <1>5, <1>6, <1>7, <1>8 DEF Next, GraphInv

LEMMA GraphImplies == GraphInv => GraphInvariant
<1> SUFFICES ASSUME GraphInv PROVE GraphInvariant
  OBVIOUS
<1>1. Typed /\ (\A s \in Slot : Known(s)) /\ misused = FALSE /\ ChildKnowsParent
  BY DEF GraphInv, SlotInv, LiveInv, Family
<1>2. TypeOK
  <2>1. \A s \in Slot : cleaners[s] \cup copied[s] \cup joining[s] \cup lost[s]
                           \subseteq [signal : Signal, connection : 1 .. MaxMade]
    BY <1>1 DEF Typed, Cleaners, Connections
  <2>2. ASSUME NEW g \in Signal, emission[g].on
        PROVE  emission[g].in \in Signal \cup {None} /\ emission[g].by \in Signal \cup {None}
    <3>1. emission[g] \in Emission
      BY <1>1, <2>2, EmissionIs
    <3> QED
      BY <3>1 DEF Emission
  <2>3. callbacks \in [Signal -> SUBSET [connection : 1 .. MaxMade, owner : Slot]]
    BY <1>1 DEF Typed, Joints, Connections
  <2>4. data \in [Slot -> NoConnection .. made]
    BY <1>1 DEF Typed, NoConnection
  <2> QED
    BY <1>1, <2>1, <2>2, <2>3, <2>4 DEF TypeOK, Typed
<1> QED
  BY <1>1, <1>2, SlotImplies DEF GraphInvariant, NothingMisused, GraphInv

\* All links between signals and slots agree from both sides and lead to nothing
\* that has been destroyed, but for lost connections and forsaken signals, whatever
\* is emitted, connected and destroyed meanwhile, as long as no signal has two
\* parents and none ends while it is in use.
THEOREM GraphCorrect ==
    ASSUME Liberty \subseteq {"close ring"}
    PROVE  Spec => []GraphInvariant
<1>1. Init => GraphInv
  BY GraphInit
<1>2. GraphInv /\ [Next]_vars => GraphInv'
  BY GraphNext
<1> QED
  BY <1>1, <1>2, GraphImplies, PTL DEF Spec
=============================================================================
