----------------------------- MODULE SignalSlot -----------------------------
(***************************************************************************)
(* Signals and slots of the SDK (signal.h).  A signal keeps a list of      *)
(* joints, each a callback that may belong to a slot; a slot keeps         *)
(* cleaners, which disconnect it when it is destroyed.  Signals form a     *)
(* graph: an emission goes to the children first, then to the callbacks,   *)
(* with the mutex of the signal held all the time.                         *)
(*                                                                         *)
(* An operation that takes one mutex and gives it back is one step, which  *)
(* waits while an emission holds it.  Emissions of different signals, the  *)
(* destruction of slots and everything else interleave.  A connection may  *)
(* be locked at any time, so an emission may pass it over.  The orders of  *)
(* the lists are left open.                                                *)
(*                                                                         *)
(* The classes trust their users in three ways, named in Liberty: what is  *)
(* in that set a user does, what is not in it nobody does.                 *)
(*   "share child"  a signal becomes the child of a second one: the code   *)
(*                  says that it "should be an assert"                     *)
(*   "close ring"   connect() closes a ring of three signals or more       *)
(*   "end in use"   a signal ends while one of its slots is being          *)
(*                  disconnected or its parent emits                       *)
(* What the code lets go wrong in ordinary use is not among them, and the  *)
(* variables lost and forsaken follow it: the connections whose cleaners   *)
(* go with those of another one of the slot, and the signals that still    *)
(* know a parent that has dropped them.                                    *)
(*                                                                         *)
(* Nobody ever does, here: end a signal or a slot while a connect() of it  *)
(* has not returned; connect a signal to itself, which locks one mutex     *)
(* twice; use, in a callback, the slot that is called or the signal that   *)
(* is emitted; move or copy a signal or a slot.  Callbacks without a slot  *)
(* are left out: nothing but the list of the signal knows them.            *)
(*                                                                         *)
(* A slot copies its cleaners, and a signal that ends takes itself out of  *)
(* the list of its parent, without a mutex; here each is one step.  If     *)
(* another thread changes the list at that moment the program is undefined.*)
(***************************************************************************)
EXTENDS Integers, FiniteSets

CONSTANTS
    Signal, Slot,
    None,           \* no signal
    Liberty,
    Heard,          \* bound: the signals that slots are connected to
    MaxMade         \* bound: the connections made

ASSUME SignalAssumption == MaxMade \in Nat /\ None \notin Signal /\ Heard \subseteq Signal

VARIABLES
    alive,          \* the signals that exist
    callbacks, children, parent,
    slot,           \* "live", "leaving" (in disconnect or ~slot) or "gone"
    data, cleaners,
    copied,         \* the cleaners that disconnect() of a slot has yet to call
    ending,         \* the slots whose disconnect() was called by ~slot
    joining,        \* a connect() between the slot and the list of the signal
    emission,       \* what the emission of a signal has yet to do
    made,
    lost,           \* history: the connections that a slot has no cleaner of
    forsaken,       \* history: the signals whose parent does not have them
    misused         \* history: a destroyed signal or slot was touched, other than
                    \* through a lost connection or a forsaken signal

graph == <<alive, children, parent, forsaken>>
slots == <<slot, data, cleaners, copied, ending, joining, lost>>
vars == <<graph, slots, callbacks, emission, made, misused>>

NoConnection == 0
Idle == [on |-> FALSE]
Joint(c, s) == [connection |-> c, owner |-> s]
Cleaner(g, c) == [signal |-> g, connection |-> c]

Init ==
    /\ alive = Signal
    /\ callbacks = [g \in Signal |-> {}]
    /\ children = [g \in Signal |-> {}]
    /\ parent = [g \in Signal |-> None]
    /\ slot = [s \in Slot |-> "live"]
    /\ data = [s \in Slot |-> NoConnection]
    /\ cleaners = [s \in Slot |-> {}]
    /\ copied = [s \in Slot |-> {}]
    /\ ending = {}
    /\ joining = [s \in Slot |-> {}]
    /\ emission = [g \in Signal |-> Idle]
    /\ made = 0
    /\ lost = [s \in Slot |-> {}]
    /\ forsaken = {}
    /\ misused = FALSE

Free(g) == ~emission[g].on

Owners(joints) == {j.owner : j \in joints}
CleanersOf(s, g, joints) == {Cleaner(g, j.connection) : j \in {i \in joints : i.owner = s}}

\* The owners of joints that leave g are told: they lose all of their cleaners.
Release(g, joints) ==
    /\ data' = [s \in Slot |-> IF s \in Owners(joints) THEN NoConnection ELSE data[s]]
    /\ cleaners' = [s \in Slot |-> IF s \in Owners(joints) THEN {} ELSE cleaners[s]]
    /\ lost' = [s \in Slot |->
         (lost[s] \cup IF s \in Owners(joints) /\ slot[s] = "live" THEN cleaners[s] ELSE {})
           \ CleanersOf(s, g, joints)]
TouchesGone(g, joints) ==
    \E j \in joints : slot[j.owner] = "gone" /\ Cleaner(g, j.connection) \notin lost[j.owner]

-----------------------------------------------------------------------------
(* Connections.                                                            *)

\* create_connection() writes to the slot before it takes the mutex
Connect(g, s) ==
    /\ g \in alive \cap Heard /\ slot[s] = "live" /\ joining[s] = {} /\ made < MaxMade
    /\ made' = made + 1
    /\ data' = [data EXCEPT ![s] = made + 1]
    /\ cleaners' = [cleaners EXCEPT ![s] = @ \cup {Cleaner(g, made + 1)}]
    /\ joining' = [joining EXCEPT ![s] = {Cleaner(g, made + 1)}]
    /\ UNCHANGED <<graph, slot, copied, ending, lost, callbacks, emission, misused>>

Join(s) ==
    \E j \in joining[s] :
       /\ Free(j.signal)
       /\ callbacks' = [callbacks EXCEPT ![j.signal] = @ \cup {Joint(j.connection, s)}]
       /\ joining' = [joining EXCEPT ![s] = {}]
       /\ UNCHANGED <<graph, slot, data, cleaners, copied, ending, lost, emission, made, misused>>

\* destroy_connection()
Destroy(g, c) ==
    LET gone == {j \in callbacks[g] : j.connection = c}
    IN  /\ callbacks' = [callbacks EXCEPT ![g] = @ \ gone]
        /\ Release(g, gone)
        /\ misused' = (misused \/ TouchesGone(g, gone))

\* disconnect(connection), and disconnect(slot) for the connection in it
Disconnect(g, c) ==
    /\ g \in alive /\ Free(g)
    /\ Destroy(g, c)
    /\ UNCHANGED <<graph, slot, copied, ending, joining, emission, made>>

\* slot::disconnect() and ~slot() go through a copy of the cleaners
Leave(s, ends) ==
    /\ slot[s] = "live" /\ joining[s] = {}
    /\ slot' = [slot EXCEPT ![s] = "leaving"]
    /\ copied' = [copied EXCEPT ![s] = cleaners[s]]
    /\ ending' = IF ends THEN ending \cup {s} ELSE ending
    /\ UNCHANGED <<graph, data, cleaners, joining, lost, callbacks, emission, made, misused>>

\* Seeded fault: the joint is removed without the mutex.
CleanUnlocked(s) ==
    \E k \in copied[s] :
       /\ Destroy(k.signal, k.connection)
       /\ copied' = [copied EXCEPT ![s] = @ \ {k}]
       /\ UNCHANGED <<graph, slot, ending, joining, emission, made>>

Clean(s) ==
    \E k \in copied[s] :
       /\ copied' = [copied EXCEPT ![s] = @ \ {k}]
       /\ IF k.signal \in alive
            THEN Free(k.signal) /\ Destroy(k.signal, k.connection)
            ELSE misused' = TRUE /\ UNCHANGED <<callbacks, data, cleaners, lost>>
       /\ UNCHANGED <<graph, slot, ending, joining, emission, made>>

Left(s) ==
    /\ slot[s] = "leaving" /\ copied[s] = {}
    /\ slot' = [slot EXCEPT ![s] = IF s \in ending THEN "gone" ELSE "live"]
    /\ UNCHANGED <<graph, data, cleaners, copied, ending, joining, lost, callbacks, emission, made, misused>>

-----------------------------------------------------------------------------
(* The graph of signals.                                                   *)

\* g is among the children of the children of h, and so on
Ring(g, h) ==
    LET down[n \in 0 .. Cardinality(Signal)] ==
          IF n = 0 THEN {h} ELSE UNION {children[x] : x \in down[n - 1]}
    IN  \E n \in 2 .. Cardinality(Signal) : g \in down[n]

\* what a user makes sure of who connects h to g
MayAdopt(g, h) ==
    /\ "share child" \in Liberty \/ \A p \in alive : h \notin children[p]
    /\ "close ring" \in Liberty \/ ~Ring(g, h)

\* Seeded fault: the parent is not looked at.
AdoptAnyway(g, h) ==
    /\ {g, h} \subseteq alive /\ g # h /\ Free(g) /\ Free(h)
    /\ h \notin children[g]
    /\ MayAdopt(g, h)
    /\ parent' = [parent EXCEPT ![h] = g]
    /\ children' = [children EXCEPT ![g] = @ \cup {h}]
    /\ forsaken' = forsaken \ {h}
    /\ UNCHANGED <<alive, slots, callbacks, emission, made, misused>>

\* connect(signal*)
Adopt(g, h) ==
    /\ {g, h} \subseteq alive /\ g # h /\ Free(g) /\ Free(h)
    /\ parent[g] # h /\ h \notin children[g]
    /\ MayAdopt(g, h)
    /\ parent' = [parent EXCEPT ![h] = g]
    /\ children' = [children EXCEPT ![g] = @ \cup {h}]
    /\ forsaken' = forsaken \ {h}
    /\ UNCHANGED <<alive, slots, callbacks, emission, made, misused>>

\* disconnect(signal*) does not touch the child, which goes on knowing its parent
Abandon(g, h) ==
    /\ g \in alive /\ Free(g)
    /\ h \in children[g]
    /\ children' = [children EXCEPT ![g] = @ \ {h}]
    /\ forsaken' = IF parent[h] = g THEN forsaken \cup {h} ELSE forsaken
    /\ UNCHANGED <<alive, parent, slots, callbacks, emission, made, misused>>

Orphaned(g) == [h \in Signal |-> IF h \in children[g] /\ parent[h] = g THEN None ELSE parent[h]]

DisconnectAll(g) ==
    /\ g \in alive /\ Free(g)
    /\ Release(g, callbacks[g])
    /\ misused' = (misused \/ TouchesGone(g, callbacks[g]) \/ ~(children[g] \subseteq alive))
    /\ callbacks' = [callbacks EXCEPT ![g] = {}]
    /\ parent' = Orphaned(g)
    /\ children' = [children EXCEPT ![g] = {}]
    /\ UNCHANGED <<alive, forsaken, slot, copied, ending, joining, emission, made>>

\* what a user makes sure of who ends a signal
MayEnd(g) ==
    /\ \A s \in Slot : \A j \in joining[s] : j.signal # g
    /\ \/ "end in use" \in Liberty
       \/ /\ \A s \in Slot : \A k \in copied[s] : k.signal # g
          /\ \A h \in Signal : g \in children[h] => Free(h)

\* its parent, or a child, is no more
FindsGone(g) ==
    \/ g \notin forsaken /\ parent[g] # None /\ parent[g] \notin alive
    \/ ~(children[g] \subseteq alive)

\* Seeded fault: the slots are not told.
EndSilently(g) ==
    /\ g \in alive /\ Free(g) /\ MayEnd(g)
    /\ alive' = alive \ {g}
    /\ callbacks' = [callbacks EXCEPT ![g] = {}]
    /\ parent' = [h \in Signal |-> IF h \in children[g] \cup {g} THEN None ELSE parent[h]]
    /\ forsaken' = forsaken \ (children[g] \cup {g})
    /\ children' = [h \in Signal |->
         IF h = g THEN {} ELSE IF h = parent[g] THEN children[h] \ {g} ELSE children[h]]
    /\ UNCHANGED <<slots, emission, made, misused>>

\* ~signal(): the parent that it knows forgets it, the others do not
EndSignal(g) ==
    /\ g \in alive /\ Free(g) /\ MayEnd(g)
    /\ alive' = alive \ {g}
    /\ Release(g, callbacks[g])
    /\ misused' = (misused \/ TouchesGone(g, callbacks[g]) \/ FindsGone(g))
    /\ callbacks' = [callbacks EXCEPT ![g] = {}]
    /\ parent' = [h \in Signal |-> IF h \in children[g] \cup {g} THEN None ELSE parent[h]]
    /\ forsaken' = forsaken \ (children[g] \cup {g})
    /\ children' = [h \in Signal |->
         IF h = g THEN {} ELSE IF h = parent[g] THEN children[h] \ {g} ELSE children[h]]
    /\ UNCHANGED <<slot, copied, ending, joining, emission, made>>

-----------------------------------------------------------------------------
(* Emissions.                                                              *)

Started(g, by) ==
    [on |-> TRUE, kids |-> children[g], todo |-> callbacks[g], at |-> {}, in |-> None, by |-> by]
Doing(g) == emission[g].on /\ emission[g].at = {} /\ emission[g].in = None

Emit(g) ==
    /\ g \in alive /\ Free(g)
    /\ emission' = [emission EXCEPT ![g] = Started(g, None)]
    /\ UNCHANGED <<graph, slots, callbacks, made, misused>>

EmitChild(g) ==
    /\ Doing(g)
    /\ \E h \in emission[g].kids :
         /\ Free(h)
         /\ emission' = [emission EXCEPT ![g].kids = @ \ {h}, ![g].in = h, ![h] = Started(h, g)]
         /\ misused' = (misused \/ h \notin alive)
    /\ UNCHANGED <<graph, slots, callbacks, made>>

Call(g) ==
    /\ Doing(g) /\ emission[g].kids = {}
    /\ \E j \in emission[g].todo, called \in BOOLEAN :
         emission' = [emission EXCEPT ![g].todo = @ \ {j}, ![g].at = IF called THEN {j} ELSE {}]
    /\ UNCHANGED <<graph, slots, callbacks, made, misused>>

CallReturns(g) ==
    /\ emission[g].on /\ emission[g].at # {}
    /\ emission' = [emission EXCEPT ![g].at = {}]
    /\ UNCHANGED <<graph, slots, callbacks, made, misused>>

Emitted(g) ==
    /\ Doing(g) /\ emission[g].kids = {} /\ emission[g].todo = {}
    /\ emission' = [h \in Signal |->
         IF h = g THEN Idle
         ELSE IF h = emission[g].by THEN [emission[h] EXCEPT !.in = None] ELSE emission[h]]
    /\ UNCHANGED <<graph, slots, callbacks, made, misused>>

EmissionStep(g) == EmitChild(g) \/ Call(g) \/ CallReturns(g) \/ Emitted(g)

Next ==
    \/ \E g \in Signal :
          \/ Emit(g) \/ EmissionStep(g) \/ DisconnectAll(g) \/ EndSignal(g)
          \/ \E h \in Signal : Adopt(g, h) \/ Abandon(g, h)
          \/ \E s \in Slot : Connect(g, s)
          \/ \E c \in 1 .. made : Disconnect(g, c)
    \/ \E s \in Slot : Join(s) \/ Clean(s) \/ Left(s) \/ \E ends \in BOOLEAN : Leave(s, ends)

\* Threads run, callbacks return, and who waits for a mutex that is free again
\* and again gets it: while a step needs none, it stays possible.
Fairness ==
    /\ \A g \in Signal : SF_emission(EmissionStep(g))
    /\ \A s \in Slot : SF_slots(Clean(s) \/ Left(s))

Spec == Init /\ [][Next]_vars /\ Fairness

-----------------------------------------------------------------------------
(* Properties.                                                             *)

TypeOK ==
    /\ alive \subseteq Signal /\ forsaken \subseteq Signal /\ ending \subseteq Slot
    /\ callbacks \in [Signal -> SUBSET [connection : 1 .. MaxMade, owner : Slot]]
    /\ children \in [Signal -> SUBSET Signal]
    /\ parent \in [Signal -> Signal \cup {None}]
    /\ slot \in [Slot -> {"live", "leaving", "gone"}]
    /\ data \in [Slot -> NoConnection .. made] /\ made \in 0 .. MaxMade
    /\ \A s \in Slot :
         cleaners[s] \cup copied[s] \cup joining[s] \cup lost[s]
            \subseteq [signal : Signal, connection : 1 .. MaxMade]
    /\ \A g \in Signal : emission[g].on =>
         emission[g].in \in Signal \cup {None} /\ emission[g].by \in Signal \cup {None}

\* A callback never runs for a slot whose destructor has returned: ~slot()
\* waits for the emission that may be calling it, at every signal that it is
\* connected to, but for the connections it has lost: their signals keep and
\* call it (signal.h:180-192, 402-420, 525-537).
NoCallAfterEnd ==
    \A g \in Signal : emission[g].on => \A j \in emission[g].at :
       slot[j.owner] = "gone" => Cleaner(g, j.connection) \in lost[j.owner]

\* Nothing that was destroyed is touched: no signal by the cleaner of a slot,
\* no slot by a signal, no parent by its child and no child by its parent, but
\* for the slot of a lost connection and the parent of a forsaken signal.
NothingMisused == ~misused

\* A slot at rest and the signals agree on its connections: who can call it,
\* it can disconnect itself from when it ends, but for the lost ones; and only
\* what a signal still has is lost.
CleanersMatch ==
    \A s \in Slot :
       LET held == UNION {CleanersOf(s, g, callbacks[g]) : g \in Signal}
       IN  /\ slot[s] = "live" /\ joining[s] = {} => cleaners[s] = held \ lost[s]
           /\ lost[s] \subseteq held \cup joining[s]

\* What the comment in disconnect_all() takes for granted ("should be an
\* assert"): a child's parent is the signal that has it as a child.  The other
\* way round, the parent that a signal knows exists and has it as a child,
\* unless it has forsaken it.
ChildKnowsParent ==
    /\ \A g \in alive : \A h \in children[g] : parent[h] = g
    /\ \A h \in alive \ forsaken :
         parent[h] # None => parent[h] \in alive /\ h \in children[parent[h]]

\* All that links signals and slots agrees from both sides, and no link leads to
\* what has been destroyed, but for what disconnect(), disconnect_all() and the
\* end of another signal leave behind (signal.h:267-284, 361-366, 402-420).
GraphInvariant == TypeOK /\ NothingMisused /\ CleanersMatch /\ ChildKnowsParent

\* An emission comes to an end: it never waits for a mutex that it holds
\* itself, nor for another one that waits for it.
EmissionEnds == \A g \in Signal : []<>~emission[g].on

\* The destructor of a slot returns, whatever is emitted meanwhile.
LeavingEnds == \A s \in Slot : []<>(slot[s] # "leaving")

\* Nothing that runs on the signals waits for ever.
EverythingEnds == EmissionEnds /\ LeavingEnds

=============================================================================
