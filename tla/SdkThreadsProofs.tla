-------------------------- MODULE SdkThreadsProofs --------------------------
(***************************************************************************)
(* The parts of the SDK in which threads wait for work.  The timed queue,  *)
(* for any threads, elements, poll interval and end of the clock: no       *)
(* wake-up is lost, nothing is handed out before its time, the earliest    *)
(* comes first.  The archive worker, for a pool of any size, each strategy *)
(* and any calls that throw: unless the creation of a thread of the        *)
(* parallel strategy failed no thread of a strategy outlives it and none   *)
(* is without an owner, and unless an exception went past the calls that   *)
(* end a session the archive is told Connected and Disconnected in turn.   *)
(***************************************************************************)
EXTENDS TimedQueue, ArchiveWorker, TLAPS

-----------------------------------------------------------------------------
(* The timed queue.                                                        *)

\* The first element of a queue is due no later than any other.
LEMMA TopIsEarliest ==
    ASSUME NEW i \in Top(data), NEW j \in data
    PROVE  i \in data /\ i.time <= j.time
BY DEF Top

\* A timed wait ends by the time it was made for, and in the clock's range.
LEMMA LimitIsInTime ==
    ASSUME now \in Time, NEW time \in Time
    PROVE  limit_timepoint(time) \in Time /\ limit_timepoint(time) <= time
BY TimedQueueAssumption, SMT DEF limit_timepoint, Time, TimedQueueAssumption

\* The threads that are notified run, the others do what they did.
LEMMA NotifyWakes ==
    ASSUME thread \in [Thread -> {"idle", "running", "waiting", "timed"}]
    PROVE  /\ Notify(thread) \in [Thread -> {"idle", "running", "waiting", "timed"}]
           /\ \A t \in Thread : Notify(thread)[t] \notin {"waiting", "timed"}
BY DEF Notify

-----------------------------------------------------------------------------
\* The type invariant of the queue, for every value of the constants.
THEOREM QueueTypeCorrect == QueueSpec => []QueueTypeOK
<1>1. QueueInit => QueueTypeOK
  <2> SUFFICES ASSUME QueueInit PROVE QueueTypeOK
    OBVIOUS
  <2>1. 0 \in Time
    BY TimedQueueAssumption, SMT DEF Time, TimedQueueAssumption
  <2> QED
    BY <2>1 DEF QueueInit, QueueTypeOK
<1>2. QueueTypeOK /\ [QueueNext]_queueVars => QueueTypeOK'
  <2> SUFFICES ASSUME QueueTypeOK, [QueueNext]_queueVars PROVE QueueTypeOK'
    OBVIOUS
  <2> USE DEF QueueTypeOK
  <2>1. ASSUME NEW e \in Element, NEW time \in Time, Push(e, time) PROVE QueueTypeOK'
    BY <2>1, NotifyWakes DEF Push, Item
  <2>2. CASE Close
    BY <2>2, NotifyWakes DEF Close
  <2>3. CASE ResetTakes \/ ResetOpens
    BY <2>3 DEF ResetTakes, ResetOpens
  <2>4. CASE Tick
    BY <2>4, TimedQueueAssumption DEF Tick, Time, TimedQueueAssumption
  <2>5. ASSUME NEW t \in Thread, WaitPull(t) PROVE QueueTypeOK'
    BY <2>5 DEF WaitPull
  <2>6. ASSUME NEW t \in Thread, Take(t) PROVE QueueTypeOK'
    <3>1. PICK i \in Top(data) :
            /\ data' = data \ {i}
            /\ pulled' = [pulled EXCEPT ![t] = [elem |-> i.elem, time |-> i.time, at |-> now]]
      BY <2>6 DEF Take
    <3>2. i \in Item
      BY DEF Top
    <3>3. [elem |-> i.elem, time |-> i.time, at |-> now] \in [elem : Element, time : Time, at : Time]
      BY <3>2 DEF Item
    <3> QED
      BY <2>6, <3>1, <3>3 DEF Take, Become
  <2>7. ASSUME NEW t \in Thread, GiveUp(t) \/ WaitNotEmpty(t) \/ WaitEnds(t) PROVE QueueTypeOK'
    BY <2>7 DEF GiveUp, WaitNotEmpty, WaitEnds, Become
  <2>8. ASSUME NEW t \in Thread, WaitForTime(t) PROVE QueueTypeOK'
    <3>1. PICK i \in Top(data) : until' = [until EXCEPT ![t] = limit_timepoint(i.time)]
      BY <2>8 DEF WaitForTime
    <3>2. limit_timepoint(i.time) \in Time
      BY LimitIsInTime DEF Top, Item
    <3> QED
      BY <2>8, <3>1, <3>2 DEF WaitForTime, Become
  <2>9. CASE UNCHANGED queueVars
    BY <2>9 DEF queueVars
  <2> QED
    BY <2>1, <2>2, <2>3, <2>4, <2>5, <2>6, <2>7, <2>8, <2>9 DEF QueueNext, Round, TryPull
<1> QED
  BY <1>1, <1>2, PTL DEF QueueSpec

-----------------------------------------------------------------------------
\* A thread that sleeps without a time has nothing to take, and one that sleeps
\* for a time wakes up no later than any element in the queue is due.
THEOREM WakeupsKept == QueueSpec => []NoLostWakeup
<1>1. QueueInit => NoLostWakeup
  BY DEF QueueInit, NoLostWakeup
<1>2. QueueTypeOK /\ NoLostWakeup /\ [QueueNext]_queueVars => NoLostWakeup'
  <2> SUFFICES ASSUME QueueTypeOK, NoLostWakeup, [QueueNext]_queueVars PROVE NoLostWakeup'
    OBVIOUS
  <2> USE DEF NoLostWakeup
  <2>1. ASSUME NEW e \in Element, NEW time \in Time, Push(e, time) PROVE NoLostWakeup'
    BY <2>1, NotifyWakes DEF Push, QueueTypeOK
  <2>2. CASE Close
    BY <2>2, NotifyWakes DEF Close, QueueTypeOK
  <2>3. CASE ResetTakes \/ ResetOpens \/ Tick
    BY <2>3 DEF ResetTakes, ResetOpens, Tick
  <2>4. ASSUME NEW t \in Thread, WaitPull(t) \/ GiveUp(t) \/ WaitNotEmpty(t) \/ WaitEnds(t)
        PROVE  NoLostWakeup'
    BY <2>4 DEF WaitPull, GiveUp, WaitNotEmpty, WaitEnds, Become, QueueTypeOK
  <2>5. ASSUME NEW t \in Thread, Take(t) PROVE NoLostWakeup'
    <3>1. data' \subseteq data /\ UNCHANGED <<closed, until>> /\ thread' = [thread EXCEPT ![t] = "idle"]
      BY <2>5 DEF Take, Become
    <3> QED
      BY <3>1 DEF QueueTypeOK
  <2>6. ASSUME NEW t \in Thread, WaitForTime(t) PROVE NoLostWakeup'
    <3>1. PICK i \in Top(data) : until' = [until EXCEPT ![t] = limit_timepoint(i.time)]
      BY <2>6 DEF WaitForTime
    <3>2. limit_timepoint(i.time) \in Time /\ limit_timepoint(i.time) <= i.time
      BY LimitIsInTime DEF Top, Item, QueueTypeOK
    <3>3. \A j \in data : until'[t] <= j.time
      <4> TAKE j \in data
      <4>1. i.time <= j.time
        BY TopIsEarliest
      <4>2. i.time \in Time /\ j.time \in Time
        BY DEF Top, Item, QueueTypeOK
      <4>3. until'[t] = limit_timepoint(i.time)
        BY <3>1 DEF QueueTypeOK
      <4> QED
        BY <3>2, <4>1, <4>2, <4>3, SMT DEF Time
    <3> QED
      BY <2>6, <3>1, <3>3 DEF WaitForTime, Become, QueueTypeOK
  <2>7. CASE UNCHANGED queueVars
    BY <2>7 DEF queueVars
  <2> QED
    BY <2>1, <2>2, <2>3, <2>4, <2>5, <2>6, <2>7 DEF QueueNext, Round, TryPull
<1> QED
  BY <1>1, <1>2, QueueTypeCorrect, PTL DEF QueueSpec

-----------------------------------------------------------------------------
\* What a thread is given was due when it was given it.
THEOREM NothingEarly == QueueSpec => []NeverEarly
<1>1. QueueInit => NeverEarly
  BY DEF QueueInit, NeverEarly
<1>2. QueueTypeOK /\ NeverEarly /\ [QueueNext]_queueVars => NeverEarly'
  <2> SUFFICES ASSUME QueueTypeOK, NeverEarly, [QueueNext]_queueVars PROVE NeverEarly'
    OBVIOUS
  <2> USE DEF NeverEarly
  <2>1. ASSUME NEW t \in Thread, Take(t) PROVE NeverEarly'
    <3>1. PICK i \in Top(data) :
            pulled' = [pulled EXCEPT ![t] = [elem |-> i.elem, time |-> i.time, at |-> now]]
      BY <2>1 DEF Take
    <3>2. PICK j \in Top(data) : now >= j.time
      BY <2>1 DEF Take, not_empty_and_time_reached
    <3>3. i.time <= j.time
      BY TopIsEarliest DEF Top
    <3>4. i.time \in Time /\ j.time \in Time /\ now \in Time
      BY DEF Top, Item, QueueTypeOK
    <3>5. i.time <= now
      BY <3>2, <3>3, <3>4, SMT DEF Time
    <3> QED
      BY <3>1, <3>5 DEF QueueTypeOK
  <2>2. ASSUME NEW t \in Thread, WaitPull(t) PROVE NeverEarly'
    BY <2>2 DEF WaitPull, QueueTypeOK
  <2>3. CASE UNCHANGED pulled
    BY <2>3
  <2>4. \/ UNCHANGED pulled
        \/ \E t \in Thread : Take(t) \/ WaitPull(t)
    BY DEF QueueNext, Push, Close, ResetTakes, ResetOpens, Tick, Round, TryPull, GiveUp, WaitNotEmpty,
           WaitForTime, WaitEnds, queueVars
  <2> QED
    BY <2>1, <2>2, <2>3, <2>4
<1> QED
  BY <1>1, <1>2, QueueTypeCorrect, PTL DEF QueueSpec

\* The three together: the invariant that the run checks.
THEOREM QueueSafe == QueueSpec => []QueueInvariant
BY QueueTypeCorrect, WakeupsKept, NothingEarly, PTL DEF QueueInvariant

-----------------------------------------------------------------------------
\* What a thread is given is due no later than anything it leaves behind.
THEOREM EarliestComesFirst == QueueSpec => EarliestFirst
<1>1. QueueTypeOK /\ [QueueNext]_queueVars
        => [\A t \in Thread : pulled'[t] \notin {pulled[t], Nothing} =>
              \A i \in data' : pulled'[t].time <= i.time]_queueVars
  <2> SUFFICES ASSUME QueueTypeOK, [QueueNext]_queueVars,
                      NEW t \in Thread, pulled'[t] \notin {pulled[t], Nothing},
                      NEW k \in data'
               PROVE  pulled'[t].time <= k.time
    OBVIOUS
  <2>1. PICK u \in Thread : Take(u) \/ WaitPull(u)
    BY DEF QueueNext, Push, Close, ResetTakes, ResetOpens, Tick, Round, TryPull, GiveUp, WaitNotEmpty,
           WaitForTime, WaitEnds, queueVars
  <2>2. ~WaitPull(u)
    BY DEF WaitPull, QueueTypeOK
  <2>3. PICK i \in Top(data) :
          /\ data' = data \ {i}
          /\ pulled' = [pulled EXCEPT ![u] = [elem |-> i.elem, time |-> i.time, at |-> now]]
    BY <2>1, <2>2 DEF Take
  <2>4. pulled'[t].time = i.time
    BY <2>3 DEF QueueTypeOK
  <2>5. k \in data
    BY <2>3
  <2> QED
    BY <2>4, <2>5, TopIsEarliest
<1> QED
  BY <1>1, QueueTypeCorrect, PTL DEF QueueSpec, EarliestFirst

-----------------------------------------------------------------------------
(* The archive worker.                                                     *)

HelperPlace == {"none", "again", "init", "loop", "work", "ended"}

\* where Worker() is when it has no helpers
Alone == {"none", "top", "connect", "connected", "run", "disconnected", "disconnect", "ended"}

\* The invariant that carries the theorems: helpers are only in their loop, are
\* held only while Worker() is in a strategy that has them, are all held unless
\* a creation has lost some, and Worker() is there only with the thread object.
Typed ==
    /\ count \in Nat \ {0}
    /\ at \in [ThreadId -> Place]
    /\ threads \subseteq Helper
    /\ \A t \in Helper : at[t] \in HelperPlace
HelpersOnlyInStrategy ==
    /\ at[0] \in Alone \/ Chosen = "single" => threads = {}
    /\ at[0] = "create" => Chosen # "single"
HelpersHeld == "threads" \notin missed => \A t \in Helper \ threads : at[t] = "none"
OwnedOnly == ~th => at[0] = "none"
WorkerInv == Typed /\ HelpersOnlyInStrategy /\ HelpersHeld /\ OwnedOnly

LEMMA ThreadIds == 0 \in ThreadId /\ 0 \notin Helper /\ ThreadId = Helper \cup {0}
BY WorkerAssumption DEF WorkerAssumption, ThreadId, Helper

\* What an exception has passed over only grows, but for what Disconnect() makes
\* up for; the threads stay lost.
LEMMA ThreadsStayLost == [Next]_vars /\ "threads" \in missed => "threads" \in missed'
<1>. SUFFICES ASSUME [Next]_vars, "threads" \in missed PROVE "threads" \in missed'
  OBVIOUS
<1>1. ASSUME NEW t \in ThreadId, ThreadStep(t) PROVE "threads" \in missed'
  BY <1>1 DEF ThreadStep, WorkerStep, Again, Initialise, Loop, Work, NeedReconnect, ConnectFails,
       ConnectSucceeds, Connected, Disconnected, Disconnect, Run, Create, Created, CreateFails,
       CreateEscapes, GetConnectEscapes, Join, told, Misses
<1>. QED
  BY <1>1 DEF Next, Start, Clear, StopArchive, StopPool, Cleared, Lost, told, vars, Misses

\* A step of Worker() alone: the helpers stay where they are.
LEMMA WorkerMoves ==
    ASSUME WorkerInv, [Next]_vars, NEW place \in Place, Go(0, place),
           UNCHANGED <<strategy, count, th>>, th,
           place \in Alone => threads = {},
           place = "create" => Chosen # "single"
    PROVE  WorkerInv'
<1>1. at'[0] = place /\ threads' = threads /\ \A t \in Helper : at'[t] = at[t]
  BY ThreadIds DEF Go, WorkerInv, Typed
<1>2. Typed'
  BY <1>1, ThreadIds DEF Go, WorkerInv, Typed
<1>3. Chosen' = Chosen
  BY DEF Chosen
<1>4. HelpersOnlyInStrategy'
  BY <1>1, <1>3 DEF WorkerInv, HelpersOnlyInStrategy
<1>5. HelpersHeld'
  BY <1>1, ThreadsStayLost DEF WorkerInv, HelpersHeld
<1> QED
  BY <1>2, <1>4, <1>5 DEF WorkerInv, OwnedOnly

\* A step of a helper in its loop.
LEMMA HelperMoves ==
    ASSUME WorkerInv, [Next]_vars, NEW t \in Helper, at[t] # "none", NEW place \in HelperPlace,
           Go(t, place), UNCHANGED <<strategy, count, th>>
    PROVE  WorkerInv'
<1>1. /\ at'[0] = at[0] /\ threads' = threads
      /\ \A u \in Helper : at'[u] = IF u = t THEN place ELSE at[u]
  BY ThreadIds DEF Go, WorkerInv, Typed
<1>2. HelperPlace \subseteq Place
  BY DEF HelperPlace, Place
<1>3. Typed'
  BY <1>1, <1>2, ThreadIds DEF Go, WorkerInv, Typed
<1>4. Chosen' = Chosen
  BY DEF Chosen
<1>5. HelpersHeld'
  BY <1>1, ThreadsStayLost DEF WorkerInv, HelpersHeld
<1>6. HelpersOnlyInStrategy'
  BY <1>1, <1>4 DEF WorkerInv, HelpersOnlyInStrategy
<1> QED
  BY <1>1, <1>3, <1>5, <1>6 DEF WorkerInv, OwnedOnly

\* One round of the loop of any thread.
LEMMA LoopMoves ==
    ASSUME WorkerInv, [Next]_vars, NEW t \in ThreadId,
           Again(t) \/ Initialise(t) \/ Loop(t) \/ Work(t)
    PROVE  WorkerInv'
<1>1. at[t] \in {"again", "init", "loop", "work"} /\ UNCHANGED <<strategy, count, th>>
  BY DEF Again, Initialise, Loop, Work, In, own, config
<1>2. PICK place \in {"init", "loop", "work", "again", "ended", "none", "join", "disconnected"} :
        /\ Go(t, place)
        /\ t # 0 => place \in HelperPlace
        /\ t = 0 => place \notin {"ended", "none"} /\ (place = "disconnected" => Chosen = "single")
  <2>1. CASE Again(t)
    BY <2>1 DEF Again, HelperPlace
  <2>2. Out(t) \in {"again", "join", "disconnected"} /\ (t # 0 => Out(t) = "again")
        /\ (Out(t) = "disconnected" => Chosen = "single")
    BY ThreadIds DEF Out, Repeats, Chosen, WorkerInv, Typed
  <2>3. CASE Initialise(t)
    BY <2>2, <2>3 DEF Initialise, Throw, HelperPlace
  <2>4. CASE Loop(t)
    BY <2>2, <2>4 DEF Loop, HelperPlace
  <2>5. CASE Work(t)
    BY <2>2, <2>5 DEF Work, Throw, HelperPlace
  <2> QED
    BY <2>1, <2>3, <2>4, <2>5
<1>3. CASE t \in Helper
  BY <1>1, <1>2, <1>3, ThreadIds, HelperMoves
<1>4. CASE t = 0
  <2>1. th
    BY <1>1, <1>4 DEF WorkerInv, OwnedOnly
  <2>2. place \in Place /\ place # "create"
    BY <1>2 DEF Place
  <2>3. place \in Alone => threads = {}
    BY <1>2, <1>4 DEF Alone, WorkerInv, HelpersOnlyInStrategy
  <2> QED
    BY <1>1, <1>2, <1>4, <2>1, <2>2, <2>3, WorkerMoves
<1> QED
  BY <1>3, <1>4, ThreadIds

-----------------------------------------------------------------------------
THEOREM WorkerInvariant == Spec => []WorkerInv
<1>1. Init => WorkerInv
  <2> SUFFICES ASSUME Init PROVE WorkerInv
    OBVIOUS
  <2>1. count \in Nat \ {0}
    BY WorkerAssumption, SMT DEF Init, WorkerAssumption
  <2>2. Typed
    BY <2>1, ThreadIds DEF Init, Typed, Place, HelperPlace
  <2>3. \A t \in ThreadId : at[t] = "none"
    BY DEF Init
  <2>4. threads = {}
    BY DEF Init
  <2> QED
    BY <2>2, <2>3, <2>4, ThreadIds DEF WorkerInv, HelpersOnlyInStrategy, HelpersHeld, OwnedOnly
<1>2. WorkerInv /\ [Next]_vars => WorkerInv'
  <2> SUFFICES ASSUME WorkerInv, [Next]_vars PROVE WorkerInv'
    OBVIOUS
  <2>0. /\ 0 \in ThreadId /\ 0 \notin Helper /\ ThreadId = Helper \cup {0}
        /\ at \in [ThreadId -> Place]
    BY ThreadIds DEF WorkerInv, Typed
  <2>1. ASSUME NEW t \in ThreadId, Again(t) \/ Initialise(t) \/ Loop(t) \/ Work(t) PROVE WorkerInv'
    BY <2>1, LoopMoves
  <2>2. CASE NeedReconnect \/ ConnectFails \/ ConnectSucceeds \/ Connected \/ Disconnected \/ Disconnect
    <3>1. PICK place \in Alone : Go(0, place)
      BY <2>2 DEF NeedReconnect, ConnectFails, ConnectSucceeds, Connected, Disconnected, Disconnect, Alone
    <3>2. at[0] \in Alone \ {"none"} /\ UNCHANGED <<strategy, count, th>>
      BY <2>2 DEF NeedReconnect, ConnectFails, ConnectSucceeds, Connected, Disconnected, Disconnect, Alone, In, own,
             config
    <3>3. th /\ threads = {}
      BY <3>2 DEF WorkerInv, OwnedOnly, HelpersOnlyInStrategy
    <3>4. place \in Place /\ place # "create"
      BY <3>1 DEF Alone, Place
    <3> QED
      BY <3>1, <3>2, <3>3, <3>4, WorkerMoves
  <2>3. CASE Run
    <3>1. PICK place \in {"disconnected", "init", "create"} :
            Go(0, place) /\ (place = "create" => Chosen # "single")
      BY <2>3 DEF Run
    <3>2. th /\ UNCHANGED <<strategy, count, th>> /\ threads = {}
      BY <2>3 DEF Run, In, own, config, Alone, WorkerInv, OwnedOnly, HelpersOnlyInStrategy
    <3>3. place \in Place
      BY <3>1 DEF Place
    <3> QED
      BY <3>1, <3>2, <3>3, WorkerMoves
  <2>4. CASE Created \/ CreateFails \/ GetConnectEscapes
    <3>1. PICK place \in {"again", "init", "join", "top"} :
            Go(0, place) /\ (place = "top" => Chosen = "single")
      BY <2>4 DEF Created, CreateFails, GetConnectEscapes
    <3>2. th /\ UNCHANGED <<strategy, count, th>>
      BY <2>4 DEF Created, CreateFails, GetConnectEscapes, In, own, config, WorkerInv, OwnedOnly
    <3>3. place \in Place /\ (place \in Alone => threads = {}) /\ place # "create"
      BY <3>1 DEF Place, Alone, WorkerInv, HelpersOnlyInStrategy
    <3> QED
      BY <3>1, <3>2, <3>3, WorkerMoves
  <2>5. CASE Create
    <3>1. PICK t \in Helper : /\ at[t] = "none" /\ at' = [at EXCEPT ![t] = "again"]
                              /\ threads' = threads \cup {t}
      BY <2>5 DEF Create, In
    <3>2. at[0] = "create" /\ UNCHANGED <<strategy, count, th, missed>>
      BY <2>5 DEF Create, In, own, config, told
    <3>3. at'[0] = at[0] /\ \A u \in Helper : at'[u] = IF u = t THEN "again" ELSE at[u]
      BY <2>0, <3>1
    <3>4. Typed'
      BY <2>0, <3>1, <3>2, <3>3 DEF WorkerInv, Typed, HelperPlace, Place
    <3>5. Chosen # "single" /\ Chosen' = Chosen
      BY <3>2 DEF WorkerInv, HelpersOnlyInStrategy, Chosen
    <3>6. HelpersOnlyInStrategy'
      BY <3>2, <3>3, <3>5 DEF HelpersOnlyInStrategy, Alone
    <3>7. HelpersHeld'
      BY <3>1, <3>2, <3>3 DEF WorkerInv, HelpersHeld
    <3> QED
      BY <3>2, <3>3, <3>4, <3>6, <3>7 DEF WorkerInv, OwnedOnly
  <2>6. CASE Join
    <3>1. /\ at'[0] = "disconnected" /\ threads' = {}
          /\ \A t \in Helper : at'[t] = IF t \in threads THEN "none" ELSE at[t]
      BY <2>0, <2>6 DEF Join
    <3>2. Typed'
      BY <2>0, <2>6, <3>1 DEF Join, config, WorkerInv, Typed, HelperPlace, Place
    <3>3. th' /\ UNCHANGED missed
      BY <2>6 DEF Join, In, own, told, WorkerInv, OwnedOnly
    <3>4. HelpersOnlyInStrategy'
      BY <3>1 DEF HelpersOnlyInStrategy
    <3>5. HelpersHeld'
      BY <3>1, <3>3 DEF WorkerInv, HelpersHeld
    <3> QED
      BY <3>2, <3>3, <3>4, <3>5 DEF WorkerInv, OwnedOnly
  <2>7. CASE CreateEscapes
    <3>1. /\ at'[0] = "top" /\ threads' = {}
          /\ \A t \in Helper : at'[t] = IF at[t] = "ended" THEN "none" ELSE at[t]
      BY <2>0, <2>7 DEF CreateEscapes, In
    <3>2. Typed'
      BY <2>0, <2>7, <3>1 DEF CreateEscapes, In, config, WorkerInv, Typed, HelperPlace, Place
    <3>3. th' /\ "threads" \in missed'
      BY <2>7 DEF CreateEscapes, In, own, Misses, WorkerInv, OwnedOnly
    <3>4. HelpersOnlyInStrategy' /\ HelpersHeld'
      BY <3>1, <3>3 DEF HelpersOnlyInStrategy, HelpersHeld
    <3> QED
      BY <3>2, <3>3, <3>4 DEF WorkerInv, OwnedOnly
  <2>8. CASE Start \/ Cleared
    <3>1. UNCHANGED <<threads, missed, strategy, count>>
      BY <2>8 DEF Start, Cleared, Go, told, config, run
    <3>2. threads = {}
      <4>1. CASE ~th
        BY <4>1 DEF WorkerInv, OwnedOnly, HelpersOnlyInStrategy, Alone
      <4>2. CASE th
        BY <2>8, <4>2 DEF Start, Cleared, In, WorkerInv, HelpersOnlyInStrategy, Alone
      <4>. QED BY <4>1, <4>2
    <3>3. \A t \in Helper : at'[t] = at[t]
      BY <2>0, <2>8 DEF Start, Cleared, Go, run
    <3>4. Typed'
      BY <2>0, <2>8, <3>1, <3>3 DEF Start, Cleared, Go, run, WorkerInv, Typed, Place
    <3>5. at'[0] = IF Start THEN "top" ELSE "none"
      BY <2>0, <2>8 DEF Start, Cleared, Go, run, WorkerInv, OwnedOnly
    <3>6. HelpersOnlyInStrategy' /\ HelpersHeld'
      BY <3>1, <3>2, <3>3, <3>5 DEF HelpersOnlyInStrategy, WorkerInv, HelpersHeld
    <3>7. OwnedOnly'
      BY <2>8, <3>5 DEF OwnedOnly, Start
    <3> QED
      BY <3>4, <3>6, <3>7 DEF WorkerInv
  <2>9. CASE Clear \/ StopArchive \/ StopPool \/ Lost \/ UNCHANGED vars
    <3>1. UNCHANGED <<strategy, count, at, threads, th>>
      BY <2>9 DEF Clear, StopArchive, StopPool, Lost, vars, own, config, run
    <3>2. HelpersHeld'
      BY <3>1, ThreadsStayLost DEF WorkerInv, HelpersHeld
    <3> QED
      BY <3>1, <3>2 DEF WorkerInv, Typed, HelpersOnlyInStrategy, OwnedOnly, Chosen
  <2> QED
    BY <2>1, <2>2, <2>3, <2>4, <2>5, <2>6, <2>7, <2>8, <2>9 DEF Next, ThreadStep, WorkerStep
<1> QED
  BY <1>1, <1>2, PTL DEF Spec

\* No thread of a strategy outlives it: when Worker() connects the pool again
\* nobody works on a connection of the time before, but for the threads that a
\* failed creation of the parallel strategy has lost.
THEOREM StrategyLeavesNoThread == Spec => []NoThreadLeft
<1>1. WorkerInv => NoThreadLeft
  BY DEF WorkerInv, HelpersOnlyInStrategy, HelpersHeld, Alone, Between, NoThreadLeft, In
<1> QED
  BY <1>1, WorkerInvariant, PTL

\* Where there is no thread object there is no thread, but for lost ones.
THEOREM ThreadsAreOwned == Spec => []NoThreadUnowned
<1>1. WorkerInv => NoThreadUnowned
  BY DEF WorkerInv, HelpersOnlyInStrategy, HelpersHeld, OwnedOnly, Alone, NoThreadUnowned, In
<1> QED
  BY <1>1, WorkerInvariant, PTL

\* Together: every thread of the archive is waited for by somebody, unless a
\* creation of the parallel strategy has failed.
THEOREM ThreadsAreAccounted == Spec => []ThreadsAccounted
BY StrategyLeavesNoThread, ThreadsAreOwned, PTL DEF ThreadsAccounted

-----------------------------------------------------------------------------
InSession == {"run", "create", "init", "loop", "work", "again", "join", "disconnected"}

\* The archive is told Connected and Disconnected in turn, unless an exception
\* has gone past Disconnected() since the pool was last disconnected.
THEOREM ArchiveToldInTurn == Spec => []ToldInTurn
<1> DEFINE Inv == /\ "archive" \notin missed /\ session => at[0] \in InSession
                  /\ at[0] = "disconnect" => ~session
<1>1. Init => Inv
  BY DEF Init, ThreadId, InSession
<1>2. WorkerInv /\ Inv /\ [Next]_vars => Inv'
  <2> SUFFICES ASSUME WorkerInv, Inv, [Next]_vars PROVE Inv'
    OBVIOUS
  <2>0. 0 \in ThreadId /\ 0 \notin Helper /\ ThreadId = Helper \cup {0} /\ at \in [ThreadId -> Place]
    BY ThreadIds DEF WorkerInv, Typed
  <2>1. ASSUME NEW t \in ThreadId, Again(t) \/ Initialise(t) \/ Loop(t) \/ Work(t) PROVE Inv'
    <3>1. UNCHANGED <<session, missed>>
      BY <2>1 DEF Again, Initialise, Loop, Work, told
    <3>2. PICK place : Go(t, place) /\ (t = 0 => place \in InSession)
      BY <2>1 DEF Again, Initialise, Loop, Work, Throw, Out, InSession
    <3>3. CASE t = 0
      BY <2>0, <3>1, <3>2, <3>3 DEF Go, InSession
    <3>4. CASE t # 0
      BY <2>0, <3>1, <3>2, <3>4 DEF Go
    <3> QED
      BY <3>3, <3>4
  <2>2. CASE NeedReconnect \/ ConnectFails \/ ConnectSucceeds \/ Start
    <3>1. UNCHANGED <<session, missed>>
      BY <2>2 DEF NeedReconnect, ConnectFails, ConnectSucceeds, Start, told
    <3>2. at[0] \notin InSession
      BY <2>2 DEF NeedReconnect, ConnectFails, ConnectSucceeds, Start, In, InSession,
                  WorkerInv, OwnedOnly
    <3>3. at'[0] # "disconnect"
      BY <2>0, <2>2 DEF NeedReconnect, ConnectFails, ConnectSucceeds, Start, Go
    <3> QED
      BY <3>1, <3>2, <3>3
  <2>3. CASE Disconnect
    <3>1. ~session' /\ at'[0] = "top"
      BY <2>0, <2>3 DEF Disconnect, In, Go
    <3> QED
      BY <3>1
  <2>4. CASE Connected
    <3>1. at[0] \notin InSession /\ missed \subseteq missed'
      BY <2>4 DEF Connected, In, InSession, told, Misses
    <3>2. \/ session' = session /\ at'[0] \in {"ended", "top"}
          \/ at'[0] = "run"
      BY <2>0, <2>4 DEF Connected, Go, told
    <3> QED
      BY <3>1, <3>2 DEF InSession
  <2>5. CASE Disconnected
    <3>1. \/ ~session' /\ at'[0] = "disconnect"
          \/ "archive" \in missed' /\ at'[0] = "top"
      BY <2>0, <2>5 DEF Disconnected, Go, Misses
    <3> QED
      BY <3>1
  <2>6. CASE Run \/ Created \/ CreateFails
    <3>1. at'[0] \in InSession
      BY <2>0, <2>6 DEF Run, Created, CreateFails, Go, InSession
    <3> QED
      BY <3>1 DEF InSession
  <2>7. CASE Create
    <3>1. at'[0] = at[0] /\ UNCHANGED <<session, missed>>
      BY <2>0, <2>7 DEF Create, told
    <3> QED
      BY <3>1
  <2>8. CASE Join
    <3>1. at'[0] = "disconnected"
      BY <2>0, <2>8 DEF Join
    <3> QED
      BY <3>1 DEF InSession
  <2>9. CASE CreateEscapes \/ GetConnectEscapes
    <3>1. "archive" \in missed' /\ at'[0] = "top"
      BY <2>0, <2>9 DEF CreateEscapes, GetConnectEscapes, Go, Misses
    <3> QED
      BY <3>1
  <2>10. CASE Cleared
    <3>1. UNCHANGED <<session, missed>> /\ at'[0] \in {at[0], "none"}
      BY <2>0, <2>10 DEF Cleared, told, run, Go
    <3>2. th => at[0] = "ended"
      BY <2>10 DEF Cleared, In
    <3>3. at[0] \notin InSession
      BY <3>2 DEF WorkerInv, OwnedOnly, InSession
    <3> QED
      BY <3>1, <3>3
  <2>11. CASE Clear \/ StopArchive \/ StopPool \/ Lost \/ UNCHANGED vars
    <3>1. UNCHANGED <<session, at>> /\ missed \subseteq missed'
      BY <2>11 DEF Clear, StopArchive, StopPool, Lost, vars, told, run, Misses
    <3> QED
      BY <3>1
  <2> QED
    BY <2>1, <2>2, <2>3, <2>4, <2>5, <2>6, <2>7, <2>8, <2>9, <2>10, <2>11 DEF Next, ThreadStep, WorkerStep
<1>3. Inv => ToldInTurn
  BY DEF ToldInTurn, InSession, Between
<1> QED
  BY <1>1, <1>2, <1>3, WorkerInvariant, PTL DEF Spec

-----------------------------------------------------------------------------
\* What TypeOK adds to the types of WorkerInv.
CountTyped == count \in 1 .. MaxCount
PoolTyped ==
    /\ open \in BOOLEAN /\ stopped \in BOOLEAN /\ session \in BOOLEAN
    /\ missed \subseteq {"archive", "pool", "stop", "threads"}
    /\ th \in BOOLEAN /\ m_stop \in BOOLEAN
    /\ owner \in {"idle", "clear", "stop pool", "clear pool", "join"}
    /\ open => ~stopped

\* A call of Stop() that goes through stops the pool; where Worker() has not
\* connected yet, the pool is closed.
StopStops ==
    /\ "stop" \notin missed /\ m_stop /\ owner \notin {"stop pool", "clear pool"} => stopped
    /\ "stop" \notin missed /\ owner = "join" => stopped
    /\ owner \in {"stop pool", "clear pool"} => m_stop
Closed ==
    missed \cap {"pool", "stop"} = {} /\ at[0] \in {"none", "top", "connect"} => ~open

LEMMA CountKept == [Next]_vars => UNCHANGED count
BY DEF Next, ThreadStep, WorkerStep, Again, Initialise, Loop, Work, NeedReconnect, ConnectFails,
       ConnectSucceeds, Connected, Disconnected, Disconnect, Run, Create, Created, CreateFails,
       CreateEscapes, GetConnectEscapes, Join, Start, Clear, StopArchive, StopPool, Cleared, Lost,
       vars, config

LEMMA PoolTypesKept == PoolTyped /\ [Next]_vars => PoolTyped'
<1> SUFFICES ASSUME PoolTyped, [Next]_vars PROVE PoolTyped'
  OBVIOUS
<1>1. CASE UNCHANGED <<open, stopped, session, missed, th, m_stop, owner>>
  BY <1>1, Zenon DEF PoolTyped
<1>2. ASSUME NEW t, Again(t) \/ Loop(t)
      PROVE  UNCHANGED <<open, stopped, session, missed, th, m_stop, owner>>
  BY <1>2 DEF Again, Loop, pool, told, own
<1>3. ASSUME NEW t, Initialise(t) \/ Work(t) PROVE PoolTyped'
  <2>1. open' = open \/ (open' = (open /\ t = 0 /\ Chosen = "single"))
    BY <1>3 DEF Initialise, Work, Throw
  <2>2. UNCHANGED <<stopped, session, missed, th, m_stop, owner>>
    BY <1>3 DEF Initialise, Work, told, own
  <2>3. open' \in {FALSE, open}
    BY <2>1 DEF PoolTyped
  <2>4. CASE open' = open
    BY <1>1, <2>2, <2>4
  <2>5. CASE open' = FALSE
    BY <2>2, <2>5, Zenon DEF PoolTyped
  <2> QED
    BY <2>3, <2>4, <2>5
<1>4. CASE NeedReconnect \/ ConnectFails \/ Run \/ Create \/ Created \/ Join
  BY <1>1, <1>4 DEF NeedReconnect, ConnectFails, Run, Create, Created, Join, pool, told, own
<1>5. CASE ConnectSucceeds
  <2>1. open' = TRUE /\ ~stopped /\ UNCHANGED <<stopped, session, missed, th, m_stop, owner>>
    BY <1>5 DEF ConnectSucceeds, told, own
  <2> QED
    BY <2>1, Zenon DEF PoolTyped
<1>6. CASE Disconnect \/ CreateFails \/ Lost
  <2>1. /\ open' = FALSE /\ UNCHANGED <<stopped, session, th, m_stop, owner>>
        /\ missed' \subseteq missed
    BY <1>6 DEF Disconnect, CreateFails, Lost, told, own
  <2>2. missed' \subseteq {"archive", "pool", "stop", "threads"}
    BY <2>1 DEF PoolTyped
  <2> QED
    BY <2>1, <2>2, Zenon DEF PoolTyped
<1>7. CASE Connected \/ Disconnected \/ CreateEscapes \/ GetConnectEscapes
  <2>1. /\ session' \in {TRUE, FALSE, session} /\ UNCHANGED <<open, stopped, th, m_stop, owner>>
        /\ missed' \in {missed, missed \cup {"pool"}, missed \cup {"archive", "pool"},
                        missed \cup {"archive", "pool", "threads"}}
    BY <1>7 DEF Connected, Disconnected, CreateEscapes, GetConnectEscapes, Misses, pool, told, own
  <2>2. missed' \subseteq {"archive", "pool", "stop", "threads"}
    BY <2>1 DEF PoolTyped
  <2> QED
    BY <2>1, <2>2, Zenon DEF PoolTyped
<1>8. CASE Start
  <2>1. th' = TRUE /\ m_stop' = FALSE /\ UNCHANGED <<open, stopped, session, missed, owner>>
    BY <1>8 DEF Start, pool, told
  <2> QED
    BY <2>1, Zenon DEF PoolTyped
<1>9. CASE Clear \/ StopArchive
  <2>1. /\ m_stop' \in {TRUE, m_stop} /\ UNCHANGED <<open, stopped, session, th>>
        /\ owner' \in {"idle", "clear", "stop pool", "clear pool", "join"}
        /\ missed' \in {missed, missed \cup {"stop"}}
    BY <1>9 DEF Clear, StopArchive, Misses, pool, told
  <2>2. missed' \subseteq {"archive", "pool", "stop", "threads"}
    BY <2>1 DEF PoolTyped
  <2> QED
    BY <2>1, <2>2, Zenon DEF PoolTyped
<1>10. CASE StopPool
  <2>1. /\ open' = FALSE /\ stopped' = TRUE /\ UNCHANGED <<session, missed, th, m_stop>>
        /\ owner' \in {"idle", "clear", "stop pool", "clear pool", "join"}
    BY <1>10 DEF StopPool, told
  <2> QED
    BY <2>1, Zenon DEF PoolTyped
<1>11. CASE Cleared
  <2>1. th' = FALSE /\ owner' = "idle" /\ UNCHANGED <<open, stopped, session, missed, m_stop>>
    BY <1>11 DEF Cleared, pool, told
  <2> QED
    BY <2>1, Zenon DEF PoolTyped
<1>12. CASE UNCHANGED vars
  BY <1>1, <1>12 DEF vars, pool, told, own
<1> QED
  BY <1>1, <1>2, <1>3, <1>4, <1>5, <1>6, <1>7, <1>8, <1>9, <1>10, <1>11, <1>12
     DEF Next, ThreadStep, WorkerStep

\* "stop" is never made up for.
LEMMA StopStaysMissed == [Next]_vars /\ "stop" \in missed => "stop" \in missed'
<1>. SUFFICES ASSUME [Next]_vars, "stop" \in missed PROVE "stop" \in missed'
  OBVIOUS
<1>1. ASSUME NEW t \in ThreadId, ThreadStep(t) PROVE "stop" \in missed'
  BY <1>1 DEF ThreadStep, WorkerStep, Again, Initialise, Loop, Work, NeedReconnect, ConnectFails,
       ConnectSucceeds, Connected, Disconnected, Disconnect, Run, Create, Created, CreateFails,
       CreateEscapes, GetConnectEscapes, Join, told, Misses
<1>. QED
  BY <1>1 DEF Next, Start, Clear, StopArchive, StopPool, Cleared, Lost, told, vars, Misses

LEMMA StopStopsKept == PoolTyped /\ StopStops /\ [Next]_vars => StopStops'
<1> SUFFICES ASSUME PoolTyped, StopStops, [Next]_vars PROVE StopStops'
  OBVIOUS
<1>1. "stop" \in missed => "stop" \in missed'
  BY StopStaysMissed
<1>2. CASE UNCHANGED <<stopped, m_stop, owner>>
  BY <1>1, <1>2 DEF StopStops
<1>3. ASSUME NEW t, ThreadStep(t) PROVE UNCHANGED <<stopped, m_stop, owner>>
  BY <1>3 DEF ThreadStep, WorkerStep, Again, Initialise, Loop, Work, NeedReconnect, ConnectFails,
       ConnectSucceeds, Connected, Disconnected, Disconnect, Run, Create, Created, CreateFails,
       CreateEscapes, GetConnectEscapes, Join, pool, own
<1>4. CASE Start
  BY <1>1, <1>4 DEF Start, pool, StopStops
<1>5. CASE Clear
  BY <1>1, <1>5 DEF Clear, pool, StopStops
<1>6. CASE StopArchive
  BY <1>1, <1>6 DEF StopArchive, pool, StopStops, Misses
<1>7. CASE StopPool
  BY <1>7 DEF StopPool, StopStops
<1>8. CASE Cleared
  BY <1>1, <1>8 DEF Cleared, pool, StopStops, PoolTyped
<1>9. CASE Lost \/ UNCHANGED vars
  BY <1>2, <1>9 DEF Lost, vars, pool, own
<1> QED
  BY <1>2, <1>3, <1>4, <1>5, <1>6, <1>7, <1>8, <1>9 DEF Next

LEMMA ClosedKept == WorkerInv /\ PoolTyped /\ StopStops /\ Closed /\ [Next]_vars => Closed'
<1> SUFFICES ASSUME WorkerInv, PoolTyped, StopStops, Closed, [Next]_vars,
                    missed' \cap {"pool", "stop"} = {},
                    at'[0] \in {"none", "top", "connect"}
             PROVE  ~open'
  BY DEF Closed
<1>0. 0 \in ThreadId /\ 0 \notin Helper /\ ThreadId = Helper \cup {0} /\ at \in [ThreadId -> Place]
  BY ThreadIds DEF WorkerInv, Typed
<1>1. "pool" \notin missed' /\ "stop" \notin missed'
  OBVIOUS
<1>2. missed \subseteq missed' /\ at[0] \in {"none", "top", "connect"} => ~open
  BY <1>1 DEF Closed
<1>3. ASSUME NEW t \in ThreadId, Again(t) \/ Initialise(t) \/ Loop(t) \/ Work(t) PROVE ~open'
  <2>1. PICK place \in {"init", "loop", "work", "again", "ended", "none", "join", "disconnected"} :
          Go(t, place) /\ (t = 0 => place # "none")
    BY <1>3 DEF Again, Initialise, Loop, Work, Throw, Out
  <2>2. at'[0] = at[0] \/ at'[0] \notin {"none", "top", "connect"}
    BY <1>0, <2>1 DEF Go
  <2>3. open' => open
    <3>1. open' = open \/ open' = (open /\ t = 0 /\ Chosen = "single")
      BY <1>3 DEF Again, Initialise, Loop, Work, Throw, pool
    <3> QED
      BY <3>1, Zenon
  <2>4. missed' = missed
    BY <1>3 DEF Again, Initialise, Loop, Work, told
  <2> QED
    BY <1>2, <2>2, <2>3, <2>4
<1>4. CASE NeedReconnect \/ ConnectFails
  BY <1>2, <1>4 DEF NeedReconnect, ConnectFails, In, pool, told
<1>5. CASE Disconnect \/ CreateFails \/ Lost
  BY <1>5 DEF Disconnect, CreateFails, Lost
<1>6. CASE ConnectSucceeds \/ Connected \/ Disconnected \/ Run \/ Created
  <2>1. PICK place \in {"connected", "run", "ended", "disconnect", "disconnected", "init", "create",
                        "again"} : Go(0, place)
    BY <1>1, <1>6 DEF ConnectSucceeds, Connected, Disconnected, Run, Created, Misses
  <2>2. at'[0] = place
    BY <1>0, <2>1 DEF Go
  <2> QED
    BY <2>2
<1>7. CASE Create
  BY <1>0, <1>7 DEF Create, In
<1>8. CASE Join
  BY <1>0, <1>8 DEF Join
<1>9. CASE CreateEscapes \/ GetConnectEscapes
  BY <1>1, <1>9 DEF CreateEscapes, GetConnectEscapes, Misses
<1>10. CASE Start
  <2>1. at[0] = "none" /\ UNCHANGED <<missed, open>>
    BY <1>10 DEF Start, pool, told, WorkerInv, OwnedOnly
  <2> QED
    BY <1>2, <2>1
<1>11. CASE Clear \/ StopArchive \/ UNCHANGED vars
  <2>1. missed \subseteq missed' /\ UNCHANGED <<at, open>>
    BY <1>11 DEF Clear, StopArchive, vars, pool, told, run, Misses
  <2> QED
    BY <1>2, <2>1
<1>12. CASE StopPool
  BY <1>12 DEF StopPool
<1>13. CASE Cleared
  <2>1. "stop" \notin missed /\ owner = "join" /\ open' = open
    BY <1>1, <1>13 DEF Cleared, told, pool
  <2> QED
    BY <2>1 DEF StopStops, PoolTyped
<1> QED
  BY <1>3, <1>4, <1>5, <1>6, <1>7, <1>8, <1>9, <1>10, <1>11, <1>12, <1>13
     DEF Next, ThreadStep, WorkerStep

\* Every variable keeps its type; and unless an exception has gone past the calls
\* that end a session, the archive is told Connected and Disconnected in turn and
\* the pool is asked to connect only when it is closed.
THEOREM SessionsInTurn == Spec => []SessionInvariant
<1>1. Init => CountTyped /\ PoolTyped /\ StopStops /\ Closed
  <2>1. Init => CountTyped
    BY DEF Init, CountTyped
  <2>2. Init => PoolTyped /\ StopStops /\ Closed
    BY DEF Init, PoolTyped, StopStops, Closed
  <2> QED
    BY <2>1, <2>2
<1>2. CountTyped /\ [Next]_vars => CountTyped'
  BY CountKept DEF CountTyped
<1>3. WorkerInv /\ CountTyped /\ PoolTyped /\ Closed => TypeOK /\ ClosedBefore
  <2> SUFFICES ASSUME WorkerInv, CountTyped, PoolTyped, Closed PROVE TypeOK /\ ClosedBefore
    OBVIOUS
  <2>1. ClosedBefore
    BY DEF Closed, ClosedBefore, In
  <2>2. count \in 1 .. MaxCount /\ at \in [ThreadId -> Place] /\ threads \subseteq Helper
    BY DEF CountTyped, WorkerInv, Typed
  <2> QED
    BY <2>1, <2>2, Zenon DEF PoolTyped, TypeOK
<1> QED
  BY <1>1, <1>2, <1>3, PoolTypesKept, StopStopsKept, ClosedKept, WorkerInvariant, ArchiveToldInTurn,
     PTL DEF Spec, SessionInvariant

=============================================================================
