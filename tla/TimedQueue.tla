----------------------------- MODULE TimedQueue -----------------------------
(***************************************************************************)
(* sync_timed_queue of the SDK, the queue its task pool takes work from:   *)
(* elements become due at a time, the earliest first, and any number of    *)
(* threads wait for them in wait_pull().                                   *)
(*                                                                         *)
(* A thread goes round the loop of wait_to_pull() with the mutex held, so  *)
(* one round is one step; it gives the mutex up only inside a wait.  Every *)
(* push and close() notifies all waiting threads.                          *)
(***************************************************************************)
EXTENDS Integers

CONSTANTS
    Thread,         \* the threads that pull
    Element,
    Poll,           \* the longest a timed wait lasts
    Ahead,          \* how far the steady clock is ahead of TimePoint::now(): where
                    \* TimePoint counts from is decided in a closed library
    MaxTime         \* bound: where the clock of the model stops

ASSUME TimedQueueAssumption == Poll \in Nat \ {0} /\ Ahead \in Int /\ MaxTime \in Nat

VARIABLES
    now,            \* TimePoint::now()
    data,           \* the elements in the queue, with their times
    unused,         \* the elements that have not been pushed yet
    closed,
    resetting,      \* a reset() has taken the elements and not opened yet
    thread,         \* what each thread is doing
    until,          \* when the timed wait of a thread ends
    pulled          \* the element a thread was given last, and when

queueVars == <<now, data, unused, closed, resetting, thread, until, pulled>>

Time == 0 .. MaxTime
Item == [elem : Element, time : Time]
Nothing == [elem |-> "nothing"]

QueueInit ==
    /\ now = 0
    /\ data = {}
    /\ unused = Element
    /\ closed = FALSE
    /\ resetting = FALSE
    /\ thread = [t \in Thread |-> "idle"]
    /\ until = [t \in Thread |-> 0]
    /\ pulled = [t \in Thread |-> Nothing]

\* Seeded fault: the order of scheduled_type the other way round.
Latest(items) == {i \in items : \A j \in items : i.time >= j.time}

\* data_.top(): the order of scheduled_type puts the earliest time first
Top(items) == {i \in items : \A j \in items : i.time <= j.time}

not_empty_and_time_reached == \E i \in Top(data) : now >= i.time

\* Seeded fault: a thread in a timed wait is not woken.
NotifyWaiting(threads) ==
    [t \in Thread |-> IF threads[t] = "waiting" THEN "running" ELSE threads[t]]

\* Seeded fault: a thread that waits for an element is not woken.
NotifyTimed(threads) ==
    [t \in Thread |-> IF threads[t] = "timed" THEN "running" ELSE threads[t]]

\* notify_all()
Notify(threads) ==
    [t \in Thread |-> IF threads[t] \in {"waiting", "timed"} THEN "running" ELSE threads[t]]

\* try_push(), which refuses when closed as push() does by an exception
Push(e, time) ==
    /\ ~closed
    /\ e \in unused
    /\ unused' = unused \ {e}
    /\ data' = data \cup {[elem |-> e, time |-> time]}
    /\ thread' = Notify(thread)
    /\ UNCHANGED <<now, closed, resetting, until, pulled>>

\* Seeded fault: nobody is told.
CloseQuietly ==
    /\ ~closed
    /\ closed' = TRUE
    /\ UNCHANGED <<now, data, unused, resetting, thread, until, pulled>>

Close ==
    /\ ~closed
    /\ closed' = TRUE
    /\ thread' = Notify(thread)
    /\ UNCHANGED <<now, data, unused, resetting, until, pulled>>

\* reset() takes the elements out under one lock and opens under another
ResetTakes ==
    /\ ~resetting
    /\ data' = {}
    /\ resetting' = TRUE
    /\ UNCHANGED <<now, unused, closed, thread, until, pulled>>

ResetOpens ==
    /\ resetting
    /\ closed' = FALSE
    /\ resetting' = FALSE
    /\ UNCHANGED <<now, data, unused, thread, until, pulled>>

-----------------------------------------------------------------------------
WaitPull(t) ==
    /\ thread[t] = "idle"
    /\ thread' = [thread EXCEPT ![t] = "running"]
    /\ pulled' = [pulled EXCEPT ![t] = Nothing]
    /\ UNCHANGED <<now, data, unused, closed, resetting, until>>

Become(t, what) == thread' = [thread EXCEPT ![t] = what]

Take(t) ==
    /\ not_empty_and_time_reached
    /\ \E i \in Top(data) :
         /\ data' = data \ {i}
         /\ pulled' = [pulled EXCEPT ![t] = [elem |-> i.elem, time |-> i.time, at |-> now]]
    /\ Become(t, "idle")
    /\ UNCHANGED <<now, unused, closed, resetting, until>>

\* try_pull() and nonblocking_pull() do not wait
TryPull(t) == thread[t] = "idle" /\ Take(t)

GiveUp(t) ==
    /\ ~not_empty_and_time_reached
    /\ closed
    /\ Become(t, "idle")
    /\ UNCHANGED <<now, data, unused, closed, resetting, until, pulled>>

WaitNotEmpty(t) ==
    /\ data = {}
    /\ ~closed
    /\ Become(t, "waiting")
    /\ UNCHANGED <<now, data, unused, closed, resetting, until, pulled>>

limit_timepoint(time) == IF time < now + Poll THEN time ELSE now + Poll

WaitForTime(t) ==
    /\ ~not_empty_and_time_reached
    /\ ~closed
    /\ Become(t, "timed")
    /\ \E i \in Top(data) : until' = [until EXCEPT ![t] = limit_timepoint(i.time)]
    /\ UNCHANGED <<now, data, unused, closed, resetting, pulled>>

Round(t) ==
    /\ thread[t] = "running"
    /\ Take(t) \/ GiveUp(t) \/ WaitNotEmpty(t) \/ WaitForTime(t)

\* the timed wait ends, on time or spuriously
WaitEnds(t) ==
    /\ thread[t] = "timed"
    /\ Become(t, "running")
    /\ UNCHANGED <<now, data, unused, closed, resetting, until, pulled>>

\* convert_to_steady_clock_timepoint() keeps the count of a TimePoint, whatever
\* the steady clock counts from: the wait ends when that clock shows until[t].
steady_clock == now + Ahead
Timeout(t) == steady_clock >= until[t] /\ WaitEnds(t)

Tick ==
    /\ now < MaxTime
    /\ now' = now + 1
    /\ UNCHANGED <<data, unused, closed, resetting, thread, until, pulled>>

QueueNext ==
    \/ \E e \in Element, time \in Time : Push(e, time)
    \/ Close \/ ResetTakes \/ ResetOpens \/ Tick
    \/ \E t \in Thread : WaitPull(t) \/ TryPull(t) \/ Round(t) \/ WaitEnds(t)

\* the threads run, timed waits end on time, the clock does not stop
QueueFairness ==
    /\ WF_queueVars(Tick)
    /\ \A t \in Thread : WF_queueVars(Round(t)) /\ WF_queueVars(Timeout(t))

QueueSpec == QueueInit /\ [][QueueNext]_queueVars /\ QueueFairness

-----------------------------------------------------------------------------
(* Properties.                                                             *)

QueueTypeOK ==
    /\ now \in Time
    /\ data \subseteq Item
    /\ unused \subseteq Element
    /\ closed \in BOOLEAN /\ resetting \in BOOLEAN
    /\ thread \in [Thread -> {"idle", "running", "waiting", "timed"}]
    /\ until \in [Thread -> Time]
    /\ pulled \in [Thread -> {Nothing} \cup [elem : Element, time : Time, at : Time]]

\* No wake-up is lost: a thread sleeps without a time only while there is
\* nothing to take and the queue is open, and never beyond the time of an
\* element that was pushed after it went to sleep.
NoLostWakeup ==
    \A t \in Thread :
       /\ thread[t] = "waiting" => data = {} /\ ~closed
       /\ thread[t] = "timed" => ~closed /\ \A i \in data : until[t] <= i.time

\* An element is never handed out before its time.
NeverEarly ==
    \A t \in Thread : pulled[t] # Nothing => pulled[t].time <= pulled[t].at

\* Together with the types: nobody sleeps who should be awake, and nobody is
\* given what is not due.
QueueInvariant == QueueTypeOK /\ NoLostWakeup /\ NeverEarly

\* What a thread is given is due no later than anything it leaves behind.
EarliestFirst ==
    [][\A t \in Thread : pulled'[t] \notin {pulled[t], Nothing} =>
         \A i \in data' : pulled'[t].time <= i.time]_queueVars

\* An element is taken as long as threads come for elements: none sleeps over
\* one that is due, whoever pushed it, when, and with which time.
Served ==
    \A i \in Item : i \in data /\ (\E t \in Thread : thread[t] # "idle")
                     ~> i \notin data \/ \A t \in Thread : thread[t] = "idle"

\* close() lets every waiting thread go, unless reset() comes before it has
\* the mutex again: then the thread stays in the queue it was to leave.
CloseReleases ==
    \A t \in Thread : closed /\ thread[t] # "idle" ~> thread[t] = "idle" \/ ~closed
=============================================================================
