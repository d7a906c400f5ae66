---------------------------- MODULE ArchiveWorker ----------------------------
(***************************************************************************)
(* The archive worker of the SDK (archive_proc.hpp): an ArchiveProc runs a *)
(* thread that connects its pool to the database, works through one of     *)
(* three strategies until the pool is closed, and connects again; the      *)
(* strategies run further threads on the same pool.                        *)
(*                                                                         *)
(* The archive and the pool are interfaces.  Of the pool the model knows   *)
(* whether it is open and whether it was stopped, from when on it neither  *)
(* opens nor asks for a reconnection.  A connection may be lost at any     *)
(* time.  Every call of the worker into them may throw, and so may the     *)
(* creation of a thread, but for NeedReconnect(), isOpen(), ExecAlarm()    *)
(* and pool.Disconnect(), which the code calls in its handlers, too.       *)
(* writeCount() is trusted to be at most the number of helpers: the code   *)
(* indexes by it unchecked.  wait() of the archive ends by itself.         *)
(* Connection status and alarms are left out.                              *)
(***************************************************************************)
EXTENDS Integers, FiniteSets

CONSTANTS
    MaxCount,       \* bound: the connections of the pool
    MaxThread       \* bound: the threads besides Worker() that exist at a time

ASSUME WorkerAssumption ==
    MaxCount \in Nat \ {0} /\ MaxThread \in Nat /\ MaxThread >= MaxCount - 1

VARIABLES
    strategy, count,    \* the template argument, and pool.count()
    at,                 \* where each thread is; thread 0 is Worker()
    threads,            \* the helpers whose thread objects the strategy holds
    open, stopped,      \* the pool
    session,            \* the archive was told Connected and not yet Disconnected
    missed,             \* what exceptions have passed over: Disconnected() of the
                        \* "archive", Disconnect() of the "pool", its Stop() in
                        \* "stop", the join() of "threads"
    th,                 \* there is a thread object
    m_stop,
    owner               \* the call that runs on the owner of the ArchiveProc

config == <<strategy, count>>
run == <<at, threads>>
pool == <<open, stopped>>
told == <<session, missed>>
own == <<th, m_stop, owner>>
vars == <<config, run, pool, told, own>>

Helper == 1 .. MaxThread
ThreadId == 0 .. MaxThread

Init ==
    /\ strategy \in {"single", "rw", "parallel"}
    /\ count \in 1 .. MaxCount
    /\ at = [t \in ThreadId |-> "none"]
    /\ threads = {}
    /\ open = FALSE /\ stopped = FALSE
    /\ session = FALSE /\ missed = {}
    /\ th = FALSE /\ m_stop = FALSE
    /\ owner = "idle"

\* too few connections for a strategy: the next simpler one
Chosen ==
    IF strategy = "parallel" /\ count - 1 >= 2 THEN "parallel"
    ELSE IF strategy # "single" /\ count - 1 >= 1 THEN "rw"
    ELSE "single"

Go(t, place) == at' = [at EXCEPT ![t] = place] /\ UNCHANGED threads
In(t, place) == at[t] = place
Misses(what) == missed' = missed \cup what

-----------------------------------------------------------------------------
(* Worker().  Its handlers do nothing but go back to the top of the loop.  *)

NeedReconnect ==
    /\ In(0, "top")
    /\ Go(0, IF stopped THEN "ended" ELSE "connect")
    /\ UNCHANGED <<config, pool, told, own>>

ConnectFails ==
    /\ In(0, "connect")
    /\ Go(0, "top")
    /\ UNCHANGED <<config, pool, told, own>>

ConnectSucceeds ==
    /\ In(0, "connect") /\ ~stopped
    /\ open' = TRUE
    /\ Go(0, "connected")
    /\ UNCHANGED <<config, stopped, told, own>>

\* archive.Connected(): if it refuses, the thread ends with the pool open
Connected ==
    /\ In(0, "connected")
    /\ \/ Go(0, "run") /\ session' = TRUE /\ UNCHANGED missed
       \/ Go(0, "ended") /\ UNCHANGED told
       \/ Go(0, "top") /\ Misses({"pool"}) /\ UNCHANGED session
    /\ UNCHANGED <<config, pool, own>>

Disconnected ==
    /\ In(0, "disconnected")
    /\ \/ Go(0, "disconnect") /\ session' = FALSE /\ UNCHANGED missed
       \/ Go(0, "top") /\ Misses({"archive", "pool"}) /\ UNCHANGED session
    /\ UNCHANGED <<config, pool, own>>

Disconnect ==
    /\ In(0, "disconnect")
    /\ open' = FALSE
    /\ missed' = missed \ {"archive", "pool"}
    /\ Go(0, "top")
    /\ UNCHANGED <<config, stopped, session, own>>

-----------------------------------------------------------------------------
(* The strategies.  Every thread has a loop that runs while the pool is    *)
(* open; the helpers, and Worker() in the parallel strategy, repeat it.    *)

Repeats(t) == t \in Helper \/ Chosen = "parallel"

\* Seeded fault: the single thread goes back to the top, past Disconnect().
OutAtOnce(t) == IF Repeats(t) THEN "again" ELSE IF Chosen = "rw" THEN "join" ELSE "top"

\* where a thread goes that leaves its loop
Out(t) == IF Repeats(t) THEN "again" ELSE IF Chosen = "rw" THEN "join" ELSE "disconnected"

Run ==
    /\ In(0, "run")
    /\ Go(0, IF ~open THEN "disconnected" ELSE IF Chosen = "single" THEN "init" ELSE "create")
    /\ UNCHANGED <<config, pool, told, own>>

\* of the threads that do not exist the model takes the first
Create ==
    /\ In(0, "create") /\ Cardinality(threads) < count - 1
    /\ \E t \in Helper :
         /\ In(t, "none") /\ \A u \in Helper : u < t => ~In(u, "none")
         /\ at' = [at EXCEPT ![t] = "again"]
         /\ threads' = threads \cup {t}
    /\ UNCHANGED <<config, pool, told, own>>

Created ==
    /\ In(0, "create") /\ Cardinality(threads) = count - 1
    /\ Go(0, IF Chosen = "parallel" THEN "again" ELSE "init")
    /\ UNCHANGED <<config, pool, told, own>>

\* "rw" has a handler for a thread that cannot be created
CreateFails ==
    /\ In(0, "create") /\ Chosen = "rw" /\ Cardinality(threads) < count - 1
    /\ open' = FALSE
    /\ Go(0, "join")
    /\ UNCHANGED <<config, stopped, told, own>>

\* "parallel" has none: Worker() goes on, and nobody will join the threads that
\* were created.
CreateEscapes ==
    /\ In(0, "create") /\ Chosen = "parallel" /\ Cardinality(threads) < count - 1
    /\ Cardinality({t \in Helper : ~In(t, "none")}) + count - 1 <= MaxThread
    /\ at' = [t \in ThreadId |-> IF t = 0 THEN "top" ELSE IF In(t, "ended") THEN "none" ELSE at[t]]
    /\ threads' = {}
    /\ Misses({"archive", "pool", "threads"})
    /\ UNCHANGED <<config, pool, session, own>>

\* a thread that was lost ends unnoticed
Again(t) ==
    /\ In(t, "again")
    /\ Go(t, IF open THEN "init" ELSE IF t = 0 THEN "join"
             ELSE IF t \in threads THEN "ended" ELSE "none")
    /\ UNCHANGED <<config, pool, told, own>>

\* Seeded fault: the handlers do not close the pool.
ThrowOpen(t) == Go(t, Out(t)) /\ UNCHANGED open

\* the handlers close the pool, but for the one of the single thread
Throw(t) ==
    /\ Go(t, Out(t))
    /\ open' = (open /\ t = 0 /\ Chosen = "single")

\* getConnect() and the Init functions
Initialise(t) ==
    /\ In(t, "init")
    /\ (Go(t, "loop") /\ UNCHANGED open) \/ Throw(t)
    /\ UNCHANGED <<config, stopped, told, own>>

\* getConnect() of the single thread is outside its handlers
GetConnectEscapes ==
    /\ In(0, "init") /\ Chosen = "single"
    /\ Go(0, "top")
    /\ Misses({"archive", "pool"})
    /\ UNCHANGED <<config, pool, session, own>>

Loop(t) ==
    /\ In(t, "loop")
    /\ Go(t, IF open THEN "work" ELSE Out(t))
    /\ UNCHANGED <<config, pool, told, own>>

Work(t) ==
    /\ In(t, "work")
    /\ (Go(t, "loop") /\ UNCHANGED open) \/ Throw(t)
    /\ UNCHANGED <<config, stopped, told, own>>

\* Seeded fault: the threads are left to themselves.
JoinNobody ==
    /\ In(0, "join")
    /\ Go(0, "disconnected")
    /\ UNCHANGED <<config, pool, told, own>>

Join ==
    /\ In(0, "join")
    /\ \A t \in threads : In(t, "ended")
    /\ at' = [t \in ThreadId |-> IF t = 0 THEN "disconnected"
                               ELSE IF t \in threads THEN "none" ELSE at[t]]
    /\ threads' = {}
    /\ UNCHANGED <<config, pool, told, own>>

WorkerStep ==
    \/ NeedReconnect \/ ConnectFails \/ ConnectSucceeds \/ Connected \/ Disconnected
    \/ Disconnect \/ Run \/ Create \/ Created \/ CreateFails \/ CreateEscapes
    \/ GetConnectEscapes \/ Join

ThreadStep(t) ==
    \/ Again(t) \/ Initialise(t) \/ Loop(t) \/ Work(t)
    \/ t = 0 /\ WorkerStep

-----------------------------------------------------------------------------
(* The owner.                                                              *)

\* th->joinable() holds until the thread is joined, also when it has ended
Start ==
    /\ owner = "idle" /\ ~th
    /\ th' = TRUE
    /\ m_stop' = FALSE
    /\ Go(0, "top")
    /\ UNCHANGED <<config, pool, told, owner>>

Clear ==
    /\ owner = "idle"
    /\ owner' = IF m_stop THEN "join" ELSE "clear"
    /\ UNCHANGED <<config, run, pool, told, th, m_stop>>

\* archive.Stop(), in Stop() and in the Stop() of Clear(); if it throws,
\* pool.Stop() is not called
StopArchive ==
    /\ owner \in {"idle", "clear"}
    /\ m_stop' = TRUE
    /\ \/ /\ owner' = IF owner = "clear" THEN "clear pool" ELSE "stop pool"
          /\ UNCHANGED missed
       \/ /\ owner' = IF owner = "clear" THEN "join" ELSE "idle"
          /\ Misses({"stop"})
    /\ UNCHANGED <<config, run, pool, session, th>>

\* Seeded fault: the connections stay open.
StopPoolOpen ==
    /\ owner \in {"stop pool", "clear pool"}
    /\ stopped' = TRUE
    /\ owner' = IF owner = "clear pool" THEN "join" ELSE "idle"
    /\ UNCHANGED <<config, run, open, told, th, m_stop>>

StopPool ==
    /\ owner \in {"stop pool", "clear pool"}
    /\ open' = FALSE /\ stopped' = TRUE
    /\ owner' = IF owner = "clear pool" THEN "join" ELSE "idle"
    /\ UNCHANGED <<config, run, told, th, m_stop>>

Cleared ==
    /\ owner = "join"
    /\ th => In(0, "ended")
    /\ IF th THEN Go(0, "none") ELSE UNCHANGED run
    /\ th' = FALSE
    /\ owner' = "idle"
    /\ UNCHANGED <<config, pool, told, m_stop>>

Lost ==
    /\ open
    /\ open' = FALSE
    /\ UNCHANGED <<config, run, stopped, told, own>>

OwnerStep == (owner # "idle" /\ StopArchive) \/ StopPool \/ Cleared
Next ==
    \/ \E t \in ThreadId : ThreadStep(t)
    \/ Start \/ Clear \/ StopArchive \/ StopPool \/ Cleared \/ Lost

\* every thread runs, and the database is not unreachable for ever
Fairness ==
    /\ \A t \in ThreadId : WF_vars(ThreadStep(t))
    /\ SF_vars(ConnectSucceeds)
    /\ WF_vars(OwnerStep)

Spec == Init /\ [][Next]_vars /\ Fairness

-----------------------------------------------------------------------------
(* Properties.                                                             *)

Place == {"none", "top", "connect", "connected", "run", "create", "init", "loop", "work",
          "again", "join", "disconnected", "disconnect", "ended"}

TypeOK ==
    /\ count \in 1 .. MaxCount /\ at \in [ThreadId -> Place] /\ threads \subseteq Helper
    /\ open \in BOOLEAN /\ stopped \in BOOLEAN /\ session \in BOOLEAN
    /\ missed \subseteq {"archive", "pool", "stop", "threads"}
    /\ th \in BOOLEAN /\ m_stop \in BOOLEAN
    /\ owner \in {"idle", "clear", "stop pool", "clear pool", "join"}
    /\ open => ~stopped

Between == {"none", "top", "connect", "connected", "ended"}

\* No thread of a strategy outlives it: when Worker() connects the pool again,
\* or has ended, nobody works on a connection of the time before, whatever was
\* thrown, unless the creation of a thread of the parallel strategy failed:
\* it has no handler, and the threads created so far are joined by nobody
\* (archive_proc.hpp:295-300, 330-346).
NoThreadLeft ==
    at[0] \in Between =>
        /\ threads = {}
        /\ "threads" \notin missed => \A t \in Helper : In(t, "none")

\* The archive is told Connected and Disconnected in turn, unless an exception
\* goes past Disconnected() to Worker(): one of that call itself, of the
\* getConnect() of the single thread, or of a creation in the parallel
\* strategy.  Once both calls of an ending were made, it is so again
\* (archive_proc.hpp:133-160, 226, 330-338).
ToldInTurn ==
    "archive" \notin missed /\ at[0] \in Between => ~session

\* The pool is asked to connect only when it is closed: no connection of the
\* time before is lost in it, unless an exception went past Disconnect(), or
\* one of archive.Stop() past pool.Stop() (archive_proc.hpp:133-160, 186-207).
ClosedBefore ==
    missed \cap {"pool", "stop"} = {} /\ In(0, "connect") => ~open

\* Without a thread object there is no thread, but for lost ones.
NoThreadUnowned ==
    ~th => In(0, "none") /\ ("threads" \notin missed => \A t \in Helper : In(t, "none"))

\* Every thread is waited for by somebody, but for those that a failed creation
\* of the parallel strategy loses (archive_proc.hpp:295-300, 330-346).
ThreadsAccounted == NoThreadLeft /\ NoThreadUnowned

\* Together with the types: the sessions of the pool and the archive
\* (archive_proc.hpp:133-160).
SessionInvariant == TypeOK /\ ToldInTurn /\ ClosedBefore

\* Clear() returns: all threads see that the pool was stopped.
ClearReturns == owner = "join" /\ stopped ~> owner = "idle"

\* When Worker() has left its loop, for an error or because the pool was
\* closed, all threads come to an end and the pool is connected again, whatever
\* failed in whichever thread, unless it was stopped or the archive refuses.
ConnectsAgain ==
    at[0] \in {"join", "disconnected", "top"} ~> In(0, "connected") \/ stopped \/ at[0] \in {"ended", "none"}
=============================================================================
