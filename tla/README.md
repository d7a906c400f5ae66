# The PCA9536 driver for MasterPLC in TLA+

This directory specifies, model-checks and proves properties of this repository's
code: the two plug-ins by which MasterPLC drives the outputs of the SA-02m and
reports its diagnostics (the protocol `Diagnostic` in
`examples/mplc_protocol_ca02m` and the function block `CA_02m` in
`examples/mplc_fb_ca02m`), and those parts of the SDK under `include/mplc` whose
bodies are in the repository and in which threads, messages or failures meet.
P stands for `simple_test_protocol.cpp`, F for `test_fb.cpp`; other file names
are relative to `include/mplc`.

## 1. Inventory

| Component | State it keeps | Operations | Model |
|---|---|---|---|
| PCA9536 and line 268 (hardware) | direction register, output register, level of the line | `i2cset 0x03`, `i2cset 0x01`, `gpioset`, power-on | `Pca9536` (external) |
| Function block `TestFB` | `was_USB_Power`, `USB_Reset`, `USB_Counter`, `Init_CM`, its five inputs | `Execute()` | `Ca02mFB`, `UsbResetPulse` |
| Protocol, outputs | `mask`, `channels`, the last value of every output channel | `Create()`, `Init()`, `Execute()` | `OutputChannels` |
| Protocol, diagnostics | eight static caches, `USB_MOD_CONNED` | `Execute()` | `DiagnosticChannels` |
| Conversions | none | `clamp_to_int16`, `to_int16`, `uptime_seconds_to_hours`, `round_to_power_of_two` | `Conversions` |
| Both plug-ins in one runtime | the expander and the line, shared | two cyclic tasks | `Ca02mBoard` |
| `Allocator2Q`, `Storage`, `storage_hook` (`db/storage.hpp`) | three lists, two maps, an identifier counter | `make_new`, `up`, `drop`, `clear`, `used` | `Cache2Q`, `TwoQueue` |
| `connection`, `ssl_connection` (`net/connection.hpp`, `net/ssl`) | socket state, send queue, buffers, callbacks | connect, handlers, `send`, `disconnect` | `Connection` |
| `client_interface`, `server_interface` (`net`) | the current connection; the acceptor and the list of connections | `connect`, `disconnect`; accept, `stop` | `ClientServer` |
| `signal`, `slot` (`signal.h`) | callbacks, children, parent; cleaners | connect, disconnect, emit, destroy | `SignalSlot` (partly) |
| `sync_timed_queue` (`libs/sync_timed_queue.hpp`), `tslist` and others | a priority queue by time, `closed`; a container under a spinlock | push, pull, wait, `reset`, `close` | `TimedQueue` (partly) |
| `ArchiveProc` and its strategies (`db/archive_proc.hpp`) | worker thread, helper threads, `m_stop`, the pool | `Start`, `Stop`, `Clear`, the worker's loop, three strategies | `ArchiveWorker` (partly) |
| Emulator, `DllMain`, `InitAddin` | nothing that is used | empty | not modelled |
| `ts_buffer`, `flat_hash_map`, deprecated web socket, task pool, `share/`, `core/` | | sequential, or bodies in closed libraries | not modelled |
| Build scripts; `lib/` (boost, msgpack, OPC UA, ...) | | sequential; vendored | not modelled |

**How they interact.** The runtime calls `TestFB::Execute()` and
`SimpleTestProtocol::Execute()` from cyclic tasks. Neither plug-in knows of the
other. Both act on the hardware by shell commands run with `system()`, whose
result both drop; both write the *whole* output register; both drive line 268.
Variables of a project reach the protocol through its channels (`OutVar->Read()`)
and the function block through its inputs; measurements go out by `ch->Write()`.
Within the SDK, `client_interface` and `server_interface` own `connection`s and are
called back by them on one `io_context`; a `storage_hook` calls the allocator that
made its block; a `slot` and the signals it is connected to point at each other;
the strategies of `ArchiveProc` share its pool. The plug-ins use none of these SDK
classes directly, so there is no composition of the two halves to model.

**What is hard.**

* *Concurrency.* Two tasks, one register, no lock: each write carries the
  writer's idea of all four outputs (P:302, F:35), and the two mean opposite
  things by USB power (P:295, F:17-33). In the SDK: an identifier read outside its
  mutex (`db/storage.hpp:31`), emissions against destructors (`signal.h`), handlers
  of operations that had completed before the socket was closed.
* *Failure.* Any shell command may fail and nobody looks; some are repeated in
  every cycle and some are tried once (P:92, F:13-16). Links break at any moment;
  a link may fall silent, which nobody notices; any call of the archive worker may
  throw, not only where there is a handler.
* *Restart.* The process forgets pulse, mask and edge; the expander does not,
  unless the unit is power-cycled.
* *State over time.* The mask outlives every call and is changed bit by bit; the
  pulse is a flag and a counter that must stay in agreement; lists and maps of the
  cache, joints and cleaners of signals likewise.
* *Stale data.* Media and the modem come and go between the commands of a call,
  and the caches are shared by all protocol objects.
* *Waiting.* A sleeper of the timed queue must notice an earlier element; an
  emission holds its mutex while it calls; `Clear()` joins a thread that joins
  others.
* *Numbers.* Everything published is 16 bits wide.

**What makes each component correct.** Function block: the pulse has its length
and nothing else cuts the supply; the outputs are its inputs. Protocol outputs: they
are what its channels read; a failed read or write leaves no trace for good.
Diagnostics: nothing is published from a cache another call filled; the channels of
a device agree; what did not change is reported as it is. Conversions: right at
every boundary. Both plug-ins: where they agree they do not disturb each other.
Cache: maps find exactly what is in the lists, nobody acts on another's block.
Connection: messages in order, one end notified once, both ends learn of the end.
Client and server: they hold exactly what is open. Timed queue: no wake-up is
lost, the earliest first. Signals: nothing destroyed is called or touched, nothing
waits for itself. Archive worker: every thread is waited for, sessions in turn, the
pool connected again after every failure.

`PROJECT.json` lists every hazard at its line with the properties that cover it.

## 2. The modules

### The plug-ins

A byte is the set of its bits that are 1, so `mask & ~(1 << 3)` is `mask \ {3}`.
A shell command is one atomic effect on the hardware with an outcome `ok`; a
failing one changes nothing. `MaxFaults` bounds how many fail, `MaxRestarts` how
often the process or the unit restarts; both are bounds of the model.

**`Pca9536`** is the hardware, from the commands the plug-ins run and the wiring
in the repository's README. `Lit(o)` says that output `o` is energised: its pin
is configured as output and its latch is low. Power-on makes all pins inputs, all
latches high. `gpioset` is taken to latch its level: the code depends on that,
since each command returns at once.

**`Ca02mFB`** is `TestFB::Execute()` in four steps, one per point at which the
hardware or the other task can see something:

| Action | Code |
|---|---|
| `Enter` | the runtime sets the inputs (F:42-48) and calls; they do not change during the call |
| `ConfigureDirection` | F:13-16, only before `Init_CM` |
| `DriveUsb` | F:17-33: edge, counter, flag and gpioset |
| `WriteMask` | F:5-11 and F:35-38: the mask is computed from the latched inputs, sent, and the edge memory updated |
| `ProcessRestart`, `Reboot` | a fresh value-initialised object (`test_fb.h`), the expander kept or reset |

**`UsbResetPulse`** is what the function block promises about the supply: a
retriggerable one-shot. Every rising edge cuts the supply for `ResetCycles`
cycles from that cycle on; every cycle sets the line, unless a command fails in
it. `Ca02mFB` implements it under the mapping `request` = the request the last
finished gpioset step saw, `remaining` = `ResetCycles + 1 - USB_Counter` while
the flag is up and 0 otherwise, `line` = the level, `failures` = failed commands.

**`OutputChannels`** is `Init()` and the output half of `Execute()`. One channel
is `Process` (read, update the mask, perhaps gpioset; P:277-300) and `WriteMask`
(P:302-303); a channel without an output variable is `Skip`. What a failed
`Read()` leaves in `Value` is decided in a closed library; the model allows the
old value or an empty one. The mask is uninitialised before `Init()`, so it
starts as any byte of `Garbage`. A project binds a variable to at most one
channel (`ProtocolAssumption`).

**`Ca02mBoard`** composes the two with `INSTANCE`: they share the registers and
the line and interleave command by command, the process they live in dies as one.

**`DiagnosticChannels`** is the input half of `Execute()`: `Refresh` is one cache
(P:131-155), `Publish` one channel (P:158-275), `Change` the world outside, at
any moment. A cache holds what its command printed, reduced to what the code
looks at: of `mount` and `ls` only whether they printed anything. Figures of `df`
are reduced to the file system they are figures of: when nothing is mounted the
directory lies on the root file system (or does not exist), and `df` says so.
`refreshed` and `steady` are history variables that only properties read.

**`Conversions`** has the arithmetic. A decimal fraction is an integer number of
thousandths. `to_int16` computes in float (P:39): `Float` is the rounding of
`std::stof` to 24 bits, and `Carry` what `0.001f`, which is a little more than a
thousandth, and the rounding of the product add. `Product` is the float product in
thousandths as far as `Round` can tell: it reaches the half exactly when the float
does. Up to ten million thousandths that makes no difference; above, a reading up to
two thousandths below a half is rounded up (32766499 gives 32767), and
`SensorNearest` says so. With the scale `1.0f` the float of a text with three
decimals is on the side of the half that the text is on. Megabytes over 1024 are
exact in a double. NaN and infinities are not printed by the commands used and are
left out. Its small state machine reads a source that grows, so that monotonicity is
an action property.

### The SDK

**`Cache2Q`** has the lists as sequences, front first, and the maps as functions
from identifiers to blocks; a block stands for its list node too. Each operation
is one step, since each is one critical section of the allocator's mutex, except
that the hook looks at its identifier before (`Enter`):

| Action | Code (`db/storage.hpp`) |
|---|---|
| `MakeNewRoom`, `MakeNewFull` | `make_new`, 167-184: without and with moving the oldest new block out, which gives it its identifier and may evict |
| `Enter` | `storage_hook::used`, `drop`, 28-38: the unlocked test of the identifier |
| `UpHot`, `UpOut` | `up`, 186-206: touched in `hot`, or promoted from `outed` with an eviction |
| `DropHot`, `DropOut` | `drop`, 142-157 |
| `NotFound` | the identifier is in neither map any more |
| `Clear`, `Release` | `clear`, 159-166; the last reference outside goes |

**`TwoQueue`** is what it promises: a bounded probation queue in order of
admission and a bounded protected list in order of use. Under
`probation = new_block \o outed`, `protected = hot` the cache implements it
(`Implements2Q`).

**`Connection`** is one or more TCP links; both ends run the same class, plain or
TLS (`secure`, chosen initially). An end is a record: socket state, outstanding
operations, the functions posted to its `io_context`, the send queue. The kernel
completes an operation in one step and its handler runs in a later one, so a
handler may find that the socket was closed after its operation had succeeded; only
`async_connect` looks once more, and hands its handler `operation_aborted`
(`Success`; `lib/boost/asio/impl/connect.hpp:393`). A link that is up may break,
which the kernel reports, or fall silent, which it may never report: the code sets
no keepalive and no timeout.

| Action | Code (`net/connection.hpp`, TLS in `net/ssl/connection.hpp`) |
|---|---|
| `ConnectToServer`, `ConnectToClient` | 48-52, 42-46: with TLS the handshake comes before reading |
| `Handler` | 53-62, 105-174: `Succeeded` and `Failed` by kind of operation |
| `Send`, `Disconnect`, `RunPosted` | 65-89: posted from any thread, run on the context |
| `ConnectDone`, `HandshakeDone`, `WriteDone`, `ReadDone`, `Break` | external: asio and TCP |

**`ClientServer`** extends it with the two interfaces:

| Action | Code |
|---|---|
| `Connect`, `Resolved`, `ResolveFailed` | `client_interface.hpp` 20-34: resolve, then a new connection object |
| `ClientHandler`, `ClientPosted` | 36-47: the callbacks inside the handlers and posted functions of a connection |
| `AskDisconnect`, `RunDisconnect` | 48-52 |
| `Accept`, `Refuse` | `server_interface.hpp` 34-54 |
| `ServerHandler`, `ServerPosted` | 45-51: a connection that ends removes itself from the list |
| `Stop`, `RunStop` | 25-32 |
| `Net`, `LinkBreaks` | external |

**`TimedQueue`**: one round of the loop of `wait_to_pull` is one step, since the
mutex is held until a wait gives it up.

| Action | Code (`libs/sync_timed_queue.hpp`) |
|---|---|
| `Push` | 150-188, notifies all |
| `Close`; `ResetTakes`, `ResetOpens` | 118-127; `reset()` takes the mutex twice |
| `WaitPull`, `TryPull` | 374-378, 326-362 |
| `Round` = `Take`, `GiveUp`, `WaitNotEmpty` or `WaitForTime` | 201-220, 271-296, 365-372 |
| `WaitEnds` | the timed wait returns, on time or spuriously |
| `Tick` | external: the clock |

Times are those of `TimePoint`; a timed wait ends by the steady clock, which shows the
same count (68-70). Where `TimePoint` counts from is decided in a closed library, so
how far the steady clock is `Ahead` of it is a constant.

**`SignalSlot`**: an operation that takes one mutex and returns it is one step.
What takes several is several: `Connect` writes to the slot, `Join` adds the joint
(493-518); `Leave` copies the cleaners, each `Clean` calls one, `Left` returns
(181-193, 524-536); `Adopt`, `Abandon`, `DisconnectAll` and `EndSignal` change the
graph of signals (343-420, 267-284); `Emit`, `EmitChild`, `Call`, `CallReturns`,
`Emitted` are an emission that holds its mutex (423-443).

Two things go wrong in ordinary use, and are followed by history variables.
`destroy_connection`, `disconnect_all` and `~signal` clear *all* cleaners of a slot:
its other connections are `lost`, and when it ends their signals go on calling it.
`disconnect(signal*)` leaves the child its pointer to the parent: it is `forsaken`,
until it is connected again. The properties name the two as their exceptions.

The classes trust their users in three ways, which are the members of the constant
`Liberty`: a child of two parents ("share child"), a ring of three signals or more
("close ring"), and a signal that ends while one of its slots is disconnecting or its
parent emits ("end in use"). The run sets it to `{}` (section 3 says what each
breaks). Besides, nobody here ends a signal or slot while its `connect` has not
returned, connects a signal to itself (one mutex locked twice, 344), uses in a
callback the slot that is called or the signal that is emitted, or moves or copies
either (a moved slot leaves its cleaners behind, 174). A callback without a slot is
known only to the list of its signal, and is left out.

**`ArchiveWorker`**: `at[t]` is where thread `t` is; thread 0 is `Worker()`, the
others are made by the strategies.

| Action | Code (`db/archive_proc.hpp`) |
|---|---|
| `NeedReconnect`, `ConnectFails`, `ConnectSucceeds`, `Connected`, `Disconnected`, `Disconnect` | the loop of `Worker()`, 84-160 |
| `Run`, `Create`, `Created` | the strategies start their threads, 221-338 |
| `CreateFails`, `CreateEscapes` | `new lib::thread` throws: the read-write strategy has a handler (275-284), the parallel one has none (330-338) |
| `Again`, `Initialise`, `Loop`, `Work` | the loops of every thread, 227-245, 265-274, 293-314, 348-414; `Throw` is their handlers |
| `GetConnectEscapes` | `getConnect()` of the single strategy, outside its handlers (226) |
| `Join` | 286-291, 340-345 |
| `Start`, `Clear`, `StopArchive`, `StopPool`, `Cleared` | the owner, 175-200; `StopArchive`, `StopPool` are `Stop()` |
| `Lost` | external: a connection of the pool breaks |

Every call into the archive and the pool may throw, and so may the creation of a
thread, except `NeedReconnect()`, `isOpen()`, `ExecAlarm()` and `pool.Disconnect()`, which
the handlers call too. Where no handler stands in between, the exception goes to the
loop of `Worker()`, and the variable `missed` keeps what it went past:
`Disconnected()` of the archive, `Disconnect()` or `Stop()` of the pool, the `join()`
of threads. The process does not end by it: the threads are held by raw pointers,
which nobody destroys. `writeCount()` is trusted to be at most the number of
helpers; the code indexes by it unchecked (332-337).

The `MC*` modules give the constants their values. A definition marked *Seeded
fault* is a plausible bug of the definition after it; no specification uses it,
and each property was seen to fail when one is put in. Most state properties are
grouped: `FBInvariant`, `MaskInvariant`, `BoardInvariant`, `PublishInvariant`,
`CacheInvariant`, `LinkInvariant`, `CallbackInvariant`, `BookkeepingInvariant`,
`QueueInvariant`, `GraphInvariant`, `ThreadsAccounted` and `SessionInvariant` are
conjunctions of named parts, each with its own comment, and so are `OutputsSettle`
(lamps, USB line) and `EverythingEnds` (emissions, destructors).

## 3. The runs

| Run | Question | Bounds |
|---|---|---|
| `fb_alone` | does the function block keep its promises, with failures and restarts? | pulse of 3 cycles, all 16 lamp inputs, 2 failures, 1 restart |
| `protocol_outputs` | does the protocol show what its channels read? | five projects, 2 failures, 1 restart |
| `board` | what does each keep of its promises beside the other, who wins, where do they come to rest? | three projects, pulse of 2, no lamp or one, 1 restart, no failures |
| `diagnostics` | is what is published coherent, accurate, and finally true? | two instances, each on one of four projects of two channels, one stick, two readings, 1 failure |
| `conversions` | are the numbers right at every boundary? | readings on both sides of each boundary, and of the halves at which floats differ |
| `size_comment` | does the size follow its comment? It does not | as above |
| `cache` | do lists and maps agree, and does it implement 2Q? | 5 blocks, 2 threads, limit 5, 4 identifiers |
| `connection` | is a link in order, and are its ends told of its end, once? | one link, broken or silent; plain with 3 messages, TLS with 2; with and without a body |
| `client_server` | do both sides hold what is open, and do `stop` and `disconnect` end? | a client that connects twice, plain, no messages |
| `timed_queue` | is a wake-up lost, or anything early or out of turn? | 2 threads, 2 elements, waits of 2, times 0 to 3, clocks that agree |
| `signal_slot` | is anything destroyed called or touched, does anything wait for itself? | 3 signals, 1 slot, 2 connections to 2 of the signals (`Heard`), no liberties |
| `archive_worker` | is every thread waited for, are sessions in turn, does `Clear` return? | 1 to 3 connections, the three strategies, 3 helper threads at a time, lost ones included |

*Why these bounds are enough.* The code treats the four outputs alike except for
their bit, so projects differ in which kinds of channels they have, in which
order, and whether an input stands between outputs; the chosen ones have every
kind first, last and between. A pulse needs a first, a middle and a last cycle
and a retrigger in each; the length enters only through one comparison, and the
proofs cover every length. Two failures let the command that ends something and
the one that would repair it fail in a row. One restart is enough since a restart
erases everything but the expander, whose contents are arbitrary by then. On the
board no command fails: what a failure does to each plug-in is shown alone, and
the theorems about the board (section 4) allow any number. Channels are published
one at a time and a path reads one cache, so two channels of a device, and a
foreign instance between the calls, show every order. A limit of 5 gives the cache
lists of 1, 2 and 2, all of which overflow with 5 blocks; a third thread could only
do to a block what the second can. A queue of two behind the message being written
is the shortest with a middle; a TLS end is the same class with one more handler
before reading, so fewer messages do. The second connection of the client is the
one an old callback could disturb. Two sleepers let one take what the other waits
for. Three signals make a chain and a tree; slots are connected to two of them
(`Heard`), which makes every pair of parent, child and neighbour, and the third only
passes emissions on. Two connections of one slot are what makes one of them `lost`.
Three connections make the parallel strategy with two helpers, and 1 and 2 make the
strategies it falls back to. With three helpers at a time (`MaxThread`) a session can
begin beside the threads that the one before has lost.

What the runs show, beyond that the promises hold:

* `NeitherWriterWins`: an output only the function block asks for never comes to
  rest in a project with *any* output channel. The code documents neither writer
  as the owner of the register; a project must use one of the two for outputs.
  `USB_POWER` held `true` beside an idle function block makes the line toggle for
  ever in the same way, hence the condition of `PulseKept`.
* `OutputsSettle` has the exception `directionReg = Bits`: the one attempt to
  configure the pins may fail, and then no output ever works.
* `QuietCallIsAccurate` has its precondition for a reason: a medium that leaves
  between the mount check and `df` is shown as present with the size of the root
  file system until the next call. `AccurateAtLast` says that it is not longer.
* `SizeNearest` is violated: the comment at P:59 says *nearest* power of two, the
  code returns the *next* one (1025 MB is shown as 2 GB). The comment inside the
  function (P:69, "nearest greater") describes the code.
* `AcceptedEndIsMute` (in `LinkInvariant`) states what the code does at
  `net/connection.hpp:44`, where the state is compared and not assigned: without
  TLS a server cannot send. Should that line become an assignment, this is the
  conjunct to drop.
* `BothEndsLearn` excepts an end that stays open on a link that has fallen silent
  (`Unaware`): with no keepalive and no timeout nothing ever tells it. If it closes
  itself, it comes to its end like any other.
* With TLS a handshake that completed before the socket was closed revives the
  closed end (a connect that completed does not, since asio aborts it): its
  disconnect callback runs a second time (`NoticesPerLife` says when). The second run would reset the client's *next* connection, so
  `BookkeepingInvariant`, `StopEndsAll` and `DisconnectEnds` do not hold with TLS,
  and `client_server` has `Secure = {FALSE}`.
* `BookkeepingInvariant` holds for an application that waits for the callback of
  its `connect()`; going by `get_connection_state()` it could call too early.
* The cache is right for limits of four and more (`NoDanglingNode`); below, moving a
  block out reads the list node just popped. Identifiers are taken not to wrap
  (`CacheAssumption`): behind the wrap an old holder's could name a new block.
* `SensorNearest` excepts scaled readings above ten million thousandths, where the
  float may round a reading just below a half up: 32766499 is shown as 32767.
* What the signals trust their users with, seen by putting the member into
  `Liberty`: a child of two parents ("share child") breaks `GraphInvariant`, whose
  part `ChildKnowsParent` is what the comment at `signal.h:414` takes for granted, and
  `EverythingEnds`, for rings then form unseen; a ring of three ("close ring") breaks
  `EverythingEnds` and nothing else; a signal that ends while it is being used ("end
  in use") breaks `GraphInvariant`. `NoCallAfterEnd` holds with all three.
* What ordinary use can do to signals, and why the properties have exceptions: two
  connections of one slot to one signal or to two, one of which is disconnected at the
  signal, leave the other one without a cleaner; when the slot ends, the signal goes
  on calling it (`lost`). A child that was disconnected from its parent goes on
  pointing to it, also when the parent has ended, and touches it when it ends itself
  (`forsaken`).
* `ThreadsAccounted`, `ToldInTurn` and `ClosedBefore` except what an exception has
  gone past (`missed`). When the parallel strategy cannot create a thread (330-338),
  the ones it has created run on beside the next session, joined by nobody. When the
  `getConnect()` of the single strategy throws (226), neither the archive nor the pool
  is told that the session is over. `Start()` after the worker has ended does nothing
  until `Clear()`.
* The queue converts its times to the steady clock (68-70). With that clock `Ahead` of
  `TimePoint` a waiter polls, and `Served` holds (tried with 1); with it behind, a
  waiter may sleep past the time of its element (-2 breaks `Served`). The run has
  clocks that agree; the theorems hold for all.

**Fairness.** The tasks of the runtime are cyclic and a call has no loop but the
one over its channels, so a step of a call that can be taken is taken:
`WF(FBStep)`, `WF(ProtocolStep)`, `WF(Execute)`. On the board each task has its
own, since one task's progress does not depend on the other's. For diagnostics
each instance is called again and again: `SF(Enter(i))`, strong because between
calls the task may be inside the other instance. `Connection` and `ClientServer`
assume that the `io_context`s are run, that the kernel completes an operation whose
outcome is settled, except on an open socket of a silent link (`Due`), and that the
acceptor takes the links that are up; nothing is assumed of senders, callers of
`disconnect`, or links that break. `TimedQueue`: threads run, the clock goes on, timed
waits end on time by the steady clock; no thread has to come for elements.
`SignalSlot`: callbacks return, and who waits for a mutex that is free again and again
gets it (`SF` of a step of the emission, and of `Clean` or `Left`), as `std::mutex`
under the platform's scheduler does. `ArchiveWorker`: all threads run, and the
database is not unreachable for ever (`SF(ConnectSucceeds)`). `Cache2Q` has no liveness: every
operation is one critical section. Fairness is assumed of no input, medium, failure
or user. Liveness holds with finitely many failures (`MaxFaults`) where there is
such a bound; with infinitely many nothing could settle. `BothEndsLearn`, `Delivered`,
`StopEndsAll` and `EverythingEnds` are written `[]<>(P => Q)`: where `P` stays true
until `Q` that is the same as `P ~> Q`, and TLC checks it faster.

`CHECK_DEADLOCK FALSE` stands where the system may really stop: the source of
`Conversions` may stop growing; the cache when memory and identifiers are used up;
links and clients that are through; a queue whose clock has reached its bound, with
nobody in it; signals that have ended; a worker that was stopped. The two plug-ins,
the board and the diagnostics run for ever and are checked for deadlock.

## 4. The proofs

Eight modules `*Proofs` hold theorems about the modules they extend, for every value
of the constants that the named assumptions allow (`FBAssumption`,
`ProtocolAssumption`, `BoardAssumption`, `DiagnosticsAssumption`,
`SamplesAssumption`, `TimedQueueAssumption`, `WorkerAssumption`, `CacheAssumption`,
`ConnectionAssumption`, `SignalAssumption`, each evaluated by TLC in the runs). Every
invariant that a run checks is also proved, and so are the action properties and the
refinements of the one-shot and the 2Q cache. Each invariant is a consequence of an
inductive one. What a theorem needs beyond the assumptions stands in its statement,
and what a property excepts in the property.
`DiagnosticsProofs` and `SdkThreadsProofs` each treat two modules, hence the names
`ReadSpec` and `QueueSpec` in `Conversions` and `TimedQueue`.

**`Ca02mFBProofs`**, every pulse length from 1 to 32766, every set of inputs, any
number of failures and restarts. `Bookkeeping` (`FBInvariant`) and `LampsAreInputs`
(`LampsShown`) from `IInv == TypeOK /\ PulseBookkeeping /\ LampsShown`: the only step
that can disturb the bookkeeping is `DriveUsb`, the only one that establishes the
lamps is `WriteMask`; the latter needs `MaskMatchesWiring`, that the four shifts are
the four wired bits and are different. `ImplementsOneShot` (`OneShot`): `DriveUsb`
maps to a cycle of the one-shot (`DriveIsCycle`), failed i2c commands to
`FailElsewhere`, restarts to `Forget`, all else to stuttering. `PulseBookkeeping` is
needed: without it a flag that is up with a counter at 0 would map to a pulse one
cycle too long.

**`OutputChannelsProofs`**, every project that satisfies `ProtocolAssumption`.
`MaskNeverDrifts` (`MaskInvariant`), `LampsAreChannels` (`LampsShown`), and
`WritesOneLamp` (the action property `OneLampPerWrite`), from
`IInv == TypeOK /\ Fresh /\ MaskIsImage /\ RegisterIsMask`. `LampsShown` is not
inductive: it must be known that the register *is* the mask between passes and
differs from it at most in one channel's bit within a pass (`RegisterIsMask`), and
that a process before `Init()` has read nothing (`Fresh`). `MaskIsImage` survives
`Process` because no two channels share a bit (`OwnBit`), which is where the
assumption on projects is used.

**`Ca02mBoardProofs`**, both of the above at once. `BoardSafe` (`BoardInvariant`)
and `BoardKeepsPulse` (`PulseKept`): the step lemmas of the two modules above are
used through `INSTANCE`, with lemmas that a step of one plug-in leaves the variables
of the other as they are. The invariant adds that a project without output channels
never comes to write the register (`OutputPass`), and that the register then holds
the function block's mask (`RegisterIsFBs`, stated without the direction register,
which the protocol's `Init()` also writes).

**`DiagnosticsProofs`, the channels**: any instances, projects, media and failures.
`PublishSafe` (`PublishInvariant`): `Stages` says that a call that publishes has
refreshed every cache it needs, which gives `FreshWhenUsed`; coherence is carried by
`Told(p)` for every path published so far, that what it shows follows from the cache
as it is, since a cache does not change while a call publishes.
`QuietCallsTellTheTruth` (`QuietCallIsAccurate`) from `QuietInv`: every cache this
call has refreshed says what `Check` makes of its source, as long as the source has
not changed since the call began and its commands worked (`CacheIsTrue`); what a
channel then publishes is what a reader of the source would (`ValuesAreTrue`), and it
stays true while that source stays as it is (`TruthDepends`). It needs that what a
sensor reads is never the empty text (`Gone \notin Readings`), as an empty output is
how the code knows that a device is not there.

**`DiagnosticsProofs`, the conversions**: every integer; `HoursAreFull`, `SensorIsNearest`,
`SizeFits`, `NothingDeclines`, that is all four properties of the run. `SensorIsNearest` is about the float
computation: `FloatGrows` (rounding to 24 bits is monotone, changes nothing below 2^24
and at most one thousandth below the clamp), `CarryGrows` (what `0.001f` adds is
nothing up to ten million and at most three above), and `ScaledRound`, that the two
together reach a half from at most two thousandths below it. The size rests
on `LeastSize` (the code returns the least size of its table that is not smaller) and
its monotonicity on the clamp, the hours, the rounding and the size each growing.

**`SdkThreadsProofs`, the timed queue**: any threads, elements, times. `QueueSafe` (`QueueInvariant`)
from `QueueTypeOK /\ NoLostWakeup` and `QueueTypeOK /\ NeverEarly`, both inductive;
`EarliestComesFirst` (the action property `EarliestFirst`).

**`SdkThreadsProofs`, the archive worker**: any number of connections, any calls that
throw, at any time. `ThreadsAreAccounted` (`ThreadsAccounted`) from `WorkerInv`: thread
objects of helpers exist only while thread 0 is inside a strategy
(`HelpersOnlyInStrategy`), every helper has one unless a creation of the parallel
strategy has failed (`HelpersHeld`), and there is no thread 0 without its own
(`OwnedOnly`). `SessionsInTurn` (`SessionInvariant`) adds `Closed`: the pool is closed
whenever thread 0 is outside a session, unless an exception has gone past
`Disconnect()` or `Stop()`; and `StopStops`: whoever waits for the worker has stopped
the pool, unless `Stop()` of the archive threw. `missed` grows with every such
exception, and the next `Disconnect` that goes through takes `"archive"` and `"pool"`
out of it, so that from then on the turns are claimed again.

**`ConnectionProofs`**, any links and messages, both variants. `CalledBackOnce`
(`CallbackInvariant`) from `CallbackInv`, that each end is `Good` by itself: of
connecting, the handshake and reading, at most one is under way (`OneIncoming`); the
callback has run at most once if the end is closed, not at all if it is open, and once
more only if a stale handler of TLS has revived the end (`Notices`, `Revived`); no callbacks
are set before the connect handler, and nothing is delivered before the link is opened
(`BeforeOpened`); once the callback has run the socket is closed, so that of what was
being read only an answer that was already there can still be delivered
(`AfterNotice`, with `OneIncoming`: one message at most).

`LinkCorrect` (`LinkInvariant`), with `LinkInv`. That what came out is a beginning of
what went in (`InOrder`) is not inductive: it says nothing of what is on the wire, nor
of where the reader and the writer stand. A *place* is a part of a message, by the
number of the message in what `send` queued, with its header or its body. `Stream`
says that the parts on the wire lie on a `Road` of places, each the one `After` the
other in what was accepted; that the reader stands at its first place (`Reads`: the
operation that is outstanding, if any, is the one for that place, and what was got is
what was accepted before it), and the writer at its last (`Writes`). `Queued` ties the
writer to its queue: `m_tx_data` is the end of what was accepted and `tx_msg_buf` the
message before it. A step of an end leaves both roads as they are (`Keeps`: a `push`
makes what was accepted longer, at the far end); a step of the kernel moves the writer
to the next place or takes the first part (`WrittenOnTheRoad`, `ReadOnTheRoad`). So a
header is read only where a header starts, although the code cannot tell the two
apart. `Mute` is what keeps an accepted end without TLS from ever sending. The proof
needs that the null message is none of the messages (`None \notin Message`).

`BookkeepingCorrect` (`BookkeepingInvariant` of `ClientServer`), for any number of
connections, under `Secure = {FALSE}`, since with TLS the property fails (section 3).
`CSInv` adds to `LinkInv`: at most one end of the client is or can still become
connected (`Live`), it is the one `m_connection` points to, and then nothing is being
resolved and the application is waiting or connected; an end whose connect handler has
not run has no callbacks, and every end in the server's list has them. So the callback
of an end that closes (`Outcome`) is that of the current one, and resets the right
pointer.

**`Cache2QProofs`**, every limit, any blocks and threads. `CacheSafe`
(`CacheInvariant`) from `CacheInv`: the types; as long as nothing undefined has
happened, `Lists` (lengths, no block twice), `Maps` (each map finds exactly the nodes
of its list), `Identifiers` (given once, to a block that leaves `new_block`) and
`Callers` (who is inside a call holds a block that has an identifier); and
`NoDanglingNode`. Identifiers and callers are what `CacheInvariant` lacks to be
inductive: a stale identifier could find the node of another block.
`OwnBlockOnly` (the action property `ActsOnOwnBlock`) follows from `Identifiers`: what a
hook read before the mutex was taken names its own block or none by the time of the
call. `ImplementsTwoQueue` (`Implements2Q`), for limits of four and more: `new_block`
and `outed` one after the other are the probation queue of `TwoQueue`, so a block that
is moved from the one to the other does not move at all, a new one that finds both full
drops the last (`FullAdmits`), and one that is used in `outed` is promoted.

**`SignalSlotProofs`**, any signals and slots, any number of connections.
`NobodyCallsTheDead` (`NoCallAfterEnd`, and `CleanersMatch`) holds whatever liberties
are taken. `Known(s)`: the cleaners of a slot are for the joints that the signals hold
of it and the one that is being made, without the lost ones; while it leaves, the copy
still has each of them; when it has gone the signals hold only lost ones. `Called(g)`:
what an emission has yet to call is still in the list, since the mutex is held.
`GraphCorrect` (`GraphInvariant`) adds `LiveInv`: signals that exist have only children
that exist, and parent and child know each other, except that a forsaken child knows a
parent that does not have it (`Family`); what a slot has yet to leave exists; and a
signal that is emitted exists and keeps the children it has yet to emit (`Busy`). It
assumes `Liberty \subseteq {"close ring"}`: TLC shows that the other two break the
property, and a ring makes an emission wait for itself but breaks no link. A child
that is disconnected, ends before or after its parent, or is connected again is not
excluded.

*Model-checked only:* liveness and what rests on fairness, which are out of the
prover's reach: `SupplyRestored`, `OutputsSettle`, `AgreementHolds` and
`NeitherWriterWins`, `AccurateAtLast`, `BothEndsLearn`, `Delivered`, `StopEndsAll`,
`DisconnectEnds`, `Served`, `CloseReleases`, `EverythingEnds`, `ClearReturns` and
`ConnectsAgain`. In particular that an emission never waits for itself when no ring is
closed is an acyclicity argument, which would need an induction over the chain of
parents, and is shown for three signals only.

## 5. Not modelled, and why

* The order in which two *tasks* would run two instances of the protocol at once:
  they would race on the static strings, which is undefined; which tasks the
  runtime uses is not in the repository. The model has one task.
* `popen` failing as opposed to printing nothing: `exec_command` makes no
  difference between them.
* The expander's inputs, its polarity register and its upper four bits: nothing
  reads or uses them. The texts of `SYS_TIME` and `RTC_TIME` beyond the fact they
  report.
* `ch->Write()` and the Lua side: a closed library; a write is taken to arrive.
* Signals: copying and moving them or slots, callbacks without a slot, callbacks that
  use the slot or signal that calls them (the mutex of the signal is held, so some of
  these uses wait for themselves), `set_lock()` of a signal, and the emission that
  aggregates results, a loop of the same form as the one modelled. A slot copies its
  cleaners without a mutex; the model makes that one step.
* `sync_timed_queue`: `pull_until()` and `pull_for()`, which no type of the
  repository can instantiate. The containers of `tslist.hpp`: each operation is one
  critical section of one spinlock, so a model would say no more than the container
  does (an exception is an assignment to itself, which waits for its own lock).
* `ArchiveProc`: connection status and alarms, which are reports. `writeCount()` is
  taken to be at most the number of helpers, and `NeedReconnect()`, `isOpen()`,
  `ExecAlarm()` and `pool.Disconnect()` not to throw.
* `ts_buffer` and `small_buf_t`: a writer and a mutex (which `ts_buffer.h:29` does
  not take), whose users are in a closed library. `flat_hash_map`: sequential. The
  deprecated web socket: what runs on the library's thread has no body here. Task
  pool, `share/`, `core/` and other SDK headers: declarations of closed libraries.
* Build scripts are sequential. `lib/` is vendored, and is nearly all of the
  repository's lines: the share of the repository that is modelled is small for
  that reason, while of the plug-ins' own sources all that has behaviour is.

## 6. Plan

Done: everything in sections 2 to 4. What could come next, in this order:

1. The safety half of `EverythingEnds`: that in a graph without rings the emissions in
   progress form chains, so that one of them is not waiting for another.
2. What a link with TLS promises its client, given when the revived end is
   (`NoticesPerLife`), as a weaker form of `BookkeepingInvariant` for both variants.
3. Copying and moving of signals.
