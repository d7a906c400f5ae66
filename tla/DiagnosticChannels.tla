------------------------- MODULE DiagnosticChannels -------------------------
(***************************************************************************)
(* The input side of the protocol Diagnostic: the InVar half of            *)
(* SimpleTestProtocol::Execute().  A call first refreshes, command by      *)
(* command, the caches its channels need, then publishes channel by        *)
(* channel, some from a cache and some from a command run on the spot,     *)
(* while the unit goes on changing: media and the modem come and go.       *)
(*                                                                         *)
(* The caches are function statics: all instances of the protocol share    *)
(* them.  The instances of the model belong to one task, which calls them  *)
(* one at a time.                                                          *)
(*                                                                         *)
(* A command's output is abstracted to the fact it reports, a figure of    *)
(* df to the file system it is a figure of (Conversions has the numbers).  *)
(***************************************************************************)
EXTENDS Naturals, Sequences

CONSTANTS
    Instances,      \* the protocol objects of the task
    Projects,       \* the channel vectors considered: sequences of paths
    Readings,       \* what a sensor or a clock may read
    Sticks,         \* the media that may be plugged in
    MaxFaults       \* bound: commands that fail or print nothing

Sensors == {"CPU_TEMP", "CPU_LOAD", "RAM_PERCENT", "DISK_PERCENT", "UPTIME"}
Clocks  == {"SYS_TIME", "RTC_TIME"}
Media   == {"usb", "sd"}
Cached  == Sensors \cup Media \cup {"modem"}
Sources == Cached \cup Clocks

Gone == "gone"      \* not there, and the empty output of a command
Root == "root"      \* the root file system
Link == {"UP", "DOWN"}

DevOf(m)     == IF m = "usb" THEN "USB_FLASH_DEV" ELSE "SD_CARD_DEV"
FiguresOf(m) == IF m = "usb"
                THEN {"USB_FLASH_SIZE", "USB_FLASH_USED", "USB_FLASH_PERC"}
                ELSE {"SD_CARD_SIZE", "SD_CARD_USED", "SD_CARD_PERC"}
Modem == {"MODEM_STATUS", "MODEM_IFACE"}
\* "USB_FLASH_LABEL" stands for the paths that match USB_FLASH_ and are not
\* handled, "OTHER" for the rest.
Paths == Sensors \cup Clocks \cup Modem \cup {DevOf(m) : m \in Media}
           \cup {"USB_FLASH_LABEL", "OTHER"} \cup UNION {FiguresOf(m) : m \in Media}

ASSUME DiagnosticsAssumption ==
    /\ Instances # {} /\ Readings # {}
    /\ Gone \notin Readings   \* what a sensor reads is never empty
    /\ Projects \subseteq Seq(Paths)
    /\ MaxFaults \in Nat

\* What can be the case of a source, Gone aside.
Facts(s) == IF s \in Media THEN Sticks ELSE IF s = "modem" THEN Link ELSE Readings

VARIABLES
    world,      \* the unit: what is the case of every source now
    cache,      \* the function statics: what the last refresh printed
    running,    \* the instance inside Execute(), or none
    stage,      \* "idle", "refresh", "publish"
    pos,        \* the cache or the channel that is next
    channels,   \* of every instance
    published,  \* of every instance: the value last written to each path
    connected,  \* of every instance: USB_MOD_CONNED
    faults,
    refreshed,  \* (history) caches refreshed in this call
    steady      \* (history) sources unchanged and read well in this call

vars == <<world, cache, running, stage, pos, channels, published, connected,
          faults, refreshed, steady>>

-----------------------------------------------------------------------------
\* The cache a path is published from; none for the clocks and the rest.
CacheOf(path) ==
    IF path \in Sensors THEN {path}
    ELSE IF path \in Modem THEN {"modem"}
    ELSE {m \in Media : path = DevOf(m) \/ path \in FiguresOf(m)}

\* Seeded fault: a cache that holds something is not filled again.
NeedOnce(path) == {s \in CacheOf(path) : cache[s] = Gone}

\* The caches a path asks for; USB_FLASH_ and SD_CARD_ match as substrings.
Need(path) == IF path = "USB_FLASH_LABEL" THEN {"usb"} ELSE CacheOf(path)

Needed == UNION {Need(channels[running][k]) : k \in DOMAIN channels[running]}

RefreshOrder ==
    <<"CPU_TEMP", "CPU_LOAD", "RAM_PERCENT", "DISK_PERCENT", "UPTIME",
      "modem", "usb", "sd">>

Place(s) == CHOOSE i \in DOMAIN RefreshOrder : RefreshOrder[i] = s

\* Is this the next cache to refresh?
NextCache(s) ==
    /\ s \in Needed \ refreshed
    /\ \A t \in Needed \ refreshed : Place(s) <= Place(t)

Fallible(ok) ==
    /\ ok \/ faults < MaxFaults
    /\ faults' = IF ok THEN faults ELSE faults + 1

\* exec_command(): a command that fails prints nothing.
Output(fact, ok) == IF ok THEN fact ELSE Gone

\* mount and ls tell that something is there, not what.
Check(s, fact) == IF s \in Sensors \/ fact = Gone THEN fact ELSE "present"

\* to_int16() and round_to_power_of_two() of an empty output.
Number(fact) == IF fact = Gone THEN "zero" ELSE fact

\* What df says of the mount point of m: of the medium while it is mounted;
\* else of the file system the directory lies on, or nothing.
Df(m, ok) ==
    IF ~ok THEN {Gone} ELSE IF world[m] = Gone THEN {Root, Gone} ELSE {world[m]}

\* Seeded fault: df is run whether or not the mount check found the medium.
FiguresUnchecked(path, ok) ==
    UNION {{Number(f) : f \in Df(m, ok)} : m \in CacheOf(path)}

\* Seeded fault: the mount check of the other medium is consulted.
FiguresOfTheOther(path, ok) ==
    UNION {IF cache[m] = Gone THEN {"zero"}
           ELSE UNION {{Number(f) : f \in Df(n, ok)} : n \in CacheOf(path)} :
             m \in Media \ CacheOf(path)}

\* The size, use and percentage of a medium.
Figures(path, ok) ==
    UNION {IF cache[m] = Gone THEN {"zero"} ELSE {Number(f) : f \in Df(m, ok)} :
             m \in CacheOf(path)}

\* Does publishing this path run a command of its own?
RunsCommand(path) ==
    \/ path \in Clocks
    \/ path = "MODEM_STATUS" /\ cache["modem"] # Gone
    \/ \E m \in Media : path \in FiguresOf(m) /\ cache[m] # Gone

\* A connected device is shown by a fixed name; m stands for m's mount point.
Connection(s, name) == IF cache[s] = Gone THEN "NOT CONNECTED" ELSE name

\* What publishing a path may write; nothing for an unhandled path.
Values(path, ok) ==
    IF path \in Sensors THEN {Number(cache[path])}
    ELSE IF path \in Clocks THEN {Output(world[path], ok)}
    ELSE IF path = "MODEM_STATUS" THEN {Connection("modem", Output(world["modem"], ok))}
    ELSE IF path = "MODEM_IFACE" THEN {Connection("modem", "/sys/class/net/usb0")}
    ELSE IF \E m \in Media : path = DevOf(m) THEN {Connection(m, m) : m \in CacheOf(path)}
    ELSE IF \E m \in Media : path \in FiguresOf(m) THEN Figures(path, ok)
    ELSE {published[running][path]}

-----------------------------------------------------------------------------
Init ==
    /\ world = [s \in Sources |-> IF s \in Media \cup {"modem"} THEN Gone
                                  ELSE CHOOSE r \in Readings : TRUE]
    /\ cache = [s \in Cached |-> Gone]
    /\ running \in Instances
    /\ stage = "idle"
    /\ pos = 0
    /\ channels \in [Instances -> Projects]
    /\ published = [i \in Instances |-> [p \in Paths |-> "never"]]
    /\ connected = [i \in Instances |-> FALSE]
    /\ faults = 0
    /\ refreshed = {}
    /\ steady = {}

SourceOf(path) == IF path \in Clocks THEN {path} ELSE CacheOf(path)

\* The unit changes, at any moment, in a way some channel can tell.
Change(s) ==
    /\ \E i \in Instances : \E k \in DOMAIN channels[i] : s \in SourceOf(channels[i][k])
    /\ \E f \in (Facts(s) \cup IF s \in Media \cup {"modem"} THEN {Gone} ELSE {})
                    \ {world[s]} :
         world' = [world EXCEPT ![s] = f]
    /\ steady' = steady \ {s}
    /\ UNCHANGED <<cache, running, stage, pos, channels, published, connected,
                   faults, refreshed>>

\* The task calls Execute() of one of its protocols.
Enter(i) ==
    /\ stage = "idle"
    /\ running' = i
    /\ stage' = "refresh"
    /\ pos' = 1
    /\ refreshed' = {}
    /\ steady' = Sources
    /\ UNCHANGED <<world, cache, channels, published, connected, faults>>

Refresh(ok) ==
    /\ stage = "refresh"
    /\ Fallible(ok)
    /\ \E s \in Cached :
         /\ NextCache(s)
         /\ cache' = [cache EXCEPT ![s] = Check(s, Output(world[s], ok))]
         /\ refreshed' = refreshed \cup {s}
         /\ steady' = IF ok THEN steady ELSE steady \ {s}
    /\ UNCHANGED <<world, running, stage, pos, channels, published, connected>>

BeginPublish ==
    /\ stage = "refresh"
    /\ Needed \subseteq refreshed
    /\ stage' = "publish"
    /\ UNCHANGED <<world, cache, running, pos, channels, published, connected,
                   faults, refreshed, steady>>

Publish(ok) ==
    /\ stage = "publish"
    /\ pos \in DOMAIN channels[running]
    /\ LET path == channels[running][pos]
       IN  /\ IF RunsCommand(path) THEN Fallible(ok) ELSE ok /\ UNCHANGED faults
           /\ \E v \in Values(path, ok) :
                published' = [published EXCEPT ![running][path] = v]
           /\ connected' =
                IF path = "MODEM_IFACE"
                THEN [connected EXCEPT ![running] = cache["modem"] # Gone]
                ELSE connected
           /\ steady' = IF ok THEN steady ELSE steady \ SourceOf(path)
    /\ pos' = pos + 1
    /\ UNCHANGED <<world, cache, running, stage, channels, refreshed>>

Return ==
    /\ stage = "publish"
    /\ pos \notin DOMAIN channels[running]
    /\ stage' = "idle"
    /\ UNCHANGED <<world, cache, running, pos, channels, published, connected,
                   faults, refreshed, steady>>

Execute ==
    \/ \E ok \in BOOLEAN : Refresh(ok)
    \/ BeginPublish
    \/ \E ok \in BOOLEAN : Publish(ok)
    \/ Return

Next ==
    \/ \E s \in Sources : Change(s)
    \/ \E i \in Instances : Enter(i)
    \/ Execute

\* A call runs to its end, and the task calls each of its protocols again and
\* again; which it is, between two calls, is up to the task.
Spec ==
    /\ Init
    /\ [][Next]_vars
    /\ WF_vars(Execute)
    /\ \A i \in Instances : SF_vars(Enter(i))

-----------------------------------------------------------------------------
Handled == Paths \ {"USB_FLASH_LABEL", "OTHER"}

\* The paths the call in progress, or the last one, has published.
Done == {channels[running][k] : k \in {j \in DOMAIN channels[running] : j < pos}}
          \cap Handled

Shown(path) == published[running][path]

\* The value that says how things are.
Truth(path) ==
    LET Present(s, name) == IF world[s] = Gone THEN "NOT CONNECTED" ELSE name
    IN  CASE path \in Sensors \cup Clocks -> world[path]
          [] path = "MODEM_STATUS" -> Present("modem", world["modem"])
          [] path = "MODEM_IFACE" -> Present("modem", "/sys/class/net/usb0")
          [] path = "USB_FLASH_DEV" -> Present("usb", "usb")
          [] path = "SD_CARD_DEV" -> Present("sd", "sd")
          [] path \in FiguresOf("usb") -> Number(world["usb"])
          [] path \in FiguresOf("sd") -> Number(world["sd"])

\* Every variable keeps its type.
TypeOK ==
    /\ \A s \in Sources : world[s] \in Facts(s) \cup {Gone}
    /\ \A s \in Cached : cache[s] \in Readings \cup {"present", Gone}
    /\ running \in Instances
    /\ stage \in {"idle", "refresh", "publish"}
    /\ pos \in Nat
    /\ channels \in [Instances -> Projects]
    /\ connected \in [Instances -> BOOLEAN]
    /\ faults \in 0 .. MaxFaults
    /\ refreshed \in SUBSET Cached
    /\ steady \in SUBSET Sources

\* No channel is published from a cache that this very call did not refresh:
\* the flags and the branches agree on which path needs which cache, and the
\* statics never carry a value over from an earlier call or from another
\* instance (simple_test_protocol.cpp:97-129, 162-274).
FreshWhenUsed ==
    stage = "publish" /\ pos \in DOMAIN channels[running]
        => CacheOf(channels[running][pos]) \subseteq refreshed

\* The channels of one device, read by several commands, never contradict each
\* other within a call, whatever is plugged or unplugged meanwhile: a medium
\* shown as NOT CONNECTED has no size, use or percentage, and the two modem
\* channels and USB_MOD_CONNED agree (simple_test_protocol.cpp:190-274).
SnapshotCoherent ==
    /\ \A m \in Media :
         DevOf(m) \in Done /\ Shown(DevOf(m)) = "NOT CONNECTED"
            => \A p \in FiguresOf(m) \cap Done : Shown(p) = "zero"
    /\ Modem \subseteq Done =>
         (Shown("MODEM_STATUS") = "NOT CONNECTED" <=> Shown("MODEM_IFACE") = "NOT CONNECTED")
    /\ "MODEM_IFACE" \in Done =>
         (connected[running] <=> Shown("MODEM_IFACE") # "NOT CONNECTED")

\* What holds whatever happens outside: the types, fresh caches, and channels of
\* a device that agree.
PublishInvariant == TypeOK /\ FreshWhenUsed /\ SnapshotCoherent

\* What a call publishes of a source that did not change during the call, and
\* whose commands worked, is how things are (simple_test_protocol.cpp:131-275).
QuietCallIsAccurate ==
    \A p \in Done : SourceOf(p) \subseteq steady => Shown(p) = Truth(p)

\* Once the unit stops changing, every channel of every instance ends up
\* showing how things are, for good: no failure, and no medium caught between
\* the mount check and df, leaves a lasting trace.
AccurateAtLast ==
    <>[][world' = world]_vars
        => <>[](\A i \in Instances : \A k \in DOMAIN channels[i] :
                  channels[i][k] \in Handled
                    => published[i][channels[i][k]] = Truth(channels[i][k]))

=============================================================================
