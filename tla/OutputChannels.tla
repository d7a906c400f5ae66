--------------------------- MODULE OutputChannels ---------------------------
(***************************************************************************)
(* The output side of the protocol Diagnostic: SimpleTestProtocol's        *)
(* Init() and the OutVar half of Execute()'s loop over its channels.  The  *)
(* InVar half writes no output and is modelled in DiagnosticChannels; here *)
(* a channel without an OutVar is one that is skipped.                     *)
(*                                                                         *)
(* One pass of the loop is two steps, Process (read the variable, update   *)
(* the mask, drive the USB line) and WriteMask (the i2cset that ends the   *)
(* pass of EVERY output channel, whatever it is called).                   *)
(***************************************************************************)
EXTENDS Pca9536, Sequences

CONSTANTS
    Projects,       \* the channel vectors considered: sequences of channels
    Garbage,        \* bytes the uninitialised mask may hold before Init()
    MaxFaults,      \* bound: commands and reads that fail
    MaxRestarts     \* bound: restarts of the process or of the unit

\* What a channel is called: an output of the expander, the USB supply, any
\* other output variable, or a channel that has no output variable.
Named == Outputs \cup {"USB_POWER", "OTHER"}
Channel == Named \cup {"INPUT"}

ASSUME ProtocolAssumption ==
    /\ Projects \subseteq Seq(Channel)
    \* a project variable is bound to at most one channel
    /\ \A p \in Projects : \A j, k \in DOMAIN p :
         p[j] = p[k] /\ p[j] \in Outputs => j = k
    /\ Garbage \subseteq SUBSET Bits
    /\ Garbage # {}
    /\ MaxFaults \in Nat
    /\ MaxRestarts \in Nat

VARIABLES
    channels,       \* the channel vector, in the order Create() filled it
    command,        \* the variables of the project that read "true"
    step,           \* where the task is: "new" before Init(), "idle", ...
    pos,            \* the channel being processed
    value,          \* the channels whose OutVar->Value reads "true"
    mask,
    maskSent,       \* did the last i2cset of the mask succeed
    faults, restarts

protocolVars == <<channels, command, step, pos, value, mask, maskSent,
                  faults, restarts>>
vars == <<chipVars, protocolVars>>

Fallible(ok) ==
    /\ ok \/ faults < MaxFaults
    /\ faults' = IF ok THEN faults ELSE faults + 1

-----------------------------------------------------------------------------
ProtocolInit ==
    /\ channels \in Projects
    /\ command = {}
    /\ step = "new"
    /\ pos = 0
    /\ value = {}
    /\ mask \in Garbage
    /\ maskSent = FALSE
    /\ faults = 0
    /\ restarts = 0

Init == ChipReset /\ ProtocolInit

\* The PLC program (or an operator) changes a variable of the project.
Command(name) ==
    /\ name \in Named
    /\ command' = IF name \in command THEN command \ {name}
                                      ELSE command \cup {name}
    /\ UNCHANGED <<chipVars, channels, step, pos, value, mask, maskSent,
                   faults, restarts>>

\* Seeded fault: Init() forgets the mask.
MaskNotSet == mask

InitialMask == Bits

\* SimpleTestProtocol::Init(): register 0x01 is not written.
InitProtocol(ok) ==
    /\ step = "new"
    /\ Fallible(ok)
    /\ mask' = InitialMask
    /\ SetAllOutputs(ok)
    /\ step' = "idle"
    /\ UNCHANGED <<outputReg, usbLine, channels, command, pos, value,
                   maskSent, restarts>>

\* The task calls Execute().
Enter ==
    /\ step = "idle"
    /\ pos' = 1
    /\ step' = "loop"
    /\ UNCHANGED <<chipVars, channels, command, value, mask, maskSent,
                   faults, restarts>>

InLoop == step = "loop" /\ pos \in DOMAIN channels

Current == channels[pos]

\* Seeded fault: the i2cset stands outside the "if (ch->OutVar)".
SkipWriting ==
    /\ InLoop
    /\ Current = "INPUT"
    /\ step' = "write"
    /\ UNCHANGED <<chipVars, channels, command, pos, value, mask, maskSent,
                   faults, restarts>>

\* A channel without an OutVar.
Skip ==
    /\ InLoop
    /\ Current = "INPUT"
    /\ pos' = pos + 1
    /\ UNCHANGED <<chipVars, channels, command, step, value, mask, maskSent,
                   faults, restarts>>

\* What OutVar->Value may read after Read().  Its status is ignored; what a
\* failed Read() leaves in Value is the closed runtime's affair: the value it
\* had, or nothing, which does not read "true".
ReadOutcomes(readOk) ==
    IF ~readOk THEN {value, value \ {pos}}
    ELSE {IF Current \in command THEN value \cup {pos} ELSE value \ {pos}}

\* The bit the loop clears for "true" and sets for anything else.
BitFor(name) ==
    IF name = "BLUE_LED" THEN {3}
    ELSE IF name = "RED_LED" THEN {0}
    ELSE IF name = "BUZZER" THEN {2}
    ELSE IF name = "DOUT" THEN {1}
    ELSE {}

\* Seeded fault: bits are only ever cleared.
NeverSetsBits(name, on) == IF on THEN mask \ BitFor(name) ELSE mask

\* Seeded fault: "false" sets every bit instead of its own.
SetsEveryBit(name, on) == IF on THEN mask \ BitFor(name) ELSE Bits

NewMask(name, on) ==
    IF on THEN mask \ BitFor(name) ELSE mask \cup BitFor(name)

\* Seeded fault: USB_POWER is not told from the other outputs.
EveryChannelDrivesUsb(name) == name \in Named

UsbChannel(name) == name = "USB_POWER"

UsbLevel(on) == IF on THEN 0 ELSE 1

Process(readOk, gpioOk) ==
    /\ InLoop
    /\ Current # "INPUT"
    /\ Fallible(readOk /\ gpioOk)
    /\ value' \in ReadOutcomes(readOk)
    /\ mask' = NewMask(Current, pos \in value')
    /\ IF UsbChannel(Current)
         THEN SetUsbLine(UsbLevel(pos \in value'), gpioOk)
         ELSE gpioOk /\ UNCHANGED usbLine
    /\ step' = "write"
    /\ UNCHANGED <<directionReg, outputReg, channels, command, pos, maskSent,
                   restarts>>

\* Seeded fault: the mask is sent only until it was sent once.
SendOnce(ok) == SetOutputs(mask, ok /\ ~maskSent)

SendMask(ok) == SetOutputs(mask, ok)

WriteMask(ok) ==
    /\ step = "write"
    /\ Fallible(ok)
    /\ SendMask(ok)
    /\ maskSent' = ok
    /\ pos' = pos + 1
    /\ step' = "loop"
    /\ UNCHANGED <<directionReg, usbLine, channels, command, value, mask,
                   restarts>>

Return ==
    /\ step = "loop"
    /\ pos \notin DOMAIN channels
    /\ step' = "idle"
    /\ UNCHANGED <<chipVars, channels, command, pos, value, mask, maskSent,
                   faults, restarts>>

\* A new process: new objects, the same project, the variables of the project
\* keep their values (they are commanded from outside).
ProtocolForget ==
    /\ restarts < MaxRestarts
    /\ restarts' = restarts + 1
    /\ step' = "new"
    /\ pos' = 0
    /\ value' = {}
    /\ mask' \in Garbage
    /\ maskSent' = FALSE
    /\ UNCHANGED <<channels, command, faults>>

ProcessRestart == ProtocolForget /\ UNCHANGED chipVars

Reboot == ProtocolForget /\ PowerCycle

Execute ==
    \/ Enter
    \/ Skip
    \/ \E readOk, gpioOk \in BOOLEAN : Process(readOk, gpioOk)
    \/ \E ok \in BOOLEAN : WriteMask(ok)
    \/ Return

ProtocolStep == (\E ok \in BOOLEAN : InitProtocol(ok)) \/ Execute

Next ==
    \/ \E k \in DOMAIN channels : Command(channels[k])
    \/ ProtocolStep
    \/ ProcessRestart
    \/ Reboot

\* The runtime initialises the protocol and then calls Execute() cyclically.
Spec == Init /\ [][Next]_vars /\ WF_vars(ProtocolStep)

-----------------------------------------------------------------------------
\* Every variable keeps its type.
TypeOK ==
    /\ ChipTypeOK
    /\ channels \in Projects
    /\ command \in SUBSET Named
    /\ step \in {"new", "idle", "loop", "write"}
    /\ pos \in 0 .. Len(channels) + 1
    /\ step = "write" => pos \in DOMAIN channels
    /\ value \in SUBSET DOMAIN channels
    /\ mask \in SUBSET Bits
    /\ maskSent \in BOOLEAN
    /\ faults \in 0 .. MaxFaults
    /\ restarts \in 0 .. MaxRestarts

\* From Init() on, the mask is the active-low image of what the channels read
\* last, whatever was sent, failed or read badly since: bits cleared one
\* channel at a time, in a member that outlives every Execute(), never drift
\* (simple_test_protocol.cpp:91, 282-300).
MaskIsImage ==
    step # "new" => mask = Bits \ UNION {BitFor(channels[k]) : k \in value}

\* Together with the types: what every pass starts from.
MaskInvariant == TypeOK /\ MaskIsImage

\* Once an i2cset worked, the energised outputs are, until the next Process,
\* those of the channels that read "true", and an output without a channel is
\* dark (simple_test_protocol.cpp:277-303).
LampsShown ==
    step \in {"idle", "loop"} /\ maskSent /\ directionReg = {}
        => \A o \in Outputs : Lit(o) <=> \E k \in value : channels[k] = o

\* An i2cset that follows one that worked changes no output but that of the
\* channel being processed: rewriting the whole register for every channel
\* disturbs no other output (simple_test_protocol.cpp:302-303).
OneLampPerWrite ==
    [][step = "write" /\ step' = "loop" /\ maskSent
         => \A o \in Outputs : Lit(o)' # Lit(o) => o = Current]_vars

\* An output that stays commanded on (off) ends up on (off) for good, after
\* any failures, bad reads and restarts, if the pins were configured; Init()
\* tries that once (simple_test_protocol.cpp:92).
LampsSettle ==
    \A o \in Outputs :
        LET Bound == \E k \in DOMAIN channels : channels[k] = o
        IN  /\ <>[](Bound /\ o \in command) => <>[](Lit(o) \/ directionReg = Bits)
            /\ <>[](~Bound \/ o \notin command) => <>[]~Lit(o)

\* USB_POWER holds line 268 at 0 while it reads "true" and at 1 while it does
\* not (simple_test_protocol.cpp:294-295).
UsbSettles ==
    LET Bound == \E k \in DOMAIN channels : channels[k] = "USB_POWER"
    IN  /\ <>[](Bound /\ "USB_POWER" \in command) => <>[](usbLine = 0)
        /\ <>[](Bound /\ "USB_POWER" \notin command) => <>[](usbLine = 1)

\* Both sides of the protocol's outputs come to rest where the channels want
\* them: the lamps and the USB supply.
OutputsSettle == LampsSettle /\ UsbSettles

=============================================================================
