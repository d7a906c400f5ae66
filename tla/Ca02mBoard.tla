----------------------------- MODULE Ca02mBoard -----------------------------
(***************************************************************************)
(* The unit as a project may configure it: the protocol and the function   *)
(* block loaded into one runtime, each called by the task it is bound to,  *)
(* and sharing the expander and the USB line.  Neither knows of the other  *)
(* and nothing serialises them, so their shell commands interleave.        *)
(***************************************************************************)
EXTENDS Pca9536, Sequences

CONSTANTS ResetCycles, LampInputs, Projects, Garbage, MaxFaults, MaxRestarts

VARIABLES
    \* the function block
    fbStep, lampIn, USB_Power, was_USB_Power, USB_Reset, USB_Counter, Init_CM,
    fbMaskSent, fbFaults, fbRestarts,
    \* the protocol
    channels, command, step, pos, value, mask, maskSent, faults, restarts

FB == INSTANCE Ca02mFB WITH maskSent <- fbMaskSent
Protocol == INSTANCE OutputChannels

ASSUME BoardAssumption == FB!FBAssumption /\ Protocol!ProtocolAssumption

fbVars == <<fbStep, lampIn, USB_Power, was_USB_Power, USB_Reset, USB_Counter,
            Init_CM, fbMaskSent, fbFaults, fbRestarts>>
protocolVars == <<channels, command, step, pos, value, mask, maskSent, faults,
                  restarts>>
vars == <<chipVars, fbVars, protocolVars>>

Init == ChipReset /\ FB!FBInit /\ Protocol!ProtocolInit

FBTask == FB!FBStep /\ UNCHANGED protocolVars

ProtocolTask == Protocol!ProtocolStep /\ UNCHANGED fbVars

Command ==
    /\ \E k \in DOMAIN channels : Protocol!Command(channels[k])
    /\ UNCHANGED fbVars

\* One process runs both: they die together.
Forget == FB!FBForget /\ Protocol!ProtocolForget

ProcessRestart == Forget /\ UNCHANGED chipVars

Reboot == Forget /\ PowerCycle

Next == FBTask \/ ProtocolTask \/ Command \/ ProcessRestart \/ Reboot

\* Both tasks are cyclic.
Spec == Init /\ [][Next]_vars /\ WF_vars(FBTask) /\ WF_vars(ProtocolTask)

-----------------------------------------------------------------------------
\* Every variable of either part keeps its type.
TypeOK == FB!TypeOK /\ Protocol!TypeOK

HasOutputChannel == \E k \in DOMAIN channels : channels[k] # "INPUT"

HasUsbChannel == \E k \in DOMAIN channels : channels[k] = "USB_POWER"

\* Does the protocol ask for output o?
Asked(o) == o \in command /\ \E k \in DOMAIN channels : channels[k] = o

\* A project that uses the protocol for diagnostics only leaves the outputs to
\* the function block: no step of the protocol makes them differ from its
\* inputs (simple_test_protocol.cpp:277, 302-303).
DiagnosticsLeaveLampsAlone == ~HasOutputChannel => FB!LampsShown

\* Together with the types of both and of what they share.
BoardInvariant == TypeOK /\ DiagnosticsLeaveLampsAlone

\* A project without a USB_POWER channel keeps the function block's promise on
\* the USB supply, whatever outputs the protocol writes and however the two
\* interleave (simple_test_protocol.cpp:294-295, test_fb.cpp:18-33).
PulseKept ==
    /\ FB!Pulse!PulseInit
    /\ [][~HasUsbChannel => FB!Pulse!PulseNext]_(FB!Pulse!pulseVars)

\* An output both keep asking for ends up on for good; one neither asks for,
\* dark: writers that agree do not disturb each other.
AgreementHolds ==
    \A o \in Outputs :
        /\ <>[](Asked(o) /\ o \in lampIn) => <>[](Lit(o) \/ directionReg = Bits)
        /\ <>[](~Asked(o) /\ o \notin lampIn) => <>[]~Lit(o)

\* An output only the function block asks for never comes to rest once the
\* project has any output channel, be it of another name: each writes the
\* whole register in every cycle, the protocol without the function block's
\* bits, and neither wins (simple_test_protocol.cpp:302-303, test_fb.cpp:35-36).
NeitherWriterWins ==
    \A o \in Outputs :
        <>[](HasOutputChannel /\ o \in lampIn /\ ~Asked(o))
            => []<>~Lit(o) /\ ([]<>Lit(o) \/ <>[](directionReg = Bits))

=============================================================================
