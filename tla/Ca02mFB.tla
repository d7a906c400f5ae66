------------------------------ MODULE Ca02mFB ------------------------------
(***************************************************************************)
(* The function block CA_02m: TestFB::Execute().  One call is several      *)
(* steps, because every shell command it runs is seen by the hardware (and *)
(* by the other writer of the expander) on its own:                        *)
(*                                                                         *)
(*    Enter -> [ConfigureDirection] -> DriveUsb -> WriteMask               *)
(*                                                                         *)
(* The runtime sets the inputs before the call and not during it, so they  *)
(* are latched by Enter.                                                   *)
(***************************************************************************)
EXTENDS Pca9536

CONSTANTS
    ResetCycles,    \* 100 in the code: USB_Counter > 100 ends the pulse
    LampInputs,     \* the values of the four lamp inputs that are considered
    MaxFaults,      \* bound: shell commands that fail
    MaxRestarts     \* bound: restarts of the process or of the unit

ASSUME FBAssumption ==
    /\ ResetCycles \in Nat \ {0}
    /\ ResetCycles < 32767              \* USB_Counter is a 16-bit INT
    /\ LampInputs \subseteq SUBSET Outputs
    /\ MaxFaults \in Nat
    /\ MaxRestarts \in Nat

VARIABLES
    fbStep,         \* where Execute() is: between calls, or before a command
    lampIn,         \* Blue_Led, Red_Led, Buzzer, Dout: the set of those TRUE
    USB_Power,
    was_USB_Power,
    USB_Reset,
    USB_Counter,
    Init_CM,
    maskSent,       \* did the last i2cset of the mask succeed
    fbFaults, fbRestarts

fbMem  == <<lampIn, USB_Power, was_USB_Power, USB_Reset, USB_Counter, Init_CM>>
fbVars == <<fbStep, fbMem, maskSent, fbFaults, fbRestarts>>
vars   == <<chipVars, fbVars>>

\* Seeded fault: two of the shifts swapped.
SwappedShift(o) ==
    IF o = "BLUE_LED" THEN 3
    ELSE IF o = "RED_LED" THEN 0
    ELSE IF o = "BUZZER" THEN 1
    ELSE 2

\* The bit Execute() clears for an input that is TRUE.
Shift(o) ==
    IF o = "BLUE_LED" THEN 3
    ELSE IF o = "RED_LED" THEN 0
    ELSE IF o = "BUZZER" THEN 2
    ELSE 1

Mask(on) == Bits \ {Shift(o) : o \in on}

\* A command may fail while the bound on failures allows it.
Fallible(ok) ==
    /\ ok \/ fbFaults < MaxFaults
    /\ fbFaults' = IF ok THEN fbFaults ELSE fbFaults + 1

-----------------------------------------------------------------------------
\* new TestFB(): value-initialised, so every member is zero.
FBInit ==
    /\ fbStep = "idle"
    /\ lampIn = {}
    /\ USB_Power = FALSE
    /\ was_USB_Power = FALSE
    /\ USB_Reset = FALSE
    /\ USB_Counter = 0
    /\ Init_CM = FALSE
    /\ maskSent = FALSE
    /\ fbFaults = 0
    /\ fbRestarts = 0

Init == ChipReset /\ FBInit

\* The runtime calls Execute() with new inputs.
Enter(lamps, usb) ==
    /\ fbStep = "idle"
    /\ lampIn' = lamps
    /\ USB_Power' = usb
    /\ fbStep' = IF Init_CM THEN "usb" ELSE "direction"
    /\ UNCHANGED <<chipVars, was_USB_Power, USB_Reset, USB_Counter, Init_CM,
                   maskSent, fbFaults, fbRestarts>>

\* Init_CM is set whether or not the command worked.
ConfigureDirection(ok) ==
    /\ fbStep = "direction"
    /\ Fallible(ok)
    /\ SetAllOutputs(ok)
    /\ Init_CM' = TRUE
    /\ fbStep' = "usb"
    /\ UNCHANGED <<outputReg, usbLine, lampIn, USB_Power, was_USB_Power,
                   USB_Reset, USB_Counter, maskSent, fbRestarts>>

\* Seeded fault: the level of the request instead of its edge.
LevelTriggered == USB_Power

RisingEdge == ~was_USB_Power /\ USB_Power

Counting == RisingEdge \/ USB_Reset

\* USB_Counter after this cycle's increment.
Count == (IF RisingEdge THEN 0 ELSE USB_Counter) + 1

\* Is the supply cut in this cycle?
Cut == Counting /\ Count <= ResetCycles

\* Seeded fault: the counter is not zeroed when the pulse ends.
CounterNotZeroed == IF Cut THEN Count ELSE USB_Counter

NextCounter ==
    IF Cut THEN Count
    ELSE IF Counting THEN 0 ELSE USB_Counter

\* Seeded fault: the line is driven only when a pulse starts or ends.
DriveOnChange(ok) ==
    SetUsbLine(IF Cut THEN 0 ELSE 1, ok /\ Cut # USB_Reset)

\* The line is driven in every cycle, whatever it was told before.
DriveLine(ok) == SetUsbLine(IF Cut THEN 0 ELSE 1, ok)

DriveUsb(ok) ==
    /\ fbStep = "usb"
    /\ Fallible(ok)
    /\ USB_Reset' = Cut
    /\ USB_Counter' = NextCounter
    /\ DriveLine(ok)
    /\ fbStep' = "mask"
    /\ UNCHANGED <<directionReg, outputReg, lampIn, USB_Power, was_USB_Power,
                   Init_CM, maskSent, fbRestarts>>

\* Seeded fault: the mask is sent only when nothing was sent before.
SendOnce(ok) == SetOutputs(Mask(lampIn), ok /\ ~maskSent)

\* The mask is sent in every cycle.
SendMask(ok) == SetOutputs(Mask(lampIn), ok)

WriteMask(ok) ==
    /\ fbStep = "mask"
    /\ Fallible(ok)
    /\ SendMask(ok)
    /\ maskSent' = ok
    /\ was_USB_Power' = USB_Power
    /\ fbStep' = "idle"
    /\ UNCHANGED <<directionReg, usbLine, lampIn, USB_Power, USB_Reset,
                   USB_Counter, Init_CM, fbRestarts>>

\* The process dies at any point and starts again with fresh objects.
FBForget ==
    /\ fbRestarts < MaxRestarts
    /\ fbRestarts' = fbRestarts + 1
    /\ fbStep' = "idle"
    /\ lampIn' = {}
    /\ USB_Power' = FALSE
    /\ was_USB_Power' = FALSE
    /\ USB_Reset' = FALSE
    /\ USB_Counter' = 0
    /\ Init_CM' = FALSE
    /\ maskSent' = FALSE
    /\ UNCHANGED fbFaults

\* The expander is not reset by a restart of the process ...
ProcessRestart == FBForget /\ UNCHANGED chipVars

\* ... and is by a power cycle of the unit.
Reboot == FBForget /\ PowerCycle

FBStep ==
    \/ \E lamps \in LampInputs, usb \in BOOLEAN : Enter(lamps, usb)
    \/ \E ok \in BOOLEAN : ConfigureDirection(ok)
    \/ \E ok \in BOOLEAN : DriveUsb(ok)
    \/ \E ok \in BOOLEAN : WriteMask(ok)

Next == FBStep \/ ProcessRestart \/ Reboot

\* The task that calls Execute() is cyclic: it is called again after every
\* return, and a call runs to its end.
Spec == Init /\ [][Next]_vars /\ WF_vars(FBStep)

-----------------------------------------------------------------------------
\* Every variable keeps its type; the counter never leaves the pulse.
TypeOK ==
    /\ ChipTypeOK
    /\ fbStep \in {"idle", "direction", "usb", "mask"}
    /\ lampIn \in SUBSET Outputs
    /\ USB_Power \in BOOLEAN
    /\ was_USB_Power \in BOOLEAN
    /\ USB_Reset \in BOOLEAN
    /\ USB_Counter \in 0 .. ResetCycles
    /\ Init_CM \in BOOLEAN
    /\ maskSent \in BOOLEAN
    /\ fbFaults \in 0 .. MaxFaults
    /\ fbRestarts \in 0 .. MaxRestarts

\* The flag and the counter never disagree: a pulse runs exactly while its
\* counter does, so no pulse starts half spent and none is left counting
\* (test_fb.cpp:18-24).
PulseBookkeeping == USB_Reset <=> USB_Counter > 0

\* Together with the types, which bound the counter below its 16 bits: the
\* registers of the function block stay in a state that a call can start from.
FBInvariant == TypeOK /\ PulseBookkeeping

\* After a call whose last command worked, on an expander whose direction
\* register was written, the energised outputs are exactly the inputs that
\* were TRUE, whatever failed before (test_fb.cpp:6-11, 35-36).
LampsShown ==
    fbStep = "idle" /\ maskSent /\ directionReg = {}
        => \A o \in Outputs : Lit(o) <=> o \in lampIn

\* The function block implements the retriggerable one-shot: every pulse is
\* ResetCycles cycles long after the last rising edge of the request, and
\* the supply is switched on in every cycle outside a pulse, unless the very
\* command that should do it fails (test_fb.cpp:17-39).
Pulse == INSTANCE UsbResetPulse WITH
    request   <- IF fbStep = "mask" THEN USB_Power ELSE was_USB_Power,
    remaining <- IF USB_Reset THEN ResetCycles + 1 - USB_Counter ELSE 0,
    line      <- usbLine,
    failures  <- fbFaults

OneShot == Pulse!PulseSpec

\* A request that stops changing, high or low, never leaves the USB devices
\* without supply for good, even if the command that should have ended the
\* pulse failed (test_fb.cpp:26-33).
SupplyRestored ==
    /\ <>[]USB_Power => <>[](usbLine = 1)
    /\ <>[]~USB_Power => <>[](usbLine = 1)

=============================================================================
