--------------------------- MODULE Ca02mFBProofs ---------------------------
(***************************************************************************)
(* What holds of the function block for every pulse length, every set of   *)
(* inputs and any number of failures and restarts.                         *)
(***************************************************************************)
EXTENDS Ca02mFB, TLAPS

\* A bit of the mask is cleared exactly for the outputs that are on, and it is
\* the bit the output is wired to (test_fb.cpp:8-11 against README.md:86-89).
LEMMA MaskMatchesWiring ==
    ASSUME NEW on \in SUBSET Outputs, NEW o \in Outputs
    PROVE  /\ Mask(on) \in SUBSET Bits
           /\ WiredTo(o) \in Bits
           /\ WiredTo(o) \notin Mask(on) <=> o \in on
<1>1. \A x \in Outputs : WiredTo(x) = Shift(x) /\ Shift(x) \in 0 .. 7
  BY DEF Outputs, WiredTo, Shift
<1>2. \A x, y \in Outputs : Shift(x) = Shift(y) => x = y
  BY DEF Outputs, Shift
<1> QED
  BY <1>1, <1>2 DEF Bits, Mask

\* A step of the function block, or a restart, keeps every type.
LEMMA TypeStep ==
    ASSUME TypeOK, [Next]_vars
    PROVE  TypeOK'
<1>1. ASSUME NEW lamps \in LampInputs, NEW usb \in BOOLEAN, Enter(lamps, usb)
      PROVE  TypeOK'
  BY <1>1, FBAssumption DEF FBAssumption, TypeOK, ChipTypeOK, Enter, chipVars
<1>2. ASSUME NEW ok \in BOOLEAN, ConfigureDirection(ok)
      PROVE  TypeOK'
  BY <1>2, FBAssumption
     DEF FBAssumption, TypeOK, ChipTypeOK, ConfigureDirection, SetAllOutputs, Fallible
<1>3. ASSUME NEW ok \in BOOLEAN, DriveUsb(ok)
      PROVE  TypeOK'
  <2>1. USB_Counter' \in 0 .. ResetCycles /\ USB_Reset' \in BOOLEAN
    BY <1>3, FBAssumption
       DEF FBAssumption, TypeOK, DriveUsb, NextCounter, Cut, Counting, Count, RisingEdge
  <2>2. usbLine' \in {0, 1}
    BY <1>3 DEF TypeOK, ChipTypeOK, DriveUsb, DriveLine, SetUsbLine
  <2> QED
    BY <1>3, <2>1, <2>2, FBAssumption
       DEF FBAssumption, TypeOK, ChipTypeOK, DriveUsb, Fallible
<1>4. ASSUME NEW ok \in BOOLEAN, WriteMask(ok)
      PROVE  TypeOK'
  <2>1. outputReg' \in SUBSET Bits
    BY <1>4 DEF TypeOK, ChipTypeOK, WriteMask, SendMask, SetOutputs, Mask
  <2> QED
    BY <1>4, <2>1, FBAssumption
       DEF FBAssumption, TypeOK, ChipTypeOK, WriteMask, Fallible
<1>5. ASSUME FBForget, ChipTypeOK' PROVE TypeOK'
  <2>1. /\ USB_Power' \in BOOLEAN /\ was_USB_Power' \in BOOLEAN
        /\ USB_Reset' \in BOOLEAN /\ Init_CM' \in BOOLEAN
        /\ maskSent' \in BOOLEAN
    BY <1>5 DEF FBForget
  <2>2. /\ fbStep' \in {"idle", "direction", "usb", "mask"}
        /\ lampIn' \in SUBSET Outputs
        /\ USB_Counter' \in 0 .. ResetCycles
        /\ fbFaults' \in 0 .. MaxFaults /\ fbRestarts' \in 0 .. MaxRestarts
    BY <1>5, FBAssumption DEF FBAssumption, TypeOK, FBForget
  <2> QED
    BY <1>5, <2>1, <2>2 DEF TypeOK
<1>6. CASE ProcessRestart
  BY <1>5, <1>6 DEF ProcessRestart, chipVars, TypeOK, ChipTypeOK
<1>7. CASE Reboot
  <2>1. ChipTypeOK'
    BY <1>7 DEF Reboot, PowerCycle, ChipTypeOK
  <2> QED
    BY <1>5, <1>7, <2>1 DEF Reboot
<1>8. CASE UNCHANGED vars
  BY <1>8 DEF vars, chipVars, fbVars, fbMem, TypeOK, ChipTypeOK
<1> QED
  BY <1>1, <1>2, <1>3, <1>4, <1>6, <1>7, <1>8 DEF Next, FBStep

\* Every variable keeps its type; USB_Counter stays within the pulse, so the
\* 16-bit counter never wraps.
THEOREM TypeCorrect == Spec => []TypeOK
<1>1. Init => TypeOK
  <2> SUFFICES ASSUME Init PROVE TypeOK
    OBVIOUS
  <2>1. /\ USB_Power \in BOOLEAN /\ was_USB_Power \in BOOLEAN
        /\ USB_Reset \in BOOLEAN /\ Init_CM \in BOOLEAN /\ maskSent \in BOOLEAN
    BY DEF Init, FBInit
  <2>2. /\ ChipTypeOK
        /\ fbStep \in {"idle", "direction", "usb", "mask"}
        /\ lampIn \in SUBSET Outputs
        /\ USB_Counter \in 0 .. ResetCycles
        /\ fbFaults \in 0 .. MaxFaults /\ fbRestarts \in 0 .. MaxRestarts
    BY FBAssumption DEF FBAssumption, Init, ChipReset, FBInit, ChipTypeOK
  <2> QED
    BY <2>1, <2>2 DEF TypeOK
<1>2. TypeOK /\ [Next]_vars => TypeOK'
  BY TypeStep
<1> QED
  BY <1>1, <1>2, PTL DEF Spec

\* The inductive invariant behind the three results below.
IInv == TypeOK /\ PulseBookkeeping /\ LampsShown

\* A step of the function block keeps the flag and the counter in agreement.
LEMMA BookkeepingStep ==
    ASSUME TypeOK, PulseBookkeeping, [Next]_vars
    PROVE  PulseBookkeeping'
<1>1. ASSUME NEW ok \in BOOLEAN, DriveUsb(ok)
      PROVE  PulseBookkeeping'
  <2>1. (USB_Reset' <=> Cut) /\ USB_Counter' = NextCounter
    BY <1>1 DEF DriveUsb
  <2>2. Cut <=> NextCounter > 0
    BY FBAssumption
       DEF FBAssumption, TypeOK, PulseBookkeeping, NextCounter, Cut, Counting, Count
  <2> QED
    BY <2>1, <2>2 DEF PulseBookkeeping
<1>2. ASSUME UNCHANGED <<USB_Reset, USB_Counter>>
      PROVE  PulseBookkeeping'
  BY <1>2 DEF PulseBookkeeping
<1>3. CASE FBForget
  <2>1. ~USB_Reset'
    BY <1>3 DEF FBForget
  <2>2. ~(USB_Counter' > 0)
    BY <1>3 DEF FBForget
  <2> QED
    BY <2>1, <2>2 DEF PulseBookkeeping
<1> QED
  BY <1>1, <1>2, <1>3
     DEF Next, FBStep, Enter, ConfigureDirection, WriteMask, ProcessRestart, Reboot,
         vars, fbVars, fbMem

\* A step of the function block keeps the outputs showing its inputs whenever
\* it is between two calls.
LEMMA LampsStep ==
    ASSUME TypeOK, LampsShown, [Next]_vars
    PROVE  LampsShown'
<1>1. ASSUME NEW ok \in BOOLEAN, WriteMask(ok)
      PROVE  LampsShown'
  <2> SUFFICES ASSUME maskSent', directionReg' = {}, NEW o \in Outputs
               PROVE  Lit(o)' <=> o \in lampIn'
    BY DEF LampsShown
  <2>1. ok /\ outputReg' = Mask(lampIn) /\ lampIn' = lampIn
    BY <1>1 DEF WriteMask, SendMask, SetOutputs
  <2>2. WiredTo(o) \notin Mask(lampIn) <=> o \in lampIn
    BY MaskMatchesWiring DEF TypeOK
  <2> QED
    BY <2>1, <2>2 DEF Lit
<1>2. ASSUME fbStep' # "idle" \/ ~maskSent'
      PROVE  LampsShown'
  BY <1>2 DEF LampsShown
<1>3. CASE UNCHANGED vars
  BY <1>3 DEF vars, chipVars, fbVars, fbMem, LampsShown, Lit
<1>4. CASE FBForget
  BY <1>2, <1>4 DEF FBForget
<1> QED
  BY <1>1, <1>2, <1>3, <1>4
     DEF Next, FBStep, Enter, ConfigureDirection, DriveUsb, ProcessRestart, Reboot, TypeOK

LEMMA Invariant == Spec => []IInv
<1>1. Init => PulseBookkeeping /\ LampsShown
  <2>1. Init => ~USB_Reset /\ ~maskSent
    BY DEF Init, FBInit
  <2>2. Init => ~(USB_Counter > 0)
    BY DEF Init, FBInit
  <2> QED
    BY <2>1, <2>2, Zenon DEF PulseBookkeeping, LampsShown
<1>2. TypeOK /\ PulseBookkeeping /\ LampsShown /\ [Next]_vars
        => PulseBookkeeping' /\ LampsShown'
  BY BookkeepingStep, LampsStep
<1> QED
  BY <1>1, <1>2, TypeCorrect, PTL DEF Spec, IInv

\* Every variable keeps its type, and the reset flag is up exactly while the
\* counter counts.
THEOREM Bookkeeping == Spec => []FBInvariant
BY Invariant, PTL DEF IInv, FBInvariant

\* Between two calls, after a mask that was sent, the outputs are the inputs.
THEOREM LampsAreInputs == Spec => []LampsShown
BY Invariant, PTL DEF IInv

-----------------------------------------------------------------------------
\* The three variables of the one-shot, as the function block keeps them.
Request   == IF fbStep = "mask" THEN USB_Power ELSE was_USB_Power
Remaining == IF USB_Reset THEN ResetCycles + 1 - USB_Counter ELSE 0

\* The gpioset step is a cycle of the one-shot.
LEMMA DriveIsCycle ==
    ASSUME TypeOK, PulseBookkeeping, NEW ok \in BOOLEAN, DriveUsb(ok)
    PROVE  Pulse!Cycle(USB_Power)
<1>1. /\ fbStep = "usb" /\ fbStep' = "mask"
      /\ USB_Power' = USB_Power /\ was_USB_Power' = was_USB_Power
  BY DEF DriveUsb
<1>2. Request = was_USB_Power /\ Request' = USB_Power
  BY <1>1, Zenon DEF Request
<1>3. /\ USB_Reset' <=> Cut
      /\ USB_Counter' = NextCounter
  BY DEF DriveUsb
<1>4. Remaining' = IF USB_Power /\ ~was_USB_Power THEN ResetCycles
                   ELSE IF Remaining > 0 THEN Remaining - 1 ELSE 0
  BY <1>3, FBAssumption
     DEF FBAssumption, TypeOK, PulseBookkeeping, Remaining, NextCounter, Cut,
         Counting, Count, RisingEdge
<1>5. Cut <=> Remaining' > 0
  <2>1. Remaining' = IF Cut THEN ResetCycles + 1 - NextCounter ELSE 0
    BY <1>3 DEF Remaining
  <2>2. Cut => NextCounter \in 1 .. ResetCycles
    BY FBAssumption DEF FBAssumption, TypeOK, NextCounter, Cut, Count
  <2> QED
    BY <2>1, <2>2, FBAssumption DEF FBAssumption
<1>6. \/ fbFaults' = fbFaults /\ usbLine' = IF Remaining' > 0 THEN 0 ELSE 1
      \/ fbFaults' = fbFaults + 1 /\ usbLine' = usbLine
  BY <1>5 DEF DriveUsb, DriveLine, SetUsbLine, Fallible
<1> QED
  BY <1>2, <1>4, <1>6, Zenon DEF Pulse!Cycle, Request, Remaining

\* A step of the function block, or a restart, is a step of the one-shot or
\* leaves it as it is.
LEMMA PulseStep ==
    ASSUME TypeOK, PulseBookkeeping, [Next]_vars
    PROVE  [Pulse!PulseNext]_(Pulse!pulseVars)
<1>1. ASSUME NEW ok \in BOOLEAN, DriveUsb(ok)
      PROVE  Pulse!PulseNext
  BY <1>1, DriveIsCycle DEF Pulse!PulseNext, TypeOK
<1>2. ASSUME Request' = Request, Remaining' = Remaining, usbLine' = usbLine,
             fbFaults' \in {fbFaults, fbFaults + 1}
      PROVE  [Pulse!PulseNext]_(Pulse!pulseVars)
  <2>1. CASE fbFaults' = fbFaults
    BY <1>2, <2>1, Zenon DEF Pulse!pulseVars, Request, Remaining
  <2>2. CASE fbFaults' = fbFaults + 1
    BY <1>2, <2>2, Zenon DEF Pulse!PulseNext, Pulse!FailElsewhere, Request, Remaining
  <2> QED
    BY <1>2, <2>1, <2>2
<1>3. ASSUME NEW lamps \in LampInputs, NEW usb \in BOOLEAN, Enter(lamps, usb)
      PROVE  [Pulse!PulseNext]_(Pulse!pulseVars)
  BY <1>2, <1>3 DEF Enter, Request, Remaining, chipVars
<1>4. ASSUME NEW ok \in BOOLEAN, ConfigureDirection(ok)
      PROVE  [Pulse!PulseNext]_(Pulse!pulseVars)
  BY <1>2, <1>4 DEF ConfigureDirection, Fallible, Request, Remaining
<1>5. ASSUME NEW ok \in BOOLEAN, WriteMask(ok)
      PROVE  [Pulse!PulseNext]_(Pulse!pulseVars)
  BY <1>2, <1>5 DEF WriteMask, Fallible, Request, Remaining
<1>6. ASSUME FBForget, usbLine' \in {usbLine, 1}
      PROVE  Pulse!PulseNext
  <2>1. Request' = FALSE
    BY <1>6, Zenon DEF FBForget, Request
  <2>2. Remaining' = 0 /\ fbFaults' = fbFaults
    BY <1>6 DEF FBForget, Remaining
  <2> QED
    BY <1>6, <2>1, <2>2, Zenon DEF Pulse!PulseNext, Pulse!Forget, Request, Remaining
<1>7. CASE ProcessRestart
  BY <1>6, <1>7 DEF ProcessRestart, chipVars
<1>8. CASE Reboot
  BY <1>6, <1>8 DEF Reboot, PowerCycle
<1>9. CASE UNCHANGED vars
  BY <1>2, <1>9 DEF vars, chipVars, fbVars, fbMem, Request, Remaining
<1> QED
  BY <1>1, <1>3, <1>4, <1>5, <1>7, <1>8, <1>9 DEF Next, FBStep

\* The function block implements the retriggerable one-shot: for every length
\* of the pulse, any inputs, and any failures and restarts.
THEOREM ImplementsOneShot == Spec => OneShot
<1>1. Init => Pulse!PulseInit
  <2> SUFFICES ASSUME Init PROVE Pulse!PulseInit
    OBVIOUS
  <2>1. Request = FALSE
    BY Zenon DEF Init, FBInit, Request
  <2>3. Remaining = 0
    BY DEF Init, FBInit, Remaining
  <2>2. usbLine = 1 /\ fbFaults = 0
    BY DEF Init, ChipReset, FBInit
  <2> QED
    BY <2>1, <2>2, <2>3, Zenon DEF Pulse!PulseInit, Request, Remaining
<1>2. TypeOK /\ PulseBookkeeping /\ [Next]_vars
        => [Pulse!PulseNext]_(Pulse!pulseVars)
  BY PulseStep
<1> QED
  BY <1>1, <1>2, Invariant, PTL DEF Spec, IInv, OneShot, Pulse!PulseSpec

=============================================================================
