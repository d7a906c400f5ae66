-------------------------- MODULE Ca02mBoardProofs --------------------------
(***************************************************************************)
(* Both plug-ins on one board, for every pulse length, every project and   *)
(* any number of failures and restarts: what each keeps of its promises    *)
(* while the other runs beside it.  The steps of each part were proved in  *)
(* the module of that part, of which F and P are the instances.            *)
(***************************************************************************)
EXTENDS Ca02mBoard, TLAPS

F == INSTANCE Ca02mFBProofs WITH maskSent <- fbMaskSent
P == INSTANCE OutputChannelsProofs

-----------------------------------------------------------------------------
\* F and P speak of the same states and steps as FB and Protocol.
LEMMA SameAssumptions == F!FBAssumption /\ P!ProtocolAssumption
<1>1. FB!Outputs = F!Outputs
  BY DEF FB!Outputs, F!Outputs
<1>2. Protocol!Bits = P!Bits /\ Protocol!Outputs = P!Outputs /\ Protocol!Channel = P!Channel
  BY DEF Protocol!Channel, P!Channel, Protocol!Named, P!Named, Protocol!Outputs,
         P!Outputs, Protocol!Bits, P!Bits
<1>3. F!FBAssumption
  BY BoardAssumption, <1>1 DEF BoardAssumption, FB!FBAssumption, F!FBAssumption
<1>4. P!ProtocolAssumption
  BY BoardAssumption, <1>2
     DEF BoardAssumption, Protocol!ProtocolAssumption, P!ProtocolAssumption
<1>. QED BY <1>3, <1>4

LEMMA SameFBTypes == (FB!TypeOK <=> F!TypeOK) /\ (FB!TypeOK' <=> F!TypeOK')
BY DEF FB!TypeOK, F!TypeOK, FB!ChipTypeOK, F!ChipTypeOK, FB!Outputs, F!Outputs,
       FB!Bits, F!Bits

LEMMA SameProtocolTypes ==
    (Protocol!TypeOK <=> P!TypeOK) /\ (Protocol!TypeOK' <=> P!TypeOK')
BY DEF Protocol!TypeOK, P!TypeOK, Protocol!ChipTypeOK, P!ChipTypeOK,
       Protocol!Named, P!Named, Protocol!Outputs, P!Outputs, Protocol!Bits, P!Bits

LEMMA SameFBStep == ASSUME FB!FBStep PROVE F!Next
<1>1. ASSUME NEW lamps \in LampInputs, NEW usb \in BOOLEAN, FB!Enter(lamps, usb)
      PROVE  F!Enter(lamps, usb)
  BY <1>1 DEF FB!Enter, F!Enter, FB!chipVars, F!chipVars
<1>2. ASSUME NEW ok \in BOOLEAN, FB!ConfigureDirection(ok)
      PROVE  F!ConfigureDirection(ok)
  BY <1>2 DEF FB!ConfigureDirection, F!ConfigureDirection, FB!Fallible, F!Fallible,
              FB!SetAllOutputs, F!SetAllOutputs
<1>3. ASSUME NEW ok \in BOOLEAN, FB!DriveUsb(ok)
      PROVE  F!DriveUsb(ok)
  BY <1>3 DEF FB!DriveUsb, F!DriveUsb, FB!Fallible, F!Fallible, FB!Cut, F!Cut,
              FB!NextCounter, F!NextCounter, FB!Count, F!Count, FB!Counting, F!Counting,
              FB!RisingEdge, F!RisingEdge, FB!DriveLine, F!DriveLine,
              FB!SetUsbLine, F!SetUsbLine
<1>4. ASSUME NEW ok \in BOOLEAN, FB!WriteMask(ok)
      PROVE  F!WriteMask(ok)
  BY <1>4 DEF FB!WriteMask, F!WriteMask, FB!Fallible, F!Fallible, FB!SendMask, F!SendMask,
              FB!SetOutputs, F!SetOutputs, FB!Mask, F!Mask, FB!Shift, F!Shift,
              FB!Bits, F!Bits
<1>. QED BY <1>1, <1>2, <1>3, <1>4 DEF FB!FBStep, F!FBStep, F!Next

LEMMA SameProtocolStep == ASSUME Protocol!ProtocolStep PROVE P!Next
<1>1. ASSUME NEW ok \in BOOLEAN, Protocol!InitProtocol(ok)
      PROVE  P!InitProtocol(ok)
  BY <1>1 DEF Protocol!InitProtocol, P!InitProtocol, Protocol!Fallible, P!Fallible,
              Protocol!InitialMask, P!InitialMask, Protocol!Bits, P!Bits,
              Protocol!SetAllOutputs, P!SetAllOutputs
<1>2. ASSUME Protocol!Enter PROVE P!Enter
  BY <1>2 DEF Protocol!Enter, P!Enter, Protocol!chipVars, P!chipVars
<1>3. ASSUME Protocol!Skip PROVE P!Skip
  BY <1>3 DEF Protocol!Skip, P!Skip, Protocol!InLoop, P!InLoop, Protocol!Current,
              P!Current, Protocol!chipVars, P!chipVars
<1>4. ASSUME NEW readOk \in BOOLEAN, NEW gpioOk \in BOOLEAN,
             Protocol!Process(readOk, gpioOk)
      PROVE  P!Process(readOk, gpioOk)
  BY <1>4 DEF Protocol!Process, P!Process, Protocol!InLoop, P!InLoop, Protocol!Current,
              P!Current, Protocol!Fallible, P!Fallible, Protocol!ReadOutcomes,
              P!ReadOutcomes, Protocol!NewMask, P!NewMask, Protocol!BitFor, P!BitFor,
              Protocol!UsbChannel, P!UsbChannel, Protocol!UsbLevel, P!UsbLevel,
              Protocol!SetUsbLine, P!SetUsbLine
<1>5. ASSUME NEW ok \in BOOLEAN, Protocol!WriteMask(ok)
      PROVE  P!WriteMask(ok)
  BY <1>5 DEF Protocol!WriteMask, P!WriteMask, Protocol!Fallible, P!Fallible,
              Protocol!SendMask, P!SendMask, Protocol!SetOutputs, P!SetOutputs
<1>6. ASSUME Protocol!Return PROVE P!Return
  BY <1>6 DEF Protocol!Return, P!Return, Protocol!chipVars, P!chipVars
<1>. QED BY <1>1, <1>2, <1>3, <1>4, <1>5, <1>6
         DEF Protocol!ProtocolStep, Protocol!Execute, P!ProtocolStep, P!Execute, P!Next

LEMMA SameForget ==
    ASSUME Forget
    PROVE  /\ UNCHANGED chipVars => F!ProcessRestart /\ P!ProcessRestart
           /\ PowerCycle => F!Reboot /\ P!Reboot
<1>1. F!FBForget /\ P!ProtocolForget
  BY DEF Forget, FB!FBForget, F!FBForget, Protocol!ProtocolForget, P!ProtocolForget
<1>. QED
  BY <1>1 DEF F!ProcessRestart, P!ProcessRestart, F!Reboot, P!Reboot, chipVars, F!chipVars,
              P!chipVars, PowerCycle, F!PowerCycle, P!PowerCycle, Bits, F!Bits, P!Bits

\* A step of one part leaves the other as it is, but for the shared hardware.
LEMMA FBTaskStep ==
    ASSUME FBTask
    PROVE  /\ F!Next
           /\ UNCHANGED <<channels, command, step, pos, value, mask, maskSent, faults,
                          restarts>>
BY SameFBStep DEF FBTask, protocolVars

LEMMA ProtocolTaskStep ==
    ASSUME ProtocolTask
    PROVE  /\ P!Next
           /\ UNCHANGED <<fbStep, lampIn, USB_Power, was_USB_Power, USB_Reset, USB_Counter,
                          Init_CM, fbMaskSent, fbFaults, fbRestarts>>
BY SameProtocolStep DEF ProtocolTask, fbVars

LEMMA CommandStep ==
    ASSUME Command
    PROVE  /\ P!Next
           /\ UNCHANGED <<fbStep, lampIn, USB_Power, was_USB_Power, USB_Reset, USB_Counter,
                          Init_CM, fbMaskSent, fbFaults, fbRestarts>>
           /\ UNCHANGED <<directionReg, outputReg, usbLine>>
           /\ UNCHANGED <<channels, step, pos>>
<1>1. PICK k \in DOMAIN channels : Protocol!Command(channels[k])
  BY DEF Command
<1>2. P!Command(channels[k])
  BY <1>1 DEF Protocol!Command, P!Command, Protocol!Named, P!Named, Protocol!Outputs,
              P!Outputs, Protocol!chipVars, P!chipVars
<1>. QED BY <1>1, <1>2 DEF Command, fbVars, P!Next, Protocol!Command, Protocol!chipVars

LEMMA RestartStep ==
    ASSUME ProcessRestart \/ Reboot
    PROVE  /\ Forget
           /\ F!Next /\ P!Next
           /\ UNCHANGED channels /\ step' = "new" /\ fbStep' = "idle" /\ ~fbMaskSent'
<1>1. F!Next /\ P!Next
  BY SameForget DEF ProcessRestart, Reboot, F!Next, P!Next
<1>2. Forget
  BY DEF ProcessRestart, Reboot
<1>3. ~fbMaskSent'
  BY <1>2 DEF Forget, FB!FBForget
<1>. QED BY <1>1, <1>2, <1>3 DEF Forget, FB!FBForget, Protocol!ProtocolForget

-----------------------------------------------------------------------------
LEMMA TypesKept == ASSUME TypeOK, [Next]_vars PROVE TypeOK'
<1>1. ASSUME F!Next PROVE FB!TypeOK'
  BY <1>1, F!TypeStep, SameAssumptions, SameFBTypes DEF TypeOK
<1>2. ASSUME P!Next PROVE Protocol!TypeOK'
  BY <1>2, P!TypeStep, SameAssumptions, SameProtocolTypes DEF TypeOK
<1>3. CASE FBTask
  <2>1. FB!TypeOK'
    BY <1>1, <1>3, FBTaskStep
  <2>2. Protocol!ChipTypeOK'
    BY <2>1 DEF FB!TypeOK, FB!ChipTypeOK, Protocol!ChipTypeOK, FB!Bits, Protocol!Bits
  <2>3. Protocol!TypeOK'
    BY <1>3, <2>2, FBTaskStep DEF TypeOK, Protocol!TypeOK
  <2>. QED BY <2>1, <2>3 DEF TypeOK
<1>4. ASSUME P!Next,
             UNCHANGED <<fbStep, lampIn, USB_Power, was_USB_Power, USB_Reset, USB_Counter,
                         Init_CM, fbMaskSent, fbFaults, fbRestarts>>
      PROVE  TypeOK'
  <2>1. Protocol!TypeOK'
    BY <1>2, <1>4
  <2>2. FB!ChipTypeOK'
    BY <2>1 DEF Protocol!TypeOK, FB!ChipTypeOK, Protocol!ChipTypeOK, FB!Bits, Protocol!Bits
  <2>3. FB!TypeOK'
    BY <1>4, <2>2 DEF TypeOK, FB!TypeOK
  <2>. QED BY <2>1, <2>3 DEF TypeOK
<1>5. CASE ProcessRestart \/ Reboot
  BY <1>1, <1>2, <1>5, RestartStep DEF TypeOK
<1>6. CASE UNCHANGED vars
  <2>1. UNCHANGED <<directionReg, outputReg, usbLine, fbStep, lampIn, USB_Power,
                    was_USB_Power, USB_Reset, USB_Counter, Init_CM, fbMaskSent, fbFaults,
                    fbRestarts>>
    BY <1>6 DEF vars, chipVars, fbVars
  <2>2. UNCHANGED <<channels, command, step, pos, value, mask, maskSent, faults, restarts>>
    BY <1>6 DEF vars, protocolVars
  <2>3. FB!TypeOK'
    BY <2>1 DEF TypeOK, FB!TypeOK, FB!ChipTypeOK
  <2>4. Protocol!TypeOK'
    BY <2>1, <2>2 DEF TypeOK, Protocol!TypeOK, Protocol!ChipTypeOK
  <2>. QED BY <2>3, <2>4 DEF TypeOK
<1>. QED BY <1>3, <1>4, <1>5, <1>6, ProtocolTaskStep, CommandStep DEF Next

-----------------------------------------------------------------------------
\* Between two calls of the function block, and after an i2cset of its own that
\* worked, the register is what it wrote if the project has no output channel,
\* whatever the direction register is meanwhile told by the protocol.
RegisterIsFBs ==
    ~HasOutputChannel /\ fbStep = "idle" /\ fbMaskSent => outputReg = FB!Mask(lampIn)

\* Only a channel with an output variable writes the mask.
OutputPass == step = "write" => channels[pos] # "INPUT"

IInv == TypeOK /\ OutputPass /\ RegisterIsFBs /\ FB!PulseBookkeeping

LEMMA OutputPassStep == ASSUME TypeOK, OutputPass, [Next]_vars PROVE OutputPass'
<1>1. ASSUME Protocol!ProtocolStep PROVE OutputPass'
  <2>1. ASSUME NEW readOk \in BOOLEAN, NEW gpioOk \in BOOLEAN,
               Protocol!Process(readOk, gpioOk)
        PROVE  OutputPass'
    BY <2>1 DEF Protocol!Process, Protocol!Current, OutputPass
  <2>2. ASSUME step' # "write" PROVE OutputPass'
    BY <2>2 DEF OutputPass
  <2>. QED BY <1>1, <2>1, <2>2
           DEF Protocol!ProtocolStep, Protocol!Execute, Protocol!InitProtocol,
               Protocol!Enter, Protocol!Skip, Protocol!InLoop, Protocol!WriteMask,
               Protocol!Return
<1>2. ASSUME UNCHANGED <<channels, step, pos>> PROVE OutputPass'
  BY <1>2 DEF OutputPass
<1>3. CASE ProcessRestart \/ Reboot
  BY <1>3, RestartStep DEF OutputPass
<1>. QED BY <1>1, <1>2, <1>3, FBTaskStep, CommandStep
         DEF Next, ProtocolTask, vars, protocolVars

LEMMA RegisterStep ==
    ASSUME TypeOK, OutputPass, RegisterIsFBs, [Next]_vars
    PROVE  RegisterIsFBs'
<1>1. ASSUME UNCHANGED channels PROVE HasOutputChannel' = HasOutputChannel
  BY <1>1, Zenon DEF HasOutputChannel
<1>2. ASSUME UNCHANGED <<channels, fbStep, fbMaskSent, outputReg, lampIn>>
      PROVE  RegisterIsFBs'
  BY <1>1, <1>2, Zenon DEF RegisterIsFBs, FB!Mask, FB!Shift, FB!Bits
<1>3. CASE FBTask
  <2>1. ASSUME NEW ok \in BOOLEAN, FB!WriteMask(ok)
        PROVE  fbMaskSent' => outputReg' = FB!Mask(lampIn')
    BY <2>1 DEF FB!WriteMask, FB!SendMask, FB!SetOutputs, FB!Mask
  <2>2. fbStep' = "idle" => \E ok \in BOOLEAN : FB!WriteMask(ok)
    BY <1>3 DEF FBTask, FB!FBStep, FB!Enter, FB!ConfigureDirection, FB!DriveUsb
  <2>. QED BY <2>1, <2>2 DEF RegisterIsFBs, FB!Mask
<1>4. CASE ProtocolTask
  <2>1. UNCHANGED channels
    BY <1>4 DEF ProtocolTask, Protocol!ProtocolStep, Protocol!Execute,
                Protocol!InitProtocol, Protocol!Enter, Protocol!Skip, Protocol!Process,
                Protocol!WriteMask, Protocol!Return
  <2>2. CASE HasOutputChannel
    BY <1>1, <2>1, <2>2 DEF RegisterIsFBs
  <2>3. CASE ~HasOutputChannel
    <3>1. step # "write"
      BY <2>3 DEF TypeOK, Protocol!TypeOK, OutputPass, HasOutputChannel
    <3>2. UNCHANGED outputReg
      BY <1>4, <3>1 DEF ProtocolTask, Protocol!ProtocolStep, Protocol!Execute,
                Protocol!InitProtocol, Protocol!Enter, Protocol!Skip, Protocol!Process,
                Protocol!WriteMask, Protocol!Return, Protocol!chipVars
    <3>. QED BY <1>2, <1>4, <2>1, <3>2, ProtocolTaskStep
  <2>. QED BY <2>2, <2>3
<1>5. CASE Command
  BY <1>2, <1>5, CommandStep
<1>6. CASE ProcessRestart \/ Reboot
  BY <1>6, RestartStep DEF RegisterIsFBs
<1>7. CASE UNCHANGED vars
  BY <1>2, <1>7 DEF vars, chipVars, fbVars, protocolVars
<1>. QED BY <1>3, <1>4, <1>5, <1>6, <1>7 DEF Next

LEMMA BookkeepingStep ==
    ASSUME TypeOK, FB!PulseBookkeeping, [Next]_vars
    PROVE  FB!PulseBookkeeping'
<1>1. ASSUME F!Next PROVE FB!PulseBookkeeping'
  <2>1. F!TypeOK /\ F!PulseBookkeeping
    BY SameFBTypes DEF TypeOK, FB!PulseBookkeeping, F!PulseBookkeeping
  <2>2. F!PulseBookkeeping'
    BY <1>1, <2>1, F!BookkeepingStep, SameAssumptions
  <2>. QED BY <2>2 DEF FB!PulseBookkeeping, F!PulseBookkeeping
<1>2. ASSUME UNCHANGED <<USB_Reset, USB_Counter>> PROVE FB!PulseBookkeeping'
  BY <1>2 DEF FB!PulseBookkeeping
<1>. QED BY <1>1, <1>2, FBTaskStep, ProtocolTaskStep, CommandStep, RestartStep
         DEF Next, vars, fbVars

LEMMA InitHolds == Init => IInv
<1>. SUFFICES ASSUME Init PROVE IInv
  OBVIOUS
<1>1. FB!TypeOK
  <2>1. /\ USB_Power \in BOOLEAN /\ was_USB_Power \in BOOLEAN
        /\ USB_Reset \in BOOLEAN /\ Init_CM \in BOOLEAN /\ fbMaskSent \in BOOLEAN
    BY DEF Init, FB!FBInit
  <2>2. FB!ChipTypeOK
    BY DEF Init, ChipReset, FB!ChipTypeOK, FB!Bits, Bits
  <2>. QED BY <2>1, <2>2, BoardAssumption
           DEF BoardAssumption, FB!FBAssumption, Init, FB!FBInit, FB!TypeOK
<1>2. Protocol!TypeOK
  <2>1. Len(channels) \in Nat
    BY BoardAssumption
       DEF BoardAssumption, Protocol!ProtocolAssumption, Init, Protocol!ProtocolInit
  <2>2. Protocol!ChipTypeOK
    BY DEF Init, ChipReset, Protocol!ChipTypeOK, Protocol!Bits, Bits
  <2>3. maskSent \in BOOLEAN
    BY DEF Init, Protocol!ProtocolInit
  <2>4. /\ channels \in Projects /\ command \in SUBSET Protocol!Named
        /\ step = "new" /\ pos \in 0 .. Len(channels) + 1
        /\ value \in SUBSET DOMAIN channels /\ mask \in SUBSET Protocol!Bits
        /\ faults \in 0 .. MaxFaults /\ restarts \in 0 .. MaxRestarts
    BY <2>1, BoardAssumption
       DEF BoardAssumption, Protocol!ProtocolAssumption, Init, Protocol!ProtocolInit
  <2>. QED BY <2>2, <2>3, <2>4 DEF Protocol!TypeOK
<1>3. OutputPass
  BY DEF Init, Protocol!ProtocolInit, OutputPass
<1>4. RegisterIsFBs
  <2>1. ~fbMaskSent
    BY DEF Init, FB!FBInit
  <2>. QED BY <2>1 DEF RegisterIsFBs
<1>5. FB!PulseBookkeeping
  <2>1. ~USB_Reset
    BY DEF Init, FB!FBInit
  <2>2. ~(USB_Counter > 0)
    BY DEF Init, FB!FBInit
  <2>. QED BY <2>1, <2>2, Zenon DEF FB!PulseBookkeeping
<1>. QED BY <1>1, <1>2, <1>3, <1>4, <1>5 DEF IInv, TypeOK

LEMMA Invariant == Spec => []IInv
<1>1. IInv /\ [Next]_vars => IInv'
  BY TypesKept, OutputPassStep, RegisterStep, BookkeepingStep DEF IInv
<1>. QED BY <1>1, InitHolds, PTL DEF Spec

\* Every variable of the two parts keeps its type, and in a project without an
\* output channel the outputs are the function block's inputs.
THEOREM BoardSafe == Spec => []BoardInvariant
<1>1. IInv => BoardInvariant
  <2>. SUFFICES ASSUME IInv, ~HasOutputChannel, fbStep = "idle", fbMaskSent,
                       directionReg = {}, NEW o \in FB!Outputs
       PROVE  FB!Lit(o) <=> o \in lampIn
    BY DEF IInv, BoardInvariant, DiagnosticsLeaveLampsAlone, FB!LampsShown
  <2>1. outputReg = FB!Mask(lampIn)
    BY DEF IInv, RegisterIsFBs
  <2>2. lampIn \in SUBSET F!Outputs /\ o \in F!Outputs
    BY DEF IInv, TypeOK, FB!TypeOK, FB!Outputs, F!Outputs
  <2>3. F!WiredTo(o) \notin F!Mask(lampIn) <=> o \in lampIn
    BY <2>2, F!MaskMatchesWiring, SameAssumptions
  <2>4. FB!WiredTo(o) = F!WiredTo(o) /\ FB!Mask(lampIn) = F!Mask(lampIn)
    BY DEF FB!WiredTo, F!WiredTo, FB!Mask, F!Mask, FB!Shift, F!Shift, FB!Bits, F!Bits
  <2>. QED BY <2>1, <2>3, <2>4 DEF FB!Lit
<1>. QED BY <1>1, Invariant, PTL

-----------------------------------------------------------------------------
\* The protocol drives the USB line only for a channel called USB_POWER.
LEMMA LineIsFBs ==
    ASSUME Protocol!ProtocolStep, ~HasUsbChannel
    PROVE  UNCHANGED usbLine
<1>1. ASSUME NEW readOk \in BOOLEAN, NEW gpioOk \in BOOLEAN,
             Protocol!Process(readOk, gpioOk)
      PROVE  UNCHANGED usbLine
  <2>1. ~Protocol!UsbChannel(Protocol!Current)
    BY <1>1 DEF HasUsbChannel, Protocol!Process, Protocol!InLoop, Protocol!UsbChannel,
                Protocol!Current
  <2>. QED BY <1>1, <2>1 DEF Protocol!Process
<1>. QED BY <1>1 DEF Protocol!ProtocolStep, Protocol!Execute, Protocol!InitProtocol,
                     Protocol!Enter, Protocol!Skip, Protocol!WriteMask, Protocol!Return,
                     Protocol!chipVars

\* A project without a USB_POWER channel keeps the one-shot of the function
\* block, however the two interleave.
THEOREM BoardKeepsPulse == Spec => PulseKept
<1>1. Init => FB!Pulse!PulseInit
  <2>. SUFFICES ASSUME Init PROVE FB!Pulse!PulseInit
    OBVIOUS
  <2>1. fbStep = "idle" /\ was_USB_Power = FALSE /\ USB_Reset = FALSE
    BY Zenon DEF Init, FB!FBInit
  <2>2. usbLine = 1 /\ fbFaults = 0
    BY DEF Init, ChipReset, FB!FBInit
  <2>. QED BY <2>1, <2>2, Zenon DEF FB!Pulse!PulseInit
<1>2. ASSUME IInv, [Next]_vars
      PROVE  [~HasUsbChannel => FB!Pulse!PulseNext]_(FB!Pulse!pulseVars)
  <2>1. ASSUME F!Next PROVE [FB!Pulse!PulseNext]_(FB!Pulse!pulseVars)
    <3>1. F!TypeOK /\ F!PulseBookkeeping
      BY <1>2, SameFBTypes DEF IInv, TypeOK, FB!PulseBookkeeping, F!PulseBookkeeping
    <3>2. [F!Pulse!PulseNext]_(F!Pulse!pulseVars)
      BY <2>1, <3>1, F!PulseStep, SameAssumptions
    <3>. QED BY <3>2, Zenon
         DEF F!Pulse!PulseNext, FB!Pulse!PulseNext, F!Pulse!Cycle, FB!Pulse!Cycle,
             F!Pulse!FailElsewhere, FB!Pulse!FailElsewhere, F!Pulse!Forget,
             FB!Pulse!Forget, F!Pulse!pulseVars, FB!Pulse!pulseVars
  <2>2. ASSUME UNCHANGED <<fbStep, USB_Power, was_USB_Power, USB_Reset, USB_Counter,
                           usbLine, fbFaults>>
        PROVE  UNCHANGED FB!Pulse!pulseVars
    BY <2>2, Zenon DEF FB!Pulse!pulseVars
  <2>3. CASE ProtocolTask
    BY <2>2, <2>3, ProtocolTaskStep, LineIsFBs DEF ProtocolTask
  <2>4. CASE Command
    BY <2>2, <2>4, CommandStep
  <2>5. CASE UNCHANGED vars
    BY <2>2, <2>5 DEF vars, chipVars, fbVars
  <2>. QED BY <1>2, <2>1, <2>3, <2>4, <2>5, FBTaskStep, RestartStep DEF Next
<1>. QED BY <1>1, <1>2, Invariant, PTL DEF Spec, PulseKept
=============================================================================
