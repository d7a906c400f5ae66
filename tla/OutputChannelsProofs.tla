------------------------ MODULE OutputChannelsProofs ------------------------
(***************************************************************************)
(* What holds of the output side of the protocol for every project in      *)
(* which a variable is bound to at most one channel, whatever byte the     *)
(* uninitialised mask holds and for any number of failures and restarts.   *)
(***************************************************************************)
EXTENDS OutputChannels, TLAPS

\* The bit the loop changes for an output is the bit the output is wired to,
\* and two outputs never share one (simple_test_protocol.cpp:282-300 against
\* README.md:86-89).
LEMMA BitsMatchWiring ==
    /\ \A o \in Outputs : WiredTo(o) \in Bits /\ BitFor(o) = {WiredTo(o)}
    /\ \A o \in Outputs, c \in Channel :
         WiredTo(o) \in BitFor(c) => o = c
    /\ \A c \in Channel : BitFor(c) \subseteq Bits
<1>1. \A o \in Outputs : WiredTo(o) \in 0 .. 7 /\ BitFor(o) = {WiredTo(o)}
  BY DEF Outputs, WiredTo, BitFor
<1>2. \A o, x \in Outputs : WiredTo(o) = WiredTo(x) => o = x
  BY DEF Outputs, WiredTo
<1>3. \A c \in Channel : c \in Outputs \/ BitFor(c) = {}
  BY DEF Channel, Named, Outputs, BitFor
<1> QED
  BY <1>1, <1>2, <1>3 DEF Bits

\* Two channels that share a bit are one channel.
LEMMA OwnBit ==
    ASSUME NEW p \in Projects, NEW j \in DOMAIN p, NEW k \in DOMAIN p,
           NEW b \in BitFor(p[j]), b \in BitFor(p[k])
    PROVE  j = k
<1>1. p[j] \in Channel /\ p[k] \in Channel
  BY ProtocolAssumption DEF ProtocolAssumption
<1>2. p[j] \in Outputs /\ p[k] \in Outputs
  BY <1>1 DEF Channel, Named, Outputs, BitFor
<1>3. p[j] = p[k]
  BY <1>1, <1>2, BitsMatchWiring
<1> QED
  BY <1>2, <1>3, ProtocolAssumption DEF ProtocolAssumption

-----------------------------------------------------------------------------
\* A process that has not called Init() yet has read and sent nothing.
Fresh == step = "new" => value = {} /\ ~maskSent

\* After an i2cset that worked the register is the mask, and while the next
\* channel is processed the two differ at most in that channel's bit.
RegisterIsMask ==
    maskSent =>
        /\ step \in {"idle", "loop"} => outputReg = mask
        /\ step = "write" => \A b \in Bits \ BitFor(Current) :
                                b \in outputReg <=> b \in mask

\* The inductive invariant: LampsShown and OneLampPerWrite follow from it, and
\* neither is inductive without the agreement of register and mask.
IInv == TypeOK /\ Fresh /\ MaskIsImage /\ RegisterIsMask

\* A step of the protocol, a command or a restart keeps every type.
LEMMA TypeStep ==
    ASSUME TypeOK, [Next]_vars
    PROVE  TypeOK'
<1>0. Len(channels) \in Nat /\ DOMAIN channels = 1 .. Len(channels)
  BY ProtocolAssumption DEF ProtocolAssumption, TypeOK
<1>1. ASSUME NEW k \in DOMAIN channels, Command(channels[k])
      PROVE  TypeOK'
  BY <1>1 DEF TypeOK, ChipTypeOK, Command, chipVars
<1>2. ASSUME NEW ok \in BOOLEAN, InitProtocol(ok)
      PROVE  TypeOK'
  BY <1>2, ProtocolAssumption
     DEF ProtocolAssumption, TypeOK, ChipTypeOK, InitProtocol, InitialMask,
         SetAllOutputs, Fallible
<1>3. CASE Enter
  BY <1>0, <1>3 DEF TypeOK, ChipTypeOK, Enter, chipVars
<1>4. CASE Skip
  BY <1>0, <1>4 DEF TypeOK, ChipTypeOK, Skip, InLoop, chipVars
<1>5. ASSUME NEW readOk \in BOOLEAN, NEW gpioOk \in BOOLEAN,
             Process(readOk, gpioOk)
      PROVE  TypeOK'
  <2>1. value' \in SUBSET DOMAIN channels
    BY <1>5 DEF TypeOK, Process, InLoop, ReadOutcomes
  <2>2. mask' \in SUBSET Bits
    BY <1>0, <1>5, BitsMatchWiring, ProtocolAssumption
       DEF ProtocolAssumption, TypeOK, Process, InLoop, NewMask, Current
  <2>3. usbLine' \in {0, 1}
    BY <1>5 DEF TypeOK, ChipTypeOK, Process, UsbLevel, SetUsbLine
  <2>4. faults' \in 0 .. MaxFaults
    BY <1>5, ProtocolAssumption DEF ProtocolAssumption, TypeOK, Process, Fallible
  <2>5. /\ channels' = channels /\ command' = command /\ pos' = pos
        /\ directionReg' = directionReg /\ outputReg' = outputReg
        /\ restarts' = restarts /\ maskSent' = maskSent
        /\ step' = "write" /\ pos \in DOMAIN channels
    BY <1>5 DEF Process, InLoop
  <2> QED
    BY <2>1, <2>2, <2>3, <2>4, <2>5 DEF TypeOK, ChipTypeOK
<1>6. ASSUME NEW ok \in BOOLEAN, WriteMask(ok)
      PROVE  TypeOK'
  BY <1>0, <1>6, ProtocolAssumption
     DEF ProtocolAssumption, TypeOK, ChipTypeOK, WriteMask, SendMask, SetOutputs,
         Fallible
<1>7. CASE Return
  BY <1>7 DEF TypeOK, ChipTypeOK, Return, chipVars
<1>8. ASSUME ProtocolForget, ChipTypeOK' PROVE TypeOK'
  <2>1. maskSent' \in BOOLEAN
    BY <1>8 DEF ProtocolForget
  <2>2. /\ channels' = channels /\ command' = command /\ faults' = faults
        /\ step' = "new" /\ pos' = 0 /\ value' = {}
        /\ mask' \in SUBSET Bits
        /\ restarts' \in 0 .. MaxRestarts
    BY <1>8, ProtocolAssumption DEF ProtocolAssumption, ProtocolForget, TypeOK
  <2> QED
    BY <1>0, <1>8, <2>1, <2>2 DEF TypeOK
<1>9. CASE ProcessRestart
  BY <1>8, <1>9 DEF ProcessRestart, chipVars, TypeOK, ChipTypeOK
<1>10. CASE Reboot
  BY <1>8, <1>10 DEF Reboot, PowerCycle, ChipTypeOK
<1>11. CASE UNCHANGED vars
  BY <1>11 DEF vars, chipVars, protocolVars, TypeOK, ChipTypeOK
<1> QED
  BY <1>1, <1>2, <1>3, <1>4, <1>5, <1>6, <1>7, <1>9, <1>10, <1>11
     DEF Next, ProtocolStep, Execute

\* Every variable keeps its type.
THEOREM TypeCorrect == Spec => []TypeOK
<1>1. Init => TypeOK
  <2> SUFFICES ASSUME Init PROVE TypeOK
    OBVIOUS
  <2>1. Len(channels) \in Nat
    BY ProtocolAssumption DEF ProtocolAssumption, Init, ProtocolInit
  <2>2. /\ ChipTypeOK
        /\ channels \in Projects
        /\ command \in SUBSET Named
        /\ step \in {"new", "idle", "loop", "write"}
        /\ step # "write"
        /\ pos \in 0 .. Len(channels) + 1
        /\ value \in SUBSET DOMAIN channels
        /\ mask \in SUBSET Bits
        /\ faults \in 0 .. MaxFaults
        /\ restarts \in 0 .. MaxRestarts
    BY <2>1, ProtocolAssumption
       DEF ProtocolAssumption, Init, ChipReset, ProtocolInit, ChipTypeOK
  <2>3. maskSent \in BOOLEAN
    BY DEF Init, ProtocolInit
  <2> QED
    BY <2>2, <2>3 DEF TypeOK
<1>2. TypeOK /\ [Next]_vars => TypeOK'
  BY TypeStep
<1> QED
  BY <1>1, <1>2, PTL DEF Spec

-----------------------------------------------------------------------------
\* The active-low image of the channels in S.
Image(p, S) == Bits \ UNION {BitFor(p[k]) : k \in S}

\* One channel at a time, the mask stays the image of what was read.
LEMMA ImageStep ==
    ASSUME NEW p \in Projects, NEW i \in DOMAIN p,
           NEW before \in SUBSET DOMAIN p, NEW after \in SUBSET DOMAIN p,
           after \in {before \cup {i}, before \ {i}},
           NEW m, m = Image(p, before)
    PROVE  (IF i \in after THEN m \ BitFor(p[i]) ELSE m \cup BitFor(p[i]))
             = Image(p, after)
<1>1. BitFor(p[i]) \subseteq Bits
  BY BitsMatchWiring, ProtocolAssumption DEF ProtocolAssumption
<1>2. CASE i \in after
  <2>1. after = before \cup {i}
    BY <1>2
  <2> QED
    BY <1>2, <2>1 DEF Image
<1>3. CASE i \notin after
  <2>1. \A k \in DOMAIN p : k # i => BitFor(p[k]) \cap BitFor(p[i]) = {}
    BY OwnBit
  <2>2. after = before \ {i}
    BY <1>3
  <2> QED
    BY <1>1, <1>3, <2>1, <2>2 DEF Image
<1> QED
  BY <1>2, <1>3

LEMMA MaskIsImageStep ==
    ASSUME TypeOK, Fresh, MaskIsImage, [Next]_vars
    PROVE  MaskIsImage'
<1>1. ASSUME UNCHANGED <<channels, mask, value>>, step # "new"
      PROVE  MaskIsImage'
  BY <1>1 DEF MaskIsImage
<1>2. ASSUME NEW ok \in BOOLEAN, InitProtocol(ok)
      PROVE  MaskIsImage'
  BY <1>2 DEF InitProtocol, InitialMask, Fresh, MaskIsImage
<1>3. ASSUME NEW readOk \in BOOLEAN, NEW gpioOk \in BOOLEAN,
             Process(readOk, gpioOk)
      PROVE  MaskIsImage'
  <2>1. /\ channels' = channels /\ channels \in Projects
        /\ pos \in DOMAIN channels
        /\ value \in SUBSET DOMAIN channels
        /\ step # "new"
    BY <1>3 DEF TypeOK, Process, InLoop
  <2>2. value' \in SUBSET DOMAIN channels
    BY <1>3, <2>1 DEF Process, ReadOutcomes
  <2>3. value' \in {value \cup {pos}, value \ {pos}}
    BY <1>3 DEF Process, ReadOutcomes
  <2>4. mask = Image(channels, value)
    BY <2>1 DEF MaskIsImage, Image
  <2>5. mask' = IF pos \in value' THEN mask \ BitFor(channels[pos])
                                  ELSE mask \cup BitFor(channels[pos])
    BY <1>3 DEF Process, NewMask, Current
  <2>6. mask' = Image(channels, value')
    BY <2>1, <2>2, <2>3, <2>4, <2>5, ImageStep
  <2> QED
    BY <2>1, <2>6 DEF MaskIsImage, Image
<1>4. CASE ProtocolForget
  BY <1>4 DEF ProtocolForget, MaskIsImage
<1>5. CASE UNCHANGED vars
  BY <1>5 DEF vars, protocolVars, MaskIsImage
<1>6. ASSUME NEW k \in DOMAIN channels, Command(channels[k])
      PROVE  MaskIsImage'
  BY <1>6 DEF Command, MaskIsImage
<1> QED
  BY <1>1, <1>2, <1>3, <1>4, <1>5, <1>6
     DEF Next, ProtocolStep, Execute, Enter, Skip, InLoop, WriteMask, Return,
         ProcessRestart, Reboot

LEMMA FreshStep ==
    ASSUME TypeOK, Fresh, [Next]_vars
    PROVE  Fresh'
<1>1. ASSUME step' # "new" PROVE Fresh'
  BY <1>1 DEF Fresh
<1>2. CASE ProtocolForget
  <2>1. value' = {}
    BY <1>2 DEF ProtocolForget
  <2>2. ~maskSent'
    BY <1>2 DEF ProtocolForget
  <2> QED
    BY <2>1, <2>2 DEF Fresh
<1>3. ASSUME UNCHANGED <<step, value, maskSent>> PROVE Fresh'
  BY <1>3 DEF Fresh
<1> QED
  BY <1>1, <1>2, <1>3
     DEF Next, ProtocolStep, Execute, Command, InitProtocol, Enter, Skip, InLoop,
         Process, WriteMask, Return, ProcessRestart, Reboot, vars, protocolVars

LEMMA RegisterStep ==
    ASSUME TypeOK, Fresh, RegisterIsMask, [Next]_vars
    PROVE  RegisterIsMask'
<1>1. ASSUME ~maskSent' PROVE RegisterIsMask'
  BY <1>1 DEF RegisterIsMask
<1>2. ASSUME NEW ok \in BOOLEAN, InitProtocol(ok)
      PROVE  RegisterIsMask'
  BY <1>1, <1>2 DEF InitProtocol, Fresh
<1>3. ASSUME step \in {"idle", "loop"}, step' \in {"idle", "loop"},
             UNCHANGED <<outputReg, mask, maskSent>>
      PROVE  RegisterIsMask'
  BY <1>3 DEF RegisterIsMask
<1>4. ASSUME NEW readOk \in BOOLEAN, NEW gpioOk \in BOOLEAN,
             Process(readOk, gpioOk)
      PROVE  RegisterIsMask'
  <2>1. /\ step = "loop" /\ step' = "write" /\ Current' = Current
        /\ outputReg' = outputReg /\ (maskSent' <=> maskSent)
    BY <1>4 DEF Process, InLoop, Current
  <2>2. maskSent => outputReg = mask
    BY <2>1 DEF RegisterIsMask
  <2>3. \A b \in Bits \ BitFor(Current) : b \in mask <=> b \in mask'
    BY <1>4 DEF Process, NewMask
  <2> QED
    BY <2>1, <2>2, <2>3 DEF RegisterIsMask
<1>5. ASSUME NEW ok \in BOOLEAN, WriteMask(ok)
      PROVE  RegisterIsMask'
  <2>1. step' = "loop" /\ (maskSent' <=> ok) /\ mask' = mask
    BY <1>5 DEF WriteMask
  <2>2. ok => outputReg' = mask
    BY <1>5 DEF WriteMask, SendMask, SetOutputs
  <2> QED
    BY <2>1, <2>2 DEF RegisterIsMask
<1>6. ASSUME NEW k \in DOMAIN channels, Command(channels[k])
      PROVE  RegisterIsMask'
  BY <1>6 DEF Command, chipVars, RegisterIsMask, Current
<1>7. CASE ProtocolForget
  BY <1>1, <1>7 DEF ProtocolForget
<1>8. CASE UNCHANGED vars
  BY <1>8 DEF vars, chipVars, protocolVars, RegisterIsMask, Current
<1> QED
  BY <1>2, <1>3, <1>4, <1>5, <1>6, <1>7, <1>8
     DEF Next, ProtocolStep, Execute, Enter, Skip, InLoop, Return, chipVars,
         ProcessRestart, Reboot

LEMMA Invariant == Spec => []IInv
<1>1. Init => Fresh /\ MaskIsImage /\ RegisterIsMask
  <2>1. Init => step = "new" /\ value = {}
    BY DEF Init, ProtocolInit
  <2>2. Init => ~maskSent
    BY DEF Init, ProtocolInit
  <2> QED
    BY <2>1, <2>2, Zenon DEF Fresh, MaskIsImage, RegisterIsMask
<1>2. TypeOK /\ Fresh /\ MaskIsImage /\ RegisterIsMask /\ [Next]_vars
        => Fresh' /\ MaskIsImage' /\ RegisterIsMask'
  BY FreshStep, MaskIsImageStep, RegisterStep
<1> QED
  BY <1>1, <1>2, TypeCorrect, PTL DEF Spec, IInv

\* Every variable keeps its type and, from Init() on, the mask is the image of
\* what the channels read last.
THEOREM MaskNeverDrifts == Spec => []MaskInvariant
BY Invariant, PTL DEF IInv, MaskInvariant

\* Between two passes, after an i2cset that worked, the energised outputs are
\* those of the channels that read "true".
THEOREM LampsAreChannels == Spec => []LampsShown
<1>1. IInv => LampsShown
  <2> SUFFICES ASSUME IInv, step \in {"idle", "loop"}, maskSent, directionReg = {},
                      NEW o \in Outputs
               PROVE  Lit(o) <=> \E k \in value : channels[k] = o
    BY DEF LampsShown
  <2>1. outputReg = Bits \ UNION {BitFor(channels[k]) : k \in value}
    BY DEF IInv, RegisterIsMask, MaskIsImage
  <2>2. Lit(o) <=> \E k \in value : WiredTo(o) \in BitFor(channels[k])
    BY <2>1, BitsMatchWiring DEF Lit
  <2>3. \A k \in value : channels[k] \in Channel
    BY ProtocolAssumption DEF ProtocolAssumption, IInv, TypeOK
  <2>4. \A k \in value : WiredTo(o) \in BitFor(channels[k]) <=> channels[k] = o
    BY <2>3, BitsMatchWiring
  <2> QED
    BY <2>2, <2>4
<1> QED
  BY <1>1, Invariant, PTL

\* An i2cset that follows one that worked changes no output but that of the
\* channel being processed.
THEOREM WritesOneLamp == Spec => OneLampPerWrite
<1>1. IInv /\ [Next]_vars
        => [step = "write" /\ step' = "loop" /\ maskSent
              => \A o \in Outputs : Lit(o)' # Lit(o) => o = Current]_vars
  <2> SUFFICES ASSUME IInv, [Next]_vars, step = "write", step' = "loop", maskSent,
                      NEW o \in Outputs, o # Current
               PROVE  Lit(o)' = Lit(o)
    OBVIOUS
  <2>1. PICK ok \in BOOLEAN : WriteMask(ok)
    BY DEF Next, ProtocolStep, Execute, Command, InitProtocol, Enter, Skip, InLoop,
           Process, Return, ProcessRestart, Reboot, ProtocolForget, vars, protocolVars
  <2>2. WiredTo(o) \in Bits \ BitFor(Current)
    <3>1. Current \in Channel
      BY ProtocolAssumption DEF ProtocolAssumption, IInv, TypeOK, Current
    <3> QED
      BY <3>1, BitsMatchWiring
  <2>3. WiredTo(o) \in outputReg <=> WiredTo(o) \in mask
    BY <2>2 DEF IInv, RegisterIsMask
  <2>4. outputReg' \in {outputReg, mask} /\ directionReg' = directionReg
    BY <2>1 DEF WriteMask, SendMask, SetOutputs
  <2>5. WiredTo(o) \in outputReg' <=> WiredTo(o) \in outputReg
    BY <2>3, <2>4
  <2> QED
    BY <2>4, <2>5, Zenon DEF Lit
<1> QED
  BY <1>1, Invariant, PTL DEF Spec, OneLampPerWrite

=============================================================================
