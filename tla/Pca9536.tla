------------------------------ MODULE Pca9536 ------------------------------
(***************************************************************************)
(* The hardware of the SA-02m that the two plug-ins drive: the PCA9536     *)
(* GPIO expander on I2C bus 2, address 0x41, and line 268 of gpiochip 0,   *)
(* which switches the USB supply.  Neither is under src/; both are         *)
(* modelled from the shell commands the plug-ins run (i2cset, gpioset),    *)
(* each of which may fail without the plug-in noticing: the result of      *)
(* system() is dropped everywhere.                                         *)
(*                                                                         *)
(* A byte is the set of its bits that are 1: 0xFF is Bits, 0x00 is {}.     *)
(***************************************************************************)
EXTENDS Naturals, FiniteSets

VARIABLES
    directionReg,   \* register 0x03: the bits that are inputs
    outputReg,      \* register 0x01: the bits latched high
    usbLine         \* level of line 268: 0 or 1

chipVars == <<directionReg, outputReg, usbLine>>

Bits == 0 .. 7

Outputs == {"RED_LED", "DOUT", "BUZZER", "BLUE_LED"}

\* The wiring of the four outputs (README.md, "Аппаратная модель").
WiredTo(o) ==
    IF o = "RED_LED" THEN 0
    ELSE IF o = "DOUT" THEN 1
    ELSE IF o = "BUZZER" THEN 2
    ELSE 3

\* An output is energised when its pin is driven and driven low.
Lit(o) == WiredTo(o) \notin directionReg /\ WiredTo(o) \notin outputReg

ChipTypeOK ==
    /\ directionReg \in SUBSET Bits
    /\ outputReg \in SUBSET Bits
    /\ usbLine \in {0, 1}

\* Power-on defaults of the expander: all pins inputs, all latches high.
ChipReset ==
    /\ directionReg = Bits
    /\ outputReg = Bits
    /\ usbLine = 1

PowerCycle ==
    /\ directionReg' = Bits
    /\ outputReg' = Bits
    /\ usbLine' = 1

\* i2cset -y 2 0x41 0x03 0x00
SetAllOutputs(ok) == directionReg' = IF ok THEN {} ELSE directionReg

\* i2cset -y 2 0x41 0x01 <mask>
SetOutputs(mask, ok) == outputReg' = IF ok THEN mask ELSE outputReg

\* gpioset 0 268=<level>
SetUsbLine(level, ok) == usbLine' = IF ok THEN level ELSE usbLine

=============================================================================
