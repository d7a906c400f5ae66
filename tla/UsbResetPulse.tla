--------------------------- MODULE UsbResetPulse ---------------------------
(***************************************************************************)
(* What the function block promises about the USB supply: a retriggerable  *)
(* one-shot.  A request that rises cuts the supply in that cycle and in    *)
(* the ResetCycles - 1 cycles after it, unless it rises again in between,  *)
(* which starts the count afresh; in every other cycle the supply is on.   *)
(* A request that falls, or stays high, changes nothing.  Every cycle sets *)
(* the line, unless a command fails in it: then the line is as it was.     *)
(***************************************************************************)
EXTENDS Naturals

CONSTANT ResetCycles        \* length of the pulse, in Execute() cycles

VARIABLES
    request,    \* the request the last cycle saw
    remaining,  \* cycles the supply is still to be cut, the last one included
    line,       \* level of the supply line
    failures    \* commands that have failed, on the line or elsewhere

pulseVars == <<request, remaining, line, failures>>

PulseInit ==
    /\ request = FALSE
    /\ remaining = 0
    /\ line = 1
    /\ failures = 0

Cycle(level) ==
    /\ request' = level
    /\ remaining' =
         IF level /\ ~request THEN ResetCycles
         ELSE IF remaining > 0 THEN remaining - 1 ELSE 0
    /\ \/ failures' = failures /\ line' = IF remaining' > 0 THEN 0 ELSE 1
       \/ failures' = failures + 1 /\ line' = line

\* A command that is not about the line fails.
FailElsewhere ==
    /\ failures' = failures + 1
    /\ UNCHANGED <<request, remaining, line>>

\* The process is restarted: the request is forgotten and the pulse with it,
\* the line keeps its level, or comes back high when the unit was rebooted.
Forget ==
    /\ request' = FALSE
    /\ remaining' = 0
    /\ line' \in {line, 1}
    /\ UNCHANGED failures

PulseNext == (\E level \in BOOLEAN : Cycle(level)) \/ FailElsewhere \/ Forget

PulseSpec == PulseInit /\ [][PulseNext]_pulseVars

=============================================================================
