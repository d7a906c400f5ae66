---------------------------- MODULE Conversions ----------------------------
(***************************************************************************)
(* The numbers of the diagnostic channels: how the text of a command       *)
(* becomes the 16-bit value that is published.  A decimal fraction is an   *)
(* integer count of the smallest unit the command prints: thousandths for  *)
(* sensors, seconds for /proc/uptime, megabytes for df -m.                 *)
(* A text that is no number converts to 0 everywhere.                      *)
(*                                                                         *)
(* The specification at the end is one source read again and again while   *)
(* it grows; its readings are the inputs the conversions are checked on.   *)
(***************************************************************************)
EXTENDS Integers

CONSTANT Samples       \* the values a source may take

ASSUME SamplesAssumption == Samples \subseteq Int

Int16Min == -32768
Int16Max == 32767

\* Seeded fault: an unclamped conversion keeps the low 16 bits.
Truncate(x) == ((x - Int16Min) % 65536) + Int16Min

clamp_to_int16(x) ==
    IF x < Int16Min THEN Int16Min ELSE IF x > Int16Max THEN Int16Max ELSE x

\* Seeded fault: floor(x + 0.5), which rounds -0.5 up.
HalfUp(n) == (n + 500) \div 1000

\* std::round of n thousandths: half away from zero.
Round(n) ==
    IF n >= 0 THEN (n + 500) \div 1000 ELSE -((-n + 500) \div 1000)

\* std::stof of an integer n in 0 .. 2^25: from 2^24 on a float has room for the
\* even integers only, and takes the one of the two neighbours that is a
\* multiple of four.
Float(n) ==
    IF n < 16777216 \/ n % 2 = 0 THEN n ELSE IF n % 4 = 3 THEN n + 1 ELSE n - 1

Binades == {1, 2, 4, 8, 16, 32, 64, 128, 256, 512, 1024, 2048, 4096, 8192,
            16384, 32768}

\* The binade of k: half a unit in the last place there is Binade(k) / 2^24.
Binade(k) ==
    LET Reached == {b \in Binades : b <= k \/ b = 1}
    IN  CHOOSE b \in Reached : \A c \in Reached : c <= b

\* 0.001f is (1 + 51 / 2^30) / 1000, and the product is rounded to a float once
\* more: it is a half or more from so many thousandths below the half on.
Carry(n) == ((51 * n) \div 2 + 32000 * Binade(n \div 1000)) \div 536870912

\* std::stof(n) * 0.001f, in thousandths, as far as Round() can tell.
Product(n) ==
    IF n >= 0 THEN Float(n) + Carry(Float(n)) ELSE -(Float(-n) + Carry(Float(-n)))

Scales == {"one", "thousandth"}

\* to_int16(): of the text of n / 1000 scaled by 1.0f, or of the text of n scaled
\* by 0.001f.  Up to the range's end a float of thousandths is on the side of
\* the half that the text is on.
to_int16(n, scale) ==
    IF n >= 32768000 THEN Int16Max
    ELSE IF n <= -32768000 THEN Int16Min
    ELSE clamp_to_int16(Round(IF scale = "thousandth" THEN Product(n) ELSE n))

\* Seeded fault: the conversion README.md says was replaced, round(seconds / 3600).
RoundedHours(s) == IF s <= 0 THEN 0 ELSE clamp_to_int16((s + 1800) \div 3600)

\* Of s full seconds; a fraction of a second never completes an hour.
uptime_seconds_to_hours(s) == IF s <= 0 THEN 0 ELSE clamp_to_int16(s \div 3600)

\* The table of round_to_power_of_two().
Sizes == {1, 2, 4, 8, 16, 32, 64, 128, 256, 512, 1024, 2048, 4096}

\* Seeded fault: the search stops at the nearest size instead of the next one.
NearestSize(mb) ==
    LET Fit == {s \in Sizes : 3 * s * 512 >= mb}
    IN  IF mb <= 0 THEN 0
        ELSE IF mb < 1024 THEN 1
        ELSE IF Fit = {} THEN 4096
        ELSE CHOOSE s \in Fit : \A t \in Fit : s <= t

\* Of mb megabytes, in gigabytes.
round_to_power_of_two(mb) ==
    LET Fit == {s \in Sizes : s * 1024 >= mb}
    IN  IF mb <= 0 THEN 0
        ELSE IF mb < 1024 THEN 1
        ELSE IF Fit = {} THEN 4096
        ELSE CHOOSE s \in Fit : \A t \in Fit : s <= t

\* USB_FLASH_USED and SD_CARD_USED, of mb megabytes.
Used(mb) == clamp_to_int16(mb)

-----------------------------------------------------------------------------
VARIABLE raw

ReadInit == raw \in Samples

Read == \E r \in Samples : r > raw /\ raw' = r

ReadSpec == ReadInit /\ [][Read]_raw

-----------------------------------------------------------------------------
\* UPTIME counts full hours: never one that has not passed, and every one that
\* has, up to the largest 16-bit value (simple_test_protocol.cpp:46-57).
UptimeFullHours ==
    LET h == uptime_seconds_to_hours(raw)
    IN  /\ h \in 0 .. Int16Max
        /\ raw >= 0 => h * 3600 <= raw
        /\ h < Int16Max => raw < (h + 1) * 3600

\* The floats of a scaled reading are exact up to here, and for how much they may
\* be to blame beyond, in half thousandths.
ExactUpTo == 10000000

Slack(n, scale) ==
    IF scale = "thousandth" /\ (n > ExactUpTo \/ n < -ExactUpTo) THEN 4 ELSE 0

\* A sensor is off by half a unit at most, or at the end of the range it
\* overran, and a reading and its negation never differ but in sign, as long as
\* neither is clamped.  Scaled by 0.001f, which is a little more than a
\* thousandth, that is so up to ten million; above, the text and the product
\* are rounded to floats, and two thousandths below a half already round up
\* (simple_test_protocol.cpp:28-44, 163).
SensorNearest ==
    \A scale \in Scales :
        LET v == to_int16(raw, scale)
        IN  /\ v \in Int16Min .. Int16Max
            /\ v < Int16Max => 2 * raw <= 2000 * v + 1000 + Slack(raw, scale)
            /\ v > Int16Min => 2 * raw >= 2000 * v - 1000 - Slack(raw, scale)
            /\ v > -Int16Max /\ v < Int16Max => to_int16(-raw, scale) = -v

\* The size of a medium is shown as the smallest standard size that holds it,
\* or as the largest there is (simple_test_protocol.cpp:60-78).
SizeHolds ==
    LET s == round_to_power_of_two(raw)
    IN  /\ raw <= 0 <=> s = 0
        /\ raw > 0 => s \in Sizes
        /\ raw <= 4096 * 1024 => raw <= s * 1024
        /\ s > 1 => (s \div 2) * 1024 < raw

\* The size shown holds the medium, and a medium is never shown with more
\* megabytes used than the gigabytes of its size hold, however the two,
\* converted apart, saturate (simple_test_protocol.cpp:216-229).
UsedFitsSize == SizeHolds /\
    \A used \in Samples :
        used \in 0 .. raw => Used(used) <= 1024 * round_to_power_of_two(raw)

\* No conversion turns growth into decline: a counter that grows is never seen
\* to wrap or fall back (README.md:44).
NeverDeclines ==
    [][/\ uptime_seconds_to_hours(raw') >= uptime_seconds_to_hours(raw)
       /\ \A scale \in Scales : to_int16(raw', scale) >= to_int16(raw, scale)
       /\ round_to_power_of_two(raw') >= round_to_power_of_two(raw)]_raw

\* What the comment above round_to_power_of_two() says it returns: the nearest
\* power of two (simple_test_protocol.cpp:59).  The code returns the next one.
SizeNearest ==
    LET Distance(s) == IF s * 1024 >= raw THEN s * 1024 - raw ELSE raw - s * 1024
    IN  raw > 0 => \A s \in Sizes : Distance(round_to_power_of_two(raw)) <= Distance(s)

=============================================================================
