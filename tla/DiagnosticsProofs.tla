------------------------- MODULE DiagnosticsProofs -------------------------
(***************************************************************************)
(* The input side of the protocol.  Its conversions meet their reference   *)
(* definitions on every integer; and for every set of instances, every set *)
(* of channel vectors and every number of failures a call publishes only   *)
(* from caches it refreshed itself, and the channels of one device agree,  *)
(* however the unit changes in the meantime.                               *)
(***************************************************************************)
EXTENDS DiagnosticChannels, Conversions, TLAPS

-----------------------------------------------------------------------------
(* The conversions.                                                        *)

\* A source reads integers.
THEOREM SamplesOnly == ReadSpec => [](raw \in Samples)
<1>1. ReadInit => raw \in Samples
  BY DEF ReadInit
<1>2. raw \in Samples /\ [Read]_raw => (raw \in Samples)'
  BY DEF Read
<1> QED
  BY <1>1, <1>2, PTL DEF ReadSpec

LEMMA Invariance == ReadSpec => [](raw \in Int)
<1>1. raw \in Samples => raw \in Int
  BY SamplesAssumption DEF SamplesAssumption
<1> QED
  BY <1>1, SamplesOnly, PTL

\* Division by a positive constant, as the conversions use it.
LEMMA DivHours ==
    ASSUME NEW s \in Nat
    PROVE  /\ s \div 3600 \in Nat
           /\ (s \div 3600) * 3600 <= s
           /\ s < (s \div 3600 + 1) * 3600
BY Z3

LEMMA DivThousand ==
    ASSUME NEW n \in Nat
    PROVE  /\ n \div 1000 \in Nat
           /\ (n \div 1000) * 1000 <= n
           /\ n < (n \div 1000 + 1) * 1000
BY Z3

\* UPTIME counts full hours up to the largest 16-bit value.
THEOREM HoursAreFull == ReadSpec => []UptimeFullHours
<1>1. ASSUME raw \in Int PROVE UptimeFullHours
  <2>1. CASE raw <= 0
    BY <1>1, <2>1 DEF UptimeFullHours, uptime_seconds_to_hours, Int16Max
  <2>2. CASE raw > 0
    <3>1. PICK q \in Nat : q = raw \div 3600
      BY <1>1, <2>2, DivHours
    <3>2. q * 3600 <= raw /\ raw < (q + 1) * 3600
      BY <1>1, <2>2, <3>1, DivHours
    <3>3. CASE q > 32767
      <4>1. uptime_seconds_to_hours(raw) = 32767
        BY <1>1, <2>2, <3>1, <3>3
           DEF uptime_seconds_to_hours, clamp_to_int16, Int16Min, Int16Max
      <4> QED
        BY <1>1, <3>2, <3>3, <4>1 DEF UptimeFullHours, Int16Max
    <3>4. CASE q <= 32767
      <4>1. uptime_seconds_to_hours(raw) = q
        BY <1>1, <2>2, <3>1, <3>4
           DEF uptime_seconds_to_hours, clamp_to_int16, Int16Min, Int16Max
      <4>2. q \in 0 .. 32767
        BY <1>1, <3>1, <3>4
      <4> QED
        BY <1>1, <3>2, <4>1, <4>2 DEF UptimeFullHours, Int16Max
    <3> QED
      BY <3>3, <3>4
  <2> QED
    BY <1>1, <2>1, <2>2
<1> QED
  BY <1>1, Invariance, PTL

LEMMA InRange ==
    \A v \in Int : v \in Int16Min .. Int16Max <=> v >= -32768 /\ v <= 32767
<1>. SUFFICES ASSUME NEW v \in Int
              PROVE  v \in Int16Min .. Int16Max <=> v >= -32768 /\ v <= 32767
  OBVIOUS
<1>1. Int16Min \in Int /\ Int16Max \in Int
  BY DEF Int16Min, Int16Max
<1>2. v >= Int16Min /\ v <= Int16Max <=> v >= -32768 /\ v <= 32767
  BY DEF Int16Min, Int16Max
<1>3. v \in Int16Min .. Int16Max <=> v >= Int16Min /\ v <= Int16Max
  BY <1>1
<1>. QED BY <1>2, <1>3

\* What the floats of a scaled sensor do to its reading.
LEMMA FloatGrows ==
    ASSUME NEW x \in Nat, NEW y \in Nat, x <= y
    PROVE  /\ Float(x) \in Nat /\ Float(y) \in Nat
           /\ Float(x) <= Float(y)
           /\ Float(x) >= x - 1 /\ Float(x) <= x + 1
           /\ x < 16777216 => Float(x) = x
           /\ x < 32768000 => Float(x) <= 32768000
<1>1. \A n \in Nat : /\ n < 16777216 => Float(n) = n
                     /\ n >= 16777216 /\ n % 2 = 0 => Float(n) = n
                     /\ n >= 16777216 /\ n % 2 # 0 =>
                          Float(n) = n - 1 \/ Float(n) = n + 1
  BY SMTT(30) DEF Float
<1>2. \A n \in Nat : n % 2 = 0 \/ (n % 2 # 0 /\ (n + 1) % 2 = 0)
  BY Z3
<1>3. x < y /\ x % 2 # 0 /\ y % 2 # 0 => x + 2 <= y
  BY <1>2, SMTT(30)
<1>4. Float(x) <= Float(y)
  <2>1. CASE x = y
    BY <1>1, <1>2, <2>1, SMTT(30)
  <2>2. CASE x < y
    BY <1>1, <1>2, <1>3, <2>2, SMTT(30)
  <2>. QED BY <2>1, <2>2, SMTT(30)
<1>5. Float(x) \in Nat /\ Float(y) \in Nat
  BY <1>1, <1>2, SMTT(30)
<1>6. x < 32768000 => Float(x) <= 32768000
  BY <1>1, <1>2, SMTT(30)
<1>7. /\ Float(x) >= x - 1 /\ Float(x) <= x + 1
      /\ x < 16777216 => Float(x) = x
  BY <1>1, <1>2, SMTT(30)
<1>. QED BY <1>4, <1>5, <1>6, <1>7, SMTT(30)

LEMMA BinadeIs ==
    ASSUME NEW k \in Nat
    PROVE  /\ Binade(k) \in Binades
           /\ Binade(k) <= k \/ Binade(k) = 1
           /\ \A c \in Binades : c <= k => c <= Binade(k)
<1>. DEFINE Reached == {b \in Binades : b <= k \/ b = 1}
<1>1. \E b \in Reached : \A c \in Reached : c <= b
  <2>1. \A b \in Binades : b \in Int /\ b >= 1
    BY DEF Binades
  <2>2. CASE k < 16
    <3>1. CASE k < 2
      BY <3>1 DEF Binades
    <3>2. CASE k \in 2 .. 3
      BY <3>2 DEF Binades
    <3>3. CASE k \in 4 .. 7
      BY <3>3 DEF Binades
    <3>4. CASE k \in 8 .. 15
      BY <3>4 DEF Binades
    <3>. QED BY <2>2, <3>1, <3>2, <3>3, <3>4
  <2>3. CASE k \in 16 .. 255
    <3>1. CASE k \in 16 .. 31
      BY <3>1 DEF Binades
    <3>2. CASE k \in 32 .. 63
      BY <3>2 DEF Binades
    <3>3. CASE k \in 64 .. 127
      BY <3>3 DEF Binades
    <3>4. CASE k \in 128 .. 255
      BY <3>4 DEF Binades
    <3>. QED BY <2>3, <3>1, <3>2, <3>3, <3>4
  <2>4. CASE k \in 256 .. 4095
    <3>1. CASE k \in 256 .. 511
      BY <3>1 DEF Binades
    <3>2. CASE k \in 512 .. 1023
      BY <3>2 DEF Binades
    <3>3. CASE k \in 1024 .. 2047
      BY <3>3 DEF Binades
    <3>4. CASE k \in 2048 .. 4095
      BY <3>4 DEF Binades
    <3>. QED BY <2>4, <3>1, <3>2, <3>3, <3>4
  <2>5. CASE k >= 4096
    <3>1. CASE k \in 4096 .. 8191
      BY <3>1 DEF Binades
    <3>2. CASE k \in 8192 .. 16383
      BY <3>2 DEF Binades
    <3>3. CASE k \in 16384 .. 32767
      BY <3>3 DEF Binades
    <3>4. CASE k >= 32768
      BY <3>4 DEF Binades
    <3>. QED BY <2>5, <3>1, <3>2, <3>3, <3>4
  <2>. QED BY <2>2, <2>3, <2>4, <2>5
<1>2. Binade(k) = CHOOSE b \in Reached : \A c \in Reached : c <= b
  BY DEF Binade
<1>3. Binade(k) \in Reached /\ \A c \in Reached : c <= Binade(k)
  <2>. HIDE DEF Reached
  <2>. QED BY <1>1, <1>2
<1>. QED BY <1>3

LEMMA CarryGrows ==
    ASSUME NEW x \in Nat, NEW y \in Nat, x <= y, y <= 32768000
    PROVE  /\ Carry(x) \in 0 .. 3 /\ Carry(y) \in 0 .. 3
           /\ Carry(x) <= Carry(y)
           /\ y <= 16777216 => Carry(y) <= 2
           /\ y <= 10000000 => Carry(y) = 0
<1>. DEFINE Part(n) == (51 * n) \div 2 + 32000 * Binade(n \div 1000)
<1>1. \A m \in Nat, n \in Nat : m <= n => m \div 1000 <= n \div 1000
  BY DivThousand, SMTT(30)
<1>2. \A n \in Nat : n \div 1000 \in Nat
  BY DivThousand, SMTT(30)
<1>3. \A b \in Binades : b \in Nat /\ b >= 1 /\ b <= 32768
                         /\ (b <= 10000 => b <= 8192)
                         /\ (b <= 16777 => b <= 16384)
  BY SMTT(30) DEF Binades
<1>4. Binade(x \div 1000) <= Binade(y \div 1000)
  <2>1. x \div 1000 \in Nat /\ y \div 1000 \in Nat /\ x \div 1000 <= y \div 1000
    BY <1>1, <1>2, SMTT(30)
  <2>. QED BY <1>3, <2>1, BinadeIs, SMTT(30)
<1>5. Binade(x \div 1000) \in Binades /\ Binade(y \div 1000) \in Binades
  BY <1>2, BinadeIs, SMTT(30)
<1>6. /\ y <= 10000000 => Binade(y \div 1000) <= 8192
      /\ y <= 16777216 => Binade(y \div 1000) <= 16384
  <2>1. /\ y <= 10000000 => y \div 1000 <= 10000
        /\ y <= 16777216 => y \div 1000 <= 16777
    BY DivThousand, SMTT(30)
  <2>. QED BY <1>2, <1>3, <1>5, <2>1, BinadeIs, SMTT(30)
<1>7. \A m \in Nat, n \in Nat : m <= n => /\ m \div 536870912 <= n \div 536870912
                                       /\ m \div 536870912 \in Nat
  BY Z3
<1>8. \A n \in Nat : /\ n < 2147483648 => n \div 536870912 <= 3
                     /\ n < 1610612736 => n \div 536870912 <= 2
                     /\ n < 536870912 => n \div 536870912 = 0
  BY Z3
<1>9. \A m \in Nat, n \in Nat : m <= n => /\ m \div 2 <= n \div 2
                                       /\ m \div 2 \in Nat
                                       /\ 2 * (m \div 2) <= m
  BY Z3
<1>10. /\ Part(x) \in Nat /\ Part(y) \in Nat
       /\ Part(x) <= Part(y)
       /\ Part(y) < 2147483648
       /\ y <= 16777216 => Part(y) < 1610612736
       /\ y <= 10000000 => Part(y) < 536870912
  <2>1. /\ (51 * x) \div 2 <= (51 * y) \div 2
        /\ (51 * x) \div 2 \in Nat /\ (51 * y) \div 2 \in Nat
        /\ 2 * ((51 * y) \div 2) <= 51 * y
    BY <1>9, SMTT(30)
  <2>. QED BY <1>3, <1>4, <1>5, <1>6, <2>1, SMTT(30)
<1>11. Carry(x) = Part(x) \div 536870912 /\ Carry(y) = Part(y) \div 536870912
  BY SMTT(30) DEF Carry
<1>. HIDE DEF Part
<1>. QED BY <1>7, <1>8, <1>10, <1>11, SMTT(30)

LEMMA ProductUp ==
    ASSUME NEW m \in Nat, NEW n \in Nat, m <= n, n < 32768000
    PROVE  /\ Product(m) \in Nat /\ Product(n) \in Nat
           /\ Product(m) <= Product(n)
           /\ Product(-m) = -Product(m)
           /\ m <= 10000000 => Product(m) = m
<1>1. /\ Float(m) \in Nat /\ Float(n) \in Nat /\ Float(m) <= Float(n)
      /\ Float(n) <= 32768000
      /\ m <= 10000000 => Float(m) = m
  BY FloatGrows, SMTT(30)
<1>2. /\ Carry(Float(m)) \in 0 .. 3 /\ Carry(Float(n)) \in 0 .. 3
      /\ Carry(Float(m)) <= Carry(Float(n))
  BY <1>1, CarryGrows, SMTT(30)
<1>3. m <= 10000000 => Carry(Float(m)) = 0
  BY <1>1, CarryGrows, SMTT(30)
<1>4. /\ Product(m) = Float(m) + Carry(Float(m))
      /\ Product(n) = Float(n) + Carry(Float(n))
  BY SMTT(30) DEF Product
<1>5. Product(-m) = -Product(m)
  <2>1. CASE m = 0
    <3>. DEFINE z == -m
    <3>1. z \in Int /\ z <= 0 /\ z >= 0
      BY <2>1, SMTT(30)
    <3>. HIDE DEF z
    <3>2. z = m
      BY <2>1, <3>1, SMTT(30)
    <3>3. Float(m) = 0 /\ Carry(Float(m)) = 0
      BY <1>1, <1>3, <2>1, SMTT(30) DEF Float
    <3>4. Product(m) = 0 /\ Product(z) = 0
      BY <1>4, <3>2, <3>3, SMTT(30)
    <3>5. Product(z) + Product(m) = 0 /\ Product(z) \in Int /\ Product(m) \in Int
      BY <3>4, SMTT(30)
    <3>6. Product(z) = -Product(m)
      BY <3>5, SMTT(30)
    <3>. QED BY <3>6 DEF z
  <2>2. CASE m > 0
    <3>1. -(-m) = m
      BY SMTT(30)
    <3>2. Product(-m) = -(Float(-(-m)) + Carry(Float(-(-m))))
      BY <2>2, SMTT(30) DEF Product
    <3>. QED BY <1>4, <3>1, <3>2, SMTT(30)
  <2>. QED BY <2>1, <2>2, SMTT(30)
<1>. QED BY <1>1, <1>2, <1>3, <1>4, <1>5, SMTT(30)

LEMMA ProductGrows ==
    ASSUME NEW x \in Int, NEW y \in Int, x <= y, x > -32768000, y < 32768000
    PROVE  /\ Product(x) \in Int /\ Product(y) \in Int
           /\ Product(x) <= Product(y)
           /\ Product(-x) = -Product(x)
<1>1. CASE x >= 0
  BY <1>1, ProductUp, SMTT(30)
<1>2. CASE x < 0
  <2>. DEFINE u == -x
  <2>1. u \in Nat /\ u < 32768000 /\ -u = x
    BY <1>2, SMTT(30)
  <2>. HIDE DEF u
  <2>2. Product(x) = -Product(u) /\ Product(u) \in Nat
    BY <2>1, ProductUp, SMTT(30)
  <2>3. Product(-x) = -Product(x)
    BY <2>2, SMTT(30) DEF u
  <2>4. Product(y) \in Int /\ Product(x) <= Product(y)
    <3>1. CASE y >= 0
      BY <2>2, <3>1, ProductUp, SMTT(30)
    <3>2. CASE y < 0
      <4>. DEFINE w == -y
      <4>1. w \in Nat /\ w <= u /\ -w = y
        BY <3>2, SMTT(30) DEF u
      <4>. HIDE DEF w
      <4>2. Product(w) <= Product(u) /\ Product(w) \in Nat /\ Product(-w) = -Product(w)
        BY <2>1, <4>1, ProductUp, SMTT(30)
      <4>. QED BY <2>2, <4>1, <4>2, SMTT(30)
    <3>. QED BY <3>1, <3>2, SMTT(30)
  <2>. QED BY <2>2, <2>3, <2>4, SMTT(30)
<1>. QED BY <1>1, <1>2, SMTT(30)

\* Rounding n thousandths.
LEMMA RoundIs ==
    ASSUME NEW n \in Int
    PROVE  /\ Round(n) \in Int
           /\ 2 * n <= 2000 * Round(n) + 1000
           /\ 2 * n >= 2000 * Round(n) - 1000
           /\ Round(-n) = -Round(n)
<1>1. CASE n >= 0
  BY <1>1, DivThousand DEF Round
<1>2. CASE n < 0
  BY <1>2, DivThousand DEF Round
<1>. QED BY <1>1, <1>2

\* A scaled reading is rounded to the nearest, or up from two thousandths below
\* the half: floats and thousands are both multiples of four there.
LEMMA ScaledRound ==
    ASSUME NEW m \in Nat, m < 32768000
    PROVE  /\ Round(Product(m)) \in Nat
           /\ 1000 * Round(Product(m)) <= m + 502
           /\ 1000 * Round(Product(m)) >= m - 500
           /\ m <= 10000000 => 1000 * Round(Product(m)) <= m + 500
<1>. DEFINE f == Float(m)
            c == Carry(f)
            q == Round(Product(m))
<1>1. f \in Nat /\ f >= m - 1 /\ f <= m + 1 /\ f <= 32768000
      /\ (m < 16777216 => f = m)
  BY FloatGrows, SMTT(30)
<1>2. /\ c \in 0 .. 3
      /\ m < 16777216 => c <= 2
      /\ m <= 10000000 => c = 0
  <2>. HIDE DEF f
  <2>. QED BY <1>1, CarryGrows, SMTT(30)
<1>3. Product(m) = f + c
  BY SMTT(30) DEF Product
<1>4. m >= 16777216 => \/ f <= m /\ f % 2 = 0
                       \/ f = m + 1 /\ f % 4 = 0
  <2>1. m % 2 # 0 => (m - 1) % 2 = 0
    BY Z3
  <2>2. m % 4 = 3 => (m + 1) % 4 = 0
    BY Z3
  <2>. QED BY <2>1, <2>2, SMTT(30) DEF Float
<1>. HIDE DEF f, c
<1>5. q = (f + c + 500) \div 1000
  BY <1>1, <1>2, <1>3, SMTT(30) DEF Round
<1>6. /\ q \in Nat /\ 1000 * q <= f + c + 500
      /\ f + c + 500 < 1000 * q + 1000
  <2>1. f + c + 500 \in Nat
    BY <1>1, <1>2, SMTT(30)
  <2>. QED BY <1>5, <2>1, DivThousand, SMTT(30)
<1>. HIDE DEF q
<1>7. CASE m < 16777216
  BY <1>1, <1>2, <1>6, <1>7, SMTT(30) DEF q
<1>8. CASE m >= 16777216 /\ f <= m /\ f % 2 = 0
  <2>1. 1000 * q # f + 503
    BY <1>1, <1>6, <1>8, SMTT(30)
  <2>. QED BY <1>1, <1>2, <1>6, <1>8, <2>1, SMTT(30) DEF q
<1>9. CASE m >= 16777216 /\ f = m + 1 /\ f % 4 = 0
  <2>1. 1000 * q # f + 501 /\ 1000 * q # f + 502 /\ 1000 * q # f + 503
    BY <1>1, <1>6, <1>9, SMTT(30)
  <2>. QED BY <1>1, <1>2, <1>6, <1>9, <2>1, SMTT(30) DEF q
<1>. QED BY <1>4, <1>7, <1>8, <1>9, SMTT(30)

\* A sensor is off by half a unit at most unless it overran the 16-bit range, or
\* was scaled in floats that no longer tell thousandths apart.
THEOREM SensorIsNearest == ReadSpec => []SensorNearest
<1>1. ASSUME raw \in Int, NEW scale \in Scales
      PROVE  LET v == to_int16(raw, scale)
             IN  /\ v \in Int16Min .. Int16Max
                 /\ v < Int16Max => 2 * raw <= 2000 * v + 1000 + Slack(raw, scale)
                 /\ v > Int16Min => 2 * raw >= 2000 * v - 1000 - Slack(raw, scale)
                 /\ v > -Int16Max /\ v < Int16Max => to_int16(-raw, scale) = -v
  <2>. DEFINE v     == to_int16(raw, scale)
              w     == to_int16(-raw, scale)
              slack == Slack(raw, scale)
              n == IF scale = "thousandth" THEN Product(raw) ELSE raw
              q == Round(n)
  <2>1. /\ slack \in {0, 4}
        /\ scale = "one" => slack = 0
        /\ raw >= -ExactUpTo /\ raw <= ExactUpTo => slack = 0
        /\ scale = "thousandth" /\ (raw > ExactUpTo \/ raw < -ExactUpTo) => slack = 4
    BY <1>1, SMTT(30) DEF Slack, ExactUpTo
  <2>2. CASE raw >= 32768000
    <3>1. v = 32767
      BY <1>1, <2>2, SMTT(30) DEF to_int16, Int16Max
    <3>. HIDE DEF v, w, slack
    <3>. QED BY <1>1, <2>1, <2>2, <3>1, SMTT(30) DEF Int16Max, Int16Min, v, slack
  <2>3. CASE raw <= -32768000
    <3>1. v = -32768
      BY <1>1, <2>3, SMTT(30) DEF to_int16, Int16Min, Int16Max
    <3>. HIDE DEF v, w, slack
    <3>. QED BY <1>1, <2>1, <2>3, <3>1, SMTT(30) DEF Int16Max, Int16Min, v, slack
  <2>4. CASE raw > -32768000 /\ raw < 32768000
    <3>1. /\ q \in Int
          /\ 2 * raw <= 2000 * q + 1000 + slack
          /\ 2 * raw >= 2000 * q - 1000 - slack
      <4>1. CASE scale = "one"
        <5>1. n = raw /\ slack = 0
          BY <2>1, <4>1, SMTT(30)
        <5>2. q = Round(n)
          BY SMTT(30)
        <5>. HIDE DEF n, q, slack
        <5>. QED BY <1>1, <5>1, <5>2, RoundIs, SMTT(30)
      <4>2. CASE scale = "thousandth" /\ raw >= 0
        <5>1. n = Product(raw)
          BY <4>2, SMTT(30)
        <5>2. /\ raw <= 10000000 => slack = 0
              /\ raw > 10000000 => slack = 4
          BY <1>1, <2>1, <4>2, SMTT(30) DEF ExactUpTo
        <5>. HIDE DEF slack
        <5>. QED BY <1>1, <2>1, <2>4, <4>2, <5>1, <5>2, ScaledRound, SMTT(30)
      <4>3. CASE scale = "thousandth" /\ raw < 0
        <5>1. n = -Product(-raw) /\ Product(-raw) \in Int
          BY <1>1, <2>4, <4>3, ProductGrows, SMTT(30)
        <5>2. q = -Round(Product(-raw))
          BY <5>1, RoundIs, SMTT(30)
        <5>3. /\ raw >= -10000000 => slack = 0
              /\ raw < -10000000 => slack = 4
          BY <1>1, <2>1, <4>3, SMTT(30) DEF ExactUpTo
        <5>. HIDE DEF slack, n, q
        <5>4. /\ Round(Product(-raw)) \in Nat
              /\ 1000 * Round(Product(-raw)) <= -raw + 502
              /\ 1000 * Round(Product(-raw)) >= -raw - 500
              /\ -raw <= 10000000 => 1000 * Round(Product(-raw)) <= -raw + 500
          BY <1>1, <2>4, <4>3, ScaledRound, SMTT(30)
        <5>. QED BY <1>1, <2>1, <4>3, <5>2, <5>3, <5>4, SMTT(30)
      <4>4. (scale = "one" \/ scale = "thousandth") /\ (raw >= 0 \/ raw < 0)
        BY <1>1, SMTT(30) DEF Scales
      <4>. HIDE DEF q, slack
      <4>. QED BY <4>1, <4>2, <4>3, <4>4, SMTT(30)
    <3>2. v = clamp_to_int16(q)
      BY <1>1, <2>4, SMTT(30) DEF to_int16
    <3>3. w = clamp_to_int16(-q)
      <4>1. w = clamp_to_int16(Round(IF scale = "thousandth" THEN Product(-raw) ELSE -raw))
        BY <1>1, <2>4, SMTT(30) DEF to_int16
      <4>2. CASE scale = "thousandth"
        <5>1. Product(-raw) = -Product(raw) /\ Product(raw) \in Int
          BY <1>1, <2>4, ProductGrows, SMTT(30)
        <5>. QED BY <4>1, <4>2, <5>1, RoundIs, SMTT(30)
      <4>3. CASE scale # "thousandth"
        BY <1>1, <4>1, <4>3, RoundIs, SMTT(30)
      <4>. QED BY <4>2, <4>3, SMTT(30)
    <3>. HIDE DEF v, w, q, slack
    <3>4. CASE q < -32768
      <4>1. v = -32768
        BY <3>1, <3>2, <3>4, SMTT(30) DEF clamp_to_int16, Int16Min
      <4>2. 2 * raw <= 2000 * v + 1000 + slack
        BY <1>1, <2>1, <3>1, <3>4, <4>1, SMTT(30)
      <4>. QED BY <4>1, <4>2, SMTT(30) DEF Int16Max, Int16Min, v, slack
    <3>5. CASE q > 32767
      <4>1. v = 32767
        BY <3>1, <3>2, <3>5, SMTT(30) DEF clamp_to_int16, Int16Min, Int16Max
      <4>2. 2 * raw >= 2000 * v - 1000 - slack
        BY <1>1, <2>1, <3>1, <3>5, <4>1, SMTT(30)
      <4>. QED BY <4>1, <4>2, SMTT(30) DEF Int16Max, Int16Min, v, slack
    <3>6. CASE q >= -32768 /\ q <= 32767
      <4>1. v = q
        BY <3>1, <3>2, <3>6, SMTT(30) DEF clamp_to_int16, Int16Min, Int16Max
      <4>2. q > -32767 => w = -q
        BY <3>1, <3>3, <3>6, SMTT(30) DEF clamp_to_int16, Int16Min, Int16Max
      <4>3. /\ 2 * raw <= 2000 * v + 1000 + slack
            /\ 2 * raw >= 2000 * v - 1000 - slack
            /\ v > -32767 => w = -v
        BY <3>1, <3>6, <4>1, <4>2, SMTT(30)
      <4>4. v \in Int /\ v >= -32768 /\ v <= 32767
        BY <3>1, <3>6, <4>1, SMTT(30)
      <4>5. v \in Int16Min .. Int16Max
        BY <4>4, InRange
      <4>6. v > -Int16Max /\ v < Int16Max => w = -v
        BY <4>3, <4>4, SMTT(30) DEF Int16Max
      <4>. QED BY <4>3, <4>5, <4>6 DEF v, w, slack
    <3>. QED BY <3>1, <3>4, <3>5, <3>6, SMTT(30)
  <2>. QED BY <1>1, <2>2, <2>3, <2>4, SMTT(30)
<1>2. raw \in Int => SensorNearest
  BY <1>1, SMTT(30) DEF SensorNearest
<1>. QED BY <1>2, Invariance, PTL

-----------------------------------------------------------------------------
\* The smallest size that holds mb megabytes, where one does.
LEMMA LeastSize ==
    ASSUME NEW mb \in Int, mb <= 4096 * 1024
    PROVE  \E s \in Sizes : /\ s * 1024 >= mb
                            /\ \A t \in Sizes : t * 1024 >= mb => s <= t
<1>1. ASSUME NEW s \in Sizes, s * 1024 >= mb,
             \A t \in Sizes : t < s => t * 1024 < mb
      PROVE  \A t \in Sizes : t * 1024 >= mb => s <= t
  BY <1>1 DEF Sizes
<1>2. \E s \in Sizes : s * 1024 >= mb /\ \A t \in Sizes : t < s => t * 1024 < mb
  <2>1. CASE mb <= 1024
    BY <2>1 DEF Sizes
  <2>2. CASE mb > 1024 /\ mb <= 16384
    BY <2>2, SMTT(30) DEF Sizes
  <2>3. CASE mb > 16384 /\ mb <= 262144
    BY <2>3, SMTT(30) DEF Sizes
  <2>4. CASE mb > 262144
    BY <2>4, SMTT(30) DEF Sizes
  <2>. QED BY <2>1, <2>2, <2>3, <2>4
<1>. QED BY <1>1, <1>2

\* What round_to_power_of_two() returns, by the range its argument is in.
LEMMA SizeByRange ==
    ASSUME NEW mb \in Int
    PROVE  LET s == round_to_power_of_two(mb)
           IN  /\ mb <= 0 => s = 0
               /\ mb > 0 /\ mb < 1024 => s = 1
               /\ mb >= 1024 /\ mb <= 4096 * 1024 =>
                    /\ s \in Sizes /\ s * 1024 >= mb
                    /\ \A t \in Sizes : t * 1024 >= mb => s <= t
               /\ mb > 4096 * 1024 => s = 4096
<1>. DEFINE Fit == {s \in Sizes : s * 1024 >= mb}
            size == round_to_power_of_two(mb)
<1>1. size = IF mb <= 0 THEN 0 ELSE IF mb < 1024 THEN 1
             ELSE IF Fit = {} THEN 4096 ELSE CHOOSE s \in Fit : \A t \in Fit : s <= t
  BY DEF round_to_power_of_two
<1>2. ASSUME mb >= 1024, mb <= 4096 * 1024
      PROVE  size \in Fit /\ \A t \in Fit : size <= t
  <2>1. \E s \in Fit : \A t \in Fit : s <= t
    BY <1>2, LeastSize
  <2>2. size = CHOOSE s \in Fit : \A t \in Fit : s <= t
    BY <1>1, <1>2, <2>1
  <2>. HIDE DEF Fit, size
  <2>. QED BY <2>1, <2>2
<1>3. mb > 4096 * 1024 => Fit = {}
  BY DEF Sizes
<1>. QED BY <1>1, <1>2, <1>3

\* The size shown holds the medium and what is used of it.
THEOREM SizeFits == ReadSpec => []UsedFitsSize
<1>1. ASSUME raw \in Int PROVE UsedFitsSize
  <2>. DEFINE s == round_to_power_of_two(raw)
  <2>1. /\ raw <= 0 => s = 0
        /\ raw > 0 /\ raw < 1024 => s = 1
        /\ raw >= 1024 /\ raw <= 4096 * 1024 =>
             /\ s \in Sizes /\ s * 1024 >= raw
             /\ \A t \in Sizes : t * 1024 >= raw => s <= t
        /\ raw > 4096 * 1024 => s = 4096
    BY <1>1, SizeByRange
  <2>. HIDE DEF s
  <2>2. SizeHolds
    <3>1. \A t \in Sizes : t > 0 /\ t \in Int /\ (t > 1 => t \div 2 \in Sizes /\ t \div 2 < t)
      BY DEF Sizes
    <3>2. (raw <= 0 <=> s = 0) /\ (raw > 0 => s \in Sizes)
      BY <1>1, <2>1, <3>1 DEF Sizes
    <3>3. raw <= 4096 * 1024 => raw <= s * 1024
      BY <1>1, <2>1
    <3>4. ASSUME s > 1 PROVE (s \div 2) * 1024 < raw
      <4>1. CASE raw >= 1024 /\ raw <= 4096 * 1024
        <5>1. PICK h \in Sizes : h = s \div 2 /\ h < s
          BY <2>1, <3>1, <3>4, <4>1
        <5>2. h * 1024 >= raw => s <= h
          BY <2>1, <4>1, <5>1
        <5>3. s \in Sizes
          BY <2>1, <4>1
        <5>4. h \in Int /\ s \in Int
          BY <5>3 DEF Sizes
        <5>. QED BY <1>1, <5>1, <5>2, <5>4
      <4>2. CASE raw > 4096 * 1024
        BY <1>1, <2>1, <4>2
      <4>. QED BY <1>1, <2>1, <3>4, <4>1, <4>2
    <3>. QED BY <3>2, <3>3, <3>4 DEF SizeHolds, s
  <2>3. ASSUME NEW used \in Samples, used \in 0 .. raw PROVE Used(used) <= 1024 * s
    <3>1. Used(used) <= used /\ Used(used) <= 32767 /\ Used(used) \in Int
      BY <2>3 DEF Used, clamp_to_int16, Int16Min, Int16Max
    <3>2. raw <= 4096 * 1024 => raw <= s * 1024
      BY <2>2 DEF SizeHolds, s
    <3>3. s \in Int
      BY <1>1, <2>1 DEF Sizes
    <3>. QED BY <1>1, <2>1, <2>3, <3>1, <3>2, <3>3
  <2>. QED BY <2>2, <2>3 DEF UsedFitsSize, s
<1>. QED BY <1>1, Invariance, PTL

\* Each conversion is monotonic.
LEMMA ClampGrows ==
    ASSUME NEW x \in Int, NEW y \in Int, x <= y
    PROVE  clamp_to_int16(x) <= clamp_to_int16(y)
BY DEF clamp_to_int16, Int16Min, Int16Max

LEMMA HoursGrow ==
    ASSUME NEW x \in Int, NEW y \in Int, x <= y
    PROVE  uptime_seconds_to_hours(x) <= uptime_seconds_to_hours(y)
<1>1. CASE x > 0
  <2>1. /\ x \div 3600 \in Nat /\ (x \div 3600) * 3600 <= x
        /\ y \div 3600 \in Nat /\ y < (y \div 3600 + 1) * 3600
    BY <1>1, DivHours
  <2>2. x \div 3600 <= y \div 3600
    BY <2>1
  <2>. QED BY <1>1, <2>1, <2>2, ClampGrows DEF uptime_seconds_to_hours
<1>2. CASE x <= 0 /\ y > 0
  <2>1. y \div 3600 \in Nat
    BY <1>2, DivHours
  <2>2. clamp_to_int16(y \div 3600) >= 0
    BY <2>1 DEF clamp_to_int16, Int16Min, Int16Max
  <2>. QED BY <1>2, <2>2 DEF uptime_seconds_to_hours
<1>3. CASE y <= 0
  BY <1>3 DEF uptime_seconds_to_hours
<1>. QED BY <1>1, <1>2, <1>3

LEMMA RoundGrows ==
    ASSUME NEW x \in Int, NEW y \in Int, x <= y
    PROVE  Round(x) <= Round(y)
<1>1. \A n \in Int : n >= 0 => /\ (n + 500) \div 1000 \in Nat
                               /\ ((n + 500) \div 1000) * 1000 <= n + 500
                               /\ n + 500 < ((n + 500) \div 1000 + 1) * 1000
  BY DivThousand
<1>2. CASE x >= 0
  BY <1>1, <1>2 DEF Round
<1>3. CASE x < 0 /\ y >= 0
  BY <1>1, <1>3 DEF Round
<1>4. CASE y < 0
  BY <1>1, <1>4 DEF Round
<1>. QED BY <1>2, <1>3, <1>4

LEMMA SensorRange ==
    ASSUME NEW n \in Int, NEW scale \in Scales
    PROVE  to_int16(n, scale) \in Int16Min .. Int16Max
<1>1. CASE n >= 32768000 \/ n <= -32768000
  <2>1. to_int16(n, scale) \in {-32768, 32767}
    BY <1>1, SMTT(30) DEF to_int16, Int16Min, Int16Max
  <2>. QED BY <2>1, InRange, SMTT(30)
<1>2. CASE n > -32768000 /\ n < 32768000
  <2>. DEFINE p == IF scale = "thousandth" THEN Product(n) ELSE n
  <2>1. p \in Int
    BY <1>2, ProductGrows, SMTT(30)
  <2>2. Round(p) \in Int
    BY <2>1, RoundIs, SMTT(30)
  <2>3. to_int16(n, scale) = clamp_to_int16(Round(p))
    BY <1>2, SMTT(30) DEF to_int16
  <2>4. \A k \in Int : clamp_to_int16(k) \in Int16Min .. Int16Max
    <3>1. \A k \in Int : /\ clamp_to_int16(k) \in Int
                         /\ clamp_to_int16(k) >= -32768 /\ clamp_to_int16(k) <= 32767
      BY SMTT(30) DEF clamp_to_int16, Int16Min, Int16Max
    <3>. QED BY <3>1, InRange, SMTT(30)
  <2>. QED BY <2>2, <2>3, <2>4, SMTT(30)
<1>. QED BY <1>1, <1>2, SMTT(30)

LEMMA SensorGrows ==
    ASSUME NEW x \in Int, NEW y \in Int, x <= y, NEW scale \in Scales
    PROVE  to_int16(x, scale) <= to_int16(y, scale)
<1>. DEFINE Of(n) == IF scale = "thousandth" THEN Product(n) ELSE n
<1>2. CASE x <= -32768000 \/ y >= 32768000
  <2>1. \A n \in Int : to_int16(n, scale) \in Int16Min .. Int16Max
    BY SensorRange, SMTT(30)
  <2>2. \A n \in Int : /\ to_int16(n, scale) \in Int
                       /\ to_int16(n, scale) >= -32768
                       /\ to_int16(n, scale) <= 32767
    BY <2>1, InRange, SMTT(30)
  <2>3. /\ x <= -32768000 => to_int16(x, scale) = -32768
        /\ y >= 32768000 => to_int16(y, scale) = 32767
    BY SMTT(30) DEF to_int16, Int16Min, Int16Max
  <2>. QED BY <1>2, <2>2, <2>3, SMTT(30)
<1>3. CASE x > -32768000 /\ y < 32768000
  <2>1. /\ to_int16(x, scale) = clamp_to_int16(Round(Of(x)))
        /\ to_int16(y, scale) = clamp_to_int16(Round(Of(y)))
    BY <1>3, SMTT(30) DEF to_int16
  <2>2. Of(x) \in Int /\ Of(y) \in Int /\ Of(x) <= Of(y)
    BY <1>3, ProductGrows, SMTT(30)
  <2>. HIDE DEF Of
  <2>3. /\ Round(Of(x)) \in Int /\ Round(Of(y)) \in Int
        /\ Round(Of(x)) <= Round(Of(y))
    BY <2>2, RoundIs, RoundGrows, SMTT(30)
  <2>. QED BY <2>1, <2>3, ClampGrows, SMTT(30)
<1>. QED BY <1>2, <1>3, SMTT(30)

LEMMA SizeGrows ==
    ASSUME NEW x \in Int, NEW y \in Int, x <= y
    PROVE  round_to_power_of_two(x) <= round_to_power_of_two(y)
<1>. DEFINE s == round_to_power_of_two(x)
            u == round_to_power_of_two(y)
<1>1. /\ x <= 0 => s = 0
      /\ x > 0 /\ x < 1024 => s = 1
      /\ x >= 1024 /\ x <= 4096 * 1024 =>
           s \in Sizes /\ \A t \in Sizes : t * 1024 >= x => s <= t
      /\ x > 4096 * 1024 => s = 4096
  BY SizeByRange
<1>2. /\ y <= 0 => u = 0
      /\ y > 0 /\ y < 1024 => u = 1
      /\ y >= 1024 /\ y <= 4096 * 1024 => u \in Sizes /\ u * 1024 >= y
      /\ y > 4096 * 1024 => u = 4096
  BY SizeByRange
<1>. HIDE DEF s, u
<1>3. \A t \in Sizes : t \in Int /\ t >= 1 /\ t <= 4096
  BY DEF Sizes
<1>4. x < 1024 => s <= u
  BY <1>1, <1>2, <1>3
<1>5. x >= 1024 /\ y <= 4096 * 1024 => s <= u
  <2>. SUFFICES ASSUME x >= 1024, y <= 4096 * 1024 PROVE s <= u
    OBVIOUS
  <2>1. u \in Sizes /\ u * 1024 >= y
    BY <1>2
  <2>2. u * 1024 >= x
    BY <1>3, <2>1
  <2>. QED BY <1>1, <2>1, <2>2
<1>6. x >= 1024 /\ y > 4096 * 1024 => s <= u
  BY <1>1, <1>2, <1>3
<1>7. s <= u
  BY <1>4, <1>5, <1>6
<1>. QED BY <1>7 DEF s, u

\* A source that grows is never shown to decline.
THEOREM NothingDeclines == ReadSpec => NeverDeclines
<1>1. ASSUME raw \in Int, (raw \in Int)', [Read]_raw
      PROVE  [/\ uptime_seconds_to_hours(raw') >= uptime_seconds_to_hours(raw)
              /\ \A scale \in Scales :
                   to_int16(raw', scale) >= to_int16(raw, scale)
              /\ round_to_power_of_two(raw') >= round_to_power_of_two(raw)]_raw
  <2>1. CASE raw' = raw
    BY <2>1
  <2>2. CASE Read
    <3>1. raw <= raw'
      BY <1>1, <2>2 DEF Read
    <3>2. uptime_seconds_to_hours(raw) <= uptime_seconds_to_hours(raw')
      BY <1>1, <3>1, HoursGrow
    <3>3. \A scale \in Scales : to_int16(raw', scale) >= to_int16(raw, scale)
      <4>. SUFFICES ASSUME NEW scale \in Scales
                    PROVE  to_int16(raw', scale) >= to_int16(raw, scale)
        OBVIOUS
      <4>1. to_int16(raw, scale) <= to_int16(raw', scale)
        BY <1>1, <3>1, SensorGrows
      <4>2. /\ to_int16(raw, scale) \in Int16Min .. Int16Max
            /\ to_int16(raw', scale) \in Int16Min .. Int16Max
        BY <1>1, SensorRange
      <4>3. to_int16(raw, scale) \in Int /\ to_int16(raw', scale) \in Int
        <5>1. Int16Min \in Int /\ Int16Max \in Int
          BY DEF Int16Min, Int16Max
        <5>. QED BY <4>2, <5>1
      <4>. QED BY <4>1, <4>3
    <3>4. round_to_power_of_two(raw) <= round_to_power_of_two(raw')
      BY <1>1, <3>1, SizeGrows
    <3>. QED BY <3>2, <3>3, <3>4
  <2>. QED BY <1>1, <2>1, <2>2
<1>. QED BY <1>1, Invariance, PTL DEF ReadSpec, NeverDeclines

-----------------------------------------------------------------------------
(* The channels.                                                           *)

\* The domains TypeOK leaves open.
Shape ==
    /\ DOMAIN world = Sources
    /\ DOMAIN cache = Cached
    /\ DOMAIN published = Instances
    /\ \A i \in Instances : DOMAIN published[i] = Paths

\* While caches are refreshed nothing is published yet; publishing starts once
\* every cache the project needs was refreshed in this call.
Stages ==
    /\ stage = "refresh" => pos = 1
    /\ stage = "publish" => Needed \subseteq refreshed

\* What the caches imply for a path that has been published.
Told(p) ==
    /\ \A m \in Media : p = DevOf(m) => Shown(p) = Connection(m, m)
    /\ \A m \in Media : p \in FiguresOf(m) /\ cache[m] = Gone => Shown(p) = "zero"
    /\ p \in Modem => (Shown(p) = "NOT CONNECTED" <=> cache["modem"] = Gone)
    /\ p = "MODEM_IFACE" => (connected[running] <=> cache["modem"] # Gone)

IInv == TypeOK /\ Shape /\ Stages /\ \A p \in Done : Told(p)

-----------------------------------------------------------------------------
\* A path is published from caches it asked for.
LEMMA CacheIsNeeded == \A path \in Paths : CacheOf(path) \subseteq Need(path)
BY DEF CacheOf, Need, Paths, Sensors, Clocks, Modem, Media, DevOf, FiguresOf

\* A project is a sequence of paths.
LEMMA ChannelsArePaths ==
    ASSUME TypeOK, NEW k \in DOMAIN channels[running]
    PROVE  channels[running][k] \in Paths /\ k \in Nat /\ k >= 1
<1>1. channels[running] \in Seq(Paths)
  BY DiagnosticsAssumption DEF TypeOK, DiagnosticsAssumption
<1>. QED BY <1>1

\* Before the first channel is published, none has been.
LEMMA NothingDone ==
    ASSUME TypeOK, pos \in {0, 1}
    PROVE  Done = {}
<1>1. \A k \in DOMAIN channels[running] : ~(k < pos)
  BY ChannelsArePaths
<1>. QED BY <1>1 DEF Done

\* One more path is done after one more channel.
LEMMA OneMoreDone ==
    ASSUME TypeOK, pos \in DOMAIN channels[running], pos' = pos + 1,
           UNCHANGED <<channels, running>>
    PROVE  Done' \subseteq Done \cup ({channels[running][pos]} \cap Handled)
<1>1. \A k \in DOMAIN channels[running] : k < pos + 1 => k < pos \/ k = pos
  BY ChannelsArePaths
<1>2. Done' = {channels[running][k] : k \in {j \in DOMAIN channels[running] : j < pos + 1}}
                \cap Handled
  BY DEF Done
<1>. QED BY <1>1, <1>2 DEF Done

\* What is published of a path fits the caches at that moment.
LEMMA ValuesAgree ==
    ASSUME TypeOK, NEW p \in Handled, NEW ok \in BOOLEAN, NEW v \in Values(p, ok)
    PROVE  /\ \A m \in Media : p = DevOf(m) => v = Connection(m, m)
           /\ \A m \in Media : p \in FiguresOf(m) /\ cache[m] = Gone => v = "zero"
           /\ p \in Modem => (v = "NOT CONNECTED" <=> cache["modem"] = Gone)
<1>1. ASSUME NEW m \in Media, p = DevOf(m)
      PROVE  v = Connection(m, m)
  <2>1. p \notin Sensors \cup Clocks \cup Modem
    BY <1>1 DEF DevOf, Media, Sensors, Clocks, Modem
  <2>2. CacheOf(p) = {m}
    BY <1>1, <2>1 DEF CacheOf, DevOf, FiguresOf, Media
  <2>3. Values(p, ok) = {Connection(n, n) : n \in CacheOf(p)}
    BY <1>1, <2>1 DEF Values, Modem
  <2>. QED BY <2>2, <2>3
<1>2. ASSUME NEW m \in Media, p \in FiguresOf(m), cache[m] = Gone
      PROVE  v = "zero"
  <2>1. p \notin Sensors \cup Clocks \cup Modem
    BY <1>2 DEF FiguresOf, Media, Sensors, Clocks, Modem
  <2>2. \A n \in Media : p # DevOf(n)
    BY <1>2 DEF FiguresOf, Media, DevOf
  <2>3. CacheOf(p) = {m}
    BY <1>2, <2>1, <2>2 DEF CacheOf, FiguresOf, Media
  <2>4. Values(p, ok) = Figures(p, ok)
    BY <1>2, <2>1, <2>2 DEF Values, Modem
  <2>5. Figures(p, ok) = {"zero"}
    BY <1>2, <2>3 DEF Figures
  <2>. QED BY <2>4, <2>5
<1>3. ASSUME p = "MODEM_STATUS"
      PROVE  v = "NOT CONNECTED" <=> cache["modem"] = Gone
  <2>1. v = Connection("modem", Output(world["modem"], ok))
    BY <1>3 DEF Values, Sensors, Clocks
  <2>2. world["modem"] \in {"UP", "DOWN", "gone"}
    BY DEF TypeOK, Facts, Sources, Cached, Media, Link, Gone
  <2>3. Output(world["modem"], ok) # "NOT CONNECTED"
    BY <2>2 DEF Output, Gone
  <2>. QED BY <2>1, <2>3 DEF Connection
<1>4. ASSUME p = "MODEM_IFACE"
      PROVE  v = "NOT CONNECTED" <=> cache["modem"] = Gone
  <2>1. v = Connection("modem", "/sys/class/net/usb0")
    BY <1>4 DEF Values, Sensors, Clocks
  <2>. QED BY <2>1 DEF Connection
<1>. QED BY <1>1, <1>2, <1>3, <1>4 DEF Modem

-----------------------------------------------------------------------------
LEMMA InitHolds == Init => IInv
<1>. SUFFICES ASSUME Init PROVE IInv
  OBVIOUS
<1>1. TypeOK
  <2>1. (CHOOSE r \in Readings : TRUE) \in Readings
    BY DiagnosticsAssumption DEF DiagnosticsAssumption
  <2>2. \A s \in Sources : world[s] \in Facts(s) \cup {Gone}
    BY <2>1 DEF Init, Facts
  <2>3. faults \in 0 .. MaxFaults
    BY DiagnosticsAssumption DEF Init, DiagnosticsAssumption
  <2>. QED BY <2>2, <2>3 DEF Init, TypeOK
<1>2. Shape
  BY DEF Init, Shape
<1>3. Stages
  BY DEF Init, Stages
<1>4. Done = {}
  BY <1>1, NothingDone DEF Init
<1>. QED BY <1>1, <1>2, <1>3, <1>4 DEF IInv

\* The unit changes: nothing that was refreshed or published moves.
LEMMA ChangeKeeps == ASSUME IInv, NEW s \in Sources, Change(s) PROVE IInv'
<1>1. PICK f \in Facts(s) \cup {Gone} : world' = [world EXCEPT ![s] = f]
  BY DEF Change
<1>2. \A t \in Sources : world'[t] \in Facts(t) \cup {Gone}
  BY <1>1 DEF IInv, TypeOK, Shape
<1>3. UNCHANGED <<cache, running, stage, pos, channels, published, connected,
                  faults, refreshed>>
  BY DEF Change
<1>4. steady' \in SUBSET Sources
  BY DEF Change, IInv, TypeOK
<1>5. TypeOK'
  BY <1>2, <1>3, <1>4 DEF IInv, TypeOK, Facts
<1>6. Shape' /\ Stages'
  BY <1>1, <1>3 DEF IInv, Shape, Stages, Needed, Need, CacheOf
<1>7. Done' = Done
  BY <1>3 DEF Done
<1>8. ASSUME NEW p \in Done PROVE Told(p)'
  <2>1. Told(p)
    BY DEF IInv
  <2>. QED BY <1>3, <2>1 DEF Told, Shown, Connection
<1>. QED BY <1>5, <1>6, <1>7, <1>8 DEF IInv

\* A call begins: the channels of the last one are no longer this call's.
LEMMA EnterKeeps == ASSUME IInv, NEW i \in Instances, Enter(i) PROVE IInv'
<1>1. TypeOK'
  BY DEF Enter, IInv, TypeOK, Facts, Sources
<1>2. Shape' /\ Stages'
  BY DEF Enter, IInv, Shape, Stages
<1>3. Done' = {}
  <2>1. \A k \in DOMAIN channels'[running'] : ~(k < pos')
    <3>1. channels'[running'] \in Seq(Paths)
      BY <1>1, DiagnosticsAssumption DEF TypeOK, DiagnosticsAssumption
    <3>2. pos' = 1
      BY DEF Enter
    <3>. QED BY <3>1, <3>2
  <2>. QED BY <2>1 DEF Done
<1>. QED BY <1>1, <1>2, <1>3 DEF IInv

\* A cache is refreshed, before anything is published from it.
LEMMA RefreshKeeps == ASSUME IInv, NEW ok \in BOOLEAN, Refresh(ok) PROVE IInv'
<1>1. PICK s \in Cached :
        /\ cache' = [cache EXCEPT ![s] = Check(s, Output(world[s], ok))]
        /\ refreshed' = refreshed \cup {s}
        /\ steady' = IF ok THEN steady ELSE steady \ {s}
  BY DEF Refresh
<1>2. UNCHANGED <<world, running, stage, pos, channels, published, connected>>
  BY DEF Refresh
<1>3. Check(s, Output(world[s], ok)) \in Readings \cup {"present", Gone}
  <2>1. s \in Sources
    BY DEF Sources
  <2>2. CASE s \in Sensors
    <3>1. Facts(s) = Readings
      BY <2>2 DEF Facts, Sensors, Media
    <3>. QED BY <2>1, <2>2, <3>1 DEF Check, Output, IInv, TypeOK
  <2>3. CASE s \notin Sensors
    BY <2>3 DEF Check
  <2>. QED BY <2>2, <2>3
<1>4. \A t \in Cached : cache'[t] \in Readings \cup {"present", Gone}
  BY <1>1, <1>3 DEF IInv, TypeOK, Shape
<1>5. faults' \in 0 .. MaxFaults
  BY DiagnosticsAssumption DEF Refresh, Fallible, IInv, TypeOK, DiagnosticsAssumption
<1>6. TypeOK'
  BY <1>1, <1>2, <1>4, <1>5 DEF IInv, TypeOK, Facts
<1>7. Shape'
  BY <1>1, <1>2 DEF IInv, Shape
<1>8. stage = "refresh" /\ pos = 1
  BY DEF Refresh, IInv, Stages
<1>9. Stages'
  BY <1>2, <1>8 DEF Stages
<1>10. Done' = {}
  <2>1. Done = {}
    BY <1>8, NothingDone DEF IInv
  <2>. QED BY <1>2, <2>1 DEF Done
<1>. QED BY <1>6, <1>7, <1>9, <1>10 DEF IInv

\* Every cache the project needs has been refreshed when publishing starts.
LEMMA BeginPublishKeeps == ASSUME IInv, BeginPublish PROVE IInv'
<1>1. TypeOK'
  BY DEF BeginPublish, IInv, TypeOK, Facts
<1>2. Shape'
  BY DEF BeginPublish, IInv, Shape
<1>3. Stages'
  BY DEF BeginPublish, Stages, Needed, Need, CacheOf
<1>4. Done' = Done
  BY DEF BeginPublish, Done
<1>5. ASSUME NEW p \in Done PROVE Told(p)'
  <2>1. Told(p)
    BY DEF IInv
  <2>. QED BY <2>1 DEF BeginPublish, Told, Shown, Connection
<1>. QED BY <1>1, <1>2, <1>3, <1>4, <1>5 DEF IInv

\* A channel is published: what the caches imply for it holds, and still holds
\* for the channels before it, of which it may be one.
LEMMA PublishKeeps == ASSUME IInv, NEW ok \in BOOLEAN, Publish(ok) PROVE IInv'
<1>. DEFINE path == channels[running][pos]
<1>1. /\ pos \in DOMAIN channels[running]
      /\ pos' = pos + 1
      /\ UNCHANGED <<world, cache, running, stage, channels, refreshed>>
      /\ connected' = IF path = "MODEM_IFACE"
                      THEN [connected EXCEPT ![running] = cache["modem"] # Gone]
                      ELSE connected
  BY DEF Publish
<1>2. PICK v \in Values(path, ok) : published' = [published EXCEPT ![running][path] = v]
  BY DEF Publish
<1>3. path \in Paths /\ running \in Instances /\ stage = "publish"
  BY <1>1, ChannelsArePaths DEF IInv, TypeOK, Publish
<1>4. /\ DOMAIN published' = Instances
      /\ \A i \in Instances : DOMAIN published'[i] = Paths
      /\ \A p \in Paths : published'[running][p] = IF p = path THEN v
                                                   ELSE published[running][p]
  BY <1>2, <1>3 DEF IInv, Shape
<1>5. Shape'
  BY <1>1, <1>4 DEF IInv, Shape
<1>6. TypeOK'
  <2>1. connected' \in [Instances -> BOOLEAN]
    <3>1. (cache["modem"] # Gone) \in BOOLEAN
      OBVIOUS
    <3>. QED BY <1>1, <1>3, <3>1, Zenon DEF IInv, TypeOK
  <2>2. faults' \in 0 .. MaxFaults
    BY DiagnosticsAssumption DEF Publish, Fallible, IInv, TypeOK, DiagnosticsAssumption
  <2>3. pos' \in Nat
    BY <1>1 DEF IInv, TypeOK
  <2>4. steady' \in SUBSET Sources
    BY DEF Publish, IInv, TypeOK
  <2>. QED BY <1>1, <2>1, <2>2, <2>3, <2>4 DEF IInv, TypeOK, Facts
<1>7. Stages'
  BY <1>1, <1>3 DEF IInv, Stages, Needed, Need, CacheOf
<1>8. \/ connected' = connected
      \/ /\ path = "MODEM_IFACE"
         /\ connected'[running] <=> cache["modem"] # Gone
  <2>1. path = "MODEM_IFACE" => connected'[running] = (cache["modem"] # Gone)
    BY <1>1, <1>3, Zenon DEF IInv, TypeOK
  <2>2. path # "MODEM_IFACE" => connected' = connected
    BY <1>1, Zenon
  <2>. QED BY <2>1, <2>2, Zenon
<1>9. ASSUME NEW p \in Done' PROVE Told(p)'
  <2>1. p \in Done \cup ({path} \cap Handled) /\ p \in Handled
    BY <1>1, OneMoreDone DEF IInv, Done
  <2>2. p \in Paths
    BY <2>1 DEF Handled
  <2>3. CASE p = path
    <3>1. Shown(p)' = v
      BY <1>1, <1>4, <2>2, <2>3 DEF Shown
    <3>2. /\ \A m \in Media : p = DevOf(m) => v = Connection(m, m)
          /\ \A m \in Media : p \in FiguresOf(m) /\ cache[m] = Gone => v = "zero"
          /\ p \in Modem => (v = "NOT CONNECTED" <=> cache["modem"] = Gone)
      BY <1>2, <2>1, <2>3, ValuesAgree DEF IInv
    <3>3. p = "MODEM_IFACE" => (connected'[running] <=> cache["modem"] # Gone)
      BY <1>1, <1>3, <2>3 DEF IInv, TypeOK
    <3>. QED BY <1>1, <3>1, <3>2, <3>3 DEF Told, Connection
  <2>4. CASE p # path
    <3>1. Told(p)
      BY <2>1, <2>4 DEF IInv
    <3>2. Shown(p)' = Shown(p)
      BY <1>1, <1>4, <2>2, <2>4 DEF Shown
    <3>. QED BY <1>1, <1>8, <2>4, <3>1, <3>2 DEF Told, Connection
  <2>. QED BY <2>3, <2>4
<1>. QED BY <1>5, <1>6, <1>7, <1>9 DEF IInv

LEMMA ReturnKeeps == ASSUME IInv, Return PROVE IInv'
<1>1. TypeOK'
  BY DEF Return, IInv, TypeOK, Facts
<1>2. Shape' /\ Stages'
  BY DEF Return, IInv, Shape, Stages
<1>3. Done' = Done
  BY DEF Return, Done
<1>4. ASSUME NEW p \in Done PROVE Told(p)'
  <2>1. Told(p)
    BY DEF IInv
  <2>. QED BY <2>1 DEF Return, Told, Shown, Connection
<1>. QED BY <1>1, <1>2, <1>3, <1>4 DEF IInv

LEMMA StepKeeps == IInv /\ [Next]_vars => IInv'
<1>. SUFFICES ASSUME IInv, [Next]_vars PROVE IInv'
  OBVIOUS
<1>1. CASE UNCHANGED vars
  <2>1. UNCHANGED <<world, cache, running, stage, pos, channels, published,
                    connected, faults, refreshed, steady>>
    BY <1>1 DEF vars
  <2>2. TypeOK' /\ Shape'
    BY <2>1 DEF IInv, TypeOK, Shape, Facts
  <2>3. Stages'
    BY <2>1 DEF IInv, Stages, Needed, Need, CacheOf
  <2>4. Done' = Done
    BY <2>1 DEF Done
  <2>5. ASSUME NEW p \in Done PROVE Told(p)'
    BY <2>1, <2>5 DEF IInv, Told, Shown, Connection
  <2>. QED BY <2>2, <2>3, <2>4, <2>5 DEF IInv
<1>2. ASSUME NEW s \in Sources, Change(s) PROVE IInv'
  BY <1>2, ChangeKeeps
<1>3. ASSUME NEW i \in Instances, Enter(i) PROVE IInv'
  BY <1>3, EnterKeeps
<1>4. CASE Execute
  <2>1. ASSUME NEW ok \in BOOLEAN, Refresh(ok) PROVE IInv'
    BY <2>1, RefreshKeeps
  <2>2. ASSUME NEW ok \in BOOLEAN, Publish(ok) PROVE IInv'
    BY <2>2, PublishKeeps
  <2>. QED BY <1>4, <2>1, <2>2, BeginPublishKeeps, ReturnKeeps DEF Execute
<1>. QED BY <1>1, <1>2, <1>3, <1>4 DEF Next

\* What the invariant promises follows from it.
LEMMA InvariantImplies == IInv => PublishInvariant
<1>. SUFFICES ASSUME IInv PROVE PublishInvariant
  OBVIOUS
<1>1. FreshWhenUsed
  <2>. SUFFICES ASSUME stage = "publish", pos \in DOMAIN channels[running]
       PROVE  CacheOf(channels[running][pos]) \subseteq refreshed
    BY DEF FreshWhenUsed
  <2>1. CacheOf(channels[running][pos]) \subseteq Need(channels[running][pos])
    BY ChannelsArePaths, CacheIsNeeded DEF IInv
  <2>2. Need(channels[running][pos]) \subseteq Needed
    BY DEF Needed
  <2>. QED BY <2>1, <2>2 DEF IInv, Stages
<1>2. SnapshotCoherent
  <2>1. ASSUME NEW m \in Media, DevOf(m) \in Done, Shown(DevOf(m)) = "NOT CONNECTED",
               NEW p \in FiguresOf(m) \cap Done
        PROVE  Shown(p) = "zero"
    <3>1. Connection(m, m) = "NOT CONNECTED"
      BY <2>1 DEF IInv, Told
    <3>2. m # "NOT CONNECTED"
      BY DEF Media
    <3>3. cache[m] = Gone
      BY <3>1, <3>2 DEF Connection
    <3>. QED BY <3>3 DEF IInv, Told
  <2>2. ASSUME Modem \subseteq Done
        PROVE  Shown("MODEM_STATUS") = "NOT CONNECTED"
                 <=> Shown("MODEM_IFACE") = "NOT CONNECTED"
    <3>1. Told("MODEM_STATUS") /\ Told("MODEM_IFACE")
      BY <2>2 DEF IInv, Modem
    <3>. QED BY <3>1 DEF Told, Modem
  <2>3. ASSUME "MODEM_IFACE" \in Done
        PROVE  connected[running] <=> Shown("MODEM_IFACE") # "NOT CONNECTED"
    <3>1. Told("MODEM_IFACE")
      BY <2>3 DEF IInv
    <3>. QED BY <3>1 DEF Told, Modem
  <2>. QED BY <2>1, <2>2, <2>3 DEF SnapshotCoherent
<1>. QED BY <1>1, <1>2 DEF IInv, PublishInvariant

\* In every reachable state a channel is published from caches this very call
\* refreshed, and the channels of one device agree, for every project.
THEOREM PublishSafe == Spec => []PublishInvariant
<1>1. Spec => []IInv
  BY InitHolds, StepKeeps, PTL DEF Spec
<1>. QED BY <1>1, InvariantImplies, PTL

-----------------------------------------------------------------------------
(* A quiet call is accurate.                                               *)

\* A sensor or a clock always reads something.
SensorsRead == \A s \in Sensors \cup Clocks : world[s] \in Readings

\* A cache refreshed in this call from a source that is steady tells the truth.
CacheIsTrue == \A s \in refreshed \cap steady : cache[s] = Check(s, world[s])

QuietInv == SensorsRead /\ CacheIsTrue /\ QuietCallIsAccurate

\* The branches of Truth exclude each other.
LEMMA TruthIs ==
    \A p \in Handled :
       /\ p \in Sensors \cup Clocks => Truth(p) = world[p]
       /\ p = "MODEM_STATUS" => Truth(p) = IF world["modem"] = Gone THEN "NOT CONNECTED" ELSE world["modem"]
       /\ p = "MODEM_IFACE" => Truth(p) = IF world["modem"] = Gone THEN "NOT CONNECTED" ELSE "/sys/class/net/usb0"
       /\ \A m \in Media : p = DevOf(m) => Truth(p) = IF world[m] = Gone THEN "NOT CONNECTED" ELSE m
       /\ \A m \in Media : p \in FiguresOf(m) => Truth(p) = Number(world[m])
<1>. TAKE p \in Handled
<1>1. p \in Sensors \cup Clocks => Truth(p) = world[p]
  BY Zenon DEF Truth, Sensors, Clocks, FiguresOf
<1>2. p = "MODEM_STATUS" => Truth(p) = IF world["modem"] = Gone THEN "NOT CONNECTED" ELSE world["modem"]
  BY Zenon DEF Truth, Sensors, Clocks, FiguresOf
<1>3. p = "MODEM_IFACE" => Truth(p) = IF world["modem"] = Gone THEN "NOT CONNECTED" ELSE "/sys/class/net/usb0"
  BY Zenon DEF Truth, Sensors, Clocks, FiguresOf
<1>4. \A m \in Media : p = DevOf(m) => Truth(p) = IF world[m] = Gone THEN "NOT CONNECTED" ELSE m
  <2>1. p = "USB_FLASH_DEV" => Truth(p) = IF world["usb"] = Gone THEN "NOT CONNECTED" ELSE "usb"
    BY Zenon DEF Truth, Sensors, Clocks, FiguresOf
  <2>2. p = "SD_CARD_DEV" => Truth(p) = IF world["sd"] = Gone THEN "NOT CONNECTED" ELSE "sd"
    BY Zenon DEF Truth, Sensors, Clocks, FiguresOf
  <2>. QED BY <2>1, <2>2 DEF Media, DevOf
<1>5. \A m \in Media : p \in FiguresOf(m) => Truth(p) = Number(world[m])
  <2>1. p \in FiguresOf("usb") => Truth(p) = Number(world["usb"])
    BY Zenon DEF Truth, Sensors, Clocks, FiguresOf
  <2>2. p \in FiguresOf("sd") => Truth(p) = Number(world["sd"])
    BY Zenon DEF Truth, Sensors, Clocks, FiguresOf
  <2>. QED BY <2>1, <2>2 DEF Media
<1>. QED BY <1>1, <1>2, <1>3, <1>4, <1>5

\* The same of the state after a step.
LEMMA TruthWillBe ==
    \A p \in Handled :
       /\ p \in Sensors \cup Clocks => Truth(p)' = world'[p]
       /\ p = "MODEM_STATUS" => Truth(p)' = IF world'["modem"] = Gone THEN "NOT CONNECTED" ELSE world'["modem"]
       /\ p = "MODEM_IFACE" => Truth(p)' = IF world'["modem"] = Gone THEN "NOT CONNECTED" ELSE "/sys/class/net/usb0"
       /\ \A m \in Media : p = DevOf(m) => Truth(p)' = IF world'[m] = Gone THEN "NOT CONNECTED" ELSE m
       /\ \A m \in Media : p \in FiguresOf(m) => Truth(p)' = Number(world'[m])
<1>1. (\A p \in Handled :
        /\ p \in Sensors \cup Clocks => Truth(p) = world[p]
        /\ p = "MODEM_STATUS" => Truth(p) = IF world["modem"] = Gone THEN "NOT CONNECTED" ELSE world["modem"]
        /\ p = "MODEM_IFACE" => Truth(p) = IF world["modem"] = Gone THEN "NOT CONNECTED" ELSE "/sys/class/net/usb0"
        /\ \A m \in Media : p = DevOf(m) => Truth(p) = IF world[m] = Gone THEN "NOT CONNECTED" ELSE m
        /\ \A m \in Media : p \in FiguresOf(m) => Truth(p) = Number(world[m]))'
  BY TruthIs, PTL
<1>. QED BY <1>1

\* What a path is about.
LEMMA SourceIs ==
    ASSUME NEW p \in Handled
    PROVE  /\ p \in Sensors \cup Clocks => SourceOf(p) = {p}
           /\ p \in Modem => SourceOf(p) = {"modem"}
           /\ \A m \in Media : p = DevOf(m) \/ p \in FiguresOf(m) => SourceOf(p) = {m}
           /\ \/ p \in Sensors \cup Clocks \/ p \in Modem
              \/ \E m \in Media : p = DevOf(m) \/ p \in FiguresOf(m)
<1>1. p \in Sensors \cup Clocks => SourceOf(p) = {p}
  BY DEF SourceOf, CacheOf, Sensors, Clocks
<1>2. p \in Modem => SourceOf(p) = {"modem"}
  BY DEF SourceOf, CacheOf, Sensors, Clocks, Modem
<1>3. \A m \in Media : p = DevOf(m) \/ p \in FiguresOf(m) => SourceOf(p) = {m}
  BY DEF SourceOf, CacheOf, Sensors, Clocks, Modem, Media, DevOf, FiguresOf
<1>4. \/ p \in Sensors \cup Clocks \/ p \in Modem
      \/ \E m \in Media : p = DevOf(m) \/ p \in FiguresOf(m)
  <2>1. p \in Paths /\ p # "USB_FLASH_LABEL" /\ p # "OTHER"
    BY DEF Handled
  <2>2. \/ p \in Sensors \cup Clocks \cup Modem
        \/ p \in {DevOf(m) : m \in Media}
        \/ p \in UNION {FiguresOf(m) : m \in Media}
    BY <2>1 DEF Paths
  <2>3. CASE p \in {DevOf(m) : m \in Media}
    BY <2>3
  <2>4. CASE p \in UNION {FiguresOf(m) : m \in Media}
    BY <2>4
  <2>. QED BY <2>2, <2>3, <2>4
<1>. QED BY <1>1, <1>2, <1>3, <1>4

\* The truth about a path does not change while its source does not.
LEMMA TruthDepends ==
    ASSUME IInv, NEW p \in Handled, NEW s \in Sources, s \notin SourceOf(p),
           NEW f, world' = [world EXCEPT ![s] = f]
    PROVE  Truth(p)' = Truth(p)
<1>1. \A t \in Sources : t # s => world'[t] = world[t]
  BY DEF IInv, Shape
<1>2. CASE p \in Sensors \cup Clocks
  <2>1. p \in Sources /\ p # s
    BY <1>2, SourceIs DEF Sources, Cached
  <2>2. Truth(p) = world[p] /\ Truth(p)' = world'[p]
    BY <1>2, TruthIs, TruthWillBe
  <2>. QED BY <1>1, <2>1, <2>2
<1>3. CASE p \in Modem
  <2>1. "modem" \in Sources /\ "modem" # s
    BY <1>3, SourceIs DEF Sources, Cached
  <2>. QED BY <1>1, <1>3, <2>1, TruthIs, TruthWillBe DEF Modem
<1>4. CASE \E m \in Media : p = DevOf(m) \/ p \in FiguresOf(m)
  <2>1. PICK m \in Media : p = DevOf(m) \/ p \in FiguresOf(m)
    BY <1>4
  <2>2. m \in Sources /\ m # s
    BY <2>1, SourceIs DEF Sources, Cached
  <2>3. world'[m] = world[m]
    BY <1>1, <2>2
  <2>4. CASE p = DevOf(m)
    <3>1. /\ Truth(p) = IF world[m] = Gone THEN "NOT CONNECTED" ELSE m
          /\ Truth(p)' = IF world'[m] = Gone THEN "NOT CONNECTED" ELSE m
      BY <2>4, TruthIs, TruthWillBe
    <3>. QED BY <2>3, <3>1
  <2>5. CASE p \in FiguresOf(m)
    <3>1. Truth(p) = Number(world[m]) /\ Truth(p)' = Number(world'[m])
      BY <2>5, TruthIs, TruthWillBe
    <3>. QED BY <2>3, <3>1 DEF Number
  <2>. QED BY <2>1, <2>4, <2>5
<1>. QED BY <1>2, <1>3, <1>4, SourceIs

\* A path that is published from true caches, by commands that work, shows
\* the truth.
LEMMA ValuesAreTrue ==
    ASSUME IInv, SensorsRead, NEW p \in Handled, NEW v \in Values(p, TRUE),
           \A s \in CacheOf(p) : cache[s] = Check(s, world[s])
    PROVE  v = Truth(p)
<1>1. CASE p \in Sensors
  <2>1. CacheOf(p) = {p} /\ Values(p, TRUE) = {Number(cache[p])}
    BY <1>1 DEF CacheOf, Values
  <2>2. world[p] \in Readings /\ Truth(p) = world[p]
    BY <1>1, TruthIs DEF SensorsRead
  <2>3. world[p] # Gone
    BY <2>2, DiagnosticsAssumption DEF DiagnosticsAssumption
  <2>. QED BY <1>1, <2>1, <2>2, <2>3 DEF Check, Number
<1>2. CASE p \in Clocks
  <2>1. Values(p, TRUE) = {world[p]}
    BY <1>2 DEF Values, Output, Clocks, Sensors
  <2>. QED BY <1>2, <2>1, TruthIs
<1>3. CASE p \in Modem
  <2>1. CacheOf(p) = {"modem"}
    BY <1>3 DEF CacheOf, Modem, Sensors
  <2>2. cache["modem"] = IF world["modem"] = Gone THEN Gone ELSE "present"
    BY <2>1 DEF Check, Sensors
  <2>3. cache["modem"] = Gone <=> world["modem"] = Gone
    BY <2>2 DEF Gone
  <2>4. CASE p = "MODEM_STATUS"
    <3>1. Values(p, TRUE) = {Connection("modem", world["modem"])}
      BY <2>4 DEF Values, Output, Sensors, Clocks
    <3>. QED BY <2>3, <2>4, <3>1, TruthIs DEF Connection
  <2>5. CASE p = "MODEM_IFACE"
    <3>1. Values(p, TRUE) = {Connection("modem", "/sys/class/net/usb0")}
      BY <2>5 DEF Values, Sensors, Clocks
    <3>. QED BY <2>3, <2>5, <3>1, TruthIs DEF Connection
  <2>. QED BY <1>3, <2>4, <2>5 DEF Modem
<1>4. ASSUME NEW m \in Media, p = DevOf(m) \/ p \in FiguresOf(m)
      PROVE  v = Truth(p)
  <2>1. p \notin Sensors \cup Clocks \cup Modem
    BY <1>4 DEF DevOf, FiguresOf, Media, Sensors, Clocks, Modem
  <2>2. CacheOf(p) = {m}
    BY <1>4, <2>1 DEF CacheOf, DevOf, FiguresOf, Media
  <2>3. cache[m] = IF world[m] = Gone THEN Gone ELSE "present"
    BY <2>2 DEF Check, Media, Sensors
  <2>4. cache[m] = Gone <=> world[m] = Gone
    BY <2>3 DEF Gone
  <2>5. CASE p = DevOf(m)
    <3>1. Values(p, TRUE) = {Connection(n, n) : n \in {m}}
      BY <2>1, <2>2, <2>5 DEF Values, Modem
    <3>2. v = Connection(m, m)
      BY <3>1
    <3>. QED BY <2>4, <2>5, <3>2, TruthIs DEF Connection
  <2>6. CASE p \in FiguresOf(m)
    <3>1. \A n \in Media : p # DevOf(n)
      BY <2>6 DEF FiguresOf, Media, DevOf
    <3>2. Values(p, TRUE) = Figures(p, TRUE)
      BY <2>1, <2>6, <3>1 DEF Values, Modem
    <3>3. Truth(p) = Number(world[m])
      BY <2>6, TruthIs
    <3>4. CASE world[m] = Gone
      <4>1. Figures(p, TRUE) = {"zero"}
        BY <2>2, <2>4, <3>4 DEF Figures
      <4>. QED BY <3>2, <3>3, <3>4, <4>1 DEF Number
    <3>5. CASE world[m] # Gone
      <4>1. Df(m, TRUE) = {world[m]}
        BY <3>5 DEF Df
      <4>2. PICK n \in CacheOf(p) : v \in IF cache[n] = Gone THEN {"zero"} ELSE {Number(f) : f \in Df(n, TRUE)}
        BY <3>2 DEF Figures
      <4>3. v \in {Number(f) : f \in Df(m, TRUE)}
        BY <2>2, <2>4, <3>5, <4>2
      <4>. QED BY <3>3, <4>1, <4>3
    <3>. QED BY <3>4, <3>5
  <2>. QED BY <1>4, <2>5, <2>6
<1>. QED BY <1>1, <1>2, <1>3, <1>4, SourceIs

\* What a call publishes of a source that did not change during the call, and
\* whose commands worked, is how things are, for every project.
THEOREM QuietCallsTellTheTruth == Spec => []QuietCallIsAccurate
<1>1. Init => QuietInv
  <2>. SUFFICES ASSUME Init PROVE QuietInv
    OBVIOUS
  <2>1. SensorsRead
    <3>1. (CHOOSE r \in Readings : TRUE) \in Readings
      BY DiagnosticsAssumption DEF DiagnosticsAssumption
    <3>2. \A s \in Sensors \cup Clocks : s \in Sources /\ s \notin Media \cup {"modem"}
      BY DEF Sensors, Clocks, Sources, Cached, Media
    <3>. QED BY <3>1, <3>2 DEF Init, SensorsRead
  <2>2. CacheIsTrue
    BY DEF Init, CacheIsTrue
  <2>3. Done = {}
    BY InitHolds, NothingDone DEF Init, IInv
  <2>. QED BY <2>1, <2>2, <2>3 DEF QuietInv, QuietCallIsAccurate
<1>2. IInv /\ QuietInv /\ [Next]_vars => QuietInv'
  <2>. SUFFICES ASSUME IInv, QuietInv, [Next]_vars PROVE QuietInv'
    OBVIOUS
  <2>0. IInv'
    BY StepKeeps
  <2>1. CASE UNCHANGED vars
    <3>1. UNCHANGED <<world, cache, running, stage, pos, channels, published,
                      connected, faults, refreshed, steady>>
      BY <2>1 DEF vars
    <3>2. Done' = Done
      BY <3>1 DEF Done
    <3>3. ASSUME NEW p \in Handled PROVE Truth(p)' = Truth(p)
      BY <3>1 DEF Truth
    <3>4. Done \subseteq Handled
      BY DEF Done
    <3>5. QuietCallIsAccurate'
      BY <3>1, <3>2, <3>3, <3>4 DEF QuietInv, QuietCallIsAccurate, Shown
    <3>. QED BY <3>1, <3>5 DEF QuietInv, SensorsRead, CacheIsTrue
  <2>2. ASSUME NEW s \in Sources, Change(s) PROVE QuietInv'
    <3>1. PICK f \in Facts(s) \cup IF s \in Media \cup {"modem"} THEN {Gone} ELSE {} :
             world' = [world EXCEPT ![s] = f]
      BY <2>2 DEF Change
    <3>2. /\ UNCHANGED <<cache, running, channels, pos, published, refreshed>>
          /\ steady' = steady \ {s}
      BY <2>2 DEF Change
    <3>3. \A t \in Sources : world'[t] = IF t = s THEN f ELSE world[t]
      BY <3>1 DEF IInv, Shape
    <3>4. SensorsRead'
      <4>. SUFFICES ASSUME NEW t \in Sensors \cup Clocks PROVE world'[t] \in Readings
        BY DEF SensorsRead
      <4>1. t \in Sources /\ t \notin Media \cup {"modem"}
        BY DEF Sensors, Clocks, Sources, Cached, Media
      <4>2. t = s => f \in Readings
        BY <4>1, <3>1 DEF Facts
      <4>. QED BY <3>3, <4>1, <4>2 DEF QuietInv, SensorsRead
    <3>5. CacheIsTrue'
      <4>. SUFFICES ASSUME NEW t \in refreshed' \cap steady' PROVE cache'[t] = Check(t, world'[t])
        BY DEF CacheIsTrue, Check
      <4>1. t \in refreshed \cap steady /\ t # s
        BY <3>2
      <4>2. t \in Sources
        BY <4>1 DEF IInv, TypeOK
      <4>. QED BY <3>2, <3>3, <4>1, <4>2 DEF QuietInv, CacheIsTrue
    <3>6. QuietCallIsAccurate'
      <4>. SUFFICES ASSUME NEW p \in Done', SourceOf(p) \subseteq steady' PROVE Shown(p)' = Truth(p)'
        BY DEF QuietCallIsAccurate, SourceOf, CacheOf
      <4>1. p \in Done /\ p \in Handled
        BY <3>2 DEF Done
      <4>2. s \notin SourceOf(p) /\ SourceOf(p) \subseteq steady
        BY <3>2
      <4>3. Truth(p)' = Truth(p)
        BY <3>1, <4>1, <4>2, TruthDepends
      <4>4. Shown(p)' = Shown(p)
        BY <3>2 DEF Shown
      <4>. QED BY <4>1, <4>2, <4>3, <4>4 DEF QuietInv, QuietCallIsAccurate
    <3>. QED BY <3>4, <3>5, <3>6 DEF QuietInv
  <2>3. ASSUME NEW i \in Instances, Enter(i) PROVE QuietInv'
    <3>1. Done' = {}
      <4>1. channels'[running'] \in Seq(Paths) /\ pos' = 1
        BY <2>0, <2>3, DiagnosticsAssumption DEF IInv, TypeOK, Enter, DiagnosticsAssumption
      <4>2. \A k \in DOMAIN channels'[running'] : ~(k < pos')
        BY <4>1
      <4>. QED BY <4>2 DEF Done
    <3>2. world' = world /\ refreshed' = {}
      BY <2>3 DEF Enter
    <3>. QED BY <3>1, <3>2 DEF QuietInv, SensorsRead, CacheIsTrue, QuietCallIsAccurate
  <2>4. ASSUME NEW ok \in BOOLEAN, Refresh(ok) PROVE QuietInv'
    <3>1. PICK s \in Cached :
            /\ cache' = [cache EXCEPT ![s] = Check(s, Output(world[s], ok))]
            /\ refreshed' = refreshed \cup {s}
            /\ steady' = IF ok THEN steady ELSE steady \ {s}
      BY <2>4 DEF Refresh
    <3>2. UNCHANGED <<world, running, pos, channels>> /\ stage = "refresh"
      BY <2>4 DEF Refresh
    <3>3. \A t \in Cached : cache'[t] = IF t = s THEN Check(s, Output(world[s], ok)) ELSE cache[t]
      BY <3>1 DEF IInv, Shape
    <3>4. CacheIsTrue'
      <4>. SUFFICES ASSUME NEW t \in refreshed' \cap steady' PROVE cache'[t] = Check(t, world'[t])
        BY DEF CacheIsTrue, Check
      <4>1. t \in Cached
        BY <2>0 DEF IInv, TypeOK
      <4>2. CASE t = s
        <5>1. ok
          BY <3>1, <4>2
        <5>. QED BY <3>2, <3>3, <4>1, <4>2, <5>1 DEF Output
      <4>3. CASE t # s
        BY <3>1, <3>2, <3>3, <4>1, <4>3 DEF QuietInv, CacheIsTrue
      <4>. QED BY <4>2, <4>3
    <3>5. Done' = {}
      <4>1. Done = {}
        BY <3>2, NothingDone DEF IInv, Stages
      <4>. QED BY <3>2, <4>1 DEF Done
    <3>. QED BY <3>2, <3>4, <3>5 DEF QuietInv, SensorsRead, QuietCallIsAccurate
  <2>5. CASE BeginPublish \/ Return
    <3>1. UNCHANGED <<world, cache, running, pos, channels, published, refreshed, steady>>
      BY <2>5 DEF BeginPublish, Return
    <3>2. Done' = Done /\ Done \subseteq Handled
      BY <3>1 DEF Done
    <3>3. ASSUME NEW p \in Handled PROVE Truth(p)' = Truth(p)
      BY <3>1 DEF Truth
    <3>4. QuietCallIsAccurate'
      BY <3>1, <3>2, <3>3 DEF QuietInv, QuietCallIsAccurate, Shown
    <3>. QED BY <3>1, <3>4 DEF QuietInv, SensorsRead, CacheIsTrue
  <2>6. ASSUME NEW ok \in BOOLEAN, Publish(ok) PROVE QuietInv'
    <3>. DEFINE path == channels[running][pos]
    <3>1. /\ pos \in DOMAIN channels[running] /\ stage = "publish"
          /\ pos' = pos + 1
          /\ UNCHANGED <<world, cache, running, channels, refreshed>>
          /\ steady' = IF ok THEN steady ELSE steady \ SourceOf(path)
      BY <2>6 DEF Publish
    <3>2. PICK v \in Values(path, ok) : published' = [published EXCEPT ![running][path] = v]
      BY <2>6 DEF Publish
    <3>3. path \in Paths /\ running \in Instances
      BY <3>1, ChannelsArePaths DEF IInv, TypeOK
    <3>4. \A p \in Paths : Shown(p)' = IF p = path THEN v ELSE Shown(p)
      BY <3>1, <3>2, <3>3 DEF IInv, Shape, Shown
    <3>5. ASSUME NEW p \in Handled PROVE Truth(p)' = Truth(p)
      BY <3>1 DEF Truth
    <3>6. QuietCallIsAccurate'
      <4>. SUFFICES ASSUME NEW p \in Done', SourceOf(p) \subseteq steady' PROVE Shown(p)' = Truth(p)'
        BY DEF QuietCallIsAccurate, SourceOf, CacheOf
      <4>1. p \in Done \cup ({path} \cap Handled) /\ p \in Handled /\ p \in Paths
        BY <3>1, OneMoreDone DEF IInv, Done, Handled
      <4>2. SourceOf(p) \subseteq steady
        BY <3>1
      <4>3. CASE p # path
        BY <3>4, <3>5, <4>1, <4>2, <4>3 DEF QuietInv, QuietCallIsAccurate
      <4>4. CASE p = path
        <5>1. SourceOf(p) # {}
          BY <4>1, SourceIs
        <5>2. ok
          BY <3>1, <4>4, <5>1
        <5>3. CacheOf(p) \subseteq refreshed
          BY <3>1, <4>4, InvariantImplies DEF PublishInvariant, FreshWhenUsed
        <5>4. CacheOf(p) \subseteq SourceOf(p)
          BY DEF SourceOf, CacheOf, Sensors, Clocks, Modem, Media, DevOf, FiguresOf
        <5>5. \A s \in CacheOf(p) : cache[s] = Check(s, world[s])
          BY <4>2, <5>3, <5>4 DEF QuietInv, CacheIsTrue
        <5>6. v \in Values(p, TRUE)
          BY <3>2, <4>4, <5>2
        <5>7. v = Truth(p)
          BY <4>1, <5>5, <5>6, ValuesAreTrue DEF QuietInv
        <5>. QED BY <3>4, <3>5, <4>1, <4>4, <5>7
      <4>. QED BY <4>3, <4>4
    <3>7. CacheIsTrue'
      BY <3>1 DEF QuietInv, CacheIsTrue
    <3>. QED BY <3>1, <3>6, <3>7 DEF QuietInv, SensorsRead
  <2>. QED BY <2>1, <2>2, <2>3, <2>4, <2>5, <2>6 DEF Next, Execute
<1>3. Spec => []IInv
  BY InitHolds, StepKeeps, PTL DEF Spec
<1>4. QuietInv => QuietCallIsAccurate
  BY DEF QuietInv
<1>. QED BY <1>1, <1>2, <1>3, <1>4, PTL DEF Spec

=============================================================================
