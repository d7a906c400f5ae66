---------------------------- MODULE Cache2QProofs ----------------------------
(***************************************************************************)
(* Proofs about the 2Q cache of the SDK, for every limit, any blocks and   *)
(* any threads: the lists, maps and identifiers agree, a holder never      *)
(* reaches another block than its own, and a cache made for four blocks or *)
(* more is a 2Q queue.                                                     *)
(***************************************************************************)
EXTENDS Cache2Q, SequenceTheorems, FiniteSetTheorems, FunctionTheorems, TLAPS

-----------------------------------------------------------------------------
(* Lists.                                                                  *)

\* A node put in front of a list.
LEMMA Pushed ==
    ASSUME NEW S, NEW s \in Seq(S), NEW b \in S
    PROVE  LET p == Push(s, b)
           IN  /\ p \in Seq(S) /\ Len(p) = Len(s) + 1 /\ Len(s) \in Nat
               /\ p # <<>> /\ Head(p) = b /\ p[1] = b
               /\ \A i \in 1 .. Len(s) : p[i + 1] = s[i]
               /\ Range(p) = Range(s) \cup {b}
               /\ IsInjective(s) /\ b \notin Range(s) => IsInjective(p)
<1>. DEFINE p == Push(s, b)
<1>1. /\ p \in Seq(S) /\ Len(p) = Len(s) + 1 /\ Len(s) \in Nat
      /\ \A i \in 1 .. Len(p) : p[i] = IF i = 1 THEN b ELSE s[i - 1]
  BY DEF Push
<1>. HIDE DEF p
<1>2. p # <<>> /\ Head(p) = b /\ p[1] = b /\ \A i \in 1 .. Len(s) : p[i + 1] = s[i]
  BY <1>1
<1>3. DOMAIN p = 1 .. Len(p) /\ DOMAIN s = 1 .. Len(s)
  BY <1>1
<1>4. Range(p) = Range(s) \cup {b}
  <2>1. \A i \in 1 .. Len(p) : p[i] \in Range(s) \cup {b}
    <3>. SUFFICES ASSUME NEW i \in 1 .. Len(p), i # 1 PROVE s[i - 1] \in Range(s)
      BY <1>1
    <3>1. i - 1 \in 1 .. Len(s)
      BY <1>1
    <3>. QED BY <3>1, <1>3 DEF Range
  <2>2. \A i \in 1 .. Len(s) : i + 1 \in 1 .. Len(p)
    BY <1>1
  <2>3. 1 \in 1 .. Len(p)
    BY <1>1
  <2>4. Range(s) \cup {b} \subseteq Range(p)
    <3>1. b \in Range(p)
      BY <2>3, <1>2, <1>3 DEF Range
    <3>2. ASSUME NEW i \in 1 .. Len(s) PROVE s[i] \in Range(p)
      <4>1. i + 1 \in DOMAIN p /\ p[i + 1] = s[i]
        BY <2>2, <1>2, <1>3
      <4>. QED BY <4>1 DEF Range
    <3>. QED BY <3>1, <3>2, <1>3 DEF Range
  <2>5. Range(p) \subseteq Range(s) \cup {b}
    BY <2>1, <1>3 DEF Range
  <2>. QED BY <2>4, <2>5
<1>5. IsInjective(s) /\ b \notin Range(s) => IsInjective(p)
  <2>. SUFFICES ASSUME IsInjective(s), b \notin Range(s),
                      NEW i \in 1 .. Len(p), NEW j \in 1 .. Len(p), p[i] = p[j]
               PROVE  i = j
    BY <1>3 DEF IsInjective
  <2>1. \A k \in 1 .. Len(p) : k # 1 => k - 1 \in 1 .. Len(s) /\ p[k] = s[k - 1] /\ p[k] # b
    <3>1. \A k \in 1 .. Len(p) : k # 1 => k - 1 \in 1 .. Len(s) /\ p[k] = s[k - 1]
      BY <1>1
    <3>2. \A k \in 1 .. Len(s) : s[k] # b
      BY <1>3 DEF Range
    <3>. QED BY <3>1, <3>2
  <2>2. CASE i # 1 /\ j # 1
    <3>1. i - 1 = j - 1
      BY <2>1, <2>2, <1>3 DEF IsInjective
    <3>. QED BY <3>1
  <2>. QED BY <2>1, <2>2, <1>2
<1>. QED BY <1>1, <1>2, <1>4, <1>5 DEF p

\* The list without its last node.
LEMMA Popped ==
    ASSUME NEW S, NEW s \in Seq(S), s # <<>>
    PROVE  /\ Front(s) \in Seq(S) /\ Len(Front(s)) = Len(s) - 1 /\ Len(s) \in Nat \ {0}
           /\ Last(s) \in S /\ Last(s) \in Range(s)
           /\ \A i \in 1 .. Len(s) - 1 : Front(s)[i] = s[i]
           /\ Range(s) = Range(Front(s)) \cup {Last(s)}
           /\ IsInjective(s) => IsInjective(Front(s)) /\ Last(s) \notin Range(Front(s))
<1>. DEFINE f == Front(s)
<1>1. /\ f \in Seq(S) /\ Len(f) = Len(s) - 1 /\ Len(s) \in Nat \ {0}
      /\ \A i \in 1 .. Len(s) - 1 : f[i] = s[i]
  <2>1. Len(s) \in Nat \ {0} /\ \A i \in 1 .. Len(s) : s[i] \in S
    OBVIOUS
  <2>. DEFINE n == Len(s) - 1
  <2>2. n \in Int /\ 1 \in Int /\ \A i \in 1 .. n : s[i] \in S
    BY <2>1
  <2>. HIDE DEF n
  <2>3. /\ SubSeq(s, 1, n) \in Seq(S)
        /\ Len(SubSeq(s, 1, n)) = IF 1 <= n THEN n - 1 + 1 ELSE 0
        /\ \A i \in 1 .. n - 1 + 1 : SubSeq(s, 1, n)[i] = s[1 + i - 1]
    BY <2>2, SubSeqProperties
  <2>4. f = SubSeq(s, 1, n)
    BY DEF n, Front
  <2>. HIDE DEF f
  <2>5. n - 1 + 1 = n /\ (IF 1 <= n THEN n - 1 + 1 ELSE 0) = n /\ \A i \in 1 .. n : 1 + i - 1 = i
    <3>1. n \in Nat
      BY <2>1 DEF n
    <3>. QED BY <3>1
  <2>. QED BY <2>1, <2>3, <2>4, <2>5 DEF n
<1>2. DOMAIN f = 1 .. Len(s) - 1 /\ DOMAIN s = 1 .. Len(s)
  BY <1>1
<1>. HIDE DEF f
<1>3. Last(s) \in S /\ Last(s) \in Range(s)
  BY <1>1, <1>2 DEF Last, Range
<1>4. Range(s) = Range(f) \cup {Last(s)}
  BY <1>1, <1>2 DEF Last, Range
<1>5. IsInjective(s) => IsInjective(f) /\ Last(s) \notin Range(f)
  BY <1>1, <1>2 DEF Last, Range, IsInjective
<1>. QED BY <1>1, <1>3, <1>4, <1>5 DEF f

\* The list without the node of b.
LEMMA Removed ==
    ASSUME NEW S, NEW s \in Seq(S), NEW b \in Range(s), IsInjective(s)
    PROVE  LET r == Without(s, b)
           IN  /\ r \in Seq(S) /\ Len(r) = Len(s) - 1 /\ Len(s) \in Nat \ {0}
               /\ Range(r) = Range(s) \ {b}
               /\ IsInjective(r)
               /\ \E k \in 1 .. Len(s) :
                    /\ s[k] = b
                    /\ \A i \in 1 .. Len(s) - 1 : r[i] = IF i < k THEN s[i] ELSE s[i + 1]
<1>. DEFINE r == Without(s, b)
<1>1. PICK k \in 1 .. Len(s) : s[k] = b
  BY DEF Range
<1>2. \A i \in 1 .. Len(s) : s[i] = b => i = k
  BY <1>1 DEF IsInjective
<1>3. SelectInSeq(s, LAMBDA v : v = b) = k
  BY <1>1, <1>2 DEF SelectInSeq, Min
<1>4. r = RemoveAt(s, k)
  BY <1>1, <1>3 DEF Without, RemoveFirst
<1>5. /\ r \in Seq(S) /\ Len(r) = Len(s) - 1 /\ Len(s) \in Nat \ {0}
      /\ \A i \in 1 .. Len(s) - 1 : r[i] = IF i < k THEN s[i] ELSE s[i + 1]
  <2>1. /\ SubSeq(s, 1, k - 1) \in Seq(S) /\ Len(SubSeq(s, 1, k - 1)) = k - 1
        /\ \A i \in 1 .. k - 1 : SubSeq(s, 1, k - 1)[i] = s[i]
    BY SubSeqProperties
  <2>2. /\ SubSeq(s, k + 1, Len(s)) \in Seq(S) /\ Len(SubSeq(s, k + 1, Len(s))) = Len(s) - k
        /\ \A i \in 1 .. Len(s) - k : SubSeq(s, k + 1, Len(s))[i] = s[k + i]
    BY SubSeqProperties
  <2>. HIDE DEF r
  <2>3. r = SubSeq(s, 1, k - 1) \o SubSeq(s, k + 1, Len(s))
    BY <1>4 DEF RemoveAt
  <2>4. /\ r \in Seq(S) /\ Len(r) = Len(s) - 1
        /\ \A i \in 1 .. Len(s) - 1 :
             r[i] = IF i <= k - 1 THEN SubSeq(s, 1, k - 1)[i] ELSE SubSeq(s, k + 1, Len(s))[i - (k - 1)]
    <3>. DEFINE x == SubSeq(s, 1, k - 1)
                y == SubSeq(s, k + 1, Len(s))
    <3>. HIDE DEF x, y
    <3>1. x \in Seq(S) /\ y \in Seq(S) /\ Len(x) = k - 1 /\ Len(y) = Len(s) - k /\ r = x \o y
      BY <2>1, <2>2, <2>3 DEF x, y
    <3>2. /\ r \in Seq(S) /\ Len(r) = Len(x) + Len(y)
          /\ \A i \in 1 .. Len(x) + Len(y) : r[i] = IF i <= Len(x) THEN x[i] ELSE y[i - Len(x)]
      BY <3>1, ConcatProperties
    <3>3. Len(x) + Len(y) = Len(s) - 1
      BY <3>1
    <3>. QED BY <3>1, <3>2, <3>3 DEF x, y
  <2>5. ASSUME NEW i \in 1 .. Len(s) - 1 PROVE r[i] = IF i < k THEN s[i] ELSE s[i + 1]
    <3>1. CASE i < k
      BY <3>1, <2>1, <2>4
    <3>2. CASE i >= k
      <4>1. i - (k - 1) \in 1 .. Len(s) - k /\ k + (i - (k - 1)) = i + 1
        BY <3>2
      <4>. QED BY <3>2, <4>1, <2>2, <2>4
    <3>. QED BY <3>1, <3>2
  <2>6. Len(s) \in Nat \ {0}
    OBVIOUS
  <2>7. r \in Seq(S) /\ Len(r) = Len(s) - 1
    BY <2>4, Zenon
  <2>. QED BY <2>5, <2>6, <2>7, Zenon
<1>. HIDE DEF r
<1>6. DOMAIN r = 1 .. Len(s) - 1 /\ DOMAIN s = 1 .. Len(s)
  BY <1>5
<1>7. Range(r) = Range(s) \ {b}
  <2>1. \A i \in 1 .. Len(s) - 1 : r[i] \in Range(s) /\ r[i] # b
    BY <1>1, <1>2, <1>5, <1>6, SMTT(30) DEF Range
  <2>2. ASSUME NEW i \in 1 .. Len(s), s[i] # b PROVE s[i] \in Range(r)
    <3>1. CASE i < k
      BY <3>1, <1>5, <1>6, SMTT(30) DEF Range
    <3>2. CASE i > k
      <4>1. i - 1 \in 1 .. Len(s) - 1 /\ r[i - 1] = s[i]
        BY <3>2, <1>1, <1>5
      <4>. QED BY <4>1, <1>6 DEF Range
    <3>. QED BY <3>1, <3>2, <1>1, <2>2
  <2>. QED BY <2>1, <2>2, <1>6 DEF Range
<1>8. IsInjective(r)
  <2>. SUFFICES ASSUME NEW i \in 1 .. Len(s) - 1, NEW j \in 1 .. Len(s) - 1, r[i] = r[j]
               PROVE  i = j
    BY <1>6 DEF IsInjective
  <2>. DEFINE at(n) == IF n < k THEN n ELSE n + 1
  <2>1. at(i) \in 1 .. Len(s) /\ at(j) \in 1 .. Len(s) /\ r[i] = s[at(i)] /\ r[j] = s[at(j)]
    BY <1>5
  <2>. HIDE DEF at
  <2>2. at(i) = at(j)
    BY <2>1, <1>6 DEF IsInjective
  <2>. QED BY <2>2 DEF at
<1>. QED BY <1>1, <1>5, <1>7, <1>8 DEF r

\* What becomes of two lists read as one.
LEMMA Joined ==
    ASSUME NEW S, NEW x \in Seq(S), NEW y \in Seq(S)
    PROVE  LET z == x \o y
           IN  /\ z \in Seq(S) /\ Len(z) = Len(x) + Len(y)
               /\ Range(z) = Range(x) \cup Range(y)
               /\ (IsInjective(x) /\ IsInjective(y) /\ Range(x) \cap Range(y) = {}) => IsInjective(z)
               /\ \A b \in S : Push(x, b) \o y = Push(z, b)
               /\ \A i \in 1 .. Len(y) : Len(x) + i \in DOMAIN z /\ z[Len(x) + i] = y[i]
<1>. DEFINE z == x \o y
<1>1. /\ z \in Seq(S) /\ Len(z) = Len(x) + Len(y) /\ Len(x) \in Nat /\ Len(y) \in Nat
      /\ \A i \in 1 .. Len(x) + Len(y) : z[i] = IF i <= Len(x) THEN x[i] ELSE y[i - Len(x)]
  BY ConcatProperties
<1>2. DOMAIN x = 1 .. Len(x) /\ DOMAIN y = 1 .. Len(y) /\ DOMAIN z = 1 .. Len(x) + Len(y)
  BY <1>1
<1>3. Range(z) = Range(x) \cup Range(y)
  BY RangeConcatenation
<1>4. \A b \in S : Push(x, b) \o y = Push(z, b)
  BY ConcatAssociative DEF Push
<1>. HIDE DEF z
<1>5. \A i \in 1 .. Len(y) : Len(x) + i \in DOMAIN z /\ z[Len(x) + i] = y[i]
  <2>. TAKE i \in 1 .. Len(y)
  <2>1. Len(x) + i \in 1 .. Len(x) + Len(y) /\ ~(Len(x) + i <= Len(x)) /\ Len(x) + i - Len(x) = i
    BY <1>1
  <2>. QED BY <2>1, <1>1, <1>2
<1>6. ASSUME IsInjective(x), IsInjective(y), Range(x) \cap Range(y) = {}
      PROVE  IsInjective(z)
  <2>1. \A i \in DOMAIN z : \/ i \in DOMAIN x /\ z[i] = x[i] /\ z[i] \in Range(x)
                            \/ i - Len(x) \in DOMAIN y /\ z[i] = y[i - Len(x)] /\ z[i] \in Range(y)
    <3>. TAKE i \in DOMAIN z
    <3>1. CASE i <= Len(x)
      <4>1. i \in DOMAIN x /\ z[i] = x[i]
        BY <3>1, <1>1, <1>2
      <4>. QED BY <4>1 DEF Range
    <3>2. CASE i > Len(x)
      <4>1. i - Len(x) \in DOMAIN y /\ z[i] = y[i - Len(x)]
        BY <3>2, <1>1, <1>2
      <4>. QED BY <4>1 DEF Range
    <3>. QED BY <3>1, <3>2, <1>1, <1>2
  <2>. SUFFICES ASSUME NEW i \in DOMAIN z, NEW j \in DOMAIN z, z[i] = z[j] PROVE i = j
    BY DEF IsInjective
  <2>2. CASE z[i] \in Range(x)
    BY <2>1, <2>2, <1>6 DEF IsInjective
  <2>3. CASE z[i] \in Range(y)
    <3>1. i - Len(x) = j - Len(x)
      BY <2>1, <2>3, <1>6 DEF IsInjective
    <3>. QED BY <3>1, <1>1, <1>2
  <2>. QED BY <2>1, <2>2, <2>3
<1>. QED BY <1>1, <1>3, <1>4, <1>5, <1>6 DEF z

\* The last node of the first of two lists moves to the front of the second.
LEMMA MovedOver ==
    ASSUME NEW S, NEW x \in Seq(S), NEW y \in Seq(S), x # <<>>
    PROVE  Front(x) \o Push(y, Last(x)) = x \o y
<1>1. Front(x) \in Seq(S) /\ Last(x) \in S /\ Len(Front(x)) = Len(x) - 1 /\ Len(x) \in Nat \ {0}
      /\ \A i \in 1 .. Len(x) - 1 : Front(x)[i] = x[i]
  BY Popped
<1>2. x = Front(x) \o <<Last(x)>>
  <2>. DEFINE w == Front(x) \o <<Last(x)>>
  <2>1. w \in Seq(S) /\ Len(w) = Len(x)
        /\ \A i \in 1 .. Len(x) : w[i] = IF i <= Len(x) - 1 THEN Front(x)[i] ELSE <<Last(x)>>[i - (Len(x) - 1)]
    BY <1>1, ConcatProperties
  <2>. HIDE DEF w
  <2>2. \A i \in 1 .. Len(x) : w[i] = x[i]
    BY <2>1, <1>1 DEF Last
  <2>3. w = x
    BY <2>1, <2>2, SeqEqual
  <2>. QED BY <2>3 DEF w
<1>3. <<Last(x)>> \in Seq(S)
  BY <1>1
<1>4. (Front(x) \o <<Last(x)>>) \o y = Front(x) \o (<<Last(x)>> \o y)
  BY <1>1, <1>3, ConcatAssociative
<1>. QED BY <1>2, <1>4 DEF Push

\* The last of two lists is what is left of when they lose a node at the end.
LEMMA FrontOfJoined ==
    ASSUME NEW S, NEW x \in Seq(S), NEW y \in Seq(S), y # <<>>
    PROVE  Front(x \o y) = x \o Front(y)
<1>. DEFINE z == x \o y
            f == Front(z)
            w == x \o Front(y)
<1>1. /\ z \in Seq(S) /\ Len(z) = Len(x) + Len(y) /\ Len(x) \in Nat
      /\ \A i \in 1 .. Len(x) + Len(y) : z[i] = IF i <= Len(x) THEN x[i] ELSE y[i - Len(x)]
  BY ConcatProperties
<1>2. Front(y) \in Seq(S) /\ Len(Front(y)) = Len(y) - 1 /\ Len(y) \in Nat \ {0}
      /\ \A i \in 1 .. Len(y) - 1 : Front(y)[i] = y[i]
  BY Popped
<1>3. z # <<>>
  BY <1>1, <1>2
<1>. HIDE DEF z
<1>4. f \in Seq(S) /\ Len(f) = Len(z) - 1 /\ \A i \in 1 .. Len(z) - 1 : f[i] = z[i]
  BY <1>1, <1>3, Popped
<1>5. /\ w \in Seq(S) /\ Len(w) = Len(x) + (Len(y) - 1)
      /\ \A i \in 1 .. Len(x) + (Len(y) - 1) : w[i] = IF i <= Len(x) THEN x[i] ELSE Front(y)[i - Len(x)]
  <2>. DEFINE v == Front(y)
  <2>1. v \in Seq(S) /\ Len(v) = Len(y) - 1
    BY <1>2
  <2>. HIDE DEF v
  <2>2. /\ x \o v \in Seq(S) /\ Len(x \o v) = Len(x) + Len(v)
        /\ \A i \in 1 .. Len(x) + Len(v) : (x \o v)[i] = IF i <= Len(x) THEN x[i] ELSE v[i - Len(x)]
    BY <2>1, ConcatProperties
  <2>. QED BY <2>1, <2>2 DEF v
<1>. HIDE DEF f, w
<1>6. Len(f) = Len(w)
  BY <1>1, <1>2, <1>4, <1>5
<1>7. ASSUME NEW i \in 1 .. Len(f) PROVE f[i] = w[i]
  <2>1. i \in 1 .. Len(x) + (Len(y) - 1) /\ i \in 1 .. Len(x) + Len(y) /\ i \in 1 .. Len(z) - 1
    BY <1>1, <1>2, <1>4, <1>7
  <2>2. CASE i <= Len(x)
    BY <2>1, <2>2, <1>1, <1>4, <1>5
  <2>3. CASE i > Len(x)
    <3>1. i - Len(x) \in 1 .. Len(y) - 1
      BY <2>1, <2>3, <1>1, <1>2
    <3>. QED BY <2>1, <2>3, <3>1, <1>1, <1>2, <1>4, <1>5
  <2>. QED BY <2>1, <2>2, <2>3, <1>1
<1>8. f = w
  BY <1>4, <1>5, <1>6, <1>7, SeqEqual
<1>. QED BY <1>8 DEF f, w, z

\* A node that lies in the second of two lists.
LEMMA RemovedFromSecond ==
    ASSUME NEW S, NEW x \in Seq(S), NEW y \in Seq(S), IsInjective(x \o y), IsInjective(y),
           NEW b \in Range(y), b \notin Range(x)
    PROVE  Without(x \o y, b) = x \o Without(y, b)
<1>. DEFINE z == x \o y
            r == Without(z, b)
            q == Without(y, b)
            w == x \o q
<1>1. /\ z \in Seq(S) /\ Len(z) = Len(x) + Len(y) /\ Len(x) \in Nat /\ Len(y) \in Nat
      /\ \A i \in 1 .. Len(x) + Len(y) : z[i] = IF i <= Len(x) THEN x[i] ELSE y[i - Len(x)]
      /\ b \in Range(z)
  BY ConcatProperties, Joined
<1>2. PICK k \in 1 .. Len(y) :
         /\ y[k] = b
         /\ \A i \in 1 .. Len(y) - 1 : q[i] = IF i < k THEN y[i] ELSE y[i + 1]
  BY Removed
<1>3. q \in Seq(S) /\ Len(q) = Len(y) - 1 /\ Len(y) \in Nat \ {0}
  BY Removed
<1>4. /\ w \in Seq(S) /\ Len(w) = Len(x) + Len(q)
      /\ \A i \in 1 .. Len(x) + Len(q) : w[i] = IF i <= Len(x) THEN x[i] ELSE q[i - Len(x)]
  BY <1>3, ConcatProperties
<1>. HIDE DEF z, q, w
<1>5. r \in Seq(S) /\ Len(r) = Len(z) - 1
  BY <1>1, Removed DEF z
<1>6. PICK l \in 1 .. Len(z) :
         /\ z[l] = b
         /\ \A i \in 1 .. Len(z) - 1 : r[i] = IF i < l THEN z[i] ELSE z[i + 1]
  <2>1. IsInjective(z) /\ z \in Seq(S) /\ b \in Range(z)
    BY <1>1 DEF z
  <2>2. \E n \in 1 .. Len(z) :
          /\ z[n] = b
          /\ \A i \in 1 .. Len(z) - 1 : Without(z, b)[i] = IF i < n THEN z[i] ELSE z[i + 1]
    BY <2>1, Removed
  <2>. QED BY <2>2
<1>. HIDE DEF r
<1>7. l = Len(x) + k
  <2>1. Len(x) + k \in 1 .. Len(x) + Len(y) /\ ~(Len(x) + k <= Len(x)) /\ Len(x) + k - Len(x) = k
    BY <1>1
  <2>2. z[Len(x) + k] = b
    BY <2>1, <1>1, <1>2
  <2>3. DOMAIN z = 1 .. Len(x) + Len(y)
    BY <1>1
  <2>. QED BY <2>1, <2>2, <2>3, <1>1, <1>6 DEF IsInjective, z
<1>8. Len(r) = Len(w) /\ Len(r) = Len(x) + (Len(y) - 1)
  BY <1>1, <1>3, <1>4, <1>5
<1>9. ASSUME NEW i \in 1 .. Len(r) PROVE r[i] = w[i]
  <2>1. /\ i \in 1 .. Len(x) + Len(y) /\ i + 1 \in 1 .. Len(x) + Len(y)
        /\ i \in 1 .. Len(x) + Len(q) /\ i \in 1 .. Len(z) - 1 /\ i \in Int
    BY <1>1, <1>3, <1>8
  <2>2. CASE i <= Len(x)
    <3>1. i < l
      BY <2>2, <1>1, <1>7
    <3>. QED BY <2>1, <2>2, <3>1, <1>1, <1>4, <1>6
  <2>3. CASE i > Len(x)
    <3>. DEFINE j == i - Len(x)
    <3>1. j \in 1 .. Len(y) - 1 /\ i + 1 - Len(x) = j + 1 /\ (i < l <=> j < k)
      BY <2>1, <2>3, <1>1, <1>7, <1>8
    <3>2. w[i] = q[j]
      BY <2>1, <2>3, <1>1, <1>4
    <3>3. z[i] = y[j] /\ z[i + 1] = y[j + 1]
      BY <2>1, <2>3, <3>1, <1>1
    <3>. HIDE DEF j
    <3>4. q[j] = IF j < k THEN y[j] ELSE y[j + 1]
      BY <3>1, <1>2
    <3>5. r[i] = IF i < l THEN z[i] ELSE z[i + 1]
      BY <2>1, <1>6
    <3>. QED BY <3>1, <3>2, <3>3, <3>4, <3>5
  <2>. QED BY <2>1, <2>2, <2>3, <1>1
<1>10. r = w
  BY <1>4, <1>5, <1>8, <1>9, SeqEqual
<1>. QED BY <1>10 DEF r, w, q, z

\* A block that is not in a list cannot be removed from it.
LEMMA NotThere ==
    ASSUME NEW S, NEW s \in Seq(S), NEW b, b \notin Range(s)
    PROVE  Without(s, b) = s
<1>1. \A i \in 1 .. Len(s) : s[i] # b
  BY DEF Range
<1>. QED BY <1>1 DEF Without, RemoveFirst

\* An injective list has as many nodes as there are blocks in it.
LEMMA Counted ==
    ASSUME NEW S, NEW s \in Seq(S), IsInjective(s)
    PROVE  IsFiniteSet(Range(s)) /\ Cardinality(Range(s)) = Len(s)
<1>1. Len(s) \in Nat /\ DOMAIN s = 1 .. Len(s) /\ s \in [1 .. Len(s) -> S]
  OBVIOUS
<1>2. s \in Injection(1 .. Len(s), S)
  BY <1>1, Fun_IsInj DEF IsInjective
<1>3. s \in Bijection(1 .. Len(s), Range(s))
  BY <1>2, Fun_InjMeansBijImage
<1>4. ExistsBijection(1 .. Len(s), Range(s))
  BY <1>3, Fun_ExistsBij
<1>5. IsFiniteSet(1 .. Len(s)) /\ Cardinality(1 .. Len(s)) = Len(s)
  BY <1>1, FS_Interval
<1>. QED BY <1>4, <1>5, FS_Bijection

-----------------------------------------------------------------------------
(* The invariant.  CacheInvariant is not inductive: it says nothing of the *)
(* identifiers of blocks that have left the cache, by which a holder may   *)
(* still call.                                                             *)

\* Map m finds the given blocks, each under its identifier.
Finds(m, blocks) ==
    /\ DOMAIN m = {id[b] : b \in blocks}
    /\ \A n \in DOMAIN m : m[n] \in blocks /\ id[m[n]] = n

Lists ==
    /\ Len(new_block) <= max_new /\ Len(outed) <= max_out /\ Len(hot) <= max_hot
    /\ outed # <<>> => Len(new_block) = max_new
    /\ IsInjective(new_block) /\ IsInjective(outed) /\ IsInjective(hot)
    /\ Range(new_block) \cap Range(outed) = {}
    /\ Range(new_block) \cap Range(hot) = {}
    /\ Range(outed) \cap Range(hot) = {}

Maps == Finds(out_map, Range(outed)) /\ Finds(hot_map, Range(hot))

\* Identifiers are handed out once, to a block that leaves new_block.
Identifiers ==
    /\ free_id \in 1 .. LastId + 1
    /\ \A b \in Block : id[b] < free_id
    /\ \A b, c \in Block : id[b] = id[c] /\ id[b] # no_ID => b = c
    /\ \A b \in Range(new_block) : id[b] = no_ID
    /\ \A b \in Range(outed) \cup Range(hot) : id[b] # no_ID

\* Who is inside a call holds a block that has an identifier.
Callers ==
    \A t \in Thread : call[t] # Idle => call[t].of \in held /\ id[call[t].of] # no_ID

Coherent == Lists /\ Maps /\ Identifiers /\ Callers

CacheInv == TypeOK /\ (~undefined => Coherent) /\ NoDanglingNode

\* The shares of the lists in the limit.
LEMMA Shares ==
    /\ max_new \in Nat /\ max_out \in Nat /\ max_hot \in Nat
    /\ max_out = 0 <=> max_new = 0
    /\ limit >= 4 => max_new > 0 /\ max_hot > 0
    /\ max_new > 0 => limit >= 4
BY CacheAssumption DEF CacheAssumption, max_new, max_out, max_hot

\* What a thread inside a call has in its hands.
LEMMA InCall ==
    ASSUME TypeOK, NEW t \in Thread, call[t] # Idle
    PROVE  call[t].op \in {"used", "drop"} /\ call[t].of \in Block
BY DEF TypeOK, Calls, Idle

\* The identifier of a block leads to it, or nowhere.
LEMMA FindsOwn ==
    ASSUME TypeOK, Identifiers, NEW A \in SUBSET Block, NEW m, Finds(m, A),
           NEW b \in Block, id[b] # no_ID
    PROVE  /\ id[b] \in DOMAIN m <=> b \in A
           /\ id[b] \in DOMAIN m => m[id[b]] = b
<1>1. \A c \in A : id[c] = id[b] => c = b
  BY DEF Identifiers
<1>. QED BY <1>1 DEF Finds

\* A map loses a block.
LEMMA Erased ==
    ASSUME TypeOK, Identifiers, NEW A \in SUBSET Block, NEW m, Finds(m, A),
           NEW b \in A, id[b] # no_ID
    PROVE  Finds(Erase(m, id[b]), A \ {b})
<1>1. \A c \in A : id[c] = id[b] => c = b
  BY DEF Identifiers
<1>2. DOMAIN Erase(m, id[b]) = {id[c] : c \in A \ {b}}
  BY <1>1 DEF Finds, Erase
<1>3. \A n \in DOMAIN m : n # id[b] => m[n] \in A \ {b}
  BY DEF Finds
<1>. QED BY <1>2, <1>3 DEF Finds, Erase

\* A list takes a block in front and loses its last one when it is too long,
\* its map with it.
LEMMA Evicted ==
    ASSUME TypeOK, Identifiers, NEW s \in Seq(Block), IsInjective(s), NEW max \in Nat \ {0},
           Len(s) <= max, NEW b \in Block, b \notin Range(s), NEW m, Finds(m, Range(s)),
           \A c \in Range(s) : id[c] # no_ID
    PROVE  LET r == Evict(Push(s, b), max)
               q == EvictFrom(m, Push(s, b), max)
           IN  /\ r \in Seq(Block) /\ Len(r) <= max /\ IsInjective(r)
               /\ r # <<>> /\ Head(r) = b
               /\ b \in Range(r) /\ Range(r) \subseteq Range(s) \cup {b}
               /\ Finds(q, Range(r) \ {b})
<1>. DEFINE p == Push(s, b)
            r == Evict(p, max)
            q == EvictFrom(m, p, max)
<1>1. /\ p \in Seq(Block) /\ Len(p) = Len(s) + 1 /\ Len(s) \in Nat /\ p # <<>> /\ p[1] = b
      /\ Head(p) = b /\ Range(p) = Range(s) \cup {b} /\ IsInjective(p)
      /\ \A i \in 1 .. Len(s) : p[i + 1] = s[i]
  <2>1. /\ p \in Seq(Block) /\ Len(p) = Len(s) + 1 /\ Len(s) \in Nat
        /\ p # <<>> /\ Head(p) = b /\ p[1] = b
        /\ \A i \in 1 .. Len(s) : p[i + 1] = s[i]
        /\ Range(p) = Range(s) \cup {b}
        /\ IsInjective(s) /\ b \notin Range(s) => IsInjective(p)
    BY Pushed, Zenon
  <2>. QED BY <2>1
<1>. HIDE DEF p
<1>2. CASE ~Overfull(p, max)
  <2>1. r = p /\ q = m
    BY <1>2 DEF Evict, EvictFrom
  <2>2. Range(p) \ {b} = Range(s)
    BY <1>1
  <2>3. Len(p) <= max
    BY <1>1, <1>2 DEF Overfull
  <2>. QED BY <1>1, <2>1, <2>2, <2>3, Zenon DEF p
<1>3. CASE Overfull(p, max)
  <2>1. r = Front(p) /\ q = Erase(m, id[Last(p)])
    BY <1>3 DEF Evict, EvictFrom
  <2>2. /\ Front(p) \in Seq(Block) /\ Len(Front(p)) = Len(p) - 1
        /\ \A i \in 1 .. Len(p) - 1 : Front(p)[i] = p[i]
        /\ Range(p) = Range(Front(p)) \cup {Last(p)}
        /\ IsInjective(Front(p)) /\ Last(p) \notin Range(Front(p))
    BY <1>1, Popped
  <2>3. Len(s) >= 1 /\ Len(p) - 1 = Len(s)
    BY <1>1, <1>3 DEF Overfull
  <2>4. Last(p) \in Range(s) /\ Last(p) # b
    <3>1. Last(p) = s[Len(s)] /\ Len(s) \in DOMAIN s
      BY <1>1, <2>3 DEF Last
    <3>. QED BY <3>1 DEF Range
  <2>5. Front(p)[1] = b /\ 1 \in DOMAIN Front(p)
    BY <1>1, <2>2, <2>3
  <2>6. b \in Range(Front(p)) /\ Front(p) # <<>> /\ Head(Front(p)) = b
    BY <2>2, <2>5 DEF Range
  <2>7. Range(Front(p)) \ {b} = Range(s) \ {Last(p)}
    BY <1>1, <2>2, <2>4
  <2>8. Range(s) \in SUBSET Block
    BY RangeOfSeq
  <2>9. Finds(q, Range(s) \ {Last(p)})
    BY <2>1, <2>4, <2>8, Erased
  <2>10. Len(r) <= max
    BY <1>1, <2>1, <2>2
  <2>. QED BY <1>1, <2>1, <2>2, <2>6, <2>7, <2>9, <2>10 DEF p
<1>. QED BY <1>2, <1>3

\* A map gains a block.
LEMMA Entered ==
    ASSUME TypeOK, Identifiers, NEW A \in SUBSET Block, NEW m, Finds(m, A),
           NEW b \in Block, b \notin A, id[b] # no_ID
    PROVE  Finds(Set(m, id[b], b), A \cup {b})
<1>. DEFINE q == Set(m, id[b], b)
<1>1. id[b] \notin DOMAIN m
  BY FindsOwn
<1>2. DOMAIN q = DOMAIN m \cup {id[b]} /\ q[id[b]] = b /\ \A n \in DOMAIN m : q[n] = m[n]
  BY <1>1 DEF Set
<1>. HIDE DEF q
<1>3. DOMAIN q = {id[c] : c \in A \cup {b}}
  BY <1>2 DEF Finds
<1>4. \A n \in DOMAIN q : q[n] \in A \cup {b} /\ id[q[n]] = n
  BY <1>2 DEF Finds
<1>. QED BY <1>3, <1>4 DEF Finds, q

LEMMA FindsTyped ==
    ASSUME TypeOK, NEW A \in SUBSET Block, NEW m, Finds(m, A)
    PROVE  DOMAIN m \subseteq Identifier /\ Range(m) \subseteq Block
BY DEF Finds, Range, TypeOK

LEMMA ListsTyped ==
    ASSUME TypeOK
    PROVE  /\ Range(new_block) \in SUBSET Block /\ Range(outed) \in SUBSET Block
           /\ Range(hot) \in SUBSET Block
BY RangeOfSeq DEF TypeOK

-----------------------------------------------------------------------------
(* used() and drop().                                                      *)

\* A call that ends leaves the identifiers as they are: the lists and the maps
\* need only agree with each other.
LEMMA LeaveKeeps ==
    ASSUME CacheInv, ~undefined, NEW t \in Thread, Leave(t),
           outed' \in Seq(Block), Len(outed') <= max_out, IsInjective(outed'),
           hot' \in Seq(Block), Len(hot') <= max_hot, IsInjective(hot'),
           Range(outed') \subseteq Range(outed),
           Range(hot') \subseteq Range(outed) \cup Range(hot),
           Range(outed') \cap Range(hot') = {},
           Finds(out_map', Range(outed')), Finds(hot_map', Range(hot'))
    PROVE  CacheInv'
<1>1. TypeOK /\ Lists /\ Maps /\ Identifiers /\ Callers
  BY DEF CacheInv, Coherent
<1>2. /\ UNCHANGED <<new_block, id, free_id, held, undefined>>
      /\ call' = [call EXCEPT ![t] = Idle]
  BY DEF Leave
<1>3. Range(outed') \in SUBSET Block /\ Range(hot') \in SUBSET Block
  BY RangeOfSeq
<1>4. TypeOK'
  <2>1. /\ DOMAIN out_map' \subseteq Identifier /\ Range(out_map') \subseteq Block
        /\ DOMAIN hot_map' \subseteq Identifier /\ Range(hot_map') \subseteq Block
    BY <1>1, <1>3, FindsTyped
  <2>2. call' \in [Thread -> Calls]
    BY <1>1, <1>2 DEF TypeOK, Calls
  <2>. QED BY <1>1, <1>2, <2>1, <2>2 DEF TypeOK
<1>5. Lists'
  <2>1. outed' # <<>> => outed # <<>>
    <3>. SUFFICES ASSUME outed' # <<>> PROVE outed # <<>>
      OBVIOUS
    <3>1. Head(outed') \in Range(outed')
      BY HeadTailProperties DEF Range
    <3>2. Range(outed) # {}
      BY <3>1
    <3>. QED BY <3>2 DEF Range
  <2>. QED BY <1>1, <1>2, <2>1 DEF Lists, max_new, max_out, max_hot
<1>6. Maps'
  BY <1>2 DEF Maps, Finds
<1>7. Identifiers'
  BY <1>1, <1>2 DEF Identifiers, no_ID
<1>8. Callers'
  BY <1>1, <1>2 DEF Callers, TypeOK, no_ID
<1>9. NoDanglingNode'
  BY <1>2 DEF NoDanglingNode
<1>. QED BY <1>4, <1>5, <1>6, <1>7, <1>8, <1>9 DEF CacheInv, Coherent

\* A call acts on the block it was made for: what the identifier finds is that
\* block, if it is in the list at all.
LEMMA CallFinds ==
    ASSUME CacheInv, ~undefined, NEW t \in Thread, call[t] # Idle
    PROVE  LET b == call[t].of
           IN  /\ b \in Block /\ b \in held /\ id[b] # no_ID
               /\ b \notin Range(new_block)
               /\ id[b] \in DOMAIN hot_map <=> b \in Range(hot)
               /\ id[b] \in DOMAIN hot_map => hot_map[id[b]] = b
               /\ id[b] \in DOMAIN out_map <=> b \in Range(outed)
               /\ id[b] \in DOMAIN out_map => out_map[id[b]] = b
<1>1. TypeOK /\ Maps /\ Identifiers /\ Callers
  BY DEF CacheInv, Coherent
<1>2. call[t].of \in Block /\ call[t].of \in held /\ id[call[t].of] # no_ID
  BY <1>1, InCall DEF Callers
<1>3. call[t].of \notin Range(new_block)
  BY <1>1, <1>2 DEF Identifiers
<1>. QED BY <1>1, <1>2, <1>3, ListsTyped, FindsOwn DEF Maps

LEMMA UpHotKeeps ==
    ASSUME CacheInv, ~undefined, NEW t \in Thread, UpHot(t)
    PROVE  CacheInv'
<1>. DEFINE b == call[t].of
            w == Without(hot, b)
<1>1. TypeOK /\ Lists /\ Maps /\ Identifiers
  BY DEF CacheInv, Coherent
<1>2. call[t] # Idle
  BY DEF UpHot, Idle
<1>3. /\ b \in Range(hot) /\ b \in Block /\ hot' = Push(w, b)
      /\ Leave(t) /\ UNCHANGED <<outed, out_map, hot_map>>
  BY <1>2, CallFinds DEF UpHot
<1>4. /\ w \in Seq(Block) /\ Len(w) = Len(hot) - 1 /\ Len(hot) \in Nat \ {0}
      /\ Range(w) = Range(hot) \ {b} /\ IsInjective(w)
  BY <1>1, <1>3, Removed DEF TypeOK, Lists
<1>. HIDE DEF b, w
<1>5. /\ hot' \in Seq(Block) /\ Len(hot') = Len(hot) /\ Range(hot') = Range(hot)
      /\ IsInjective(hot')
  <2>1. b \notin Range(w)
    BY <1>4
  <2>. DEFINE p == Push(w, b)
  <2>2. /\ p \in Seq(Block) /\ Len(p) = Len(w) + 1 /\ Len(w) \in Nat
        /\ p # <<>> /\ Head(p) = b /\ p[1] = b
        /\ \A i \in 1 .. Len(w) : p[i + 1] = w[i]
        /\ Range(p) = Range(w) \cup {b}
        /\ IsInjective(w) /\ b \notin Range(w) => IsInjective(p)
    BY <1>3, <1>4, Pushed, Zenon
  <2>. HIDE DEF p
  <2>3. Len(p) = Len(hot) /\ Range(p) = Range(hot) /\ hot' = p
    BY <1>3, <1>4, <2>2 DEF p
  <2>. QED BY <1>4, <2>1, <2>2, <2>3, Zenon
<1>. QED BY <1>1, <1>3, <1>5, LeaveKeeps DEF TypeOK, Lists, Maps

LEMMA UpOutKeeps ==
    ASSUME CacheInv, ~undefined, NEW t \in Thread, UpOut(t)
    PROVE  /\ CacheInv'
           /\ LET b == call[t].of
              IN  /\ b \in Range(outed) /\ hot' # <<>> /\ Head(hot') = b
                  /\ outed' = Without(outed, b) /\ hot' = Evict(Push(hot, b), max_hot)
<1>. DEFINE b == call[t].of
            w == Without(outed, b)
<1>1. TypeOK /\ Lists /\ Maps /\ Identifiers
  BY DEF CacheInv, Coherent
<1>2. call[t] # Idle
  BY DEF UpOut, Idle
<1>3. /\ b \in Range(outed) /\ b \in Block /\ id[b] # no_ID
      /\ outed' = w /\ out_map' = Erase(out_map, id[b])
      /\ hot' = Evict(Push(hot, b), max_hot)
      /\ hot_map' = Set(EvictFrom(hot_map, Push(hot, b), max_hot), id[b], b)
      /\ Leave(t)
  BY <1>2, CallFinds DEF UpOut
<1>4. /\ w \in Seq(Block) /\ Len(w) = Len(outed) - 1 /\ Len(outed) \in Nat \ {0}
      /\ Range(w) = Range(outed) \ {b} /\ IsInjective(w)
  BY <1>1, <1>3, Removed DEF TypeOK, Lists
<1>. HIDE DEF b, w
<1>5. Range(outed) \in SUBSET Block /\ Range(hot) \in SUBSET Block
  BY <1>1, ListsTyped
<1>6. Finds(out_map', Range(outed'))
  <2>1. Finds(out_map, Range(outed))
    BY <1>1 DEF Maps
  <2>2. Finds(Erase(out_map, id[b]), Range(outed) \ {b})
    BY <1>1, <1>3, <1>5, <2>1, Erased
  <2>. QED BY <1>3, <1>4, <2>2
<1>7. max_hot \in Nat \ {0}
  <2>1. max_out > 0
    BY <1>1, <1>4, Shares DEF Lists
  <2>. QED BY <2>1, Shares
<1>8. /\ hot' \in Seq(Block) /\ Len(hot') <= max_hot /\ IsInjective(hot')
      /\ hot' # <<>> /\ Head(hot') = b
      /\ b \in Range(hot') /\ Range(hot') \subseteq Range(hot) \cup {b}
      /\ Finds(EvictFrom(hot_map, Push(hot, b), max_hot), Range(hot') \ {b})
  <2>1. /\ hot \in Seq(Block) /\ IsInjective(hot) /\ Len(hot) <= max_hot /\ b \notin Range(hot)
        /\ Finds(hot_map, Range(hot)) /\ \A c \in Range(hot) : id[c] # no_ID
    BY <1>1, <1>3 DEF TypeOK, Lists, Maps, Identifiers
  <2>. QED BY <1>1, <1>3, <1>7, <2>1, Evicted
<1>9. Finds(hot_map', Range(hot'))
  <2>1. Range(hot') \ {b} \in SUBSET Block /\ (Range(hot') \ {b}) \cup {b} = Range(hot')
    BY <1>3, <1>5, <1>8
  <2>2. b \notin Range(hot') \ {b}
    OBVIOUS
  <2>3. Finds(hot_map', (Range(hot') \ {b}) \cup {b})
    BY <1>1, <1>3, <1>8, <2>1, <2>2, Entered
  <2>. QED BY <2>1, <2>3
<1>10. /\ outed' \in Seq(Block) /\ Len(outed') <= max_out /\ IsInjective(outed')
       /\ Range(outed') \subseteq Range(outed)
       /\ Range(hot') \subseteq Range(outed) \cup Range(hot)
       /\ Range(outed') \cap Range(hot') = {}
  <2>1. Len(outed') <= max_out
    BY <1>1, <1>3, <1>4, Shares DEF Lists
  <2>. QED BY <1>1, <1>3, <1>4, <1>8, <2>1 DEF Lists
<1>11. CacheInv'
  BY <1>3, <1>6, <1>8, <1>9, <1>10, LeaveKeeps
<1>. QED BY <1>3, <1>8, <1>11 DEF b, w

LEMMA DropHotKeeps ==
    ASSUME CacheInv, ~undefined, NEW t \in Thread, DropHot(t)
    PROVE  /\ CacheInv'
           /\ LET b == call[t].of IN b \in Range(hot) /\ hot' = Without(hot, b)
<1>. DEFINE b == call[t].of
            w == Without(hot, b)
<1>1. TypeOK /\ Lists /\ Maps /\ Identifiers
  BY DEF CacheInv, Coherent
<1>2. call[t] # Idle
  BY DEF DropHot, Idle
<1>3. /\ b \in Range(hot) /\ b \in Block /\ id[b] # no_ID
      /\ hot' = w /\ hot_map' = Erase(hot_map, id[b])
      /\ Leave(t) /\ UNCHANGED <<outed, out_map>>
  BY <1>2, CallFinds DEF DropHot
<1>4. /\ w \in Seq(Block) /\ Len(w) = Len(hot) - 1 /\ Len(hot) \in Nat \ {0}
      /\ Range(w) = Range(hot) \ {b} /\ IsInjective(w)
  BY <1>1, <1>3, Removed DEF TypeOK, Lists
<1>. HIDE DEF b, w
<1>5. Range(outed) \in SUBSET Block /\ Range(hot) \in SUBSET Block
  BY <1>1, ListsTyped
<1>6. Finds(hot_map', Range(hot'))
  <2>1. Finds(hot_map, Range(hot))
    BY <1>1 DEF Maps
  <2>2. Finds(Erase(hot_map, id[b]), Range(hot) \ {b})
    BY <1>1, <1>3, <1>5, <2>1, Erased
  <2>. QED BY <1>3, <1>4, <2>2
<1>7. Len(hot') <= max_hot
  BY <1>1, <1>3, <1>4, Shares DEF Lists
<1>8. CacheInv'
  BY <1>1, <1>3, <1>4, <1>6, <1>7, LeaveKeeps DEF TypeOK, Lists, Maps
<1>. QED BY <1>3, <1>8 DEF b, w

LEMMA DropOutKeeps ==
    ASSUME CacheInv, ~undefined, NEW t \in Thread, DropOut(t)
    PROVE  /\ CacheInv'
           /\ LET b == call[t].of IN b \in Range(outed) /\ outed' = Without(outed, b)
<1>. DEFINE b == call[t].of
            w == Without(outed, b)
<1>1. TypeOK /\ Lists /\ Maps /\ Identifiers
  BY DEF CacheInv, Coherent
<1>2. call[t] # Idle
  BY DEF DropOut, Idle
<1>3. /\ b \in Range(outed) /\ b \in Block /\ id[b] # no_ID
      /\ outed' = w /\ out_map' = Erase(out_map, id[b])
      /\ Leave(t) /\ UNCHANGED <<hot, hot_map>>
  BY <1>2, CallFinds DEF DropOut
<1>4. /\ w \in Seq(Block) /\ Len(w) = Len(outed) - 1 /\ Len(outed) \in Nat \ {0}
      /\ Range(w) = Range(outed) \ {b} /\ IsInjective(w)
  BY <1>1, <1>3, Removed DEF TypeOK, Lists
<1>. HIDE DEF b, w
<1>5. Range(outed) \in SUBSET Block /\ Range(hot) \in SUBSET Block
  BY <1>1, ListsTyped
<1>6. Finds(out_map', Range(outed'))
  <2>1. Finds(out_map, Range(outed))
    BY <1>1 DEF Maps
  <2>2. Finds(Erase(out_map, id[b]), Range(outed) \ {b})
    BY <1>1, <1>3, <1>5, <2>1, Erased
  <2>. QED BY <1>3, <1>4, <2>2
<1>7. Len(outed') <= max_out
  BY <1>1, <1>3, <1>4, Shares DEF Lists
<1>8. CacheInv'
  BY <1>1, <1>3, <1>4, <1>6, <1>7, LeaveKeeps DEF TypeOK, Lists, Maps
<1>. QED BY <1>3, <1>8 DEF b, w

LEMMA NotFoundKeeps ==
    ASSUME CacheInv, ~undefined, NEW t \in Thread, NotFound(t)
    PROVE  CacheInv' /\ call[t].of \notin Cached
<1>1. TypeOK /\ Lists /\ Maps
  BY DEF CacheInv, Coherent
<1>2. CacheInv'
  BY <1>1, LeaveKeeps DEF NotFound, TypeOK, Lists, Maps
<1>3. call[t].of \notin Cached
  BY CallFinds DEF NotFound, Cached
<1>. QED BY <1>2, <1>3

-----------------------------------------------------------------------------
(* make_new().                                                             *)

\* A block that is allocated is nobody's: no list and no caller has it.
LEMMA MakeNewRoomKeeps ==
    ASSUME CacheInv, ~undefined, NEW b \in Block, MakeNewRoom(b)
    PROVE  CacheInv'
<1>1. TypeOK /\ Lists /\ Maps /\ Identifiers /\ Callers
  BY DEF CacheInv, Coherent
<1>2. /\ b \notin Range(new_block) /\ b \notin Range(outed) /\ b \notin Range(hot)
      /\ b \notin held /\ held' = held \cup {b}
      /\ Len(new_block) < max_new /\ new_block' = Push(new_block, b)
      /\ id' = [id EXCEPT ![b] = no_ID]
      /\ UNCHANGED <<outed, out_map, free_id, undefined, hot, hot_map, call>>
  BY DEF MakeNewRoom, Allocate, Cached
<1>3. /\ new_block' \in Seq(Block) /\ Len(new_block') = Len(new_block) + 1
      /\ Range(new_block') = Range(new_block) \cup {b} /\ IsInjective(new_block')
  <2>. DEFINE p == Push(new_block, b)
  <2>1. /\ p \in Seq(Block) /\ Len(p) = Len(new_block) + 1 /\ Len(new_block) \in Nat
        /\ p # <<>> /\ Head(p) = b /\ p[1] = b
        /\ \A i \in 1 .. Len(new_block) : p[i + 1] = new_block[i]
        /\ Range(p) = Range(new_block) \cup {b}
        /\ IsInjective(new_block) /\ b \notin Range(new_block) => IsInjective(p)
    BY <1>1, Pushed, Zenon DEF TypeOK
  <2>. HIDE DEF p
  <2>2. IsInjective(new_block) /\ new_block' = p
    BY <1>1, <1>2 DEF Lists, p
  <2>. QED BY <1>2, <2>1, <2>2, Zenon
<1>4. \A c \in Block : c # b => id'[c] = id[c]
  BY <1>1, <1>2 DEF TypeOK
<1>5. id'[b] = no_ID /\ id' \in [Block -> Identifier]
  BY <1>1, <1>2, CacheAssumption DEF TypeOK, Identifier, no_ID, CacheAssumption
<1>6. TypeOK'
  BY <1>1, <1>2, <1>3, <1>5 DEF TypeOK
<1>7. Lists'
  <2>1. outed = <<>>
    BY <1>1, <1>2, Shares DEF Lists, TypeOK
  <2>2. Len(new_block') <= max_new
    BY <1>1, <1>2, <1>3, Shares DEF TypeOK
  <2>. QED BY <1>1, <1>2, <1>3, <2>1, <2>2 DEF Lists, max_new, max_out, max_hot
<1>8. Maps'
  <2>1. /\ \A c \in Range(outed) : id'[c] = id[c]
        /\ \A c \in Range(hot) : id'[c] = id[c]
    BY <1>1, <1>2, <1>4, ListsTyped
  <2>. QED BY <1>1, <1>2, <2>1 DEF Maps, Finds
<1>9. Identifiers'
  <2>1. free_id' \in 1 .. LastId + 1 /\ \A c \in Block : id'[c] < free_id'
    BY <1>1, <1>2, <1>4, <1>5 DEF Identifiers, no_ID
  <2>2. \A c, d \in Block : id'[c] = id'[d] /\ id'[c] # no_ID => c = d
    BY <1>1, <1>4, <1>5 DEF Identifiers
  <2>3. \A c \in Range(new_block') : id'[c] = no_ID
    BY <1>1, <1>3, <1>4, <1>5, ListsTyped DEF Identifiers
  <2>4. \A c \in Range(outed') \cup Range(hot') : id'[c] # no_ID
    BY <1>1, <1>2, <1>4, ListsTyped DEF Identifiers
  <2>. QED BY <2>1, <2>2, <2>3, <2>4 DEF Identifiers, no_ID
<1>10. Callers'
  <2>. SUFFICES ASSUME NEW t \in Thread, call[t] # Idle
                PROVE  call[t].of \in held' /\ id'[call[t].of] # no_ID
    BY <1>2 DEF Callers, no_ID, Idle
  <2>1. call[t].of \in held /\ id[call[t].of] # no_ID /\ call[t].of \in Block
    BY <1>1, InCall DEF Callers
  <2>. QED BY <1>2, <1>4, <2>1
<1>11. NoDanglingNode'
  BY <1>2 DEF NoDanglingNode
<1>. QED BY <1>6, <1>7, <1>8, <1>9, <1>10, <1>11 DEF CacheInv, Coherent

\* The lists after a block has been pushed out of new_block.
LEMMA PushedOut ==
    ASSUME TypeOK, Lists, max_new > 0, NEW b \in Block, Len(new_block) >= max_new,
           b \notin Range(new_block), b \notin Range(outed), b \notin Range(hot)
    PROVE  LET p == Push(new_block, b)
               tmp == Last(p)
           IN  /\ p \in Seq(Block) /\ p # <<>> /\ Front(p) \in Seq(Block)
               /\ Len(Front(p)) = max_new /\ IsInjective(Front(p))
               /\ tmp \in Range(new_block) /\ tmp # b
               /\ Range(Front(p)) = (Range(new_block) \cup {b}) \ {tmp}
<1>. DEFINE p == Push(new_block, b)
<1>1. /\ p \in Seq(Block) /\ Len(p) = Len(new_block) + 1 /\ Len(new_block) \in Nat
      /\ p # <<>> /\ Head(p) = b /\ p[1] = b
      /\ \A i \in 1 .. Len(new_block) : p[i + 1] = new_block[i]
      /\ Range(p) = Range(new_block) \cup {b}
      /\ IsInjective(new_block) /\ b \notin Range(new_block) => IsInjective(p)
  BY Pushed, Zenon DEF TypeOK
<1>. HIDE DEF p
<1>2. IsInjective(p)
  BY <1>1 DEF Lists
<1>3. /\ Front(p) \in Seq(Block) /\ Len(Front(p)) = Len(p) - 1
      /\ Range(p) = Range(Front(p)) \cup {Last(p)}
      /\ IsInjective(Front(p)) /\ Last(p) \notin Range(Front(p))
  BY <1>1, <1>2, Popped
<1>4. Len(new_block) = max_new /\ Len(p) = max_new + 1
  BY <1>1, Shares DEF Lists
<1>5. Last(p) \in Range(new_block) /\ Last(p) # b
  <2>1. Last(p) = new_block[Len(new_block)] /\ Len(new_block) \in DOMAIN new_block
    BY <1>1, <1>4, Shares DEF Last, TypeOK
  <2>2. Last(p) \in Range(new_block)
    BY <2>1 DEF Range
  <2>. QED BY <2>2
<1>6. Len(Front(p)) = max_new
  BY <1>3, <1>4, Shares
<1>7. Range(Front(p)) = (Range(new_block) \cup {b}) \ {Last(p)}
  BY <1>1, <1>3
<1>. QED BY <1>1, <1>3, <1>5, <1>6, <1>7, Zenon DEF p

LEMMA MakeNewFullKeeps ==
    ASSUME CacheInv, ~undefined, NEW b \in Block, MakeNewFull(b), max_new > 0
    PROVE  CacheInv'
<1>. DEFINE p == Push(new_block, b)
            tmp == Last(p)
<1>1. TypeOK /\ Lists /\ Maps /\ Identifiers /\ Callers
  BY DEF CacheInv, Coherent
<1>2. /\ b \notin Range(new_block) /\ b \notin Range(outed) /\ b \notin Range(hot)
      /\ b \notin held /\ held' = held \cup {b}
      /\ UNCHANGED <<hot, hot_map, call>>
  BY DEF MakeNewFull, Allocate, Cached
<1>3. /\ Len(new_block) >= max_new /\ free_id <= LastId
      /\ new_block' = Front(p)
      /\ id' = [id EXCEPT ![b] = no_ID, ![tmp] = free_id]
      /\ free_id' = (free_id + 1) % IdSpace
      /\ outed' = Evict(Push(outed, tmp), max_out)
      /\ out_map' = Set(EvictFrom(out_map, Push(outed, tmp), max_out), free_id, tmp)
      /\ undefined' = (max_out = 0)
  BY DEF MakeNewFull
<1>4. /\ new_block' \in Seq(Block) /\ Len(new_block') = max_new /\ IsInjective(new_block')
      /\ tmp \in Range(new_block) /\ tmp # b
      /\ Range(new_block') = (Range(new_block) \cup {b}) \ {tmp}
  BY <1>1, <1>2, <1>3, PushedOut
<1>. HIDE DEF p, tmp
<1>5. tmp \in Block /\ tmp \notin Range(outed) /\ tmp \notin Range(hot) /\ id[tmp] = no_ID
  BY <1>1, <1>4, ListsTyped DEF Lists, Identifiers
<1>6. max_out \in Nat \ {0} /\ undefined' = FALSE
  <2>1. max_out \in Nat /\ max_out # 0
    BY Shares
  <2>2. undefined' = FALSE
    BY <1>3, <2>1
  <2>. QED BY <2>1, <2>2
<1>7. free_id' = free_id + 1 /\ free_id \in 1 .. LastId /\ free_id' \in Identifier
      /\ free_id \in Identifier
  BY <1>1, <1>3, CacheAssumption DEF Identifiers, CacheAssumption, Identifier
<1>8. /\ \A c \in Block : c # b /\ c # tmp => id'[c] = id[c]
      /\ id'[b] = no_ID /\ id'[tmp] = free_id /\ id' \in [Block -> Identifier]
  <2>1. id \in [Block -> Identifier] /\ no_ID \in Identifier
    BY <1>1, CacheAssumption DEF TypeOK, Identifier, no_ID, CacheAssumption
  <2>. QED BY <1>3, <1>4, <1>5, <1>7, <2>1
<1>. DEFINE m == EvictFrom(out_map, Push(outed, tmp), max_out)
<1>9. /\ outed' \in Seq(Block) /\ Len(outed') <= max_out /\ IsInjective(outed')
      /\ outed' # <<>> /\ Head(outed') = tmp
      /\ tmp \in Range(outed') /\ Range(outed') \subseteq Range(outed) \cup {tmp}
      /\ Finds(m, Range(outed') \ {tmp})
  <2>1. /\ outed \in Seq(Block) /\ IsInjective(outed) /\ Len(outed) <= max_out
        /\ Finds(out_map, Range(outed)) /\ \A c \in Range(outed) : id[c] # no_ID
    BY <1>1 DEF TypeOK, Lists, Maps, Identifiers
  <2>2. LET r == Evict(Push(outed, tmp), max_out)
        IN  /\ r \in Seq(Block) /\ Len(r) <= max_out /\ IsInjective(r)
            /\ r # <<>> /\ Head(r) = tmp
            /\ tmp \in Range(r) /\ Range(r) \subseteq Range(outed) \cup {tmp}
            /\ Finds(m, Range(r) \ {tmp})
    BY <1>1, <1>5, <1>6, <2>1, Evicted
  <2>. QED BY <1>3, <2>2
<1>. HIDE DEF m
<1>10. /\ DOMAIN out_map' = {id'[c] : c \in Range(outed')}
       /\ \A n \in DOMAIN out_map' : out_map'[n] \in Range(outed') /\ id'[out_map'[n]] = n
  <2>1. out_map' = Set(m, free_id, tmp)
    BY <1>3 DEF m
  <2>2. \A c \in Range(outed') \ {tmp} : c \in Block /\ id'[c] = id[c]
    BY <1>1, <1>2, <1>8, <1>9, ListsTyped
  <2>3. /\ DOMAIN m = {id[c] : c \in Range(outed') \ {tmp}}
        /\ \A n \in DOMAIN m : m[n] \in Range(outed') \ {tmp} /\ id[m[n]] = n
    BY <1>9 DEF Finds
  <2>4. free_id \notin DOMAIN m
    BY <1>1, <1>7, <2>2, <2>3 DEF Identifiers, TypeOK, Identifier
  <2>5. /\ DOMAIN out_map' = DOMAIN m \cup {free_id} /\ out_map'[free_id] = tmp
        /\ \A n \in DOMAIN m : out_map'[n] = m[n]
    BY <2>1, <2>4 DEF Set
  <2>6. DOMAIN out_map' = {id'[c] : c \in Range(outed')}
    BY <1>8, <1>9, <2>2, <2>3, <2>5
  <2>7. \A n \in DOMAIN out_map' : out_map'[n] \in Range(outed') /\ id'[out_map'[n]] = n
    BY <1>8, <1>9, <2>2, <2>3, <2>5
  <2>. QED BY <2>6, <2>7
<1>11. Maps'
  <2>1. \A c \in Range(hot) : id'[c] = id[c]
    BY <1>1, <1>2, <1>5, <1>8, ListsTyped
  <2>2. {id'[c] : c \in Range(hot)} = {id[c] : c \in Range(hot)}
    BY <2>1
  <2>3. /\ DOMAIN hot_map = {id'[c] : c \in Range(hot)}
        /\ \A n \in DOMAIN hot_map : hot_map[n] \in Range(hot) /\ id'[hot_map[n]] = n
    BY <1>1, <2>1, <2>2 DEF Maps, Finds
  <2>. QED BY <1>2, <1>10, <2>3, Zenon DEF Maps, Finds
<1>12. TypeOK'
  <2>1. Range(outed') \in SUBSET Block
    BY <1>9, RangeOfSeq
  <2>2. DOMAIN out_map' \subseteq Identifier /\ Range(out_map') \subseteq Block
    BY <1>8, <1>10, <2>1 DEF Range
  <2>. QED BY <1>1, <1>2, <1>4, <1>6, <1>7, <1>8, <1>9, <2>2 DEF TypeOK
<1>13. Lists'
  <2>1. /\ Range(new_block') \cap Range(outed') = {} /\ Range(new_block') \cap Range(hot') = {}
        /\ Range(outed') \cap Range(hot') = {}
    BY <1>1, <1>2, <1>4, <1>5, <1>9 DEF Lists
  <2>2. Len(new_block') <= max_new
    BY <1>4, Shares
  <2>. QED BY <1>1, <1>2, <1>4, <1>9, <2>1, <2>2 DEF Lists, max_new, max_out, max_hot
<1>14. Identifiers'
  <2>1. free_id' \in 1 .. LastId + 1
    BY <1>7, CacheAssumption DEF CacheAssumption
  <2>2. \A c \in Block : id'[c] < free_id'
    <3>. SUFFICES ASSUME NEW c \in Block PROVE id'[c] < free_id'
      OBVIOUS
    <3>1. id[c] \in Nat /\ id[c] < free_id
      BY <1>1, CacheAssumption DEF CacheAssumption, Identifiers, TypeOK, Identifier
    <3>2. free_id \in Nat /\ free_id > 0 /\ free_id' = free_id + 1
      BY <1>7, CacheAssumption DEF CacheAssumption
    <3>3. id'[c] = no_ID \/ id'[c] = free_id \/ id'[c] = id[c]
      BY <1>8
    <3>. QED BY <3>1, <3>2, <3>3 DEF no_ID
  <2>3. \A c \in Block : id[c] # free_id
    BY <1>1, <1>7 DEF Identifiers, TypeOK, Identifier
  <2>4. \A c, d \in Block : id'[c] = id'[d] /\ id'[c] # no_ID => c = d
    BY <1>1, <1>8, <2>3 DEF Identifiers
  <2>5. \A c \in Range(new_block') : id'[c] = no_ID
    BY <1>1, <1>4, <1>8, ListsTyped DEF Identifiers
  <2>6. \A c \in Range(outed') \cup Range(hot') : id'[c] # no_ID
    <3>1. free_id # no_ID
      BY <1>7 DEF no_ID
    <3>2. \A c \in Range(outed') \cup Range(hot') : c \in Block /\ c # b
      BY <1>1, <1>2, <1>4, <1>5, <1>9, ListsTyped
    <3>. QED BY <1>1, <1>2, <1>8, <1>9, <3>1, <3>2 DEF Identifiers
  <2>. QED BY <2>1, <2>2, <2>4, <2>5, <2>6 DEF Identifiers, no_ID
<1>15. Callers'
  <2>. SUFFICES ASSUME NEW t \in Thread, call[t] # Idle
                PROVE  call[t].of \in held' /\ id'[call[t].of] # no_ID
    BY <1>2 DEF Callers, no_ID, Idle
  <2>1. call[t].of \in held /\ id[call[t].of] # no_ID /\ call[t].of \in Block
    BY <1>1, InCall DEF Callers
  <2>. QED BY <1>2, <1>5, <1>8, <2>1
<1>16. NoDanglingNode'
  BY <1>6 DEF NoDanglingNode
<1>. QED BY <1>11, <1>12, <1>13, <1>14, <1>15, <1>16 DEF CacheInv, Coherent

\* A limit below four leaves no room to push a block out to: what follows the
\* first such call is undefined, and only the types are kept.
LEMMA MakeNewDangles ==
    ASSUME CacheInv, ~undefined, NEW b \in Block, MakeNewFull(b), max_new = 0
    PROVE  CacheInv'
<1>. DEFINE p == Push(new_block, b)
            tmp == Last(p)
            moved == Push(outed, tmp)
<1>1. TypeOK /\ Lists /\ Maps /\ Identifiers
  BY DEF CacheInv, Coherent
<1>2. /\ held' = held \cup {b} /\ free_id <= LastId
      /\ UNCHANGED <<hot, hot_map, call>>
      /\ new_block' = Front(p) /\ id' = [id EXCEPT ![b] = no_ID, ![tmp] = free_id]
      /\ free_id' = (free_id + 1) % IdSpace
      /\ outed' = Evict(moved, max_out)
      /\ out_map' = Set(EvictFrom(out_map, moved, max_out), free_id, tmp)
      /\ undefined' = (max_out = 0)
  BY DEF MakeNewFull, Allocate
<1>3. max_out = 0 /\ ~(limit >= 4)
  BY Shares
<1>4. undefined' = TRUE
  BY <1>2, <1>3
<1>5. /\ p \in Seq(Block) /\ p # <<>>
  <2>1. new_block \in Seq(Block)
    BY <1>1 DEF TypeOK
  <2>. QED BY <2>1, Pushed
<1>. HIDE DEF p
<1>6. Front(p) \in Seq(Block) /\ tmp \in Block
  BY <1>5, Popped
<1>. HIDE DEF tmp
<1>7. moved \in Seq(Block) /\ moved # <<>>
  <2>1. outed \in Seq(Block)
    BY <1>1 DEF TypeOK
  <2>. QED BY <1>6, <2>1, Pushed
<1>. HIDE DEF moved
<1>8. outed' \in Seq(Block)
  BY <1>2, <1>7, Popped DEF Evict
<1>9. free_id \in Identifier /\ free_id' \in Identifier /\ id' \in [Block -> Identifier]
  <2>1. free_id \in Identifier /\ free_id' = free_id + 1 /\ free_id + 1 \in Identifier
    BY <1>1, <1>2, CacheAssumption DEF CacheAssumption, Identifiers, Identifier
  <2>2. id \in [Block -> Identifier] /\ no_ID \in Identifier
    BY <1>1, CacheAssumption DEF TypeOK, Identifier, no_ID, CacheAssumption
  <2>. QED BY <1>2, <1>6, <2>1, <2>2
<1>10. DOMAIN out_map' \subseteq Identifier /\ Range(out_map') \subseteq Block
  <2>. DEFINE m == EvictFrom(out_map, moved, max_out)
  <2>1. DOMAIN m \subseteq DOMAIN out_map /\ \A n \in DOMAIN m : m[n] = out_map[n]
    BY DEF EvictFrom, Erase
  <2>2. DOMAIN m \subseteq Identifier /\ \A n \in DOMAIN m : m[n] \in Block
    BY <1>1, <2>1 DEF TypeOK, Range
  <2>. HIDE DEF m
  <2>3. out_map' = Set(m, free_id, tmp)
    BY <1>2 DEF m
  <2>. QED BY <1>6, <1>9, <2>2, <2>3 DEF Set, Range
<1>11. TypeOK'
  BY <1>1, <1>2, <1>4, <1>6, <1>8, <1>9, <1>10 DEF TypeOK
<1>. QED BY <1>3, <1>4, <1>11 DEF CacheInv, NoDanglingNode

-----------------------------------------------------------------------------
(* Everything else.                                                        *)

LEMMA OthersKeep ==
    ASSUME CacheInv, ~undefined,
           \/ \E t \in Thread, b \in Block, op \in {"used", "drop"} : Enter(t, op, b)
           \/ \E b \in Block : Release(b)
    PROVE  CacheInv' /\ UNCHANGED <<new_block, outed, hot>>
<1>1. TypeOK /\ Lists /\ Maps /\ Identifiers /\ Callers
  BY DEF CacheInv, Coherent
<1>2. UNCHANGED <<new_block, outed, hot, out_map, hot_map, id, free_id, undefined>>
  BY DEF Enter, Release
<1>3. held' \subseteq Block /\ call' \in [Thread -> Calls] /\ Callers'
  <2>1. ASSUME NEW t \in Thread, NEW b \in Block, NEW op \in {"used", "drop"}, Enter(t, op, b)
        PROVE  held' \subseteq Block /\ call' \in [Thread -> Calls] /\ Callers'
    <3>1. /\ b \in held /\ id[b] # no_ID /\ held' = held
          /\ call' = [call EXCEPT ![t] = [op |-> op, of |-> b]]
      BY <2>1 DEF Enter
    <3>2. [op |-> op, of |-> b] \in Calls
      BY DEF Calls
    <3>. QED BY <1>1, <1>2, <3>1, <3>2 DEF TypeOK, Callers, no_ID
  <2>2. ASSUME NEW b \in Block, Release(b)
        PROVE  held' \subseteq Block /\ call' \in [Thread -> Calls] /\ Callers'
    BY <1>1, <1>2, <2>2 DEF Release, TypeOK, Callers, no_ID, Idle
  <2>. QED BY <2>1, <2>2
<1>4. TypeOK'
  BY <1>1, <1>2, <1>3 DEF TypeOK
<1>5. Lists' /\ Maps' /\ Identifiers' /\ NoDanglingNode'
  BY <1>1, <1>2 DEF Lists, Maps, Finds, Identifiers, NoDanglingNode, no_ID, max_new, max_out, max_hot
<1>. QED BY <1>2, <1>3, <1>4, <1>5 DEF CacheInv, Coherent

LEMMA ClearKeeps == ASSUME CacheInv, ~undefined, Clear PROVE CacheInv'
<1>1. TypeOK /\ Lists /\ Maps /\ Identifiers /\ Callers
  BY DEF CacheInv, Coherent
<1>2. /\ new_block' = <<>> /\ outed' = <<>> /\ hot' = <<>>
      /\ out_map' = <<>> /\ hot_map' = <<>>
      /\ UNCHANGED <<id, free_id, held, call, undefined>>
  BY DEF Clear
<1>3. Range(<<>>) = {} /\ DOMAIN <<>> = {} /\ Len(<<>>) = 0 /\ IsInjective(<<>>)
  BY DEF Range, IsInjective
<1>4. TypeOK'
  BY <1>1, <1>2, <1>3 DEF TypeOK
<1>5. Lists'
  BY <1>2, <1>3, Shares DEF Lists, max_new, max_out, max_hot
<1>6. Maps'
  BY <1>2, <1>3 DEF Maps, Finds
<1>7. Identifiers'
  BY <1>1, <1>2, <1>3 DEF Identifiers, no_ID
<1>8. Callers' /\ NoDanglingNode'
  BY <1>1, <1>2 DEF Callers, NoDanglingNode, no_ID, Idle
<1>. QED BY <1>4, <1>5, <1>6, <1>7, <1>8 DEF CacheInv, Coherent

LEMMA InitCache == Init => CacheInv
<1>. SUFFICES ASSUME Init PROVE CacheInv
  OBVIOUS
<1>1. Range(<<>>) = {} /\ DOMAIN <<>> = {} /\ Len(<<>>) = 0 /\ IsInjective(<<>>)
  BY DEF Range, IsInjective
<1>2. TypeOK
  <2>1. /\ new_block \in Seq(Block) /\ outed \in Seq(Block) /\ hot \in Seq(Block)
        /\ DOMAIN out_map = {} /\ Range(out_map) = {} /\ DOMAIN hot_map = {} /\ Range(hot_map) = {}
        /\ held \subseteq Block
    BY <1>1 DEF Init
  <2>2. id \in [Block -> Identifier] /\ free_id \in Identifier
    BY CacheAssumption DEF Init, CacheAssumption, Identifier, no_ID
  <2>3. call \in [Thread -> Calls]
    BY DEF Init, Calls
  <2>4. undefined \in BOOLEAN
    BY Zenon DEF Init
  <2>. QED BY <2>1, <2>2, <2>3, <2>4 DEF TypeOK
<1>3. Lists
  BY <1>1, Shares DEF Init, Lists
<1>4. Maps
  BY <1>1 DEF Init, Maps, Finds
<1>5. Identifiers
  BY <1>1, CacheAssumption DEF Init, Identifiers, no_ID, CacheAssumption
<1>6. Callers /\ NoDanglingNode
  BY DEF Init, Callers, NoDanglingNode
<1>. QED BY <1>2, <1>3, <1>4, <1>5, <1>6 DEF CacheInv, Coherent

LEMMA StepCache == CacheInv /\ [Next]_vars => CacheInv'
<1>. SUFFICES ASSUME CacheInv, [Next]_vars PROVE CacheInv'
  OBVIOUS
<1>1. CASE UNCHANGED vars
  BY <1>1 DEF vars, CacheInv, Coherent, TypeOK, Lists, Maps, Finds, Identifiers, Callers,
              NoDanglingNode, no_ID, Idle, max_new, max_out, max_hot
<1>2. CASE Next
  <2>1. ~undefined
    BY <1>2 DEF Next
  <2>2. ASSUME NEW b \in Block, MakeNewRoom(b) PROVE CacheInv'
    BY <2>1, <2>2, MakeNewRoomKeeps
  <2>3. ASSUME NEW b \in Block, MakeNewFull(b) PROVE CacheInv'
    BY <2>1, <2>3, MakeNewFullKeeps, MakeNewDangles, Shares
  <2>4. ASSUME NEW t \in Thread, Apply(t) PROVE CacheInv'
    BY <2>1, <2>4, UpHotKeeps, UpOutKeeps, DropHotKeeps, DropOutKeeps, NotFoundKeeps DEF Apply
  <2>5. CASE Clear
    BY <2>1, <2>5, ClearKeeps
  <2>. QED BY <1>2, <2>1, <2>2, <2>3, <2>4, <2>5, OthersKeep DEF Next
<1>. QED BY <1>1, <1>2

-----------------------------------------------------------------------------
(* The theorems.                                                           *)

LEMMA CacheAlways == Spec => []CacheInv
<1>1. Init => CacheInv
  BY InitCache
<1>2. CacheInv /\ [Next]_vars => CacheInv'
  BY StepCache
<1>. QED BY <1>1, <1>2, PTL DEF Spec

\* A map that finds the blocks of a list has as many entries as the list nodes.
LEMMA Indexed ==
    ASSUME TypeOK, Identifiers, NEW s \in Seq(Block), IsInjective(s), NEW m, Finds(m, Range(s)),
           \A b \in Range(s) : id[b] # no_ID
    PROVE  Indexes(m, s)
<1>. DEFINE f == [i \in 1 .. Len(s) |-> id[s[i]]]
<1>1. Len(s) \in Nat /\ DOMAIN s = 1 .. Len(s) /\ \A i \in 1 .. Len(s) : s[i] \in Block /\ s[i] \in Range(s)
  BY DEF Range
<1>2. f \in [1 .. Len(s) -> Identifier]
  BY <1>1 DEF TypeOK
<1>3. f \in Seq(Identifier) /\ Len(f) = Len(s) /\ DOMAIN f = 1 .. Len(s)
  BY <1>1, <1>2
<1>4. IsInjective(f)
  <2>. SUFFICES ASSUME NEW i \in 1 .. Len(s), NEW j \in 1 .. Len(s), id[s[i]] = id[s[j]]
                PROVE  i = j
    BY <1>3 DEF IsInjective
  <2>1. s[i] = s[j]
    BY <1>1 DEF Identifiers
  <2>. QED BY <1>1, <2>1 DEF IsInjective
<1>5. Range(f) = {id[b] : b \in Range(s)}
  BY <1>1, <1>3 DEF Range
<1>. HIDE DEF f
<1>6. Cardinality(DOMAIN m) = Len(s)
  BY <1>3, <1>4, <1>5, Counted DEF Finds
<1>. QED BY <1>6 DEF Indexes, Finds

\* Three lists that share nothing hold as many blocks as they have nodes.
LEMMA CountedTogether ==
    ASSUME TypeOK, Lists
    PROVE  Cardinality(Cached) = Len(new_block) + Len(outed) + Len(hot)
<1>. DEFINE x == new_block \o outed
            z == x \o hot
<1>1. new_block \in Seq(Block) /\ outed \in Seq(Block) /\ hot \in Seq(Block)
  BY DEF TypeOK
<1>2. /\ x \in Seq(Block) /\ Len(x) = Len(new_block) + Len(outed)
      /\ Range(x) = Range(new_block) \cup Range(outed) /\ IsInjective(x)
  BY <1>1, Joined DEF Lists
<1>. HIDE DEF x
<1>3. /\ z \in Seq(Block) /\ Len(z) = Len(x) + Len(hot) /\ Range(z) = Range(x) \cup Range(hot)
      /\ IsInjective(z)
  <2>1. Range(x) \cap Range(hot) = {} /\ IsInjective(hot)
    BY <1>2 DEF Lists
  <2>2. /\ x \o hot \in Seq(Block) /\ Len(x \o hot) = Len(x) + Len(hot)
        /\ Range(x \o hot) = Range(x) \cup Range(hot)
        /\ IsInjective(x) /\ IsInjective(hot) /\ Range(x) \cap Range(hot) = {} => IsInjective(x \o hot)
    <3>1. x \in Seq(Block) /\ hot \in Seq(Block)
      BY <1>1, <1>2
    <3>. QED BY <3>1, Joined
  <2>. QED BY <1>2, <2>1, <2>2
<1>. HIDE DEF z
<1>4. Cardinality(Range(z)) = Len(z)
  BY <1>3, Counted
<1>. QED BY <1>2, <1>3, <1>4 DEF Cached

\* After any sequence of creations, uses, drops, evictions and clears, by any
\* threads, the lists and the maps of Allocator2Q agree, no block is kept twice,
\* the limit is kept, and from a limit of four on no freed node is read.
THEOREM CacheSafe == Spec => []CacheInvariant
<1>1. CacheInv => CacheInvariant
  <2>. SUFFICES ASSUME CacheInv PROVE CacheInvariant
    OBVIOUS
  <2>1. TypeOK /\ NoDanglingNode
    BY DEF CacheInv
  <2>2. CASE undefined
    BY <2>1, <2>2 DEF CacheInvariant, MapsMatchLists, WithinLimit
  <2>3. CASE ~undefined
    <3>1. Lists /\ Maps /\ Identifiers
      BY <2>3 DEF CacheInv, Coherent
    <3>2. Indexes(out_map, outed) /\ Indexes(hot_map, hot)
      <4>1. /\ outed \in Seq(Block) /\ IsInjective(outed) /\ Finds(out_map, Range(outed))
            /\ \A b \in Range(outed) : id[b] # no_ID
            /\ hot \in Seq(Block) /\ IsInjective(hot) /\ Finds(hot_map, Range(hot))
            /\ \A b \in Range(hot) : id[b] # no_ID
        BY <2>1, <3>1 DEF TypeOK, Lists, Maps, Identifiers
      <4>. QED BY <2>1, <3>1, <4>1, Indexed
    <3>3. WithinLimit
      BY <2>1, <3>1, CountedTogether DEF WithinLimit, Lists
    <3>. QED BY <2>1, <3>2, <3>3 DEF CacheInvariant, MapsMatchLists
  <2>. QED BY <2>1, <2>2, <2>3 DEF TypeOK
<1>. QED BY <1>1, CacheAlways, PTL


-----------------------------------------------------------------------------
(* What a call does to the lists.                                          *)

\* A call that ends acts on the block it was made for, or finds it gone.
LEMMA CallActs ==
    ASSUME CacheInv, ~undefined, NEW t \in Thread, Apply(t)
    PROVE  LET b == call[t].of
           IN  IF b \notin Cached THEN UNCHANGED <<new_block, outed, hot>>
               ELSE IF call[t].op = "drop" THEN Cached' = Cached \ {b}
               ELSE Head(hot') = b
<1>. DEFINE b == call[t].of
<1>1. TypeOK /\ Lists
  BY DEF CacheInv, Coherent
<1>2. call[t] # Idle /\ new_block' = new_block
  BY DEF Apply, UpHot, UpOut, DropHot, DropOut, NotFound, Leave, Idle
<1>3. b \in Block /\ b \notin Range(new_block)
  BY <1>2, CallFinds
<1>4. CASE UpHot(t)
  <2>1. call[t].op = "used" /\ b \in Range(hot) /\ hot' = Push(Without(hot, b), b)
    BY <1>2, <1>4, CallFinds DEF UpHot
  <2>2. Head(hot') = b
    <3>1. Without(hot, b) \in Seq(Block)
      BY <1>1, <2>1, Removed DEF TypeOK, Lists
    <3>. HIDE DEF b
    <3>. QED BY <1>3, <2>1, <3>1 DEF Push
  <2>. QED BY <2>1, <2>2 DEF Cached
<1>5. CASE UpOut(t)
  <2>1. call[t].op = "used"
    BY <1>5 DEF UpOut
  <2>2. b \in Range(outed) /\ Head(hot') = b
    BY <1>5, UpOutKeeps
  <2>. QED BY <2>1, <2>2 DEF Cached
<1>6. CASE DropHot(t)
  <2>1. call[t].op = "drop" /\ outed' = outed
    BY <1>6 DEF DropHot
  <2>2. b \in Range(hot) /\ hot' = Without(hot, b)
    BY <1>6, DropHotKeeps
  <2>3. Range(hot') = Range(hot) \ {b} /\ b \notin Range(outed)
    BY <1>1, <2>2, Removed DEF TypeOK, Lists
  <2>. QED BY <1>2, <1>3, <2>1, <2>2, <2>3 DEF Cached
<1>7. CASE DropOut(t)
  <2>1. call[t].op = "drop" /\ hot' = hot
    BY <1>7 DEF DropOut
  <2>2. b \in Range(outed) /\ outed' = Without(outed, b)
    BY <1>7, DropOutKeeps
  <2>3. Range(outed') = Range(outed) \ {b} /\ b \notin Range(hot)
    BY <1>1, <2>2, Removed DEF TypeOK, Lists
  <2>. QED BY <1>2, <1>3, <2>1, <2>2, <2>3 DEF Cached
<1>8. CASE NotFound(t)
  <2>1. b \notin Cached
    BY <1>8, NotFoundKeeps
  <2>. QED BY <1>2, <1>8, <2>1 DEF NotFound
<1>. QED BY <1>4, <1>5, <1>6, <1>7, <1>8 DEF Apply

\* Only a step of its own ends the call a thread is inside of.
LEMMA CallEnds ==
    ASSUME TypeOK, [Next]_vars, NEW t \in Thread, Acted(t)
    PROVE  ~undefined /\ Apply(t)
<1>1. call[t] # Idle /\ call'[t] = Idle /\ call \in [Thread -> Calls]
  BY DEF Acted, TypeOK
<1>2. CASE UNCHANGED vars
  BY <1>1, <1>2 DEF vars
<1>3. CASE Next
  <2>1. ASSUME NEW u \in Thread, NEW b \in Block, NEW op \in {"used", "drop"}, Enter(u, op, b)
        PROVE  FALSE
    <3>1. call[u] = Idle /\ call' = [call EXCEPT ![u] = [op |-> op, of |-> b]]
      BY <2>1 DEF Enter
    <3>. QED BY <1>1, <3>1
  <2>2. ASSUME NEW u \in Thread, Apply(u) PROVE u = t
    <3>1. call' = [call EXCEPT ![u] = Idle]
      BY <2>2 DEF Apply, UpHot, UpOut, DropHot, DropOut, NotFound, Leave
    <3>. QED BY <1>1, <3>1
  <2>3. ASSUME NEW b \in Block, MakeNewRoom(b) \/ MakeNewFull(b) \/ Release(b) PROVE FALSE
    BY <1>1, <2>3 DEF MakeNewRoom, MakeNewFull, Allocate, Release
  <2>4. CASE Clear
    BY <1>1, <2>4 DEF Clear
  <2>. QED BY <1>3, <2>1, <2>2, <2>3, <2>4 DEF Next
<1>. QED BY <1>2, <1>3

\* used() and drop() reach the block of the hook they were called through, or
\* none: the identifier the hook read before the mutex was taken never names
\* another block, whatever the other threads did in between.
THEOREM OwnBlockOnly == Spec => ActsOnOwnBlock
<1>. DEFINE Own ==
       \A t \in Thread : Acted(t) =>
         LET b == call[t].of IN
         IF b \notin Cached THEN UNCHANGED <<new_block, outed, hot>>
         ELSE IF call[t].op = "drop" THEN Cached' = Cached \ {b}
         ELSE Head(hot') = b
<1>1. CacheInv /\ [Next]_vars => Own
  <2>. SUFFICES ASSUME CacheInv, [Next]_vars, NEW t \in Thread, Acted(t)
                PROVE  LET b == call[t].of IN
                       IF b \notin Cached THEN UNCHANGED <<new_block, outed, hot>>
                       ELSE IF call[t].op = "drop" THEN Cached' = Cached \ {b}
                       ELSE Head(hot') = b
    OBVIOUS
  <2>1. TypeOK
    BY DEF CacheInv
  <2>2. ~undefined /\ Apply(t)
    BY <2>1, CallEnds
  <2>. QED BY <2>2, CallActs
<1>2. Spec => [][Own]_vars
  BY <1>1, CacheAlways, PTL DEF Spec
<1>. QED BY <1>2 DEF ActsOnOwnBlock

-----------------------------------------------------------------------------
(* The cache implements the 2Q discipline.                                 *)

LEMMA SameOperators ==
    /\ \A s : Promised!Range(s) = Range(s) /\ Promised!Front(s) = Front(s)
    /\ \A s, b : Promised!RemoveFirst(s, b) = Without(s, b)
BY DEF Promised!Range, Range, Promised!Front, Front, Promised!RemoveFirst, Without, RemoveFirst,
       Promised!RemoveAt, RemoveAt, Promised!SelectInSeq, SelectInSeq, Promised!Min, Min

\* The queue on probation, new_block in front of outed.
LEMMA Probation ==
    ASSUME TypeOK, Lists
    PROVE  LET q == new_block \o outed
           IN  /\ q \in Seq(Block) /\ Len(q) = Len(new_block) + Len(outed)
               /\ Range(q) = Range(new_block) \cup Range(outed) /\ IsInjective(q)
               /\ \A b \in Block : Push(new_block, b) \o outed = Push(q, b)
               /\ \A i \in 1 .. Len(outed) :
                    Len(new_block) + i \in DOMAIN q /\ q[Len(new_block) + i] = outed[i]
<1>1. new_block \in Seq(Block) /\ outed \in Seq(Block)
  BY DEF TypeOK
<1>2. IsInjective(new_block) /\ IsInjective(outed) /\ Range(new_block) \cap Range(outed) = {}
  BY DEF Lists
<1>. QED BY <1>1, <1>2, Joined

\* Trimming is eviction.
LEMMA SameTrim == \A s, cap : Promised!Trim(s, cap) = Evict(s, cap)
BY SameOperators DEF Promised!Trim, Evict, Overfull

LEMMA RoomAdmits ==
    ASSUME CacheInv, ~undefined, limit >= 4, NEW b \in Block, MakeNewRoom(b)
    PROVE  Promised!Admit(b)
<1>. DEFINE q == new_block \o outed
<1>1. TypeOK /\ Lists
  BY DEF CacheInv, Coherent
<1>2. /\ b \notin Range(new_block) /\ b \notin Range(outed) /\ b \notin Range(hot)
      /\ Len(new_block) < max_new /\ new_block' = Push(new_block, b)
      /\ outed' = outed /\ hot' = hot
  BY DEF MakeNewRoom, Allocate, Cached
<1>3. /\ Range(q) = Range(new_block) \cup Range(outed) /\ q \in Seq(Block)
      /\ Len(q) = Len(new_block) + Len(outed) /\ Push(new_block, b) \o outed = Push(q, b)
  BY <1>1, Probation
<1>4. outed = <<>> /\ Len(outed) = 0 /\ Len(new_block) \in Nat
  BY <1>1, <1>2, Shares DEF Lists, TypeOK
<1>. HIDE DEF q
<1>5. Evict(Push(q, b), max_new + max_out) = Push(q, b)
  <2>1. Len(Push(q, b)) = Len(q) + 1
    BY <1>3 DEF Push
  <2>2. Len(q) + 1 <= max_new + max_out
    BY <1>2, <1>3, <1>4, Shares
  <2>3. ~ Overfull(Push(q, b), max_new + max_out)
    BY <1>2, <1>3, <1>4, <2>1, Shares DEF Overfull
  <2>. QED BY <2>3 DEF Evict
<1>6. (new_block \o outed)' = Promised!Trim(Push(q, b), max_new + max_out)
  BY <1>2, <1>3, <1>5, SameTrim
<1>. QED BY <1>2, <1>3, <1>6, SameOperators DEF Promised!Admit, Push, q

LEMMA FullAdmits ==
    ASSUME CacheInv, ~undefined, limit >= 4, NEW b \in Block, MakeNewFull(b)
    PROVE  Promised!Admit(b)
<1>. DEFINE q == new_block \o outed
            p == Push(new_block, b)
            moved == Push(outed, Last(p))
<1>1. TypeOK /\ Lists
  BY DEF CacheInv, Coherent
<1>2. /\ b \notin Range(new_block) /\ b \notin Range(outed) /\ b \notin Range(hot)
      /\ Len(new_block) >= max_new /\ new_block' = Front(p)
      /\ outed' = Evict(moved, max_out) /\ hot' = hot
  BY DEF MakeNewFull, Allocate, Cached
<1>3. /\ Range(q) = Range(new_block) \cup Range(outed) /\ q \in Seq(Block)
      /\ Len(q) = Len(new_block) + Len(outed) /\ Push(new_block, b) \o outed = Push(q, b)
  BY <1>1, Probation
<1>4. /\ p \in Seq(Block) /\ p # <<>> /\ Front(p) \in Seq(Block)
      /\ Last(p) \in Range(new_block)
  BY <1>1, <1>2, PushedOut, Shares
<1>5. Last(p) \in Block
  BY <1>1, <1>4, ListsTyped
<1>6. outed \in Seq(Block) /\ Len(new_block) = max_new /\ Len(outed) \in Nat
      /\ max_new \in Nat /\ max_out \in Nat
  BY <1>1, <1>2, Shares DEF TypeOK, Lists
<1>. HIDE DEF p, q
<1>7. /\ moved \in Seq(Block) /\ Len(moved) = Len(outed) + 1 /\ moved # <<>>
  BY <1>5, <1>6 DEF Push
<1>8. Front(p) \o moved = Push(q, b)
  <2>1. Front(p) \o moved = p \o outed
    BY <1>4, <1>6, MovedOver
  <2>. QED BY <1>3, <2>1 DEF p
<1>. HIDE DEF moved
<1>9. Len(Push(q, b)) = max_new + Len(outed) + 1
  BY <1>3, <1>6 DEF Push
<1>10. Overfull(moved, max_out) <=> Overfull(Push(q, b), max_new + max_out)
  BY <1>6, <1>7, <1>9 DEF Overfull
<1>11. Front(Push(q, b)) = Front(p) \o Front(moved)
  BY <1>4, <1>7, <1>8, FrontOfJoined
<1>12. Front(p) \o Evict(moved, max_out) = Evict(Push(q, b), max_new + max_out)
  BY <1>8, <1>10, <1>11 DEF Evict
<1>13. (new_block \o outed)' = Promised!Trim(Push(q, b), max_new + max_out)
  BY <1>2, <1>12, SameTrim
<1>. QED BY <1>2, <1>3, <1>13, SameOperators DEF Promised!Admit, Push, q

\* A use or a drop that finds its block is the promised one.
LEMMA CallPromised ==
    ASSUME CacheInv, ~undefined, NEW t \in Thread, Apply(t)
    PROVE  \/ UNCHANGED <<new_block \o outed, hot>>
           \/ LET b == call[t].of
              IN  b \in Block /\ (Promised!Touch(b) \/ Promised!Promote(b) \/ Promised!Drop(b))
<1>. DEFINE b == call[t].of
            q == new_block \o outed
<1>1. TypeOK /\ Lists
  BY DEF CacheInv, Coherent
<1>2. call[t] # Idle /\ new_block' = new_block
  BY DEF Apply, UpHot, UpOut, DropHot, DropOut, NotFound, Leave, Idle
<1>3. b \in Block /\ b \notin Range(new_block)
  BY <1>2, CallFinds
<1>4. /\ Range(q) = Range(new_block) \cup Range(outed) /\ q \in Seq(Block)
      /\ \A i \in 1 .. Len(outed) : Len(new_block) + i \in DOMAIN q /\ q[Len(new_block) + i] = outed[i]
  BY <1>1, Probation
<1>5. /\ new_block \in Seq(Block) /\ outed \in Seq(Block) /\ hot \in Seq(Block)
      /\ IsInjective(outed) /\ IsInjective(q)
  BY <1>1, Probation DEF TypeOK, Lists
<1>6. b \in Range(outed) => Without(q, b) = new_block \o Without(outed, b)
  BY <1>3, <1>5, RemovedFromSecond
<1>7. CASE UpHot(t)
  <2>1. b \in Range(hot) /\ hot' = Push(Without(hot, b), b) /\ outed' = outed
    BY <1>2, <1>7, CallFinds DEF UpHot
  <2>2. Promised!Touch(b)
    BY <1>2, <2>1, SameOperators DEF Promised!Touch, Push
  <2>. QED BY <1>3, <2>2
<1>8. CASE UpOut(t)
  <2>1. b \in Range(outed) /\ outed' = Without(outed, b) /\ hot' = Evict(Push(hot, b), max_hot)
    BY <1>8, UpOutKeeps
  <2>2. PICK i \in 1 .. Len(outed) : outed[i] = b
    BY <1>5, <2>1, SMTT(30) DEF Range
  <2>3. outed # <<>> /\ Len(new_block) = max_new /\ max_new \in Nat /\ i \in Nat \ {0}
    BY <1>1, <1>5, <2>2, Shares DEF Lists
  <2>4. max_new + i \in DOMAIN q /\ max_new + i > max_new /\ q[max_new + i] = b
    BY <1>4, <2>2, <2>3
  <2>5. (new_block \o outed)' = Promised!RemoveFirst(q, b)
    BY <1>2, <1>6, <2>1, SameOperators
  <2>6. hot' = Promised!Trim(<<b>> \o hot, max_hot)
    BY <2>1, SameTrim DEF Push
  <2>. HIDE DEF b
  <2>7. Promised!Promote(b)
    BY <2>4, <2>5, <2>6 DEF Promised!Promote
  <2>. QED BY <1>3, <2>7 DEF b
<1>9. CASE DropHot(t)
  <2>1. b \in Range(hot) /\ hot' = Without(hot, b) /\ outed' = outed
    BY <1>9, DropHotKeeps DEF DropHot
  <2>2. b \notin Range(q)
    BY <1>1, <1>3, <1>4, <2>1 DEF Lists
  <2>3. Without(q, b) = q
    BY <1>4, <2>2, NotThere
  <2>4. Promised!Drop(b)
    BY <1>2, <2>1, <2>3, SameOperators DEF Promised!Drop
  <2>. QED BY <1>3, <2>4
<1>10. CASE DropOut(t)
  <2>1. b \in Range(outed) /\ outed' = Without(outed, b) /\ hot' = hot
    BY <1>10, DropOutKeeps DEF DropOut
  <2>2. b \notin Range(hot) /\ b \in Range(q)
    BY <1>1, <1>4, <2>1 DEF Lists
  <2>3. Without(hot, b) = hot
    BY <1>5, <2>2, NotThere
  <2>4. Promised!Drop(b)
    BY <1>2, <1>6, <2>1, <2>2, <2>3, SameOperators DEF Promised!Drop
  <2>. QED BY <1>3, <2>4
<1>11. CASE NotFound(t)
  BY <1>2, <1>11 DEF NotFound
<1>. QED BY <1>7, <1>8, <1>9, <1>10, <1>11 DEF Apply

\* Every step of the cache is a step of the 2Q queue or leaves it as it is.
LEMMA StepPromised ==
    ASSUME CacheInv, limit >= 4, [Next]_vars
    PROVE  [Promised!Next]_<<new_block \o outed, hot>>
<1>1. CASE UNCHANGED vars
  BY <1>1 DEF vars
<1>2. CASE Next
  <2>1. ~undefined
    BY <1>2 DEF Next
  <2>2. ASSUME NEW b \in Block, MakeNewRoom(b) \/ MakeNewFull(b)
        PROVE  Promised!Next
    BY <2>1, <2>2, RoomAdmits, FullAdmits DEF Promised!Next
  <2>3. ASSUME NEW t \in Thread, Apply(t)
        PROVE  Promised!Next \/ UNCHANGED <<new_block \o outed, hot>>
    BY <2>1, <2>3, CallPromised DEF Promised!Next
  <2>4. CASE Clear
    <3>1. (new_block \o outed)' = <<>> /\ hot' = <<>>
      BY <2>4 DEF Clear
    <3>. QED BY <3>1 DEF Promised!Next, Promised!Clear
  <2>5. CASE \/ \E t \in Thread, b \in Block, op \in {"used", "drop"} : Enter(t, op, b)
             \/ \E b \in Block : Release(b)
    BY <2>5 DEF Enter, Release
  <2>. QED BY <1>2, <2>2, <2>3, <2>4, <2>5 DEF Next
<1>. QED BY <1>1, <1>2

\* An allocator made for four blocks or more implements the 2Q discipline:
\* blocks leave probation in the order they came, admissions never touch a
\* protected block, and a block is promoted by a use made after its grace.
THEOREM ImplementsTwoQueue == limit >= 4 => (Spec => Implements2Q)
<1>. SUFFICES ASSUME limit >= 4 PROVE Spec => Promised!Spec
  BY DEF Implements2Q
<1>1. Init => Promised!Init
  BY DEF Init, Promised!Init
<1>2. CacheInv /\ [Next]_vars => [Promised!Next]_<<new_block \o outed, hot>>
  BY StepPromised
<1>. QED BY <1>1, <1>2, CacheAlways, PTL DEF Spec, Promised!Spec

=============================================================================
