------------------------ MODULE KeyboardReportsProofs ------------------------
(***************************************************************************)
(* What is lit is what was asked for, for every number of zones, set of    *)
(* colours, percentages and faults: the reports of a configuration are     *)
(* decoded to its zones and its level.                                     *)
(***************************************************************************)
EXTENDS KeyboardReports, FiniteSetTheorems, SequenceTheorems, WellFoundedInduction, TLAPS

-----------------------------------------------------------------------------
(* Counting *)

\* Every set of natural numbers that has a member has a least one.
LEMMA LeastExists ==
  ASSUME NEW S, S \subseteq Nat, S # {}
  PROVE  \E x \in S : \A y \in S : x <= y
<1> DEFINE R == OpToRel(<, Nat)
<1>1. PICK x \in S : \A y \in S : ~(<<y, x>> \in R)
  BY WFMin, NatLessThanWellFounded
<1>2. ASSUME NEW y \in S PROVE x <= y
  <2>1. x \in Nat /\ y \in Nat
    OBVIOUS
  <2>2. y < x => <<y, x>> \in R
    BY <2>1 DEF OpToRel
  <2> HIDE DEF R
  <2> QED
    BY <1>1, <2>1, <2>2
<1> QED
  BY <1>2

\* What holds at zero and passes from each number to the next holds for all, as
\* a statement about the set of numbers for which it holds.
LEMMA Counting ==
  ASSUME NEW S, 0 \in S, \A n \in Nat : n \in S => n + 1 \in S
  PROVE  \A n \in Nat : n \in S
<1> DEFINE T == {n \in Nat : n \notin S}
<1>1. SUFFICES ASSUME T # {} PROVE FALSE
  OBVIOUS
<1>2. PICK x \in T : \A y \in T : x <= y
  BY <1>1, LeastExists
<1>3. x \in Nat /\ x # 0 /\ x \notin S
  OBVIOUS
<1>4. x - 1 \in Nat /\ (x - 1) + 1 = x /\ ~(x <= x - 1)
  BY <1>3
<1>5. x - 1 \notin T
  BY <1>2, <1>4
<1> QED
  BY <1>3, <1>4, <1>5

-----------------------------------------------------------------------------
(* Rounding and gradients *)

\* Division with remainder has one solution.
LEMMA DivModUnique ==
  ASSUME NEW n \in Int, NEW d \in Nat \ {0}, NEW q \in Int, NEW r \in Int,
         n = q * d + r, 0 <= r, r < d
  PROVE  n \div d = q /\ n % d = r
<1>1. n \div d \in Int /\ n % d \in Int
  OBVIOUS
<1>2. n = (n \div d) * d + (n % d) /\ 0 <= n % d /\ n % d < d
  OBVIOUS
<1> DEFINE a == n \div d
<1>3. a * d + (n % d) = q * d + r
  BY <1>2
<1> QED
  BY <1>1, <1>2, <1>3, SMTT(30)

\* Rounding takes one of the two neighbours.
LEMMA RoundType ==
  ASSUME NEW n \in Nat, NEW d \in Nat \ {0}
  PROVE  /\ RoundHalfToEven(n, d) \in Nat
         /\ RoundHalfToEven(n, d) \in {n \div d, n \div d + 1}
  BY DEF RoundHalfToEven

\* A whole number stays itself.
LEMMA RoundExact ==
  ASSUME NEW k \in Nat, NEW d \in Nat \ {0}
  PROVE  RoundHalfToEven(k * d, d) = k
<1>1. (k * d) \div d = k /\ (k * d) % d = 0
  BY DivModUnique, k * d \in Int
<1> QED
  BY <1>1 DEF RoundHalfToEven

\* Rounding is monotone.
LEMMA RoundMonotone ==
  ASSUME NEW m \in Nat, NEW n \in Nat, NEW d \in Nat \ {0}, m <= n
  PROVE  RoundHalfToEven(m, d) <= RoundHalfToEven(n, d)
<1> DEFINE p == m \div d
           q == n \div d
           r == m % d
           s == n % d
<1>1. p \in Nat /\ q \in Nat /\ r \in 0..(d - 1) /\ s \in 0..(d - 1)
  OBVIOUS
<1>2. m = p * d + r /\ n = q * d + s
  OBVIOUS
<1>3. p <= q
  <2>1. SUFFICES ASSUME p >= q + 1 PROVE FALSE
    BY <1>1
  <2>2. p * d >= (q + 1) * d
    BY <1>1, <2>1, SMTT(30)
  <2>3. (q + 1) * d = q * d + d
    BY <1>1, SMTT(30)
  <2> QED
    BY <1>1, <1>2, <2>2, <2>3, SMTT(30)
<1>4. CASE p = q
  <2>1. r <= s
    BY <1>1, <1>2, <1>4, SMTT(30)
  <2> QED
    BY <1>1, <1>4, <2>1 DEF RoundHalfToEven
<1>5. CASE p < q
  <2>1. RoundHalfToEven(m, d) \in {p, p + 1} /\ RoundHalfToEven(n, d) \in {q, q + 1}
    BY RoundType
  <2> HIDE DEF p, q
  <2> QED
    BY <1>1, <1>5, <2>1
<1> QED
  BY <1>1, <1>3, <1>4, <1>5

\* Products keep the order.
LEMMA ProductMonotone ==
  ASSUME NEW a \in Nat, NEW b \in Nat, NEW d \in Nat, a <= b
  PROVE  a * d \in Nat /\ b * d \in Nat /\ a * d <= b * d
<1>1. a * d \in Nat /\ b * d \in Nat
  BY SMTT(30)
<1>2. (b - a) \in Nat /\ (b - a) * d \in Nat
  BY SMTT(30)
<1>3. b * d = a * d + (b - a) * d
  BY SMTT(30)
<1> QED
  BY <1>1, <1>2, <1>3

\* Between two values in n steps: what step k rounds is natural, at the ends it
\* is the first and the last value, and a step goes the same way as the whole.
LEMMA StepBetween ==
  ASSUME NEW a \in Nat, NEW b \in Nat, NEW n \in Nat \ {0}, NEW k \in 0..n
  PROVE  /\ a * n + (b - a) * k \in Nat
         /\ a * n + (b - a) * 0 = a * n /\ a * n + (b - a) * n = b * n
         /\ a * n + (b - a) * k <= a * n \/ a * n + (b - a) * k <= b * n
         /\ a <= b => a * n + (b - a) * k <= a * n + (b - a) * (k + 1)
         /\ b < a => a * n + (b - a) * (k + 1) <= a * n + (b - a) * k
<1> DEFINE at(j) == a * n + (b - a) * j
<1>1. a * n \in Nat /\ b * n \in Nat
  BY SMTT(30)
<1>2. at(0) = a * n /\ at(n) = b * n
  <2>1. (b - a) * n = b * n - a * n /\ (b - a) * 0 = 0
    BY SMTT(30)
  <2> QED
    BY <1>1, <2>1
<1>3. (b - a) * (k + 1) = (b - a) * k + (b - a) /\ (b - a) * k \in Int
  BY SMTT(30)
<1>4. CASE a <= b
  <2>1. b - a \in Nat /\ (b - a) * k = k * (b - a) /\ (b - a) * n = n * (b - a)
    BY <1>4, SMTT(30)
  <2>2. k * (b - a) \in Nat /\ n * (b - a) \in Nat /\ k * (b - a) <= n * (b - a)
    BY <2>1, ProductMonotone
  <2> QED
    BY <1>1, <1>2, <1>3, <1>4, <2>1, <2>2
<1>5. CASE b < a
  <2>1. a - b \in Nat /\ (b - a) * k = -(k * (a - b)) /\ (b - a) * n = -(n * (a - b))
    BY <1>5, SMTT(30)
  <2>2. k * (a - b) \in Nat /\ n * (a - b) \in Nat /\ k * (a - b) <= n * (a - b)
    BY <2>1, ProductMonotone
  <2> QED
    BY <1>1, <1>2, <1>3, <1>5, <2>1, <2>2
<1> QED
  BY <1>4, <1>5

\* A gradient is a frame of colours, starts and ends with its two, and goes one
\* way between.
LEMMA GradientHolds ==
  ASSUME NEW a \in Colour, NEW b \in Colour
  PROVE  LET zones == Gradient(a, b)
         IN  /\ zones \in [1..Zones -> Colour]
             /\ zones[1] = a /\ zones[Zones] = b
             /\ \A z \in 2..Zones : \A c \in 1..3 :
                  IF a[c] <= b[c] THEN zones[z - 1][c] <= zones[z][c]
                  ELSE zones[z - 1][c] >= zones[z][c]
<1> DEFINE n == Zones - 1
           zones == Gradient(a, b)
           at(c, k) == a[c] * n + (b[c] - a[c]) * k
<1>1. Zones \in 2..255 /\ n \in Nat \ {0} /\ n + 1 = Zones
  BY KeyboardAssumption
<1>2. \A c \in 1..3 : a[c] \in Nat /\ b[c] \in Nat /\ a[c] <= 255 /\ b[c] <= 255
  BY DEF Colour, Byte
<1>3. \A z \in 1..Zones, c \in 1..3 : zones[z][c] = RoundHalfToEven(at(c, z - 1), n)
  BY DEF Gradient
<1>4. DOMAIN zones = 1..Zones /\ \A z \in 1..Zones : zones[z] = [c \in 1..3 |-> zones[z][c]]
  BY DEF Gradient
<1>5. \A c \in 1..3, k \in 0..n :
        /\ at(c, k) \in Nat /\ at(c, 0) = a[c] * n /\ at(c, n) = b[c] * n
        /\ at(c, k) <= a[c] * n \/ at(c, k) <= b[c] * n
        /\ a[c] <= b[c] => at(c, k) <= at(c, k + 1)
        /\ b[c] < a[c] => at(c, k + 1) <= at(c, k)
  <2> TAKE c \in 1..3, k \in 0..n
  <2>1. a[c] \in Nat /\ b[c] \in Nat
    BY <1>2
  <2> HIDE DEF n
  <2> QED
    BY <1>1, <2>1, StepBetween
<1> HIDE DEF at, zones
<1>6. \A c \in 1..3, k \in 0..n :
        RoundHalfToEven(at(c, k), n) \in 0..255
  <2> TAKE c \in 1..3, k \in 0..n
  <2>1. at(c, k) \in Nat /\ RoundHalfToEven(at(c, k), n) \in Nat
    BY <1>1, <1>5, RoundType
  <2>2. PICK e \in 0..255 : at(c, k) <= e * n
    <3>1. a[c] \in 0..255 /\ b[c] \in 0..255
      BY <1>2
    <3>2. at(c, k) <= a[c] * n \/ at(c, k) <= b[c] * n
      BY <1>5
    <3> QED
      BY <3>1, <3>2
  <2>3. e * n \in Nat /\ RoundHalfToEven(e * n, n) = e
    <3>1. e \in Nat
      OBVIOUS
    <3> HIDE DEF n
    <3> QED
      BY <1>1, <3>1, RoundExact, ProductMonotone
  <2>4. RoundHalfToEven(at(c, k), n) <= e
    BY <1>1, <2>1, <2>2, <2>3, RoundMonotone
  <2> QED
    BY <2>1, <2>2, <2>4
<1>7. \A z \in 1..Zones : z - 1 \in 0..n
  BY <1>1
<1>8. zones \in [1..Zones -> Colour]
  <2>1. \A z \in 1..Zones, c \in 1..3 : zones[z][c] \in Byte
    BY <1>3, <1>6, <1>7 DEF Byte
  <2>2. \A z \in 1..Zones : zones[z] \in Colour
    BY <1>4, <2>1 DEF Colour
  <2>3. zones = [z \in 1..Zones |-> zones[z]]
    BY DEF zones, Gradient
  <2> QED
    BY <2>2, <2>3
<1>9. zones[1] = a /\ zones[Zones] = b
  <2>1. \A c \in 1..3 : zones[1][c] = a[c] /\ zones[Zones][c] = b[c]
    <3> TAKE c \in 1..3
    <3>1. /\ zones[1][c] = RoundHalfToEven(at(c, 0), n)
          /\ zones[Zones][c] = RoundHalfToEven(at(c, n), n)
      <4>1. 1 \in 1..Zones /\ Zones \in 1..Zones /\ 1 - 1 = 0 /\ Zones - 1 = n
        BY <1>1
      <4> HIDE DEF n
      <4> QED
        BY <1>3, <4>1
    <3>2. at(c, 0) = a[c] * n /\ at(c, n) = b[c] * n
      BY <1>1, <1>5
    <3> QED
      BY <1>1, <1>2, <3>1, <3>2, RoundExact
  <2>2. zones[1] = [c \in 1..3 |-> zones[1][c]] /\ zones[Zones] = [c \in 1..3 |-> zones[Zones][c]]
    BY <1>1, <1>4
  <2>3. a = [c \in 1..3 |-> a[c]] /\ b = [c \in 1..3 |-> b[c]]
    BY DEF Colour
  <2> QED
    BY <2>1, <2>2, <2>3
<1>10. \A z \in 2..Zones : \A c \in 1..3 :
         IF a[c] <= b[c] THEN zones[z - 1][c] <= zones[z][c] ELSE zones[z - 1][c] >= zones[z][c]
  <2> TAKE z \in 2..Zones
  <2> TAKE c \in 1..3
  <2> DEFINE k == z - 2
  <2>1. k \in 0..n /\ k + 1 \in 0..n /\ k < n /\ (z - 1) - 1 = k /\ z - 1 = k + 1
    BY <1>1
  <2>2. z \in 1..Zones /\ z - 1 \in 1..Zones
    BY <1>1
  <2> HIDE DEF k
  <2>3. /\ zones[z - 1][c] = RoundHalfToEven(at(c, k), n)
        /\ zones[z][c] = RoundHalfToEven(at(c, k + 1), n)
    BY <1>3, <2>1, <2>2
  <2>4. at(c, k) \in Nat /\ at(c, k + 1) \in Nat
    BY <1>5, <2>1
  <2>5. /\ a[c] <= b[c] => at(c, k) <= at(c, k + 1)
        /\ b[c] < a[c] => at(c, k + 1) <= at(c, k)
        /\ a[c] <= b[c] \/ b[c] < a[c]
    BY <1>2, <1>5, <2>1
  <2>6. /\ a[c] <= b[c] => zones[z - 1][c] <= zones[z][c]
        /\ ~(a[c] <= b[c]) => zones[z - 1][c] >= zones[z][c]
    BY <1>1, <2>3, <2>4, <2>5, RoundMonotone, RoundType
  <2> QED
    BY <2>6
<1> QED
  BY <1>8, <1>9, <1>10 DEF zones
-----------------------------------------------------------------------------
(* The zones of a set, in order *)

\* The recursion of Ascending has a solution.
LEMMA AscendingExists ==
  ASSUME NEW kept
  PROVE  \E f : f = [z \in 0..Zones |->
                       IF z = 0 THEN <<>>
                       ELSE IF z \in kept THEN Append(f[z - 1], z) ELSE f[z - 1]]
<1> DEFINE S == {n \in Nat : \E f : f = [z \in 0..n |->
                               IF z = 0 THEN <<>>
                               ELSE IF z \in kept THEN Append(f[z - 1], z) ELSE f[z - 1]]}
<1>1. 0 \in S
  <2> DEFINE f == [z \in 0..0 |-> <<>>]
  <2>1. f = [z \in 0..0 |-> IF z = 0 THEN <<>>
                            ELSE IF z \in kept THEN Append(f[z - 1], z) ELSE f[z - 1]]
    OBVIOUS
  <2> QED
    BY <2>1
<1>2. ASSUME NEW n \in Nat, n \in S PROVE n + 1 \in S
  <2>1. PICK f : f = [z \in 0..n |->
                        IF z = 0 THEN <<>>
                        ELSE IF z \in kept THEN Append(f[z - 1], z) ELSE f[z - 1]]
    BY <1>2
  <2> DEFINE last == IF n + 1 \in kept THEN Append(f[n], n + 1) ELSE f[n]
             g == [z \in 0..(n + 1) |-> IF z = n + 1 THEN last ELSE f[z]]
  <2>2. \A z \in 0..n : g[z] = f[z]
    OBVIOUS
  <2>3. g[n + 1] = last
    OBVIOUS
  <2>4. ASSUME NEW z \in 0..(n + 1)
        PROVE  g[z] = IF z = 0 THEN <<>>
                      ELSE IF z \in kept THEN Append(g[z - 1], z) ELSE g[z - 1]
    <3>1. CASE z = n + 1
      <4>1. z # 0 /\ z - 1 = n /\ n \in 0..n
        BY <3>1
      <4> QED
        BY <2>2, <2>3, <3>1, <4>1
    <3>2. CASE z = 0
      BY <2>1, <2>2, <3>2
    <3>3. CASE z # 0 /\ z # n + 1
      <4>1. z \in 0..n /\ z - 1 \in 0..n
        BY <3>3
      <4>2. f[z] = IF z \in kept THEN Append(f[z - 1], z) ELSE f[z - 1]
        BY <2>1, <3>3, <4>1
      <4> HIDE DEF g
      <4> QED
        BY <2>2, <3>3, <4>1, <4>2
    <3> QED
      BY <3>1, <3>2, <3>3
  <2>5. g = [z \in 0..(n + 1) |-> g[z]]
    OBVIOUS
  <2> HIDE DEF g
  <2>6. g = [z \in 0..(n + 1) |->
               IF z = 0 THEN <<>>
               ELSE IF z \in kept THEN Append(g[z - 1], z) ELSE g[z - 1]]
    BY <2>4, <2>5
  <2>7. \E h : h = [z \in 0..(n + 1) |->
                      IF z = 0 THEN <<>>
                      ELSE IF z \in kept THEN Append(h[z - 1], z) ELSE h[z - 1]]
    BY <2>6, Zenon
  <2>8. n + 1 \in Nat
    OBVIOUS
  <2> QED
    BY <2>7, <2>8, Zenon
<1> HIDE DEF S
<1>3. Zones \in S
  BY <1>1, <1>2, Counting, KeyboardAssumption
<1> QED
  BY <1>3 DEF S

\* The members of a set of zones, each once, in order.
LEMMA AscendingHolds ==
  ASSUME NEW kept \in SUBSET (1..Zones)
  PROVE  LET s == Ascending(kept)
         IN  /\ s \in Seq(1..Zones)
             /\ Len(s) = Cardinality(kept)
             /\ {s[i] : i \in 1..Len(s)} = kept
             /\ \A i, j \in 1..Len(s) : i < j => s[i] < s[j]
<1> DEFINE upTo(n) == {z \in kept : z <= n}
<1>0. Zones \in Nat /\ Zones > 1
  BY KeyboardAssumption
<1>1. upTo(0) = {} /\ upTo(Zones) = kept
  <2>1. ASSUME NEW z \in kept, z <= 0 PROVE FALSE
    BY <1>0, <2>1
  <2>2. ASSUME NEW z \in kept PROVE z <= Zones
    BY <1>0
  <2>3. upTo(0) = {}
    BY <2>1
  <2>4. upTo(Zones) = kept
    BY <2>2
  <2> QED
    BY <2>3, <2>4
<1>9. ASSUME NEW n \in Nat
      PROVE  /\ n + 1 \notin kept => upTo(n + 1) = upTo(n)
             /\ n + 1 \in kept => upTo(n + 1) = upTo(n) \cup {n + 1}
             /\ \A z \in upTo(n) : z < n + 1
  <2>1. ASSUME NEW z \in kept
        PROVE  /\ z <= n + 1 <=> z <= n \/ z = n + 1
               /\ z <= n => z < n + 1
    BY <1>0
  <2>2. n + 1 \notin kept => upTo(n + 1) = upTo(n)
    BY <2>1
  <2>3. n + 1 \in kept => upTo(n + 1) = upTo(n) \cup {n + 1}
    BY <2>1
  <2> QED
    BY <2>1, <2>2, <2>3
<1> HIDE DEF upTo
<1> DEFINE u == CHOOSE f : f = [z \in 0..Zones |->
                       IF z = 0 THEN <<>>
                       ELSE IF z \in kept THEN Append(f[z - 1], z) ELSE f[z - 1]]
           S == {n \in Nat : n <= Zones =>
                   /\ u[n] \in Seq(1..Zones)
                   /\ IsFiniteSet(upTo(n)) /\ Len(u[n]) = Cardinality(upTo(n))
                   /\ {u[n][i] : i \in 1..Len(u[n])} = upTo(n)
                   /\ \A i, j \in 1..Len(u[n]) : i < j => u[n][i] < u[n][j]}
<1>2. u = [z \in 0..Zones |->
             IF z = 0 THEN <<>>
             ELSE IF z \in kept THEN Append(u[z - 1], z) ELSE u[z - 1]]
  BY AscendingExists, Zenon
<1>3. Ascending(kept) = u[Zones]
  BY DEF Ascending
<1> HIDE DEF u
<1>4. 0 \in S
  <2>1. u[0] = <<>>
    BY <1>0, <1>2
  <2>3. IsFiniteSet({}) /\ Cardinality({}) = 0
    BY FS_EmptySet
  <2>4. <<>> \in Seq(1..Zones) /\ Len(<<>>) = 0
    OBVIOUS
  <2>5. {u[0][i] : i \in 1..0} = {}
    OBVIOUS
  <2> QED
    BY <1>1, <2>1, <2>3, <2>4, <2>5
<1>5. ASSUME NEW n \in Nat, n \in S PROVE n + 1 \in S
  <2>1. SUFFICES ASSUME n + 1 <= Zones
                 PROVE  /\ u[n + 1] \in Seq(1..Zones)
                        /\ IsFiniteSet(upTo(n + 1)) /\ Len(u[n + 1]) = Cardinality(upTo(n + 1))
                        /\ {u[n + 1][i] : i \in 1..Len(u[n + 1])} = upTo(n + 1)
                        /\ \A i, j \in 1..Len(u[n + 1]) : i < j => u[n + 1][i] < u[n + 1][j]
    BY <1>5
  <2> DEFINE s == u[n]
             t == u[n + 1]
  <2>2. /\ s \in Seq(1..Zones)
        /\ IsFiniteSet(upTo(n)) /\ Len(s) = Cardinality(upTo(n))
        /\ {s[i] : i \in 1..Len(s)} = upTo(n)
        /\ \A i, j \in 1..Len(s) : i < j => s[i] < s[j]
    BY <1>0, <1>5, <2>1
  <2>3. t = IF n + 1 \in kept THEN Append(s, n + 1) ELSE s
    <3>1. n + 1 \in 0..Zones /\ n + 1 # 0 /\ (n + 1) - 1 = n
      BY <1>0, <2>1
    <3> QED
      BY <1>2, <3>1
  <2> HIDE DEF s, t, S
  <2>4. CASE n + 1 \notin kept
    <3>1. upTo(n + 1) = upTo(n)
      BY <1>9, <2>4
    <3>2. t = s
      BY <2>3, <2>4
    <3>3. /\ t \in Seq(1..Zones)
          /\ IsFiniteSet(upTo(n + 1)) /\ Len(t) = Cardinality(upTo(n + 1))
          /\ {t[i] : i \in 1..Len(t)} = upTo(n + 1)
          /\ \A i, j \in 1..Len(t) : i < j => t[i] < t[j]
      BY <2>2, <3>1, <3>2
    <3> QED
      BY <3>3 DEF t
  <2>5. CASE n + 1 \in kept
    <3>4. \A z \in upTo(n) : z < n + 1
      BY <1>9
    <3>1. upTo(n + 1) = upTo(n) \cup {n + 1} /\ n + 1 \notin upTo(n)
      BY <1>9, <2>5, <3>4
    <3>2. t = Append(s, n + 1) /\ n + 1 \in 1..Zones
      BY <2>3, <2>5
    <3>3. /\ t \in Seq(1..Zones) /\ Len(t) = Len(s) + 1 /\ Len(s) \in Nat
          /\ \A i \in 1..Len(s) : t[i] = s[i]
          /\ t[Len(s) + 1] = n + 1
      <4>1. s \in Seq(1..Zones) /\ Len(s) \in Nat
        BY <2>2, LenProperties
      <4> DEFINE e == n + 1
      <4> HIDE DEF e
      <4>2. e \in 1..Zones /\ t = Append(s, e)
        BY <3>2 DEF e
      <4>3. /\ t \in Seq(1..Zones) /\ Len(t) = Len(s) + 1
            /\ \A i \in 1..Len(s) : t[i] = s[i]
            /\ t[Len(s) + 1] = e
        BY <4>1, <4>2, AppendProperties
      <4> QED
        BY <4>1, <4>3 DEF e
    <3>5. IsFiniteSet(upTo(n + 1)) /\ Len(t) = Cardinality(upTo(n + 1))
      BY <2>2, <3>1, <3>3, FS_AddElement
    <3>6. {t[i] : i \in 1..Len(t)} = upTo(n + 1)
      <4>1. \A i \in 1..Len(t) : i \in 1..Len(s) \/ i = Len(s) + 1
        BY <3>3
      <4>2. ASSUME NEW i \in 1..Len(t) PROVE t[i] \in upTo(n + 1)
        BY <2>2, <3>1, <3>3, <4>1
      <4>3. ASSUME NEW z \in upTo(n + 1) PROVE \E i \in 1..Len(t) : t[i] = z
        <5>1. CASE z = n + 1
          <6>1. Len(s) + 1 \in 1..Len(t)
            BY <3>3
          <6> QED
            BY <3>3, <5>1, <6>1
        <5>2. CASE z \in upTo(n)
          <6>1. PICK i \in 1..Len(s) : s[i] = z
            BY <2>2, <5>2
          <6>2. i \in 1..Len(t)
            BY <3>3
          <6> QED
            BY <3>3, <6>1, <6>2
        <5> QED
          BY <3>1, <5>1, <5>2
      <4> QED
        BY <4>2, <4>3
    <3>7. ASSUME NEW i \in 1..Len(t), NEW j \in 1..Len(t), i < j PROVE t[i] < t[j]
      <4>1. i \in 1..Len(s) /\ (j \in 1..Len(s) \/ j = Len(s) + 1)
        BY <3>3, <3>7
      <4>2. CASE j \in 1..Len(s)
        BY <2>2, <3>3, <3>7, <4>1, <4>2
      <4>3. CASE j = Len(s) + 1
        <5>1. s[i] \in upTo(n)
          BY <2>2, <4>1
        <5> QED
          BY <3>3, <3>4, <4>1, <4>3, <5>1
      <4> QED
        BY <4>1, <4>2, <4>3
    <3> QED
      BY <3>3, <3>5, <3>6, <3>7 DEF t
  <2> QED
    BY <2>4, <2>5
<1> HIDE DEF S
<1>6. Zones \in S
  BY <1>0, <1>4, <1>5, Counting
<1>7. /\ u[Zones] \in Seq(1..Zones)
      /\ Len(u[Zones]) = Cardinality(upTo(Zones))
      /\ {u[Zones][i] : i \in 1..Len(u[Zones])} = upTo(Zones)
      /\ \A i, j \in 1..Len(u[Zones]) : i < j => u[Zones][i] < u[Zones][j]
  <2>1. Zones <= Zones
    BY <1>0
  <2> QED
    BY <1>6, <2>1, Zenon DEF S
<1> QED
  BY <1>1, <1>3, <1>7
-----------------------------------------------------------------------------
(* Sequences in a row *)

\* The recursion of FlattenSeq has a solution.
LEMMA FlattenExists ==
  ASSUME NEW s, NEW len \in Nat
  PROVE  \E f : f = [i \in 1..len |-> IF i = 1 THEN s[i] ELSE f[i - 1] \o s[i]]
<1> DEFINE S == {n \in Nat : \E f : f = [i \in 1..n |->
                               IF i = 1 THEN s[i] ELSE f[i - 1] \o s[i]]}
<1>1. 0 \in S
  <2> DEFINE f == [i \in 1..0 |-> s]
  <2>1. f = [i \in 1..0 |-> IF i = 1 THEN s[i] ELSE f[i - 1] \o s[i]]
    OBVIOUS
  <2>2. \E h : h = [i \in 1..0 |-> IF i = 1 THEN s[i] ELSE h[i - 1] \o s[i]]
    BY <2>1, Zenon
  <2> QED
    BY <2>2, 0 \in Nat, Zenon
<1>2. ASSUME NEW n \in Nat, n \in S PROVE n + 1 \in S
  <2>1. PICK f : f = [i \in 1..n |-> IF i = 1 THEN s[i] ELSE f[i - 1] \o s[i]]
    BY <1>2
  <2> DEFINE last == IF n = 0 THEN s[1] ELSE f[n] \o s[n + 1]
             g == [i \in 1..(n + 1) |-> IF i = n + 1 THEN last ELSE f[i]]
  <2>2. \A i \in 1..n : g[i] = f[i]
    OBVIOUS
  <2>3. g[n + 1] = last
    OBVIOUS
  <2>4. ASSUME NEW i \in 1..(n + 1)
        PROVE  g[i] = IF i = 1 THEN s[i] ELSE g[i - 1] \o s[i]
    <3>1. CASE i = n + 1
      <4>1. n # 0 => n \in 1..n
        OBVIOUS
      <4>2. i - 1 = n /\ (i = 1 <=> n = 0)
        BY <3>1
      <4> HIDE DEF g
      <4> QED
        BY <2>2, <2>3, <3>1, <4>1, <4>2
    <3>2. CASE i # n + 1
      <4>1. i \in 1..n /\ (i # 1 => i - 1 \in 1..n)
        BY <3>2
      <4>2. f[i] = IF i = 1 THEN s[i] ELSE f[i - 1] \o s[i]
        BY <2>1, <4>1
      <4> HIDE DEF g
      <4> QED
        BY <2>2, <4>1, <4>2
    <3> QED
      BY <3>1, <3>2
  <2>5. g = [i \in 1..(n + 1) |-> g[i]]
    OBVIOUS
  <2> HIDE DEF g
  <2>6. g = [i \in 1..(n + 1) |-> IF i = 1 THEN s[i] ELSE g[i - 1] \o s[i]]
    BY <2>4, <2>5
  <2>7. \E h : h = [i \in 1..(n + 1) |-> IF i = 1 THEN s[i] ELSE h[i - 1] \o s[i]]
    BY <2>6, Zenon
  <2>8. n + 1 \in Nat
    OBVIOUS
  <2> QED
    BY <2>7, <2>8, Zenon
<1> HIDE DEF S
<1>3. len \in S
  BY <1>1, <1>2, Counting
<1> QED
  BY <1>3 DEF S

\* The offsets of the parts in what they make when put in a row.
Offsets(parts, off) ==
  /\ off \in [0..Len(parts) -> Nat] /\ off[0] = 0
  /\ \A i \in 1..Len(parts) : off[i] = off[i - 1] + Len(parts[i])

\* Each part is found at its offset.
LEMMA FlattenHolds ==
  ASSUME NEW T, NEW parts \in Seq(Seq(T)), NEW off, Offsets(parts, off)
  PROVE  LET row == FlattenSeq(parts)
         IN  /\ row \in Seq(T) /\ Len(row) = off[Len(parts)]
             /\ \A i \in 1..Len(parts) : \A k \in 1..Len(parts[i]) :
                  off[i - 1] + k \in 1..Len(row) /\ row[off[i - 1] + k] = parts[i][k]
<1> DEFINE len == Len(parts)
           u == CHOOSE f : f = [i \in 1..len |->
                  IF i = 1 THEN parts[i] ELSE f[i - 1] \o parts[i]]
<1>1. len \in Nat /\ \A i \in 1..len : parts[i] \in Seq(T) /\ Len(parts[i]) \in Nat
  BY LenProperties, ElementOfSeq
<1>2. off \in [0..len -> Nat] /\ off[0] = 0
      /\ \A i \in 1..len : off[i] = off[i - 1] + Len(parts[i])
  BY DEF Offsets
<1>3. u = [i \in 1..len |-> IF i = 1 THEN parts[i] ELSE u[i - 1] \o parts[i]]
  BY <1>1, FlattenExists, Zenon
<1>4. FlattenSeq(parts) = IF len = 0 THEN parts ELSE u[len]
  BY DEF FlattenSeq
<1> DEFINE Row(n, row) ==
             /\ row \in Seq(T) /\ Len(row) = off[n]
             /\ \A i \in 1..n : \A k \in 1..Len(parts[i]) :
                  off[i - 1] + k \in 1..Len(row) /\ row[off[i - 1] + k] = parts[i][k]
           S == {n \in Nat : n \in 1..len => Row(n, u[n])}
<1> HIDE DEF u, len
<1>5. 0 \in S
  OBVIOUS
<1>6. ASSUME NEW n \in Nat, n \in S PROVE n + 1 \in S
  <2>1. SUFFICES ASSUME n + 1 \in 1..len PROVE Row(n + 1, u[n + 1])
    BY <1>6
  <2> DEFINE m == n + 1
  <2>2. m \in 1..len /\ m - 1 = n /\ n \in 0..len
    BY <1>1, <2>1
  <2>3. off[n] \in Nat /\ off[m] = off[n] + Len(parts[m])
    BY <1>2, <2>2
  <2>4. parts[m] \in Seq(T) /\ Len(parts[m]) \in Nat
    BY <1>1, <2>2
  <2>5. CASE n = 0
    <3>1. m = 1 /\ u[m] = parts[m]
      BY <1>3, <2>2, <2>5
    <3>2. off[n] = 0
      BY <1>2, <2>5
    <3>3. \A i \in 1..m : i = m /\ i - 1 = n
      BY <2>5
    <3> HIDE DEF m, S
    <3>4. u[m] \in Seq(T) /\ Len(u[m]) = off[m]
      BY <2>3, <2>4, <3>1, <3>2
    <3>5. \A i \in 1..m : \A k \in 1..Len(parts[i]) :
            off[i - 1] + k \in 1..Len(u[m]) /\ u[m][off[i - 1] + k] = parts[i][k]
      BY <2>4, <3>1, <3>2, <3>3
    <3> QED
      BY <3>4, <3>5 DEF m
  <2>6. CASE n # 0
    <3>1. n \in 1..len /\ Row(n, u[n])
      BY <1>6, <2>2, <2>6
    <3>0. m # 1
      BY <2>6
    <3> HIDE DEF m, S
    <3>2. u[m] = u[n] \o parts[m]
      <4>1. u[m] = IF m = 1 THEN parts[m] ELSE u[m - 1] \o parts[m]
        BY <1>3, <2>2
      <4> QED
        BY <2>2, <3>0, <4>1
    <3>3. u[n] \in Seq(T) /\ Len(u[n]) = off[n]
      BY <3>1
    <3>4. /\ u[m] \in Seq(T) /\ Len(u[m]) = off[m]
          /\ \A j \in 1..off[m] : u[m][j] = IF j <= off[n] THEN u[n][j] ELSE parts[m][j - off[n]]
      <4> DEFINE a == u[n]
                 b == parts[m]
      <4>1. a \in Seq(T) /\ b \in Seq(T)
        BY <2>4, <3>3
      <4>2. Len(a) + Len(b) = off[m] /\ Len(a) = off[n] /\ u[m] = a \o b
        BY <2>3, <3>2, <3>3
      <4> HIDE DEF a, b
      <4>3. /\ a \o b \in Seq(T) /\ Len(a \o b) = Len(a) + Len(b)
            /\ \A j \in 1..(Len(a) + Len(b)) :
                 (a \o b)[j] = IF j <= Len(a) THEN a[j] ELSE b[j - Len(a)]
        BY <4>1, ConcatProperties
      <4>4. /\ u[m] \in Seq(T) /\ Len(u[m]) = off[m]
            /\ \A j \in 1..off[m] : u[m][j] = IF j <= off[n] THEN a[j] ELSE b[j - off[n]]
        BY <4>2, <4>3
      <4> QED
        BY <4>4 DEF a, b
    <3>5. ASSUME NEW i \in 1..m, NEW k \in 1..Len(parts[i])
          PROVE  off[i - 1] + k \in 1..Len(u[m]) /\ u[m][off[i - 1] + k] = parts[i][k]
      <4>1. CASE i = m
        <5>1. i - 1 = n /\ k \in 1..Len(parts[m])
          BY <2>2, <4>1
        <5>2. off[n] + k \in 1..off[m] /\ ~(off[n] + k <= off[n]) /\ (off[n] + k) - off[n] = k
          BY <2>3, <2>4, <5>1
        <5> QED
          BY <3>4, <4>1, <5>1, <5>2
      <4>2. CASE i # m
        <5>1. i \in 1..n
          BY <2>2, <4>2
        <5>2. off[i - 1] + k \in 1..off[n] /\ u[n][off[i - 1] + k] = parts[i][k]
          BY <3>1, <3>3, <5>1
        <5>3. off[i - 1] + k \in 1..off[m]
          BY <2>3, <2>4, <5>2
        <5> QED
          BY <3>4, <5>2, <5>3
      <4> QED
        BY <4>1, <4>2
    <3> QED
      BY <3>4, <3>5 DEF m
  <2> QED
    BY <2>5, <2>6
<1> HIDE DEF S
<1>7. len \in S
  BY <1>1, <1>5, <1>6, Counting
<1>8. CASE len = 0
  <2>1. parts = <<>>
    BY <1>8, EmptySeq DEF len
  <2>2. FlattenSeq(parts) = <<>> /\ <<>> \in Seq(T) /\ Len(<<>>) = 0
    BY <1>4, <1>8, <2>1
  <2> QED
    BY <1>2, <1>8, <2>2 DEF len
<1>9. CASE len # 0
  <2>1. len \in 1..len /\ FlattenSeq(parts) = u[len]
    BY <1>1, <1>4, <1>9
  <2>2. Row(len, u[len])
    BY <1>7, <2>1 DEF S
  <2> QED
    BY <2>1, <2>2 DEF len
<1> QED
  BY <1>8, <1>9
-----------------------------------------------------------------------------
(* The bytes of a group *)

\* Two bytes for each of a sequence of small numbers.
LEMMA WordsHold ==
  ASSUME NEW leds \in Seq(Byte)
  PROVE  LET words == FlattenSeq([i \in 1..Len(leds) |-> <<leds[i] % 256, leds[i] \div 256>>])
         IN  /\ words \in Seq(Byte) /\ Len(words) = 2 * Len(leds)
             /\ \A k \in 1..Len(leds) : words[2 * k - 1] = leds[k] /\ words[2 * k] = 0
<1> DEFINE n == Len(leds)
           parts == [i \in 1..n |-> <<leds[i] % 256, leds[i] \div 256>>]
           off == [i \in 0..n |-> 2 * i]
           words == FlattenSeq(parts)
<1>1. n \in Nat /\ \A i \in 1..n : leds[i] \in Byte
  BY LenProperties, ElementOfSeq
<1>2. ASSUME NEW i \in 1..n
      PROVE  /\ parts[i] \in Seq(Byte) /\ Len(parts[i]) = 2
             /\ parts[i][1] = leds[i] /\ parts[i][2] = 0
  <2>1. leds[i] % 256 = leds[i] /\ leds[i] \div 256 = 0
    <3> DEFINE x == leds[i]
    <3>1. x \in 0..255
      BY <1>1 DEF Byte
    <3> HIDE DEF x
    <3>2. x % 256 = x /\ x \div 256 = 0
      BY <3>1
    <3> QED
      BY <3>2 DEF x
  <2>2. parts[i] = <<leds[i], 0>>
    BY <2>1
  <2>3. leds[i] \in Byte /\ 0 \in Byte
    BY <1>1 DEF Byte
  <2> QED
    BY <2>2, <2>3
<1>3. parts \in Seq(Seq(Byte)) /\ Len(parts) = n
  BY <1>1, <1>2
<1>4. Offsets(parts, off)
  <2>1. off \in [0..n -> Nat] /\ off[0] = 0
    BY <1>1
  <2>2. ASSUME NEW i \in 1..n PROVE off[i] = off[i - 1] + 2
    BY <1>1
  <2> HIDE DEF parts, off
  <2> QED
    BY <1>2, <1>3, <2>1, <2>2 DEF Offsets
<1>5. \A k \in 1..n : off[k - 1] = 2 * k - 2
  BY <1>1
<1>6. off[n] = 2 * n
  BY <1>1
<1> HIDE DEF parts, off
<1>7. /\ words \in Seq(Byte) /\ Len(words) = off[Len(parts)]
      /\ \A i \in 1..Len(parts) : \A k \in 1..Len(parts[i]) :
           words[off[i - 1] + k] = parts[i][k]
  BY <1>3, <1>4, FlattenHolds
<1>8. ASSUME NEW k \in 1..n PROVE words[2 * k - 1] = leds[k] /\ words[2 * k] = 0
  <2>1. words[off[k - 1] + 1] = parts[k][1] /\ words[off[k - 1] + 2] = parts[k][2]
    BY <1>2, <1>3, <1>7
  <2>2. off[k - 1] + 1 = 2 * k - 1 /\ off[k - 1] + 2 = 2 * k
    BY <1>1, <1>5
  <2> QED
    BY <1>2, <2>1, <2>2
<1>9. Len(words) = 2 * n
  BY <1>3, <1>6, <1>7
<1> HIDE DEF words
<1>10. words \in Seq(Byte) /\ Len(words) = 2 * n
       /\ \A k \in 1..n : words[2 * k - 1] = leds[k] /\ words[2 * k] = 0
  BY <1>7, <1>8, <1>9
<1> QED
  BY <1>10 DEF words, parts

\* Where a group that follows offset o has its colour, the number of its zones and
\* the zones.
GroupAt(r, o, colour, leds) ==
  /\ \A c \in 1..3 : r[o + 15 + c] = colour[c]
  /\ r[o + 19] = Len(leds)
  /\ \A k \in 1..Len(leds) : r[o + 18 + 2 * k] = leds[k] /\ r[o + 19 + 2 * k] = 0

LEMMA GroupHolds ==
  ASSUME NEW index \in Byte, NEW colour \in Colour, NEW leds \in Seq(Byte), Len(leds) \in Byte
  PROVE  LET g == EncodeGroup(index, colour, leds)
         IN  /\ g \in Seq(Byte) /\ Len(g) = 19 + 2 * Len(leds)
             /\ GroupAt(g, 0, colour, leds)
<1> DEFINE n == Len(leds)
           head == <<index, 6, 1, 11, 2, 2, 3, 0, 4, 0, 5, 2, 6, 0, 1>>
           words == FlattenSeq([i \in 1..n |-> <<leds[i] % 256, leds[i] \div 256>>])
           a == head \o colour
           b == a \o <<n>>
           g == b \o words
<1>1. head \in Seq(Byte) /\ Len(head) = 15
  BY DEF Byte
<1>2. colour \in Seq(Byte) /\ Len(colour) = 3
  <2>1. \A c \in 1..3 : colour[c] \in Byte
    BY DEF Colour
  <2>2. colour = [c \in 1..3 |-> colour[c]]
    BY DEF Colour
  <2> DEFINE s == [c \in 1..3 |-> colour[c]]
  <2>3. s \in Seq(Byte) /\ Len(s) = 3
    BY <2>1
  <2> QED
    BY <2>2, <2>3
<1>3. <<n>> \in Seq(Byte) /\ Len(<<n>>) = 1 /\ <<n>>[1] = n /\ n \in Nat
  BY DEF Byte
<1>4. /\ words \in Seq(Byte) /\ Len(words) = 2 * n
      /\ \A k \in 1..n : words[2 * k - 1] = leds[k] /\ words[2 * k] = 0
  BY WordsHold
<1>5. g = EncodeGroup(index, colour, leds)
  BY DEF EncodeGroup
<1> HIDE DEF n, head, words
<1>6. /\ a \in Seq(Byte) /\ Len(a) = 18
      /\ \A c \in 1..3 : a[15 + c] = colour[c]
  <2>1. /\ a \in Seq(Byte) /\ Len(a) = Len(head) + Len(colour)
        /\ \A i \in 1..(Len(head) + Len(colour)) :
             a[i] = IF i <= Len(head) THEN head[i] ELSE colour[i - Len(head)]
    BY <1>1, <1>2, ConcatProperties
  <2> HIDE DEF a
  <2> QED
    BY <1>1, <1>2, <2>1
<1> HIDE DEF a
<1>7. /\ b \in Seq(Byte) /\ Len(b) = 19
      /\ \A c \in 1..3 : b[15 + c] = colour[c]
      /\ b[19] = n
  <2> DEFINE e == <<n>>
  <2>0. e \in Seq(Byte) /\ Len(e) = 1 /\ e[1] = n
    BY <1>3
  <2> HIDE DEF e
  <2>1. /\ a \o e \in Seq(Byte) /\ Len(a \o e) = Len(a) + Len(e)
        /\ \A i \in 1..(Len(a) + Len(e)) :
             (a \o e)[i] = IF i <= Len(a) THEN a[i] ELSE e[i - Len(a)]
    BY <1>6, <2>0, ConcatProperties
  <2>2. b = a \o e
    BY DEF e
  <2> HIDE DEF b
  <2>3. b \in Seq(Byte) /\ Len(b) = 19
    BY <1>6, <2>0, <2>1, <2>2
  <2>4. \A i \in 1..18 : b[i] = a[i]
    BY <1>6, <2>0, <2>1, <2>2
  <2>5. b[19] = n
    BY <1>6, <2>0, <2>1, <2>2
  <2>6. \A c \in 1..3 : b[15 + c] = colour[c]
    <3> TAKE c \in 1..3
    <3>1. 15 + c \in 1..18
      OBVIOUS
    <3> QED
      BY <1>6, <2>4, <3>1
  <2> QED
    BY <2>3, <2>5, <2>6
<1> HIDE DEF b
<1>8. /\ g \in Seq(Byte) /\ Len(g) = Len(b) + Len(words)
      /\ \A i \in 1..(Len(b) + Len(words)) :
           g[i] = IF i <= Len(b) THEN b[i] ELSE words[i - Len(b)]
  BY <1>4, <1>7, ConcatProperties
<1> HIDE DEF g
<1>9. /\ Len(g) = 19 + 2 * n
      /\ \A i \in 1..19 : g[i] = b[i]
      /\ \A j \in 1..(2 * n) : g[19 + j] = words[j]
  <2>1. Len(g) = 19 + 2 * n
    BY <1>3, <1>4, <1>7, <1>8
  <2>2. \A i \in 1..19 : g[i] = b[i]
    BY <1>3, <1>4, <1>7, <1>8
  <2>3. ASSUME NEW j \in 1..(2 * n) PROVE g[19 + j] = words[j]
    <3>1. 19 + j \in 1..(19 + 2 * n) /\ ~(19 + j <= 19) /\ (19 + j) - 19 = j
      BY <1>3
    <3> QED
      BY <1>4, <1>7, <1>8, <3>1
  <2> QED
    BY <2>1, <2>2, <2>3
<1>10. \A c \in 1..3 : g[15 + c] = colour[c]
  <2> TAKE c \in 1..3
  <2>1. 15 + c \in 1..19
    OBVIOUS
  <2> QED
    BY <1>7, <1>9, <2>1
<1>11. g[19] = n
  BY <1>7, <1>9
<1>12. \A k \in 1..n : g[18 + 2 * k] = leds[k] /\ g[19 + 2 * k] = 0
  <2> TAKE k \in 1..n
  <2>1. 2 * k - 1 \in 1..(2 * n) /\ 2 * k \in 1..(2 * n) /\ 19 + (2 * k - 1) = 18 + 2 * k
    BY <1>3
  <2> QED
    BY <1>4, <1>9, <2>1
<1>13. GroupAt(g, 0, colour, leds)
  <2>1. \A i \in Int : 0 + i = i
    OBVIOUS
  <2>2. \A c \in 1..3 : 0 + 15 + c = 15 + c
    OBVIOUS
  <2>3. \A k \in 1..n : 0 + 18 + 2 * k = 18 + 2 * k /\ 0 + 19 + 2 * k = 19 + 2 * k
    OBVIOUS
  <2> QED
    BY <1>10, <1>11, <1>12, <2>1, <2>2, <2>3 DEF GroupAt, n
<1> QED
  BY <1>5, <1>8, <1>9, <1>13 DEF n
-----------------------------------------------------------------------------
(* The report of a frame *)

\* The numbers of the zones in group g, when the groups start at the zones of s.
Leds(zones, s, g) == ZonesOf(zones, zones[s[g]])

\* The zones of the first i groups, and where the next group begins.
Grouped(zones, s, i) == {z \in 1..Zones : \E g \in 1..i : zones[z] = zones[s[g]]}
GroupOffsets(zones, s) == [i \in 0..Len(s) |-> 19 * i + 2 * Cardinality(Grouped(zones, s, i))]

\* There are as many zones as the last one's number.
LEMMA ZonesFinite ==
  /\ Zones \in 2..255 /\ IsFiniteSet(1..Zones) /\ Cardinality(1..Zones) = Zones
  /\ \A S \in SUBSET (1..Zones) :
       IsFiniteSet(S) /\ Cardinality(S) \in Nat /\ Cardinality(S) <= Zones
<1>1. Zones \in 2..255 /\ 1 \in Int /\ Zones \in Int /\ ~(1 > Zones) /\ Zones - 1 + 1 = Zones
  BY KeyboardAssumption
<1>2. IsFiniteSet(1..Zones) /\ Cardinality(1..Zones) = Zones
  BY <1>1, FS_Interval
<1>3. ASSUME NEW S \in SUBSET (1..Zones)
      PROVE  IsFiniteSet(S) /\ Cardinality(S) \in Nat /\ Cardinality(S) <= Zones
  <2>1. IsFiniteSet(S) /\ Cardinality(S) <= Cardinality(1..Zones)
    BY <1>2, FS_Subset
  <2> QED
    BY <1>2, <2>1, FS_CardinalityType
<1> QED
  BY <1>1, <1>2, <1>3

\* The zones of a colour, each once.
LEMMA LedsHold ==
  ASSUME NEW zones, NEW colour
  PROVE  LET leds == ZonesOf(zones, colour)
         IN  /\ leds \in Seq(Byte) /\ Len(leds) \in Byte
             /\ Len(leds) = Cardinality({z \in 1..Zones : zones[z] = colour})
             /\ {leds[k] : k \in 1..Len(leds)} = {z \in 1..Zones : zones[z] = colour}
<1> DEFINE kept == {z \in 1..Zones : zones[z] = colour}
           leds == ZonesOf(zones, colour)
<1>1. kept \in SUBSET (1..Zones) /\ leds = Ascending(kept)
  BY DEF ZonesOf
<1>2. Zones \in 2..255
  BY KeyboardAssumption
<1> HIDE DEF kept, leds
<1>4. /\ leds \in Seq(1..Zones)
      /\ Len(leds) = Cardinality(kept)
      /\ {leds[k] : k \in 1..Len(leds)} = kept
  BY <1>1, AscendingHolds
<1>5. Cardinality(kept) \in Nat /\ Cardinality(kept) <= Zones
  BY <1>1, ZonesFinite
<1>6. leds \in Seq(Byte)
  <2>1. 1..Zones \subseteq Byte
    BY <1>2 DEF Byte
  <2> QED
    BY <1>4, <2>1, SeqMonotonic
<1>7. Len(leds) \in Byte
  <2> DEFINE c == Cardinality(kept)
  <2>1. c \in Nat /\ c <= Zones
    BY <1>5
  <2> HIDE DEF c
  <2>2. c \in Byte
    BY <1>2, <2>1 DEF Byte
  <2> QED
    BY <1>4, <2>2 DEF c
<1> QED
  BY <1>4, <1>6, <1>7 DEF kept, leds

\* Each colour of a frame begins one group.
LEMMA GroupsHold ==
  ASSUME NEW zones \in [1..Zones -> Colour]
  PROVE  LET s == GroupStarts(zones)
         IN  /\ s \in Seq(1..Zones) /\ Len(s) \in 0..Zones
             /\ \A z \in 1..Zones : \E g \in 1..Len(s) : zones[z] = zones[s[g]]
             /\ \A g, h \in 1..Len(s) : g # h => zones[s[g]] # zones[s[h]]
<1> DEFINE kept == {z \in 1..Zones : \A y \in 1..(z - 1) : zones[y] # zones[z]}
           s == GroupStarts(zones)
<1>1. kept \in SUBSET (1..Zones) /\ s = Ascending(kept)
  BY DEF GroupStarts
<1>2. Zones \in 2..255
  BY KeyboardAssumption
<1> HIDE DEF s
<1>4. /\ s \in Seq(1..Zones)
      /\ Len(s) = Cardinality(kept)
      /\ {s[i] : i \in 1..Len(s)} = kept
      /\ \A i, j \in 1..Len(s) : i < j => s[i] < s[j]
  <2> HIDE DEF kept
  <2> QED
    BY <1>1, AscendingHolds
<1>5. Len(s) \in 0..Zones
  <2> HIDE DEF kept
  <2>1. Cardinality(kept) \in Nat /\ Cardinality(kept) <= Zones
    BY <1>1, ZonesFinite
  <2> QED
    BY <1>2, <1>4, <2>1
<1>6. ASSUME NEW z \in 1..Zones PROVE \E g \in 1..Len(s) : zones[z] = zones[s[g]]
  <2> DEFINE same == {y \in 1..Zones : zones[y] = zones[z]}
  <2>1. same \subseteq Nat /\ same # {}
    BY <1>2
  <2> HIDE DEF same
  <2>2. PICK x \in same : \A y \in same : x <= y
    BY <2>1, LeastExists
  <2>3. x \in 1..Zones /\ zones[x] = zones[z]
    BY <2>2 DEF same
  <2>4. ASSUME NEW y \in 1..(x - 1) PROVE zones[y] # zones[x]
    <3>1. y \in 1..Zones /\ ~(x <= y)
      BY <1>2, <2>3
    <3> QED
      BY <2>2, <2>3, <3>1 DEF same
  <2>5. x \in kept
    BY <2>3, <2>4
  <2> HIDE DEF kept
  <2> QED
    BY <1>4, <2>3, <2>5
<1>7. ASSUME NEW g \in 1..Len(s), NEW h \in 1..Len(s), g < h PROVE zones[s[g]] # zones[s[h]]
  <2>1. s[g] < s[h] /\ s[g] \in kept /\ s[h] \in kept
    BY <1>4, <1>5, <1>7
  <2>2. s[g] \in 1..Zones /\ s[h] \in 1..Zones
    BY <2>1
  <2>3. s[g] \in 1..(s[h] - 1)
    BY <1>2, <2>1, <2>2
  <2>4. \A y \in 1..(s[h] - 1) : zones[y] # zones[s[h]]
    BY <2>1
  <2> QED
    BY <2>3, <2>4
<1>8. \A g, h \in 1..Len(s) : g # h => zones[s[g]] # zones[s[h]]
  <2> TAKE g, h \in 1..Len(s)
  <2>1. g < h \/ h < g \/ g = h
    BY <1>5
  <2> QED
    BY <1>7, <2>1
<1> QED
  BY <1>4, <1>5, <1>6, <1>8 DEF s

\* The groups have no zone in common, and together have them all.
LEMMA OffsetsHold ==
  ASSUME NEW zones \in [1..Zones -> Colour], NEW s, s = GroupStarts(zones)
  PROVE  LET off == GroupOffsets(zones, s)
         IN  /\ off \in [0..Len(s) -> Nat] /\ off[0] = 0
             /\ off[Len(s)] <= 21 * Zones /\ \A i \in 0..Len(s) : off[i] <= off[Len(s)]
             /\ \A i \in 1..Len(s) : off[i] = off[i - 1] + 19 + 2 * Len(Leds(zones, s, i))
<1> DEFINE n == Len(s)
           off == GroupOffsets(zones, s)
           all(i) == Grouped(zones, s, i)
           own(i) == {z \in 1..Zones : zones[z] = zones[s[i]]}
<1>1. Zones \in 2..255 /\ IsFiniteSet(1..Zones) /\ Cardinality(1..Zones) = Zones
  BY ZonesFinite
<1>2. n \in 0..Zones /\ \A g, h \in 1..n : g # h => zones[s[g]] # zones[s[h]]
  BY GroupsHold
<1>3. \A i \in 0..n : off[i] = 19 * i + 2 * Cardinality(all(i))
  BY DEF GroupOffsets
<1>4. DOMAIN off = 0..n /\ off = [i \in 0..n |-> off[i]]
  BY DEF GroupOffsets
<1>5. ASSUME NEW i \in 0..n
      PROVE  IsFiniteSet(all(i)) /\ Cardinality(all(i)) \in Nat /\ Cardinality(all(i)) <= Zones
  <2>1. all(i) \subseteq 1..Zones
    BY DEF Grouped
  <2> HIDE DEF all
  <2> QED
    BY <2>1, ZonesFinite
<1>6. Cardinality(all(0)) = 0
  <2>1. all(0) = {}
    BY DEF Grouped
  <2> QED
    BY <2>1, FS_EmptySet
<1>7. ASSUME NEW i \in 1..n
      PROVE  Cardinality(all(i)) = Cardinality(all(i - 1)) + Len(Leds(zones, s, i))
  <2>1. Len(Leds(zones, s, i)) = Cardinality(own(i)) /\ Cardinality(own(i)) \in Nat
    <3>1. Len(Leds(zones, s, i)) = Cardinality(own(i)) /\ Len(Leds(zones, s, i)) \in Byte
      BY LedsHold DEF Leds
    <3>2. Byte \subseteq Nat
      BY DEF Byte
    <3> QED
      BY <3>1, <3>2
  <2>2. i - 1 \in 0..n /\ i \in 0..n
    BY <1>2
  <2>3. all(i) = all(i - 1) \cup own(i)
    <3>1. \A g : g \in 1..i <=> g \in 1..(i - 1) \/ g = i
      BY <1>2
    <3> QED
      BY <3>1 DEF Grouped
  <2>4. all(i - 1) \cap own(i) = {}
    <3>1. SUFFICES ASSUME NEW z \in all(i - 1), zones[z] = zones[s[i]] PROVE FALSE
      OBVIOUS
    <3>2. PICK g \in 1..(i - 1) : zones[z] = zones[s[g]]
      BY DEF Grouped
    <3>3. g \in 1..n /\ g # i
      BY <1>2
    <3> QED
      BY <1>2, <3>1, <3>2, <3>3
  <2>5. IsFiniteSet(own(i))
    BY ZonesFinite
  <2>6. IsFiniteSet(all(i - 1)) /\ Cardinality(all(i - 1)) \in Nat
    BY <1>5, <2>2
  <2> HIDE DEF all, own
  <2>7. Cardinality(all(i - 1) \cup own(i))
          = Cardinality(all(i - 1)) + Cardinality(own(i)) - Cardinality(all(i - 1) \cap own(i))
    BY <2>5, <2>6, FS_Union
  <2>8. Cardinality(all(i)) = Cardinality(all(i - 1)) + Cardinality(own(i)) - 0
    BY <2>3, <2>4, <2>7, FS_EmptySet
  <2> QED
    BY <2>1, <2>6, <2>8
<1> HIDE DEF off, all
<1>8. off \in [0..n -> Nat]
  <2>1. \A i \in 0..n : off[i] \in Nat
    BY <1>2, <1>3, <1>5
  <2> QED
    BY <1>4, <2>1
<1>9. off[0] = 0
  BY <1>2, <1>3, <1>6
<1>10. off[n] <= 21 * Zones
  <2>1. n \in 0..n
    BY <1>2
  <2>2. off[n] = 19 * n + 2 * Cardinality(all(n)) /\ Cardinality(all(n)) \in Nat
        /\ Cardinality(all(n)) <= Zones
    BY <1>3, <1>5, <2>1
  <2> QED
    BY <1>1, <1>2, <2>2
<1>11. ASSUME NEW i \in 1..n PROVE off[i] = off[i - 1] + 19 + 2 * Len(Leds(zones, s, i))
  <2>1. i - 1 \in 0..n /\ i \in 0..n
    BY <1>2
  <2>2. /\ off[i] = 19 * i + 2 * Cardinality(all(i))
        /\ off[i - 1] = 19 * (i - 1) + 2 * Cardinality(all(i - 1))
        /\ Cardinality(all(i)) = Cardinality(all(i - 1)) + Len(Leds(zones, s, i))
        /\ Cardinality(all(i)) \in Nat /\ Cardinality(all(i - 1)) \in Nat
    BY <1>3, <1>5, <1>7, <2>1
  <2>3. Len(Leds(zones, s, i)) \in Nat
    BY LedsHold DEF Leds, Byte
  <2> QED
    BY <2>2, <2>3
<1>12. ASSUME NEW i \in 0..n PROVE off[i] <= off[n]
  <2>1. n \in 0..n /\ i <= n
    BY <1>2
  <2>2. all(i) \subseteq all(n)
    <3>1. 1..i \subseteq 1..n
      BY <1>2
    <3> QED
      BY <3>1 DEF all, Grouped
  <2>3. Cardinality(all(i)) <= Cardinality(all(n))
    BY <1>5, <2>1, <2>2, FS_Subset
  <2>4. Cardinality(all(i)) \in Nat /\ Cardinality(all(n)) \in Nat
    BY <1>5, <2>1
  <2>5. off[i] = 19 * i + 2 * Cardinality(all(i)) /\ off[n] = 19 * n + 2 * Cardinality(all(n))
    BY <1>3, <2>1
  <2> QED
    BY <1>2, <2>1, <2>3, <2>4, <2>5
<1> QED
  BY <1>8, <1>9, <1>10, <1>11, <1>12 DEF off
\* A packet has its command, its length in two bytes and what it carries.
LEMMA PacketHolds ==
  ASSUME NEW command \in Byte, NEW payload \in Seq(Byte), Len(payload) < 65536
  PROVE  LET r == Packet(command, payload)
         IN  /\ r \in Seq(Byte) /\ Len(r) = 4 + Len(payload)
             /\ r[2] = command /\ Word(r, 2) = Len(payload)
             /\ \A i \in 1..Len(payload) : r[4 + i] = payload[i]
<1> DEFINE n == Len(payload)
           head == <<7, command, n % 256, n \div 256>>
           r == Packet(command, payload)
<1>1. n \in Nat /\ n < 65536
  BY LenProperties
<1> HIDE DEF n
<1>2. n % 256 \in Byte /\ n \div 256 \in Byte /\ (n % 256) + 256 * (n \div 256) = n
  BY <1>1 DEF Byte
<1>3. /\ head \in Seq(Byte) /\ Len(head) = 4
      /\ head[2] = command /\ head[3] = n % 256 /\ head[4] = n \div 256
  BY <1>2 DEF Byte
<1>4. r = head \o payload
  BY DEF Packet, n
<1> HIDE DEF head, r
<1>5. /\ r \in Seq(Byte) /\ Len(r) = Len(head) + Len(payload)
      /\ \A i \in 1..(Len(head) + Len(payload)) :
           r[i] = IF i <= Len(head) THEN head[i] ELSE payload[i - Len(head)]
  <2>1. head \in Seq(Byte)
    BY <1>3
  <2> QED
    BY <1>4, <2>1, ConcatProperties
<1>6. Len(payload) = n
  BY DEF n
<1>7. Len(r) = 4 + n /\ r[2] = command /\ r[3] = n % 256 /\ r[4] = n \div 256
  BY <1>1, <1>3, <1>5, <1>6
<1>8. Word(r, 2) = n
  BY <1>2, <1>7 DEF Word
<1>9. ASSUME NEW i \in 1..n PROVE r[4 + i] = payload[i]
  <2>1. 4 + i \in 1..(4 + n) /\ ~(4 + i <= 4) /\ (4 + i) - 4 = i
    BY <1>1
  <2> QED
    BY <1>3, <1>5, <1>6, <2>1
<1> QED
  BY <1>5, <1>6, <1>7, <1>8, <1>9 DEF r

\* The groups of a profile's report are where the offsets say.
ProfileAt(r, zones, s, off) ==
  /\ r \in Seq(Byte) /\ Len(r) = 7 + off[Len(s)]
  /\ r[2] = 203 /\ Word(r, 2) = 3 + off[Len(s)]
  /\ \A g \in 1..Len(s) : GroupAt(r, 7 + off[g - 1], zones[s[g]], Leds(zones, s, g))

\* The report of a frame has a group for each of its colours, one after the other.
LEMMA SaveProfileHolds ==
  ASSUME NEW zones \in [1..Zones -> Colour], NEW s, s = GroupStarts(zones),
         NEW off, off = GroupOffsets(zones, s)
  PROVE  ProfileAt(SaveProfile(zones), zones, s, off)
<1> DEFINE n == Len(s)
           group(g) == EncodeGroup(g, zones[s[g]], Leds(zones, s, g))
           parts == [g \in 1..n |-> group(g)]
           row == FlattenSeq(parts)
           mark == <<1, 1, 1>>
           payload == mark \o row
           r == SaveProfile(zones)
<1>1. s \in Seq(1..Zones) /\ n \in 0..Zones
  BY GroupsHold
<1>2. /\ off \in [0..n -> Nat] /\ off[0] = 0 /\ off[n] <= 21 * Zones
      /\ \A i \in 1..n : off[i] = off[i - 1] + 19 + 2 * Len(Leds(zones, s, i))
  BY OffsetsHold
<1>3. Zones \in 2..255
  BY KeyboardAssumption
<1>4. ASSUME NEW g \in 1..n
      PROVE  /\ group(g) \in Seq(Byte)
             /\ Len(group(g)) = 19 + 2 * Len(Leds(zones, s, g))
             /\ GroupAt(group(g), 0, zones[s[g]], Leds(zones, s, g))
             /\ Len(Leds(zones, s, g)) \in Nat
  <2>1. g \in Byte
    BY <1>1, <1>3 DEF Byte
  <2>2. s[g] \in 1..Zones
    BY <1>1, ElementOfSeq
  <2>3. zones[s[g]] \in Colour
    BY <2>2
  <2>4. Leds(zones, s, g) \in Seq(Byte) /\ Len(Leds(zones, s, g)) \in Byte
    BY LedsHold DEF Leds
  <2>5. Len(Leds(zones, s, g)) \in Nat
    BY <2>4 DEF Byte
  <2> QED
    BY <2>1, <2>3, <2>4, <2>5, GroupHolds
<1>5. r = Packet(203, payload)
  BY DEF SaveProfile, Leds
<1>6. \A g \in 1..n : parts[g] = group(g)
  OBVIOUS
<1> HIDE DEF group, r
<1>7. parts \in Seq(Seq(Byte)) /\ Len(parts) = n
  BY <1>1, <1>4
<1> HIDE DEF parts
<1>8. Offsets(parts, off)
  <2>1. ASSUME NEW i \in 1..n PROVE off[i] = off[i - 1] + Len(parts[i])
    <3>1. i - 1 \in 0..n
      BY <1>1
    <3> DEFINE a == off[i - 1]
               b == Len(Leds(zones, s, i))
    <3>2. a \in Nat /\ b \in Nat
      BY <1>2, <1>4, <3>1
    <3>3. off[i] = a + 19 + 2 * b /\ Len(parts[i]) = 19 + 2 * b
      BY <1>2, <1>4, <1>6
    <3> HIDE DEF a, b
    <3>4. off[i] = a + Len(parts[i])
      BY <3>2, <3>3
    <3> QED
      BY <3>4 DEF a
  <2> QED
    BY <1>2, <1>7, <2>1 DEF Offsets
<1>9. /\ row \in Seq(Byte) /\ Len(row) = off[n]
      /\ \A i \in 1..n : \A k \in 1..Len(parts[i]) :
           off[i - 1] + k \in 1..Len(row) /\ row[off[i - 1] + k] = parts[i][k]
  BY <1>7, <1>8, FlattenHolds
<1>10. mark \in Seq(Byte) /\ Len(mark) = 3
  BY DEF Byte
<1> HIDE DEF row, mark
<1>11. off[n] \in Nat
  <2>1. n \in 0..n
    BY <1>1
  <2> QED
    BY <1>2, <2>1
<1>12. /\ payload \in Seq(Byte) /\ Len(payload) = Len(mark) + Len(row)
       /\ \A i \in 1..(Len(mark) + Len(row)) :
            payload[i] = IF i <= Len(mark) THEN mark[i] ELSE row[i - Len(mark)]
  BY <1>9, <1>10, ConcatProperties
<1> HIDE DEF payload
<1>13. Len(payload) = 3 + off[n] /\ \A j \in 1..off[n] : payload[3 + j] = row[j]
  <2>1. Len(payload) = 3 + off[n]
    BY <1>9, <1>10, <1>11, <1>12
  <2>2. ASSUME NEW j \in 1..off[n] PROVE payload[3 + j] = row[j]
    <3>1. 3 + j \in 1..(3 + off[n]) /\ ~(3 + j <= 3) /\ (3 + j) - 3 = j
      BY <1>11
    <3> QED
      BY <1>9, <1>10, <1>12, <3>1
  <2> QED
    BY <2>1, <2>2
<1>14. Len(payload) < 65536
  BY <1>2, <1>3, <1>11, <1>13
<1>15. /\ r \in Seq(Byte) /\ Len(r) = 4 + Len(payload)
       /\ r[2] = 203 /\ Word(r, 2) = Len(payload)
       /\ \A i \in 1..Len(payload) : r[4 + i] = payload[i]
  <2>1. 203 \in Byte
    BY DEF Byte
  <2>2. payload \in Seq(Byte)
    BY <1>12
  <2> DEFINE p == Packet(203, payload)
  <2>3. /\ p \in Seq(Byte) /\ Len(p) = 4 + Len(payload)
        /\ p[2] = 203 /\ Word(p, 2) = Len(payload)
        /\ \A i \in 1..Len(payload) : p[4 + i] = payload[i]
    BY <1>14, <2>1, <2>2, PacketHolds
  <2> QED
    BY <1>5, <2>3
<1>16. ASSUME NEW j \in 1..off[n] PROVE r[7 + j] = row[j]
  <2>1. 3 + j \in 1..Len(payload) /\ 4 + (3 + j) = 7 + j
    BY <1>11, <1>13
  <2> QED
    BY <1>13, <1>15, <2>1
<1>17. ASSUME NEW g \in 1..n, NEW k \in 1..Len(parts[g])
       PROVE  r[7 + off[g - 1] + k] = parts[g][k]
  <2>1. off[g - 1] + k \in 1..off[n] /\ row[off[g - 1] + k] = parts[g][k]
    BY <1>9
  <2>2. off[g - 1] \in Nat /\ k \in Nat
    <3>1. g - 1 \in 0..n
      BY <1>1
    <3>2. Len(parts[g]) \in Nat
      BY <1>4, <1>6
    <3> QED
      BY <1>2, <3>1, <3>2
  <2>3. 7 + (off[g - 1] + k) = 7 + off[g - 1] + k
    BY <2>2
  <2> QED
    BY <1>16, <2>1, <2>3
<1>18. ASSUME NEW g \in 1..n
       PROVE  GroupAt(r, 7 + off[g - 1], zones[s[g]], Leds(zones, s, g))
  <2> DEFINE o == 7 + off[g - 1]
             leds == Leds(zones, s, g)
             p == parts[g]
  <2>1. /\ Len(p) = 19 + 2 * Len(leds) /\ Len(leds) \in Nat
        /\ GroupAt(p, 0, zones[s[g]], leds)
    BY <1>4, <1>6
  <2>2. \A k \in 1..Len(p) : r[o + k] = p[k]
    BY <1>17
  <2>3. o \in Nat
    <3>1. g - 1 \in 0..n
      BY <1>1
    <3> QED
      BY <1>2, <3>1
  <2> HIDE DEF o, leds, p
  <2>4. \A c \in 1..3 : p[15 + c] = zones[s[g]][c]
    BY <2>1 DEF GroupAt
  <2>5. p[19] = Len(leds)
    BY <2>1 DEF GroupAt
  <2>6. \A k \in 1..Len(leds) : p[18 + 2 * k] = leds[k] /\ p[19 + 2 * k] = 0
    BY <2>1 DEF GroupAt
  <2>7. \A c \in 1..3 : r[o + 15 + c] = zones[s[g]][c]
    <3> TAKE c \in 1..3
    <3>1. 15 + c \in 1..Len(p) /\ o + (15 + c) = o + 15 + c
      BY <2>1, <2>3
    <3> QED
      BY <2>2, <2>4, <3>1
  <2>8. r[o + 19] = Len(leds)
    <3>1. 19 \in 1..Len(p)
      BY <2>1
    <3> QED
      BY <2>2, <2>5, <3>1
  <2>9. \A k \in 1..Len(leds) : r[o + 18 + 2 * k] = leds[k] /\ r[o + 19 + 2 * k] = 0
    <3> TAKE k \in 1..Len(leds)
    <3>1. /\ 18 + 2 * k \in 1..Len(p) /\ o + (18 + 2 * k) = o + 18 + 2 * k
          /\ 19 + 2 * k \in 1..Len(p) /\ o + (19 + 2 * k) = o + 19 + 2 * k
      BY <2>1, <2>3
    <3> QED
      BY <2>2, <2>6, <3>1
  <2>10. GroupAt(r, o, zones[s[g]], leds)
    BY <2>7, <2>8, <2>9 DEF GroupAt
  <2> QED
    BY <2>10 DEF o, leds
<1>19. Len(r) = 7 + off[n] /\ Word(r, 2) = 3 + off[n]
  BY <1>11, <1>13, <1>15
<1> QED
  BY <1>15, <1>18, <1>19 DEF r, ProfileAt
-----------------------------------------------------------------------------
(* What the controller makes of it *)

\* The recursion of Painted.
PaintLaw(r, end, f) ==
  f = [o \in 7..end |->
         IF o = end \/ o + 19 + 2 * r[o + 19] \notin (o + 1)..end THEN Dark
         ELSE [z \in 1..Zones |->
                 IF z \in {Word(r, o + 19 + 2 * (k - 1)) : k \in 1..r[o + 19]}
                 THEN SubSeq(r, o + 16, o + 18) ELSE f[o + 19 + 2 * r[o + 19]][z]]]

\* The recursion of Painted has a solution: it goes up, and ends at the end.
LEMMA PaintExists ==
  ASSUME NEW r, NEW end \in Nat, end >= 7
  PROVE  \E f : PaintLaw(r, end, f)
<1> DEFINE next(o) == o + 19 + 2 * r[o + 19]
           leds(o) == {Word(r, o + 19 + 2 * (k - 1)) : k \in 1..r[o + 19]}
           colour(o) == SubSeq(r, o + 16, o + 18)
           paint(o, f) == IF o = end \/ next(o) \notin (o + 1)..end THEN Dark
                          ELSE [z \in 1..Zones |->
                                  IF z \in leds(o) THEN colour(o) ELSE f[next(o)][z]]
           S == {n \in Nat : \E f : f = [o \in (end - n)..end |-> paint(o, f)]}
<1>1. 0 \in S
  <2> DEFINE f == [o \in (end - 0)..end |-> Dark]
  <2>1. \A o \in (end - 0)..end : o = end
    OBVIOUS
  <2>2. f = [o \in (end - 0)..end |-> paint(o, f)]
    BY <2>1
  <2> HIDE DEF paint
  <2>3. \E h : h = [o \in (end - 0)..end |-> paint(o, h)]
    BY <2>2, Zenon
  <2> QED
    BY <2>3, 0 \in Nat, Zenon
<1>2. ASSUME NEW n \in Nat, n \in S PROVE n + 1 \in S
  <2>1. PICK f : f = [o \in (end - n)..end |-> paint(o, f)]
    BY <1>2
  <2> DEFINE first == end - (n + 1)
             g == [o \in first..end |-> IF o = first THEN paint(first, f) ELSE f[o]]
  <2>2. first \in Int /\ first < end /\ first + 1 = end - n
    OBVIOUS
  <2> HIDE DEF first
  <2>3. ASSUME NEW o \in first..end, NEW later \in (o + 1)..end PROVE g[later] = f[later]
    <3>1. later \in first..end /\ later # first
      BY <2>2
    <3> QED
      BY <3>1
  <2>4. ASSUME NEW o \in first..end PROVE paint(o, g) = paint(o, f)
    <3>1. CASE o = end \/ next(o) \notin (o + 1)..end
      BY <3>1
    <3>2. CASE ~(o = end \/ next(o) \notin (o + 1)..end)
      <4>1. g[next(o)] = f[next(o)]
        BY <2>3, <3>2
      <4> HIDE DEF g, next, leds, colour
      <4> QED
        BY <3>2, <4>1
    <3> QED
      BY <3>1, <3>2
  <2>5. ASSUME NEW o \in first..end PROVE g[o] = paint(o, f)
    <3>1. CASE o = first
      BY <3>1
    <3>2. CASE o # first
      <4>1. o \in (end - n)..end
        BY <2>2, <3>2
      <4> HIDE DEF paint
      <4>2. f[o] = paint(o, f)
        BY <2>1, <4>1
      <4> QED
        BY <3>2, <4>2
    <3> QED
      BY <3>1, <3>2
  <2>6. g = [o \in first..end |-> g[o]]
    OBVIOUS
  <2> HIDE DEF paint, g
  <2>7. g = [o \in first..end |-> paint(o, g)]
    BY <2>4, <2>5, <2>6
  <2>8. \E h : h = [o \in (end - (n + 1))..end |-> paint(o, h)]
    BY <2>7, Zenon DEF first
  <2>9. n + 1 \in Nat
    OBVIOUS
  <2> QED
    BY <2>8, <2>9, Zenon
<1> HIDE DEF S, paint
<1>3. end - 7 \in S
  <2>1. end - 7 \in Nat
    OBVIOUS
  <2> QED
    BY <1>1, <1>2, <2>1, Counting
<1>4. PICK f : f = [o \in (end - (end - 7))..end |-> paint(o, f)]
  BY <1>3 DEF S
<1>5. end - (end - 7) = 7
  OBVIOUS
<1>6. f = [o \in 7..end |-> paint(o, f)]
  BY <1>4, <1>5
<1>7. PaintLaw(r, end, f)
  BY <1>6, Zenon DEF paint, PaintLaw
<1> QED
  BY <1>7
-----------------------------------------------------------------------------
(* What the controller paints *)

NextGroup(r, o) == o + 19 + 2 * r[o + 19]
GroupLeds(r, o) == {Word(r, o + 19 + 2 * (k - 1)) : k \in 1..r[o + 19]}

Painting(r, end, u) ==
  /\ u[end] = Dark
  /\ \A o \in 7..end : o # end /\ NextGroup(r, o) \in (o + 1)..end =>
       u[o] = [z \in 1..Zones |-> IF z \in GroupLeds(r, o) THEN SubSeq(r, o + 16, o + 18)
                                 ELSE u[NextGroup(r, o)][z]]

\* What a report saves is painted group by group, from the last to the first.
LEMMA PaintedIs ==
  ASSUME NEW r, NEW end \in Nat, end = 4 + Word(r, 2), end >= 7
  PROVE  \E u : Painted(r) = u[7] /\ Painting(r, end, u)
<1> DEFINE u == CHOOSE f : PaintLaw(r, end, f)
<1>1. PaintLaw(r, end, u)
  <2>1. \E f : PaintLaw(r, end, f)
    BY PaintExists
  <2> QED
    BY <2>1, Zenon
<1>2. Painted(r) = u[7]
  BY end = 4 + Word(r, 2), Zenon DEF Painted, PaintLaw
<1> HIDE DEF u
<1>3. u[end] = Dark
  BY <1>1 DEF PaintLaw
<1>4. ASSUME NEW o \in 7..end, o # end, NextGroup(r, o) \in (o + 1)..end
      PROVE  u[o] = [z \in 1..Zones |->
                       IF z \in GroupLeds(r, o) THEN SubSeq(r, o + 16, o + 18)
                       ELSE u[NextGroup(r, o)][z]]
  BY <1>1, <1>4 DEF NextGroup, GroupLeds, PaintLaw
<1>5. Painting(r, end, u)
  BY <1>3, <1>4 DEF Painting
<1> QED
  BY <1>2, <1>5

\* A profile's own report paints its zones.
LEMMA PaintedGroups ==
  ASSUME NEW zones \in [1..Zones -> Colour], NEW s, s = GroupStarts(zones),
         NEW off, off = GroupOffsets(zones, s),
         NEW n, n = Len(s), NEW r, r = SaveProfile(zones), NEW end, end = 7 + off[n]
  PROVE  Painted(r) = zones
<1>1. s \in Seq(1..Zones) /\ n \in Nat
      /\ \A z \in 1..Zones : \E g \in 1..n : zones[z] = zones[s[g]]
  BY GroupsHold, LenProperties
<1>2. /\ off \in [0..n -> Nat] /\ off[0] = 0
      /\ \A i \in 0..n : off[i] <= off[n]
      /\ \A i \in 1..n : off[i] = off[i - 1] + 19 + 2 * Len(Leds(zones, s, i))
  BY OffsetsHold
<1>3. /\ r \in Seq(Byte) /\ Len(r) = end /\ Word(r, 2) = 3 + off[n]
      /\ \A g \in 1..n : GroupAt(r, 7 + off[g - 1], zones[s[g]], Leds(zones, s, g))
  <2>1. ProfileAt(r, zones, s, off)
    BY SaveProfileHolds, Zenon
  <2> QED
    BY <2>1, Zenon DEF ProfileAt
<1>4. off[n] \in Nat /\ end \in Nat /\ end >= 7 /\ end = 4 + Word(r, 2)
  BY <1>1, <1>2, <1>3
<1>5. PICK u : Painted(r) = u[7] /\ Painting(r, end, u)
  BY <1>4, PaintedIs
<1>6. ASSUME NEW i \in 1..n
      PROVE  u[7 + off[i - 1]] =
               [z \in 1..Zones |-> IF zones[z] = zones[s[i]] THEN zones[s[i]]
                                   ELSE u[7 + off[i]][z]]
  <2> DEFINE o == 7 + off[i - 1]
             leds == Leds(zones, s, i)
             colour == zones[s[i]]
  <2>1. /\ off[i - 1] \in Nat /\ off[i] \in Nat /\ off[i] <= off[n]
        /\ off[i] = off[i - 1] + 19 + 2 * Len(leds)
    <3>1. i \in 0..n /\ i - 1 \in 0..n
      BY <1>1
    <3> QED
      BY <1>2, <3>1
  <2>2. leds \in Seq(Byte) /\ Len(leds) \in Nat
        /\ {leds[k] : k \in 1..Len(leds)} = {z \in 1..Zones : zones[z] = colour}
    BY LedsHold, LenProperties DEF Leds
  <2>3. colour \in Colour
    BY <1>1, ElementOfSeq
  <2>4. GroupAt(r, o, colour, leds)
    BY <1>3
  <2> DEFINE a == off[i - 1]
             b == off[i]
             l == Len(leds)
             last == off[n]
  <2> HIDE DEF leds, colour
  <2>5. o \in Nat /\ r[o + 19] = Len(leds) /\ NextGroup(r, o) = 7 + off[i]
    <3>1. r[o + 19] = l
      BY <2>4 DEF GroupAt
    <3>2. a \in Nat /\ l \in Nat /\ b = a + 19 + 2 * l
      BY <2>1, <2>2
    <3> HIDE DEF a, b, l
    <3>3. o + 19 + 2 * l = 7 + b /\ o \in Nat
      <4>1. o = 7 + a
        BY DEF a
      <4> HIDE DEF o
      <4> QED
        BY <4>1, <3>2
    <3> HIDE DEF o
    <3> QED
      BY <3>1, <3>3 DEF NextGroup, b, l
  <2>6. o \in 7..end /\ o # end /\ NextGroup(r, o) \in (o + 1)..end
    <3>1. a \in Nat /\ b \in Nat /\ l \in Nat /\ b = a + 19 + 2 * l /\ b <= last
          /\ last \in Nat /\ o = 7 + a /\ end = 7 + last /\ NextGroup(r, o) = 7 + b
      BY <1>4, <2>1, <2>2, <2>5
    <3> HIDE DEF a, b, l, last, o
    <3> QED
      BY <3>1
  <2>7. ASSUME NEW k \in 1..Len(leds) PROVE Word(r, o + 19 + 2 * (k - 1)) = leds[k]
    <3>1. leds[k] \in Byte
      BY <2>2, ElementOfSeq
    <3>2. o + 19 + 2 * (k - 1) + 1 = o + 18 + 2 * k
          /\ o + 19 + 2 * (k - 1) + 2 = o + 19 + 2 * k
      BY <2>5
    <3>3. r[o + 18 + 2 * k] = leds[k] /\ r[o + 19 + 2 * k] = 0
      BY <2>4 DEF GroupAt
    <3> DEFINE x == o + 19 + 2 * (k - 1)
    <3>4. Word(r, x) = r[x + 1] + 256 * r[x + 2]
      BY DEF Word
    <3>5. r[x + 1] = leds[k] /\ r[x + 2] = 0
      BY <3>2, <3>3
    <3> HIDE DEF x
    <3>6. Word(r, x) = leds[k] + 256 * 0
      BY <3>4, <3>5, Zenon
    <3>7. \A led \in Byte : led + 256 * 0 = led
      BY DEF Byte
    <3> QED
      BY <3>1, <3>6, <3>7 DEF x
  <2>8. GroupLeds(r, o) = {z \in 1..Zones : zones[z] = colour}
    <3>1. GroupLeds(r, o) = {leds[k] : k \in 1..Len(leds)}
      <4>1. GroupLeds(r, o) = {Word(r, o + 19 + 2 * (k - 1)) : k \in 1..r[o + 19]}
        BY DEF GroupLeds
      <4> DEFINE W(k) == Word(r, o + 19 + 2 * (k - 1))
                 top == Len(leds)
      <4>2. GroupLeds(r, o) = {W(k) : k \in 1..top}
        BY <2>5, <4>1
      <4>3. \A k \in 1..top : W(k) = leds[k]
        BY <2>7
      <4> HIDE DEF o, W, top
      <4>4. GroupLeds(r, o) = {leds[k] : k \in 1..top}
        BY <4>2, <4>3, Zenon
      <4> QED
        BY <4>4 DEF top
    <3> QED
      BY <3>1, <2>2
  <2>9. SubSeq(r, o + 16, o + 18) = colour
    <3>1. \A c \in 1..3 : r[o + 15 + c] = colour[c]
      BY <2>4 DEF GroupAt
    <3>2. SubSeq(r, o + 16, o + 18) = [c \in 1..3 |-> r[o + 15 + c]]
      <4>1. o \in Nat /\ o + 16 \in Int /\ o + 18 \in Int
        BY <2>5
      <4> HIDE DEF o
      <4>2. o + 18 - (o + 16) + 1 = 3
        BY <4>1
      <4>3. \A c \in 1..3 : SubSeq(r, o + 16, o + 18)[c] = r[o + 15 + c]
        <5>1. \A j \in (o + 16)..(o + 18) : r[j] \in {r[k] : k \in (o + 16)..(o + 18)}
          OBVIOUS
        <5>2. \A c \in 1..(o + 18 - (o + 16) + 1) :
                SubSeq(r, o + 16, o + 18)[c] = r[o + 16 + c - 1]
          BY <4>1, <5>1, SubSeqProperties
        <5>3. \A c \in 1..3 : o + 16 + c - 1 = o + 15 + c
          BY <4>1
        <5> QED
          BY <5>2, <5>3, <4>2
      <4>4. SubSeq(r, o + 16, o + 18) \in [1..3 -> {r[k] : k \in (o + 16)..(o + 18)}]
        <5>1. \A j \in (o + 16)..(o + 18) : r[j] \in {r[k] : k \in (o + 16)..(o + 18)}
          OBVIOUS
        <5>2. SubSeq(r, o + 16, o + 18) \in Seq({r[k] : k \in (o + 16)..(o + 18)})
          BY <4>1, <5>1, SubSeqProperties
        <5>3. Len(SubSeq(r, o + 16, o + 18)) = 3
          <6>1. Len(SubSeq(r, o + 16, o + 18)) =
                  IF o + 16 <= o + 18 THEN o + 18 - (o + 16) + 1 ELSE 0
            BY <4>1, <5>1, SubSeqProperties
          <6> QED
            BY <6>1, <4>1
        <5> QED
          BY <5>2, <5>3, LenProperties
      <4> QED
        BY <4>3, <4>4
    <3> QED
      BY <3>1, <3>2, <2>3 DEF Colour
  <2>10. u[o] = [z \in 1..Zones |->
                   IF z \in GroupLeds(r, o) THEN SubSeq(r, o + 16, o + 18)
                   ELSE u[NextGroup(r, o)][z]]
    BY <1>5, <2>6 DEF Painting
  <2> HIDE DEF o
  <2>11. u[o] = [z \in 1..Zones |->
                   IF zones[z] = colour THEN colour ELSE u[7 + off[i]][z]]
    BY <2>5, <2>8, <2>9, <2>10
  <2> QED
    BY <2>11 DEF o, colour
<1> DEFINE S == {m \in Nat : m <= n =>
                   /\ u[7 + off[n - m]] \in [1..Zones -> Colour]
                   /\ \A z \in 1..Zones : \A g \in (n - m + 1)..n :
                        zones[z] = zones[s[g]] => u[7 + off[n - m]][z] = zones[z]}
<1>7. 0 \in S
  <2>1. Dark \in [1..Zones -> Colour]
    BY DEF Dark, Colour, Byte
  <2> QED
    BY <2>1, <1>1, <1>4, <1>5 DEF Painting
<1>8. ASSUME NEW m \in Nat, m \in S PROVE m + 1 \in S
  <2> SUFFICES ASSUME m + 1 <= n
               PROVE  /\ u[7 + off[n - (m + 1)]] \in [1..Zones -> Colour]
                      /\ \A z \in 1..Zones : \A g \in (n - (m + 1) + 1)..n :
                           zones[z] = zones[s[g]] => u[7 + off[n - (m + 1)]][z] = zones[z]
    OBVIOUS
  <2> DEFINE i == n - m
             below == u[7 + off[i]]
             above == u[7 + off[i - 1]]
  <2>1. i \in 1..n /\ n - (m + 1) = i - 1 /\ n - (m + 1) + 1 = i
    BY <1>1
  <2>2. below \in [1..Zones -> Colour]
        /\ \A z \in 1..Zones : \A g \in (i + 1)..n : zones[z] = zones[s[g]] => below[z] = zones[z]
    BY <1>8, <1>1
  <2>3. above = [z \in 1..Zones |-> IF zones[z] = zones[s[i]] THEN zones[s[i]] ELSE below[z]]
    BY <1>6, <2>1
  <2>4. zones[s[i]] \in Colour
    BY <1>1, <2>1, ElementOfSeq
  <2> HIDE DEF below, above, S
  <2>5. above \in [1..Zones -> Colour]
    BY <2>2, <2>3, <2>4
  <2>6. ASSUME NEW z \in 1..Zones, NEW g \in i..n, zones[z] = zones[s[g]]
        PROVE  above[z] = zones[z]
    <3>1. above[z] = IF zones[z] = zones[s[i]] THEN zones[s[i]] ELSE below[z]
      BY <2>3
    <3>2. CASE g = i
      BY <3>1, <3>2, <2>6
    <3>3. CASE g # i
      <4>1. g \in (i + 1)..n
        <5> HIDE DEF i
        <5> QED
          BY <3>3, <2>1, <1>1
      <4> QED
        BY <4>1, <3>1, <2>2, <2>6
    <3> QED
      BY <3>2, <3>3
  <2> QED
    BY <2>1, <2>5, <2>6 DEF above
<1>9. n \in S
  <2> HIDE DEF S
  <2> QED
    BY <1>7, <1>8, <1>1, Counting
<1>10. u[7] \in [1..Zones -> Colour]
       /\ \A z \in 1..Zones : \A g \in 1..n : zones[z] = zones[s[g]] => u[7][z] = zones[z]
  BY <1>9, <1>1, <1>2
<1>11. \A z \in 1..Zones : u[7][z] = zones[z]
  BY <1>10, <1>1
<1>12. u[7] = zones
  <2> DEFINE v == u[7]
  <2>1. v \in [1..Zones -> Colour] /\ \A z \in 1..Zones : v[z] = zones[z]
    BY <1>10, <1>11
  <2> HIDE DEF v
  <2>2. v = [z \in 1..Zones |-> v[z]] /\ zones = [z \in 1..Zones |-> zones[z]]
    BY <2>1
  <2>3. v = zones
    BY <2>1, <2>2, Zenon
  <2> QED
    BY <2>3 DEF v
<1> QED
  BY <1>5, <1>12

LEMMA PaintedHolds ==
  ASSUME NEW zones \in [1..Zones -> Colour]
  PROVE  Painted(SaveProfile(zones)) = zones
  BY PaintedGroups, Zenon
-----------------------------------------------------------------------------
(* Configurations *)

LEMMA ShadesHold == ShadeSeq \in Seq(Colour)
<1> DEFINE n == Cardinality(Shades)
<1>1. IsFiniteSet(Shades) /\ Shades \subseteq Colour
  BY KeyboardAssumption
<1>2. n \in Nat
  BY <1>1, FS_CardinalityType
<1>3. PICK m \in Nat : ExistsBijection(1..m, Shades)
  BY <1>1, FS_NatBijection
<1>4. m = n
  BY <1>3, FS_CountingElements
<1>5. \E f \in [1..n -> Shades] : IsInjective(f)
  <2>1. PICK f : f \in Bijection(1..n, Shades)
    BY <1>3, <1>4 DEF ExistsBijection
  <2>2. f \in [1..n -> Shades] /\ \A a, b \in 1..n : f[a] = f[b] => a = b
    BY <2>1 DEF Bijection, Injection, IsInjective
  <2> QED
    BY <2>2 DEF IsInjective
<1>6. ShadeSeq \in [1..n -> Shades]
  BY <1>5, Zenon DEF ShadeSeq, SetToSeq
<1> QED
  BY <1>1, <1>2, <1>6

LEMMA BandedHolds ==
  ASSUME NEW colours \in Seq(Colour), colours # <<>>
  PROVE  Banded(colours) \in [1..Zones -> Colour]
<1> DEFINE n == Len(colours)
           band(z) == ((z - 1) * n) \div Zones
           at(z) == 1 + (IF band(z) < n THEN band(z) ELSE n - 1)
<1>1. n \in Nat /\ n >= 1 /\ \A i \in 1..n : colours[i] \in Colour
  BY LenProperties, ElementOfSeq, EmptySeq
<1>2. Zones \in 2..255
  BY KeyboardAssumption
<1>3. ASSUME NEW z \in 1..Zones PROVE at(z) \in 1..n
  <2> DEFINE k == z - 1
             p == k * n
  <2>1. k \in Nat
    BY <1>2
  <2>2. p \in Nat
    BY <1>1, <2>1
  <2> HIDE DEF p
  <2>3. p \div Zones \in Nat
    BY <1>2, <2>2
  <2>4. band(z) \in Nat
    BY <2>3 DEF p
  <2> HIDE DEF band, n
  <2> QED
    BY <1>1, <2>4
<1>4. Banded(colours) = [z \in 1..Zones |-> colours[at(z)]]
  BY DEF Banded
<1> HIDE DEF at, n
<1> QED
  BY <1>1, <1>3, <1>4

\* Every frame gives every zone a colour.
LEMMA FramesHold ==
  ASSUME NEW f \in Frames
  PROVE  /\ FrameZones(f) \in [1..Zones -> Colour]
         /\ f.kind = "gradient" =>
              f.from \in Colour /\ f.to \in Colour /\ FrameZones(f) = Gradient(f.from, f.to)
<1>1. Shades \subseteq Colour /\ Zones \in 2..255
  BY KeyboardAssumption
<1>2. \/ f.kind = "solid" /\ f.from \in Shades
      \/ f.kind \in {"gradient", "alternating"} /\ f.from \in Shades /\ f.to \in Shades
      \/ f.kind = "banded" /\ f.bands \in 1..Len(ShadeSeq)
  BY DEF Frames
<1>3. CASE f.kind = "solid" /\ f.from \in Shades
  BY <1>1, <1>3 DEF FrameZones
<1>4. CASE f.kind = "gradient" /\ f.from \in Shades /\ f.to \in Shades
  <2>1. FrameZones(f) = Gradient(f.from, f.to) /\ f.from \in Colour /\ f.to \in Colour
    BY <1>1, <1>4 DEF FrameZones
  <2>2. Gradient(f.from, f.to) \in [1..Zones -> Colour]
    BY <2>1, GradientHolds
  <2> QED
    BY <2>1, <2>2
<1>5. CASE f.kind = "alternating" /\ f.from \in Shades /\ f.to \in Shades
  BY <1>1, <1>5 DEF FrameZones, Alternating
<1>6. CASE f.kind = "banded" /\ f.bands \in 1..Len(ShadeSeq)
  <2> DEFINE colours == SubSeq(ShadeSeq, 1, f.bands)
  <2>1. ShadeSeq \in Seq(Colour)
    BY ShadesHold
  <2>2. Len(ShadeSeq) \in Nat /\ \A i \in 1..Len(ShadeSeq) : ShadeSeq[i] \in Colour
    BY <2>1, LenProperties, ElementOfSeq
  <2>3. f.bands \in Int /\ f.bands >= 1 /\ \A i \in 1..f.bands : ShadeSeq[i] \in Colour
    BY <1>6, <2>2
  <2>4. colours \in Seq(Colour) /\ Len(colours) = f.bands
    <3>1. 1 \in Int
      OBVIOUS
    <3>2. /\ SubSeq(ShadeSeq, 1, f.bands) \in Seq(Colour)
          /\ Len(SubSeq(ShadeSeq, 1, f.bands)) =
               IF 1 <= f.bands THEN f.bands - 1 + 1 ELSE 0
      BY <2>3, <3>1, SubSeqProperties
    <3> QED
      BY <2>3, <3>2
  <2> HIDE DEF colours
  <2>5. Banded(colours) \in [1..Zones -> Colour]
    <3>1. colours # <<>>
      BY <2>3, <2>4
    <3> QED
      BY <2>4, <3>1, BandedHolds
  <2> QED
    BY <1>6, <2>5 DEF FrameZones, colours
<1> QED
  BY <1>2, <1>3, <1>4, <1>5, <1>6

\* The level is the nearest to the percentage, and not 0.
LevelNear(level, percent) ==
  LET off == 100 * level - LevelMax * percent
  IN  (-50 <= off /\ off <= 50) \/ (level = 1 /\ off > 0)

LEMMA LevelHolds ==
  ASSUME NEW percent \in 1..100
  PROVE  RawLevel(percent) \in 1..LevelMax /\ LevelNear(RawLevel(percent), percent)
<1> DEFINE n == percent * LevelMax
           level == RoundHalfToEven(n, 100)
<1>1. n \in Nat /\ n = 9 * percent
  BY DEF LevelMax
<1> HIDE DEF n
<1>2. n \div 100 \in Nat /\ (n % 100) \in 0..99 /\ n = 100 * (n \div 100) + (n % 100)
  BY <1>1
<1>3. level \in Nat /\ 100 * level - n <= 50 /\ n - 100 * level <= 50
  BY <1>2 DEF RoundHalfToEven
<1>4. RawLevel(percent) = IF level < 1 THEN 1 ELSE IF level > LevelMax THEN LevelMax ELSE level
  BY DEF RawLevel, n
<1> HIDE DEF level
<1> QED
  BY <1>1, <1>3, <1>4 DEF LevelNear, LevelMax
-----------------------------------------------------------------------------
(* The reports of a configuration, and what each does *)

Lit(c) == c.enabled /\ c.percent > 0
LevelReport(c) == Packet(206, <<RawLevel(c.percent)>>)

Fits(r) == r \in Seq(Byte) /\ Len(r) <= ReportSize

SmallPacket(r, command, payload) ==
  /\ Fits(r) /\ r[2] = command /\ Word(r, 2) = Len(payload)
  /\ \A i \in 1..Len(payload) : r[4 + i] = payload[i]

LEMMA SmallPacketHolds ==
  ASSUME NEW command \in Byte, NEW payload \in Seq(Byte), Len(payload) <= 3
  PROVE  SmallPacket(Packet(command, payload), command, payload)
<1> DEFINE r == Packet(command, payload)
<1>1. Len(payload) \in Nat /\ Len(payload) < 65536
  BY LenProperties
<1>2. /\ r \in Seq(Byte) /\ Len(r) = 4 + Len(payload)
      /\ r[2] = command /\ Word(r, 2) = Len(payload)
      /\ \A i \in 1..Len(payload) : r[4 + i] = payload[i]
  BY <1>1, PacketHolds
<1> HIDE DEF r
<1>3. Len(r) <= ReportSize
  <2>1. 7 <= ReportSize
    BY KeyboardAssumption
  <2> QED
    BY <1>1, <1>2, <2>1, KeyboardAssumption
<1>4. Fits(r)
  BY <1>2, <1>3 DEF Fits
<1> QED
  BY <1>2, <1>4 DEF r, SmallPacket

\* The first report changes nothing.
LEMMA SwitchHolds ==
  ASSUME NEW k
  PROVE  Fits(SwitchProfile) /\ Executed(k, SwitchProfile) = k
<1> DEFINE payload == <<1>>
<1>1. 200 \in Byte /\ payload \in Seq(Byte) /\ Len(payload) <= 3
  BY DEF Byte
<1> HIDE DEF payload
<1>2. SmallPacket(Packet(200, payload), 200, payload)
  BY <1>1, SmallPacketHolds
<1>3. SwitchProfile = Packet(200, payload)
  BY DEF SwitchProfile, payload
<1> QED
  BY <1>2, <1>3 DEF Executed, SmallPacket

\* One that saves a profile lights its zones, one that saves none puts them out.
LEMMA ProfileHolds ==
  ASSUME NEW k, NEW zones \in [1..Zones -> Colour]
  PROVE  /\ Fits(SaveProfile(zones))
         /\ Executed(k, SaveProfile(zones)) = [k EXCEPT !.zones = zones]
<1> DEFINE s == GroupStarts(zones)
           off == GroupOffsets(zones, s)
           r == SaveProfile(zones)
<1>1. ProfileAt(r, zones, s, off)
  BY SaveProfileHolds, Zenon
<1>2. off[Len(s)] \in Nat /\ off[Len(s)] <= 21 * Zones
  <2>1. Len(s) \in 0..Zones
    BY GroupsHold
  <2>2. off \in [0..Len(s) -> Nat] /\ off[Len(s)] <= 21 * Zones
    BY OffsetsHold
  <2>3. Len(s) \in 0..Len(s)
    BY <2>1, KeyboardAssumption
  <2> QED
    BY <2>2, <2>3
<1>3. Painted(r) = zones
  BY PaintedHolds
<1> HIDE DEF s, off, r
<1>4. r \in Seq(Byte) /\ Len(r) = 7 + off[Len(s)] /\ r[2] = 203
  BY <1>1 DEF ProfileAt
<1>5. Fits(r)
  <2>1. Zones \in Nat /\ ReportSize \in Nat /\ 7 + 21 * Zones <= ReportSize
    BY KeyboardAssumption
  <2> DEFINE last == off[Len(s)]
  <2> HIDE DEF last
  <2>2. Len(r) = 7 + last /\ last \in Nat /\ last <= 21 * Zones
    BY <1>2, <1>4 DEF last
  <2>3. Len(r) <= ReportSize
    BY <2>1, <2>2
  <2> QED
    BY <1>4, <2>3 DEF Fits
<1>6. Executed(k, r) = [k EXCEPT !.zones = zones]
  BY <1>3, <1>4 DEF Executed
<1> QED
  BY <1>5, <1>6 DEF r

LEMMA TurnOffHolds ==
  ASSUME NEW k
  PROVE  Fits(TurnOff) /\ Executed(k, TurnOff) = [k EXCEPT !.zones = Dark]
<1> DEFINE payload == <<1, 1, 1>>
           r == Packet(203, payload)
<1>1. 203 \in Byte /\ payload \in Seq(Byte) /\ Len(payload) = 3 /\ Len(payload) <= 3
  BY DEF Byte
<1>2. TurnOff = r
  BY DEF TurnOff
<1> HIDE DEF payload
<1>3. SmallPacket(r, 203, payload)
  BY <1>1, SmallPacketHolds
<1> HIDE DEF r
<1>4. Fits(TurnOff) /\ TurnOff[2] = 203 /\ Word(TurnOff, 2) = 3
  BY <1>1, <1>2, <1>3 DEF SmallPacket
<1>5. PICK u : Painted(TurnOff) = u[7] /\ Painting(TurnOff, 7, u)
  <2>1. 7 \in Nat /\ 7 = 4 + Word(TurnOff, 2) /\ 7 >= 7
    BY <1>4
  <2> QED
    BY <2>1, PaintedIs
<1>6. Painted(TurnOff) = Dark
  BY <1>5 DEF Painting
<1> QED
  BY <1>4, <1>6 DEF Executed

LEMMA LevelReportHolds ==
  ASSUME NEW k, NEW c, c.percent \in 1..100
  PROVE  /\ Fits(LevelReport(c))
         /\ Executed(k, LevelReport(c)) = [k EXCEPT !.level = RawLevel(c.percent)]
<1> DEFINE level == RawLevel(c.percent)
           payload == <<level>>
<1>1. level \in 1..LevelMax
  BY LevelHolds
<1> HIDE DEF level
<1>2. /\ 206 \in Byte /\ payload \in Seq(Byte) /\ Len(payload) = 1 /\ Len(payload) <= 3
      /\ payload[1] = level
  BY <1>1 DEF Byte, LevelMax
<1> HIDE DEF payload
<1> DEFINE r == Packet(206, payload)
<1>3. SmallPacket(r, 206, payload)
  BY <1>2, SmallPacketHolds
<1>4. r[5] = level
  <2>1. 1 \in 1..Len(payload) /\ 4 + 1 = 5
    BY <1>2
  <2> QED
    BY <1>2, <1>3, <2>1 DEF SmallPacket
<1>5. r = LevelReport(c)
  BY DEF LevelReport, payload, level
<1> HIDE DEF r
<1>6. Executed(k, r) = [k EXCEPT !.level = level]
  BY <1>3, <1>4 DEF Executed, SmallPacket
<1> QED
  BY <1>3, <1>5, <1>6 DEF level, SmallPacket

-----------------------------------------------------------------------------
(* What is sent *)

\* Where the sequence stands: what is still to send, and what the reports that
\* were sent have left on the keyboard.
Standing ==
  \/ unsent = <<>>
  \/ unsent = ReportsFor(wanted)
  \/ /\ Lit(wanted)
     /\ \/ unsent = <<SaveProfile(FrameZones(wanted.frame)), LevelReport(wanted)>>
        \/ /\ unsent = <<LevelReport(wanted)>>
           /\ keyboard.zones = FrameZones(wanted.frame)
  \/ ~Lit(wanted) /\ unsent = <<TurnOff>>

KeyboardInv ==
  /\ keyboard \in [zones : [1..Zones -> Colour], level : 0..LevelMax]
  /\ wanted \in Configurations
  /\ shown \in BOOLEAN /\ hidFaults \in 0..MaxHidFaults
  /\ Standing
  /\ shown => unsent = <<>> /\ LitAsWanted

LEMMA WantedHolds ==
  ASSUME NEW c \in Configurations
  PROVE  /\ FrameZones(c.frame) \in [1..Zones -> Colour]
         /\ Lit(c) => c.percent \in 1..100
<1>1. c.frame \in Frames /\ c.percent \in Percents \cup {0}
  BY DEF Configurations
<1>2. Percents \subseteq 0..100
  BY KeyboardAssumption
<1>3. c.percent \in 0..100
  <2>1. c.percent \in Percents => c.percent \in 0..100
    BY <1>2, Zenon
  <2>2. c.percent = 0 => c.percent \in 0..100
    OBVIOUS
  <2> QED
    BY <1>1, <2>1, <2>2
<1>4. Lit(c) => c.percent \in 1..100
  BY <1>3 DEF Lit
<1> QED
  BY <1>1, <1>4, FramesHold

LEMMA ReportsAre ==
  ASSUME NEW c
  PROVE  ReportsFor(c) = IF Lit(c)
                         THEN <<SwitchProfile, SaveProfile(FrameZones(c.frame)), LevelReport(c)>>
                         ELSE <<SwitchProfile, TurnOff>>
  BY DEF ReportsFor, Lit, LevelReport

\* Every report still to send fits, whatever was sent before.
LEMMA UnsentFits ==
  ASSUME wanted \in Configurations, Standing
  PROVE  /\ unsent \in Seq(Seq(Byte)) /\ Len(unsent) <= 3
         /\ \A i \in DOMAIN unsent : Fits(unsent[i])
<1> DEFINE p == SaveProfile(FrameZones(wanted.frame))
           l == LevelReport(wanted)
           a == SwitchProfile
           d == TurnOff
<1>1. Fits(a) /\ Fits(d) /\ Fits(p)
  BY SwitchHolds, TurnOffHolds, ProfileHolds, WantedHolds
<1>2. Lit(wanted) => Fits(l)
  BY LevelReportHolds, WantedHolds
<1>3. \/ unsent = <<>>
      \/ Lit(wanted) /\ unsent \in {<<a, p, l>>, <<p, l>>, <<l>>}
      \/ unsent \in {<<a, d>>, <<d>>}
  BY ReportsAre DEF Standing
<1> HIDE DEF p, l, a, d
<1> DEFINE R == {r \in Seq(Byte) : Fits(r)}
<1>4. a \in R /\ d \in R /\ p \in R /\ (Lit(wanted) => l \in R)
  BY <1>1, <1>2 DEF Fits
<1>5. R \subseteq Seq(Byte) /\ \A r \in R : Fits(r)
  OBVIOUS
<1> HIDE DEF R
<1>6. unsent \in Seq(R) /\ Len(unsent) <= 3
  <2>1. CASE unsent = <<>>
    BY <2>1
  <2>2. CASE Lit(wanted) /\ unsent \in {<<a, p, l>>, <<p, l>>, <<l>>}
    <3>1. a \in R /\ p \in R /\ l \in R
      BY <1>4, <2>2
    <3>2. CASE unsent = <<a, p, l>>
      BY <3>1, <3>2
    <3>3. CASE unsent = <<p, l>>
      BY <3>1, <3>3
    <3>4. CASE unsent = <<l>>
      BY <3>1, <3>4
    <3> QED
      BY <2>2, <3>2, <3>3, <3>4
  <2>3. CASE unsent = <<a, d>>
    BY <1>4, <2>3
  <2>4. CASE unsent = <<d>>
    BY <1>4, <2>4
  <2> QED
    BY <1>3, <2>1, <2>2, <2>3, <2>4
<1>7. \A i \in DOMAIN unsent : unsent[i] \in R
  BY <1>6
<1>8. unsent \in Seq(Seq(Byte))
  BY <1>5, <1>6, <1>7
<1> QED
  BY <1>5, <1>6, <1>7, <1>8

LEMMA KeyboardInitInv == KeyboardInit => KeyboardInv
<1> SUFFICES ASSUME KeyboardInit PROVE KeyboardInv
  OBVIOUS
<1>1. MaxHidFaults \in Nat /\ Shades \subseteq Colour /\ Shades # {} /\ Zones \in 2..255
  BY KeyboardAssumption
<1>2. keyboard \in [zones : [1..Zones -> Colour], level : 0..LevelMax]
  <2>1. Dark \in [1..Zones -> Colour]
    BY DEF Dark, Colour, Byte
  <2> QED
    BY <2>1 DEF KeyboardInit, LevelMax
<1>3. wanted \in Configurations
  <2>1. PICK s : s \in Shades
    BY <1>1
  <2> DEFINE f == [kind |-> "solid", from |-> s, to |-> s, bands |-> 1]
  <2>2. f \in Frames /\ f.kind = "solid"
    BY <2>1 DEF Frames
  <2> HIDE DEF f
  <2> DEFINE g == CHOOSE f0 \in Frames : f0.kind = "solid"
  <2>3. g \in Frames
    BY <2>2, Zenon
  <2> HIDE DEF g
  <2>4. wanted = [enabled |-> FALSE, percent |-> 0, frame |-> g]
    BY DEF KeyboardInit, g
  <2> QED
    BY <2>3, <2>4 DEF Configurations
<1>4. Standing
  BY DEF KeyboardInit, Standing
<1>5. shown = FALSE /\ hidFaults \in 0..MaxHidFaults
  BY <1>1 DEF KeyboardInit
<1> QED
  BY <1>2, <1>3, <1>4, <1>5 DEF KeyboardInv

\* Whatever is sent leaves every zone a colour, and a level.
LEMMA ExecutedHolds ==
  ASSUME KeyboardInv, unsent # <<>>
  PROVE  Executed(keyboard, Head(unsent)) \in [zones : [1..Zones -> Colour], level : 0..LevelMax]
<1> DEFINE zones == FrameZones(wanted.frame)
           p == SaveProfile(zones)
           l == LevelReport(wanted)
           a == SwitchProfile
           d == TurnOff
           level == RawLevel(wanted.percent)
<1>1. zones \in [1..Zones -> Colour] /\ (Lit(wanted) => wanted.percent \in 1..100)
  BY WantedHolds DEF KeyboardInv
<1>2. keyboard \in [zones : [1..Zones -> Colour], level : 0..LevelMax]
  BY DEF KeyboardInv
<1>3. Head(unsent) \in {a, p, d} \/ (Lit(wanted) /\ Head(unsent) = l)
  BY ReportsAre DEF KeyboardInv, Standing
<1>4. /\ Executed(keyboard, a) = keyboard
      /\ Executed(keyboard, p) = [keyboard EXCEPT !.zones = zones]
      /\ Executed(keyboard, d) = [keyboard EXCEPT !.zones = Dark]
      /\ Lit(wanted) => Executed(keyboard, l) = [keyboard EXCEPT !.level = level]
  BY <1>1, SwitchHolds, ProfileHolds, TurnOffHolds, LevelReportHolds
<1>5. Dark \in [1..Zones -> Colour]
  BY DEF Dark, Colour, Byte
<1>6. Lit(wanted) => level \in 0..LevelMax
  <2>1. Lit(wanted) => level \in 1..LevelMax
    BY <1>1, LevelHolds
  <2> HIDE DEF level
  <2> QED
    BY <2>1 DEF LevelMax
<1> HIDE DEF p, l, a, d, zones, level
<1> QED
  BY <1>1, <1>2, <1>3, <1>4, <1>5, <1>6

\* Sending the next report moves the sequence on, and the last one lights what
\* was wanted.
LEMMA ReportMoves ==
  ASSUME KeyboardInv, unsent # <<>>,
         keyboard' = Executed(keyboard, Head(unsent)),
         unsent' = Tail(unsent), wanted' = wanted
  PROVE  /\ Standing'
         /\ Len(unsent) = 1 => unsent' = <<>> /\ LitAsWanted'
<1> DEFINE zones == FrameZones(wanted.frame)
           p == SaveProfile(zones)
           l == LevelReport(wanted)
           KeyboardType == [zones : [1..Zones -> Colour], level : 0..LevelMax]
           a == SwitchProfile
           d == TurnOff
<1>1. zones \in [1..Zones -> Colour] /\ (Lit(wanted) => wanted.percent \in 1..100)
  BY WantedHolds DEF KeyboardInv
<1>2. keyboard \in KeyboardType
  BY DEF KeyboardInv
<1>3. \/ Lit(wanted) /\ unsent = <<a, p, l>>
      \/ Lit(wanted) /\ unsent = <<p, l>>
      \/ Lit(wanted) /\ unsent = <<l>> /\ keyboard.zones = zones
      \/ ~Lit(wanted) /\ unsent = <<a, d>>
      \/ ~Lit(wanted) /\ unsent = <<d>>
  BY ReportsAre DEF KeyboardInv, Standing
<1>4. Standing' <=>
        \/ unsent' = <<>>
        \/ unsent' = ReportsFor(wanted)
        \/ /\ Lit(wanted)
           /\ \/ unsent' = <<p, l>>
              \/ unsent' = <<l>> /\ keyboard'.zones = zones
        \/ ~Lit(wanted) /\ unsent' = <<d>>
  BY DEF Standing
<1>5. /\ Executed(keyboard, a) = keyboard
      /\ Executed(keyboard, p) = [keyboard EXCEPT !.zones = zones]
      /\ Executed(keyboard, d) = [keyboard EXCEPT !.zones = Dark]
      /\ Lit(wanted) => Executed(keyboard, l) = [keyboard EXCEPT !.level = RawLevel(wanted.percent)]
  BY <1>1, SwitchHolds, ProfileHolds, TurnOffHolds, LevelReportHolds
<1>6. Dark \in [1..Zones -> Colour]
  BY DEF Dark, Colour, Byte
<1>7. LitAsWanted' <=>
        IF Lit(wanted)
        THEN /\ keyboard'.zones = zones
             /\ keyboard'.level \in 1..LevelMax
             /\ LevelNear(keyboard'.level, wanted.percent)
        ELSE keyboard'.zones = Dark
  BY DEF LitAsWanted, Lit, LevelNear
<1> HIDE DEF p, l, a, d, zones
<1>8. CASE Lit(wanted) /\ unsent = <<a, p, l>>
  <2>1. keyboard' = keyboard /\ unsent' = <<p, l>> /\ Len(unsent) # 1
    BY <1>5, <1>8
  <2> QED
    BY <1>2, <1>4, <1>8, <2>1
<1>9. CASE Lit(wanted) /\ unsent = <<p, l>>
  <2>1. keyboard' = [keyboard EXCEPT !.zones = zones] /\ unsent' = <<l>> /\ Len(unsent) # 1
    BY <1>5, <1>9
  <2>2. keyboard' \in KeyboardType /\ keyboard'.zones = zones
    BY <1>1, <1>2, <2>1
  <2> QED
    BY <1>4, <1>9, <2>1, <2>2
<1>10. CASE Lit(wanted) /\ unsent = <<l>> /\ keyboard.zones = zones
  <2> DEFINE level == RawLevel(wanted.percent)
  <2>1. keyboard' = [keyboard EXCEPT !.level = level] /\ unsent' = <<>>
    BY <1>5, <1>10
  <2>2. level \in 1..LevelMax /\ LevelNear(level, wanted.percent)
    BY <1>1, <1>10, LevelHolds
  <2> HIDE DEF level
  <2>3. keyboard' \in KeyboardType /\ keyboard'.zones = zones /\ keyboard'.level = level
    BY <1>2, <1>10, <2>1, <2>2 DEF LevelMax
  <2> QED
    BY <1>4, <1>7, <1>10, <2>1, <2>2, <2>3
<1>11. CASE ~Lit(wanted) /\ unsent = <<a, d>>
  <2>1. keyboard' = keyboard /\ unsent' = <<d>> /\ Len(unsent) # 1
    BY <1>5, <1>11
  <2> QED
    BY <1>2, <1>4, <1>11, <2>1
<1>12. CASE ~Lit(wanted) /\ unsent = <<d>>
  <2>1. keyboard' = [keyboard EXCEPT !.zones = Dark] /\ unsent' = <<>>
    BY <1>5, <1>12
  <2>2. keyboard' \in KeyboardType /\ keyboard'.zones = Dark
    BY <1>2, <1>6, <2>1
  <2> QED
    BY <1>4, <1>7, <1>12, <2>1, <2>2
<1> QED
  BY <1>3, <1>8, <1>9, <1>10, <1>11, <1>12

LEMMA KeyboardNextInv == KeyboardInv /\ [KeyboardNext]_keyboardVars => KeyboardInv'
<1> SUFFICES ASSUME KeyboardInv, [KeyboardNext]_keyboardVars PROVE KeyboardInv'
  OBVIOUS
<1>1. ASSUME NEW c \in Asked, Apply(c) PROVE KeyboardInv'
  <2>1. c \in Configurations
    BY AskedAssumption
  <2>2. Standing'
    BY <1>1 DEF Apply, Standing
  <2> QED
    BY <1>1, <2>1, <2>2 DEF Apply, KeyboardInv
<1>2. CASE SendReport
  <2>1. Standing' /\ (Len(unsent) = 1 => unsent' = <<>> /\ LitAsWanted')
    BY <1>2, ReportMoves DEF SendReport
  <2>2. shown' = (Len(unsent) = 1) /\ wanted' = wanted /\ hidFaults' = hidFaults
    BY <1>2 DEF SendReport
  <2>3. wanted' \in Configurations /\ shown' \in BOOLEAN /\ hidFaults' \in 0..MaxHidFaults
    BY <2>2 DEF KeyboardInv
  <2>4. keyboard' \in [zones : [1..Zones -> Colour], level : 0..LevelMax]
    BY <1>2, ExecutedHolds DEF SendReport
  <2> QED
    BY <2>1, <2>2, <2>3, <2>4 DEF KeyboardInv
<1>3. CASE SendFails
  <2>1. ~shown /\ shown' = shown /\ wanted' = wanted /\ unsent' = <<>>
    BY <1>3 DEF SendFails, KeyboardInv
  <2>2. hidFaults' \in 0..MaxHidFaults
    BY <1>3, KeyboardAssumption DEF SendFails, KeyboardInv
  <2>3. keyboard' \in [zones : [1..Zones -> Colour], level : 0..LevelMax]
    <3>1. CASE keyboard' = keyboard
      BY <3>1 DEF KeyboardInv
    <3>2. CASE keyboard' = Executed(keyboard, Head(unsent))
      BY <1>3, <3>2, ExecutedHolds DEF SendFails
    <3> QED
      BY <1>3, <3>1, <3>2 DEF SendFails
  <2>4. Standing'
    BY <2>1 DEF Standing
  <2> QED
    BY <2>1, <2>2, <2>3, <2>4 DEF KeyboardInv
<1>4. CASE UNCHANGED keyboardVars
  BY <1>4 DEF keyboardVars, KeyboardInv, Standing, LitAsWanted
<1> QED
  BY <1>1, <1>2, <1>3, <1>4 DEF KeyboardNext

\* The inductive invariant gives the property.
LEMMA InvShows == KeyboardInv => KeyboardShows
<1> SUFFICES ASSUME KeyboardInv PROVE KeyboardShows
  OBVIOUS
<1>1. wanted \in Configurations /\ Standing /\ (shown => LitAsWanted)
  BY DEF KeyboardInv
<1>2. ReportsFit
  BY <1>1, UnsentFits DEF ReportsFit, Fits
<1>3. GradientSound
  <2> DEFINE f == wanted.frame
  <2>1. f \in Frames
    BY <1>1 DEF Configurations
  <2>2. f.kind = "gradient" =>
          f.from \in Colour /\ f.to \in Colour /\ FrameZones(f) = Gradient(f.from, f.to)
    BY <2>1, FramesHold
  <2> QED
    BY <2>2, GradientHolds DEF GradientSound
<1> QED
  BY <1>1, <1>2, <1>3 DEF KeyboardShows

\* In every state the reports not yet sent are the rest of the sequence for what
\* is wanted; once the zones have been sent the keyboard has them, and after the
\* last report it has everything (reports_for, apply).
THEOREM KeyboardInvariant == KeyboardSpec => []KeyboardInv
<1> QED
  BY KeyboardInitInv, KeyboardNextInv, PTL DEF KeyboardSpec

\* Every variable of the keyboard has its type, and at most three reports of
\* bytes wait (reports_for).
THEOREM KeyboardTyped == KeyboardSpec => []KeyboardTypeOK
<1>1. KeyboardInv => KeyboardTypeOK
  <2> SUFFICES ASSUME KeyboardInv PROVE KeyboardTypeOK
    OBVIOUS
  <2>1. unsent \in Seq(Seq(Byte)) /\ Len(unsent) <= 3
    BY UnsentFits DEF KeyboardInv
  <2> QED
    BY <2>1 DEF KeyboardInv, KeyboardTypeOK
<1> QED
  BY <1>1, KeyboardInvariant, PTL

\* What was asked is what lights up: with any number of zones the decoder can
\* name, any colours and percentages, and any reports lost on the way, a whole
\* sequence leaves each zone its colour and the nearest level, every report fits,
\* and a gradient goes one way from its first colour to its second (reports_for,
\* _save_profile_report, gradient_rgb_configuration).
THEOREM AskedIsLit == KeyboardSpec => []KeyboardShows
<1> QED
  BY InvShows, KeyboardInvariant, PTL
=============================================================================
