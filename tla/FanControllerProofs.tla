------------------------- MODULE FanControllerProofs -------------------------
(* The promises of FanController for every curve, every temperature and      *)
(* every step grid that reaches both published limits (MaxOnGrid), after     *)
(* the facts about the operators of FanRules that they rest on.              *)
EXTENDS MCFanController, FiniteSetTheorems, SequenceTheorems, WellFoundedInduction, TLAPS

\* The published range is a whole number of steps, as on the supported
\* machine (1700..5300 in steps of 100).  FanBounds does not check it.
MaxOnGrid == (MaxRpm - MinRpm) % StepRpm = 0

-----------------------------------------------------------------------------
(* Rounding *)

\* Division with remainder has one solution.
LEMMA DivModUnique ==
  ASSUME NEW n \in Int, NEW d \in Nat \ {0}, NEW q \in Int, NEW r \in Int,
         n = q * d + r, 0 <= r, r < d
  PROVE  n \div d = q /\ n % d = r
<1>1. n \div d \in Int /\ n % d \in Int
  OBVIOUS
<1>2. n = (n \div d) * d + (n % d) /\ 0 <= n % d /\ n % d < d
  OBVIOUS
<1> DEFINE a == n \div d
<1>3. a * d + (n % d) = q * d + r
  BY <1>2
<1> QED
  BY <1>1, <1>2, <1>3, SMTT(30)

\* round(n / d) is a natural number.
LEMMA RoundType ==
  ASSUME NEW n \in Nat, NEW d \in Nat \ {0}
  PROVE  /\ RoundHalfEven(n, d) \in Nat
         /\ RoundHalfEven(n, d) \in {n \div d, n \div d + 1}
  BY DEF RoundHalfEven

\* round(k * d / d) = k.
LEMMA RoundExact ==
  ASSUME NEW k \in Nat, NEW d \in Nat \ {0}
  PROVE  RoundHalfEven(k * d, d) = k
<1>1. (k * d) \div d = k /\ (k * d) % d = 0
  BY DivModUnique, k * d \in Int
<1> QED
  BY <1>1 DEF RoundHalfEven

\* Rounding is monotone.
LEMMA RoundMonotone ==
  ASSUME NEW m \in Nat, NEW n \in Nat, NEW d \in Nat \ {0}, m <= n
  PROVE  RoundHalfEven(m, d) <= RoundHalfEven(n, d)
<1> DEFINE p == m \div d
           q == n \div d
           r == m % d
           s == n % d
<1>1. p \in Nat /\ q \in Nat /\ r \in 0..(d - 1) /\ s \in 0..(d - 1)
  OBVIOUS
<1>2. m = p * d + r /\ n = q * d + s
  OBVIOUS
<1>3. p <= q
  <2>1. SUFFICES ASSUME p >= q + 1 PROVE FALSE
    BY <1>1
  <2>2. p * d >= (q + 1) * d
    BY <1>1, <2>1, SMTT(30)
  <2>3. (q + 1) * d = q * d + d
    BY <1>1, SMTT(30)
  <2> QED
    BY <1>1, <1>2, <2>2, <2>3, SMTT(30)
<1>4. CASE p = q
  <2>1. r <= s
    BY <1>1, <1>2, <1>4, SMTT(30)
  <2> QED
    BY <1>1, <1>4, <2>1 DEF RoundHalfEven
<1>5. CASE p < q
  <2>1. RoundHalfEven(m, d) \in {p, p + 1} /\ RoundHalfEven(n, d) \in {q, q + 1}
    BY RoundType
  <2> HIDE DEF p, q
  <2> QED
    BY <1>1, <1>5, <2>1
<1> QED
  BY <1>1, <1>3, <1>4, <1>5

-----------------------------------------------------------------------------
(* Quantisation *)

\* Clamping ends within the published limits.
LEMMA ClampType ==
  ASSUME NEW rpm \in Int
  PROVE  /\ Clamp(rpm) \in MinRpm..MaxRpm
         /\ Clamp(rpm) - MinRpm \in Nat
         /\ rpm \in MinRpm..MaxRpm => Clamp(rpm) = rpm
  BY BoundsAssumption DEF Clamp, Larger, Smaller

\* Whatever is asked for, the quantised target respects the published limits.
LEMMA QuantizeRange ==
  ASSUME NEW rpm \in Int
  PROVE  Quantize(rpm) \in MinRpm..MaxRpm
<1> DEFINE k == RoundHalfEven(Clamp(rpm) - MinRpm, StepRpm)
<1>1. k \in Nat
  BY ClampType, RoundType, BoundsAssumption
<1>2. MinRpm + k * StepRpm \in Int
  BY <1>1, BoundsAssumption
<1> QED
  BY <1>2, ClampType DEF Quantize

\* Quantisation leaves the points of the step grid alone.
LEMMA QuantizeGrid ==
  ASSUME NEW k \in Nat, MinRpm + k * StepRpm <= MaxRpm
  PROVE  Quantize(MinRpm + k * StepRpm) = MinRpm + k * StepRpm
<1> DEFINE x == MinRpm + k * StepRpm
<1>1. k * StepRpm \in Nat
  BY BoundsAssumption, SMTT(30)
<1>2. x \in MinRpm..MaxRpm
  BY <1>1, BoundsAssumption
<1>3. Clamp(x) = x
  BY <1>2, ClampType, BoundsAssumption
<1>4. Clamp(x) - MinRpm = k * StepRpm
  BY <1>1, <1>3, BoundsAssumption
<1>5. RoundHalfEven(Clamp(x) - MinRpm, StepRpm) = k
  BY <1>4, RoundExact, BoundsAssumption
<1> QED
  BY <1>3, <1>5 DEF Quantize

\* On a grid that reaches both limits, every quantised target is a grid point.
LEMMA QuantizeOnGrid ==
  ASSUME MaxOnGrid, NEW rpm \in Int
  PROVE  \E k \in Nat : Quantize(rpm) = MinRpm + k * StepRpm
<1> DEFINE k == RoundHalfEven(Clamp(rpm) - MinRpm, StepRpm)
           top == (MaxRpm - MinRpm) \div StepRpm
<1>1. k \in Nat
  BY ClampType, RoundType, BoundsAssumption
<1>2. k * StepRpm \in Nat
  BY <1>1, BoundsAssumption, SMTT(30)
<1>3. top \in Nat /\ MaxRpm = MinRpm + top * StepRpm
  <2>1. MaxRpm - MinRpm \in Nat /\ StepRpm \in Nat \ {0}
    BY BoundsAssumption
  <2> QED
    BY <2>1, BoundsAssumption, SMTT(30) DEF MaxOnGrid
<1>4. Quantize(rpm) = MinRpm + k * StepRpm \/ Quantize(rpm) = MaxRpm
  BY <1>2, BoundsAssumption DEF Quantize, Clamp, Larger, Smaller
<1> QED
  BY <1>1, <1>3, <1>4

\* A quantised target passes the check of set_fan_targets.
LEMMA QuantizeAccepted ==
  ASSUME MaxOnGrid, NEW rpm \in Int
  PROVE  Accepted(Quantize(rpm))
<1>1. PICK k \in Nat : Quantize(rpm) = MinRpm + k * StepRpm
  BY QuantizeOnGrid
<1>2. MinRpm + k * StepRpm <= MaxRpm
  BY <1>1, QuantizeRange, BoundsAssumption
<1> QED
  BY <1>1, <1>2, QuantizeGrid DEF Accepted

\* So does the hardware-published maximum.
LEMMA MaximumAccepted ==
  ASSUME MaxOnGrid
  PROVE  Accepted(MaxRpm)
<1> DEFINE top == (MaxRpm - MinRpm) \div StepRpm
<1>1. MaxRpm - MinRpm \in Nat /\ StepRpm \in Nat \ {0}
  BY BoundsAssumption
<1>2. top \in Nat /\ MaxRpm = MinRpm + top * StepRpm
  BY <1>1, BoundsAssumption, SMTT(30) DEF MaxOnGrid
<1>3. Quantize(MinRpm + top * StepRpm) = MinRpm + top * StepRpm
  <2> HIDE DEF top
  <2> QED
    BY <1>2, QuantizeGrid, BoundsAssumption
<1> QED
  BY <1>2, <1>3 DEF Accepted

\* A faster request never becomes a slower target.
LEMMA QuantizeMonotone ==
  ASSUME NEW x \in Int, NEW y \in Int, x <= y
  PROVE  Quantize(x) <= Quantize(y)
<1> DEFINE a == Clamp(x) - MinRpm
           b == Clamp(y) - MinRpm
           j == RoundHalfEven(a, StepRpm)
           k == RoundHalfEven(b, StepRpm)
<1>1. a \in Nat /\ b \in Nat
  BY ClampType
<1>2. a <= b
  BY BoundsAssumption DEF Clamp, Larger, Smaller
<1>3. j \in Nat /\ k \in Nat /\ j <= k
  BY <1>1, <1>2, RoundType, RoundMonotone, BoundsAssumption
<1>4. j * StepRpm \in Nat /\ k * StepRpm \in Nat /\ j * StepRpm <= k * StepRpm
  <2> HIDE DEF j, k
  <2> QED
    BY <1>3, BoundsAssumption, SMTT(30)
<1> QED
  BY <1>4, BoundsAssumption DEF Quantize, Clamp, Larger, Smaller

\* The limited drop of _stabilize_curve_target needs no rounding: from a grid
\* point towards a grid point below it, it lands on the grid.
LEMMA DropExact ==
  ASSUME MaxOnGrid, NEW prev \in Int, NEW low \in Int,
         Accepted(prev), Accepted(low), low < prev
  PROVE  LET next == Larger(low, prev - StepRpm * MaxDropSteps)
         IN  Quantize(next) = next
<1> DEFINE floor == prev - StepRpm * MaxDropSteps
<1>1. low \in MinRpm..MaxRpm /\ prev \in MinRpm..MaxRpm
  BY QuantizeRange DEF Accepted
<1>2. floor \in Int
  BY BoundsAssumption DEF MaxDropSteps
<1>3. CASE low >= floor
  BY <1>3, <1>2 DEF Larger, Accepted
<1>4. CASE floor > low
  <2>1. PICK k \in Nat : prev = MinRpm + k * StepRpm
    BY QuantizeOnGrid DEF Accepted
  <2>2. floor = MinRpm + (k - 3) * StepRpm
    BY <2>1, BoundsAssumption, SMTT(30) DEF MaxDropSteps
  <2>3. k - 3 \in Nat
    <3>1. (k - 3) * StepRpm > 0
      BY <1>1, <1>4, <2>2, BoundsAssumption
    <3> QED
      BY <3>1, BoundsAssumption, SMTT(30)
  <2>4. floor <= MaxRpm
    BY <1>1, BoundsAssumption DEF MaxDropSteps
  <2>5. Quantize(floor) = floor
    <3> HIDE DEF floor
    <3> QED
      BY <2>2, <2>3, <2>4, QuantizeGrid
  <2> QED
    BY <1>2, <1>4, <2>5 DEF Larger
<1> QED
  BY <1>2, <1>3, <1>4

-----------------------------------------------------------------------------
(* Demand *)

\* The hotter of the readings that are there.
LEMMA HottestType ==
  ASSUME NEW cpu \in Int \cup {None}, NEW gpu \in Int \cup {None}
  PROVE  Hottest(Snapshot(cpu, gpu)) \in Int \cup {None}
  BY NoneAssumption DEF Hottest, Snapshot, Larger

\* The median of one to three samples is a number.
LEMMA MedianType ==
  ASSUME NEW s \in Seq(Int), 1 <= Len(s), Len(s) <= FilterSamples
  PROVE  MedianHigh(s) \in Int
<1> DEFINE n == Len(s)
<1>1. n \in Nat /\ n <= 3 /\ 1 <= n
  BY LenProperties DEF FilterSamples
<1>2. \A i \in 1..n : s[i] \in Int
  BY ElementOfSeq
<1>3. MedianHigh(s) =
        IF n = 1 THEN s[1]
        ELSE IF n = 2 THEN Larger(s[1], s[2])
        ELSE Larger(Smaller(s[1], s[2]), Smaller(Larger(s[1], s[2]), s[3]))
  BY DEF MedianHigh
<1> HIDE DEF n
<1>4. n = 1 \/ n = 2 \/ n = 3
  BY <1>1
<1> QED
  BY <1>2, <1>3, <1>4 DEF Larger, Smaller

\* The deque keeps between one and FilterSamples samples.
LEMMA PushType ==
  ASSUME NEW s \in Seq(Int), Len(s) <= FilterSamples, NEW x \in Int
  PROVE  /\ Push(s, x) \in Seq(Int)
         /\ 1 <= Len(Push(s, x)) /\ Len(Push(s, x)) <= FilterSamples
<1>1. Len(s) \in Nat /\ Len(s) <= 3
  BY LenProperties DEF FilterSamples
<1>2. Append(s, x) \in Seq(Int) /\ Len(Append(s, x)) = Len(s) + 1
  OBVIOUS
<1>3. CASE Len(s) < 3
  <2>1. Push(s, x) = Append(s, x)
    BY <1>3 DEF Push, FilterSamples
  <2> QED
    BY <1>1, <1>2, <1>3, <2>1 DEF FilterSamples
<1>4. CASE Len(s) = 3
  <2>1. s # <<>>
    BY <1>4, EmptySeq
  <2>2. Tail(s) \in Seq(Int) /\ Len(Tail(s)) = 2
    BY <1>4, <2>1, HeadTailProperties
  <2>3. Append(Tail(s), x) \in Seq(Int) /\ Len(Append(Tail(s), x)) = 3
    BY <2>2
  <2>4. Push(s, x) = Append(Tail(s), x)
    BY <1>4 DEF Push, FilterSamples
  <2> QED
    BY <2>3, <2>4 DEF FilterSamples
<1>5. Len(s) < 3 \/ Len(s) = 3
  <2> DEFINE n == Len(s)
  <2>1. n \in Nat /\ n <= 3
    BY <1>1
  <2> HIDE DEF n
  <2>2. n < 3 \/ n = 3
    BY <2>1
  <2> QED
    BY <2>2 DEF n
<1> QED
  BY <1>3, <1>4, <1>5

\* A temperature between the ends of a curve lies in one of its segments, so
\* the search of FanCurve.target_at never falls through to its AssertionError.
LEMMA SegmentExists ==
  ASSUME NEW curve, ValidCurve(curve), NEW t \in Int,
         t > curve[1].temperature, t < curve[Len(curve)].temperature
  PROVE  \E i \in 1..(Len(curve) - 1) :
           t <= curve[i + 1].temperature /\ t > curve[i].temperature
<1> DEFINE T == {i \in 1..Len(curve) : t <= curve[i].temperature}
           R == OpToRel(<, Nat)
<1>1. Len(curve) \in Nat /\ 2 <= Len(curve) /\ \A i \in 1..Len(curve) : curve[i].temperature \in Int
  <2>1. curve \in Seq(CurvePoint) /\ 2 <= Len(curve)
    BY DEF ValidCurve
  <2>2. \A i \in 1..Len(curve) : curve[i] \in CurvePoint
    BY <2>1, ElementOfSeq
  <2> QED
    BY <2>1, <2>2, LenProperties DEF CurvePoint
<1>2. T \subseteq Nat /\ Len(curve) \in T
  BY <1>1
<1>3. PICK j \in T : \A i \in T : ~(<<i, j>> \in R)
  BY <1>2, WFMin, NatLessThanWellFounded
<1>4. j \in Nat /\ 2 <= j /\ j <= Len(curve) /\ t <= curve[j].temperature
  <2>1. j \in 1..Len(curve) /\ t <= curve[j].temperature
    OBVIOUS
  <2>2. curve[1].temperature \in Int
    BY <1>1
  <2>3. j # 1
    BY <2>1, <2>2
  <2> QED
    BY <1>1, <2>1, <2>3
<1>5. j - 1 \in 1..(Len(curve) - 1) /\ j - 1 \in Nat /\ j - 1 < j
  BY <1>1, <1>4
<1>6. <<j - 1, j>> \in R
  BY <1>4, <1>5 DEF OpToRel
<1>7. j - 1 \notin T
  BY <1>3, <1>6
<1>8. j - 1 \in 1..Len(curve) /\ curve[j - 1].temperature \in Int
  BY <1>1, <1>4, <1>5
<1>9. ~(t <= curve[j - 1].temperature)
  BY <1>7, <1>8
<1>10. t > curve[j - 1].temperature
  BY <1>8, <1>9
<1>11. t <= curve[(j - 1) + 1].temperature
  <2>1. (j - 1) + 1 = j
    BY <1>4
  <2> QED
    BY <1>4, <2>1
<1> QED
  BY <1>5, <1>10, <1>11

\* Whatever a valid manual policy asks for is a target the hardware accepts.
LEMMA DemandAccepted ==
  ASSUME MaxOnGrid, NEW p, ValidPolicy(p), NEW t \in Int
  PROVE  TargetFor(p, t) \in MinRpm..MaxRpm /\ Accepted(TargetFor(p, t))
<1>1. p.fixed \in Int /\ Accepted(p.fixed)
  BY BoundsAssumption DEF ValidPolicy
<1>2. ASSUME NEW curve, ValidCurve(curve)
      PROVE  TargetAt(curve, t) \in MinRpm..MaxRpm /\ Accepted(TargetAt(curve, t))
  <2> DEFINE N == Len(curve)
  <2>1. /\ N \in Nat /\ 2 <= N
        /\ \A i \in 1..N : curve[i] \in CurvePoint /\ curve[i].rpm \in Nat
    <3>1. curve \in Seq(CurvePoint) /\ N \in Nat /\ 2 <= N
      BY <1>2, LenProperties DEF ValidCurve
    <3>2. \A i \in 1..N : curve[i] \in CurvePoint
      BY <3>1, ElementOfSeq
    <3>3. \A i \in 1..N : curve[i].rpm \in MinRpm..MaxRpm
      BY <1>2, <3>1, LenProperties DEF ValidCurve
    <3> QED
      BY <3>1, <3>2, <3>3, BoundsAssumption
  <2>2. curve[1].rpm \in Int /\ curve[N].rpm \in Int
        /\ curve[1].temperature \in Int /\ curve[N].temperature \in Int
    BY <2>1 DEF CurvePoint
  <2>3. CASE t <= curve[1].temperature
    BY <2>2, <2>3, QuantizeRange, QuantizeAccepted DEF TargetAt
  <2>4. CASE ~(t <= curve[1].temperature) /\ t >= curve[N].temperature
    BY <2>2, <2>4, QuantizeRange, QuantizeAccepted DEF TargetAt
  <2>5. CASE t > curve[1].temperature /\ t < curve[N].temperature
    <3> DEFINE k == CHOOSE i \in 1..(N - 1) :
                      /\ t <= curve[i + 1].temperature
                      /\ t > curve[i].temperature
    <3>1. k \in 1..(N - 1) /\ t <= curve[k + 1].temperature
          /\ t > curve[k].temperature
      BY <1>2, <2>5, SegmentExists
    <3> HIDE DEF k
    <3>2. /\ curve[k].temperature < curve[k + 1].temperature
          /\ curve[k].rpm <= curve[k + 1].rpm
      BY <1>2, <3>1 DEF ValidCurve
    <3>3. /\ curve[k].rpm \in Nat /\ curve[k + 1].rpm \in Nat
          /\ curve[k].temperature \in Int /\ curve[k + 1].temperature \in Int
      BY <2>1, <3>1 DEF CurvePoint
    <3> DEFINE span == curve[k + 1].temperature - curve[k].temperature
               num == curve[k].rpm * span
                        + (t - curve[k].temperature) * (curve[k + 1].rpm - curve[k].rpm)
    <3>4. span \in Nat \ {0}
      BY <3>2, <3>3
    <3>5. curve[k].rpm * span \in Nat
          /\ (t - curve[k].temperature) * (curve[k + 1].rpm - curve[k].rpm) \in Nat
      <4>1. t - curve[k].temperature \in Nat /\ curve[k + 1].rpm - curve[k].rpm \in Nat
        BY <3>1, <3>2, <3>3
      <4>2. \A a, b \in Nat : a * b \in Nat
        BY SMTT(30)
      <4> QED
        BY <3>3, <3>4, <4>1, <4>2
    <3>6. RoundHalfEven(num, span) \in Nat
      BY <3>4, <3>5, RoundType
    <3>7. Interpolate(curve[k], curve[k + 1], t) \in Int
      BY <3>6 DEF Interpolate
    <3>8. TargetAt(curve, t) = Quantize(Interpolate(curve[k], curve[k + 1], t))
      BY <2>2, <2>5 DEF TargetAt, k
    <3> QED
      BY <3>7, <3>8, QuantizeRange, QuantizeAccepted
  <2> QED
    BY <2>2, <2>3, <2>4, <2>5
<1>3. MaxRpm \in MinRpm..MaxRpm /\ Accepted(MaxRpm)
  BY MaximumAccepted, BoundsAssumption
<1>4. Quantize(p.fixed) \in MinRpm..MaxRpm /\ Accepted(Quantize(p.fixed))
  BY <1>1, QuantizeRange, QuantizeAccepted
<1>5. TargetAt(p.curve, t) \in MinRpm..MaxRpm /\ Accepted(TargetAt(p.curve, t))
  BY <1>2 DEF ValidPolicy
<1> QED
  BY <1>3, <1>4, <1>5 DEF TargetFor

-----------------------------------------------------------------------------
(* The controller *)

\* A target, once there is one, is a speed the hardware accepts, it is paired
\* with the temperature it was set at, and it covers the filtered demand.
Covered ==
  /\ target = None <=> held = None
  /\ target # None => target \in MinRpm..MaxRpm /\ Accepted(target)
  /\ outcome = "targets" => target # None /\ control # None
  /\ NeverBelowDemand

IInv == TypeOK /\ Covered

\* NextTargets on a reading that reaches the controller.
LEMMA ReadingType ==
  ASSUME TypeOK, NEW cpu \in CpuTemps, NEW gpu \in GpuTemps
  PROVE  /\ Hottest(Snapshot(cpu, gpu)) \in Int \cup {None}
         /\ [cpu |-> cpu, gpu |-> gpu] \in [cpu : Int \cup {None}, gpu : Int \cup {None}]
  BY HottestType, TempsAssumption

\* What the active policy asks for is a target the hardware accepts.
LEMMA PolicyDemand ==
  ASSUME MaxOnGrid, TypeOK, NEW t \in Int
  PROVE  TargetFor(policy, t) \in MinRpm..MaxRpm /\ Accepted(TargetFor(policy, t))
  BY DemandAccepted, PoliciesAssumption DEF TypeOK

\* The bypass commands exactly what the policy asks for.
LEMMA BypassCovered ==
  ASSUME MaxOnGrid, IInv, NEW t \in Int, Bypass(t),
         reading' \in [cpu : Int \cup {None}, gpu : Int \cup {None}]
  PROVE  IInv'
<1>1. TargetFor(policy, t) \in MinRpm..MaxRpm /\ Accepted(TargetFor(policy, t))
  BY PolicyDemand DEF IInv
<1>2. TargetFor(policy, t) \in Int /\ TargetFor(policy, t) # None /\ t # None
  BY <1>1, NoneAssumption, BoundsAssumption
<1>3. /\ control' = t /\ held' = t /\ target' = TargetFor(policy, t)
      /\ cooling' = 0 /\ outcome' = "targets"
      /\ policy' = policy /\ temperatures' = temperatures
  BY DEF Bypass
<1>4. TypeOK'
  BY <1>2, <1>3 DEF IInv, TypeOK, Confirmation
<1>5. Covered'
  BY <1>1, <1>2, <1>3, BoundsAssumption DEF Covered, NeverBelowDemand
<1> QED
  BY <1>4, <1>5 DEF IInv

\* Every branch of the stabiliser keeps the target acceptable and at or above
\* the desired one, and lowers it by at most MaxDropSteps steps.
LEMMA StabilizeCovered ==
  ASSUME MaxOnGrid, IInv, NEW t \in Int, NEW desired \in MinRpm..MaxRpm,
         Accepted(desired), Stabilize(t, desired)
  PROVE  /\ target' \in MinRpm..MaxRpm /\ Accepted(target')
         /\ target' >= desired
         /\ target # None => target' >= target - StepRpm * MaxDropSteps
         /\ held' \in Int
         /\ cooling' \in 0..(Confirmation - 1)
<1>1. desired \in Int /\ StepRpm * MaxDropSteps \in Nat
  BY BoundsAssumption DEF MaxDropSteps
<1>2. /\ target = None <=> held = None
      /\ target # None => target \in MinRpm..MaxRpm /\ target \in Int /\ Accepted(target)
      /\ held # None => held \in Int
      /\ cooling \in 0..(Confirmation - 1)
  BY BoundsAssumption DEF IInv, Covered, TypeOK
<1>3. CASE First(t, desired)
  BY <1>1, <1>2, <1>3 DEF First
<1>4. CASE target # None /\ held # None /\ Rise(t, desired)
  BY <1>1, <1>2, <1>4 DEF Rise, Confirmation
<1>5. CASE target # None /\ held # None /\ Level(desired)
  BY <1>1, <1>2, <1>5 DEF Level, Confirmation
<1>6. CASE target # None /\ held # None /\ NotCoolEnough(t, desired)
  BY <1>1, <1>2, <1>6 DEF NotCoolEnough, Confirmation
<1>7. CASE target # None /\ held # None /\ Confirming(t, desired)
  BY <1>1, <1>2, <1>7 DEF Confirming, Confirmation
<1>8. CASE target # None /\ held # None /\ Drop(t, desired)
  <2> DEFINE next == Larger(desired, target - StepRpm * MaxDropSteps)
  <2>1. desired < target /\ target' = Quantize(next) /\ cooling' = 0
        /\ held' \in {t, held}
    BY <1>8 DEF Drop
  <2>2. Quantize(next) = next
    BY <1>1, <1>2, <1>8, <2>1, DropExact
  <2>3. next \in Int /\ next >= desired /\ next >= target - StepRpm * MaxDropSteps
    BY <1>1, <1>2, <1>8 DEF Larger
  <2>4. Quantize(next) \in MinRpm..MaxRpm
    BY <2>3, QuantizeRange
  <2> HIDE DEF next
  <2> QED
    BY <1>2, <1>8, <2>1, <2>2, <2>3, <2>4 DEF Accepted, Confirmation
<1> QED
  BY <1>3, <1>4, <1>5, <1>6, <1>7, <1>8 DEF Stabilize

\* A filtered tick keeps the invariant, and drops by at most MaxDropSteps steps.
LEMMA FilterCovered ==
  ASSUME MaxOnGrid, IInv, NEW t \in Int, Filter(t),
         reading' \in [cpu : Int \cup {None}, gpu : Int \cup {None}]
  PROVE  /\ IInv'
         /\ target # None => target' >= target - StepRpm * MaxDropSteps
<1>1. /\ temperatures' = Push(temperatures, t)
      /\ control' = MedianHigh(temperatures')
      /\ Stabilize(control', TargetFor(policy, control'))
      /\ outcome' = "targets" /\ policy' = policy
  BY DEF Filter
<1>2. /\ temperatures' \in Seq(Int)
      /\ 1 <= Len(temperatures') /\ Len(temperatures') <= FilterSamples
  BY <1>1, PushType DEF IInv, TypeOK
<1>3. control' \in Int
  BY <1>1, <1>2, MedianType
<1>4. /\ TargetFor(policy, control') \in MinRpm..MaxRpm
      /\ Accepted(TargetFor(policy, control'))
  BY <1>3, PolicyDemand DEF IInv
<1>5. /\ target' \in MinRpm..MaxRpm /\ Accepted(target')
      /\ target' >= TargetFor(policy, control')
      /\ target # None => target' >= target - StepRpm * MaxDropSteps
      /\ held' \in Int
      /\ cooling' \in 0..(Confirmation - 1)
  BY <1>1, <1>3, <1>4, StabilizeCovered
<1>6. target' \in Int /\ target' # None /\ held' # None /\ control' # None
  BY <1>3, <1>5, NoneAssumption, BoundsAssumption
<1>7. TypeOK'
  BY <1>1, <1>2, <1>3, <1>5, <1>6 DEF IInv, TypeOK
<1>8. Covered'
  BY <1>1, <1>5, <1>6 DEF Covered, NeverBelowDemand
<1> QED
  BY <1>5, <1>7, <1>8 DEF IInv

\* A fresh controller has no target, so nothing to cover.
LEMMA InitInv == Init => IInv
  BY NoneAssumption, EmptySeq
     DEF Init, Fresh, NoReading, IInv, TypeOK, Covered, NeverBelowDemand,
         FilterSamples, Confirmation

\* So has every later one.
LEMMA NewControllerInv ==
  ASSUME NewController
  PROVE  IInv'
  BY NoneAssumption, EmptySeq
     DEF NewController, NoReading, IInv, TypeOK, Covered, NeverBelowDemand,
         FilterSamples, Confirmation

\* One step of the daemon's controller loses at most MaxDropSteps steps of speed.
BoundedDrop ==
  (outcome' = "targets" /\ outcome = "targets" /\ policy.mode = "curve")
    => target' >= target - MaxDropSteps * StepRpm

\* Whatever the sensors show, a tick keeps the invariant and the bounded drop.
LEMMA TickInv ==
  ASSUME MaxOnGrid, IInv, Tick
  PROVE  IInv' /\ BoundedDrop
<1>1. PICK cpu \in CpuTemps, gpu \in GpuTemps : NextTargets(cpu, gpu)
  BY DEF Tick
<1> DEFINE hottest == Hottest(Snapshot(cpu, gpu))
<1>2. /\ hottest \in Int \cup {None}
      /\ reading' \in [cpu : Int \cup {None}, gpu : Int \cup {None}]
  BY <1>1, ReadingType DEF NextTargets, IInv
<1>3. \/ \E error \in {"unavailable", "critical"} : Raise(error)
      \/ /\ hottest # None /\ Bypass(hottest)
         /\ policy.mode = "fixed" \/ hottest >= EmergencyFullSpeed
      \/ hottest # None /\ Filter(hottest)
  BY <1>1 DEF NextTargets
<1> HIDE DEF hottest
<1>4. ASSUME NEW error \in {"unavailable", "critical"}, Raise(error)
      PROVE  IInv' /\ BoundedDrop
  BY <1>2, <1>4
     DEF Raise, IInv, TypeOK, Covered, NeverBelowDemand, BoundedDrop
<1>5. CASE /\ hottest # None /\ Bypass(hottest)
           /\ policy.mode = "fixed" \/ hottest >= EmergencyFullSpeed
  <2>1. IInv'
    BY <1>2, <1>5, BypassCovered
  <2>2. ASSUME outcome = "targets", policy.mode = "curve"
        PROVE  target' >= target - MaxDropSteps * StepRpm
    <3>1. hottest >= EmergencyFullSpeed
      BY <1>5, <2>2
    <3>2. target' = MaxRpm
      BY <1>5, <3>1 DEF Bypass, TargetFor
    <3>3. target \in MinRpm..MaxRpm
      BY <2>2 DEF IInv, Covered
    <3> QED
      BY <3>2, <3>3, BoundsAssumption DEF MaxDropSteps
  <2> QED
    BY <2>1, <2>2 DEF BoundedDrop
<1>6. CASE hottest # None /\ Filter(hottest)
  <2>1. /\ IInv'
        /\ target # None => target' >= target - StepRpm * MaxDropSteps
    BY <1>2, <1>6, FilterCovered
  <2>2. outcome = "targets" => target # None
    BY DEF IInv, Covered
  <2>3. StepRpm * MaxDropSteps = MaxDropSteps * StepRpm
    BY BoundsAssumption DEF MaxDropSteps
  <2> QED
    BY <2>1, <2>2, <2>3 DEF BoundedDrop
<1> QED
  BY <1>3, <1>4, <1>5, <1>6

\* Every step of the specification does.
LEMMA StepInv ==
  ASSUME MaxOnGrid, IInv, [Next]_vars
  PROVE  IInv' /\ [BoundedDrop]_vars
<1>1. CASE Tick
  BY <1>1, TickInv
<1>2. CASE NewController
  BY <1>2, NewControllerInv DEF BoundedDrop, NewController
<1>3. CASE UNCHANGED vars
  BY <1>3 DEF vars, IInv, TypeOK, Covered, NeverBelowDemand
<1> QED
  BY <1>1, <1>2, <1>3 DEF Next

-----------------------------------------------------------------------------

\* The invariant the theorems below rest on.
THEOREM Invariance ==
  ASSUME MaxOnGrid
  PROVE  Spec => []IInv
<1>1. IInv /\ [Next]_vars => IInv'
  BY StepInv
<1> QED
  BY <1>1, InitInv, PTL DEF Spec

\* The state of the controller is always well formed: in particular the cooling
\* counter never reaches the number of samples it waits for.
THEOREM TypeCorrect ==
  ASSUME MaxOnGrid
  PROVE  Spec => []TypeOK
<1>1. IInv => TypeOK
  BY DEF IInv
<1> QED
  BY <1>1, Invariance, PTL

\* The daemon never commands a target that set_fan_targets would refuse, for
\* every valid policy and every reading.
THEOREM TargetsAlwaysAccepted ==
  ASSUME MaxOnGrid
  PROVE  Spec => []TargetsAccepted
<1>1. IInv => TargetsAccepted
  BY DEF IInv, Covered, TargetsAccepted
<1> QED
  BY <1>1, Invariance, PTL

\* Smoothing, hysteresis and confirmation never keep the fans below what the
\* policy asks for at the filtered temperature.
THEOREM NeverTooSlow ==
  ASSUME MaxOnGrid
  PROVE  Spec => []NeverBelowDemand
<1>1. IInv => NeverBelowDemand
  BY DEF IInv, Covered
<1> QED
  BY <1>1, Invariance, PTL

\* A curve's target falls by at most MaxDropSteps hardware steps per tick.
THEOREM DropsAreBounded ==
  ASSUME MaxOnGrid
  PROVE  Spec => DropBounded
<1>1. IInv /\ [Next]_vars => [BoundedDrop]_vars
  BY StepInv
<1> QED
  BY <1>1, Invariance, PTL DEF Spec, DropBounded, BoundedDrop

-----------------------------------------------------------------------------
(* The last three ticks *)

\* The element k before the last.
Ago(s, k) == s[Len(s) - k]

\* What appending a sample does.
LEMMA AppendSample ==
  ASSUME NEW s \in Seq(Int), NEW x \in Int
  PROVE  /\ Append(s, x) \in Seq(Int) /\ Len(Append(s, x)) = Len(s) + 1
         /\ Append(s, x)[Len(s) + 1] = x
         /\ \A i \in 1..Len(s) : Append(s, x)[i] = s[i]
  BY AppendProperties

\* The deque moves every sample one tick into the past and drops the fourth.
LEMMA PushPast ==
  ASSUME NEW s \in Seq(Int), Len(s) <= 3, NEW x \in Int
  PROVE  /\ Push(s, x) \in Seq(Int)
         /\ Len(Push(s, x)) = IF Len(s) < 3 THEN Len(s) + 1 ELSE 3
         /\ Ago(Push(s, x), 0) = x
         /\ \A k \in 0..1 : k + 1 < Len(Push(s, x)) => Ago(Push(s, x), k + 1) = Ago(s, k)
<1>1. Len(s) \in Nat
  BY LenProperties
<1>2. CASE Len(s) < 3
  <2> DEFINE q == Append(s, x)
  <2>1. /\ q \in Seq(Int) /\ Len(q) = Len(s) + 1 /\ q[Len(s) + 1] = x
        /\ \A i \in 1..Len(s) : q[i] = s[i]
    BY AppendProperties
  <2>2. Push(s, x) = q
    BY <1>2 DEF Push, FilterSamples
  <2> HIDE DEF q
  <2>3. ASSUME NEW k \in 0..1, k + 1 < Len(q) PROVE q[Len(q) - (k + 1)] = s[Len(s) - k]
    <3> DEFINE n == Len(s)
    <3>1. n \in Nat /\ Len(q) = n + 1 /\ \A i \in 1..n : q[i] = s[i]
      BY <1>1, <2>1
    <3> HIDE DEF n
    <3>2. (n + 1) - (k + 1) = n - k /\ n - k \in 1..n
      BY <2>3, <3>1
    <3> QED
      BY <3>1, <3>2 DEF n
  <2> QED
    BY <1>1, <1>2, <2>1, <2>2, <2>3 DEF Ago
<1>3. CASE Len(s) = 3
  <2> DEFINE r == Tail(s)
             q == Append(r, x)
  <2>1. r \in Seq(Int) /\ Len(r) = 2 /\ r[1] = s[2] /\ r[2] = s[3]
    <3>1. s # <<>>
      BY <1>3, EmptySeq
    <3>2. r \in Seq(Int) /\ Len(r) = 2
      BY <1>3, <3>1, HeadTailProperties
    <3>3. \A i \in 1..2 : r[i] = s[i + 1]
      BY <1>3, <3>1, <3>2, HeadTailProperties
    <3> HIDE DEF r
    <3> QED
      BY <3>2, <3>3
  <2> HIDE DEF r
  <2>2. q \in Seq(Int) /\ Len(q) = 3 /\ q[3] = x /\ q[1] = r[1] /\ q[2] = r[2]
    <3>1. /\ q \in Seq(Int) /\ Len(q) = Len(r) + 1 /\ q[Len(r) + 1] = x
          /\ \A i \in 1..Len(r) : q[i] = r[i]
      BY <2>1, AppendSample
    <3>2. Len(q) = 3 /\ q[3] = x /\ \A i \in 1..2 : q[i] = r[i]
      BY <2>1, <3>1
    <3> QED
      BY <3>1, <3>2
  <2>3. Push(s, x) = q
    BY <1>3 DEF Push, FilterSamples, r
  <2> HIDE DEF q
  <2>4. Ago(q, 0) = x /\ Ago(q, 1) = Ago(s, 0) /\ Ago(q, 2) = Ago(s, 1)
    BY <1>3, <2>1, <2>2 DEF Ago
  <2> QED
    BY <1>3, <2>2, <2>3, <2>4
<1>4. Len(s) < 3 \/ Len(s) = 3
  <2> DEFINE n == Len(s)
  <2>1. n \in Nat /\ n <= 3
    BY <1>1
  <2> HIDE DEF n
  <2>2. n < 3 \/ n = 3
    BY <2>1
  <2> QED
    BY <2>2 DEF n
<1> QED
  BY <1>2, <1>3, <1>4

\* The same for each of the last three elements.
LEMMA PushAgo ==
  ASSUME NEW s \in Seq(Int), Len(s) <= 3, NEW x \in Int, NEW q, q = Push(s, x)
  PROVE  /\ q \in Seq(Int) /\ Len(q) \in 1..3 /\ Len(s) \in 0..3
         /\ Len(q) = IF Len(s) < 3 THEN Len(s) + 1 ELSE 3
         /\ 1 < Len(q) <=> 0 < Len(s)
         /\ 2 < Len(q) <=> 1 < Len(s)
         /\ Ago(q, 0) = x
         /\ 0 < Len(s) => Ago(q, 1) = Ago(s, 0)
         /\ 1 < Len(s) => Ago(q, 2) = Ago(s, 1)
<1> DEFINE n == Len(s)
           m == Len(q)
<1>1. n \in Nat /\ n <= 3
  BY LenProperties
<1>2. /\ q \in Seq(Int) /\ m = IF n < 3 THEN n + 1 ELSE 3
      /\ Ago(q, 0) = x
      /\ 0 + 1 < m => Ago(q, 0 + 1) = Ago(s, 0)
      /\ 1 + 1 < m => Ago(q, 1 + 1) = Ago(s, 1)
  BY PushPast
<1> HIDE DEF n, m
<1>3. /\ m \in 1..3 /\ n \in 0..3
      /\ 1 < m <=> 0 < n
      /\ 2 < m <=> 1 < n
  BY <1>1, <1>2
<1>4. 0 < n => Ago(q, 1) = Ago(s, 0)
  BY <1>2, <1>3
<1>5. 1 < n => Ago(q, 2) = Ago(s, 1)
  BY <1>2, <1>3
<1> QED
  BY <1>2, <1>3, <1>4, <1>5 DEF n, m

\* What a filtered tick does to a target: it sets the first, keeps or raises
\* it, counts a confirmation, or lowers it after the last one.
LEMMA FilteredKinds ==
  ASSUME MaxOnGrid, IInv, NEW t \in Int, Filter(t)
  PROVE  LET desired == TargetFor(policy, control')
         IN  \/ target = None /\ target' = desired /\ cooling' = cooling
             \/ target # None /\ target' = desired /\ desired > target /\ cooling' = 0
             \/ target # None /\ target' = target /\ cooling' = 0
             \/ target # None /\ target' = target /\ cooling' = cooling + 1
             \/ /\ target # None /\ target' < target /\ cooling' = 0 /\ cooling = 2
                /\ control' <= held - Hysteresis
                /\ target' >= target - StepRpm * MaxDropSteps
<1> DEFINE desired == TargetFor(policy, control')
<1>1. /\ Stabilize(control', desired) /\ control' = MedianHigh(temperatures')
      /\ temperatures' = Push(temperatures, t) /\ policy' = policy
  BY DEF Filter
<1>2. control' \in Int
  BY <1>1, PushType, MedianType DEF IInv, TypeOK
<1>3. desired \in MinRpm..MaxRpm /\ Accepted(desired)
  BY <1>2, PolicyDemand DEF IInv
<1> HIDE DEF desired
<1>4. /\ target = None <=> held = None
      /\ target # None => target \in Int /\ Accepted(target)
      /\ cooling \in 0..2
  BY BoundsAssumption DEF IInv, Covered, TypeOK, Confirmation
<1>5. CASE First(control', desired)
  BY <1>4, <1>5 DEF First, desired
<1>6. CASE target # None /\ Rise(control', desired)
  BY <1>6 DEF Rise, desired
<1>7. CASE target # None /\ (Level(desired) \/ NotCoolEnough(control', desired))
  BY <1>7 DEF Level, NotCoolEnough
<1>8. CASE target # None /\ Confirming(control', desired)
  BY <1>8 DEF Confirming
<1>9. CASE target # None /\ Drop(control', desired)
  <2>1. cooling = 2
    BY <1>4, <1>9 DEF Drop, Confirmation
  <2>2. /\ desired < target /\ control' <= held - Hysteresis /\ cooling' = 0
        /\ target' = Quantize(Larger(desired, target - StepRpm * MaxDropSteps))
    BY <1>9 DEF Drop
  <2>3. target' = Larger(desired, target - StepRpm * MaxDropSteps)
    BY <1>3, <1>4, <1>9, <2>2, DropExact, BoundsAssumption
  <2>4. StepRpm * MaxDropSteps \in Nat \ {0} /\ desired \in Int /\ target \in Int
    BY <1>3, <1>4, <1>9, BoundsAssumption DEF MaxDropSteps
  <2>5. target' < target /\ target' >= target - StepRpm * MaxDropSteps
    BY <2>2, <2>3, <2>4 DEF Larger
  <2> QED
    BY <1>9, <2>1, <2>2, <2>5
<1> QED
  BY <1>1, <1>5, <1>6, <1>7, <1>8, <1>9 DEF Stabilize

\* As many targets as readings are remembered, none before the first, and there
\* are fewer confirmations than readings.
Remembered ==
  /\ recent \in Seq(Int) /\ Len(recent) <= 3
  /\ commanded \in Seq(Int) /\ Len(commanded) = Len(recent)
  /\ target = None <=> Len(recent) = 0
  /\ target = None => cooling = 0 /\ Len(temperatures) = 0
  /\ target # None => cooling < Len(recent)

\* After a reading at the emergency threshold the fans stay at full speed, with
\* no more confirmations than ticks since.
FullSpeedAfter ==
  \A k \in 0..2 : k < Len(recent) /\ Ago(recent, k) >= EmergencyFullSpeed
                     => target = MaxRpm /\ cooling <= k

\* The readings since the last one at the threshold are those of the filter.
SameReadings ==
  /\ \A k \in 0..2 :
       k < Len(recent) /\ (\A j \in 0..k : Ago(recent, j) < EmergencyFullSpeed)
         => k < Len(temperatures) /\ Ago(temperatures, k) = Ago(recent, k)
  /\ Len(recent) < 3 /\ (\A j \in 0..1 : j < Len(recent) => Ago(recent, j) < EmergencyFullSpeed)
       => Len(temperatures) = Len(recent)
  /\ outcome = "targets" /\ Ago(recent, 0) < EmergencyFullSpeed
       => control = MedianHigh(temperatures)

\* The target has not moved since the confirmations began, and has lost one
\* limited drop at most in the ticks remembered.
SlowDescent ==
  /\ \A k \in 0..2 : k < Len(recent) /\ k <= cooling => Ago(commanded, k) = target
  /\ \A k \in 0..2 : k < Len(recent) => target >= Ago(commanded, k) - StepRpm * MaxDropSteps

HistInv ==
  Remembered /\ (policy.mode = "curve" => FullSpeedAfter /\ SameReadings /\ SlowDescent)

\* A tick that commands a target is remembered.
LEMMA TickRemembered ==
  ASSUME IInv, IInv', Remembered, NEW h \in Int,
         recent' = Push(recent, h), commanded' = Push(commanded, target'), target' # None,
         cooling' \in {0, cooling} \/ (target # None /\ cooling' = cooling + 1)
  PROVE  Remembered'
<1> DEFINE n == Len(recent)
           m == Len(recent')
<1>1. target' \in Int
  BY DEF IInv, TypeOK
<1>2. /\ recent' \in Seq(Int) /\ m \in 1..3 /\ n \in 0..3
      /\ m = IF n < 3 THEN n + 1 ELSE 3
  BY PushAgo DEF Remembered
<1>3. commanded' \in Seq(Int) /\ Len(commanded') = m
  BY <1>1, <1>2, PushAgo DEF Remembered
<1>4. cooling \in 0..2 /\ cooling' \in 0..2
  BY DEF IInv, TypeOK, Confirmation
<1>5. /\ target = None => cooling = 0
      /\ target # None => cooling < n
  BY DEF Remembered
<1> HIDE DEF n, m
<1>6. cooling' < m
  BY <1>2, <1>4, <1>5
<1>7. m # 0 /\ m <= 3
  BY <1>2
<1> QED
  BY <1>2, <1>3, <1>6, <1>7 DEF Remembered, m

\* What a filtered tick knows of the past.
LEMMA FilterPast ==
  ASSUME MaxOnGrid, IInv, HistInv, policy.mode = "curve", NEW h \in Int, Filter(h),
         recent' = Push(recent, h)
  PROVE  /\ policy' = policy /\ control' = MedianHigh(temperatures') /\ outcome' = "targets"
         /\ temperatures' = Push(temperatures, h)
         /\ cooling \in 0..2 /\ (target # None => target \in MinRpm..MaxRpm /\ target \in Int)
         /\ Remembered /\ FullSpeedAfter /\ SameReadings /\ SlowDescent
         /\ Len(temperatures) <= 3 /\ temperatures \in Seq(Int)
  BY BoundsAssumption DEF Filter, HistInv, IInv, TypeOK, Covered, FilterSamples, Confirmation

LEMMA FilterFullSpeed ==
  ASSUME MaxOnGrid, IInv, IInv', HistInv, policy.mode = "curve",
         NEW h \in Int, h < EmergencyFullSpeed, Filter(h), recent' = Push(recent, h)
  PROVE  FullSpeedAfter'
<1> DEFINE n == Len(recent)
           m == Len(recent')
<1>1. /\ Remembered /\ FullSpeedAfter /\ cooling \in 0..2
      /\ target # None => target \in MinRpm..MaxRpm
      /\ target' \in MinRpm..MaxRpm
  BY FilterPast DEF IInv, Covered
<1>2. /\ m \in 1..3 /\ n \in 0..3 /\ Ago(recent', 0) = h
      /\ 1 < m <=> 0 < n
      /\ 2 < m <=> 1 < n
      /\ 0 < n => Ago(recent', 1) = Ago(recent, 0)
      /\ 1 < n => Ago(recent', 2) = Ago(recent, 1)
  BY <1>1, PushAgo DEF Remembered
<1>3. ASSUME NEW k \in 0..1, k < n, Ago(recent, k) >= EmergencyFullSpeed
      PROVE  target' = MaxRpm /\ cooling' <= k + 1
  <2>1. target = MaxRpm /\ cooling <= k
    BY <1>1, <1>3 DEF FullSpeedAfter
  <2>2. target # None /\ cooling # 2
    BY <1>1, <2>1, BoundsAssumption, NoneAssumption
  <2>3. \/ target' > target /\ cooling' = 0
        \/ target' = target /\ cooling' \in {0, cooling + 1}
    BY <2>2, FilteredKinds
  <2> QED
    BY <1>1, <2>1, <2>3, BoundsAssumption
<1> HIDE DEF n, m
<1>4. ASSUME NEW k \in 0..2, k < m, Ago(recent', k) >= EmergencyFullSpeed
      PROVE  target' = MaxRpm /\ cooling' <= k
  <2>1. k # 0
    BY <1>2, <1>4 DEF EmergencyFullSpeed
  <2>2. CASE k = 1
    <3>1. 0 < n /\ Ago(recent, 0) >= EmergencyFullSpeed
      BY <1>2, <1>4, <2>2
    <3>2. target' = MaxRpm /\ cooling' <= 0 + 1
      BY <1>3, <3>1
    <3> QED
      BY <2>2, <3>2
  <2>3. CASE k = 2
    <3>1. 1 < n /\ Ago(recent, 1) >= EmergencyFullSpeed
      BY <1>2, <1>4, <2>3
    <3>2. target' = MaxRpm /\ cooling' <= 1 + 1
      BY <1>3, <3>1
    <3> QED
      BY <2>3, <3>2
  <2> QED
    BY <2>1, <2>2, <2>3
<1> QED
  BY <1>4 DEF FullSpeedAfter, m

LEMMA FilterSameReadings ==
  ASSUME MaxOnGrid, IInv, HistInv, policy.mode = "curve",
         NEW h \in Int, h < EmergencyFullSpeed, Filter(h), recent' = Push(recent, h)
  PROVE  SameReadings'
<1> DEFINE n == Len(recent)
           m == Len(recent')
           e == Len(temperatures)
           f == Len(temperatures')
           Cool(k) == Ago(recent, k) < EmergencyFullSpeed
<1>1. /\ Remembered /\ SameReadings
      /\ temperatures \in Seq(Int) /\ e <= 3 /\ temperatures' = Push(temperatures, h)
      /\ control' = MedianHigh(temperatures')
  BY FilterPast
<1>2. /\ m \in 1..3 /\ n \in 0..3 /\ Ago(recent', 0) = h
      /\ m = IF n < 3 THEN n + 1 ELSE 3
      /\ 1 < m <=> 0 < n
      /\ 2 < m <=> 1 < n
      /\ 0 < n => Ago(recent', 1) = Ago(recent, 0)
      /\ 1 < n => Ago(recent', 2) = Ago(recent, 1)
  <2>1. recent \in Seq(Int) /\ Len(recent) <= 3
    BY <1>1 DEF Remembered
  <2> QED
    BY <2>1, PushAgo
<1>3. /\ f \in 1..3 /\ e \in 0..3 /\ Ago(temperatures', 0) = h
      /\ f = IF e < 3 THEN e + 1 ELSE 3
      /\ 1 < f <=> 0 < e
      /\ 2 < f <=> 1 < e
      /\ 0 < e => Ago(temperatures', 1) = Ago(temperatures, 0)
      /\ 1 < e => Ago(temperatures', 2) = Ago(temperatures, 1)
  BY <1>1, PushAgo
<1>4. /\ 0 < n /\ Cool(0) => 0 < e /\ Ago(temperatures, 0) = Ago(recent, 0)
      /\ 1 < n /\ Cool(0) /\ Cool(1) => 1 < e /\ Ago(temperatures, 1) = Ago(recent, 1)
  <2>1. 0 < n /\ Cool(0) => 0 < e /\ Ago(temperatures, 0) = Ago(recent, 0)
    <3>1. Cool(0) => \A j \in 0..0 : Cool(j)
      OBVIOUS
    <3> QED
      BY <1>1, <3>1 DEF SameReadings
  <2>2. 1 < n /\ Cool(0) /\ Cool(1) => 1 < e /\ Ago(temperatures, 1) = Ago(recent, 1)
    <3>1. Cool(0) /\ Cool(1) => \A j \in 0..1 : Cool(j)
      <4>1. \A j \in 0..1 : j = 0 \/ j = 1
        OBVIOUS
      <4> QED
        BY <4>1
    <3> QED
      BY <1>1, <3>1 DEF SameReadings
  <2> QED
    BY <2>1, <2>2
<1>5. /\ n = 0 => e = 0
      /\ n = 1 /\ Cool(0) => e = 1
  <2>1. n = 0 => e = 0
    BY <1>1 DEF Remembered
  <2>2. n = 1 /\ Cool(0) => e = 1
    <3>1. n = 1 /\ Cool(0) => \A j \in 0..1 : j < n => Cool(j)
      OBVIOUS
    <3> QED
      BY <1>1, <3>1 DEF SameReadings
  <2> QED
    BY <2>1, <2>2
<1> HIDE DEF n, m, e, f
<1>6. ASSUME NEW k \in 0..2, k < m, \A j \in 0..k : Ago(recent', j) < EmergencyFullSpeed
      PROVE  k < f /\ Ago(temperatures', k) = Ago(recent', k)
  <2>1. CASE k = 0
    BY <1>2, <1>3, <2>1
  <2>2. CASE k = 1
    <3>1. 0 < n /\ Cool(0)
      BY <1>2, <1>6, <2>2
    <3> QED
      BY <1>2, <1>3, <1>4, <2>2, <3>1
  <2>3. CASE k = 2
    <3>1. Ago(recent', 1) < EmergencyFullSpeed /\ Ago(recent', 2) < EmergencyFullSpeed
      BY <1>6, <2>3
    <3>2. 1 < n /\ Cool(0) /\ Cool(1)
      BY <1>2, <1>6, <2>3, <3>1
    <3> QED
      BY <1>2, <1>3, <1>4, <2>3, <3>2
  <2> QED
    BY <2>1, <2>2, <2>3
<1>7. ASSUME m < 3, \A j \in 0..1 : j < m => Ago(recent', j) < EmergencyFullSpeed
      PROVE  f = m
  <2>1. n = 0 \/ n = 1
    BY <1>2, <1>7
  <2>2. n = 1 => Cool(0)
    BY <1>2, <1>7
  <2> QED
    BY <1>2, <1>3, <1>5, <2>1, <2>2
<1> QED
  BY <1>1, <1>6, <1>7 DEF SameReadings, m, f

\* A tick that only lowers the target after two confirmations keeps the pace.
LEMMA DescentStep ==
  ASSUME IInv, IInv', Remembered, SlowDescent,
         NEW h \in Int, recent' = Push(recent, h), commanded' = Push(commanded, target'),
         target' \in Int,
         \/ target = None /\ cooling' = 0
         \/ target # None /\ target' >= target /\ cooling' = 0
         \/ target # None /\ target' = target /\ cooling' = cooling + 1
         \/ /\ target # None /\ target' >= target - StepRpm * MaxDropSteps
            /\ cooling' = 0 /\ cooling = 2
  PROVE  SlowDescent'
<1> DEFINE n == Len(commanded)
           m == Len(commanded')
           d == StepRpm * MaxDropSteps
<1>1. /\ Remembered /\ SlowDescent /\ cooling \in 0..2
      /\ target # None => target \in Int
      /\ target' \in Int /\ d \in Nat
  BY BoundsAssumption DEF IInv, TypeOK, Covered, MaxDropSteps, Confirmation
<1>0. /\ recent \in Seq(Int) /\ commanded \in Seq(Int)
      /\ n = Len(recent) /\ Len(recent) <= 3
  BY <1>1 DEF Remembered
<1>2. /\ n \in 0..3
      /\ m \in 1..3 /\ Ago(commanded', 0) = target'
      /\ 1 < m <=> 0 < n
      /\ 2 < m <=> 1 < n
      /\ 0 < n => Ago(commanded', 1) = Ago(commanded, 0)
      /\ 1 < n => Ago(commanded', 2) = Ago(commanded, 1)
  <2>1. commanded \in Seq(Int) /\ Len(commanded) <= 3 /\ target' \in Int
    BY <1>0, <1>1
  <2> QED
    BY <2>1, PushAgo
<1>12. m = Len(recent')
  <2>1. Len(recent') = IF Len(recent) < 3 THEN Len(recent) + 1 ELSE 3
    BY <1>0, PushAgo
  <2>2. m = IF n < 3 THEN n + 1 ELSE 3
    <3>1. n <= 3
      BY <1>0
    <3> QED
      BY <1>0, <1>1, <3>1, PushAgo
  <2> QED
    BY <1>0, <2>1, <2>2
<1>3. /\ 0 < n => Ago(commanded, 0) \in Int
      /\ 1 < n => Ago(commanded, 1) \in Int
  <2>1. \A i \in 1..n : commanded[i] \in Int
    BY <1>0, ElementOfSeq
  <2>2. 0 < n => n - 0 \in 1..n
    BY <1>2
  <2>3. 1 < n => n - 1 \in 1..n
    BY <1>2
  <2> QED
    BY <2>1, <2>2, <2>3 DEF Ago
<1>4. /\ 0 < n => Ago(commanded, 0) = target
      /\ 1 < n /\ 1 <= cooling => Ago(commanded, 1) = target
      /\ 1 < n => target >= Ago(commanded, 1) - d
  BY <1>0, <1>1, <1>2 DEF SlowDescent
<1>5. 0 < n <=> target # None
  BY <1>0, <1>1, <1>2 DEF Remembered
<1>6. \/ target = None /\ cooling' = 0
      \/ target # None /\ target' >= target /\ cooling' = 0
      \/ target # None /\ target' = target /\ cooling' = cooling + 1
      \/ target # None /\ target' >= target - d /\ cooling' = 0 /\ cooling = 2
  OBVIOUS
<1> HIDE DEF n, m, d
<1>7. /\ Ago(commanded', 0) = target'
      /\ 1 < m /\ 1 <= cooling' => Ago(commanded', 1) = target'
      /\ 2 < m /\ 2 <= cooling' => Ago(commanded', 2) = target'
  BY <1>1, <1>2, <1>4, <1>5, <1>6
<1>8. /\ target' >= Ago(commanded', 0) - d
      /\ 1 < m => target' >= Ago(commanded', 1) - d
      /\ 2 < m => target' >= Ago(commanded', 2) - d
  <2>1. target' >= Ago(commanded', 0) - d
    BY <1>1, <1>2
  <2>2. 1 < m => target' >= Ago(commanded', 1) - d
    BY <1>1, <1>2, <1>3, <1>4, <1>5, <1>6
  <2>3. 2 < m => target' >= Ago(commanded', 2) - d
    BY <1>1, <1>2, <1>3, <1>4, <1>5, <1>6
  <2> QED
    BY <2>1, <2>2, <2>3
<1>9. \A k \in 0..2 : k = 0 \/ k = 1 \/ k = 2
  OBVIOUS
<1>10. \A k \in 0..2 : k < m /\ k <= cooling' => Ago(commanded', k) = target'
  BY <1>7, <1>9
<1>11. \A k \in 0..2 : k < m => target' >= Ago(commanded', k) - d
  BY <1>8, <1>9
<1> QED
  BY <1>10, <1>11, <1>12 DEF SlowDescent, d

LEMMA FilterSlowDescent ==
  ASSUME MaxOnGrid, IInv, IInv', HistInv, policy.mode = "curve",
         NEW h \in Int, h < EmergencyFullSpeed, Filter(h), recent' = Push(recent, h),
         commanded' = Push(commanded, target')
  PROVE  SlowDescent'
<1>1. Remembered /\ SlowDescent /\ (target # None => target \in Int)
  BY FilterPast
<1>2. target' \in Int
  BY FilterPast, BoundsAssumption DEF IInv, Covered
<1>3. target = None => cooling = 0
  BY <1>1 DEF Remembered
<1>4. \/ target = None /\ cooling' = 0
      \/ target # None /\ target' >= target /\ cooling' = 0
      \/ target # None /\ target' = target /\ cooling' = cooling + 1
      \/ /\ target # None /\ target' >= target - StepRpm * MaxDropSteps
         /\ cooling' = 0 /\ cooling = 2
  BY <1>1, <1>2, <1>3, FilteredKinds
<1> QED
  BY <1>1, <1>2, <1>4, DescentStep

\* A tick on the curve at or above the emergency threshold.
LEMMA EmergencyHist ==
  ASSUME IInv, IInv', Remembered, SlowDescent, NEW h \in Int, h >= EmergencyFullSpeed,
         Bypass(h), recent' = Push(recent, h), commanded' = Push(commanded, target')
  PROVE  FullSpeedAfter' /\ SameReadings' /\ SlowDescent'
<1>1. target' = MaxRpm /\ cooling' = 0 /\ outcome' = "targets"
  BY DEF Bypass, TargetFor
<1>2. Len(recent') \in 1..3 /\ Ago(recent', 0) = h
  BY PushAgo DEF Remembered
<1>3. FullSpeedAfter'
  BY <1>1 DEF FullSpeedAfter
<1>4. SameReadings'
  <2>1. ~(Ago(recent', 0) < EmergencyFullSpeed)
    BY <1>2 DEF EmergencyFullSpeed
  <2>2. 0 \in 0..1 /\ 0 < Len(recent') /\ \A k \in 0..2 : 0 \in 0..k
    BY <1>2
  <2> QED
    BY <2>1, <2>2 DEF SameReadings
<1>5. SlowDescent'
  <2>1. target' \in Int /\ (target # None => target \in Int /\ target' >= target)
    BY <1>1, BoundsAssumption DEF IInv, Covered
  <2> QED
    BY <1>1, <2>1, DescentStep
<1> QED
  BY <1>3, <1>4, <1>5

\* A tick that raises commands nothing and is not remembered.
LEMMA RaiseHist ==
  ASSUME HistInv, NEW error \in {"unavailable", "critical"}, Raise(error),
         UNCHANGED <<recent, commanded>>
  PROVE  HistInv'
<1>1. /\ UNCHANGED <<policy, temperatures, held, target, cooling, control, recent, commanded>>
      /\ outcome' # "targets"
  BY DEF Raise
<1>2. Remembered' = Remembered /\ FullSpeedAfter' = FullSpeedAfter
      /\ SlowDescent' = SlowDescent /\ (SameReadings => SameReadings')
  BY <1>1 DEF Remembered, FullSpeedAfter, SlowDescent, SameReadings, Ago
<1> QED
  BY <1>1, <1>2 DEF HistInv

LEMMA TickHist ==
  ASSUME MaxOnGrid, IInv, HistInv, MCTick
  PROVE  HistInv'
<1>1. Tick /\ IInv'
  BY TickInv DEF MCTick
<1>2. PICK cpu \in CpuTemps, gpu \in GpuTemps : NextTargets(cpu, gpu)
  BY <1>1 DEF Tick
<1> DEFINE h == Hottest(Snapshot(cpu, gpu))
<1>3. /\ h \in Int \cup {None}
      /\ reading'.cpu = cpu /\ reading'.gpu = gpu
  BY <1>2, ReadingType DEF NextTargets, IInv
<1>4. \/ \E error \in {"unavailable", "critical"} : Raise(error)
      \/ /\ h # None /\ Bypass(h)
         /\ policy.mode = "fixed" \/ h >= EmergencyFullSpeed
      \/ h # None /\ policy.mode = "curve" /\ h < EmergencyFullSpeed /\ Filter(h)
  BY <1>2 DEF NextTargets
<1>5. IF outcome' = "targets"
      THEN recent' = Push(recent, h) /\ commanded' = Push(commanded, target')
      ELSE UNCHANGED <<recent, commanded>>
  BY <1>3 DEF MCTick
<1> HIDE DEF h
<1>6. outcome' = "targets" => target' # None
  BY <1>1 DEF IInv, Covered
<1>7. ASSUME NEW error \in {"unavailable", "critical"}, Raise(error) PROVE HistInv'
  <2>1. outcome' # "targets"
    BY <1>7 DEF Raise
  <2> QED
    BY <1>5, <1>7, <2>1, RaiseHist
<1>8. CASE h # None /\ Bypass(h) /\ (policy.mode = "fixed" \/ h >= EmergencyFullSpeed)
  <2>1. /\ outcome' = "targets" /\ cooling' = 0 /\ policy' = policy /\ h \in Int
        /\ recent' = Push(recent, h) /\ commanded' = Push(commanded, target')
    BY <1>3, <1>5, <1>8 DEF Bypass
  <2>2. Remembered'
    BY <1>1, <1>6, <2>1, TickRemembered DEF HistInv
  <2>3. CASE policy.mode = "curve"
    <3>1. Remembered /\ SlowDescent /\ h >= EmergencyFullSpeed
      BY <1>8, <2>3 DEF HistInv
    <3> QED
      BY <1>1, <1>8, <2>1, <2>2, <3>1, EmergencyHist DEF HistInv
  <2> QED
    BY <2>1, <2>2, <2>3 DEF HistInv
<1>9. CASE h # None /\ policy.mode = "curve" /\ h < EmergencyFullSpeed /\ Filter(h)
  <2>1. /\ outcome' = "targets" /\ policy' = policy /\ h \in Int
        /\ recent' = Push(recent, h) /\ commanded' = Push(commanded, target')
    BY <1>3, <1>5, <1>9 DEF Filter
  <2>2. cooling' \in {0, cooling} \/ (target # None /\ cooling' = cooling + 1)
    BY <1>9, <2>1, FilteredKinds
  <2>3. Remembered'
    BY <1>1, <1>6, <2>1, <2>2, TickRemembered DEF HistInv
  <2>4. FullSpeedAfter'
    BY <1>1, <1>9, <2>1, FilterFullSpeed
  <2>5. SameReadings'
    BY <1>9, <2>1, FilterSameReadings
  <2>6. SlowDescent'
    BY <1>1, <1>9, <2>1, FilterSlowDescent
  <2> QED
    BY <2>3, <2>4, <2>5, <2>6 DEF HistInv
<1> QED
  BY <1>4, <1>7, <1>8, <1>9

\* The controller with its history takes the steps of the controller.
LEMMA MCStep == [MCNext]_mcvars => [Next]_vars
  BY DEF MCNext, MCTick, MCNewController, Settle, mcvars, Next

LEMMA HistStep ==
  ASSUME MaxOnGrid, IInv, HistInv, [MCNext]_mcvars
  PROVE  HistInv'
<1>1. CASE MCNewController
  <2>1. /\ recent' = <<>> /\ commanded' = <<>> /\ temperatures' = <<>>
        /\ target' = None /\ cooling' = 0 /\ outcome' = "fresh"
    BY <1>1 DEF MCNewController, NewController
  <2>2. /\ recent' \in Seq(Int) /\ Len(recent') = 0 /\ commanded' \in Seq(Int)
        /\ Len(commanded') = 0 /\ Len(temperatures') = 0
    BY <2>1
  <2> QED
    BY <2>1, <2>2 DEF HistInv, Remembered, FullSpeedAfter, SameReadings, SlowDescent
<1>2. CASE Settle \/ UNCHANGED mcvars
  BY <1>2 DEF Settle, mcvars, vars, hist, HistInv, Remembered, FullSpeedAfter, SameReadings,
     SlowDescent, Ago
<1> QED
  BY <1>1, <1>2, TickHist DEF MCNext

LEMMA InitHist == MCInit => HistInv
<1> SUFFICES ASSUME MCInit PROVE HistInv
  OBVIOUS
<1>1. /\ recent = <<>> /\ commanded = <<>> /\ temperatures = <<>>
      /\ target = None /\ cooling = 0 /\ outcome = "fresh"
  BY DEF MCInit, Init, Fresh
<1>2. /\ recent \in Seq(Int) /\ Len(recent) = 0 /\ commanded \in Seq(Int)
      /\ Len(commanded) = 0 /\ Len(temperatures) = 0
  BY <1>1
<1> QED
  BY <1>1, <1>2 DEF HistInv, Remembered, FullSpeedAfter, SameReadings, SlowDescent

LEMMA HistAlways ==
  ASSUME MaxOnGrid
  PROVE  MCSpec => [](IInv /\ HistInv)
<1>1. MCInit => IInv /\ HistInv
  BY InitInv, InitHist DEF MCInit
<1>2. IInv /\ HistInv /\ [MCNext]_mcvars => (IInv /\ HistInv)'
  BY MCStep, StepInv, HistStep
<1> QED
  BY <1>1, <1>2, PTL DEF MCSpec

-----------------------------------------------------------------------------
(* Heat, pace and cooling *)

\* Without a reading at the threshold among them, the last three readings are
\* the samples of the filter.
LEMMA SameDeque ==
  ASSUME TypeOK, Remembered, SameReadings,
         \A k \in 0..2 : k < Len(recent) => Ago(recent, k) < EmergencyFullSpeed
  PROVE  temperatures = recent
<1> DEFINE n == Len(recent)
           e == Len(temperatures)
<1>1. /\ recent \in Seq(Int) /\ temperatures \in Seq(Int)
      /\ n \in Nat /\ n <= 3 /\ e \in Nat /\ e <= 3
  BY LenProperties DEF TypeOK, Remembered, FilterSamples
<1>2. ASSUME NEW k \in 0..2, k < n PROVE k < e /\ Ago(temperatures, k) = Ago(recent, k)
  <2> HIDE DEF n
  <2>1. \A j \in 0..k : j \in 0..2 /\ j < n
    BY <1>1, <1>2
  <2> USE DEF n
  <2> QED
    BY <1>2, <2>1 DEF SameReadings
<1>3. n < 3 => e = n
  <2>1. \A j \in 0..1 : j \in 0..2
    OBVIOUS
  <2> QED
    BY <2>1 DEF SameReadings
<1>4. n = 3 => 2 < e
  BY <1>2
<1> HIDE DEF n, e
<1>5. e = n
  BY <1>1, <1>3, <1>4
<1>6. ASSUME NEW i \in 1..n PROVE temperatures[i] = recent[i]
  <2>1. n - i \in 0..2 /\ n - i < n /\ n - (n - i) = i
    BY <1>1, <1>6
  <2>2. Ago(temperatures, n - i) = Ago(recent, n - i)
    BY <1>2, <2>1
  <2> QED
    BY <1>5, <2>1, <2>2 DEF Ago, n, e
<1> QED
  BY <1>1, <1>5, <1>6, SeqEqual DEF n, e

\* The daemon never runs the fans slower than two of the last three readings call
\* for, although a reading at the emergency threshold never enters the filter:
\* after one, full speed outlasts its stay among the last three (next_targets).
THEOREM HeatAlwaysReachesFans ==
  ASSUME MaxOnGrid
  PROVE  MCSpec => []HeatReachesFans
<1>1. IInv /\ HistInv => HeatReachesFans
  <2> SUFFICES ASSUME IInv, HistInv, outcome = "targets", policy.mode = "curve"
               PROVE  target >= TargetFor(policy, MedianHigh(recent))
    BY DEF HeatReachesFans
  <2>1. /\ Remembered /\ FullSpeedAfter /\ SameReadings /\ TypeOK
        /\ target # None /\ NeverBelowDemand
    BY DEF HistInv, IInv, Covered
  <2>2. /\ recent \in Seq(Int) /\ 1 <= Len(recent) /\ Len(recent) <= FilterSamples
    BY <2>1, LenProperties DEF Remembered, FilterSamples
  <2>3. TargetFor(policy, MedianHigh(recent)) \in MinRpm..MaxRpm
    BY <2>1, <2>2, MedianType, PolicyDemand
  <2>4. CASE \E k \in 0..2 : k < Len(recent) /\ Ago(recent, k) >= EmergencyFullSpeed
    <3>1. target = MaxRpm
      BY <2>1, <2>4 DEF FullSpeedAfter
    <3> QED
      BY <2>3, <3>1, BoundsAssumption
  <2>5. CASE \A k \in 0..2 : k < Len(recent) => ~(Ago(recent, k) >= EmergencyFullSpeed)
    <3>1. ASSUME NEW k \in 0..2, k < Len(recent)
          PROVE  Ago(recent, k) < EmergencyFullSpeed
      <4> DEFINE n == Len(recent)
      <4>1. n \in Nat /\ k < n /\ \A i \in 1..n : recent[i] \in Int
        BY <2>2, <3>1, LenProperties, ElementOfSeq
      <4> HIDE DEF n
      <4>2. n - k \in 1..n
        BY <4>1
      <4>3. Ago(recent, k) \in Int
        BY <4>1, <4>2 DEF Ago, n
      <4> QED
        BY <2>5, <3>1, <4>3 DEF EmergencyFullSpeed
    <3>2. temperatures = recent
      BY <2>1, <3>1, SameDeque
    <3>3. 0 < Len(recent)
      BY <2>2, LenProperties
    <3>4. control = MedianHigh(temperatures)
      BY <2>1, <3>1, <3>3 DEF SameReadings
    <3> QED
      BY <2>1, <3>2, <3>4 DEF NeverBelowDemand
  <2> QED
    BY <2>4, <2>5
<1> QED
  BY <1>1, HistAlways, PTL

\* Over any three ticks a curve's target falls by at most MaxDropSteps steps: a
\* drop starts the confirmations of the next one from zero.
THEOREM DropRateHolds ==
  ASSUME MaxOnGrid
  PROVE  MCSpec => []DropRate
<1>1. IInv /\ HistInv => DropRate
  <2> SUFFICES ASSUME IInv, HistInv, policy.mode = "curve", NEW i \in DOMAIN commanded
               PROVE  target >= commanded[i] - MaxDropSteps * StepRpm
    BY DEF DropRate
  <2> DEFINE n == Len(commanded)
  <2>1. /\ SlowDescent /\ n = Len(recent) /\ n \in Nat /\ n <= 3 /\ i \in 1..n
    BY LenProperties DEF HistInv, Remembered
  <2>2. MaxDropSteps * StepRpm = StepRpm * MaxDropSteps
    BY BoundsAssumption DEF MaxDropSteps
  <2> HIDE DEF n
  <2>3. n - i \in 0..2 /\ n - i < n /\ n - (n - i) = i
    BY <2>1
  <2>4. target >= Ago(commanded, n - i) - StepRpm * MaxDropSteps
    BY <2>1, <2>3 DEF SlowDescent
  <2> QED
    BY <2>2, <2>3, <2>4 DEF Ago, n
<1> QED
  BY <1>1, HistAlways, PTL

\* A set of the three positions that has two members.
LEMMA TwoMembers ==
  ASSUME NEW S \in SUBSET (1..3), NEW i \in S, NEW j \in S, i # j
  PROVE  Cardinality(S) >= 2
<1>1. IsFiniteSet(S)
  BY FS_BoundedSetOfNaturals
<1>2. Cardinality(S) \in Nat
  BY <1>1, FS_CardinalityType
<1>3. Cardinality(S) # 0
  BY <1>1, FS_EmptySet
<1>4. Cardinality(S) # 1
  BY <1>1, FS_Singleton
<1> QED
  BY <1>2, <1>3, <1>4

\* Two of three samples are at or below their median, two at or above it.
LEMMA MedianOfThree ==
  ASSUME NEW s \in Seq(Int), Len(s) = 3
  PROVE  /\ MedianHigh(s) \in Int
         /\ \A i \in 1..3 : s[i] \in Int
         /\ \E i, j \in 1..3 : i # j /\ s[i] <= MedianHigh(s) /\ s[j] <= MedianHigh(s)
         /\ \E i, j \in 1..3 : i # j /\ s[i] >= MedianHigh(s) /\ s[j] >= MedianHigh(s)
<1> DEFINE a == s[1]
           b == s[2]
           c == s[3]
           m == Larger(Smaller(a, b), Smaller(Larger(a, b), c))
<1>1. \A i \in 1..3 : s[i] \in Int
  BY ElementOfSeq
<1>2. a \in Int /\ b \in Int /\ c \in Int
  BY <1>1
<1>3. MedianHigh(s) = m
  BY DEF MedianHigh
<1> HIDE DEF a, b, c
<1>4. /\ m \in Int
      /\ (a <= m /\ b <= m) \/ (a <= m /\ c <= m) \/ (b <= m /\ c <= m)
      /\ (a >= m /\ b >= m) \/ (a >= m /\ c >= m) \/ (b >= m /\ c >= m)
  BY <1>2 DEF Larger, Smaller
<1> HIDE DEF m
<1>5. 1 \in 1..3 /\ 2 \in 1..3 /\ 3 \in 1..3 /\ 1 # 2 /\ 1 # 3 /\ 2 # 3
  OBVIOUS
<1>6. \E i, j \in 1..3 : i # j /\ s[i] <= m /\ s[j] <= m
  BY <1>4, <1>5 DEF a, b, c
<1>7. \E i, j \in 1..3 : i # j /\ s[i] >= m /\ s[j] >= m
  BY <1>4, <1>5 DEF a, b, c
<1> QED
  BY <1>1, <1>3, <1>4, <1>6, <1>7

\* Only two kinds of ticks move the target of a curve.
LEMMA CurveMoves ==
  ASSUME MaxOnGrid, IInv, [MCNext]_mcvars, policy.mode = "curve",
         target # None, target' # None, target' # target
  PROVE  /\ MCTick
         /\ \E h \in Int :
              /\ recent' = Push(recent, h)
              /\ \/ h < EmergencyFullSpeed /\ Filter(h)
                 \/ h >= EmergencyFullSpeed /\ target' = MaxRpm
<1>1. MCTick
  BY DEF MCNext, MCNewController, NewController, Settle, mcvars, vars
<1>2. PICK cpu \in CpuTemps, gpu \in GpuTemps : NextTargets(cpu, gpu)
  BY <1>1 DEF MCTick, Tick
<1> DEFINE h == Hottest(Snapshot(cpu, gpu))
<1>3. /\ h \in Int \cup {None}
      /\ reading'.cpu = cpu /\ reading'.gpu = gpu
  BY <1>2, ReadingType DEF NextTargets, IInv
<1>4. \/ h # None /\ h >= EmergencyFullSpeed /\ Bypass(h)
      \/ h # None /\ h < EmergencyFullSpeed /\ Filter(h)
  BY <1>2 DEF NextTargets, Raise
<1>5. outcome' = "targets" => recent' = Push(recent, h)
  BY <1>1, <1>3 DEF MCTick
<1> HIDE DEF h
<1>6. CASE h # None /\ h >= EmergencyFullSpeed /\ Bypass(h)
  <2>1. recent' = Push(recent, h) /\ target' = MaxRpm /\ h \in Int
    BY <1>3, <1>5, <1>6 DEF Bypass, TargetFor
  <2> QED
    BY <1>1, <1>6, <2>1
<1>7. CASE h # None /\ h < EmergencyFullSpeed /\ Filter(h)
  <2>1. recent' = Push(recent, h) /\ h \in Int
    BY <1>3, <1>5, <1>7 DEF Filter
  <2> QED
    BY <1>1, <1>7, <2>1
<1> QED
  BY <1>4, <1>6, <1>7

\* Three readings below the threshold are the samples of the filter.
LEMMA CoolPast ==
  ASSUME MaxOnGrid, IInv, HistInv, policy.mode = "curve",
         NEW h \in Int, h < EmergencyFullSpeed, Filter(h), recent' = Push(recent, h),
         Len(recent') = 3,
         \A k \in 0..1 : k < Len(recent) => ~(Ago(recent, k) >= EmergencyFullSpeed)
  PROVE  /\ recent' \in Seq(Int) /\ temperatures' = recent'
         /\ control' = MedianHigh(recent')
         /\ \A i \in 1..3 : recent'[i] < EmergencyFullSpeed
<1> DEFINE n == Len(recent)
           q == recent'
           f == temperatures'
<1>1. /\ Remembered /\ temperatures \in Seq(Int) /\ Len(temperatures) <= 3
      /\ f = Push(temperatures, h) /\ control' = MedianHigh(f)
  BY FilterPast
<1>2. SameReadings'
  BY FilterSameReadings
<1>3. recent \in Seq(Int) /\ n <= 3 /\ n \in Nat
  BY <1>1, LenProperties DEF Remembered
<1>4. /\ q \in Seq(Int) /\ Ago(q, 0) = h
      /\ 1 < Len(q) <=> 0 < n
      /\ 2 < Len(q) <=> 1 < n
      /\ 0 < n => Ago(q, 1) = Ago(recent, 0)
      /\ 1 < n => Ago(q, 2) = Ago(recent, 1)
  <2>1. q = Push(recent, h)
    OBVIOUS
  <2> HIDE DEF q
  <2> QED
    BY <1>3, <2>1, PushAgo
<1>5. f \in Seq(Int) /\ Len(f) \in 1..3
  BY <1>1, PushAgo
<1>6. \A i \in 1..3 : q[i] \in Int
  BY <1>4, ElementOfSeq
<1>7. Ago(q, 0) = q[3] /\ Ago(q, 1) = q[2] /\ Ago(q, 2) = q[1]
  <2> HIDE DEF q
  <2>1. Len(q) = 3
    BY DEF q
  <2> QED
    BY <2>1 DEF Ago
<1> HIDE DEF n, q, f
<1>8. q[3] < EmergencyFullSpeed /\ q[2] < EmergencyFullSpeed /\ q[1] < EmergencyFullSpeed
  <2>1. Len(q) = 3
    BY DEF q
  <2>2. 0 < n /\ 1 < n
    BY <1>4, <2>1
  <2>3. q[3] = h /\ q[2] = Ago(recent, 0) /\ q[1] = Ago(recent, 1)
    BY <1>4, <1>7, <2>2
  <2>4. ~(Ago(recent, 0) >= EmergencyFullSpeed) /\ ~(Ago(recent, 1) >= EmergencyFullSpeed)
    BY <2>2 DEF n
  <2>5. q[1] \in Int /\ q[2] \in Int
    BY <1>6
  <2> QED
    BY <2>3, <2>4, <2>5 DEF EmergencyFullSpeed
<1>9. ASSUME NEW k \in 0..2 PROVE k < Len(f) /\ Ago(f, k) = Ago(q, k)
  <2>1. \A j \in 0..2 : j = 0 \/ j = 1 \/ j = 2
    OBVIOUS
  <2>2. \A j \in 0..2 : Ago(q, j) < EmergencyFullSpeed
    BY <1>7, <1>8, <2>1
  <2>3. \A j \in 0..k : j \in 0..2
    OBVIOUS
  <2>4. k < Len(q)
    BY DEF q
  <2> QED
    BY <1>2, <2>2, <2>3, <2>4 DEF SameReadings, q, f
<1>10. Len(f) = 3
  <2>1. 2 < Len(f)
    BY <1>9
  <2> DEFINE m == Len(f)
  <2>2. m \in 1..3 /\ 2 < m
    BY <1>5, <2>1
  <2> HIDE DEF m
  <2>3. m = 3
    BY <2>2
  <2> QED
    BY <2>3 DEF m
<1>11. f[3] = q[3] /\ f[2] = q[2] /\ f[1] = q[1]
  <2>1. Ago(f, 0) = f[3] /\ Ago(f, 1) = f[2] /\ Ago(f, 2) = f[1]
    BY <1>10 DEF Ago
  <2> QED
    BY <1>7, <1>9, <2>1
<1>12. \A i \in 1..3 : i = 1 \/ i = 2 \/ i = 3
  OBVIOUS
<1>13. f = q
  <2>1. Len(f) = Len(q) /\ \A i \in 1..Len(f) : f[i] = q[i]
    BY <1>10, <1>11, <1>12 DEF q
  <2> QED
    BY <1>4, <1>5, <2>1, SeqEqual
<1> QED
  BY <1>1, <1>4, <1>8, <1>12, <1>13 DEF q, f

\* The fans slow down only after three readings below the emergency threshold of
\* which two lie at least Hysteresis below the temperature that set the speed,
\* however emergencies interrupt the filter (_stabilize_curve_target).
THEOREM DropsOnlyWhenCool ==
  ASSUME MaxOnGrid
  PROVE  MCSpec => DropOnlyWhenCool
<1> DEFINE Low == {i \in 1..FilterSamples : recent'[i] <= held - Hysteresis}
           Falls == policy.mode = "curve" /\ target # None /\ target' # None /\ target' < target
           Cooled == /\ Len(recent') = FilterSamples
                     /\ \A i \in 1..FilterSamples : recent'[i] < EmergencyFullSpeed
                     /\ Cardinality(Low) >= 2
<1>1. IInv /\ HistInv /\ [MCNext]_mcvars => [Falls => Cooled]_mcvars
  <2> SUFFICES ASSUME IInv, HistInv, [MCNext]_mcvars, Falls PROVE Cooled
    OBVIOUS
  <2>1. /\ Remembered /\ FullSpeedAfter /\ cooling \in 0..2
        /\ target \in MinRpm..MaxRpm /\ held \in Int
    BY DEF IInv, HistInv, Covered, TypeOK, Confirmation
  <2>2. PICK h \in Int : /\ recent' = Push(recent, h)
                         /\ \/ h < EmergencyFullSpeed /\ Filter(h)
                            \/ h >= EmergencyFullSpeed /\ target' = MaxRpm
    <3>1. target' # target
      BY <2>1, BoundsAssumption
    <3> QED
      BY <3>1, CurveMoves
  <2>3. ~(target' = MaxRpm)
    BY <2>1, BoundsAssumption
  <2>4. h < EmergencyFullSpeed /\ Filter(h)
    BY <2>2, <2>3
  <2>5. cooling = 2 /\ control' <= held - Hysteresis
    <3>1. target' \in Int
      BY MCStep, StepInv DEF IInv, TypeOK
    <3>2. target \in Int
      BY <2>1, BoundsAssumption
    <3> QED
      BY <2>4, <3>1, <3>2, FilteredKinds
  <2>6. Len(recent) = 3
    <3> DEFINE n == Len(recent)
    <3>1. n \in Nat /\ n <= 3 /\ 2 < n
      BY <2>1, <2>5, LenProperties DEF Remembered
    <3> HIDE DEF n
    <3>2. n = 3
      BY <3>1
    <3> QED
      BY <3>2 DEF n
  <2>7. Len(recent') = 3
    <3>1. recent' = Push(recent, h)
      BY <2>2
    <3>2. recent \in Seq(Int) /\ Len(recent) <= 3
      BY <2>1 DEF Remembered
    <3>3. Len(Push(recent, h)) = IF Len(recent) < 3 THEN Len(recent) + 1 ELSE 3
      BY <3>2, PushPast
    <3> QED
      BY <2>6, <3>1, <3>3
  <2>8. \A k \in 0..1 : k < Len(recent) => ~(Ago(recent, k) >= EmergencyFullSpeed)
    BY <2>1, <2>5 DEF FullSpeedAfter
  <2>9. /\ recent' \in Seq(Int) /\ control' = MedianHigh(recent')
        /\ \A i \in 1..3 : recent'[i] < EmergencyFullSpeed
    BY <2>2, <2>4, <2>7, <2>8, CoolPast
  <2>10. PICK i, j \in 1..3 : /\ i # j
                              /\ recent'[i] <= control' /\ recent'[j] <= control'
    BY <2>7, <2>9, MedianOfThree
  <2>11. /\ control' \in Int /\ \A k \in 1..3 : recent'[k] \in Int
    BY <2>7, <2>9, MedianOfThree
  <2>12. recent'[i] <= held - Hysteresis /\ recent'[j] <= held - Hysteresis
    BY <2>1, <2>5, <2>10, <2>11 DEF Hysteresis
  <2>13. Cardinality(Low) >= 2
    <3>1. Low \in SUBSET (1..3) /\ i \in Low /\ j \in Low
      BY <2>12 DEF FilterSamples
    <3> HIDE DEF Low
    <3> QED
      BY <2>10, <3>1, TwoMembers
  <2> QED
    BY <2>7, <2>9, <2>13 DEF FilterSamples
<1> QED
  BY <1>1, HistAlways, PTL DEF MCSpec, DropOnlyWhenCool

-----------------------------------------------------------------------------
(* Hotter is never slower *)

\* What ValidCurve says of the points and of neighbours.
LEMMA CurveShape ==
  ASSUME NEW curve, ValidCurve(curve)
  PROVE  /\ Len(curve) \in Nat /\ 2 <= Len(curve)
         /\ \A i \in 1..Len(curve) : curve[i].temperature \in Int /\ curve[i].rpm \in Nat
         /\ \A i \in 1..(Len(curve) - 1) :
              /\ curve[i].temperature < curve[i + 1].temperature
              /\ curve[i].rpm <= curve[i + 1].rpm
<1>1. curve \in Seq(CurvePoint) /\ Len(curve) \in Nat /\ 2 <= Len(curve)
  BY LenProperties DEF ValidCurve
<1>2. \A i \in 1..Len(curve) : curve[i] \in CurvePoint
  BY <1>1, ElementOfSeq
<1>3. \A i \in 1..Len(curve) : curve[i].rpm \in MinRpm..MaxRpm
  BY <1>1, LenProperties DEF ValidCurve
<1>4. \A i \in 1..Len(curve) : curve[i].temperature \in Int /\ curve[i].rpm \in Nat
  BY <1>2, <1>3, BoundsAssumption DEF CurvePoint
<1> QED
  BY <1>1, <1>4 DEF ValidCurve

\* A later point is neither cooler nor slower, neighbour or not.
LEMMA CurveOrdered ==
  ASSUME NEW curve, ValidCurve(curve), NEW i \in 1..Len(curve), NEW j \in 1..Len(curve), i <= j
  PROVE  /\ curve[i].temperature <= curve[j].temperature
         /\ curve[i].rpm <= curve[j].rpm
<1> DEFINE N == Len(curve)
           Below(m) == /\ curve[i].temperature <= curve[m].temperature
                       /\ curve[i].rpm <= curve[m].rpm
           Wrong == {m \in 1..N : i <= m /\ ~Below(m)}
           R == OpToRel(<, Nat)
<1>1. /\ N \in Nat /\ 2 <= N /\ i \in 1..N /\ j \in 1..N
      /\ \A m \in 1..N : curve[m].temperature \in Int /\ curve[m].rpm \in Nat
      /\ \A m \in 1..(N - 1) : /\ curve[m].temperature < curve[m + 1].temperature
                              /\ curve[m].rpm <= curve[m + 1].rpm
  BY CurveShape
<1> HIDE DEF N
<1>2. SUFFICES ASSUME j \in Wrong PROVE FALSE
  BY <1>1
<1>3. Wrong \subseteq Nat
  BY <1>1
<1>4. PICK m \in Wrong : \A l \in Wrong : ~(<<l, m>> \in R)
  BY <1>2, <1>3, WFMin, NatLessThanWellFounded
<1>5. m \in 1..N /\ i <= m /\ ~Below(m)
  OBVIOUS
<1>6. m # i
  <2>1. Below(i)
    BY <1>1
  <2> QED
    BY <1>5, <2>1
<1>7. m - 1 \in 1..N /\ m - 1 \in 1..(N - 1) /\ i <= m - 1 /\ (m - 1) + 1 = m /\ m - 1 < m
  BY <1>1, <1>5, <1>6
<1>8. <<m - 1, m>> \in R
  BY <1>1, <1>5, <1>7 DEF OpToRel
<1>9. Below(m - 1)
  BY <1>4, <1>7, <1>8
<1>10. /\ curve[m - 1].temperature < curve[m].temperature
       /\ curve[m - 1].rpm <= curve[m].rpm
  BY <1>1, <1>7
<1>11. Below(m)
  <2>1. /\ curve[i].temperature \in Int /\ curve[i].rpm \in Nat
        /\ curve[m].temperature \in Int /\ curve[m].rpm \in Nat
        /\ curve[m - 1].temperature \in Int /\ curve[m - 1].rpm \in Nat
    BY <1>1, <1>5, <1>7
  <2> QED
    BY <1>9, <1>10, <2>1
<1> QED
  BY <1>5, <1>11

\* Products keep the order.
LEMMA ProductMonotone ==
  ASSUME NEW a \in Nat, NEW b \in Nat, NEW d \in Nat, a <= b
  PROVE  a * d \in Nat /\ b * d \in Nat /\ a * d <= b * d
<1>1. a * d \in Nat /\ b * d \in Nat
  BY SMTT(30)
<1>2. (b - a) \in Nat /\ (b - a) * d \in Nat
  BY SMTT(30)
<1>3. b * d = a * d + (b - a) * d
  BY SMTT(30)
<1> QED
  BY <1>1, <1>2, <1>3

\* Between two points the interpolation stays between their speeds, and a hotter
\* reading never gives less.
LEMMA InterpolateOrdered ==
  ASSUME NEW lower, NEW upper, NEW t \in Int, NEW u \in Int,
         lower.temperature \in Int, upper.temperature \in Int,
         lower.rpm \in Nat, upper.rpm \in Nat, lower.rpm <= upper.rpm,
         lower.temperature < t, t <= u, u <= upper.temperature
  PROVE  /\ Interpolate(lower, upper, t) \in Nat /\ Interpolate(lower, upper, u) \in Nat
         /\ lower.rpm <= Interpolate(lower, upper, t)
         /\ Interpolate(lower, upper, t) <= Interpolate(lower, upper, u)
         /\ Interpolate(lower, upper, u) <= upper.rpm
<1> DEFINE span == upper.temperature - lower.temperature
           low == lower.rpm
           rise == upper.rpm - lower.rpm
           a == t - lower.temperature
           b == u - lower.temperature
<1>1. /\ span \in Nat \ {0} /\ low \in Nat /\ rise \in Nat
      /\ a \in Nat /\ b \in Nat /\ a <= b /\ b <= span
      /\ upper.rpm = low + rise
  OBVIOUS
<1>2. /\ Interpolate(lower, upper, t) = RoundHalfEven(low * span + a * rise, span)
      /\ Interpolate(lower, upper, u) = RoundHalfEven(low * span + b * rise, span)
  BY DEF Interpolate
<1> HIDE DEF span, low, rise, a, b
<1>3. /\ a * rise \in Nat /\ b * rise \in Nat /\ span * rise \in Nat /\ low * span \in Nat
      /\ a * rise <= b * rise /\ b * rise <= span * rise
  BY <1>1, ProductMonotone
<1>4. low * span + span * rise = (low + rise) * span
  BY <1>1, SMTT(30)
<1> DEFINE x == low * span
           y == low * span + a * rise
           z == low * span + b * rise
           w == (low + rise) * span
<1>5. /\ x \in Nat /\ y \in Nat /\ z \in Nat /\ w \in Nat
      /\ x <= y /\ y <= z /\ z <= w
  BY <1>3, <1>4
<1>6. RoundHalfEven(x, span) = low /\ RoundHalfEven(w, span) = low + rise
  BY <1>1, RoundExact
<1> HIDE DEF x, y, z, w
<1>7. /\ RoundHalfEven(x, span) <= RoundHalfEven(y, span)
      /\ RoundHalfEven(y, span) <= RoundHalfEven(z, span)
      /\ RoundHalfEven(z, span) <= RoundHalfEven(w, span)
      /\ RoundHalfEven(y, span) \in Nat /\ RoundHalfEven(z, span) \in Nat
  BY <1>1, <1>5, RoundMonotone, RoundType
<1> QED
  BY <1>1, <1>2, <1>6, <1>7 DEF y, z, low

\* Between the ends of a curve its target is interpolated in some segment.
LEMMA InnerTarget ==
  ASSUME NEW curve, ValidCurve(curve), NEW t \in Int,
         t > curve[1].temperature, t < curve[Len(curve)].temperature
  PROVE  \E k \in 1..(Len(curve) - 1) :
           /\ t <= curve[k + 1].temperature /\ t > curve[k].temperature
           /\ TargetAt(curve, t) = Quantize(Interpolate(curve[k], curve[k + 1], t))
<1> DEFINE k == CHOOSE i \in 1..(Len(curve) - 1) :
                  /\ t <= curve[i + 1].temperature
                  /\ t > curve[i].temperature
<1>1. k \in 1..(Len(curve) - 1) /\ t <= curve[k + 1].temperature /\ t > curve[k].temperature
  BY SegmentExists
<1>2. ~(t <= curve[1].temperature) /\ ~(t >= curve[Len(curve)].temperature)
  <2> DEFINE N == Len(curve)
  <2>1. N \in Nat /\ 2 <= N /\ \A i \in 1..N : curve[i].temperature \in Int
    BY CurveShape
  <2>2. 1 \in 1..N /\ N \in 1..N
    <3> HIDE DEF N
    <3> QED
      BY <2>1
  <2>3. curve[1].temperature \in Int /\ curve[N].temperature \in Int
    BY <2>1, <2>2
  <2> QED
    BY <2>3
<1>3. TargetAt(curve, t) = Quantize(Interpolate(curve[k], curve[k + 1], t))
  BY <1>2 DEF TargetAt
<1> QED
  BY <1>1, <1>3

\* A curve never asks for less when it is hotter.
LEMMA TargetAtMonotone ==
  ASSUME NEW curve, ValidCurve(curve), NEW t \in Int, NEW u \in Int, t <= u
  PROVE  TargetAt(curve, t) <= TargetAt(curve, u)
<1> DEFINE N == Len(curve)
           T(i) == curve[i].temperature
           S(i) == curve[i].rpm
           V(i, x) == Interpolate(curve[i], curve[i + 1], x)
<1>1. /\ N \in Nat /\ 2 <= N
      /\ \A i \in 1..N : T(i) \in Int /\ S(i) \in Nat
      /\ \A i \in 1..(N - 1) : T(i) < T(i + 1) /\ S(i) <= S(i + 1)
      /\ \A i, j \in 1..N : i <= j => T(i) <= T(j) /\ S(i) <= S(j)
  BY CurveShape, CurveOrdered
<1>2. ASSUME NEW x \in Int
      PROVE  /\ x <= T(1) => TargetAt(curve, x) = Quantize(S(1))
             /\ ~(x <= T(1)) /\ x >= T(N) => TargetAt(curve, x) = Quantize(S(N))
  BY DEF TargetAt
<1>3. ASSUME NEW x \in Int, x > T(1), x < T(N)
      PROVE  \E k \in 1..(N - 1) : /\ x <= T(k + 1) /\ x > T(k)
                                   /\ TargetAt(curve, x) = Quantize(V(k, x))
  BY <1>3, InnerTarget
<1>4. ASSUME NEW k \in 1..(N - 1), NEW x \in Int, NEW y \in Int,
             T(k) < x, x <= y, y <= T(k + 1)
      PROVE  /\ V(k, x) \in Nat /\ V(k, y) \in Nat
             /\ S(k) <= V(k, x) /\ V(k, x) <= V(k, y) /\ V(k, y) <= S(k + 1)
  <2>1. k \in 1..N /\ k + 1 \in 1..N
    <3> HIDE DEF N
    <3> QED
      BY <1>1
  <2>2. /\ T(k) \in Int /\ T(k + 1) \in Int /\ S(k) \in Nat /\ S(k + 1) \in Nat
        /\ S(k) <= S(k + 1)
    BY <1>1, <2>1
  <2> QED
    BY <1>4, <2>2, InterpolateOrdered
<1> HIDE DEF N, T, S, V
<1>5. /\ 1 \in 1..N /\ N \in 1..N /\ T(1) \in Int /\ T(N) \in Int
      /\ S(1) \in Nat /\ S(N) \in Nat /\ S(1) <= S(N) /\ T(1) < T(N)
  <2>1. 1 \in 1..N /\ 2 \in 1..N /\ N \in 1..N /\ 1 \in 1..(N - 1)
    BY <1>1
  <2>2. T(1) < T(1 + 1) /\ T(2) <= T(N)
    BY <1>1, <2>1
  <2> QED
    BY <1>1, <2>1, <2>2
<1>6. CASE t <= T(1)
  <2>1. TargetAt(curve, t) = Quantize(S(1))
    BY <1>2, <1>6
  <2>2. CASE u <= T(1)
    <3>1. TargetAt(curve, u) = Quantize(S(1))
      BY <1>2, <2>2
    <3> QED
      BY <1>5, <2>1, <3>1, QuantizeMonotone
  <2>3. CASE ~(u <= T(1)) /\ u >= T(N)
    <3>1. TargetAt(curve, u) = Quantize(S(N))
      BY <1>2, <2>3
    <3> QED
      BY <1>5, <2>1, <3>1, QuantizeMonotone
  <2>4. CASE u > T(1) /\ u < T(N)
    <3>1. PICK k \in 1..(N - 1) : /\ u <= T(k + 1) /\ u > T(k)
                                 /\ TargetAt(curve, u) = Quantize(V(k, u))
      BY <1>3, <2>4
    <3>2. V(k, u) \in Nat /\ S(k) <= V(k, u)
      BY <1>4, <3>1
    <3>3. k \in 1..N /\ 1 <= k
      BY <1>1
    <3>4. S(k) \in Nat /\ S(1) <= S(k)
      BY <1>1, <1>5, <3>3
    <3>5. S(1) <= V(k, u)
      BY <1>5, <3>2, <3>4
    <3> QED
      BY <1>5, <2>1, <3>1, <3>2, <3>5, QuantizeMonotone
  <2> QED
    BY <1>5, <2>2, <2>3, <2>4
<1>7. CASE ~(t <= T(1)) /\ t >= T(N)
  <2>1. ~(u <= T(1)) /\ u >= T(N)
    BY <1>5, <1>7
  <2>2. TargetAt(curve, t) = Quantize(S(N)) /\ TargetAt(curve, u) = Quantize(S(N))
    BY <1>2, <1>7, <2>1
  <2> QED
    BY <1>5, <2>2, QuantizeMonotone
<1>8. CASE t > T(1) /\ t < T(N)
  <2>1. PICK k \in 1..(N - 1) : /\ t <= T(k + 1) /\ t > T(k)
                               /\ TargetAt(curve, t) = Quantize(V(k, t))
    BY <1>3, <1>8
  <2>2. /\ k \in 1..N /\ k + 1 \in 1..N /\ k + 1 <= N
        /\ T(k) \in Int /\ T(k + 1) \in Int /\ S(k) \in Nat /\ S(k + 1) \in Nat
    BY <1>1
  <2>3. V(k, t) \in Nat /\ V(k, t) <= S(k + 1)
    BY <1>4, <2>1
  <2>4. CASE u >= T(N)
    <3>1. TargetAt(curve, u) = Quantize(S(N))
      BY <1>2, <1>5, <1>8, <2>4
    <3>2. S(k + 1) <= S(N)
      BY <1>1, <1>5, <2>2
    <3>3. V(k, t) <= S(N)
      BY <1>5, <2>2, <2>3, <3>2
    <3> QED
      BY <1>5, <2>1, <2>3, <3>1, <3>3, QuantizeMonotone
  <2>5. CASE u > T(1) /\ u < T(N)
    <3>1. PICK l \in 1..(N - 1) : /\ u <= T(l + 1) /\ u > T(l)
                                 /\ TargetAt(curve, u) = Quantize(V(l, u))
      BY <1>3, <2>5
    <3>2. /\ l \in 1..N /\ l + 1 \in 1..N
          /\ T(l) \in Int /\ T(l + 1) \in Int /\ S(l) \in Nat
      BY <1>1
    <3>3. V(l, u) \in Nat /\ S(l) <= V(l, u)
      BY <1>4, <3>1
    <3>4. k <= l
      <4>1. SUFFICES ASSUME l < k PROVE FALSE
        BY <2>2, <3>2
      <4>2. l + 1 <= k
        BY <4>1
      <4>3. T(l + 1) <= T(k)
        BY <1>1, <2>2, <3>2, <4>2
      <4> QED
        BY <2>1, <2>2, <3>1, <3>2, <4>3
    <3>5. CASE k = l
      <4>1. V(k, t) <= V(k, u)
        BY <1>4, <2>1, <3>1, <3>5
      <4> QED
        BY <2>1, <2>3, <3>1, <3>3, <3>5, <4>1, QuantizeMonotone
    <3>6. CASE k < l
      <4>1. k + 1 <= l
        BY <3>6
      <4>2. S(k + 1) <= S(l)
        BY <1>1, <2>2, <3>2, <4>1
      <4>3. V(k, t) <= V(l, u)
        BY <2>2, <2>3, <3>2, <3>3, <4>2
      <4> QED
        BY <2>1, <2>3, <3>1, <3>3, <4>3, QuantizeMonotone
    <3> QED
      BY <3>4, <3>5, <3>6
  <2> QED
    BY <1>5, <1>8, <2>4, <2>5
<1> QED
  BY <1>5, <1>6, <1>7, <1>8

\* Nor does a policy.
LEMMA TargetForMonotone ==
  ASSUME MaxOnGrid, NEW p, ValidPolicy(p), NEW t \in Int, NEW u \in Int, t <= u
  PROVE  TargetFor(p, t) <= TargetFor(p, u)
<1>1. /\ TargetFor(p, t) \in MinRpm..MaxRpm /\ TargetFor(p, u) \in MinRpm..MaxRpm
  BY DemandAccepted
<1>2. CASE u >= EmergencyFullSpeed
  BY <1>1, <1>2, BoundsAssumption DEF TargetFor
<1>3. CASE ~(u >= EmergencyFullSpeed)
  <2>1. ~(t >= EmergencyFullSpeed)
    BY <1>3 DEF EmergencyFullSpeed
  <2>2. CASE p.mode = "fixed"
    <3>1. TargetFor(p, t) = TargetFor(p, u)
      BY <1>3, <2>1, <2>2 DEF TargetFor
    <3> QED
      BY <1>1, <3>1, BoundsAssumption
  <2>3. CASE p.mode # "fixed"
    <3>1. TargetFor(p, t) = TargetAt(p.curve, t) /\ TargetFor(p, u) = TargetAt(p.curve, u)
      BY <1>3, <2>1, <2>3 DEF TargetFor
    <3> QED
      BY <3>1, TargetAtMonotone DEF ValidPolicy
  <2> QED
    BY <2>2, <2>3
<1> QED
  BY <1>2, <1>3

\* One hot reading between cool ones does not move the fans of any curve, also
\* right after an emergency and on plateaux and cliffs of the curve
\* (next_targets, _stabilize_curve_target, FanCurve.target_at).
THEOREM SpikesFiltered ==
  ASSUME MaxOnGrid
  PROVE  MCSpec => SpikeFiltered
<1> DEFINE Calls == {i \in 1..FilterSamples : TargetFor(policy, recent'[i]) >= target'}
           Spike == /\ policy.mode = "curve" /\ target # None
                    /\ Len(recent') = FilterSamples
                    /\ recent'[FilterSamples] < EmergencyFullSpeed
                    /\ target' > target
<1>1. IInv /\ HistInv /\ [MCNext]_mcvars => [Spike => Cardinality(Calls) >= 2]_mcvars
  <2> SUFFICES ASSUME IInv, HistInv, [MCNext]_mcvars, Spike PROVE Cardinality(Calls) >= 2
    OBVIOUS
  <2>1. /\ Remembered /\ FullSpeedAfter /\ target \in MinRpm..MaxRpm /\ target \in Int
        /\ ValidPolicy(policy)
    BY BoundsAssumption, PoliciesAssumption DEF IInv, HistInv, Covered, TypeOK
  <2>2. IInv'
    BY MCStep, StepInv
  <2>3. Len(recent') = 3 /\ recent'[3] < EmergencyFullSpeed
    BY DEF FilterSamples
  <2>4. target' # None /\ target' \in MinRpm..MaxRpm
    <3>1. HistInv'
      BY HistStep
    <3> QED
      BY <2>2, <2>3, <3>1 DEF HistInv, Remembered, IInv, Covered
  <2>5. PICK h \in Int : /\ recent' = Push(recent, h)
                         /\ \/ h < EmergencyFullSpeed /\ Filter(h)
                            \/ h >= EmergencyFullSpeed /\ target' = MaxRpm
    <3>1. target' # target
      BY <2>1, <2>4, BoundsAssumption
    <3> QED
      BY <2>1, <2>4, <3>1, CurveMoves
  <2>6. recent'[3] = h
    <3>1. recent' = Push(recent, h)
      BY <2>5
    <3>2. recent \in Seq(Int) /\ Len(recent) <= 3
      BY <2>1 DEF Remembered
    <3>3. Ago(recent', 0) = h
      BY <3>1, <3>2, PushPast
    <3>4. Ago(recent', 0) = recent'[3]
      <4> DEFINE q == recent'
      <4>1. Len(q) = 3
        BY <2>3
      <4> HIDE DEF q
      <4>2. Ago(q, 0) = q[3]
        BY <4>1 DEF Ago
      <4> QED
        BY <4>2 DEF q
    <3> QED
      BY <3>3, <3>4
  <2>7. h < EmergencyFullSpeed /\ Filter(h)
    BY <2>3, <2>5, <2>6 DEF EmergencyFullSpeed
  <2>8. target' = TargetFor(policy, control')
    <3>1. target' \in Int
      BY <2>4, BoundsAssumption
    <3> QED
      BY <2>1, <2>7, <3>1, FilteredKinds
  <2>9. \A k \in 0..1 : k < Len(recent) => ~(Ago(recent, k) >= EmergencyFullSpeed)
    <3>1. target # MaxRpm
      BY <2>1, <2>4, BoundsAssumption
    <3> QED
      BY <2>1, <3>1 DEF FullSpeedAfter
  <2>10. recent' \in Seq(Int) /\ control' = MedianHigh(recent')
    BY <2>3, <2>5, <2>7, <2>9, CoolPast
  <2>11. PICK i, j \in 1..3 : /\ i # j
                              /\ recent'[i] >= control' /\ recent'[j] >= control'
    BY <2>3, <2>10, MedianOfThree
  <2>12. control' \in Int /\ recent'[i] \in Int /\ recent'[j] \in Int
    BY <2>3, <2>10, MedianOfThree
  <2>13. /\ TargetFor(policy, recent'[i]) >= target'
         /\ TargetFor(policy, recent'[j]) >= target'
    <3>1. /\ control' <= recent'[i] /\ control' <= recent'[j]
      BY <2>11, <2>12
    <3>2. /\ TargetFor(policy, control') <= TargetFor(policy, recent'[i])
          /\ TargetFor(policy, control') <= TargetFor(policy, recent'[j])
      BY <2>1, <2>12, <3>1, TargetForMonotone
    <3>3. /\ TargetFor(policy, recent'[i]) \in MinRpm..MaxRpm
          /\ TargetFor(policy, recent'[j]) \in MinRpm..MaxRpm
      BY <2>1, <2>12, DemandAccepted
    <3> QED
      BY <2>4, <2>8, <3>2, <3>3, BoundsAssumption
  <2> QED
    <3>1. Calls \in SUBSET (1..3) /\ i \in Calls /\ j \in Calls
      BY <2>13 DEF FilterSamples
    <3> HIDE DEF Calls
    <3> QED
      BY <2>11, <3>1, TwoMembers
<1> QED
  BY <1>1, HistAlways, PTL DEF MCSpec, SpikeFiltered
=============================================================================
