------------------------------ MODULE FanRules ------------------------------
(***************************************************************************)
(* The thermal rules of legion_control/domain.py that have no state: the   *)
(* fan bounds and their quantisation, the fan curve, the policy and the    *)
(* median filter.  A policy is a record [mode, fixed, curve]; a curve is a *)
(* sequence of points [temperature, rpm].  Temperatures are whole degrees. *)
(***************************************************************************)
EXTENDS Integers, Sequences

CONSTANTS
  MinRpm, MaxRpm, StepRpm,   \* FanBounds: limits and granularity of a target
  None                       \* Python's None: no reading, no target

\* What FanBounds.__post_init__ accepts.
ASSUME BoundsAssumption ==
  /\ MinRpm \in Nat \ {0}
  /\ MaxRpm \in Nat
  /\ StepRpm \in Nat \ {0}
  /\ MinRpm < MaxRpm

ASSUME NoneAssumption == None \notin Int

EmergencyFullSpeed == 92        \* EMERGENCY_FULL_SPEED_C
EmergencyFirmware == 98         \* EMERGENCY_FIRMWARE_CONTROL_C
FilterSamples == 3              \* TEMPERATURE_FILTER_SAMPLES
Hysteresis == 3                 \* DOWNWARD_HYSTERESIS_C
Confirmation == 3               \* DOWNWARD_CONFIRMATION_SAMPLES
MaxDropSteps == 3               \* MAX_DOWNWARD_STEP_COUNT

Larger(a, b) == IF a >= b THEN a ELSE b
Smaller(a, b) == IF a <= b THEN a ELSE b

-----------------------------------------------------------------------------
(* FanBounds.quantize *)

\* Python's round(n / d) for n >= 0 and d > 0: ties go to the even quotient.
RoundHalfEven(n, d) ==
  LET q == n \div d
      r == n % d
  IN  IF 2 * r > d \/ (2 * r = d /\ q % 2 = 1) THEN q + 1 ELSE q

Clamp(rpm) == Smaller(Larger(rpm, MinRpm), MaxRpm)

Quantize(rpm) ==
  Clamp(MinRpm + RoundHalfEven(Clamp(rpm) - MinRpm, StepRpm) * StepRpm)

\* A target SysfsHardware.set_fan_targets does not refuse.
Accepted(rpm) == Quantize(rpm) = rpm

-----------------------------------------------------------------------------
(* FanCurve and FanPolicy *)

CurvePoint == [temperature : Int, rpm : Int]

ValidCurve(curve) ==
  /\ curve \in Seq(CurvePoint)
  /\ 2 <= Len(curve) /\ Len(curve) <= 10
  /\ \A i \in DOMAIN curve :
       /\ curve[i].temperature \in 20..100
       /\ curve[i].rpm \in MinRpm..MaxRpm
       /\ Accepted(curve[i].rpm)
  /\ \A i \in 1..(Len(curve) - 1) :
       /\ curve[i].temperature < curve[i + 1].temperature
       /\ curve[i].rpm <= curve[i + 1].rpm

ValidPolicy(policy) ==
  /\ policy.mode \in {"auto", "fixed", "curve"}
  /\ policy.fixed \in MinRpm..MaxRpm
  /\ Accepted(policy.fixed)
  /\ ValidCurve(policy.curve)

\* Interpolation between two neighbouring points, rounded to a whole RPM.
Interpolate(lower, upper, t) ==
  LET span == upper.temperature - lower.temperature
  IN  RoundHalfEven(lower.rpm * span
                      + (t - lower.temperature) * (upper.rpm - lower.rpm), span)

\* Slip: an interpolated target is not brought onto the hardware's grid.
TargetAt_OffGrid(curve, t) ==
  LET last == curve[Len(curve)]
      k == CHOOSE i \in 1..(Len(curve) - 1) :
             /\ t <= curve[i + 1].temperature
             /\ t > curve[i].temperature
  IN  IF t <= curve[1].temperature THEN Quantize(curve[1].rpm)
      ELSE IF t >= last.temperature THEN Quantize(last.rpm)
      ELSE Interpolate(curve[k], curve[k + 1], t)

TargetAt(curve, t) ==
  LET last == curve[Len(curve)]
      \* The first segment whose upper point is not below t.
      k == CHOOSE i \in 1..(Len(curve) - 1) :
             /\ t <= curve[i + 1].temperature
             /\ t > curve[i].temperature
  IN  IF t <= curve[1].temperature THEN Quantize(curve[1].rpm)
      ELSE IF t >= last.temperature THEN Quantize(last.rpm)
      ELSE Quantize(Interpolate(curve[k], curve[k + 1], t))

\* FanPolicy.target_for below EmergencyFirmware; from there on it raises
\* CriticalTemperatureError, which the controller models as an outcome.
TargetFor(policy, t) ==
  IF t >= EmergencyFullSpeed THEN MaxRpm
  ELSE IF policy.mode = "fixed" THEN Quantize(policy.fixed)
  ELSE TargetAt(policy.curve, t)

-----------------------------------------------------------------------------
(* ThermalSnapshot and the median filter *)

\* SysfsHardware.thermal_snapshot does not read the GPU once the CPU alone
\* calls for full speed.
Snapshot(cpu, gpu) ==
  [cpu |-> cpu,
   gpu |-> IF cpu # None /\ cpu >= EmergencyFullSpeed THEN None ELSE gpu]

Hottest(s) ==
  IF s.cpu = None THEN s.gpu
  ELSE IF s.gpu = None THEN s.cpu
  ELSE Larger(s.cpu, s.gpu)

\* statistics.median_high of the one to three samples the deque can hold.
MedianHigh(s) ==
  IF Len(s) = 1 THEN s[1]
  ELSE IF Len(s) = 2 THEN Larger(s[1], s[2])
  ELSE Larger(Smaller(s[1], s[2]), Smaller(Larger(s[1], s[2]), s[3]))

\* deque(maxlen = FilterSamples).append
Push(s, x) == IF Len(s) < FilterSamples THEN Append(s, x) ELSE Append(Tail(s), x)
=============================================================================
