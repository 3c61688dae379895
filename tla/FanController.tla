---------------------------- MODULE FanController ----------------------------
(***************************************************************************)
(* The closed loop of the fan daemon's rules: FanController of             *)
(* legion_control/domain.py fed by SysfsHardware.thermal_snapshot once per *)
(* control interval.  One NextTargets step is one tick: the sensors are    *)
(* read, the controller filters, smooths and delays, and either commands   *)
(* a target or raises.  A raise ends the daemon; NewController is the next *)
(* one that is built, by a new policy or by a new start of the service.    *)
(***************************************************************************)
EXTENDS FanRules

CONSTANTS
  Policies,   \* the manual policies the daemon may load
  CpuTemps,   \* readings of the CPU sensor, None when there is none
  GpuTemps    \* readings of the GPU sensor, None when there is none

\* ConfigStore.load and the constructor refuse every other policy, and the
\* daemon returns before it builds a controller for automatic mode.
ASSUME PoliciesAssumption ==
  \A p \in Policies : ValidPolicy(p) /\ p.mode # "auto"

ASSUME TempsAssumption ==
  CpuTemps \subseteq Int \cup {None} /\ GpuTemps \subseteq Int \cup {None}

VARIABLES
  policy,        \* _policy
  temperatures,  \* _temperatures, the deque of filtered samples
  held,          \* _held_temperature_c
  target,        \* _target_rpm
  cooling,       \* _cooling_samples
  control,       \* _control_temperature_c
  reading,       \* what the two sensors show at the last tick
  outcome        \* how the last tick ended

vars == <<policy, temperatures, held, target, cooling, control, reading, outcome>>

NoReading == [cpu |-> None, gpu |-> None]
Raised == outcome \in {"critical", "unavailable"}

TypeOK ==
  /\ policy \in Policies
  /\ temperatures \in Seq(Int)
  /\ Len(temperatures) <= FilterSamples
  /\ held \in Int \cup {None}
  /\ target \in Int \cup {None}
  /\ cooling \in 0..(Confirmation - 1)
  /\ control \in Int \cup {None}
  /\ reading \in [cpu : Int \cup {None}, gpu : Int \cup {None}]
  /\ outcome \in {"fresh", "targets", "critical", "unavailable"}

-----------------------------------------------------------------------------

Fresh ==
  /\ temperatures = <<>>
  /\ held = None
  /\ target = None
  /\ cooling = 0
  /\ control = None
  /\ reading = NoReading
  /\ outcome = "fresh"

Init == policy \in Policies /\ Fresh

\* The daemon met another policy signature, or a new daemon was started after
\* one that raised: FanController.__init__ forgets everything.
NewController ==
  /\ \E p \in Policies :
       /\ p # policy \/ Raised
       /\ policy' = p
  /\ temperatures' = <<>>
  /\ held' = None
  /\ target' = None
  /\ cooling' = 0
  /\ control' = None
  /\ reading' = NoReading
  /\ outcome' = "fresh"

Raise(error) ==
  /\ outcome' = error
  /\ UNCHANGED <<policy, temperatures, held, target, cooling, control>>

\* Slip: an emergency does not restart the confirmation of a cooling.
Bypass_KeepsCount(hottest) ==
  /\ control' = hottest
  /\ held' = hottest
  /\ target' = TargetFor(policy, hottest)
  /\ outcome' = "targets"
  /\ UNCHANGED <<policy, temperatures, cooling>>

\* Fixed mode, and every reading at or above EmergencyFullSpeed: no filter.
Bypass(hottest) ==
  /\ control' = hottest
  /\ held' = hottest
  /\ target' = TargetFor(policy, hottest)
  /\ cooling' = 0
  /\ outcome' = "targets"
  /\ UNCHANGED <<policy, temperatures>>

\* The branches of _stabilize_curve_target, for a filtered temperature t and
\* the target `desired` the curve asks for at t.

First(t, desired) ==
  /\ target = None \/ held = None
  /\ held' = t
  /\ target' = desired
  /\ UNCHANGED cooling

Rise(t, desired) ==
  /\ desired > target
  /\ held' = t
  /\ target' = desired
  /\ cooling' = 0

Level(desired) ==
  /\ desired = target
  /\ cooling' = 0
  /\ UNCHANGED <<held, target>>

NotCoolEnough(t, desired) ==
  /\ desired < target
  /\ t > held - Hysteresis
  /\ cooling' = 0
  /\ UNCHANGED <<held, target>>

\* Slip: one confirmation too many.
Confirming_OffByOne(t, desired) ==
  /\ desired < target
  /\ t <= held - Hysteresis
  /\ cooling + 1 <= Confirmation
  /\ cooling' = cooling + 1
  /\ UNCHANGED <<held, target>>

\* Slip: the confirmations are not counted.
Confirming_NotCounted(t, desired) ==
  /\ desired < target
  /\ t <= held - Hysteresis
  /\ cooling + 1 < Confirmation
  /\ UNCHANGED <<held, target, cooling>>

Confirming(t, desired) ==
  /\ desired < target
  /\ t <= held - Hysteresis
  /\ cooling + 1 < Confirmation
  /\ cooling' = cooling + 1
  /\ UNCHANGED <<held, target>>

\* Slip: a confirmed drop goes to the curve's target at once.
Drop_AtOnce(t, desired) ==
  /\ desired < target
  /\ t <= held - Hysteresis
  /\ cooling + 1 >= Confirmation
  /\ target' = Quantize(desired)
  /\ cooling' = 0
  /\ held' = IF target' = desired THEN t ELSE held

\* Slip: a confirmed drop always takes all its steps.
Drop_PastDemand(t, desired) ==
  /\ desired < target
  /\ t <= held - Hysteresis
  /\ cooling + 1 >= Confirmation
  /\ target' = Quantize(target - StepRpm * MaxDropSteps)
  /\ cooling' = 0
  /\ held' = IF target' = desired THEN t ELSE held

Drop(t, desired) ==
  /\ desired < target
  /\ t <= held - Hysteresis
  /\ cooling + 1 >= Confirmation
  /\ target' = Quantize(Larger(desired, target - StepRpm * MaxDropSteps))
  /\ cooling' = 0
  /\ held' = IF target' = desired THEN t ELSE held

Stabilize(t, desired) ==
  \/ First(t, desired)
  \/ /\ target # None /\ held # None
     /\ \/ Rise(t, desired)
        \/ Level(desired)
        \/ NotCoolEnough(t, desired)
        \/ Confirming(t, desired)
        \/ Drop(t, desired)

\* Slip: the oldest sample instead of the median.
Filter_Oldest(hottest) ==
  /\ temperatures' = Push(temperatures, hottest)
  /\ control' = temperatures'[1]
  /\ Stabilize(control', TargetFor(policy, control'))
  /\ outcome' = "targets"
  /\ UNCHANGED policy

\* Slip: no filter.
Filter_Newest(hottest) ==
  /\ temperatures' = Push(temperatures, hottest)
  /\ control' = hottest
  /\ Stabilize(control', TargetFor(policy, control'))
  /\ outcome' = "targets"
  /\ UNCHANGED policy

Filter(hottest) ==
  /\ temperatures' = Push(temperatures, hottest)
  /\ control' = MedianHigh(temperatures')
  /\ Stabilize(control', TargetFor(policy, control'))
  /\ outcome' = "targets"
  /\ UNCHANGED policy

\* FanController.next_targets on one snapshot.
NextTargets(cpu, gpu) ==
  LET hottest == Hottest(Snapshot(cpu, gpu))
  IN  /\ ~Raised
      /\ reading' = [cpu |-> cpu, gpu |-> gpu]
      /\ \/ hottest = None /\ Raise("unavailable")
         \/ /\ hottest # None
            /\ \/ hottest >= EmergencyFirmware /\ Raise("critical")
               \/ /\ hottest < EmergencyFirmware
                  /\ policy.mode = "fixed" \/ hottest >= EmergencyFullSpeed
                  /\ Bypass(hottest)
               \/ /\ policy.mode = "curve"
                  /\ hottest < EmergencyFullSpeed
                  /\ Filter(hottest)

Tick == \E cpu \in CpuTemps, gpu \in GpuTemps : NextTargets(cpu, gpu)

Next == Tick \/ NewController

Spec == Init /\ [][Next]_vars

-----------------------------------------------------------------------------
(* What one daemon run promises *)

\* Every commanded target passes the check set_fan_targets makes before it
\* writes: within the published limits and on the hardware's step grid.  One
\* refusal ends the daemon with status 2.
TargetsAccepted ==
  outcome = "targets" => target \in MinRpm..MaxRpm /\ Accepted(target)

\* The delays are one-sided: smoothing may keep the fans faster than the
\* policy asks at the filtered temperature, never slower.
NeverBelowDemand ==
  outcome = "targets" => target >= TargetFor(policy, control)

\* One controller lowers the fans by at most MaxDropSteps steps per tick.
DropBounded ==
  [][ (outcome' = "targets" /\ outcome = "targets" /\ policy.mode = "curve")
        => target' >= target - MaxDropSteps * StepRpm ]_vars
=============================================================================
