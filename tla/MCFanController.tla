--------------------------- MODULE MCFanController ---------------------------
(* FanController on the shipped curve, with the recent history the          *)
(* properties about several ticks need.                                     *)
EXTENDS FanController, FiniteSetsExt

CONSTANTS
  SteadyTemps   \* temperatures the machine may settle at, {} for never

VARIABLES
  recent,     \* the hottest readings of the last ticks of this controller
  commanded,  \* its last targets, oldest first
  steady,     \* the temperature the machine has settled at, or None
  beat        \* alternates from tick to tick once it has settled

hist == <<recent, commanded, steady, beat>>
mcvars == <<vars, hist>>

P(t, r) == [temperature |-> t, rpm |-> r]

\* DEFAULT_CURVE of domain.py.
DefaultCurve == <<P(45, 1700), P(60, 2500), P(75, 3600), P(85, 4600), P(90, 5300)>>
\* A steep and then flat curve a user can draw: plateaux and a cliff.
CliffCurve == <<P(50, 1700), P(60, 1700), P(62, 4600), P(91, 4600)>>

MCPolicies ==
  { [mode |-> "curve", fixed |-> 2500, curve |-> DefaultCurve],
    [mode |-> "curve", fixed |-> 2500, curve |-> CliffCurve],
    [mode |-> "fixed", fixed |-> 2500, curve |-> DefaultCurve] }

MCCpuTemps == {None, 40, 57, 61, 91, 92, 98}
MCGpuTemps == {None, 62}

MCInit == Init /\ recent = <<>> /\ commanded = <<>> /\ steady = None /\ beat = FALSE

Settle ==
  /\ steady = None /\ ~Raised
  /\ steady' \in SteadyTemps
  /\ UNCHANGED <<vars, recent, commanded, beat>>

MCTick ==
  /\ Tick
  /\ steady # None => reading' = [cpu |-> steady, gpu |-> None]
  /\ IF outcome' = "targets"
     THEN /\ recent' = Push(recent, Hottest(Snapshot(reading'.cpu, reading'.gpu)))
          /\ commanded' = Push(commanded, target')
     ELSE UNCHANGED <<recent, commanded>>
  /\ beat' = (beat # (steady # None))
  /\ UNCHANGED steady

MCNewController ==
  /\ NewController
  /\ steady = None
  /\ recent' = <<>>
  /\ commanded' = <<>>
  /\ UNCHANGED <<steady, beat>>

MCNext == MCTick \/ MCNewController \/ Settle

MCSpec == MCInit /\ [][MCNext]_mcvars

\* The daemon ticks every two seconds for as long as it runs: weak fairness of
\* MCTick once the temperature has settled, when it is what moves the beat.
MCLiveSpec == MCSpec /\ ([]<>(steady = None) \/ []<><<beat' # beat>>_mcvars)

-----------------------------------------------------------------------------

\* Heat reaches the fans: whatever two of the last three readings call for is
\* commanded, emergency readings that never entered the filter included.
HeatReachesFans ==
  (outcome = "targets" /\ policy.mode = "curve") =>
    target >= TargetFor(policy, MedianHigh(recent))

\* No cooling that is not real: a curve's target falls only when the last
\* three readings were all below the emergency threshold and two of them lay
\* at least Hysteresis below the temperature that set the target.
DropOnlyWhenCool ==
  [][ (policy.mode = "curve" /\ target # None /\ target' # None /\ target' < target) =>
        /\ Len(recent') = FilterSamples
        /\ \A i \in 1..FilterSamples : recent'[i] < EmergencyFullSpeed
        /\ Cardinality({i \in 1..FilterSamples : recent'[i] <= held - Hysteresis}) >= 2
    ]_mcvars

\* The fans slow down by at most MaxDropSteps steps in three ticks, so never
\* faster than 300 RPM in six seconds on the supported machine.
DropRate ==
  policy.mode = "curve" =>
    \A i \in DOMAIN commanded :
      target >= commanded[i] - MaxDropSteps * StepRpm

\* One hot reading between cool ones does not move the fans: below the
\* emergency threshold a rise needs two of three readings that call for it.
SpikeFiltered ==
  [][ (/\ policy.mode = "curve" /\ target # None
       /\ Len(recent') = FilterSamples
       /\ recent'[FilterSamples] < EmergencyFullSpeed
       /\ target' > target)
        => Cardinality({i \in 1..FilterSamples :
                          TargetFor(policy, recent'[i]) >= target'}) >= 2
    ]_mcvars

\* The curve's target, or one above it within the hysteresis of the held
\* temperature.
Rests ==
  /\ outcome = "targets"
  /\ \/ target = TargetFor(policy, steady)
     \/ target > TargetFor(policy, steady) /\ steady > held - Hysteresis

\* The loop converges: at a steady temperature the curve's target is reached,
\* or the reading stays inside the hysteresis band of the held temperature
\* (_stabilize_curve_target).
Converges == steady # None ~> [](steady # None /\ Rests)

\* "At or above 98 C do not write another manual target", for "the hotter
\* available CPU/GPU temperature" (docs/SAFETY.md).
CriticalReturnsControl ==
  outcome = "targets" =>
    \A t \in {reading.cpu, reading.gpu} \ {None} : t < EmergencyFirmware

HotGpuTemps == {None, 62, 99}
=============================================================================
