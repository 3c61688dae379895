CONSTANTS
  None = None
  MinRpm = 1700
  MaxRpm = 5300
  StepRpm = 100
  Policies <- MCPolicies
  CpuTemps <- MCCpuTemps
  GpuTemps <- MCGpuTemps
  SteadyTemps = {40, 57}
SPECIFICATION MCLiveSpec
INVARIANTS TargetsAccepted NeverBelowDemand HeatReachesFans DropRate
PROPERTIES DropOnlyWhenCool SpikeFiltered Converges
