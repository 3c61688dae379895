CONSTANTS
  None = None
  MinRpm = 1700
  MaxRpm = 5300
  StepRpm = 100
  Policies <- MCPolicies
  CpuTemps <- MCCpuTemps
  GpuTemps <- HotGpuTemps
  SteadyTemps = {}
SPECIFICATION MCSpec
INVARIANT CriticalReturnsControl
