CONSTANTS
  Helpers = {h1, h2}
  Manual = {m1, m2}
  Profiles = {balanced}
  Limits = {high}
  FactoryLimits = factory
  MaxFaults = 2
  MaxExternal = 1
  MaxReboots = 1
SYMMETRY Symmetry
SPECIFICATION Spec
INVARIANTS HandedBack OneFaultTolerated CustomWhileManual
PROPERTIES RollbackRestores LeaseSpec
