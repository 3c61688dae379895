CONSTANTS
  Helpers = {h1, h2}
  Manual = {m1, m2}
  Profiles = {balanced}
  Limits = {high}
  FactoryLimits = factory
  MaxFaults = 1
  MaxExternal = 0
  MaxReboots = 0
SPECIFICATION FairSpec
PROPERTIES ManualTakesEffect
