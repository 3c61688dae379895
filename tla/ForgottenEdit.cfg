CONSTANTS
  Configs = {red, white}
  MaxFaults = 1
  MaxCrashes = 0
  MaxEffects = 0
  MaxPlugs = 0
SPECIFICATION MCLiveSpec
PROPERTY EditsSent
