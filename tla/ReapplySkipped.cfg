CONSTANTS
  Configs = {red, white}
  MaxFaults = 0
  MaxCrashes = 0
  MaxEffects = 1
  MaxPlugs = 0
SPECIFICATION MCSpec
INVARIANT ReapplyReachesKeyboard
