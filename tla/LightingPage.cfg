CONSTANTS
  Configs = {red, white}
  MaxFaults = 2
  MaxCrashes = 1
  MaxEffects = 1
  MaxPlugs = 2
SPECIFICATION MCLiveSpec
INVARIANTS TypeOK ChoiceShows DraftKept RecordShows
PROPERTY EditsSentUnlessFailed
