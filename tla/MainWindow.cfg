CONSTANTS
  Profiles = {"quiet", "fast"}
  Policies = {"curve"}
  Scenes <- MCScenes
  Rule <- MCRule
  MaxFaults = 1
  MaxExternals = 1
SPECIFICATION MCSpec
INVARIANTS CaughtUp ProfileConfirmed FanDraftKept
PROPERTIES DisplaysCurrent TransitionActedOn
