CONSTANTS
  Limits = {1, 2}
  DefaultLimit = 2
  Hot = TRUE
  MaxEdits = 2
  Lines <- MCLines
  Modes = {"S", "X"}
  Tiers = {"tier1"}
  ResolvedModes <- MCResolved
  TierMax <- MCTierMax
  FallbackMax = 2
  ModeMax <- MCModeMax
  ModeExposure <- MCModeExposure
  Options <- MCOptions
  MaxLines = 3
SPECIFICATION FairSpec
INVARIANTS CountsAddUp AdmissionsLimited
PROPERTIES ConfigMovesForward EditsLoaded
CHECK_DEADLOCK FALSE
