SPECIFICATION Spec
CONSTANTS
  None = None
  Player = {1, 2}
  Transitions <- MCTransitions
  Frames = {20, 90}
  Views <- MCViews
  MaxParticles = 24
  MaxShockwaves = 3
  MaxTargetMarkers = 5
  MaxDamageTexts = 2
INVARIANTS
  NothingIsCutShort
  DeathsAreShown
PROPERTIES
  IndicatorsOnEveryTier
  NobodyStepsBack
CHECK_DEADLOCK FALSE
