SPECIFICATION Spec
CONSTANTS
  Player = {1, 2, 3}
  Team <- MCTeam
  Allowance <- MCAllowance
  MaxHealth = 2
  ChargeFull = 1
  HardTurnLimit = 5
  MaxTurn = 6
  CommandId = {1, 2, 3, 4}
  EmberTurns = {1}
  Words = 8
  RngState = {0, 1, 2, 3, 4, 5, 6, 7, 8, 9, 10, 11, 12, 13, 14, 15}
  Advance <- MCAdvance
  Output <- MCOutput
  CritBound = 3
  Nobody = Nobody
  Kit <- MCKit
  Lines <- MCLines
  Ticks = {1, 2}
  Drops = {0, 1}
  Seeds = {0}
INVARIANTS
  ReceiptsReconcile
  StoryIsTold
  DrawsReplay
  OutcomesAreEffects
CHECK_DEADLOCK FALSE
