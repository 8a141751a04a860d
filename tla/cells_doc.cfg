CONSTANTS
  PositionScale = 8
  Step = 2
  BodyRadius = 4
  BodyWidth = 16
  ClusterStep = 8
  ClusterRadius = 1
  Width = 6
  Height = 7
  MaxPasses = 4
  MaxHealth = 3
  Allowance = 16
  MaxTurns = 3
  MaxDebt = 1
  Player = {1, 2}
  NoImpact = NoImpact
  NoTarget = NoTarget
  Kit <- MCKit
  Launch <- MCLaunch
  Distance <- MCDistance
  Ground <- MCGround
  Spawn <- MCSpawn
SPECIFICATION Spec
CHECK_DEADLOCK FALSE
INVARIANT CellsMatchHealth
