SPECIFICATION FairSpec
CONSTANTS
  Player <- Pairs
  Team <- PairTeams
  Allowance <- PairAllowance
  MaxHealth = 1
  ChargeFull = 1
  HardTurnLimit = 5
  MaxTurn = 6
  CommandId <- TwoIds
  EmberTurns <- NoEmbers
  JumpBound = 0
  c1 = c1
  c2 = c2
  c3 = c3
PROPERTIES
  ImplementsTurnOrder
  MatchEnds
