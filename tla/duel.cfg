SPECIFICATION Spec
CONSTANTS
  Player <- Duelists
  Team <- DuelTeams
  Allowance <- DuelAllowance
  MaxHealth = 2
  ChargeFull = 1
  HardTurnLimit = 5
  MaxTurn = 6
  CommandId <- ThreeIds
  EmberTurns <- TwoTurns
  JumpBound = 1
  c1 = c1
  c2 = c2
  c3 = c3
SYMMETRY IdSymmetry
INVARIANTS
  TypeOK
  BetweenCalls
  EmbersLastOwnTurns
  CommandsActOnce
PROPERTIES
  TurnsChangeHands
