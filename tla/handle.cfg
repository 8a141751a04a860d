SPECIFICATION Spec
CONSTANTS
  Player <- Duelists
  Team <- DuelTeams
  Allowance <- DuelAllowance
  MaxHealth = 1
  ChargeFull = 1
  HardTurnLimit = 2
  MaxTurn = 3
  CommandId <- TwoIds
  EmberTurns <- NoEmbers
  EntryLimit = 2
  ByteLimit = 4
  EntryBytes <- Sizes
  MaxGeneration = 2
  Caller <- Callers
  Asked <- Enders
  a = a
  b = b
  c1 = c1
  c2 = c2
SYMMETRY HandleSymmetry
PROPERTIES
  ChangesAreReturned
  ImplementsSession
