SPECIFICATION Spec
CONSTANTS
  Player <- Duelists
  Team <- DuelTeams
  Allowance <- DuelAllowance
  MaxHealth = 1
  ChargeFull = 1
  HardTurnLimit = 3
  MaxTurn = 4
  CommandId <- FourIds
  EmberTurns <- NoEmbers
  EntryLimit = 3
  ByteLimit = 8
  EntryBytes <- Sizes
  MaxGeneration = 2
  Asked <- Racers
  c1 = c1
  c2 = c2
  c3 = c3
  c4 = c4
SYMMETRY FourSymmetry
INVARIANTS
  AnswersAreFinal
  CheckpointsRestore
  OneEndPerTurn
  PreviewForetells
PROPERTIES
  ChangesAreReceipted
