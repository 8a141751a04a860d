CONSTANTS
  Player <- Duelists
  Team <- DuelTeams
  Allowance <- DuelAllowance
  Bot <- TheBot
  MaxHealth = 2
  ChargeFull = 1
  HardTurnLimit = 3
  MaxTurn = 4
  CommandId <- Ordinals
  EmberTurns <- NoEmbers
  EntryLimit = 4
  ByteLimit = 9
  EntryBytes <- Sizes
  MaxGeneration = 9
  Window = 2
  MaxLock = 2
  NoDeadline = NoDeadline
  Answered = Answered
SPECIFICATION FairSpec
INVARIANTS ViewIsCurrent OneWindowPerTurn BotIsNeverRefused
PROPERTY LiveMatchEnds
