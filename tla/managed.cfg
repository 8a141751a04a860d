SPECIFICATION FairSpec
CONSTANTS
  Player <- Duelists
  Team <- DuelTeams
  Allowance <- DuelAllowance
  MaxHealth = 1
  ChargeFull = 1
  HardTurnLimit = 2
  MaxTurn = 3
  CommandId <- OneId
  EmberTurns <- NoEmbers
  EntryLimit = 1
  ByteLimit = 1
  EntryBytes <- Sizes
  MaxGeneration = 1
  Caller <- TwoCallers
  Asked <- Passes
  a = a
  b = b
  c1 = c1
INVARIANTS
  NoCallOnDestroyed
  FlagsAgree
PROPERTIES
  CallersAreServed
\* Once disposed with callers waiting, a session may have nobody left to move.
CHECK_DEADLOCK FALSE
