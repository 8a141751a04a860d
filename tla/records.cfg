SPECIFICATION Spec
CONSTANTS
  Standing <- Stand
  Ability <- Kit
  KnifeCap = 1
  TriggerRadius = 1
  BlastRadius = 2
  BodyWidth = 0
  MaxHealth = 2
  MaxSequence = 3
  HardTurnLimit = 4
INVARIANTS
  ObjectsAreKept
PROPERTIES
  EffectsAreAccountedFor
\* A decided match stops.
CHECK_DEADLOCK FALSE
