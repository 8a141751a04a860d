SPECIFICATION Spec
CONSTANTS
  None = None
  Spoiled = Spoiled
  Malformed = Malformed
  Unsupported = Unsupported
  InvalidConfig = InvalidConfig
  PositionScale = 4
  Step = 1
  BodyRadius = 1
  MaxIdBytes = 2
  MaxAppearanceBytes = 2
  MaxMatchPlayers = 3
  EmptyMatch <- MCEmptyMatch
  Growth <- MCGrowth
  MaxGrowth = 2
  Requests <- MCRequests
  MaxDamage = 2
  MaxMembers = 13
  AbiVersion = 1
  Happenings <- MCHappenings
  Refusals <- MCRefusals
  Pictures <- MCPictures
  MaxEvents = 2
  Lobbies <- MCLobbies
  Guests <- MCGuests
  MaxGuests = 4
INVARIANTS
  ReplicasAgree
  DigestsTellApart
  NothingIsMisread
  MeasureIsAsDocumented
  PublishedIsUnderstood
  CreatedIsPlayable
CHECK_DEADLOCK FALSE
