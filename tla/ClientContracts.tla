--------------------------- MODULE ClientContracts ---------------------------
(***************************************************************************)
(* The documents the managed client accepts: its records as declared in    *)
(* SnapshotContracts.cs, PresentationContracts.cs, ResponseContracts.cs    *)
(* and BotContracts.cs, read under the strict options of Envelopes.cs: a   *)
(* member that is missing, unknown, or null without being nullable, and a  *)
(* name outside its enum, fail the whole document.                         *)
(***************************************************************************)
EXTENDS Wire

UInt == <<"uint">>
Int32 == <<"int">>
Bool == <<"bool">>
Text == <<"text">>
Enum(names)        == <<"enum", names>>
ListOf(t)          == <<"list", t>>
Nullable(t)        == <<"nullable", t>>
RecordOf(list)      == <<"object", list>>
Union(tag, cases)  == <<"union", tag, cases>>
NoMembers          == [member \in {} |-> Text]

ClientPhase == Enum({"matchIntro", "turnStart", "movement", "aimingAndSelection",
               "commandLocked", "resolution", "settling", "passiveSelection",
               "statusResolution", "victoryCheck", "matchComplete"})
ClientMaterial == Enum({"empty", "soil", "wood", "reinforcedStone"})
ClientAxis     == Enum({"columns", "rows"})
ClientObjects  == Enum({"turret", "embeddedKnife", "gasCloud"})
ClientSlots    == Enum({"main", "secondary", "meleeTool", "trinket"})

(* ClientStatusKind and ClientEffectKind.                                  *)
ClientEffects ==
  Enum({"knockback", "chill", "cluster", "embers", "tunnel", "return", "recoil",
        "selfDamage", "teleport", "pull", "push", "wallImpact", "lockdown",
        "spawnTurret", "heal", "healthTransfer", "multiStrike", "guaranteeCrit",
        "embedProjectile", "chainDetonate", "relocate", "obscure"})

(* ClientCommandRejectionReason: no reason for running out of ammunition.  *)
ClientRejections ==
  Enum({"duplicateCommand", "playerEliminated", "notActivePlayer", "wrongPhase",
        "turnVersionMismatch", "unknownCharacter", "abilityNotAvailable",
        "gaugeNotReady", "alreadyAttacked", "inputOutOfRange", "invalidTarget",
        "invalidPassive", "passiveAlreadyChosen"})

ClientPosition  == RecordOf([x |-> Int32, y |-> Int32])
ClientRectangle == RecordOf([x |-> Int32, y |-> Int32, width |-> UInt, height |-> UInt])

ClientBlock ==
  RecordOf([id |-> UInt, originCellX |-> Int32, originCellY |-> Int32,
          widthCells |-> UInt, heightCells |-> UInt, material |-> ClientMaterial,
          health |-> UInt, maxHealth |-> UInt, erosionAxis |-> ClientAxis])

ClientPlayer ==
  RecordOf([playerId |-> Text, team |-> UInt, health |-> UInt, isEliminated |-> Bool,
          maxHealth |-> UInt, position |-> ClientPosition,
          collisionCenter |-> ClientPosition, collisionRadius |-> Int32,
          characterId |-> Text,
          loadout |-> RecordOf([main |-> Text, secondary |-> Text, meleeTool |-> Text,
                              trinket |-> Text]),
          ammo |-> ListOf(RecordOf([remaining |-> UInt, maximum |-> UInt,
                                  policy |-> Enum({"finite", "unlimited"})])),
          trinketCharge |-> UInt,
          statuses |-> ListOf(RecordOf([kind |-> ClientEffects, magnitude |-> Int32,
                                      turnsRemaining |-> UInt])),
          appearance |-> RecordOf([skinId |-> Text, abilitySkinIds |-> ListOf(Text),
                                 victoryPoseId |-> Text])])

ClientObject ==
  RecordOf([sequence |-> UInt, ownerId |-> Text, kind |-> ClientObjects,
          position |-> ClientPosition, health |-> UInt, turnsRemaining |-> UInt])

ClientOutcome ==
  Union("kind", [inProgress |-> NoMembers, victory |-> [team |-> UInt],
                 draw |-> NoMembers])

ClientMatchSnapshot ==
  RecordOf([schemaVersion |-> UInt, abiVersion |-> UInt, simulationVersion |-> UInt,
          contentVersion |-> UInt, positionScale |-> Int32, fixedTickRate |-> UInt,
          matchId |-> Text, mapId |-> Text, snapshotGeneration |-> UInt,
          tick |-> UInt, turnNumber |-> UInt, phase |-> ClientPhase,
          activePlayerId |-> Nullable(Text),
          currentAndUpcomingPlayerIds |-> ListOf(Text), windPerTick |-> Int32,
          movementRemaining |-> Int32, hasAttackedThisTurn |-> Bool,
          inputOpensAt |-> Nullable(UInt), deadlineAt |-> Nullable(UInt),
          outcome |-> ClientOutcome, terrainWidth |-> UInt, terrainHeight |-> UInt,
          terrainGeneration |-> UInt, blocks |-> ListOf(ClientBlock),
          players |-> ListOf(ClientPlayer),
          persistentObjects |-> ListOf(ClientObject), stateHash |-> Text])

-----------------------------------------------------------------------------

ClientImpact ==
  RecordOf([position |-> ClientPosition, tick |-> UInt,
          cause |-> Enum({"terrain", "character", "outOfBounds", "expired"})])

ClientTrace ==
  RecordOf([traceId |-> UInt, ownerId |-> Text, abilityId |-> Text,
          samples |-> ListOf(RecordOf([tick |-> UInt, position |-> ClientPosition])),
          terminalImpact |-> ClientImpact])

ClientStrike ==
  RecordOf([strikeIndex |-> UInt, targetPlayerId |-> Text, impactPoint |-> ClientPosition,
          delivery |-> Union("kind", [projectile |-> [traceSequence |-> UInt],
                                      melee |-> NoMembers,
                                      effect |-> [effectKind |-> ClientEffects]]),
          crit |-> Enum({"notEligible", "missed", "landed", "forced"}),
          damageApplied |-> UInt, eliminatedTarget |-> Bool])

ClientBreakdown ==
  RecordOf([direct |-> UInt, splash |-> UInt, backlash |-> UInt, hazard |-> UInt,
          wallImpact |-> UInt, healed |-> UInt, wasCritical |-> Bool,
          knockback |-> ClientPosition, eliminated |-> Bool])

ClientRandom ==
  Union("purpose",
    [arzumChainStrikeTeleportTarget |->
       [candidateCount |-> UInt, selectedIndex |-> UInt, targetPlayerId |-> Text,
        destination |-> ClientPosition],
     alephVeilstepTeleportPoint |->
       [axisBound |-> UInt, xResult |-> UInt, yResult |-> UInt,
        fallbackUsed |-> Bool, drawnPoint |-> ClientPosition,
        destination |-> ClientPosition]])

ClientStatusTransition ==
  LET applied == [magnitude |-> Int32, turnsRemaining |-> UInt]
  IN  Union("kind",
        [applied |-> applied,
         refreshed |-> applied @@ [replacedMagnitude |-> Int32,
                                   replacedTurnsRemaining |-> UInt],
         chargeConsumed |-> [remaining |-> Int32],
         ticked |-> [turnsRemaining |-> UInt],
         exhausted |-> NoMembers, expired |-> NoMembers])

ClientEliminationCause ==
  LET by == [ownerId |-> Text, abilityId |-> Text]
  IN  Union("kind",
        [strike |-> by @@ [strikeIndex |-> UInt], backlash |-> by, splash |-> by,
         wallImpact |-> by, abilityEffect |-> by, hazard |-> NoMembers,
         authoritativeResolution |-> NoMembers])

(* ClientPresentationEvent: its derived records by their discriminator.    *)
ClientEvents ==
  LET player == [playerId |-> Text]
      cast   == [ownerId |-> Text, abilityId |-> Text]
      health == player @@ [previousHealth |-> UInt, newHealth |-> UInt]
      bounds == Nullable(ClientRectangle)
  IN
  [projectileTrace |-> [trace |-> ClientTrace],
   impact          |-> [traceId |-> UInt, impact |-> ClientImpact],
   strikeResolved  |-> cast @@ [strike |-> ClientStrike],
   terrainChanged  |-> [terrainGeneration |-> UInt,
                        dirtyRectangles |-> ListOf(ClientRectangle)],
   blockChanged    |-> [blockId |-> UInt, previousHealth |-> Nullable(UInt),
                        newHealth |-> Nullable(UInt),
                        previousSurvivingBounds |-> bounds,
                        newSurvivingBounds |-> bounds],
   healthChanged   |-> health @@ [breakdown |-> Nullable(ClientBreakdown)],
   gaugeChanged    |-> player @@ [previousGauge |-> UInt, newGauge |-> UInt,
                                  delta |-> Int32],
   randomOutcome   |-> cast @@ [outcome |-> ClientRandom],
   statusChanged   |-> player @@ [statusKind |-> ClientEffects,
                                  transition |-> ClientStatusTransition],
   entityMoved     |-> player @@ [start |-> ClientPosition, end |-> ClientPosition,
                         cause |-> Enum({"requestedMove", "authoritativeResolution"})],
   objectSpawned   |-> [object |-> ClientObject],
   objectChanged   |-> [previous |-> ClientObject, current |-> ClientObject],
   objectRemoved   |-> [previous |-> ClientObject,
                        cause |-> Enum({"replaced", "capacityEvicted", "detonated",
                                        "expired", "destroyed", "ownerEliminated"})],
   playerEliminated |-> player @@ [cause |-> ClientEliminationCause],
   passiveChoiceRequired |-> player @@ [passiveIds |-> ListOf(Text)],
   passiveChosen   |-> player @@ [passiveId |-> Text],
   turnEnded       |-> player @@ [reason |-> Enum({"attacked", "passed", "timedOut",
                                                   "eliminated"})],
   turnOpened      |-> player @@ [turnNumber |-> UInt, inputOpensAt |-> Nullable(UInt),
                                  deadlineAt |-> Nullable(UInt)],
   matchCompleted  |-> [outcome |-> ClientOutcome]]

ClientEvent ==
  Union("kind", [kind \in DOMAIN ClientEvents |->
                   [presentationTick |-> UInt, sequence |-> UInt] @@ ClientEvents[kind]])

ClientRejection ==
  Union("kind", [snapshotGenerationMismatch |-> [expected |-> UInt, actual |-> UInt],
                 commandIdConflict |-> NoMembers,
                 core |-> [reason |-> ClientRejections]])

ClientMatchTransition ==
  RecordOf([schemaVersion |-> UInt, commandId |-> Text,
          disposition |-> Enum({"accepted", "rejected", "duplicateReplay"}),
          rejectionReason |-> Nullable(ClientRejection),
          preSnapshotGeneration |-> UInt, postSnapshotGeneration |-> UInt,
          presentationTickRate |-> UInt, inputLockTicks |-> UInt,
          events |-> ListOf(ClientEvent), postSnapshot |-> ClientMatchSnapshot,
          postStateHash |-> Text])

ClientBotDecision ==
  LET schema == [schemaVersion |-> UInt]
  IN  Union("kind",
        [move |-> schema @@ [dx |-> Int32],
         ability |-> schema @@ [slot |-> ClientSlots, angleMillidegrees |-> Int32,
                                powerBasisPoints |-> Int32,
                                targetPlayerId |-> Nullable(Text),
                                secondaryTargetPlayerId |-> Nullable(Text)],
         passiveChoice |-> schema @@ [passiveId |-> Text],
         pass |-> schema, jump |-> schema])

-----------------------------------------------------------------------------
(* ClientEnvelope.Options: the whole value, or nothing.                    *)
RECURSIVE Accepts(_, _)
Accepts(type, value) ==
  LET all(list) ==
        /\ DOMAIN value = DOMAIN list
        /\ \A m \in DOMAIN list : Accepts(list[m], value[m])
  IN  CASE value = None      -> type[1] = "nullable"
        [] value # None ->
           CASE type[1] = "uint" -> value \in Nat
             [] type[1] = "int"  -> value \in Int
             [] type[1] = "bool" -> value \in BOOLEAN
             [] type[1] = "text" -> TRUE
             [] type[1] = "enum" -> value \in type[2]
             [] type[1] = "list" -> \A i \in DOMAIN value : Accepts(type[2], value[i])
             [] type[1] = "nullable" -> Accepts(type[2], value)
             [] type[1] = "object" -> all(type[2])
             [] type[1] = "union" ->
                  /\ value[type[2]] \in DOMAIN type[3]
                  /\ all((type[2] :> Text) @@ type[3][value[type[2]]])

=============================================================================
