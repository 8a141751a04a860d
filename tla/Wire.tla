-------------------------------- MODULE Wire --------------------------------
(***************************************************************************)
(* What leaves the native library: the camelCase documents of wire.rs. A   *)
(* structure is the record of its members, a payload is flattened next to  *)
(* the name of its variant, and an absent value is a member that is null  *)
(* (None).                                                                 *)
(***************************************************************************)
EXTENDS Setup

CONSTANT AbiVersion          \* ABI_VERSION

PhaseName ==
  [MatchIntro |-> "matchIntro", TurnStart |-> "turnStart", Movement |-> "movement",
   AimingAndSelection |-> "aimingAndSelection", PassiveSelection |-> "passiveSelection",
   CommandLocked |-> "commandLocked", Resolution |-> "resolution",
   Settling |-> "settling", StatusResolution |-> "statusResolution",
   VictoryCheck |-> "victoryCheck", MatchComplete |-> "matchComplete"]

MaterialName == [Empty |-> "empty", Soil |-> "soil", Wood |-> "wood",
                 ReinforcedStone |-> "reinforcedStone"]

AxisName == [Columns |-> "columns", Rows |-> "rows"]

(* One vocabulary for the kind of a status and of an effect.               *)
EffectName ==
  [Knockback |-> "knockback", Chill |-> "chill", Cluster |-> "cluster",
   Embers |-> "embers", Tunnel |-> "tunnel", Return |-> "return",
   Recoil |-> "recoil", SelfDamage |-> "selfDamage", Teleport |-> "teleport",
   Pull |-> "pull", Push |-> "push", WallImpact |-> "wallImpact",
   Lockdown |-> "lockdown", SpawnTurret |-> "spawnTurret", Heal |-> "heal",
   HealthTransfer |-> "healthTransfer", MultiStrike |-> "multiStrike",
   GuaranteeCrit |-> "guaranteeCrit", EmbedProjectile |-> "embedProjectile",
   ChainDetonate |-> "chainDetonate", Relocate |-> "relocate", Obscure |-> "obscure"]

ObjectName == [Turret |-> "turret", EmbeddedKnife |-> "embeddedKnife",
               GasCloud |-> "gasCloud"]

ImpactName == [Terrain |-> "terrain", Character |-> "character",
               OutOfBounds |-> "outOfBounds", Expired |-> "expired"]

CritName == [NotEligible |-> "notEligible", Missed |-> "missed",
             Landed |-> "landed", Forced |-> "forced"]

MovementName == [RequestedMove |-> "requestedMove",
                 AuthoritativeResolution |-> "authoritativeResolution"]

RemovalName ==
  [Replaced |-> "replaced", CapacityEvicted |-> "capacityEvicted",
   Detonated |-> "detonated", Expired |-> "expired", Destroyed |-> "destroyed",
   OwnerEliminated |-> "ownerEliminated"]

ReasonName == [Attacked |-> "attacked", Passed |-> "passed",
               TimedOut |-> "timedOut", Eliminated |-> "eliminated"]

DispositionName == [Accepted |-> "accepted", Rejected |-> "rejected",
                    DuplicateReplay |-> "duplicateReplay"]

PolicyName == [Finite |-> "finite", Unlimited |-> "unlimited"]

RejectionName ==
  [DuplicateCommand |-> "duplicateCommand", PlayerEliminated |-> "playerEliminated",
   NotActivePlayer |-> "notActivePlayer", WrongPhase |-> "wrongPhase",
   TurnVersionMismatch |-> "turnVersionMismatch",
   UnknownCharacter |-> "unknownCharacter",
   AbilityNotAvailable |-> "abilityNotAvailable", GaugeNotReady |-> "gaugeNotReady",
   OutOfAmmo |-> "outOfAmmo", AlreadyAttacked |-> "alreadyAttacked",
   InputOutOfRange |-> "inputOutOfRange", InvalidTarget |-> "invalidTarget",
   InvalidPassive |-> "invalidPassive",
   PassiveAlreadyChosen |-> "passiveAlreadyChosen"]

-----------------------------------------------------------------------------

WirePosition(p) == [x |-> p[1], y |-> p[2]]

WireRectangle(r) == [x |-> r[1], y |-> r[2], width |-> r[3], height |-> r[4]]

WireOutcome(o) ==
  CASE o.kind = "InProgress" -> [kind |-> "inProgress"]
    [] o.kind = "Victory"    -> [kind |-> "victory", team |-> o.team]
    [] o.kind = "Draw"       -> [kind |-> "draw"]

WireBlock(b) ==
  [id |-> b.id, originCellX |-> b.x, originCellY |-> b.y, widthCells |-> b.width,
   heightCells |-> b.height, material |-> MaterialName[b.material],
   health |-> b.health, maxHealth |-> b.max, erosionAxis |-> AxisName[b.axis]]

WireStatus(s) ==
  [kind |-> EffectName[s.kind], magnitude |-> s.magnitude, turnsRemaining |-> s.turns]

WireAmmo(a) ==
  [remaining |-> a.remaining, maximum |-> a.maximum, policy |-> PolicyName[a.policy]]

WirePlayer(p) ==
  [playerId |-> p.id, team |-> p.team, health |-> p.health,
   isEliminated |-> p.eliminated, maxHealth |-> p.max,
   position |-> WirePosition(p.position), collisionCenter |-> WirePosition(p.center),
   collisionRadius |-> p.radius, characterId |-> Announced(p.loadout),
   loadout |-> [main |-> p.loadout[1], secondary |-> p.loadout[2],
                meleeTool |-> p.loadout[3], trinket |-> p.loadout[4]],
   ammo |-> [i \in 1..3 |-> WireAmmo(p.ammo[i])], trinketCharge |-> p.charge,
   statuses |-> [i \in DOMAIN p.statuses |-> WireStatus(p.statuses[i])],
   appearance |-> [skinId |-> p.appearance.skin,
                   abilitySkinIds |-> p.appearance.effects,
                   victoryPoseId |-> p.appearance.pose]]

WireObject(o) ==
  [sequence |-> o.sequence, ownerId |-> o.owner, kind |-> ObjectName[o.kind],
   position |-> WirePosition(o.position), health |-> o.health,
   turnsRemaining |-> o.turns]

ClocksSkippedBug == [member \in {} |-> None]

(* Nothing in the library knows the time: the clocks are sent, and null.   *)
Clocks == [inputOpensAt |-> None, deadlineAt |-> None]

WireSnapshot(s, match, map) ==
  [schemaVersion |-> s.contract, abiVersion |-> AbiVersion,
   simulationVersion |-> s.simulation, contentVersion |-> s.content,
   positionScale |-> s.scale, fixedTickRate |-> s.rate, matchId |-> match,
   mapId |-> map, snapshotGeneration |-> s.generation, tick |-> s.tick,
   turnNumber |-> s.turn, phase |-> PhaseName[s.phase],
   activePlayerId |-> s.active, currentAndUpcomingPlayerIds |-> s.order,
   windPerTick |-> s.wind, movementRemaining |-> s.moves,
   hasAttackedThisTurn |-> s.attacked,
   outcome |-> WireOutcome(s.outcome), terrainWidth |-> s.width,
   terrainHeight |-> s.height, terrainGeneration |-> s.terrain,
   blocks |-> [i \in DOMAIN s.blocks |-> WireBlock(s.blocks[i])],
   players |-> [i \in DOMAIN s.players |-> WirePlayer(s.players[i])],
   persistentObjects |-> [i \in DOMAIN s.objects |-> WireObject(s.objects[i])],
   stateHash |-> s.hash] @@ Clocks

-----------------------------------------------------------------------------

WireImpact(i) ==
  [position |-> WirePosition(i.position), tick |-> i.tick, cause |-> ImpactName[i.cause]]

WireTrace(t) ==
  [traceId |-> t.trace, ownerId |-> t.owner, abilityId |-> t.ability,
   samples |-> [i \in DOMAIN t.samples |->
     [tick |-> t.samples[i][1],
      position |-> WirePosition(<<t.samples[i][2], t.samples[i][3]>>)]],
   terminalImpact |-> WireImpact(t.impact)]

WireDelivery(d) ==
  CASE d.kind = "Projectile" -> [kind |-> "projectile", traceSequence |-> d.trace]
    [] d.kind = "Melee"      -> [kind |-> "melee"]
    [] d.kind = "Effect"     -> [kind |-> "effect", effectKind |-> EffectName[d.effect]]

WireStrike(k) ==
  [strikeIndex |-> k.index, targetPlayerId |-> k.target,
   impactPoint |-> WirePosition(k.point), delivery |-> WireDelivery(k.delivery),
   crit |-> CritName[k.crit], damageApplied |-> k.damage,
   eliminatedTarget |-> k.eliminated]

WireBreakdown(d) ==
  [direct |-> d.direct, splash |-> d.splash, backlash |-> d.backlash,
   hazard |-> d.hazard, wallImpact |-> d.wall, healed |-> d.healed,
   wasCritical |-> d.critical, knockback |-> WirePosition(d.knockback),
   eliminated |-> d.eliminated]

WireRandom(o) ==
  CASE o.kind = "ChainStrikeTarget" ->
         [purpose |-> "arzumChainStrikeTeleportTarget", candidateCount |-> o.count,
          selectedIndex |-> o.selected, targetPlayerId |-> o.target,
          destination |-> WirePosition(o.destination)]
    [] o.kind = "VeilstepPoint" ->
         [purpose |-> "alephVeilstepTeleportPoint", axisBound |-> o.bound,
          xResult |-> o.x, yResult |-> o.y, fallbackUsed |-> o.fallback,
          drawnPoint |-> WirePosition(o.drawn),
          destination |-> WirePosition(o.destination)]

WireChange(c) ==
  CASE c.kind = "Applied" ->
         [kind |-> "applied", magnitude |-> c.magnitude, turnsRemaining |-> c.turns]
    [] c.kind = "Refreshed" ->
         [kind |-> "refreshed", magnitude |-> c.magnitude, turnsRemaining |-> c.turns,
          replacedMagnitude |-> c.oldMagnitude, replacedTurnsRemaining |-> c.oldTurns]
    [] c.kind = "ChargeConsumed" -> [kind |-> "chargeConsumed", remaining |-> c.remaining]
    [] c.kind = "Ticked"    -> [kind |-> "ticked", turnsRemaining |-> c.turns]
    [] c.kind = "Exhausted" -> [kind |-> "exhausted"]
    [] c.kind = "Expired"   -> [kind |-> "expired"]

WireCause(c) ==
  LET by(kind) == [kind |-> kind, ownerId |-> c.owner, abilityId |-> c.ability]
  IN  CASE c.kind = "Strike"        -> [strikeIndex |-> c.index] @@ by("strike")
        [] c.kind = "Backlash"      -> by("backlash")
        [] c.kind = "Splash"        -> by("splash")
        [] c.kind = "WallImpact"    -> by("wallImpact")
        [] c.kind = "AbilityEffect" -> by("abilityEffect")
        [] c.kind = "Hazard"        -> [kind |-> "hazard"]
        [] c.kind = "AuthoritativeResolution" -> [kind |-> "authoritativeResolution"]

Bounds(r) == IF r = None THEN None ELSE WireRectangle(r)


WireEventKind(e) ==
  CASE e.kind = "ProjectileTrace" ->
         [kind |-> "projectileTrace", trace |-> WireTrace(e.trace)]
    [] e.kind = "Impact" ->
         [kind |-> "impact", traceId |-> e.trace, impact |-> WireImpact(e.impact)]
    [] e.kind = "StrikeResolved" ->
         [kind |-> "strikeResolved", ownerId |-> e.owner, abilityId |-> e.ability,
          strike |-> WireStrike(e.strike)]
    [] e.kind = "TerrainChanged" ->
         [kind |-> "terrainChanged", terrainGeneration |-> e.generation,
          dirtyRectangles |-> [i \in DOMAIN e.dirty |-> WireRectangle(e.dirty[i])]]
    [] e.kind = "BlockChanged" ->
         [kind |-> "blockChanged", blockId |-> e.block,
          previousHealth |-> e.before, newHealth |-> e.after,
          previousSurvivingBounds |-> Bounds(e.was),
          newSurvivingBounds |-> Bounds(e.is)]
    [] e.kind = "HealthChanged" ->
         [kind |-> "healthChanged", playerId |-> e.player,
          previousHealth |-> e.before, newHealth |-> e.after,
          breakdown |-> IF e.breakdown = None THEN None ELSE WireBreakdown(e.breakdown)]
    [] e.kind = "GaugeChanged" ->
         [kind |-> "gaugeChanged", playerId |-> e.player, previousGauge |-> e.before,
          newGauge |-> e.after, delta |-> e.delta]
    [] e.kind = "RandomOutcome" ->
         [kind |-> "randomOutcome", ownerId |-> e.owner, abilityId |-> e.ability,
          outcome |-> WireRandom(e.draw)]
    [] e.kind = "StatusChanged" ->
         [kind |-> "statusChanged", playerId |-> e.player,
          statusKind |-> EffectName[e.status], transition |-> WireChange(e.change)]
    [] e.kind = "EntityMoved" ->
         [kind |-> "entityMoved", playerId |-> e.player, start |-> WirePosition(e.start),
          end |-> WirePosition(e.end), cause |-> MovementName[e.cause]]
    [] e.kind = "ObjectSpawned" ->
         [kind |-> "objectSpawned", object |-> WireObject(e.object)]
    [] e.kind = "ObjectChanged" ->
         [kind |-> "objectChanged", previous |-> WireObject(e.previous),
          current |-> WireObject(e.object)]
    [] e.kind = "ObjectRemoved" ->
         [kind |-> "objectRemoved", previous |-> WireObject(e.previous),
          cause |-> RemovalName[e.cause]]
    [] e.kind = "PlayerEliminated" ->
         [kind |-> "playerEliminated", playerId |-> e.player, cause |-> WireCause(e.cause)]
    [] e.kind = "PassiveChoiceRequired" ->
         [kind |-> "passiveChoiceRequired", playerId |-> e.player,
          passiveIds |-> e.passives]
    [] e.kind = "PassiveChosen" ->
         [kind |-> "passiveChosen", playerId |-> e.player, passiveId |-> e.passive]
    [] e.kind = "TurnEnded" ->
         [kind |-> "turnEnded", playerId |-> e.player, reason |-> ReasonName[e.reason]]
    [] e.kind = "TurnOpened" ->
         [kind |-> "turnOpened", playerId |-> e.player, turnNumber |-> e.turn]
         @@ Clocks
    [] e.kind = "MatchCompleted" ->
         [kind |-> "matchCompleted", outcome |-> WireOutcome(e.outcome)]

WireRejection(r) ==
  CASE r.kind = "SnapshotGenerationMismatch" ->
         [kind |-> "snapshotGenerationMismatch", expected |-> r.expected,
          actual |-> r.actual]
    [] r.kind = "CommandIdConflict" -> [kind |-> "commandIdConflict"]
    [] r.kind = "Core" -> [kind |-> "core", reason |-> RejectionName[r.reason]]

WireTransition(t, match, map) ==
  [schemaVersion |-> t.schema, commandId |-> t.id,
   disposition |-> DispositionName[t.disposition],
   rejectionReason |-> IF t.rejection = None THEN None ELSE WireRejection(t.rejection),
   preSnapshotGeneration |-> t.pre, postSnapshotGeneration |-> t.post,
   presentationTickRate |-> t.rate, inputLockTicks |-> t.lock,
   events |-> [i \in DOMAIN t.events |->
     [presentationTick |-> t.events[i].tick, sequence |-> t.events[i].sequence]
     @@ WireEventKind(t.events[i].what)],
   postSnapshot |-> WireSnapshot(t.snapshot, match, map),
   postStateHash |-> t.hash]

(* What the bot proposes, before the client puts it in an envelope.        *)
WireBotDecision(r) ==
  [schemaVersion |-> ContractVersion] @@
  CASE r.kind = "Move"    -> [kind |-> "move", dx |-> r.dx]
    [] r.kind = "Ability" ->
         [kind |-> "ability", slot |-> WireName(r.slot), angleMillidegrees |-> r.angle,
          powerBasisPoints |-> r.power, targetPlayerId |-> r.target,
          secondaryTargetPlayerId |-> r.second]
    [] r.kind = "Passive" -> [kind |-> "passiveChoice", passiveId |-> r.passive]
    [] r.kind = "Pass"    -> [kind |-> "pass"]
    [] r.kind = "Jump"    -> [kind |-> "jump"]

=============================================================================
