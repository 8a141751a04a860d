------------------------------ MODULE Contract ------------------------------
(***************************************************************************)
(* What a client is told of a match, and what it weighs.                   *)
(*                                                                         *)
(*   Snapshot    the projection of a simulation state (client_contract.rs) *)
(*   Retained... the bytes a ledger entry is charged (match_session.rs):   *)
(*               one counting function per structure                       *)
(*   Schema      the declared fields of those structures, with the rule    *)
(*               the ledger's limit states for every type of field         *)
(*                                                                         *)
(* Structures are records with the code's fields, named shortly. The       *)
(* counters of optional values saturate nowhere: a u32 length never        *)
(* overflows here.                                                         *)
(***************************************************************************)
EXTENDS Canonical, Fixed

ContractVersion == 2
TickRate == 60          \* FIXED_TICK_RATE

(* snapshot_turn_order(): the living from the active player on; a dead     *)
(* active player is skipped.                                               *)
RotateFromFirst(order, first) ==
  [i \in DOMAIN order |-> order[((i + first - 2) % Len(order)) + 1]]

SnapshotTurnOrder(s) ==
  LET alive  == SelectSeq(s.players, LAMBDA p : p.health > 0)
      order  == SortSeq([i \in DOMAIN alive |-> alive[i].id], Before)
      anchor == 1 + Len(SelectSeq(order, LAMBDA id : Before(id, s.active)))
  IN  RotateFromFirst(order, anchor)

SnapshotStatuses(p) ==
  SortSeq(p.statuses, LAMBDA s, t :
    LET a == Code(Effects, s.kind)
        b == Code(Effects, t.kind)
    IN  \/ a < b
        \/ a = b /\ s.magnitude < t.magnitude
        \/ a = b /\ s.magnitude = t.magnitude /\ s.turns < t.turns)

SnapshotPlayer(p) ==
  [id |-> p.id, team |-> p.team, health |-> p.health,
   eliminated |-> p.health = 0, max |-> p.max, position |-> p.position,
   center |-> CollisionCenter(p.position), radius |-> BodyRadius,
   loadout |-> p.loadout, ammo |-> p.ammo, charge |-> p.charge,
   statuses |-> SnapshotStatuses(p), appearance |-> p.appearance]

SnapshotPlayers(s) ==
  LET sorted == SortSeq(s.players, LAMBDA p, q :
                  Before(p.id, q.id) \/ (p.id = q.id /\ p.team < q.team))
  IN  [i \in DOMAIN sorted |-> SnapshotPlayer(sorted[i])]

SnapshotObjects(s) ==
  SortSeq(s.objects, LAMBDA o, p :
    \/ o.sequence < p.sequence
    \/ o.sequence = p.sequence /\ Before(o.owner, p.owner))

SnapshotBlocks(s) ==
  SortSeq(s.blocks, LAMBDA b, c :
    \/ b.id < c.id
    \/ b.id = c.id /\ b.x < c.x
    \/ b.id = c.id /\ b.x = c.x /\ b.y < c.y)

(* MatchSnapshot::from_host(). The mask itself is read separately.         *)
Snapshot(s, outcome, generation) ==
  [contract |-> ContractVersion, simulation |-> s.simulation,
   content |-> s.content, scale |-> PositionScale, rate |-> TickRate,
   generation |-> generation,
   tick |-> s.tick, turn |-> s.turn, phase |-> s.phase,
   active |-> IF s.active = <<>> THEN None ELSE s.active,
   order |-> SnapshotTurnOrder(s), wind |-> s.wind, moves |-> s.moves,
   attacked |-> s.attacked, outcome |-> outcome, width |-> s.terrain.width,
   height |-> s.terrain.height, terrain |-> s.nextTerrain,
   blocks |-> SnapshotBlocks(s), players |-> SnapshotPlayers(s),
   objects |-> SnapshotObjects(s), hash |-> HashState(s)]

-----------------------------------------------------------------------------
(* The bytes charged for what is retained.                                 *)

Total(sizes) == FoldLeft(LAMBDA sum, n : sum + n, 0, sizes)

StringSize(s)  == 4 + Len(s)
Strings(list)  == 4 + Total([i \in DOMAIN list |-> StringSize(list[i])])
OptString(s)   == 1 + (IF s = None THEN 0 ELSE StringSize(s))
HexDigest      == 16
Position       == 8
Tag            == 1
TopLevelHeader == 6

RetainedStatus == Tag + 4 + 1

RetainedAppearance(a) ==
  StringSize(a.skin) + Strings(a.effects) + StringSize(a.pose)

RetainedPlayerNoStatusesBug(p) ==
  StringSize(p.id) + 1 + 2 + 1 + 2 + Position + Position + 4 +
  Total([i \in 1..4 |-> StringSize(p.loadout[i])]) + 2 + 3 * (1 + 2 + 2) +
  4 + RetainedAppearance(p.appearance)

RetainedPlayer(p) ==
  StringSize(p.id) + 1 + 2 + 1 + 2 + Position + Position + 4 +
  Total([i \in 1..4 |-> StringSize(p.loadout[i])]) + 2 + 3 * (1 + 2 + 2) +
  4 + Len(p.statuses) * RetainedStatus + RetainedAppearance(p.appearance)

RetainedBlock == 4 + 4 + 4 + 2 + 2 + Tag + 2 + 2 + Tag

RetainedObject(o) == 4 + StringSize(o.owner) + Tag + Position + 2 + 1

RetainedOutcome(o) == Tag + (IF o.kind = "Victory" THEN 1 ELSE 0)

RetainedSnapshot(s) ==
  4 + 4 + 4 + 4 + 4 + 8 + 8 + 4 + Tag + OptString(s.active) +
  Strings(s.order) + 4 + 4 + 1 + RetainedOutcome(s.outcome) + 4 + 4 + 4 +
  4 + Len(s.blocks) * RetainedBlock +
  4 + Total([i \in DOMAIN s.players |-> RetainedPlayer(s.players[i])]) +
  4 + Total([i \in DOMAIN s.objects |-> RetainedObject(s.objects[i])]) +
  4 + HexDigest

RetainedRequest(r) ==
  TopLevelHeader + 4 + StringSize(r.id) + StringSize(r.player) + 4 + 8 +
  CASE r.kind = "Timeout"        -> 0
    [] r.kind = "Move"           -> Tag + 4
    [] r.kind = "Ability"        -> Tag + 1 + 4 + 4 + OptString(r.target) +
                                    OptString(r.second)
    [] r.kind = "Passive"        -> Tag + StringSize(r.passive)
    [] r.kind \in {"Pass", "Jump"} -> Tag

RetainedRejection(r) ==
  IF r = None THEN 1
  ELSE 1 + Tag + CASE r.kind = "SnapshotGenerationMismatch" -> 8 + 8
                   [] r.kind = "CommandIdConflict" -> 0
                   [] r.kind = "Core" -> Tag

RetainedRectangle == 4 + 4 + 4 + 4
Opt(value, size) == 1 + (IF value = None THEN 0 ELSE size)

RetainedBreakdown == 2 + 2 + 2 + 2 + 2 + 2 + 1 + Position + 1

RetainedImpact == Position + 4 + Tag

RetainedTrace(t) ==
  4 + StringSize(t.owner) + StringSize(t.ability) +
  4 + Len(t.samples) * (4 + Position) + RetainedImpact

RetainedDelivery(d) ==
  CASE d.kind = "Projectile" -> Tag + 4
    [] d.kind = "Melee"      -> Tag
    [] d.kind = "Effect"     -> Tag + Tag

RetainedStrike(k) ==
  2 + StringSize(k.target) + 4 + 4 + RetainedDelivery(k.delivery) + 1 + 2 + 1

RetainedRandom(o) ==
  Tag + CASE o.kind = "ChainStrikeTarget" ->
               4 + 4 + StringSize(o.target) + 4 + 4
          [] o.kind = "VeilstepPoint" ->
               4 + 4 + 4 + 1 + 4 + 4 + 4 + 4

RetainedStatusTransition(t) ==
  1 + CASE t.kind = "Applied"        -> 4 + 1
        [] t.kind = "Refreshed"      -> 4 + 1 + 4 + 1
        [] t.kind = "ChargeConsumed" -> 4
        [] t.kind = "Ticked"         -> 1
        [] t.kind \in {"Exhausted", "Expired"} -> 0

RetainedProvenance(c) ==
  Tag + CASE c.kind = "Strike" -> StringSize(c.owner) + StringSize(c.ability) + 2
          [] c.kind \in {"Backlash", "Splash", "WallImpact", "AbilityEffect"} ->
               StringSize(c.owner) + StringSize(c.ability)
          [] c.kind \in {"Hazard", "AuthoritativeResolution"} -> 0

RetainedPayload(e) ==
  CASE e.kind = "ProjectileTrace"  -> RetainedTrace(e.trace)
    [] e.kind = "Impact"           -> 4 + RetainedImpact
    [] e.kind = "StrikeResolved"   -> StringSize(e.owner) + StringSize(e.ability) +
                                      RetainedStrike(e.strike)
    [] e.kind = "TerrainChanged"   -> 4 + 4 + Len(e.dirty) * RetainedRectangle
    [] e.kind = "BlockChanged"     -> 4 + Opt(e.before, 2) + Opt(e.after, 2) +
                                      Opt(e.was, RetainedRectangle) +
                                      Opt(e.is, RetainedRectangle)
    [] e.kind = "HealthChanged"    -> StringSize(e.player) + 2 + 2 +
                                      Opt(e.breakdown, RetainedBreakdown)
    [] e.kind = "GaugeChanged"     -> StringSize(e.player) + 2 + 2 + 4
    [] e.kind = "RandomOutcome"    -> StringSize(e.owner) + StringSize(e.ability) +
                                      RetainedRandom(e.draw)
    [] e.kind = "StatusChanged"    -> StringSize(e.player) + Tag +
                                      RetainedStatusTransition(e.change)
    [] e.kind = "EntityMoved"      -> StringSize(e.player) + Position + Position + Tag
    [] e.kind = "ObjectSpawned"    -> RetainedObject(e.object)
    [] e.kind = "ObjectChanged"    -> RetainedObject(e.previous) + RetainedObject(e.object)
    [] e.kind = "ObjectRemoved"    -> 1 + RetainedObject(e.previous)
    [] e.kind = "PlayerEliminated" -> StringSize(e.player) + RetainedProvenance(e.cause)
    [] e.kind = "PassiveChoiceRequired" -> StringSize(e.player) + Strings(e.passives)
    [] e.kind = "PassiveChosen"    -> StringSize(e.player) + StringSize(e.passive)
    [] e.kind = "TurnEnded"        -> StringSize(e.player) + Tag
    [] e.kind = "TurnOpened"       -> StringSize(e.player) + 4
    [] e.kind = "MatchCompleted"   -> RetainedOutcome(e.outcome)

RetainedEvent(e) == 4 + 4 + Tag + RetainedPayload(e.what)

RetainedTransition(t) ==
  TopLevelHeader + 4 + StringSize(t.id) + Tag + RetainedRejection(t.rejection) +
  8 + 8 + 4 + 4 +
  4 + Total([i \in DOMAIN t.events |-> RetainedEvent(t.events[i])]) +
  RetainedSnapshot(t.snapshot) + 4 + HexDigest

=============================================================================
