----------------------------- MODULE WorldPlay -----------------------------
(***************************************************************************)
(* A match on its ground: the players walk, hop and attack in turn over    *)
(* terrain the attacks carve (the movement and attack calls of             *)
(* match_host.rs over World). Every call settles the players before it     *)
(* returns, and an attack ends the turn. The scheduler is cut down to the  *)
(* rotation over the living; module MatchPlay has the whole of it.         *)
(***************************************************************************)
EXTENDS World

CONSTANTS Allowance,       \* movement a turn grants
          Kit,             \* Kit[p]: the basic attacks of p's character
          Launch,          \* launch velocities a projectile may be given
          Distance,        \* walks a client asks for
          Ground,          \* blocks of the map, by id
          Spawn,           \* spawn point of each player
          MaxTurns,        \* bound: turns the model plays
          MaxDebt          \* bound: how far hops overdraw the allowance

VARIABLES world, turn
vars == <<world, turn>>

(* rotation of the scheduler: the next living id, wrapping.                *)
NextPlayer(w) ==
  LET after == {p \in Alive(w) : p > w.active}
      from  == IF after = {} THEN Alive(w) ELSE after
  IN  CHOOSE p \in from : \A q \in from : p <= q

Over(w) == Cardinality(Alive(w)) <= 1

(* finish_turn(): unless the match is decided, the next player opens with  *)
(* a fresh allowance.                                                      *)
FinishTurn(w) ==
  IF Over(w) THEN w
  ELSE SettlePlayers([w EXCEPT !.active = NextPlayer(w), !.moves = Allowance])

(* MatchHost::start() over build_initial_state(): a full map, and players  *)
(* dropped from their spawn points.                                        *)
Init ==
  /\ turn = 1
  /\ world = SettlePlayers(
       [mask |-> BuildMask(Ground), blocks |-> Ground, pos |-> Spawn,
        health |-> [p \in Player |-> MaxHealth], moves |-> Allowance,
        active |-> CHOOSE p \in Player : \A q \in Player : p <= q])

Playing == ~Over(world) /\ turn <= MaxTurns

(* submit_move() and submit_jump(): gravity in the same call, and a mover  *)
(* who fell out of the map gives the turn away.                            *)
AfterMoving(w, p) ==
  LET settled == SettlePlayers(w)
  IN  IF p \notin Alive(settled) THEN FinishTurn(settled) ELSE settled

SubmitMove ==
  /\ Playing
  /\ \E dx \in Distance :
       world' = AfterMoving(Walk(world, world.active, dx), world.active)
  /\ turn' = IF world'.active = world.active THEN turn ELSE turn + 1

SubmitJump ==
  /\ Playing
  /\ world.moves > -MaxDebt
  /\ world' = AfterMoving(Hop(world, world.active), world.active)
  /\ turn' = IF world'.active = world.active THEN turn ELSE turn + 1

(* submit_ability() with a basic attack of the active player.              *)
Attack(w, p, ability, target, velocity) ==
  FinishTurn(SettlePlayers(ResolveAbility(w, p, ability, target, velocity)))

(* A projectile is aimed by its launch and its effects read no target; a   *)
(* strike is aimed at whoever it names.                                    *)
SubmitProjectile ==
  /\ Playing
  /\ \E ability \in Kit[world.active], velocity \in Launch :
       /\ ability.attack = "Projectile"
       /\ world' = Attack(world, world.active, ability, NoTarget, velocity)
  /\ turn' = turn + 1

SubmitStrike ==
  /\ Playing
  /\ \E ability \in Kit[world.active], target \in Alive(world) \cup {NoTarget} :
       /\ ability.attack = "Strike"
       /\ InReach(world, world.active, ability, target)
       /\ world' = Attack(world, world.active, ability, target, <<0, 0>>)
  /\ turn' = turn + 1

Next == SubmitMove \/ SubmitJump \/ SubmitProjectile \/ SubmitStrike

Spec == Init /\ [][Next]_vars

-----------------------------------------------------------------------------

Solid(b) == CountSolid(world.mask, BlockBounds(b))

(* A block whose support was shot away has fallen by the end of the call   *)
(* that shot it: no living block could fall any farther, whatever order    *)
(* the blocks fell in and whatever was written over them on the way.       *)
NothingFloats ==
  \A id \in DOMAIN world.blocks :
    world.blocks[id].health > 0 => FallDistance(world.mask, world.blocks[id]) = 0

(* Every solid cell belongs to a living block: no debris of a block that   *)
(* fell, was eroded or was destroyed is left in the air or on the ground.  *)
NoOrphanCells ==
  \A c \in Cells : SolidAt(world.mask, c) =>
    \E id \in DOMAIN world.blocks :
      world.blocks[id].health > 0 /\ c \in Span(world.blocks[id])

(* No attack wears the reinforced stage down, neither by a crater nor by   *)
(* the re-derivation of a block it shares a cell boundary with.            *)
StoneStands ==
  \A id \in DOMAIN Ground : Ground[id].material = "ReinforcedStone" =>
    \A c \in Span(Ground[id]) : world.mask[c] = "ReinforcedStone"

(* The end of every call finds every living player on its feet: on solid   *)
(* ground, or held fast inside a block that came down on it.               *)
LivingStand ==
  \A p \in Alive(world) :
    LET at == world.pos[p]
    IN  IsSolidAt(world.mask, at) \/ CanStandAt(world.mask, at)

(* The ground has settled by the time a call returns, whichever blocks it  *)
(* eroded, dropped and wrote over, and whoever stood on them               *)
(* (match_host.rs:276, block_ops.rs:160, movement.rs:318).                 *)
GroundHasSettled == NothingFloats /\ NoOrphanCells /\ StoneStands /\ LivingStand

(* A walk, a hop, a shove or a fall never leaves a player inside the       *)
(* terrain: only the terrain can come to a player.                         *)
MoversStayOpen ==
  [][\A p \in Alive(world)' : world'.pos[p] # world.pos[p] =>
       ~IsSolidAt(world'.mask, world'.pos[p])]_vars

(* The rectangles a transition reports cover every cell it changed, and    *)
(* nothing else, once: a client that redraws only them sees the new board  *)
(* (match_session.rs, terrain_dirty_rectangles).                           *)
Covering(c, runs) ==
  {i \in DOMAIN runs : /\ runs[i].y = c[2]
                       /\ c[1] \in runs[i].x .. runs[i].x + runs[i].width - 1}

RedrawsAreExact ==
  [][LET runs == DirtyRectangles(world.mask, world'.mask)
     IN  \A c \in Cells :
           Cardinality(Covering(c, runs)) = IF world.mask[c] # world'.mask[c] THEN 1 ELSE 0
    ]_vars

(* A block that still stands has fallen if and only if the bounds its      *)
(* event reports have: what the client takes for the sign of a fall        *)
(* (Main.cs, SpawnTransitionEffects).                                      *)
FallsAreSeen ==
  [][\A id \in DOMAIN world.blocks :
       \A old \in SurvivingBounds(world.mask, world.blocks[id]),
          new \in SurvivingBounds(world.mask, world.blocks[id])' :
         new.y > old.y <=> world'.blocks[id].y > world.blocks[id].y]_vars

(* What a transition reports of the board is what happened to it: the      *)
(* cells to redraw and the blocks that fell (match_session.rs:3769, :3846).*)
BoardIsTold == RedrawsAreExact /\ FallsAreSeen

(* Solid cells inside a block always equal what its health says (the       *)
(* invariant block_ops.rs states above its crater test). It fails: a       *)
(* destroyed block keeps its place on the list, and the next crater over   *)
(* where it stood writes its empty span over the block that fell there.    *)
CellsMatchHealth ==
  \A id \in DOMAIN world.blocks :
    world.blocks[id].health > 0 =>
      Solid(world.blocks[id]) = ExpectedSolidCells(world.blocks[id])

=============================================================================
