------------------------------- MODULE World -------------------------------
(***************************************************************************)
(* What a basic attack does to the board (command.rs, resolve/             *)
(* attack_mods.rs): the projectile flies or the strike lands, the terrain  *)
(* gives way, and the effects of the ability run in order over the world   *)
(* the earlier ones left.                                                  *)
(*                                                                         *)
(* An ability is a record                                                  *)
(*   [attack, gravity, bounces, ticks, strikes, range, damage, terrain,    *)
(*    effects]                                                             *)
(* with terrain = [profile, radius] and effects a sequence of              *)
(*   [kind, magnitude, secondary, cap].                                    *)
(* Dice, statuses and turrets change no cell and no position: left out.    *)
(***************************************************************************)
EXTENDS Terrain

-----------------------------------------------------------------------------

(***************************************************************************)
(* The flight of a projectile (ballistics.rs): velocity is advanced before *)
(* position, a solid cell ends the flight or turns it back, a hitbox ends  *)
(* it, and so does a side or the bottom of the map. The launch velocity is *)
(* given: the angle and the power it is computed from are left out.        *)
(***************************************************************************)

InFlight == "InFlight"

(* reflection_axes(): which half of the step is solid on its own; both     *)
(* when neither is.                                                        *)
ReflectionAxes(mask, prev, next) ==
  LET x == IsSolidAt(mask, <<next[1], prev[2]>>)
      y == IsSolidAt(mask, <<prev[1], next[2]>>)
  IN  <<x \/ ~y, y \/ ~x>>

OutOfMap(p) == p[1] < 0 \/ ToCells(p)[1] >= Width \/ ToCells(p)[2] >= Height

(* One tick of integrate(). hit is a set of [center, radius].              *)
Tick(mask, hit, attack, wind, f) ==
  LET v    == Plus(f.velocity, <<wind, attack.gravity>>)
      next == Plus(f.position, v)
      axes == ReflectionAxes(mask, f.position, next)
      ends(cause) == [f EXCEPT !.position = next, !.cause = cause]
  IN  IF f.cause # InFlight THEN f
      ELSE IF OutOfMap(next) THEN ends("OutOfBounds")
      ELSE IF IsSolidAt(mask, next)
        THEN IF f.bounces = 0 THEN ends("Terrain")
             ELSE [f EXCEPT !.bounces = @ - 1,
                            !.velocity = <<IF axes[1] THEN -v[1] ELSE v[1],
                                           IF axes[2] THEN -v[2] ELSE v[2]>>]
      ELSE IF \E h \in hit : WithinRadius(next, h.center, h.radius)
        THEN ends("Character")
      ELSE [f EXCEPT !.position = next, !.velocity = v]

(* integrate(): a projectile still in flight after its last tick has       *)
(* expired where it is.                                                    *)
Integrate(mask, hit, attack, wind, origin, velocity) ==
  LET flown == FoldLeft(LAMBDA f, t : Tick(mask, hit, attack, wind, f),
                 [position |-> origin, velocity |-> velocity,
                  bounces |-> attack.bounces, cause |-> InFlight],
                 [t \in 1..attack.ticks |-> t])
  IN  [flown EXCEPT !.cause = IF @ = InFlight THEN "Expired" ELSE @]

-----------------------------------------------------------------------------

(***************************************************************************)
(* Effects that move a character against its will (displacement.rs): a     *)
(* sweep, a step at a time, that stops at the first solid cell. No ability *)
(* of the roster pins anyone: is_displacement_immune() is left out.        *)
(***************************************************************************)

(* step_toward(): the longer axis gets a whole step, the other its share;  *)
(* <<0, 0>> when the points coincide.                                      *)
StepToward(from, to) ==
  LET d        == Minus(to, from)
      dominant == Greatest(Abs(d[1]), Abs(d[2]))
  IN  IF dominant = 0 THEN <<0, 0>>
      ELSE <<Scale(d[1], Step, dominant), Scale(d[2], Step, dominant)>>

(* The steps sweep() takes: the distance in steps, rounded up by adding a  *)
(* step less one and then dividing with round_divide().                    *)
SweepSteps(step, distance) ==
  LET length == Greatest(Greatest(Abs(step[1]), Abs(step[2])), 1)
  IN  RoundDivide(Abs(distance) + length - 1, length)

Along(at, step, k) == Plus(at, <<k * step[1], k * step[2]>>)

(* sweep().                                                                *)
Sweep(w, p, step, distance) ==
  LET at      == w.pos[p]
      open(k) == ~IsSolidAt(w.mask, Along(at, step, k))
      steps   == SweepSteps(step, distance)
      reached == CHOOSE k \in 0..steps :
                   /\ \A j \in 1..k : open(j)
                   /\ k = steps \/ ~open(k + 1)
  IN  [w EXCEPT !.pos[p] = Along(at, step, reached)]

(* falloff(): full at the centre, nothing at the rim.                      *)
Falloff(magnitude, distanceSquared, radius) ==
  IF radius <= 0 THEN magnitude
  ELSE ApplyBasisPoints(magnitude,
         ((radius * radius - distanceSquared) * BasisPoints)
           \div (radius * radius))

TargetsInRadius(w, actor, impact, radius) ==
  {p \in Alive(w) \ {actor} :
     radius <= 0 \/ WithinRadius(w.pos[p], impact, radius)}

(* One target of resolve_radial_displacement(): away from the impact.      *)
Shove(w, p, impact, e) ==
  LET d    == DistanceSquared(w.pos[p], impact)
      dist == Falloff(e.magnitude, d, e.secondary)
      step == StepToward(impact, w.pos[p])
  IN  IF dist <= 0 \/ step = <<0, 0>> THEN w
      ELSE Sweep(w, p, step, dist)

RadialDisplacement(w, actor, impact, e) ==
  FoldLeft(LAMBDA acc, p : Shove(acc, p, impact, e), w,
           SetToSortSeq(TargetsInRadius(w, actor, impact, e.secondary), <))

(* resolve_pull(): a weak target is dragged to the actor, a strong one     *)
(* draws the actor in. Without a target nothing happens.                   *)
Pull(w, actor, target, e) ==
  LET threshold == ApplyBasisPoints(MaxHealth,
                     IF e.secondary > 0 THEN e.secondary ELSE 5000)
      weak  == w.health[target] <= threshold
      moved == IF weak THEN target ELSE actor
      other == IF weak THEN actor ELSE target
      step  == StepToward(w.pos[moved], w.pos[other])
  IN  IF step = <<0, 0>> THEN w
      ELSE Sweep(w, moved, step, e.magnitude)

(* resolve_recoil(): the actor is thrown back from the impact.             *)
Recoil(w, actor, impact, e) ==
  LET step == StepToward(impact, w.pos[actor])
  IN  IF step = <<0, 0>> THEN w
      ELSE Sweep(w, actor, step, e.magnitude)

-----------------------------------------------------------------------------

CONSTANTS ClusterStep,     \* CLUSTER_RING_STEP
          ClusterRadius,   \* CLUSTER_SUBMUNITION_CRATER_RADIUS_CELLS
          BodyWidth,       \* BODY_WIDTH
          NoTarget         \* a command that names nobody

Hurt(w, p, amount) == [w EXCEPT !.health[p] = Monus(@, amount)]

Others(w, p) == Alive(w) \ {p}

(* The nearest of a set of players to a point, the first id on a tie; at   *)
(* says where each of them is.                                             *)
Nearest(S, at, point) ==
  CHOOSE p \in S : \A q \in S :
    \/ DistanceSquared(at[p], point) < DistanceSquared(at[q], point)
    \/ DistanceSquared(at[p], point) = DistanceSquared(at[q], point) /\ p <= q

(* apply_terrain_profile(): a crater at the impact, or a dig from the      *)
(* actor to it.                                                            *)
ApplyTerrainProfile(w, terrain, origin, impact) ==
  CASE terrain.profile = "None"   -> w
    [] terrain.profile = "Crater" ->
         ApplyOperation(w, Circle(impact, terrain.radius, Soft))
    [] terrain.profile = "Dig"    ->
         ApplyOperation(w, Capsule(origin, impact, terrain.radius, Soft))

(* One projectile of resolve_ability(): whoever it ends on is hit, then    *)
(* the terrain goes. The shooter has no hitbox.                            *)
Projectile(f, p, ability, velocity) ==
  LET w      == f.world
      center == [q \in Player |-> CollisionCenter(w.pos[q])]
      flown  == Integrate(w.mask,
                  {[center |-> center[q], radius |-> BodyRadius] :
                     q \in Others(w, p)},
                  ability, 0, center[p], velocity)
      within == {q \in Others(w, p) :
                   WithinRadius(center[q], flown.position, BodyRadius)}
      hit    == IF flown.cause = "Character" /\ within # {}
                  THEN Hurt(w, Nearest(within, center, flown.position),
                            ability.damage)
                  ELSE w
  IN  [world  |-> ApplyTerrainProfile(hit, ability.terrain, w.pos[p],
                                      flown.position),
       impact |-> flown.position]

Volley(w, p, ability, velocity) ==
  FoldLeft(LAMBDA f, n : Projectile(f, p, ability, velocity),
           [world |-> w, impact |-> w.pos[p]],
           [n \in 1..ability.strikes |-> n])

(* A strike hits the target it names, or everyone else in reach; its point *)
(* is where that target stands, or where the actor does.                   *)
Struck(w, p, ability, target) ==
  IF target = NoTarget
    THEN {q \in Others(w, p) : WithinRadius(w.pos[q], w.pos[p], ability.range)}
    ELSE {target}

Melee(w, p, ability, target) ==
  LET point == IF target = NoTarget THEN w.pos[p] ELSE w.pos[target]
      hit   == FoldLeft(LAMBDA acc, q : Hurt(acc, q, ability.damage), w,
                 SetToSortSeq(Struck(w, p, ability, target), <))
  IN  [world  |-> ApplyTerrainProfile(hit, ability.terrain, w.pos[p], point),
       impact |-> point]

(* resolve_strike_point(): a named target must be in reach.                *)
InReach(w, p, ability, target) ==
  target # NoTarget => WithinRadius(w.pos[p], w.pos[target], ability.range)

(* cluster_submunition_landing(), the first ring of eight.                 *)
Landing(impact, n) ==
  LET way == <<<<1, 0>>, <<1, 1>>, <<0, 1>>, <<-1, 1>>,
               <<-1, 0>>, <<-1, -1>>, <<0, -1>>, <<1, -1>>>>[n]
  IN  Along(impact, <<ClusterStep * way[1], ClusterStep * way[2]>>, 1)

(* resolve_cluster(): every submunition carves, then each opponent takes   *)
(* what landed nearest to it, up to the cap.                               *)
Cluster(w, actor, impact, e) ==
  LET carved == FoldLeft(LAMBDA acc, n :
                  ApplyOperation(acc,
                    Circle(Landing(impact, n), ClusterRadius, Soft)),
                  w, [n \in 1..e.magnitude |-> n])
      near(n) == {q \in Others(w, actor) :
                    WithinRadius(w.pos[q], Landing(impact, n), BodyWidth)}
      landed(q) == Cardinality({n \in 1..e.magnitude :
                     q \in near(n) /\ q = Nearest(near(n), w.pos, Landing(impact, n))})
  IN  [carved EXCEPT !.health = [q \in Player |->
         Monus(@[q], Least(landed(q) * e.secondary, e.cap))]]

(* resolve_effect(), the effects that move, hurt or carve. Push is the     *)
(* same operation as Knockback.                                            *)
ResolveEffect(w, actor, target, impact, e) ==
  CASE e.kind = "Knockback" -> RadialDisplacement(w, actor, impact, e)
    [] e.kind = "Pull"      -> IF target = NoTarget THEN w
                               ELSE Pull(w, actor, target, e)
    [] e.kind = "Recoil"    -> Recoil(w, actor, impact, e)
    [] e.kind = "Cluster"   -> Cluster(w, actor, impact, e)

(* resolve_ability(): the attack, then its effects in declaration order.   *)
ResolveAbility(w, p, ability, target, velocity) ==
  LET landed == IF ability.attack = "Projectile"
                  THEN Volley(w, p, ability, velocity)
                  ELSE Melee(w, p, ability, target)
  IN  FoldLeft(LAMBDA acc, e :
                 ResolveEffect(acc, p, target, landed.impact, e),
               landed.world, ability.effects)

-----------------------------------------------------------------------------
(* What a client is told of the board (match_session.rs).                  *)

DirtyRectanglesUnflushedBug(before, after) ==
  LET changed == SelectSeq([i \in 1..(Width * Height) |-> i - 1],
                   LAMBDA i : LET c == <<i % Width, i \div Width>>
                              IN  before[c] # after[c])
      extend(acc, i) ==
        IF acc.run # <<>> /\ Last(acc.run) = i - 1 /\ i % Width # 0
          THEN [acc EXCEPT !.run = Append(@, i)]
          ELSE [done |-> IF acc.run = <<>> THEN <<>>
                         ELSE Append(acc.done,
                                [x |-> Head(acc.run) % Width,
                                 y |-> Head(acc.run) \div Width,
                                 width |-> Len(acc.run)]),
                run |-> <<i>>]
  IN  FoldLeft(extend, [done |-> <<>>, run |-> <<>>], changed).done

(* terrain_dirty_rectangles(): the changed cells, row by row, as runs.     *)
DirtyRectangles(before, after) ==
  LET changed == SelectSeq([i \in 1..(Width * Height) |-> i - 1],
                   LAMBDA i : LET c == <<i % Width, i \div Width>>
                              IN  before[c] # after[c])
      extend(runs, i) ==
        IF /\ runs # <<>>
           /\ Last(runs).y = i \div Width
           /\ Last(runs).x + Last(runs).width = i % Width
          THEN Front(runs) \o <<[Last(runs) EXCEPT !.width = @ + 1]>>
          ELSE Append(runs, [x |-> i % Width, y |-> i \div Width, width |-> 1])
  IN  FoldLeft(extend, <<>>, changed)

(* surviving_block_bounds(): the cells of its span that hold its material, *)
(* the set of one rectangle or of none.                                    *)
SurvivingBounds(mask, b) ==
  LET standing == {c \in Span(b) : MaterialAt(mask, c) = b.material}
      across   == {c[1] : c \in standing}
      down     == {c[2] : c \in standing}
  IN  IF b.health = 0 \/ standing = {} THEN {}
      ELSE {[x |-> Min(across), y |-> Min(down),
             width |-> Max(across) - Min(across) + 1,
             height |-> Max(down) - Min(down) + 1]}

=============================================================================
