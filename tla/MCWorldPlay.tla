---------------------------- MODULE MCWorldPlay ----------------------------
(***************************************************************************)
(* A stage of reinforced stone under two soil towers, in the manner of     *)
(* crow-perch at a tenth of its size.                                      *)
(***************************************************************************)
EXTENDS WorldPlay

Block(x, y, w, h, material, full) ==
  [x |-> x, y |-> y, w |-> w, h |-> h, material |-> material,
   health |-> full, max |-> full]

MCGround == (1 :> Block(0, 2, 3, 2, "Soil", 2)) @@
            (2 :> Block(0, 4, 3, 2, "Soil", 2)) @@
            (3 :> Block(4, 5, 2, 1, "Soil", 2)) @@
            (9 :> Block(0, 6, 6, 1, "ReinforcedStone", 9))

MCSpawn == (1 :> FromCells(<<1, 0>>)) @@ (2 :> FromCells(<<4, 3>>))

NoCarve == [profile |-> "None", radius |-> 0]

Shot(damage, bounces, terrain, effects) ==
  [attack |-> "Projectile", gravity |-> 1, bounces |-> bounces, ticks |-> 6,
   strikes |-> 1, range |-> 0, damage |-> damage, terrain |-> terrain,
   effects |-> effects]

Swing(damage, effects) ==
  [attack |-> "Strike", gravity |-> 0, bounces |-> 0, ticks |-> 0,
   strikes |-> 1, range |-> 3 * PositionScale, damage |-> damage,
   terrain |-> NoCarve, effects |-> effects]

Effect(kind, magnitude, secondary, cap) ==
  [kind |-> kind, magnitude |-> magnitude, secondary |-> secondary, cap |-> cap]

Fireball == Shot(1, 0, [profile |-> "Crater", radius |-> 1], <<>>)
Revolver == Shot(1, 0, [profile |-> "Dig", radius |-> 1],
              <<Effect("Knockback", 2 * PositionScale, 2 * PositionScale, 0)>>)
AntGlob  == Shot(1, 1, NoCarve, <<Effect("Cluster", 3, 1, 2)>>)
Thrust   == Swing(1, <<Effect("Knockback", 2 * PositionScale, 3 * PositionScale, 0)>>)
Whip     == Swing(1, <<Effect("Pull", 2 * PositionScale, 3 * PositionScale, 0)>>)
Dagger   == Swing(1, <<Effect("Recoil", 2 * PositionScale, 0, 0)>>)

MCKit == (1 :> {Revolver, Thrust, Dagger}) @@ (2 :> {Fireball, AntGlob, Whip})

HalfCell == PositionScale \div 2

MCLaunch ==
  {<<HalfCell * v[1], HalfCell * v[2]>> : v \in
     {<<3, -1>>, <<-3, -1>>, <<2, 1>>, <<-1, -2>>, <<1, 2>>}}

MCDistance == {-Allowance, Allowance}

=============================================================================
