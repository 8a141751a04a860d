--------------------------- MODULE MCLifecyclePlay ---------------------------
(***************************************************************************)
(* Three players on a line. The abilities are one of each kind of effect:  *)
(* of the launch roster, of the item layout that replays still use, and    *)
(* the two that only the resolvers' own tests combine (a mark of several   *)
(* charges, the knives).                                                   *)
(***************************************************************************)
EXTENDS LifecyclePlay

Stand == <<0, 1, 3>>
Landings == {0, 1, 3}

Effect(kind, magnitude, turns) ==
  [kind |-> kind, magnitude |-> magnitude, turns |-> turns, reach |-> 0]

Fireball ==
  [attack |-> "Projectile", lands |-> {1}, reach |-> 0,
   effects |-> <<[Effect("Embers", 1, 2) EXCEPT !.reach = 1]>>,
   damage |-> {1}, strikes |-> 1, crits |-> FALSE, digs |-> TRUE, free |-> FALSE]

StaffBattery ==
  [attack |-> "Projectile", lands |-> {0}, reach |-> 0,
   effects |-> <<Effect("SpawnTurret", 0, 3)>>,
   damage |-> {0}, strikes |-> 1, crits |-> FALSE, digs |-> FALSE, free |-> TRUE]

SparkCrown ==
  [attack |-> "Strike", lands |-> {}, reach |-> 2,
   effects |-> <<Effect(Mark, 2, Never)>>,
   damage |-> {0}, strikes |-> 1, crits |-> FALSE, digs |-> FALSE, free |-> TRUE]

Repeater ==
  [attack |-> "Projectile", lands |-> {1}, reach |-> 0,
   effects |-> <<>>,
   damage |-> {1}, strikes |-> 2, crits |-> TRUE, digs |-> FALSE, free |-> FALSE]

Knife ==
  [attack |-> "Projectile", lands |-> Landings, reach |-> 0,
   effects |-> <<Effect("EmbedProjectile", 0, 0), Effect("ChainDetonate", 0, 0)>>,
   damage |-> {0}, strikes |-> 1, crits |-> FALSE, digs |-> FALSE, free |-> FALSE]

Kit == {Fireball, StaffBattery, SparkCrown, Repeater, Knife}
=============================================================================
