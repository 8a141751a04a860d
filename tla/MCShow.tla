------------------------------- MODULE MCShow -------------------------------
(***************************************************************************)
(* Two duellists and the transitions that differ for the view: a short     *)
(* shot that kills, a boomerang, a cluster of two long traces over a block *)
(* that falls, a barrage, a shot that ends where it began, a throw, a walk *)
(* and a burning; seen on a fast machine, a slow one and with reduced      *)
(* motion.                                                                 *)
(***************************************************************************)
EXTENDS Show

Trace(ticks, impact) ==
  [samples |-> [i \in DOMAIN ticks |-> [tick |-> ticks[i], x |-> 7 * i]],
   impact |-> impact]

Shot(trace, returning) ==
  [kind |-> "ProjectileTrace", tick |-> 0, player |-> 1, trace |-> trace,
   returning |-> returning]
Impact(tick, terrain) == [kind |-> "Impact", tick |-> tick, terrain |-> terrain]
Hit(tick, q, loss) == [kind |-> "HealthChanged", tick |-> tick, player |-> q, loss |-> loss]
Death(tick, q) == [kind |-> "PlayerEliminated", tick |-> tick, player |-> q]
Moved(tick, q, start, end) ==
  [kind |-> "EntityMoved", tick |-> tick, player |-> q, start |-> start, end |-> end]
Fall(tick) == [kind |-> "BlockChanged", tick |-> tick, after |-> 1, fell |-> TRUE]

Answer(events, lock, thrower) ==
  [events |-> [i \in DOMAIN events |-> [sequence |-> i - 1] @@ events[i]],
   lock |-> lock, rate |-> 60, thrower |-> thrower]

MCViews == {[tier |-> "High", calm |-> FALSE], [tier |-> "Low", calm |-> FALSE],
            [tier |-> "Medium", calm |-> TRUE]}

(* Crow's four equal shots at one target.                                  *)
Barrage ==
  [n \in 1..4 |-> Shot(Trace(<<0, 20>>, 20), FALSE)]
    \o [n \in 1..4 |-> Impact(20, FALSE)] \o <<Hit(20, 2, 8)>>

MCTransitions ==
  {Answer(<<Shot(Trace(<<0, 4, 8, 31>>, 31), FALSE), Impact(31, FALSE), Hit(31, 2, 9),
            Moved(31, 2, 3, -4), Death(31, 2)>>, 31, 0),
   Answer(<<Shot(Trace(<<0, 20, 40>>, 40), TRUE), Impact(40, FALSE), Moved(40, 2, 5, 12),
            Hit(40, 1, 0), Hit(40, 2, 3)>>, 40, 0),
   Answer(<<Shot(Trace(<<0, 30>>, 30), FALSE), Shot(Trace(<<0, 60, 71>>, 71), FALSE),
            Impact(30, TRUE), Impact(71, TRUE), Fall(71), Hit(71, 1, 2), Hit(71, 2, 2),
            Death(71, 1)>>, 71, 0),
   Answer(Barrage, 20, 0),
   Answer(<<Shot(Trace(<<0>>, 0), FALSE), Impact(0, TRUE), Hit(0, 1, 4)>>, 0, None),
   Answer(<<Moved(0, 1, -6, 4), Hit(0, 2, 1)>>, 0, 0),
   Answer(<<Moved(0, 1, 4, 3)>>, 13, 0),
   Answer(<<Hit(0, 1, 1), Death(0, 1)>>, 0, 0)}

=============================================================================
