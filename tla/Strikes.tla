------------------------------ MODULE Strikes ------------------------------
(***************************************************************************)
(* The strikes of one ability and their account (command.rs,               *)
(* resolve/attack_mods.rs): every strike rolls its own dice and takes what *)
(* health is left, and what happened is kept three times over, as strike   *)
(* records, as itemised damage and as the state itself. The session checks *)
(* the three against each other before it publishes                        *)
(* (match_session.rs:3144).                                                *)
(*                                                                         *)
(* An ability is a record                                                  *)
(*   [attack, strikes, damage, crit, chance, cap, shoves, burn]            *)
(* with the damage of a plain and of a critical strike, the chance of one  *)
(* in CritBound, the cap of a cluster (0 for none), whether it takes the   *)
(* ground from anybody, and the turns its embers burn.                     *)
(* Where things land is geometry (module World): an aim is a record        *)
(*   [target, flights, reach, blast]                                       *)
(* with the player the command names, for each projectile the players in   *)
(* its way and the tick it ends at, the players in reach of a blow, and    *)
(* what a cluster drops on each player.                                    *)
(***************************************************************************)
EXTENDS MatchHost, FiniteSets, SequencesExt

-----------------------------------------------------------------------------

(***************************************************************************)
(* The seeded generator of a match (rng.rs): a state that advances by one  *)
(* step a draw, the word read off each state, and draws below a bound by   *)
(* rejection sampling. The 64 bits of PCG-XSH-RR are left open: Advance    *)
(* and Output stand for its recurrence and its permutation.                *)
(***************************************************************************)

CONSTANTS
  Words,      \* how many words there are, 2^32 in the code
  RngState,   \* the states of the generator
  Advance,    \* Advance[s]: the state after a draw from s
  Output      \* Output[s]: the word drawn from s

ASSUME WordsAssumption == Words \in Nat \ {0}

ASSUME GeneratorAssumption ==
  /\ IsFiniteSet(RngState)
  /\ Advance \in [RngState -> RngState]
  /\ Output \in [RngState -> 0..(Words - 1)]

(* The remainder in bounded(): max.wrapping_neg() is Words - max. Words    *)
(* below it are rejected.                                                  *)
Threshold(max) == (Words - max) % max

(* next_u32(), n times over.                                               *)
After(s, n) ==
  LET orbit[k \in 0..n] == IF k = 0 THEN s ELSE Advance[orbit[k - 1]]
  IN  orbit[n]

(* The words from s on that bounded() would not reject. A generator that   *)
(* has none among as many words as it has states never has one.            *)
Admitted(s, max) ==
  {n \in 0..Cardinality(RngState) : Output[After(s, n)] >= Threshold(max)}

(* bounded(): the first word that is not rejected, and the state after it. *)
Bounded(s, max) ==
  LET n == CHOOSE k \in Admitted(s, max) : \A j \in Admitted(s, max) : k <= j
  IN  IF max = 0 THEN [state |-> s, value |-> 0]
      ELSE [state |-> After(s, n + 1), value |-> Output[After(s, n)] % max]

-----------------------------------------------------------------------------

CONSTANTS
  CritBound,   \* CRIT_ROLL_BOUND
  Nobody       \* a command that names no target

(* A draw below the bound always ends.                                     *)
ASSUME DrawAssumption ==
  CritBound \in Nat \ {0} /\ \A s \in RngState : Admitted(s, CritBound) # {}

Smaller(a, b) == IF a <= b THEN a ELSE b

(* What an ability works on: a copy of the health and the generator, and   *)
(* the account so far.                                                     *)
Opened(s, rng) ==
  [health |-> s.health, rng |-> rng, dealt |-> 0,
   damage |-> [q \in {} |-> q], strikes |-> <<>>, traces |-> <<>>]

(* damage_entry().                                                         *)
Entry(f, q) ==
  IF q \in DOMAIN f.damage THEN f.damage[q]
  ELSE [direct |-> 0, critical |-> FALSE, eliminated |-> FALSE]

(* deal_damage(): no more is itemised than was there to take.              *)
DealDamage(f, q, amount, critical) ==
  LET actual == Smaller(amount, f.health[q])
      item   == [direct     |-> Entry(f, q).direct + actual,
                 critical   |-> Entry(f, q).critical \/ critical,
                 eliminated |-> actual = f.health[q]]
  IN  IF amount = 0 THEN f
      ELSE [f EXCEPT !.health[q] = @ - actual,
                     !.damage    = [r \in DOMAIN @ \cup {q} |->
                                      IF r = q THEN item ELSE @[r]]]

CanCrit(a) == a.chance > 0 \/ a.crit > a.damage

RollAlwaysBug(rng, a) ==
  LET draw == Bounded(rng, CritBound)
  IN  [rng  |-> draw.state,
       crit |-> IF a.chance = 0 THEN "NotEligible"
                ELSE IF draw.value < a.chance THEN "Landed" ELSE "Missed"]

(* roll_crit(): a draw is taken only where there is a chance.              *)
RollCrit(rng, a) ==
  LET draw == Bounded(rng, CritBound)
  IN  IF ~CanCrit(a) \/ a.chance = 0 THEN [rng |-> rng, crit |-> "NotEligible"]
      ELSE [rng  |-> draw.state,
            crit |-> IF draw.value < a.chance THEN "Landed" ELSE "Missed"]

(* One strike and its record; trace is the projectile that delivered it,   *)
(* 0 for a blow. A strike's index is its place in the sequence.            *)
Strike(f, a, q, trace) ==
  LET roll   == RollCrit(f.rng, a)
      landed == roll.crit = "Landed"
      hurt   == DealDamage(f, q, IF landed THEN a.crit ELSE a.damage, landed)
      actual == f.health[q] - hurt.health[q]
      record == [target |-> q, trace |-> trace, crit |-> roll.crit,
                 applied |-> actual,
                 eliminated |-> f.health[q] > 0 /\ hurt.health[q] = 0]
  IN  [hurt EXCEPT !.rng     = roll.rng,
                   !.strikes = Append(@, record),
                   !.dealt   = @ + actual]

(* A trace more: how the projectile of a flight ended.                     *)
Flown(f, flight, cause) ==
  [f EXCEPT !.traces = Append(@, [tick |-> flight.tick, cause |-> cause])]

FlyIntoDeadBug(f, p, a, flight) ==
  LET way   == {n \in DOMAIN flight.line : flight.line[n] # p}
      hit   == flight.line[CHOOSE n \in way : \A m \in way : n <= m]
      flown == Flown(f, flight, "Character")
  IN  IF way = {} THEN Flown(f, flight, "Terrain")
      ELSE IF f.health[hit] = 0 THEN flown
      ELSE Strike(flown, a, hit, Len(flown.traces))

FlyIntoSelfBug(f, p, a, flight) ==
  LET way   == {n \in DOMAIN flight.line : f.health[flight.line[n]] > 0}
      hit   == flight.line[CHOOSE n \in way : \A m \in way : n <= m]
      flown == Flown(f, flight, "Character")
  IN  IF way = {} THEN Flown(f, flight, "Terrain")
      ELSE Strike(flown, a, hit, Len(flown.traces))

(* One projectile. It meets the first in its way; whoever an earlier one   *)
(* killed has no hitbox any more, and the shooter has none either.         *)
Fly(f, p, a, flight) ==
  LET way   == {n \in DOMAIN flight.line :
                  flight.line[n] # p /\ f.health[flight.line[n]] > 0}
      hit   == flight.line[CHOOSE n \in way : \A m \in way : n <= m]
      flown == Flown(f, flight, "Character")
  IN  IF way = {} THEN Flown(f, flight, "Terrain")
      ELSE Strike(flown, a, hit, Len(flown.traces))

(* The players of a set in the order of their ids.                         *)
InOrder(S) ==
  CHOOSE seq \in [1..Cardinality(S) -> S] :
    \A i, j \in 1..Cardinality(S) : i < j => seq[i] < seq[j]

(* Whom a blow lands on: its target, or whoever lives in reach.            *)
Struck(s, p, aim) ==
  IF aim.target # Nobody THEN {aim.target} ELSE aim.reach \cap (Living(s) \ {p})

(* Whom the blows of an ability land on, in order; the session expects the *)
(* same list (match_session.rs:3262).                                      *)
Blows(s, p, a, aim) ==
  FlattenSeq([n \in 1..a.strikes |-> InOrder(Struck(s, p, aim))])

(* resolve_cluster(): whoever lives under it takes one capped amount.      *)
Cluster(f, p, a, aim) ==
  FoldLeft(LAMBDA acc, q :
             DealDamage(acc, q, Smaller(aim.blast[q], a.cap), FALSE),
           f, InOrder({q \in Player \ {p} : f.health[q] > 0}))

(* resolve_ability(): the attack, then its effects.                        *)
ResolveAbility(s, rng, p, a, aim) ==
  LET hit == IF a.attack = "Projectile"
               THEN FoldLeft(LAMBDA f, flight : Fly(f, p, a, flight),
                             Opened(s, rng), aim.flights)
               ELSE FoldLeft(LAMBDA f, q : Strike(f, a, q, 0),
                             Opened(s, rng), Blows(s, p, a, aim))
  IN  IF a.cap = 0 THEN hit ELSE Cluster(hit, p, a, aim)

-----------------------------------------------------------------------------
(* reconcile_strikes(). f is the account, pre and post the host around it. *)

CharacterImpacts(f) ==
  {n \in DOMAIN f.traces : f.traces[n].cause = "Character"}

Applied(f, q) ==
  FoldLeft(LAMBDA sum, r : IF r.target = q THEN sum + r.applied ELSE sum,
           0, f.strikes)

(* reconcile_primary_crit().                                               *)
CritFits(a, r) == CanCrit(a) <=> r.crit # "NotEligible"

KillsReconcile(pre, post, f) ==
  \A i \in DOMAIN f.strikes : f.strikes[i].eliminated =>
    LET q == f.strikes[i].target
    IN  /\ q \in Living(pre) /\ q \notin Living(post)
        /\ \A j \in DOMAIN f.strikes \ {i} :
             f.strikes[j].target = q => ~f.strikes[j].eliminated

DeliveriesReconcile(pre, p, a, aim, f) ==
  LET cited == {f.strikes[i].trace : i \in DOMAIN f.strikes}
  IN  IF a.attack = "Projectile"
        THEN /\ cited = CharacterImpacts(f)
             /\ Cardinality(cited) = Len(f.strikes)
        ELSE /\ cited \subseteq {0}
             /\ [i \in DOMAIN f.strikes |-> f.strikes[i].target] = Blows(pre, p, a, aim)

(* A cluster has no records of its own: its sums are not compared.         *)
SumsReconcile(a, f) ==
  a.cap = 0 => \A q \in Player : Entry(f, q).direct = Applied(f, q)

ReconcileStrikes(pre, post, p, a, aim, f) ==
  /\ \A i \in DOMAIN f.strikes : CritFits(a, f.strikes[i])
  /\ KillsReconcile(pre, post, f)
  /\ DeliveriesReconcile(pre, p, a, aim, f)
  /\ SumsReconcile(a, f)

-----------------------------------------------------------------------------

(***************************************************************************)
(* The presentation events of one accepted request (match_session.rs,      *)
(* derive_events): derived from the states before and after it and from    *)
(* the account of its strikes, each pushed with the tick and the rank it   *)
(* is to be shown at, then sorted by tick, rank and order of pushing.      *)
(* Drawn here are the events about projectiles, strikes, health, deaths    *)
(* and turns. Terrain, blocks, moves, gauges, statuses and objects (ranks  *)
(* 10 to 12 and 14 to 16) are pushed by the same loop and left out.        *)
(***************************************************************************)

Event(tick, rank, kind, about) ==
  [tick |-> tick, rank |-> rank, kind |-> kind, about |-> about]

LastTraceBug(f) == IF f.traces = <<>> THEN 0 ELSE f.traces[Len(f.traces)].tick

(* resolution_tick: when the last impact of the command is shown.          *)
ResolutionTick(f) ==
  FoldLeft(LAMBDA latest, t : IF t.tick > latest THEN t.tick ELSE latest,
           0, f.traces)

TraceEvents(f) ==
  FlattenSeq([n \in DOMAIN f.traces |->
    <<Event(0, 0, "ProjectileTrace", n),
      Event(f.traces[n].tick, 2, "Impact", n)>>])

(* A strike is shown with the impact of the projectile that delivered it,  *)
(* a blow at once.                                                         *)
StrikeEvents(f) ==
  [i \in DOMAIN f.strikes |->
     LET n == f.strikes[i].trace
     IN  IF n = 0 THEN Event(0, 1, "StrikeResolved", i)
         ELSE Event(f.traces[n].tick, 3, "StrikeResolved", i)]

Died(pre, post) == Living(pre) \ Living(post)

(* elimination_cause(): the strike that says so; else the itemised damage, *)
(* for what has no strike records; else what the host did on its own, a    *)
(* fall or the forced draw.                                                *)
EliminationCause(f, q) ==
  LET kills == {i \in DOMAIN f.strikes :
                  f.strikes[i].target = q /\ f.strikes[i].eliminated}
  IN  IF kills # {}
        THEN [by |-> "Strike", index |-> CHOOSE i \in kills : \A j \in kills : i <= j]
      ELSE IF Entry(f, q).eliminated THEN [by |-> "AbilityEffect"]
      ELSE [by |-> "AuthoritativeResolution"]

PlayerEvents(pre, post, f, q) ==
  LET now == ResolutionTick(f)
  IN  (IF pre.health[q] # post.health[q] \/ q \in DOMAIN f.damage
         THEN <<Event(now, 13, "HealthChanged", q)>> ELSE <<>>) \o
      (IF q \in Died(pre, post)
         THEN <<Event(now, 17, "PlayerEliminated",
                      [player |-> q, cause |-> EliminationCause(f, q)])>> ELSE <<>>)

TurnOver(pre, post) ==
  \/ pre.active # post.active
  \/ pre.turn # post.turn
  \/ pre.phase # "MatchComplete" /\ post.phase = "MatchComplete"

Over(h) == h.phase = "MatchComplete"

TurnEvents(pre, post, f) ==
  LET now == ResolutionTick(f)
  IN  (IF TurnOver(pre, post)
         THEN <<Event(now, 19, "TurnEnded", [player |-> pre.active, reason |-> post.last])>>
         ELSE <<>>) \o
      (IF Over(post) /\ ~Over(pre)
         THEN <<Event(now, 20, "MatchCompleted", Living(post))>> ELSE <<>>) \o
      (IF TurnOver(pre, post) /\ ~Over(post)
         THEN <<Event(now, 21, "TurnOpened", [player |-> post.active, turn |-> post.turn])>>
         ELSE <<>>)

(* The sort at the end of derive_events(): the place of an event is after  *)
(* all that go before it.                                                  *)
Sorted(pending) ==
  LET before(i, j) ==
        LET a == pending[i]
            b == pending[j]
        IN  \/ a.tick < b.tick
            \/ a.tick = b.tick /\ a.rank < b.rank
            \/ a.tick = b.tick /\ a.rank = b.rank /\ i < j
      place == [i \in DOMAIN pending |->
                  1 + Cardinality({j \in DOMAIN pending : before(j, i)})]
  IN  [n \in DOMAIN pending |->
         pending[CHOOSE i \in DOMAIN pending : place[i] = n]]

DeriveEvents(pre, post, f) ==
  Sorted(TraceEvents(f) \o StrikeEvents(f) \o
         FlattenSeq([i \in 1..Cardinality(Player) |->
           PlayerEvents(pre, post, f, InOrder(Player)[i])]) \o
         TurnEvents(pre, post, f))

=============================================================================
