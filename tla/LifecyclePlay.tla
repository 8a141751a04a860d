---------------------------- MODULE LifecyclePlay ----------------------------
(***************************************************************************)
(* Statuses and objects through a match: the active player uses abilities, *)
(* each an attack followed by its effects in their declared order, and the *)
(* turn ends with the tick and the cleanup (match_host.rs:248,             *)
(* command.rs:291, scheduler.rs:145). Nobody moves; where a projectile     *)
(* lands, how hard it hits and who loses the ground are open.              *)
(***************************************************************************)
EXTENDS Lifecycle

CONSTANTS
  Ability,     \* records [attack, lands, reach, effects, damage, strikes,
               \*          crits, digs, free]
  MaxHealth,
  MaxSequence, \* bound: objects ever placed
  HardTurnLimit

ASSUME LimitAssumption == {MaxHealth, MaxSequence, HardTurnLimit} \subseteq Nat \ {0}

EffectData ==
  [kind : {"SpawnTurret", "EmbedProjectile", "ChainDetonate"} \cup ToSet(Timed) \cup {Mark},
   magnitude : Int, turns : 0..Never, reach : Nat]

ASSUME AbilityAssumption ==
  Ability \subseteq [attack : {"Projectile", "Strike"}, lands : SUBSET Int, reach : Nat,
                     effects : Seq(EffectData), damage : SUBSET Nat, strikes : Nat \ {0},
                     crits : BOOLEAN, digs : BOOLEAN, free : BOOLEAN]

VARIABLES
  board,
  active,
  turn,       \* the number of the present turn
  charged     \* the active player has not used the free ability this turn

vars == <<board, active, turn, charged>>

EmptyRecord(b) == [b EXCEPT !.statusLog = <<>>, !.objectLog = <<>>]

Init ==
  /\ board = [health    |-> [p \in Player |-> MaxHealth],
              statuses  |-> [p \in Player |-> [kind \in {} |-> kind]],
              objects   |-> <<>>,
              next      |-> 0,
              statusLog |-> <<>>,
              objectLog |-> <<>>]
  /\ active = CHOOSE p \in Player : \A q \in Player : p <= q
  /\ turn = 1
  /\ charged = TRUE

-----------------------------------------------------------------------------
(* Resolving a command. named is the target it names, if any: {} or {p}.   *)

(* Where the attack acts: a blow at its named target or around the actor,  *)
(* a projectile wherever it lands.                                         *)
Impacts(ability, named) ==
  IF ability.attack = "Projectile" THEN ability.lands
  ELSE {Standing[p] : p \in IF named = {} THEN {active} ELSE named}

(* Whom each strike may hit: a projectile at most one opponent where it    *)
(* lands, the last one at place; a blow its named target, or every         *)
(* opponent within reach.                                                  *)
Hits(ability, named, place) ==
  LET strikes == 1..ability.strikes
      near(where, radius) ==
        {p \in Opponents(board, active) : Near(Standing[p], where, radius)}
      at(where) == {{}} \cup {{p} : p \in near(where, BodyWidth)}
  IN  IF ability.attack = "Projectile"
        THEN {hits \in [strikes -> UNION {at(where) : where \in ability.lands}] :
                hits[ability.strikes] \in at(place)}
        ELSE {[i \in strikes |-> IF named # {} THEN named
                                               ELSE near(place, ability.reach)]}

(* A strike: it may use up a charge of a mark, if the ability can crit.    *)
Strike(b, target, ability, damage) ==
  [(IF ability.crits THEN Consume(b, target) ELSE b) EXCEPT
     !.health[target] = IF @ > damage THEN @ - damage ELSE 0]

(* All strikes. A projectile does not meet the dead; a blow struck at      *)
(* somebody goes on.                                                       *)
StrikeEach(b, ability, targets, damage) ==
  FoldLeft(LAMBDA acc, p :
             IF \/ p \notin targets
                \/ ability.attack = "Projectile" /\ acc.health[p] = 0
               THEN acc ELSE Strike(acc, p, ability, damage),
           b, Roster)

Strikes(b, ability, hits, damage) ==
  FoldLeft(LAMBDA acc, targets : StrikeEach(acc, ability, targets, damage), b, hits)

(* Whom a status effect catches: its named target, dead or alive; Chill    *)
(* without one, opponents near the impact; Embers, whoever lives in reach. *)
Caught(b, effect, named, place) ==
  LET near(radius) == {p \in Player : Near(Standing[p], place, radius)}
  IN  IF effect.kind = "Embers" THEN near(effect.reach) \cap Alive(b)
      ELSE IF effect.kind = "Chill" /\ named = {}
        THEN near(BodyWidth) \cap Opponents(b, active)
      ELSE named

ApplyEach(b, effect, targets) ==
  FoldLeft(LAMBDA acc, p :
             IF p \notin targets THEN acc
             ELSE Apply(acc, p, effect.kind,
                        [magnitude |-> effect.magnitude, turns |-> effect.turns]),
           b, Roster)

(* resolve_effect().                                                       *)
Resolve(b, effect, named, place) ==
  CASE effect.kind = "SpawnTurret" -> SpawnTurret(b, active, place, effect.turns)
    [] effect.kind = "EmbedProjectile" -> Embed(b, active, place)
    [] effect.kind = "ChainDetonate" -> ChainDetonate(b, place)
    [] effect.kind \in ToSet(Timed) \cup {Mark} ->
         ApplyEach(b, effect, Caught(b, effect, named, place))

ResolveEach(b, ability, named, place) ==
  FoldLeft(LAMBDA acc, effect : Resolve(acc, effect, named, place),
           b, ability.effects)

Places(ability) ==
  \E effect \in ToSet(ability.effects) :
    effect.kind \in {"SpawnTurret", "EmbedProjectile"}

(* A mark and a pin are refused without a named target, a blow at somebody *)
(* out of reach.                                                           *)
Lawful(ability, named) ==
  /\ named = {} =>
       \A effect \in ToSet(ability.effects) : effect.kind \notin {"Lockdown", Mark}
  /\ ability.attack = "Strike" =>
       \A p \in named : Near(Standing[active], Standing[p], ability.reach)

-----------------------------------------------------------------------------
(* The turn.                                                               *)

(* Everybody plays for himself.                                            *)
Undecided(b) == Cardinality(Alive(b)) > 1

NextActive(b) ==
  LET later == {p \in Alive(b) : p > active}
      from  == IF later # {} THEN later ELSE Alive(b)
  IN  CHOOSE p \in from : \A q \in from : p <= q

Fall(b, fallen) ==
  [b EXCEPT !.health = [p \in Player |-> IF p \in fallen THEN 0 ELSE @[p]]]

(* finish_turn(): tick, cleanup, and the hand-over; at the hard limit the  *)
(* survivors are eliminated, with what they own.                           *)
Finish(b) ==
  LET checked == Cleanup(Tick(b, active))
  IN  /\ charged' = TRUE
      /\ IF Undecided(checked) /\ turn >= HardTurnLimit
           THEN board' = Cleanup(Fall(checked, Player))
           ELSE board' = checked
      /\ IF Undecided(board')
           THEN turn' = turn + 1 /\ active' = NextActive(board')
           ELSE UNCHANGED <<turn, active>>

(* submit_ability(): attack, effects, and the fall of those who lost the   *)
(* ground. A free ability leaves the turn open while actor and match live; *)
(* it empties the gauge, which only an attack fills again.                 *)
UseAbility(ability) ==
  /\ Undecided(board)
  /\ Places(ability) => board.next < MaxSequence
  /\ ability.free => charged
  /\ \E named \in {{}} \cup {{p} : p \in Alive(board)} :
     \E place \in Impacts(ability, named) :
     \E hits \in Hits(ability, named, place), damage \in ability.damage :
       LET after == ResolveEach(Strikes(EmptyRecord(board), ability, hits, damage),
                                ability, named, place)
       IN  /\ Lawful(ability, named)
           /\ \E fallen \in SUBSET (IF ability.digs THEN Alive(after) ELSE {}) :
                LET settled == Fall(after, fallen)
                IN  IF ability.free /\ active \in Alive(settled)
                                    /\ Undecided(settled)
                      THEN board' = settled /\ charged' = FALSE /\ UNCHANGED <<active, turn>>
                      ELSE Finish(settled)

(* pass_turn(), time_out_turn(), and a walk off the map.                   *)
EndTurn ==
  /\ Undecided(board)
  /\ \E fallen \in SUBSET {active} : Finish(Fall(EmptyRecord(board), fallen))

(* A turn ends with a hand-over, or with the match.                        *)
TurnEnds == turn' # turn \/ ~Undecided(board')

Next == (\E ability \in Ability : UseAbility(ability)) \/ EndTurn

Spec == Init /\ [][Next]_vars

-----------------------------------------------------------------------------
(* Knives set off by a chain: connected to the landing one.                *)
Connected(knives, start) ==
  LET reach[n \in 0..Cardinality(knives)] ==
        IF n = 0 THEN start
        ELSE {k \in knives : \E q \in reach[n - 1] :
                Near(k.place, q.place, BlastRadius)}
  IN  reach[Cardinality(knives)]

(* A knife that lands among others sets off exactly the knives connected   *)
(* to it, and everybody is hurt once by each of them that reaches him, in  *)
(* whatever order they go off; one that lands alone stays (objects.rs:222).*)
ChainsAreComplete ==
  \A place \in UNION {ability.lands : ability \in Ability} :
    LET b      == Embed(board, active, place)
        knives == Knives(b)
        landed == CHOOSE k \in knives : k.sequence = board.next
        near   == {k \in knives \ {landed} : Near(k.place, place, TriggerRadius)}
        gone   == IF near = {} THEN {} ELSE Connected(knives, near \cup {landed})
        after  == ChainDetonate(b, place)
        felt(p) == Cardinality({k \in gone : Near(k.place, Standing[p], BlastRadius)})
    IN  /\ Knives(after) = knives \ gone
        /\ \A p \in Player :
             after.health[p] =
               IF b.health[p] > felt(p) THEN b.health[p] - felt(p) ELSE 0

(* Between commands the objects stand in the order of their numbers, an    *)
(* owner has one turret and no more knives than the cap, no turn begins    *)
(* with an object of the dead, and the chain a knife would set off here is *)
(* complete (types.rs:1099, objects.rs:74, 123, victory.rs:160).           *)
ObjectsAreKept ==
  LET objects == ToSet(board.objects)
      owned(p, kind) == {o \in objects : o.owner = p /\ o.kind = kind}
  IN  /\ \A i, j \in DOMAIN board.objects :
           i < j => board.objects[i].sequence < board.objects[j].sequence
      /\ \A p \in Player :
           /\ Cardinality(owned(p, "Turret")) <= 1
           /\ Cardinality(owned(p, "EmbeddedKnife")) <= KnifeCap
      /\ charged => \A o \in objects : board.health[o.owner] > 0
      /\ ChainsAreComplete

(* The records of every command replay from the board before it to the     *)
(* board after it, however many statuses and objects came and went in      *)
(* between: a session that finds otherwise closes for good. And what no    *)
(* record speaks of stayed as it was, but that a timed status loses a turn *)
(* when its bearer's own turn ends (match_session.rs:2840, 2969,           *)
(* status.rs:205). A GuaranteeCrit mark does not: tick_statuses() passes   *)
(* it over (status.rs:240), though attack_mods.rs:343-346 says that it     *)
(* "will still erode" the mark "by one per turn". The property follows the *)
(* code, with which the comment of tick_statuses() itself agrees.          *)
EffectsAreAccountedFor ==
  [][/\ StatusesReconcile(board, board')
     /\ ObjectsReconcile(board, board')
     /\ \A p \in Player : \A kind \in DOMAIN board.statuses[p] :
          \/ \E i \in DOMAIN board'.statusLog :
               LET c == board'.statusLog[i]
               IN  /\ c.player = p /\ c.kind = kind
                   /\ c.transition.name \in {"Refreshed", "ChargeConsumed", "Exhausted"}
          \/ /\ kind \in DOMAIN board'.statuses[p]
             /\ board'.statuses[p][kind] = board.statuses[p][kind]
          \/ kind # Mark /\ p = active /\ TurnEnds]_vars

=============================================================================
