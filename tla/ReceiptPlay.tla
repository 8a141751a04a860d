---------------------------- MODULE ReceiptPlay ----------------------------
(***************************************************************************)
(* A match told from its receipts: every ability is resolved strike by     *)
(* strike (module Strikes) inside the calls of the match host, and every   *)
(* accepted request leaves its account and its events.                     *)
(* Nobody walks: footing is lost to attacks only.                          *)
(***************************************************************************)
EXTENDS Strikes

CONSTANTS
  Kit,        \* Kit[p][slot]: the ability of p in that slot
  Lines,      \* who can be in the way of a projectile, nearest first
  Ticks,      \* how long a projectile can fly
  Drops,      \* what a cluster can drop on one player
  Seeds       \* the generator states a match may start from

AbilityData ==
  [attack : {"Projectile", "Strike"}, strikes : Nat \ {0}, damage : Nat, crit : Nat,
   chance : Nat, cap : Nat, shoves : BOOLEAN, burn : EmberTurns \cup {0}]

(* What module Command says of the roster's kits, and that no ability      *)
(* without a chance of a critical strike has one to gain by                *)
(* (command.rs:809).                                                       *)
ASSUME KitAssumption ==
  /\ Kit \in [Player -> [Slot -> AbilityData]]
  /\ \A p \in Player, slot \in Slot :
       LET a == Kit[p][slot]
       IN  /\ a.crit > a.damage => a.chance > 0
           /\ slot # "BasicAlt" => a.attack = "Projectile"
           /\ slot = "BasicAlt" => a.burn = 0
           /\ slot = "Trinket" => ~a.shoves

ASSUME AimAssumption ==
  /\ IsFiniteSet(Player)
  /\ Lines \subseteq Seq(Player)
  /\ Ticks \subseteq Nat
  /\ Drops \subseteq Nat
  /\ Seeds \subseteq RngState
  /\ CommandId \subseteq Nat

VARIABLES
  match,      \* the host's state
  rng,        \* its generator
  receipt     \* the last accepted request

vars == <<match, rng, receipt>>

NoAbility ==
  [attack |-> "None", strikes |-> 0, damage |-> 0, crit |-> 0, chance |-> 0,
   cap |-> 0, shoves |-> FALSE, burn |-> 0]

NoAim ==
  [target |-> Nobody, flights |-> <<>>, reach |-> {}, blast |-> [q \in Player |-> 0]]

Init ==
  /\ match = Start(InitialState)
  /\ rng \in Seeds
  /\ receipt = [pre |-> match, rng |-> rng, kind |-> "None"]

-----------------------------------------------------------------------------
(* Where an ability may land: projectiles carry no target, and a blow no   *)
(* flights.                                                                *)
Flights(a) == [1..a.strikes -> [line : Lines, tick : Ticks]]

Blasts(a) ==
  IF a.cap = 0 THEN {NoAim.blast}
  ELSE [Player -> Drops]

Aims(p, a) ==
  IF a.attack = "Projectile"
    THEN {[NoAim EXCEPT !.flights = shot.flights, !.blast = shot.blast] :
            shot \in [flights : Flights(a), blast : Blasts(a)]}
    ELSE {[NoAim EXCEPT !.target = q] : q \in Living(match)} \cup
         {[NoAim EXCEPT !.reach = reach] : reach \in SUBSET (Living(match) \ {p})}

(* What the host is handed: the outcome of a resolved ability as a record  *)
(* of Effects.                                                             *)
Footing(a) == IF a.shoves THEN {{}} \cup {{q} : q \in Living(match)} ELSE {{}}

Burnt(a, f) ==
  IF a.burn = 0 THEN {{}} ELSE SUBSET {q \in Player : f.health[q] > 0}

Outcome(a, f, lost, burnt) ==
  [health |-> f.health, dealt |-> f.dealt > 0, lost |-> lost, burnt |-> burnt,
   burn |-> IF burnt = {} THEN 0 ELSE a.burn, turret |-> FALSE]

(* The client never reuses an id here (module SessionPlay does).           *)
Command(slot) ==
  [id |-> CHOOSE id \in CommandId \ match.processed :
            \A other \in CommandId \ match.processed : id <= other,
   player |-> match.active, turn |-> match.turn, slot |-> slot, power |-> 1]

UseAbility(slot) ==
  /\ match.processed # CommandId
  /\ Valid(match, Command(slot))
  /\ LET c == Command(slot)
         a == Kit[c.player][slot]
     IN  \E aim \in Aims(c.player, a) :
         LET f == ResolveAbility(match, rng, c.player, a, aim)
         IN  \E lost \in Footing(a), burnt \in Burnt(a, f) :
             LET fx == Outcome(a, f, lost, burnt)
             IN  \E pit \in SUBSET lost :
                 /\ match' = SubmitAbility(match, c, fx, pit)
                 /\ rng' = f.rng
                 /\ receipt' =
                      [pre |-> match, rng |-> rng, kind |-> "Ability",
                       command |-> c, ability |-> a, aim |-> aim, fx |-> fx,
                       account |-> f,
                       events |-> DeriveEvents(match, match', f)]

Pass ==
  /\ match.phase # "MatchComplete"
  /\ match' = PassTurn(match)
  /\ rng' = rng
  /\ receipt' =
       [pre |-> match, rng |-> rng, kind |-> "Pass",
        account |-> Opened(match, rng),
        events |-> DeriveEvents(match, match', Opened(match, rng))]

Next == (\E slot \in Slot : UseAbility(slot)) \/ Pass

Spec == Init /\ [][Next]_vars

-----------------------------------------------------------------------------
(* What follows speaks about the last receipt: match is the state after    *)
(* it, receipt.pre the state before.                                       *)

(* The session never closes on an ability the rules allow: whatever the    *)
(* barrage hits, whoever dies half way through it or falls afterwards, the *)
(* account passes every check the session makes of it. And it leaves       *)
(* nothing out: but for falls and the forced draw, which leave nobody      *)
(* alive, health before is health after plus the damage itemised           *)
(* (match_session.rs:3144, command.rs:868).                                *)
ReceiptsReconcile ==
  /\ receipt.kind = "Ability" =>
       ReconcileStrikes(receipt.pre, match, receipt.command.player,
                        receipt.ability, receipt.aim, receipt.account)
  /\ receipt.kind # "None" =>
       \A q \in Player :
         LET item == Entry(receipt.account, q)
             left == receipt.pre.health[q] - item.direct
         IN  /\ match.health[q] = left \/ (left > 0 /\ match.health[q] = 0)
             /\ q \in DOMAIN receipt.account.damage => (item.eliminated <=> left = 0)

(* What the first n of a sequence of strikes took from a player.           *)
Taken(strikes, q, n) ==
  FoldLeft(LAMBDA sum, i : sum + (IF strikes[i].target = q THEN strikes[i].applied ELSE 0),
           0, [i \in 1..n |-> i])

(* What a cause says of the account: the strike after which nothing was    *)
(* left, an effect that took the rest, or the host where the ability had   *)
(* left him alive.                                                         *)
RightCause(pre, f, q, cause) ==
  CASE cause.by = "Strike" ->
         /\ Taken(f.strikes, q, cause.index) = pre.health[q]
         /\ Taken(f.strikes, q, cause.index - 1) < pre.health[q]
    [] cause.by = "AbilityEffect" ->
         /\ Entry(f, q).direct = pre.health[q]
         /\ Taken(f.strikes, q, Len(f.strikes)) < pre.health[q]
    [] cause.by = "AuthoritativeResolution" -> Entry(f, q).direct < pre.health[q]

(* Whose death an event tells.                                             *)
ToldDead(events, q) ==
  {k \in DOMAIN events : /\ events[k].kind = "PlayerEliminated"
                         /\ events[k].about.player = q}

(* Everybody who died in a request is reported dead exactly once, after    *)
(* the last strike that touched him, and of the right cause                *)
(* (match_session.rs:3916).                                                *)
DeathsAreTold ==
  receipt.kind # "None" =>
    LET events == receipt.events
        strikes == receipt.account.strikes
    IN  \A q \in Player :
          /\ Cardinality(ToldDead(events, q)) =
               IF q \in Died(receipt.pre, match) THEN 1 ELSE 0
          /\ \A k \in ToldDead(events, q) :
               /\ RightCause(receipt.pre, receipt.account, q, events[k].about.cause)
               /\ \A j \in k..Len(events) : events[j].kind = "StrikeResolved" =>
                                             strikes[events[j].about].target # q

(* Where a sequence of events tells something.                             *)
Told(events, kind, about) ==
  CHOOSE k \in DOMAIN events : events[k].kind = kind /\ events[k].about = about

(* The events of a request can be played in their order: a projectile      *)
(* before its impact and the impact before the strike it delivers, the end *)
(* of the turn after all of it and the next turn last of all               *)
(* (match_session.rs:3737).                                                *)
StoryInOrder ==
  receipt.kind # "None" =>
    LET events == receipt.events
        strikes == receipt.account.strikes
    IN  /\ \A i \in DOMAIN strikes : strikes[i].trace # 0 =>
             /\ Told(events, "ProjectileTrace", strikes[i].trace)
                  < Told(events, "Impact", strikes[i].trace)
             /\ Told(events, "Impact", strikes[i].trace) < Told(events, "StrikeResolved", i)
        /\ \A k \in DOMAIN events : events[k].kind = "TurnEnded" =>
             \A j \in k + 1..Len(events) :
               events[j].kind \in {"MatchCompleted", "TurnOpened"}
        /\ \A k \in DOMAIN events : events[k].kind = "TurnOpened" => k = Len(events)

(* The story of a request can be shown as it is told.                      *)
StoryIsTold == DeathsAreTold /\ StoryInOrder

Redraw(acc, a, r) ==
  LET draw == Bounded(acc.rng, CritBound)
  IN  IF r.crit = "NotEligible" THEN acc
      ELSE [rng |-> draw.state,
            ok  |-> acc.ok /\ (r.crit = "Landed" <=> draw.value < a.chance)]

(* The dice of a sequence of strike records, drawn again from a state.     *)
Redrawn(from, a, strikes) ==
  FoldLeft(LAMBDA acc, r : Redraw(acc, a, r), [rng |-> from, ok |-> TRUE], strikes)

(* The dice can be replayed from the receipt alone: one draw below the     *)
(* bound for every strike recorded as landed or missed and none for the    *)
(* rest, from the generator before the request to the one after it         *)
(* (command.rs:806).                                                       *)
DrawsReplay ==
  receipt.kind # "None" =>
    LET replay == Redrawn(receipt.rng, receipt.ability, receipt.account.strikes)
    IN  replay.ok /\ replay.rng = rng

(* What the strikes come to is always one of the outcomes module Command   *)
(* allows an ability: the matches of module MatchPlay include these.       *)
OutcomesAreEffects ==
  receipt.kind = "Ability" =>
    receipt.fx \in Effects(receipt.pre, receipt.command)

=============================================================================
