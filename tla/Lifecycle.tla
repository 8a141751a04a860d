------------------------------ MODULE Lifecycle ------------------------------
(***************************************************************************)
(* Statuses and placed objects (resolve/status.rs, resolve/objects.rs and  *)
(* the charges of resolve/attack_mods.rs), with the ordered records their  *)
(* producers keep, and the replay by which a session checks the records    *)
(* (match_session.rs:2840, 2969). A board is a record                      *)
(*   health     health[p], 0 is eliminated                                 *)
(*   statuses   statuses[p]: the statuses p carries, one of a kind         *)
(*   objects    the placed objects, in the order of their sequence numbers *)
(*   next       the next sequence number                                   *)
(*   statusLog, objectLog   what the present command recorded              *)
(* Places are points on a line.                                            *)
(***************************************************************************)
EXTENDS Integers, Sequences, FiniteSets, SequencesExt

CONSTANTS
  Standing,       \* where each player stands, in the order of the state
  KnifeCap,       \* knives an owner may have in play
  TriggerRadius,  \* a landing knife sets off the knives within
  BlastRadius,    \* a detonation reaches players and knives within
  BodyWidth       \* an area effect reaches players within

ASSUME StandingAssumption == Standing \in Seq(Int) /\ Standing # <<>>
ASSUME RadiusAssumption ==
  KnifeCap \in Nat \ {0} /\ {TriggerRadius, BlastRadius, BodyWidth} \subseteq Nat

Player == DOMAIN Standing

(* The players in the order of the state.                                  *)
Roster == [p \in Player |-> p]

Mark == "GuaranteeCrit"

(* Kinds that last a number of turns, in the order of EffectKind.          *)
Timed == <<"Chill", "Embers", "Lockdown">>

(* u8::MAX: a mark is counted in strikes, never in turns.                  *)
Never == 255

Near(here, there, radius) == here - there \in -radius..radius

Alive(b) == {p \in Player : b.health[p] > 0}

Opponents(b, actor) == Alive(b) \ {actor}

Knives(b) == {o \in ToSet(b.objects) : o.kind = "EmbeddedKnife"}

Owned(b, p) == {o \in ToSet(b.objects) : o.owner = p}

Oldest(objects) == {o \in objects : \A q \in objects : o.sequence <= q.sequence}

-----------------------------------------------------------------------------
(* Statuses.                                                               *)

Noted(b, p, kind, transition) ==
  [b EXCEPT !.statusLog =
     Append(@, [player |-> p, kind |-> kind, transition |-> transition])]

With(held, kind, status) ==
  [k \in DOMAIN held \cup {kind} |-> IF k = kind THEN status ELSE held[k]]

Without(held, kind) == [k \in DOMAIN held \ {kind} |-> held[k]]

ApplyUnrefreshedBug(b, p, kind, status) ==
  LET held == b.statuses[p]
  IN  Noted([b EXCEPT !.statuses[p] = With(held, kind, status)], p, kind,
            [name |-> "Applied", status |-> status])

(* apply_status() and resolve_guarantee_crit(): a status of a kind already *)
(* carried is replaced, never added to.                                    *)
Apply(b, p, kind, status) ==
  LET held == b.statuses[p]
  IN  Noted([b EXCEPT !.statuses[p] = With(held, kind, status)], p, kind,
        IF kind \in DOMAIN held
          THEN [name |-> "Refreshed", status |-> status, replaced |-> held[kind]]
          ELSE [name |-> "Applied", status |-> status])

(* consume_guarantee_crit(): one charge for one strike.                    *)
Consume(b, p) ==
  LET held == b.statuses[p]
      left == held[Mark].magnitude - 1
  IN  IF Mark \notin DOMAIN held \/ held[Mark].magnitude <= 0 THEN b
      ELSE IF left = 0
        THEN Noted([b EXCEPT !.statuses[p] = Without(held, Mark)], p, Mark,
                   [name |-> "Exhausted"])
        ELSE Noted([b EXCEPT !.statuses[p][Mark].magnitude = left], p, Mark,
                   [name |-> "ChargeConsumed", remaining |-> left])

TickStatus(b, p, kind) ==
  LET held == b.statuses[p]
      left == IF held[kind].turns > 0 THEN held[kind].turns - 1 ELSE 0
  IN  IF kind \notin DOMAIN held THEN b
      ELSE IF left = 0
        THEN Noted([b EXCEPT !.statuses[p] = Without(held, kind)], p, kind,
                   [name |-> "Expired"])
        ELSE Noted([b EXCEPT !.statuses[p][kind].turns = left], p, kind,
                   [name |-> "Ticked", turns |-> left])

(* tick_statuses(): at the end of p's turn p's timed statuses, and only    *)
(* those, have a turn less; 0 does not wrap.                               *)
Tick(b, p) == FoldLeft(LAMBDA acc, kind : TickStatus(acc, p, kind), b, Timed)

-----------------------------------------------------------------------------
(* Objects.                                                                *)

Spawned(o) == [object |-> o, transition |-> "Spawned"]

Removed(o, cause) == [object |-> o, transition |-> cause]

(* The objects of a set leave, in the order they were placed, for a cause. *)
Sift(b, o, gone, cause) ==
  IF o \in gone THEN [b EXCEPT !.objectLog = Append(@, Removed(o, cause))]
                ELSE [b EXCEPT !.objects = Append(@, o)]

Discard(b, gone, cause) ==
  FoldLeft(LAMBDA acc, o : Sift(acc, o, gone, cause),
           [b EXCEPT !.objects = <<>>], b.objects)

(* next_object_sequence() and push.                                        *)
Spawn(b, owner, kind, place, turns) ==
  LET o == [sequence |-> b.next, owner |-> owner, kind |-> kind,
            place |-> place, turns |-> turns]
  IN  [b EXCEPT !.objects   = Append(@, o),
                !.next      = @ + 1,
                !.objectLog = Append(@, Spawned(o))]

(* spawn_turret(): the owner's previous turret makes room.                 *)
SpawnTurret(b, actor, place, turns) ==
  Spawn(Discard(b, {o \in Owned(b, actor) : o.kind = "Turret"}, "Replaced"),
        actor, "Turret", place, turns)

(* embed_projectile(): the owner's oldest knife goes once the new one      *)
(* makes one too many.                                                     *)
Embed(b, actor, place) ==
  LET embedded == Spawn(b, actor, "EmbeddedKnife", place, Never)
      mine     == Knives(embedded) \cap Owned(embedded, actor)
  IN  IF Cardinality(mine) <= KnifeCap THEN embedded
      ELSE Discard(embedded, Oldest(mine), "CapacityEvicted")

(* One detonation: whoever lives and stands near loses a point of health.  *)
Burst(b, knife) ==
  [b EXCEPT !.health =
     [p \in Player |-> IF @[p] > 0 /\ Near(knife.place, Standing[p], BlastRadius)
                         THEN @[p] - 1 ELSE @[p]]]

DetonateNextOnceBug(chain, knives) ==
  LET knife == CHOOSE k \in Oldest(chain.pending) : TRUE
  IN  [board     |-> Burst(chain.board, knife),
       pending   |-> chain.pending \ {knife},
       detonated |-> chain.detonated \cup {knife}]

(* The loop body of chain_detonate(): the oldest pending knife goes off,   *)
(* and the knives it reaches wait their turn.                              *)
DetonateNext(chain, knives) ==
  LET knife == CHOOSE k \in Oldest(chain.pending) : TRUE
      done  == chain.detonated \cup {knife}
  IN  [board     |-> Burst(chain.board, knife),
       pending   |-> (chain.pending \ {knife}) \cup
                     {k \in knives \ done : Near(knife.place, k.place, BlastRadius)},
       detonated |-> done]

(* chain_detonate(): does the knife that just landed at place set off the  *)
(* others? The loop runs at most once per knife.                           *)
ChainDetonate(b, place) ==
  LET knives  == Knives(b)
      here    == {k \in knives : k.place = place}
      landing == CHOOSE k \in here : \A q \in here : q.sequence <= k.sequence
      near    == {k \in knives \ {landing} :
                    Near(landing.place, k.place, TriggerRadius)}
      loop[n \in 0..Cardinality(knives)] ==
        IF n = 0
          THEN [board |-> b, pending |-> near \cup {landing}, detonated |-> {}]
          ELSE IF loop[n - 1].pending = {} THEN loop[n - 1]
               ELSE DetonateNext(loop[n - 1], knives)
      last    == loop[Cardinality(knives)]
  IN  IF here = {} \/ near = {} THEN b
      ELSE Discard(last.board, last.detonated, "Detonated")

(* check_and_finalize(): the dead leave nothing in play, player by player. *)
Cleanup(b) ==
  FoldLeft(LAMBDA acc, p :
             IF p \in Alive(b) THEN acc
             ELSE Discard(acc, Owned(acc, p), "OwnerEliminated"),
           b, Roster)

-----------------------------------------------------------------------------
(* The session's check: the records, replayed from the board before the    *)
(* command, end at the board after it.                                     *)

(* apply_status_change(): may this record follow?                          *)
StatusFits(held, change) ==
  LET k == change.kind
      t == change.transition
      status == held[k]
  IN  \/ t.name = "Applied" /\ k \notin DOMAIN held
      \/ /\ k \in DOMAIN held
         /\ \/ t.name = "Refreshed" /\ status = t.replaced
            \/ /\ t.name = "ChargeConsumed"
               /\ t.remaining > 0 /\ status.magnitude - 1 = t.remaining
            \/ t.name = "Ticked" /\ t.turns > 0 /\ status.turns - 1 = t.turns
            \/ t.name = "Exhausted" /\ status.magnitude = 1
            \/ t.name = "Expired" /\ status.turns <= 1

StatusAfter(held, change) ==
  LET k == change.kind
      t == change.transition
  IN  CASE t.name \in {"Applied", "Refreshed"} -> With(held, k, t.status)
        [] t.name = "ChargeConsumed" ->
             With(held, k, [held[k] EXCEPT !.magnitude = t.remaining])
        [] t.name = "Ticked" -> With(held, k, [held[k] EXCEPT !.turns = t.turns])
        [] t.name \in {"Exhausted", "Expired"} -> Without(held, k)

(* reconcile_status_changes().                                             *)
StatusReplay(acc, change) ==
  IF acc.ok /\ StatusFits(acc.statuses[change.player], change)
    THEN [acc EXCEPT !.statuses[change.player] = StatusAfter(@, change)]
    ELSE [acc EXCEPT !.ok = FALSE]

StatusesReconcile(pre, post) ==
  LET replay == FoldLeft(StatusReplay, [ok |-> TRUE, statuses |-> pre.statuses],
                         post.statusLog)
  IN  replay.ok /\ replay.statuses = post.statuses

Sequences(objects) == {o.sequence : o \in objects}

(* reconcile_object_changes(): a sequence number is never used twice, and  *)
(* what is removed is what was placed.                                     *)
ObjectReplay(acc, change) ==
  LET o == change.object
  IN  IF change.transition = "Spawned"
        THEN [ok     |-> acc.ok /\ o.sequence \notin acc.used,
              shadow |-> acc.shadow \cup {o},
              used   |-> acc.used \cup {o.sequence}]
        ELSE [ok     |-> acc.ok /\ o \in acc.shadow,
              shadow |-> acc.shadow \ {o},
              used   |-> acc.used]

ObjectsReconcile(pre, post) ==
  LET before == ToSet(pre.objects)
      after  == ToSet(post.objects)
      replay == FoldLeft(ObjectReplay,
                         [ok |-> TRUE, shadow |-> before, used |-> Sequences(before)],
                         post.objectLog)
  IN  /\ replay.ok
      /\ Sequences(replay.shadow) = Sequences(after)
      /\ replay.shadow \ before \subseteq after

=============================================================================
