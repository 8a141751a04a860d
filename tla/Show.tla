-------------------------------- MODULE Show --------------------------------
(***************************************************************************)
(* What the player sees of an answered command (Main.cs): while the input  *)
(* is locked the world before it, with projectiles, moves and cues on a    *)
(* slowed clock; then the world after it. Frames come at irregular times,  *)
(* and bursts of particles are thrown by the frames that happen to fall    *)
(* into the first moments of a cue (CombatEffectSystem.cs). A burst is     *)
(* kept as the milliseconds left to it. The same show is seen by players   *)
(* with different settings: effects[v] is what view v has on the screen.   *)
(***************************************************************************)
EXTENDS Integers, Sequences, FiniteSets, SequencesExt

CONSTANTS None, Player, Transitions, Frames,
          Views,           \* [tier, calm]: performance tier and reduced motion
          MaxParticles, MaxShockwaves, MaxTargetMarkers, MaxDamageTexts

-----------------------------------------------------------------------------
(* How the client times what it shows of a transition: projectile paths    *)
(* (ProjectilePlayback.cs), walkers and the thrown (MovementPlayback.cs)   *)
(* and the cues of actors and impacts (TransitionCueResolver.cs). Times    *)
(* are milliseconds, ticks are the authority's; positions lie on one axis. *)

MinimumFlightMsec == 1100
ImpactHoldMsec    == 500
FireDurationMsec  == 650
HitDurationMsec   == 300
ReturnLegTicks    == 24
AuthorityRate     == 60

Larger(a, b)  == IF a > b THEN a ELSE b
Smaller(a, b) == IF a < b THEN a ELSE b

(* MathF.Round of n / d: halves go to the even neighbour.                  *)
Round(n, d) ==
  LET q == n \div d
      twice == 2 * (n % d)
  IN  IF twice < d \/ (twice = d /\ q % 2 = 0) THEN q ELSE q + 1

Between(a, b, n, d) == a + Round((b - a) * n, d)

-----------------------------------------------------------------------------
(* Projectiles: a trace is sampled at ticks and ends in an impact.         *)

PositionAt(trace, tick) ==
  LET s == trace.samples
  IN  IF tick <= Head(s).tick THEN Head(s).x
      ELSE IF tick >= Last(s).tick THEN Last(s).x
      ELSE LET i == CHOOSE k \in 1..(Len(s) - 1) :
                      /\ s[k].tick <= tick /\ tick <= s[k + 1].tick
                      /\ \A j \in 1..(k - 1) : s[j + 1].tick < tick
               span == s[i + 1].tick - s[i].tick
           IN  IF span = 0 THEN s[i + 1].x
               ELSE Between(s[i].x, s[i + 1].x, tick - s[i].tick, span)

TickAt(elapsed, rate, lockTicks) ==
  IF rate = 0 THEN lockTicks
  ELSE Smaller((elapsed * rate) \div 1000, lockTicks)

LastSampleTick(trace) ==
  IF trace.samples = <<>> THEN trace.impact
  ELSE Larger(Last(trace.samples).tick, trace.impact)

(* A short flight is slowed down, so that it takes its minimum.            *)
VisualTickRate(last, rate) ==
  LET authority == IF rate = 0 THEN AuthorityRate ELSE rate
  IN  IF last = 0 \/ last * 1000 >= MinimumFlightMsec * authority THEN authority
      ELSE Larger(1, (last * 1000) \div MinimumFlightMsec)

PlaybackMsecNoHoldBug(last, visualRate) ==
  Larger(MinimumFlightMsec, (last * 1000) \div Larger(1, visualRate))

PlaybackMsec(last, visualRate) ==
  Larger(MinimumFlightMsec, (last * 1000) \div Larger(1, visualRate)) + ImpactHoldMsec

(* A boomerang is shown to come back to its thrower.                       *)
WithReturnTo(trace, catcher) ==
  LET end == Last(trace.samples)
      leg == [step \in 1..ReturnLegTicks |->
                [tick |-> end.tick + step,
                 x    |-> Between(end.x, catcher, step, ReturnLegTicks)]]
  IN  IF trace.samples = <<>> THEN trace
      ELSE [trace EXCEPT !.samples = @ \o leg]

-----------------------------------------------------------------------------
(* Actors that move between the two snapshots.                             *)

SteppedTooSoonBug(moved, tick, lockTicks, calm) ==
  IF calm \/ lockTicks <= moved.tick
    THEN IF tick >= moved.tick THEN moved.end ELSE moved.start
    ELSE LET span == lockTicks - moved.tick
             k == Smaller(tick - moved.tick, span)
         IN  Between(moved.start, moved.end,
                     k * k * (3 * span - 2 * k), span * span * span)

(* InterpolatePlayer(): eased in and out, or a jump for reduced motion.    *)
Stepped(moved, tick, lockTicks, calm) ==
  IF calm \/ lockTicks <= moved.tick
    THEN IF tick >= moved.tick THEN moved.end ELSE moved.start
    ELSE LET span == lockTicks - moved.tick
             k == Smaller(Larger(tick - moved.tick, 0), span)
         IN  Between(moved.start, moved.end,
                     k * k * (3 * span - 2 * k), span * span * span)

FindMovementEvent(events, player) ==
  LET moves == {i \in DOMAIN events :
                  events[i].kind = "EntityMoved" /\ events[i].player = player}
  IN  IF moves = {} THEN None
      ELSE events[CHOOSE i \in moves : \A j \in moves : i <= j]

-----------------------------------------------------------------------------
(* Cues: an event is told for a while from its tick on.                    *)

EventMsec(e, rate) == (e.tick * 1000) \div Larger(1, rate)

CueLife(e) ==
  CASE e.kind = "ProjectileTrace" -> FireDurationMsec
    [] e.kind = "HealthChanged"   -> HitDurationMsec
    [] e.kind \in {"PlayerEliminated", "Impact"} -> ImpactHoldMsec

Told(e) ==
  \/ e.kind \in {"ProjectileTrace", "PlayerEliminated", "Impact"}
  \/ e.kind = "HealthChanged" /\ e.loss > 0

(* TryGetAge01(): the age of the cue, or None.                             *)
AgeOf(e, elapsed, rate) ==
  LET age == elapsed - EventMsec(e, rate)
  IN  IF Told(e) /\ 0 <= age /\ age < CueLife(e) THEN age ELSE None

Ordered(events) ==
  SortSeq(events, LAMBDA e, f :
    e.tick < f.tick \/ (e.tick = f.tick /\ e.sequence < f.sequence))

PrioritySwappedBug(kind) ==
  CASE kind = "ProjectileTrace"  -> 0
    [] kind = "HealthChanged"    -> 2
    [] kind = "PlayerEliminated" -> 1

Priority(kind) ==
  CASE kind = "ProjectileTrace"  -> 0
    [] kind = "HealthChanged"    -> 1
    [] kind = "PlayerEliminated" -> 2

(* One cue for an actor: the gravest, and the latest of its kind.          *)
AddActorCue(cue, e) ==
  IF \/ cue = None
     \/ Priority(e.kind) > Priority(cue.kind)
     \/ e.kind = cue.kind /\ e.sequence >= cue.sequence
    THEN e ELSE cue

Active(events, elapsed, rate) ==
  SelectSeq(Ordered(events), LAMBDA e : AgeOf(e, elapsed, rate) # None)

CueFor(events, elapsed, rate, player) ==
  FoldLeft(AddActorCue, None,
           SelectSeq(Active(events, elapsed, rate),
                     LAMBDA e : e.kind # "Impact" /\ e.player = player))

ImpactCues(events, elapsed, rate) ==
  SelectSeq(Active(events, elapsed, rate), LAMBDA e : e.kind = "Impact")

-----------------------------------------------------------------------------
VARIABLES playback,        \* _playback, or None
          elapsed,         \* now - StartMsec
          locked,          \* _inputLockedUntilMsec - now, or 0
          effects          \* the four pools

vars == <<playback, elapsed, locked, effects>>

NoEffects == [particles |-> <<>>, shocks |-> <<>>, markers |-> <<>>, texts |-> <<>>]

Init ==
  /\ playback = None /\ elapsed = 0 /\ locked = 0
  /\ effects = [v \in Views |-> NoEffects]

-----------------------------------------------------------------------------
(* CombatEffectSystem.                                                     *)

Fill(pool, max, lives) ==
  pool \o SubSeq(lives, 1, Smaller(Len(lives), max - Len(pool)))

Quiet(v) == v.calm \/ v.tier = "Low"

Count(v, medium, high) == IF v.tier = "Medium" THEN medium ELSE high

Sparks(fx, v, lives) ==
  IF Quiet(v) THEN fx ELSE [fx EXCEPT !.particles = Fill(@, MaxParticles, lives)]

SpawnMuzzleFire(fx, v) == Sparks(fx, v, [i \in 1..Count(v, 3, 7) |-> 220])

SpawnTerrainDebris(fx, v) ==
  Sparks(fx, v, [i \in 1..Count(v, 8, 16) |-> 550 + 250 * ((i - 1) % 2)])

SpawnHitSparks(fx, v) ==
  Sparks([fx EXCEPT !.markers = Fill(@, MaxTargetMarkers, <<400>>)], v,
         [i \in 1..Count(v, 4, 8) |-> 280])

(* The oldest number makes room for the newest.                            *)
SpawnDamageNumber(fx) ==
  [fx EXCEPT !.texts =
     Append(IF Len(@) >= MaxDamageTexts THEN Tail(@) ELSE @, 800)]

SpawnImpactQuietFirstBug(fx, v) ==
  IF Quiet(v) THEN [fx EXCEPT !.shocks = Fill(@, MaxShockwaves, <<350>>)]
  ELSE Sparks([fx EXCEPT !.markers = Fill(@, MaxTargetMarkers, <<650>>)],
              v, [i \in 1..Count(v, 6, 14) |-> 350 + 150 * ((i - 1) % 2)])

SpawnImpact(fx, v) ==
  LET rings == IF v.calm THEN <<350>>
               ELSE IF v.tier = "High" THEN <<450, 300>> ELSE <<450>>
  IN  Sparks([fx EXCEPT !.markers = Fill(@, MaxTargetMarkers, <<650>>),
                        !.shocks  = Fill(@, MaxShockwaves, rings)],
             v, [i \in 1..Count(v, 6, 14) |-> 350 + 150 * ((i - 1) % 2)])

(* Update(): what has run out is removed.                                  *)
Aged(fx, delta) ==
  LET older(pool) == SelectSeq([i \in DOMAIN pool |-> pool[i] - delta],
                               LAMBDA left : left > 0)
  IN  [particles |-> older(fx.particles), shocks |-> older(fx.shocks),
       markers |-> older(fx.markers), texts |-> older(fx.texts)]

-----------------------------------------------------------------------------
(* BeginShotPlayback(): None when there is nothing to play.                *)

Traces(t) ==
  LET of(e) == IF e.returning /\ t.thrower # None
                 THEN WithReturnTo(e.trace, t.thrower) ELSE e.trace
      shots == SelectSeq(t.events, LAMBDA e : e.kind = "ProjectileTrace")
  IN  [i \in DOMAIN shots |-> of(shots[i])]

Moves(t) == \E i \in DOMAIN t.events : t.events[i].kind = "EntityMoved"

BeginShotPlayback(t) ==
  LET traces == Traces(t)
      last   == FoldLeft(LAMBDA n, trace : Larger(n, LastSampleTick(trace)), 0, traces)
      ticks  == Larger(last, t.lock)
      rate   == IF t.rate = 0 THEN 30 ELSE t.rate
      walk   == IF ticks = 0 THEN 6 ELSE ticks
      shown(visual, lockTicks, duration) ==
        [events |-> t.events, rate |-> visual, lockTicks |-> lockTicks,
         traces |-> traces, duration |-> duration]
  IN  IF traces = <<>> /\ ~Moves(t) THEN None
      ELSE IF traces # <<>>
        THEN LET visual == VisualTickRate(ticks, t.rate)
             IN  shown(visual, ticks, PlaybackMsec(ticks, visual))
      ELSE shown(rate, walk, Larger(180, (walk * 1000) \div rate))

(* SpawnTransitionEffects(): a block that broke or fell throws its debris  *)
(* as soon as the answer is there.                                         *)
BrokenBlocks(t) ==
  SelectSeq(t.events, LAMBDA e : e.kind = "BlockChanged" /\ (e.after = 0 \/ e.fell))

LockDuration(t) == IF t.rate = 0 THEN 0 ELSE (t.lock * 1000) \div t.rate

(* SubmitAndRedrawAsync() for an answered command: the native call is over *)
(* before anything else happens on the frame thread.                       *)
Submit(t) ==
  /\ locked = 0
  /\ playback' = BeginShotPlayback(t)
  /\ elapsed' = 0
  /\ locked' = IF playback' = None THEN LockDuration(t) ELSE playback'.duration
  /\ effects' = [v \in Views |->
                   FoldLeft(LAMBDA fx, e : SpawnTerrainDebris(fx, v), effects[v],
                            BrokenBlocks(t))]

-----------------------------------------------------------------------------
(* A frame: _Process(), then the drawing at the same instant.              *)

(* DrawActorCue(): 6% of a shot's cue, 8% of a hit's.                      *)
CueBurst(fx, v, cue, now, rate) ==
  IF cue = None THEN fx
  ELSE LET age == AgeOf(cue, now, rate)
       IN  IF cue.kind = "ProjectileTrace" /\ age * 100 < 6 * FireDurationMsec
             THEN SpawnMuzzleFire(fx, v)
           ELSE IF cue.kind = "HealthChanged" /\ age * 100 < 8 * HitDurationMsec
             THEN SpawnDamageNumber(SpawnHitSparks(fx, v))
           ELSE fx

(* DrawPlaybackProjectiles(): 8% of an impact's cue.                       *)
ImpactBurst(fx, v, cue, now, rate) ==
  IF AgeOf(cue, now, rate) * 100 >= 8 * ImpactHoldMsec THEN fx
  ELSE IF cue.terrain THEN SpawnTerrainDebris(SpawnImpact(fx, v), v)
  ELSE SpawnImpact(fx, v)

(* DrawMatch(), then DrawPlaybackProjectiles().                            *)
Drawn(fx, v, now) ==
  LET p    == playback
      actors == [q \in 1..Len(SetToSeq(Player)) |->
                   CueFor(p.events, now, p.rate, SetToSeq(Player)[q])]
  IN  FoldLeft(LAMBDA f, cue : ImpactBurst(f, v, cue, now, p.rate),
        FoldLeft(LAMBDA f, cue : CueBurst(f, v, cue, now, p.rate), fx, actors),
        ImpactCues(p.events, now, p.rate))

Frame(delta) ==
  LET left == Larger(0, locked - delta)
      seen(v) == IF left > 0 /\ playback # None
                   THEN Drawn(Aged(effects[v], delta), v, elapsed + delta)
                   ELSE Aged(effects[v], delta)
  IN  /\ locked' = left
      /\ playback' = IF left = 0 THEN None ELSE playback
      /\ elapsed' = IF playback' = None THEN 0 ELSE elapsed + delta
      /\ effects' = [v \in Views |-> seen(v)]

Next ==
  \/ \E t \in Transitions : Submit(t)
  \/ \E delta \in Frames : Frame(delta)

Spec == Init /\ [][Next]_vars

-----------------------------------------------------------------------------

Now == TickAt(elapsed, playback.rate, playback.lockTicks)

(* The input stays locked until the show is over: every projectile is seen *)
(* at its end for the time an impact is held, short of the millisecond the *)
(* clock is rounded by, and every cue from first to last. (A move alone is *)
(* shown for a moment only and cuts the cues that come with it: Main.cs,   *)
(* BeginShotPlayback.)                                                     *)
NothingIsCutShort ==
  (playback # None /\ playback.traces # <<>>) =>
    LET over == elapsed + locked
    IN  /\ \A i \in DOMAIN playback.traces :
             PositionAt(playback.traces[i],
                        TickAt(over - ImpactHoldMsec + 1, playback.rate, playback.lockTicks))
               = Last(playback.traces[i].samples).x
        /\ \A i \in DOMAIN playback.events :
             Told(playback.events[i]) =>
               EventMsec(playback.events[i], playback.rate) + CueLife(playback.events[i])
                 <= over

(* From frame to frame nobody who moves is drawn further from where he     *)
(* ends, nor off the way there (MovementPlayback.cs).                      *)
DrawnAt(player, calm) ==
  Stepped(FindMovementEvent(playback.events, player), Now, playback.lockTicks, calm)

Abs(n) == IF n < 0 THEN -n ELSE n

NobodyStepsBack ==
  [][(playback # None /\ playback' # None) =>
       \A q \in Player, calm \in {v.calm : v \in Views} :
         LET moved == FindMovementEvent(playback.events, q)
             left  == Abs(moved.end - DrawnAt(q, calm))
         IN  moved # None =>
               /\ Abs(moved.end - DrawnAt(q, calm)') <= left
               /\ left + Abs(DrawnAt(q, calm) - moved.start) = Abs(moved.end - moved.start)
      ]_vars

(* Whoever dies is shown to die from the moment of the death, whatever     *)
(* else hits him then or later, and no one else is (TransitionCueResolver).*)
DeathsAreShown ==
  playback # None =>
    \A q \in Player :
      LET cue == CueFor(playback.events, elapsed, playback.rate, q)
      IN  (cue # None /\ cue.kind = "PlayerEliminated") <=>
            \E i \in DOMAIN playback.events :
              LET e == playback.events[i]
              IN  e.kind = "PlayerEliminated" /\ e.player = q
                  /\ AgeOf(e, elapsed, playback.rate) # None

(* What a frame is to mark, told from the events alone: an event is fresh  *)
(* for the first 8% of its cue, and a death hides the blow that dealt it.  *)
Age(e) == elapsed - EventMsec(e, playback.rate)

Fresh(e) == Age(e) >= 0 /\ 100 * Age(e) < 8 * CueLife(e)

FreshImpacts ==
  {i \in DOMAIN playback.events :
     playback.events[i].kind = "Impact" /\ Fresh(playback.events[i])}

Dying ==
  {q \in Player : \E i \in DOMAIN playback.events :
     LET e == playback.events[i]
     IN  e.kind = "PlayerEliminated" /\ e.player = q /\ Age(e) \in 0..(CueLife(e) - 1)}

FreshlyHurt ==
  {q \in Player \ Dying : \E i \in DOMAIN playback.events :
     LET e == playback.events[i]
     IN  e.kind = "HealthChanged" /\ e.player = q /\ e.loss > 0 /\ Fresh(e)}

(* A frame in the first moments of an impact or a loss leaves a marker for *)
(* each of them, and a number for each player hurt, on the screen of every *)
(* player, whatever the tier of his machine and with reduced motion or     *)
(* without. No marker goes before its time; of the new ones, a full pool   *)
(* refuses what it has no room for (CombatEffectSystem.cs:249, :369),      *)
(* though the comments there promise them "ALWAYS" (:137, :248, :368). The *)
(* newest number always appears: the oldest makes room for it.             *)
IndicatorsOnEveryTier ==
  [][(playback # None /\ playback' # None) =>
       \A v \in Views :
         LET kept    == Aged(effects[v], elapsed' - elapsed)
             hurt    == Cardinality(FreshlyHurt')
             due     == Cardinality(FreshImpacts') + hurt
             markers == effects'[v].markers
             texts   == effects'[v].texts
         IN  /\ IsPrefix(kept.markers, markers)
             /\ Len(markers) = Smaller(MaxTargetMarkers, Len(kept.markers) + due)
             /\ Len(texts) = Smaller(MaxDamageTexts, Len(kept.texts) + hurt)
             /\ Cardinality({i \in DOMAIN texts : texts[i] = 800})
                  = Smaller(MaxDamageTexts, hurt)
      ]_vars

=============================================================================
