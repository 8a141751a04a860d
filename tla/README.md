# Dungeon Barrage in TLA+

A verification project for Dungeon Barrage, a turn-based artillery game: a
deterministic Rust simulation (`src/crates/db-sim-core`), a C ABI around it
(`src/crates/db-sim-ffi`) and a Godot/C# client (`src/client`). It follows a
match from the create envelope to the particles on the screen: how it is set up,
whose turn it is, what an ability does to players and ground, how requests that
arrive late, twice, damaged or from a stale view are kept from doing harm, what
the client is told, and how it shows it.

Paths below are relative to `src/crates/db-sim-core/src/` unless they say
otherwise.

## 1. Inventory

| Part | State | Operations | Talks to | What is hard | What makes it correct |
|---|---|---|---|---|---|
| Setup (`match_setup.rs`, `map.rs`, `character_roster.rs`) | none | validate, seat, settle | called by the C ABI | maps with fewer spawns than guests, ids that sort otherwise than they came | everyone is in the match once, alive, on ground of his own |
| Scheduler, victory (`scheduler.rs`, `victory.rs`) | phase, active player, turn number, allowance, end reasons | `begin_match`, `advance_phase`, `end_turn`, `eliminate`, `check_and_finalize` | called by the host | the active player may die in its own turn; the hard limit ends a match by another path than victory | fair rotation over survivors, one status tick per lap, a bounded match, a clean final board |
| Commands (`command.rs`) | gauge, health, processed ids | `validate_ability`, `apply_ability` | resolve/*, ballistics, terrain, rng | retries, late commands; an attack that ends the match or its own actor; barrages whose target dies half way | no command acts twice, one attack per turn, an account that explains what happened |
| Movement, displacement (`movement.rs`, `resolve/displacement.rs`) | position, allowance | `walk`, `jump`, `settle`, knockback, pull, recoil | terrain | sweeps in steps, falling out of the map in one's own turn | nobody is left in the air, in the ground, or dead on turn |
| Terrain, blocks (`terrain.rs`, `blocks.rs`, `block_ops.rs`) | cell mask, block health and place | carve, erode, re-derive, fall | commands, movement | mask and health are two views of one thing, rewritten in passes | the ground has settled, nothing floats |
| Ballistics, fixed point (`ballistics.rs`, `fixed.rs`) | none | `integrate` | commands, previews | edges, bounces, what can be hit | a flight ends on what it meets first |
| Statuses, objects (`resolve/status.rs`, `resolve/objects.rs`) | per-player statuses, placed objects | apply, tick, spawn, embed, detonate | commands, scheduler, session reconciliation | records must replay to the state | durations in own turns, caps, complete chains |
| Random generator (`rng.rs`) | one word | `next_u32`, `bounded` | commands | rejection sampling; draws taken or skipped | the dice replay from the receipt |
| Host (`match_host.rs`) | the match state | `start`, `submit_move`, `submit_jump`, `submit_ability`, `pass_turn`, `time_out_turn` | all of the above | each call runs a whole turn cycle; the order of resolving, settling and finishing | between calls the match is playable or over |
| Session (`match_session.rs`) | host, generation, ledger of first receipts, byte count, closed | `apply`, `apply_authority_timeout`, `checkpoint`, `restore`, `preview` | one host; called by the C ABI or a server | retries, stale views, clients racing the clock, limits hit while publishing | at most once, nothing unrecorded, every live state can be restored |
| Events (`match_session.rs`, `derive_events`) | none | derive, order, reconcile | session | an account that disagrees with itself closes the session | everything that happened is told once and in order |
| Hash, contracts, wire (`hash.rs`, `canonical.rs`, `client_contract.rs`, `../../db-sim-ffi/src/wire.rs`) | none | encode, project, measure, read, write | session, C ABI, client records | lists in another order, strings that run together, members lost or doubled | replicas agree, requests are told apart, nothing is misread |
| C ABI (`../../db-sim-ffi/src/lib.rs`) | handle: session, poison flag, mutex | create, apply, timeout, snapshot, terrain, preview, bot decision, destroy | client | clone, apply, serialise, swap; panics | a failure publishes nothing |
| Managed session (`LocalMatchSession.cs`) | gate, flags, counted handle | async calls, `Dispose` | C ABI, `LiveMatch` | disposal during a call | no call on a destroyed handle |
| Live client (`LiveMatch.cs`, `Main.cs`), bot (`bot.rs`) | view, ordinal, deadline, input lock, tasks | submit, reconcile, frame loop, bot turn, timeout, rematch | managed session | clocks and flags that all must let somebody act | the view is the authority's; every match ends |
| Presentation (`ProjectilePlayback.cs`, `TransitionCueResolver.cs`, `MovementPlayback.cs`, `CombatEffectSystem.cs`, `Main.cs`) | playback, input lock, pools | begin, frame, burst | live client | clocks rounded apart, frames of any length, full pools | nothing is cut short, deaths are shown, everybody gets the indicators |

Everything crosses one boundary in each direction: a request goes client ->
C ABI -> session -> host -> command/movement/scheduler, synchronously, on a
clone; a transition goes back. There is no second thread inside the simulation.
Concurrency enters through *who asks what when*: clients, the authority's clock,
retries and stale views at the session, asynchronous tasks and disposal in the
client, and frames that fall where they fall.

`PROJECT.json` lists every component with its status and every hazard of the
code at its line.

## 2. What is modelled

| Module | Models | Kind |
|---|---|---|
| `Scheduler` | `scheduler.rs`, `victory.rs`, the status tick | operators on a state record |
| `Command` | `command.rs`: validity of a command, what a committed one may do | operators |
| `MatchHost` | `match_host.rs`, allowance and footing of `movement.rs`, the initial state | operators, one per public call |
| `MatchPlay` | a match under every order of host calls | behaviour, `FairSpec` |
| `TurnOrder` | what a match promises its players, nothing of how | abstract specification, refined by `MatchPlay` |
| `CallProofs` | what one call of the host does to a match, and one request to a session | TLAPS lemmas |
| `MatchProofs`, `SessionProofs`, `HandleProofs`, `ManagedProofs`, `LiveProofs`, `LifecycleProofs`, `ReceiptProofs` | theorems about `MatchPlay`, `SessionPlay`, `HandlePlay`, `ManagedSession`, `LiveClient`, `LifecyclePlay`, `ReceiptPlay` | TLAPS proofs |
| `MatchSession` | `match_session.rs`: `apply`, `apply_authority_timeout`, `record_and_commit`, `preview`, `validate_checkpoint` | operators on a session record |
| `SessionPlay` | a session under clients, clock and retries | behaviour |
| `NativeHandle` | `db-sim-ffi/src/lib.rs`: a call under the handle's lock | operators on a handle record |
| `HandlePlay` | a handle under callers that do not wait for one another | behaviour, refines `SessionPlay` |
| `ManagedSession` | `LocalMatchSession.cs`, `MatchSafeHandle.cs` | behaviour, `FairSpec` |
| `LiveClient` | `LiveMatch.cs`, the frame loop of `Main.cs`, what `bot.rs` may decide and with which powers | behaviour over `MatchSession`, `FairSpec` |
| `Lifecycle`, `LifecyclePlay` | statuses, marks, turrets, knives, chains; the session's replay of their records | operators on a board, behaviour |
| `Strikes` | `rng.rs`: a draw, and a draw below a bound; `resolve_ability` strike by strike, its account, the session's reconciliation of it, and `derive_events`: what is told, when, in which order | operators |
| `ReceiptPlay` | a match told from its receipts | behaviour over `MatchHost` |
| `Fixed`, `Terrain` | `fixed.rs`; the mask and carving, destructible blocks and their fall, `movement.rs` over them | operators |
| `World`, `WorldPlay` | the tick loop of `ballistics.rs`, `displacement.rs`, what attacks do to ground and positions; what the client is told of it; a match on its ground | operators, behaviour |
| `Canonical` | `canonical.rs`, `hash.rs`, the digests of requests | operators on sequences of bytes |
| `Contract`, `Schema` | `client_contract.rs`; the retained-byte counters and the declared structures they measure | operators |
| `Requests`, `Setup` | strict documents of `wire.rs` and their checks; from a create envelope to a settled roster | operators |
| `Wire`, `ClientContracts` | the documents of `wire.rs`; the C# records that read them | operators |
| `Boundary` | five small behaviours over the modules above | behaviour |
| `Show` | `ProjectilePlayback.cs`, `MovementPlayback.cs`, `TransitionCueResolver.cs`, `CombatEffectSystem.cs` and their use in `Main.cs` | behaviour |
| `MC...` | constants for TLC | |

**State as a record.** The code passes one `&mut SimulationState` through every
function, and the session works on clones of it. So most modules are operators
from a record to a record, named as in the code, and the behaviours have one
variable that holds it and one action per public call. An action is the *whole*
call: `submit_ability` resolves the command, settles whoever lost the ground,
and runs the turn cycle through victory check, status tick, hand-over, a second
settle and the opening of the next turn, exactly as far as the code does.

**Three views of an ability.** What an ability does is too much for one state
space, so it is modelled three times, at three distances. `Command.Effects` is
the set of everything an ability of the launch roster (Leslie, Crow, Erus,
Kreena) may come to: who ends with what health, who loses the ground, who burns,
whether a turret is placed. `MatchPlay`, the session, the handle and the live
client use it. `Strikes` resolves the same ability strike by strike with its
dice, and `OutcomesAreEffects` shows that whatever it comes to is a member of
that set. `World` resolves the geometry: flight, carving, falling blocks,
sweeps. Who stands in a projectile's way is an input of `Strikes` and computed in
`World`; dice and statuses are in `Strikes` and left out of `World`.

**What the code makes unreachable** is in the models as it is in the code: the
passive prompt is never raised (`match_host.rs:377`) and the choice is always
refused (`command.rs:936`), so `PassiveSelection` is a phase nothing enters.
A valid command can still be refused while it resolves (`InvalidTarget`); the
host discards the working copy, which is a stutter of `MatchPlay` and a recorded
rejection of `SessionPlay`. The same goes for `?`-propagated simulation errors,
which change nothing and answer with a fault.

**The session.** A transition keeps its disposition, its two generations and
its post snapshot, which stands for the state, as its hash does. A retry of a
recorded request gets the recorded transition under the disposition
`DuplicateReplay`. The size of a receipt is one number per disposition here; how
it is computed, structure by structure, is in `Contract`. `checkpoint` copies
every field and `restore` gives them back after `validate_checkpoint`, so
restoring is the question whether the copy is valid. A preview tries the command
on a clone; `PreviewLegal` is its verdict.

**The handle** is modelled from the moment a caller reads the poison flag. The
library's mutex makes the rest of a call one step, so two steps are left: the
check before the lock and the call under it. What cannot be decided here (does
the envelope parse, does the response serialise and fit, does anything panic)
may happen to any call. `Swap` is the one place where a clone becomes the match.

**The managed session** adds the steps between which a task can be suspended
or another thread can run. `Dispose` runs beside them in three steps, since it
does not take the gate. `SemaphoreSlim`, `SafeHandle` and the marshaller are
external and modelled from their documented behaviour.

**The live client** submits atomically: every submission is made from the frame
thread, so the gate is free and the asynchronous calls complete before they
return. What goes on between frames is time: the input lock, the wait of the bot
and timeout tasks, the deadline. Time is counted in units of which a planning
window has two. Keys act for whoever is active, a bot's turn included,
as `HandleLiveInput` has it. The bot chooses among everything its search can
sample, `Decide`: which sample scores best is ballistics over the terrain and left
open, what aim error and the walked allowance make of a sample's power is not.

**The board** of `Lifecycle` is what `MatchHost` leaves out: who carries which
status, which objects stand where, and what the command at hand recorded about
them. The launch roster of today places turrets and embers only. Chill, pins and
marks come with the retired item layout, which replays still use
(`character.rs:633`: "New match creation cannot reach this fallback"); knives,
and marks of more than one charge, are combined by the resolvers' own tests. All of it is code
that runs when called, so the run combines it freely.

**Bytes.** A string is the sequence of its bytes and a digest is the sequence it
is computed from: that FNV-1a maps two sequences to one word is left out. A JSON
object is the sequence of its members, so that lost, doubled and renamed members
can be written down; the text of the JSON is left out.

**History variables.** `ownTurns`, `burnsUntil`, `attacks` and `commits` in
`MatchPlay`; `answered` in the session, handle and managed session; `age` and
`last` in `LiveClient`; `receipt` in `ReceiptPlay`. No action decides by them,
but that a repeated request is one that was answered.

**Bug operators.** `XBug` is operator `X` with a plausible slip (a dropped guard,
a check made too late, a run that is never flushed). Nothing uses them. They are
there to be put in the place of `X`, and each property then has to fail:
`PROJECT.json`, "mutants".

## 3. Model checking

Every run is exhaustive. The properties are stated and commented where they are
defined, at the end of each behaviour module.

| Run | Question | Instance |
|---|---|---|
| `duel` | Are all calls of a match sound in every order, replays and late commands included? | two players with different allowances, two health points, a gauge of one hit, embers of two turns, hard limit 5, three command ids |
| `pairs` | Is the rotation fair when anybody may die in anybody's turn, and teams play on without their dead? Does the host refine `TurnOrder`, and does every match end? | two against two, one health point, hard limit 5, no symmetry reduction |
| `session` | Can a request act twice, unrecorded, or from a stale view? What do the limits leave behind? Does a preview foretell what the session does? | four ids, three ledger entries, a byte limit of two to three receipts, two generations; moves, attacks, trinkets and the clock |
| `handle` | Can a failed call change a match? Does a handle refine a session? | two callers, two ids, two ledger entries, byte limit of one accepted and one rejected receipt |
| `managed` | Can a call run on a destroyed handle, however disposal falls? Do the two poison flags agree? Does every caller get its answer? | two callers, one id, every point of a call against every step of `Dispose` |
| `live` | Is the client's view the authority's? Does one deadline govern a turn? Is the bot ever refused? Does a match end that nobody plays, or that somebody holds up? | a human against the bot, a ledger of four entries, a window of two units, locks of one or two, rematches |
| `records` | Do the records of every command replay to the board it leaves? Do chains go off completely, and once? Do statuses age in their bearer's turns only? | three players on a line, each for himself; two health points, one knife per owner, three objects, hard limit 4; five abilities, one of each kind |
| `receipts` | Does the account of every ability pass the session's checks, explain every lost point and every death, replay its dice, and stay within what `MatchPlay` assumes? | three players of two health points; a shot and a blow that crit, a barrage, a cluster, a shove, embers; a generator of 16 states and 8 words, of which two are rejected |
| `world` | Has the ground settled after every call, is nobody moved into it, and is the client told what changed? | six by seven cells, two soil towers over a stone stage, the higher one of two blocks of two rows each, six of the roster's attacks, five launch velocities, walks and hops, three turns |
| `boundary` | Do replicas agree, are requests told apart, is nothing misread, is the ledger's measure what it is documented to be, does the client understand what is published, and is every lobby that is accepted playable? | two replicas of up to two entries grown in any order; all pairs of some 70 requests; documents damaged twice; transitions with two of every event; lobbies of up to four guests on every map |
| `show` | Is anything cut short, does anybody jump back, is every death shown, does every player get the indicators the pools have room for? | eight kinds of transition one after another, frames of 20 and 90 ms, three sets of player settings, pools of two to 24, which the barrage fills |
| `cells_doc` | A sentence of a comment: the cells of a block always equal what its health says | as `world`; violated |

**Why the bounds are enough.** *Players*: with three a rotation can skip
somebody, a dead player can sit between two living ones, and the wrap differs
from the step; with two pairs all of that happens while the match goes on, and
one of a team may die; two suffice for everything about one turn. *Turns*: the
hard limit is the only thing that reads the number itself; five leaves room for
a whole lap, a death in it, embers of two own turns and the limit. *Health,
gauge*: two levels separate hurt from dead; a gauge of one hit is full after the
first attack, so that trinkets are used early and often. *Command ids*: a
command, its replay in the same turn and a late one in the next. *`JumpBound`*:
the allowance can go negative by hops; one step below zero is enough to see that
nothing treats a negative allowance as more than none, and the proofs cover the
rest. *Ledger*: three entries allow two accepted ends of turns and a request
that loses to them; the fourth id meets the full ledger; the byte limit and the
generation limit are hit at different mixes of receipts. *Views*: requests are
made from the present or the previous turn and generation, in all combinations.
*Callers*: two are enough for a check that is stale when it is used, and with
`Dispose` beside them for a call inside, one that waits and one that arrives
late. What the match itself does is settled by the other runs, so behind the
handle it is kept as short as two turns.
*Objects*: a cap of one knife is exceeded by the second; three knives are the
fewest with a chain that spreads. *Hard limit* 4 lets the first player act
twice, which an eviction needs, also with all three alive.
*Dice*: 8 words and a bound of three leave a threshold of two, so rejection
happens, and a generator of full period meets every word. *Barrages* of two
projectiles can land in either order, on the same player, on one the first has
killed, or on nobody. *Ground*: two blocks above one another and one apart give
falls, falls onto fallen blocks and craters over destroyed ones; cells are two
steps of motion wide, so that sweeps, walks and hops stop inside a cell. The
blocks of the higher tower are two rows high, so that one falls through part of
its own span and lands on what is left of the other. *Bytes*: ids of one to three
letters, one a prefix of another, are what a missing length prefix needs to
confuse; a sample of every structure and, in what is published, every name of the
client's enumerations but `empty`, which no block is made of. (`OutOfAmmo`, for
which the client has no name, is never constructed.) *Show*: the long frame is
longer than the first moments of a cue, so bursts are missed, the short one is
not, so they are thrown twice; the barrage fills the pool of markers in its first
frame and finds no room in the second.

**Symmetry.** Command ids and callers are interchangeable where nothing orders
them; it is used for invariants and action properties only. Players are not
symmetric: they are ordered.

**Fairness.** `MatchPlay!FairSpec` adds one assumption, `Clock`: the authority's
planning clock expires every turn that is not ended otherwise. Nothing is
assumed of the players. `time_out_turn` is accepted in every state of a running
match (`match_host.rs:360`). `Clock` is weak fairness of `TimeOut`, with "the
timeout can end a turn" written as "the match is not complete" and the step as
`Expire`, since the general form makes TLC evaluate the whole turn cycle once
per occurrence of a primed variable. That the client's clock really is such a
one is what `live` shows: `LiveClient!FairSpec` assumes only `Frames`, that the
engine keeps calling `_Process()` and time goes by, written the same way: one of
bot turn, timeout and tick is taken again and again while the match goes on and
a task is due or a clock still runs (`FrameMoves`). The
player owes nothing, and may act at every moment input is open.
`ManagedSession!FairSpec` assumes that tasks run and native calls return (the
library has no loop without a bound), that `Dispose` is not stopped halfway, and
that a waiter that is passed over is admitted in the end: `SemaphoreSlim` wakes
asynchronous waiters in the order of their arrival. Nobody is obliged to call or
to dispose.

**Deadlock** is checked in `duel`, `pairs`, `session`, `handle` and `live`. It
is not in `records`, `receipts` and `world`, where a decided match stops or ids
and turns run out, in `boundary` and `show`, which study bounded edits of data and
frames, and in `managed`: callers that wait when the gate is disposed are never
woken, and if all of them do nothing is left to happen.

**Finding** (`PROJECT.json`, "findings"). `block_ops.rs:440` says that the solid
cells inside a block always equal what its health says. A destroyed block stays
on the list with its old bounds and health 0, and every operation whose bounds
reach it re-derives it, that is, empties its span. A block above that has fallen
into that span loses its cells to the next crater there and keeps its health.
What does hold, and `GroundHasSettled` checks, is that nothing floats, no cell
is outside every block, stone is never harmed and everybody alive stands.

**Observations** made while modelling, where code and words differ and no run is
kept for it:

- `movement.rs:82` and `:260` say that a hop spends no allowance; it costs a
  cell. `match_host.rs:30` says that a filling gauge raises the passive prompt;
  nothing raises it.
- The library reads the poison flag before it takes the lock and not again under
  it (`db-sim-ffi/src/lib.rs:113`), so a call that waited while another one
  faulted still applies, against `lib.rs:486`. A panic does stop it, by way of
  the mutex; behind the managed gate the window is closed (`FlagsAgree`).
- `docs/CLIENT_SPEC.md:797` says that destroying waits for a call in flight, by
  the handle and by the executor. The handle does (`NoCallOnDestroyed`);
  `Dispose` returns at once, a `Release` after it throws in place of a result,
  and waiting callers are left without an answer.
- The planning deadline is set when a transition is reconciled, before its input
  lock (`LiveMatch.cs:432`); `CLIENT_SPEC.md:314` opens the window after the lock.
- `sweep()` (`displacement.rs:147`) speaks of ceiling division and uses
  `round_divide`, which for a step of an even size can be one step too many.
- `resolve/attack_mods.rs:343` says that `tick_statuses` "will still erode" an
  unused GuaranteeCrit mark "by one per turn". It passes marks over
  (`resolve/status.rs:240`, as its own comment at `:216` says): no length of match
  clears one. `EffectsAreAccountedFor` checks what the code does, that a turn's
  end takes a turn from the timed statuses of its player and nothing from marks.
- `CombatEffectSystem.cs:248` says that the target marker of an impact "is ALWAYS
  spawned", `:368` that the hit indicator "is always added" and `:137` that both
  are guaranteed on low tiers; `:249` and `:369` drop them when the pool of 16 is
  full. It can be: each frame in the first 40 ms of an impact adds a marker of
  650 ms, so the four simultaneous impacts of Crow's Aerial Barrage ask for
  twenty at 120 frames a second. Tier and reduced motion do not matter, as
  promised, and that much `IndicatorsOnEveryTier` checks, with the bound of the
  pool in its formula. Two more ways an indicator is lost are in the code and in
  the property: a frame longer than the first moments of a cue (40 ms of an
  impact, 24 ms of a hit) skips its burst, and the cue of a death hides the
  number of the blow that dealt it.
- A preview's `gauge_cost` is always 0. The guides of a volley are drawn
  for the state before its first shot.
- The bot scores a hit on an ally at -500,000 (`bot.rs:385`), less than any miss
  beyond some two thirds of a cell: it prefers the ally to a wide miss. With the launch roster
  it never walks, since every kit has a Basic projectile.
- `OutOfAmmo` has a wire name that the client's enum lacks; it is never
  constructed. `ability_skin_ids` is charged a length prefix though it is an array of
  fixed length, `ammo`, which is one too, is not: `Schema` follows the code.
- Maps with two spawns refuse three and four guests, whatever their teams.
- A move without a projectile is shown for 180 ms and cuts a hit cue of 300 ms; a
  transition without either shows no cue at all (`NothingIsCutShort` is about the
  rest). Debris of broken blocks is thrown at submission, not when the
  projectile lands (`Main.cs:114`).

## 4. Proofs

The seven proof modules about behaviours show, for every roster with two teams, all
allowances, limits, ids, effects, abilities, places and numbers of callers, what
the runs check on small ones.

| Theorem | Property | Run |
|---|---|---|
| `TypeCorrect` | `TypeOK` | `duel` |
| `AlwaysPlayable`, `FinalBoardIsClean`, `GravityHasRun`, `HardLimitHolds`; together `NothingIsHalfDone` | `BetweenCalls` and its four parts | `duel` |
| `TurnsAreHandedOver`, `TurnsAreOwned`, `CompletionIsAbsorbing`; together `TurnsChange` | `TurnsChangeHands` and its three parts | `duel` |
| `CommandsAct`, `EmbersLast` | `CommandsActOnce`, `EmbersLastOwnTurns` | `duel` |
| `MatchImplementsTurnOrder` | `ImplementsTurnOrder` | `pairs` |
| `LoopIsRunCycle` | the loop of `finish_turn`, one `advance_phase` after another, is `RunCycle` | |
| `SessionsAreSound` | the inductive invariant of a session | |
| `RetriesAreSafe` | `AnswersAreFinal` | `session` |
| `RestoreAlwaysAccepts` | `CheckpointsRestore` | `session` |
| `TurnsEndOnce` | `OneEndPerTurn` | `session` |
| `PreviewsAreHonest` | `PreviewForetells` | `session` |
| `NothingChangesUnrecorded` | `ChangesAreReceipted` | `session` |
| `HandleImplementsSession` | `ImplementsSession` | `handle` |
| `NothingChangesUnseen` | `ChangesAreReturned` | `handle` |
| `OwnerIsSound` | the inductive invariant of the managed owner | |
| `DestructorWaits` | `NoCallOnDestroyed` | `managed` |
| `OneVerdict` | `FlagsAgree` | `managed` |
| `ClientFollows` | the inductive invariant of the live client | |
| `ViewsAreCurrent` | `ViewIsCurrent` | `live` |
| `NoActionBuysTime` | `OneWindowPerTurn` | `live` |
| `BotPlaysByTheRules` | `BotIsNeverRefused` | `live` |
| `LifeIsKept` | the inductive invariant of statuses and placed objects | |
| `EffectsAreRecorded` | `EffectsAreAccountedFor` | `records` |
| `PlacedObjectsAreKept` | `ObjectsAreKept`, with `ChainsAreComplete` | `records` |
| `ReceiptsAlwaysReconcile` | `ReceiptsReconcile` | `receipts` |
| `DiceCanBeReplayed` | `DrawsReplay` | `receipts` |
| `OutcomesAreAllowed` | `OutcomesAreEffects` | `receipts` |
| `StoryIsAlwaysTold` | `StoryIsTold` | `receipts` |

*Assumptions.* Those named in the modules, and evaluated by TLC in the runs:
players are numbers and every non-empty set of them has a least one, two players
of different teams exist, bounds are positive, the hard limit is below the number
at which the turn counter saturates (`Scheduler`); limits and receipt sizes are
numbers (`LedgerAssumption`); what is asked of a session is a kind and a slot
(`AskedAssumption`); a planning window is longer than nothing, ids are ordinals,
and the value for "no deadline" is none that arming computes
(`ClientAssumption`); where players stand is a nonempty list of places
(`StandingAssumption`), and an ability is a record of its effects, damage and reach
whose durations are at most the largest a `u8` holds (`AbilityAssumption`); the
generator steps within a finite set of states (`GeneratorAssumption`), and whatever
state a draw starts from admits some word (`DrawAssumption`), without which
`bounded` (`rng.rs:102`) would never return; a kit strikes at least once, only second
basics are blows, they do not burn, trinkets do not shove, and a critical strike that
would do more has a chance to (`KitAssumption`, read off `character_roster.rs`); there
are finitely many players, and lines of flight are sequences of them
(`AimAssumption`). Nothing about the behaviour of a component is assumed of
another: the theorems about session, handle, owner and client rest on the lemmas
about the host's calls.

*One call of the host* (`CallProofs`). None of the properties of a match is
inductive alone. `Playable` needs that nobody hangs, since the settle after a
hand-over could otherwise kill the player whose turn opens; `CompleteIsFinal`
needs to know that only a decided match completes; the hard limit needs to know
that a complete match has stopped. `Good(s)` is their conjunction with the types,
a property of the host record *between calls*. One lemma per public call shows
that it takes a `Good` state to a `Good` state, through the intermediate states
of the call, in which it does not hold. The same lemmas establish
`Progress(s, t)`: a call either keeps the turn, hands it over, ends the match, or
leaves a final match alone but for the reason declared. `Account(s, t)` says what
became of statuses and processed ids: of all operators only `Resolve` touches the
ids and only `Resolve` and `TickStatuses` the statuses, and the lemmas carry this
through settling, victory check, hand-over and opening of the next turn.

*A match* (`MatchProofs`). `IInv` is `Good` of the match; action properties and
every step of the refinement to `TurnOrder` follow from `Progress` by cases.
`AInv` adds the histories: `attacks` against the attacked flag and the turn,
`commits` against the processed ids, and `burnsUntil` against the turns a
status has left plus the own turns its bearer has ended, so a status that is
ticked in another's turn, or not at all, breaks it.

*One request to a session* (`CallProofs`). `Outcomes(ss, r)` is computed through
half a dozen early returns. `OutcomeKinds` shows that they come to four: the
session closes, the request is dropped, it is answered from the ledger, or a
receipt goes on record together with the host it left (`Grown`), and `Moved` says
of which receipts an accepted one can be. Session, handle and client reason about
these four and never about `Execute` or `Publish` again.

*A session* (`SessionProofs`). `CheckpointsRestore` is nearly inductive and not
quite: it does not say that the host is `Good`, so nothing follows about what a
request does to it. `OneEndPerTurn` is far from it: two receipts must not end one
turn, and what keeps a new one from ending an old turn is that every turn ended on
record lies behind the present one, or is the present one of a final match
(`Past`). `Sound(ss)` is therefore typed, versioned (mutating receipts count the
generations one by one up to the present host), measured (the byte counter is the
sum over the ledger), processed (the host's ids are the accepted receipts that
carry a command) and past; `SInv` adds that every answer ever given is still the
one on record. Each part has its own step lemma for `Grown`, and the other three
outcomes change nothing but the closed flag. That a preview foretells needs a
lemma of its own: the two sides decide along different ways, one by `Valid` on a
cleared host, the other by what the ability came to.

*A handle* (`HandleProofs`). Every step of a caller is a session's step or none,
for any number of callers: mishaps leave the session alone, and `Swap` puts in
place what the clone answered. The refinement is to `Session!Spec`, an
`INSTANCE` of `SessionPlay`. The prover takes the definitions that come with an
instance for others than those of the same name in `MatchSession`; the lemmas
`SameTurnCycle` to `SameSession` show that they agree, from the bottom up. The
invariant `HInv` is small: the requests known as answered are on the ledger.

*The managed owner* (`ManagedProofs`). `NoCallOnDestroyed` is the tip of a count:
references are the callers in the library, the handle is destroyed only when
released and without references, and one caller at most is past the gate
(`MInv`). The last part is what `FlagsAgree` needs: nobody poisons the handle
under another one's call, and a call that poisons it says so (`PanicsArePoison`).

*The live client* (`LiveProofs`). The view is the session's because every answer
is a fresh one, and it is because every id on record lies below the client's
ordinal (`Followed`). The deadline is what the open turn has left because it is
armed for a player and a turn, which change together and only when the turn is
handed over (`Timed`, with `Progress`). The bot is never refused because its view
is current, its id fresh, and its powers, strike and shot alike, within what
walking left (`PowersAreLaunchable`).

*Statuses and objects* (`LifecycleProofs`). A command is loops within loops: over
the strikes of an attack, the targets of a strike, the effects of an ability,
those an effect catches, the objects a removal sifts, the knives of a chain, the
statuses of a tick, the players of a cleanup; and the property is about one more
loop, the session's replay of the records. Each is a `FoldLeft`. The library's
induction theorems take an operator and are of no use here, so `UpTo` is
induction over a set, from the least number that is not in it; `Recursion` and
`FoldExists` get from it the functions a fold is defined by; and `FoldPath` shows
that a fold goes through its states one by one. One lemma per loop
(`StatusReplayWalks`, `DiscardWalks`, `StrikesKeep`, ...) applies it, since a lemma
cannot take the body of a loop as a parameter; these lemmas read alike.

Neither property is inductive. `EffectsAreAccountedFor` compares the board after a
command with the one before, and in between there are boards it does not speak of.
`Kept(pre, ended)` is the invariant *within a command*: the boards that the steps
so far may have made of `pre`. Its statuses' side says that the log replays from
`pre` to the board (`StatusesFollow`), and that every status of `pre` is spoken of,
unchanged, or a timed one of the player whose turn has ended (`Spoken`). Its
objects' side says that the objects' log replays too, that the objects stand in the
order of their numbers, and that every number the replay has seen lies below the
next one (`ObjectSide`), without which a number could be given twice. Then the caps
(`Capped`). A step that changes statuses cannot disturb the objects' side and the
other way round (`SidesApart`), so every producer of a record needs one lemma about
its own side: a record that fits is written together with the change it tells of.

Between commands `LifeInv` remains: the types, order, numbers and caps, and that
the dead own nothing *once a turn begins*. While a free ability leaves the turn
open they may, and the proof shows that the cleanup in `FinishKeeps` is what
restores it.

A chain is a worklist, and `Connected` grows the same set by rounds. `Chained` relates
them turn by turn: what has gone off or is pending holds the start and everything
that what has gone off reaches, it stays within what the rounds have reached, and
while something is pending exactly one knife per turn has gone off. So after as many
turns as there are knives nothing is pending, and the two sets are each other's
bound. Health is in the invariant too: everybody is hurt once by each knife that
has gone off and reaches him, and not below zero, in whatever order (`ChainEnds`).

*Receipts* (`ReceiptProofs`). The properties speak of a finished account, and a
strike only adds to one. `Tellings(s, from, p, a)` is the invariant *within* an
ability: the accounts that agree with themselves, given the board `s` and the
generator `from` it began with. Health at first is health now plus what is itemised,
and an item says that its player is dead exactly if nothing is left (`Explained`); a
record of a kill names somebody who lived and does no longer, and no two name the
same (`Killed`); the records' dice, drawn again, end at the generator now
(`Redrawn`); critical strikes fit the ability; dealt damage hurt somebody; and a
shooter is not hurt by his own projectiles. One strike keeps all of it
(`StrikeTells`), and killing twice is impossible because the second strike finds
nothing to take (`KilledOnce`). A barrage adds that every projectile that hit delivered
exactly one strike (`Delivered`), blows that the records name those the blows landed
on in their order (`Beaten`), and until a cluster drops the records add up to the
items (`Summed`): the cluster's damage has no records, which is why the session only
compares sums where there is none. The loops (projectiles, blows, drops, the records drawn
again, the sums over them) are walked with the same lemmas as in `LifecycleProofs`. What
remains is the host: all it does to the health it is handed is to let players fall
(`Falls`), so a difference between account and match is always somebody who is left
with nothing. `ReceiptInv` is `Good` of the match and the four properties.

*The story of a request* (`StoryIsAlwaysTold`, also in `ReceiptProofs`). That a cause
of death is right needs a fact of the middle of an ability: whoever a strike says it
killed had lost everything with just that strike and not before, and whoever no
strike says it killed has something left of what the strikes took (`Finished`,
`CauseIsRight`). The events are sequences put end to end and then sorted. `FlattenWalks`
takes `FlattenSeq` apart, and `EventsAreComplete` says of what `derive_events` pushes that
every projectile, impact, strike and death is told, and each death and each end of a
turn once, before and after the sort. The sort keeps it because the place of an event is
one more than how many go before it: `EventsAreOrdered` shows that "goes before" orders
the events, so no two share a place and, there being as many places as events, every place
is taken; `SortedIs` concludes that the result is the same events, none later than the
next. What is left is arithmetic on ticks and ranks: an impact is never later than
`ResolutionTick`, deaths and the turn are told at it, and a strike follows its impact by
rank (`DeathIsTold`, `OrderIsTold`).

*Only model-checked.* `MatchEnds`, `CallersAreServed` and `LiveMatchEnds`, because
temporal fairness is out of the prover's reach here. And what the modules compute
over data that no theorem speaks of yet: the ground of `WorldPlay` (carving and
falling by folds over blocks and columns, and the flights over it), the
encodings, measures and documents of `Boundary`, and the playback of `Show`. Their loops are open to the induction of
`LifecycleProofs`, at one lemma per loop; where one is a recursive operator over a
tree, as in `Schema`, it is not. Nothing in these modules is taken as an
assumption of the proofs.

## 5. Not modelled

- *Launch physics*: the sine table and the trace samples of `ballistics.rs`; a
  launch velocity is an input.
- *The guide of a preview* (`match_session.rs:2708`): it gathers origin, aim, wind
  and hitboxes as the command does for its first shot and calls the same
  `integrate()`, so in the model the two are one expression, and comparing them
  would say nothing.
- *The bot's scores* (`bot.rs:379`): which of the shots it samples it picks, and
  so its angle and its slot.
- *Retired and unreached mechanics*: the item catalog of `character.rs`,
  `projectile_mechanics.rs`, `relocation.rs`, `terrain_damage.rs`, `support.rs`,
  wall impacts, the random target effects. No ability of the launch roster, and so no new
  match, gets there.
- *The session's remaining checks*: those of block and passive events, and the
  ranks of the events that draw no dice and hurt nobody.
- *Texts*: JSON as characters, the roster export, version queries, the WASM
  binding, error wording.
- *Drawing*: sprites, camera (`CameraDirector`, impulses), aim guides on the
  screen (`AimSolver`), menus. A frame and its drawing are one instant.
- *Undefined behaviour* there is none: the core is safe Rust, and the C# client
  runs on one thread but for the tasks of `ManagedSession`.

## 6. Plan

Modelled and checked: everything above; proved: the match, the session, the
handle, the managed owner, the live client, the records and the receipts, that is,
every safety property of the runs `duel`, `pairs`, `session`, `handle`, `managed`,
`live`, `records` and `receipts`. What would come next, in this order:

1. **Playback**: `IndicatorsOnEveryTier` and `NobodyStepsBack` for frames of any
   length and pools of any size.
2. **Events**: the ten ranks that are left, so that moves, terrain and objects are
   part of `StoryIsTold`.
3. **Launch physics**: the sine table as a function, its symmetry and monotony over
   all angles.
