----------------------------- MODULE Scheduler -----------------------------
(***************************************************************************)
(* The turn scheduler and the victory check of a Dungeon Barrage match     *)
(* (scheduler.rs, victory.rs, and the status tick of resolve/status.rs).   *)
(*                                                                         *)
(* The code mutates one SimulationState in place; here every function of   *)
(* the code is an operator from a state record to a state record, so that  *)
(* the match host can chain them in one atomic call the way the code does  *)
(* and the session can apply them to a clone.                              *)
(*                                                                         *)
(* What the record keeps of SimulationState:                               *)
(*   phase, active, turn, attacked, pending, last   as in the code         *)
(*   moves        movement_remaining, in whole cells                       *)
(*   health       per player, 0 = eliminated                               *)
(*   charge       trinket_charge, counted in damaging hits                 *)
(*   embers       turns_remaining of the Embers status, 0 = not carried    *)
(*                (the only status the launch roster applies)              *)
(*   turrets      the players who own a standing turret (one per owner)    *)
(*   unsupported  the players with no solid cell under them                *)
(*   processed    processed_command_ids                                    *)
(* Positions, terrain and the random generator are abstracted: what they   *)
(* decide (who is hit, who loses the ground, who falls out of the map) is  *)
(* an input of the call.                                                   *)
(***************************************************************************)
EXTENDS Integers

CONSTANTS
  Player,         \* ids of the roster; the code orders them as strings
  Team,           \* Team[p] is p's team index
  Allowance,      \* Allowance[p]: cells p's character may walk in a turn
  MaxHealth,      \* health a player starts with
  ChargeFull,     \* damaging hits that fill the trinket gauge
  HardTurnLimit,  \* HARD_TURN_LIMIT (200 in the code)
  MaxTurn         \* where turn_number saturates (u32::MAX in the code)

ASSUME RosterAssumption ==
  /\ Player \subseteq Nat
  /\ Team \in [Player -> Nat]
  /\ \E p, q \in Player : Team[p] # Team[q]
  /\ Allowance \in [Player -> Nat]

(* Ids are totally ordered, so every group of players has a first one.     *)
ASSUME OrderAssumption ==
  \A S \in SUBSET Player : S # {} => \E p \in S : \A q \in S : p <= q

ASSUME BoundAssumption ==
  /\ MaxHealth \in Nat \ {0}
  /\ ChargeFull \in Nat \ {0}
  /\ HardTurnLimit \in Nat \ {0}
  /\ MaxTurn \in Nat
  /\ HardTurnLimit < MaxTurn

Phase ==
  {"MatchIntro", "TurnStart", "Movement", "AimingAndSelection",
   "PassiveSelection", "CommandLocked", "Resolution", "Settling",
   "StatusResolution", "VictoryCheck", "MatchComplete"}

TurnEndReason == {"Attacked", "Passed", "TimedOut", "Eliminated"}

-----------------------------------------------------------------------------
(* Elimination and victory (victory.rs).                                   *)

Living(s) == {p \in Player : s.health[p] > 0}

(* evaluate() reports anything but InProgress: at most one team still has  *)
(* a living member. Draw is Living = {}, Victory is the other case.        *)
Decided(s) == \A p, q \in Living(s) : Team[p] = Team[q]

(* Plausible bugs. An operator named after another one with a Bug suffix   *)
(* is that operator with a slip a change to the code could make; replaced  *)
(* by it, the properties of the runs must fail. No definition uses them.   *)

(* eliminate(): the entry stays, its health and its objects go.            *)
Eliminate(s, gone) ==
  [s EXCEPT
     !.health  = [p \in Player |-> IF p \in gone THEN 0 ELSE s.health[p]],
     !.turrets = @ \ gone]

(* check_and_finalize(): objects of every dead owner leave before the      *)
(* outcome is evaluated; a terminal outcome completes the match.           *)
CheckAndFinalize(s) ==
  LET cleaned == [s EXCEPT !.turrets = @ \cap Living(s)]
  IN  IF Decided(cleaned)
        THEN [cleaned EXCEPT !.phase = "MatchComplete"]
        ELSE cleaned

-----------------------------------------------------------------------------
(* Turn order and the phase cycle (scheduler.rs).                          *)

First(S) == CHOOSE p \in S : \A q \in S : p <= q

NextActivePlayerSkipsBug(s) ==
  LET after == {p \in Living(s) : p > s.active}
      past  == IF s.active \in Living(s) THEN after ELSE after \ {First(after)}
  IN  IF after = {} \/ past = {} THEN First(Living(s)) ELSE First(past)

(* next_active_player(): the living id after the active one, wrapping; an  *)
(* active player who died is skipped by where it would have been.          *)
NextActivePlayer(s) ==
  LET after == {p \in Living(s) : p > s.active}
  IN  IF after # {} THEN First(after) ELSE First(Living(s))

TickStatusesEveryoneBug(s, p) ==
  [s EXCEPT !.embers = [q \in Player |-> IF @[q] > 0 THEN @[q] - 1 ELSE 0]]

(* tick_statuses(): only the named player's status loses a turn, and at    *)
(* zero it is removed.                                                     *)
TickStatuses(s, p) ==
  [s EXCEPT !.embers[p] = IF @ > 0 THEN @ - 1 ELSE 0]

EndTurnOldAllowanceBug(s, reason) ==
  LET next == NextActivePlayer(s)
  IN  [s EXCEPT !.last     = reason,
                !.active   = next,
                !.moves    = Allowance[s.active],
                !.attacked = FALSE,
                !.turn     = IF @ < MaxTurn THEN @ + 1 ELSE @]

(* end_turn(): the next living player opens with a fresh allowance.        *)
EndTurn(s, reason) ==
  LET next == NextActivePlayer(s)
  IN  [s EXCEPT !.last     = reason,
                !.active   = next,
                !.moves    = Allowance[next],
                !.attacked = FALSE,
                !.turn     = IF @ < MaxTurn THEN @ + 1 ELSE @]

LeaveVictoryCheckUnboundedBug(s) ==
  LET outcome == CheckAndFinalize(s)
  IN  IF outcome.phase = "MatchComplete"
        THEN [outcome EXCEPT !.last = s.pending]
        ELSE [EndTurn(outcome, s.pending) EXCEPT !.phase = "TurnStart"]

(* leave_victory_check(): finish, force the draw at the hard limit, or     *)
(* rotate. A terminal turn still records why it ended.                     *)
LeaveVictoryCheck(s) ==
  LET checked == CheckAndFinalize(s)
      forced  == CheckAndFinalize(Eliminate(checked, Living(checked)))
      outcome == IF checked.phase # "MatchComplete" /\ s.turn >= HardTurnLimit
                   THEN forced ELSE checked
  IN  IF outcome.phase = "MatchComplete"
        THEN [outcome EXCEPT !.last = s.pending]
        ELSE [EndTurn(outcome, s.pending) EXCEPT !.phase = "TurnStart"]

(* The steps of the cycle that only relabel the phase.                     *)
Relabel ==
  [MatchIntro         |-> "TurnStart",
   TurnStart          |-> "Movement",
   Movement           |-> "AimingAndSelection",
   AimingAndSelection |-> "CommandLocked",
   PassiveSelection   |-> "Settling",
   CommandLocked      |-> "Resolution",
   Resolution         |-> "Settling",
   Settling           |-> "StatusResolution",
   MatchComplete      |-> "MatchComplete"]

(* advance_phase(): exactly one step of the cycle.                         *)
AdvancePhase(s) ==
  CASE s.phase = "StatusResolution" ->
         [TickStatuses(s, s.active) EXCEPT !.phase = "VictoryCheck"]
    [] s.phase = "VictoryCheck" -> LeaveVictoryCheck(s)
    [] OTHER -> [s EXCEPT !.phase = Relabel[s.phase]]

(* begin_match(): the first living player opens turn 1.                    *)
BeginMatch(s) ==
  LET opener == First(Living(s))
  IN  [s EXCEPT !.active   = opener,
                !.moves    = Allowance[opener],
                !.attacked = FALSE,
                !.turn     = 1,
                !.phase    = "TurnStart"]

(* is_accepting_commands().                                                *)
AcceptsAbility(s) == s.phase \in {"Movement", "AimingAndSelection"}

=============================================================================
