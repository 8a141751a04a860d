----------------------------- MODULE MatchHost -----------------------------
(***************************************************************************)
(* The match orchestrator (match_host.rs) with the footing half of         *)
(* movement.rs: the public calls that drive one match, each an operator    *)
(* from the state before the call to the state after it. A call settles    *)
(* the players and, when the turn is over, runs the whole rest of the turn *)
(* cycle before it returns.                                                *)
(*                                                                         *)
(* pit is the set of players whose fall, if they fall, ends below the map: *)
(* it stands for the terrain under them.                                   *)
(***************************************************************************)
EXTENDS Command

(* settle(): every living unsupported player falls, onto ground or out of  *)
(* the map. The dead are left where they are.                              *)
Settle(s, pit) ==
  LET falling == s.unsupported \cap Living(s)
  IN  [s EXCEPT
         !.health = [p \in Player |->
                       IF p \in falling \cap pit THEN 0 ELSE s.health[p]],
         !.unsupported = @ \ falling]

(* walk(): the ground covered is at most the allowance left, and less when *)
(* a wall stops it; off is whether it ends over a ledge.                   *)
WalkBudget(s) == IF s.moves > 0 THEN s.moves ELSE 0

Walk(s, p, travelled, off) ==
  [s EXCEPT !.moves = @ - travelled,
            !.unsupported = IF off /\ travelled > 0 THEN @ \cup {p} ELSE @]

(* jump(): a hop that rises costs one cell of allowance, whatever is left. *)
Jump(s, p, rises) ==
  IF rises
    THEN [s EXCEPT !.moves = @ - 1, !.unsupported = @ \cup {p}]
    ELSE s

(* open_turn(): a fresh turn opens in Movement. The passive prompt it asks *)
(* about is never due.                                                     *)
OpenTurn(s) ==
  IF s.phase = "TurnStart" THEN [s EXCEPT !.phase = "Movement"] ELSE s

(* The loop of finish_turn: advance_phase from an open turn until it       *)
(* answers TurnStart or MatchComplete. The steps before StatusResolution   *)
(* relabel the phase and nothing else; theorem LoopIsRunCycle of module    *)
(* MatchProofs compares this with the loop, step by step.                  *)
RunCycle(s) ==
  LET ticked == TickStatuses(s, s.active)
  IN  LeaveVictoryCheck([ticked EXCEPT !.phase = "VictoryCheck"])

FinishTurn(s, reason, pit) ==
  LET declared == [s EXCEPT !.pending = reason]
      closed   == RunCycle(declared)
  IN  IF s.phase = "MatchComplete" THEN declared
      ELSE IF closed.phase = "MatchComplete" THEN closed
      ELSE OpenTurn(Settle(closed, pit))

(* A mover who fell out of the map ends its own turn.                      *)
AfterMoving(s, p, pit) ==
  LET settled == Settle(s, pit)
  IN  IF p \notin Living(settled) /\ settled.active = p
        THEN FinishTurn(settled, "Eliminated", pit)
        ELSE settled

MayMove(s, p) == AcceptsAbility(s) /\ p = s.active

SubmitMove(s, p, travelled, off, pit) ==
  IF MayMove(s, p) THEN AfterMoving(Walk(s, p, travelled, off), p, pit) ELSE s

(* A hop comes down on the ground it left: nobody falls out of the map.    *)
SubmitJump(s, p, rises) ==
  IF MayMove(s, p) THEN AfterMoving(Jump(s, p, rises), p, {}) ELSE s

SubmitAbilityUndecidedBug(s, c, fx, pit) ==
  LET settled == Settle(Resolve(s, c, fx), pit)
  IN  IF ~Valid(s, c) THEN s
      ELSE IF c.slot # "Trinket" THEN FinishTurn(settled, "Attacked", pit)
      ELSE settled

(* submit_ability(): a rejected command changes nothing; a trinket leaves  *)
(* the turn open unless it decided the match or cost the actor its life.   *)
SubmitAbility(s, c, fx, pit) ==
  LET settled == Settle(Resolve(s, c, fx), pit)
      over    == \/ c.slot # "Trinket"
                 \/ c.player \notin Living(settled)
                 \/ Decided(settled)
  IN  IF ~Valid(s, c) THEN s
      ELSE IF over THEN FinishTurn(settled, "Attacked", pit)
      ELSE settled

(* pass_turn() and time_out_turn() refuse only a pending passive choice.   *)
PassTurn(s) ==
  IF s.phase = "PassiveSelection" THEN s ELSE FinishTurn(s, "Passed", {})

TimeOutTurn(s) ==
  IF s.phase = "PassiveSelection" THEN s ELSE FinishTurn(s, "TimedOut", {})

State ==
  [phase       : Phase,
   active      : Player,
   turn        : Nat,
   moves       : Int,
   attacked    : BOOLEAN,
   pending     : TurnEndReason,
   last        : TurnEndReason,
   health      : [Player -> 0..MaxHealth],
   charge      : [Player -> 0..ChargeFull],
   embers      : [Player -> Nat],
   turrets     : SUBSET Player,
   unsupported : SUBSET Player,
   processed   : SUBSET CommandId]

(* build_initial_state(): every authored spawn point is two cells above    *)
(* the ground under it. Nobody is active yet (the empty id of the code;    *)
(* the value here is overwritten before it is read).                       *)
InitialState ==
  [phase |-> "MatchIntro", active |-> First(Player), turn |-> 0,
   moves |-> 0, attacked |-> FALSE, pending |-> "Passed", last |-> "Passed",
   health      |-> [p \in Player |-> MaxHealth],
   charge      |-> [p \in Player |-> 0],
   embers      |-> [p \in Player |-> 0],
   turrets     |-> {},
   unsupported |-> Player,
   processed   |-> {}]

(* MatchHost::start().                                                     *)
Start(s) == OpenTurn(Settle(BeginMatch(s), {}))

=============================================================================
