------------------------------ MODULE Command ------------------------------
(***************************************************************************)
(* The ability boundary (command.rs): which command is accepted, and what  *)
(* a committed one does to the state. A command is                         *)
(*   [id, player, turn, slot, power]                                       *)
(* with the power in tenths of the full launch power. What the shot does   *)
(* to the board is decided by ballistics, terrain and dice, which are not  *)
(* modelled here: it is a record of Effects(s, c), the outcomes the launch *)
(* roster's abilities can have.                                            *)
(***************************************************************************)
EXTENDS Scheduler

CONSTANTS
  CommandId,   \* ids a client may submit
  EmberTurns   \* durations the Embers effects of the roster carry

ASSUME CommandAssumption == EmberTurns \subseteq Nat \ {0}

Slot == {"Basic", "BasicAlt", "Trinket"}

Power == 0..10

(* max_launch_power(): walking costs reach, down to a tenth.               *)
MaxLaunchPower(s) ==
  LET remaining == IF s.moves > 0 THEN s.moves ELSE 0
      allowance == Allowance[s.active]
      scaled    == (10 * remaining) \div allowance
  IN  IF allowance = 0 THEN 10
      ELSE IF scaled < 1 THEN 1 ELSE scaled

ValidReplayBug(s, c) ==
  /\ c.player \in Living(s)
  /\ c.player = s.active
  /\ AcceptsAbility(s)
  /\ c.turn = s.turn
  /\ c.slot = "Trinket" => s.charge[c.player] >= ChargeFull
  /\ c.slot # "Trinket" => ~s.attacked
  /\ c.power <= MaxLaunchPower(s)

(* validate_ability(), the order of the checks aside: which of several     *)
(* failing checks names the rejection changes no state.                    *)
Valid(s, c) ==
  /\ c.id \notin s.processed
  /\ c.player \in Living(s)
  /\ c.player = s.active
  /\ AcceptsAbility(s)
  /\ c.turn = s.turn
  /\ c.slot = "Trinket" => s.charge[c.player] >= ChargeFull
  /\ c.slot # "Trinket" => ~s.attacked
  /\ c.power <= MaxLaunchPower(s)

(* The outcomes the roster's kits can have. Nobody is healed; the actor is *)
(* hurt only by a strike, all of them second basics, that names itself; a  *)
(* trinket removes no terrain and displaces nobody; only a trinket         *)
(* (Celestial Staff Battery) leaves a turret; embers mark whoever stands   *)
(* in the blast and is still alive. Module ReceiptPlay computes outcomes   *)
(* strike by strike and shows that they are among these.                   *)
Effects(s, c) ==
  {fx \in [health : [Player -> 0..MaxHealth],
           dealt  : BOOLEAN,
           lost   : SUBSET Living(s),
           burnt  : SUBSET Living(s),
           burn   : EmberTurns \cup {0},
           turret : BOOLEAN] :
     /\ \A p \in Player : fx.health[p] <= s.health[p]
     /\ c.slot # "BasicAlt" => fx.health[c.player] = s.health[c.player]
     /\ fx.dealt => \E p \in Player : fx.health[p] < s.health[p]
     /\ c.slot = "Trinket" => fx.lost = {}
     /\ c.slot # "Trinket" => ~fx.turret
     /\ c.slot = "BasicAlt" => fx.burnt = {}
     /\ \A p \in fx.burnt : fx.health[p] > 0
     /\ fx.burnt = {} <=> fx.burn = 0}

AwardGaugeOverflowBug(charge, c, fx) ==
  IF c.slot = "Trinket" THEN 0 ELSE IF fx.dealt THEN charge + 1 ELSE charge

(* award_gauge(): a damaging normal attack is worth one hit.               *)
AwardGauge(charge, c, fx) ==
  IF c.slot = "Trinket" THEN 0
  ELSE IF fx.dealt /\ charge < ChargeFull THEN charge + 1
  ELSE charge

(* resolve_ability(): everything a committed command changes.              *)
Resolve(s, c, fx) ==
  [s EXCEPT
     !.charge[c.player] = AwardGauge(@, c, fx),
     !.attacked    = @ \/ c.slot # "Trinket",
     !.health      = fx.health,
     !.unsupported = @ \cup fx.lost,
     !.embers      = [p \in Player |->
                        IF p \in fx.burnt THEN fx.burn ELSE s.embers[p]],
     !.turrets     = IF fx.turret THEN @ \cup {c.player} ELSE @,
     !.processed   = @ \cup {c.id}]

=============================================================================
