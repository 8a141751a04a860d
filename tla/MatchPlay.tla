----------------------------- MODULE MatchPlay -----------------------------
(***************************************************************************)
(* A whole match, driven through the public calls of the match host        *)
(* (match_host.rs) in every order a caller may choose: moves and hops of   *)
(* any player, ability commands with fresh, replayed, late or foreign      *)
(* identities, passes and timeouts. Each call is one action. A call that   *)
(* the code answers without changing the state is a stuttering step.       *)
(*                                                                         *)
(* The variables below match are histories: no action reads them, they     *)
(* exist for the properties to speak about the past of a match.            *)
(***************************************************************************)
EXTENDS MatchHost, FiniteSets

CONSTANT JumpBound   \* hops are not explored past this overdraft of moves

ASSUME JumpAssumption == JumpBound \in Nat

VARIABLES
  match,       \* the state of the match
  ownTurns,    \* ownTurns[p]: how many of p's own turns have ended
  burnsUntil,  \* burnsUntil[p]: the count of own turns at which p's embers die
  attacks,     \* normal attacks accepted so far
  commits      \* commands accepted so far

vars == <<match, ownTurns, burnsUntil, attacks, commits>>

-----------------------------------------------------------------------------
(* A call moved the match from s to match': what the histories remember.   *)

TurnEnded(s, t) ==
  t.turn # s.turn \/ (t.phase = "MatchComplete" /\ s.phase # "MatchComplete")

Remember(s, t) ==
  ownTurns' = IF TurnEnded(s, t)
                THEN [ownTurns EXCEPT ![s.active] = @ + 1] ELSE ownTurns

Init ==
  /\ match = Start(InitialState)
  /\ ownTurns = [p \in Player |-> 0]
  /\ burnsUntil = [p \in Player |-> 0]
  /\ attacks = 0
  /\ commits = 0

Move(p) ==
  \E travelled \in 1..WalkBudget(match), off \in BOOLEAN, pit \in SUBSET {p} :
    /\ match' = SubmitMove(match, p, travelled, off, pit)
    /\ Remember(match, match')
    /\ UNCHANGED <<burnsUntil, attacks, commits>>

Hop(p) ==
  /\ match.moves > -JumpBound
  /\ \E rises \in BOOLEAN :
       /\ match' = SubmitJump(match, p, rises)
       /\ Remember(match, match')
       /\ UNCHANGED <<burnsUntil, attacks, commits>>

(* turn - 1 is the version a late or replayed command carries.             *)
Commands ==
  [id : CommandId, player : Player, turn : {match.turn, match.turn - 1},
   slot : Slot, power : {1, 10}]

Commit(c) ==
  \E fx \in Effects(match, c) : \E pit \in SUBSET fx.lost :
    /\ match' = SubmitAbility(match, c, fx, pit)
    /\ Remember(match, match')
    /\ burnsUntil' = [p \in Player |->
           IF p \in fx.burnt THEN ownTurns[p] + fx.burn ELSE burnsUntil[p]]
    /\ attacks' = IF c.slot = "Trinket" THEN attacks ELSE attacks + 1
    /\ commits' = commits + 1

UseAbility(c) == IF Valid(match, c) THEN Commit(c) ELSE UNCHANGED vars

Pass ==
  /\ match' = PassTurn(match)
  /\ Remember(match, match')
  /\ UNCHANGED <<burnsUntil, attacks, commits>>

TimeOut ==
  /\ match' = TimeOutTurn(match)
  /\ Remember(match, match')
  /\ UNCHANGED <<burnsUntil, attacks, commits>>

Next ==
  \/ \E p \in Player : Move(p) \/ Hop(p)
  \/ \E c \in Commands : UseAbility(c)
  \/ Pass
  \/ TimeOut

Spec == Init /\ [][Next]_vars

(* The planning clock of the authority expires every turn that nobody      *)
(* ends; no player is obliged to do anything. This is WF_vars(TimeOut)     *)
(* with its two halves spelled out, which TLC evaluates far faster: the    *)
(* clock can expire exactly until the match is complete, and the steps in  *)
(* which it does are those that take the turn from its holder, or complete *)
(* the match, for that reason.                                             *)
Expire ==
  /\ match'.active # match.active \/ match'.phase = "MatchComplete"
  /\ match'.last = "TimedOut"

Clock == []<>(match.phase = "MatchComplete") \/ []<><<Expire>>_vars

FairSpec == Spec /\ Clock

-----------------------------------------------------------------------------
(* Every variable holds a value of its kind; in particular health, gauge   *)
(* and status counters never leave their ranges (the u16 and u8 of         *)
(* types.rs).                                                              *)
TypeOK ==
  /\ match \in State
  /\ ownTurns \in [Player -> Nat]
  /\ burnsUntil \in [Player -> Nat]
  /\ attacks \in Nat
  /\ commits \in Nat

(* Between calls a match is either complete or waiting for a player who    *)
(* can act: the phase accepts commands, the active player is alive, has    *)
(* not attacked, and at least two teams still stand. A mover who falls out *)
(* of the map, a trinket that kills and an attack that costs its own       *)
(* actor the ground must all end in one of the two (match_host.rs:197,     *)
(* match_host.rs:285).                                                     *)
Playable ==
  \/ match.phase = "MatchComplete"
  \/ /\ match.phase = "Movement"
     /\ match.active \in Living(match)
     /\ ~match.attacked
     /\ ~Decided(match)

(* A complete match has at most one team left, and nothing of a dead       *)
(* player stands on the final board: the forced draw and the ordinary end  *)
(* go through the same cleanup (victory.rs:156).                           *)
CompleteIsFinal ==
  match.phase = "MatchComplete" =>
    /\ Decided(match)
    /\ match.turrets \subseteq Living(match)

(* Between calls no living player hangs in the air: every call that can    *)
(* take the ground from somebody settles before it returns                 *)
(* (match_host.rs:217 quotes the bug this rules out).                      *)
NobodyHangs == match.unsupported \cap Living(match) = {}

(* Embers last exactly as many of the victim's own turns as the effect     *)
(* published, counted from the latest application; turns of other players  *)
(* consume nothing (scheduler.rs:145, resolve/status.rs:233).              *)
EmbersLastOwnTurns ==
  \A p \in Player :
    match.embers[p] = IF burnsUntil[p] > ownTurns[p]
                        THEN burnsUntil[p] - ownTurns[p] ELSE 0

(* One normal attack per turn: accepted normal attacks never outnumber     *)
(* the turns that have ended, so no turn is attacked in twice and no       *)
(* attack leaves its turn open (command.rs:199, match_host.rs:285).        *)
OneAttackPerTurn ==
  attacks <= IF match.phase = "MatchComplete" THEN match.turn ELSE match.turn - 1

(* Every accepted command is in the idempotency ledger under an id of its  *)
(* own: no id is ever accepted twice (command.rs:152, command.rs:597).     *)
NoCommandTwice == commits = Cardinality(match.processed)

(* No match outlives the hard turn limit (scheduler.rs:66).                *)
BoundedByHardLimit == match.turn <= HardTurnLimit

(* Between calls all of it holds at once: whatever was just resolved, the  *)
(* match waits for somebody who can act or is over with a clean board,     *)
(* nobody hangs in the air, and the hard limit is kept (match_host.rs:397, *)
(* finish_turn). None of the four can be shown without the others.         *)
BetweenCalls == Playable /\ CompleteIsFinal /\ NobodyHangs /\ BoundedByHardLimit

(* However often a command is sent, and however late, it acts once at      *)
(* most, and in one turn a single normal attack does (command.rs:152,      *)
(* command.rs:199).                                                        *)
CommandsActOnce == NoCommandTwice /\ OneAttackPerTurn

(* A turn changes hands completely: the number grows by one, the next      *)
(* player is another living one or the only one of its kind left to act,   *)
(* it has its own character's full allowance, the reason recorded is the   *)
(* one the host declared for this turn, and no dead player's object sees   *)
(* the new turn (scheduler.rs:241, end_turn).                              *)
HandOver ==
  [][match'.turn # match.turn =>
       /\ match'.turn = match.turn + 1
       /\ match'.active # match.active
       /\ match'.active \in Living(match')
       /\ match'.moves = Allowance[match'.active]
       /\ match'.last = match'.pending
       /\ match'.turrets \subseteq Living(match')]_vars

(* Nothing but an explicit end of the turn takes it away from the active   *)
(* player: while the turn number stands, so does the player, and the       *)
(* allowance is only spent.                                                *)
TurnIsOwned ==
  [][match'.turn = match.turn =>
       /\ match'.active = match.active
       /\ match'.moves <= match.moves]_vars

(* A complete match is absorbing: late moves, commands, passes and         *)
(* timeouts leave everything but the declared reason as it was             *)
(* (scheduler.rs:108, match_host.rs:411).                                  *)
CompleteIsAbsorbing ==
  [][match.phase = "MatchComplete" =>
       match' = [match EXCEPT !.pending = match'.pending]]_vars

(* The turn changes hands completely, only at its end, and never again     *)
(* once the match is complete (scheduler.rs:241, match_host.rs:411).       *)
TurnsChangeHands == HandOver /\ TurnIsOwned /\ CompleteIsAbsorbing

Order == INSTANCE TurnOrder
  WITH Limit  <- HardTurnLimit,
       living <- Living(match),
       holder <- match.active,
       round  <- match.turn,
       over   <- match.phase = "MatchComplete"

(* Whatever its players submit, a match is a fair game of turns: the turn  *)
(* goes to the next survivor round the table, never to a dead player and   *)
(* never past a living one, nobody comes back, and the match stops exactly *)
(* when one team at most is left. next_active_player (scheduler.rs:283)    *)
(* promises this even if the active player died in its own turn.           *)
ImplementsTurnOrder == Order!Spec

(* A match always reaches a terminal state, even if no player ever acts:   *)
(* the clock ends the turns and the hard limit ends the match              *)
(* (scheduler.rs:42).                                                      *)
MatchEnds == <>(match.phase = "MatchComplete")

=============================================================================
