---------------------------- MODULE MatchProofs ----------------------------
(***************************************************************************)
(* What a match promises whatever its callers submit, proved for every     *)
(* roster, every set of command ids and every limit. Everything follows    *)
(* from what module CallProofs shows of a single call (Good, Progress and  *)
(* Account) and from the histories a match keeps of its past.              *)
(***************************************************************************)
EXTENDS MatchPlay, CallProofs

(* The invariant of the specification.                                     *)

Histories ==
  /\ ownTurns \in [Player -> Nat]
  /\ burnsUntil \in [Player -> Nat]
  /\ attacks \in Nat
  /\ commits \in Nat

IInv == Good(match) /\ Histories

(* The histories stay typed whatever the call was.                         *)
LEMMA RememberTyped ==
  ASSUME match \in State, match' \in State, Histories, Remember(match, match')
  PROVE  ownTurns' \in [Player -> Nat]
<1>1. /\ match.active \in Player
      /\ match'.active \in Player
      /\ match'.turn \in Nat
  BY DEF State
<1> QED
  BY <1>1 DEF Histories, Remember

LEMMA NextIsGood ==
  ASSUME IInv, [Next]_vars
  PROVE  IInv' /\ Progress(match, match')
<1> USE DEF IInv
<1>1. match \in State /\ Good(match)
  BY DEF Good
<1>2. ASSUME NEW p \in Player, Move(p) \/ Hop(p)
      PROVE  IInv' /\ Progress(match, match')
  <2>1. Good(match') /\ Progress(match, match')
    <3>1. CASE Move(p)
      BY <1>1, <3>1, MoveIsGood DEF Move
    <3>2. CASE Hop(p)
      BY <1>1, <3>2, JumpIsGood DEF Hop
    <3> QED
      BY <1>2, <3>1, <3>2
  <2>2. Remember(match, match') /\ UNCHANGED <<burnsUntil, attacks, commits>>
    BY <1>2 DEF Move, Hop
  <2> QED
    BY <1>1, <2>1, <2>2, RememberTyped DEF Good, Histories
<1>3. ASSUME NEW c \in Commands, UseAbility(c)
      PROVE  IInv' /\ Progress(match, match')
  <2>1. CASE ~Valid(match, c)
    <3>1. UNCHANGED vars
      BY <1>3, <2>1 DEF UseAbility
    <3> QED
      BY <1>1, <3>1, NothingHappens
         DEF vars, Histories, Good, Grounded, Open, Final, Decided, Living
  <2>2. CASE Valid(match, c)
    <3>1. c.id \in CommandId /\ c.slot \in Slot
      BY DEF Commands
    <3>0. PICK fx \in Effects(match, c) : \E pit \in SUBSET fx.lost :
            /\ match' = SubmitAbility(match, c, fx, pit)
            /\ Remember(match, match')
            /\ burnsUntil' = [p \in Player |->
                 IF p \in fx.burnt THEN ownTurns[p] + fx.burn ELSE burnsUntil[p]]
            /\ attacks' = IF c.slot = "Trinket" THEN attacks ELSE attacks + 1
            /\ commits' = commits + 1
      BY <1>3, <2>2 DEF UseAbility, Commit
    <3>2. PICK pit \in SUBSET fx.lost :
            /\ match' = SubmitAbility(match, c, fx, pit)
            /\ Remember(match, match')
            /\ burnsUntil' = [p \in Player |->
                 IF p \in fx.burnt THEN ownTurns[p] + fx.burn ELSE burnsUntil[p]]
            /\ attacks' = IF c.slot = "Trinket" THEN attacks ELSE attacks + 1
            /\ commits' = commits + 1
      BY <3>0
    <3>3. Good(match') /\ Progress(match, match')
      BY <1>1, <2>2, <3>1, <3>2, AbilityIsGood
    <3>4. fx.burn \in Nat
      <4>1. fx.burn \in EmberTurns \cup {0}
        BY DEF Effects
      <4>2. CASE fx.burn \in EmberTurns
        BY <4>2, CommandAssumption, Zenon
      <4>3. CASE fx.burn = 0
        BY <4>3
      <4> QED
        BY <4>1, <4>2, <4>3, Zenon
    <3>5. Histories'
      <4>1. burnsUntil' \in [Player -> Nat]
        BY <3>2, <3>4 DEF Histories
      <4>2. attacks' \in Nat /\ commits' \in Nat
        BY <3>2 DEF Histories
      <4> QED
        BY <1>1, <3>2, <3>3, <4>1, <4>2, RememberTyped DEF Good, Histories
    <3> QED
      BY <3>3, <3>5
  <2> QED
    BY <2>1, <2>2
<1>4. ASSUME Pass \/ TimeOut
      PROVE  IInv' /\ Progress(match, match')
  <2>1. "Passed" \in TurnEndReason /\ "TimedOut" \in TurnEndReason
    BY DEF TurnEndReason
  <2>2. match.phase # "PassiveSelection"
    BY <1>1 DEF Good, Open, Final
  <2>3. Good(match') /\ Progress(match, match')
    BY <1>1, <1>4, <2>1, <2>2, EndingIsGood DEF Pass, TimeOut, PassTurn, TimeOutTurn
  <2>4. Remember(match, match') /\ UNCHANGED <<burnsUntil, attacks, commits>>
    BY <1>4 DEF Pass, TimeOut
  <2> QED
    BY <1>1, <2>3, <2>4, RememberTyped DEF Good, Histories
<1>5. ASSUME UNCHANGED vars
      PROVE  IInv' /\ Progress(match, match')
  BY <1>1, <1>5, NothingHappens
     DEF vars, Histories, Good, Grounded, Open, Final, Decided, Living
<1> QED
  BY <1>2, <1>3, <1>4, <1>5 DEF Next

LEMMA InitIsGood == Init => IInv
<1> SUFFICES ASSUME Init PROVE IInv
  OBVIOUS
<1>1. Good(match)
  BY StartIsGood DEF Init
<1>2. Histories
  BY DEF Init, Histories
<1> QED
  BY <1>1, <1>2 DEF IInv

(* In every reachable state of every match the invariant holds.            *)
THEOREM Invariance == Spec => []IInv
<1>1. Init => IInv
  BY InitIsGood
<1>2. IInv /\ [Next]_vars => IInv'
  BY NextIsGood
<1> QED
  BY <1>1, <1>2, PTL DEF Spec

-----------------------------------------------------------------------------
(* The properties that follow from the invariant.                          *)

(* Health, gauge and status counters of every reachable state are in their *)
(* ranges (types.rs:925).                                                  *)
THEOREM TypeCorrect == Spec => []TypeOK
<1>1. IInv => TypeOK
  BY DEF IInv, Histories, Good, TypeOK
<1> QED
  BY <1>1, Invariance, PTL

(* No match is ever stranded: between calls it is complete or waits for a  *)
(* living player who can act (match_host.rs:197, match_host.rs:285).       *)
THEOREM AlwaysPlayable == Spec => []Playable
<1>1. IInv => Playable
  BY DEF IInv, Good, Open, Final, Playable
<1> QED
  BY <1>1, Invariance, PTL

(* A complete match has at most one team left and no dead player's object  *)
(* on its board (victory.rs:156).                                          *)
THEOREM FinalBoardIsClean == Spec => []CompleteIsFinal
<1>1. IInv => CompleteIsFinal
  BY DEF IInv, Good, Open, Final, CompleteIsFinal
<1> QED
  BY <1>1, Invariance, PTL

(* Gravity has always run: no living player hangs in the air between calls *)
(* (match_host.rs:217).                                                    *)
THEOREM GravityHasRun == Spec => []NobodyHangs
<1>1. IInv => NobodyHangs
  BY DEF IInv, Good, Grounded, NobodyHangs
<1> QED
  BY <1>1, Invariance, PTL

(* The hard limit bounds the length of every match (scheduler.rs:66).      *)
THEOREM HardLimitHolds == Spec => []BoundedByHardLimit
<1>1. IInv => BoundedByHardLimit
  BY BoundAssumption DEF IInv, Good, BoundedByHardLimit
<1> QED
  BY <1>1, Invariance, PTL

(* All of it at once: the state a call of the host leaves (match_host.rs:397). *)
THEOREM NothingIsHalfDone == Spec => []BetweenCalls
BY AlwaysPlayable, FinalBoardIsClean, GravityHasRun, HardLimitHolds, PTL DEF BetweenCalls

-----------------------------------------------------------------------------
(* What a step may do.                                                     *)

LEMMA StepFacts ==
  ASSUME IInv, [Next]_vars
  PROVE  /\ match \in State /\ match' \in State
         /\ Good(match) /\ Good(match')
         /\ Progress(match, match')
BY NextIsGood DEF IInv, Good

(* A turn changes hands completely (scheduler.rs:241).                     *)
THEOREM TurnsAreHandedOver == Spec => HandOver
<1> DEFINE Complete ==
      /\ match'.turn = match.turn + 1
      /\ match'.active # match.active
      /\ match'.active \in Living(match')
      /\ match'.moves = Allowance[match'.active]
      /\ match'.last = match'.pending
      /\ match'.turrets \subseteq Living(match')
<1>1. ASSUME IInv, [Next]_vars, match'.turn # match.turn
      PROVE  Complete
  <2>1. Progress(match, match')
    BY <1>1, StepFacts
  <2>2. ~Kept(match, match') /\ ~Ended(match, match')
    BY <1>1 DEF Kept, Ended
  <2>3. match' # [match EXCEPT !.pending = match'.pending]
    <3>1. match \in State
      BY <1>1, StepFacts
    <3> QED
      BY <1>1, <3>1 DEF State
  <2> QED
    BY <2>1, <2>2, <2>3 DEF Progress, Handed
<1>2. IInv /\ [Next]_vars => [match'.turn # match.turn => Complete]_vars
  BY <1>1
<1> QED
  BY <1>2, Invariance, PTL DEF Spec, HandOver

(* Nothing but the end of the turn takes it from its player.               *)
THEOREM TurnsAreOwned == Spec => TurnIsOwned
<1> DEFINE Owned == match'.active = match.active /\ match'.moves <= match.moves
<1>1. ASSUME IInv, [Next]_vars, match'.turn = match.turn
      PROVE  Owned
  <2>1. Progress(match, match') /\ match \in State
    BY <1>1, StepFacts
  <2>2. ~Handed(match, match')
    BY <1>1, <2>1 DEF Handed, State
  <2>3. CASE Kept(match, match') \/ Ended(match, match')
    BY <2>3 DEF Kept, Ended
  <2>4. CASE match' = [match EXCEPT !.pending = match'.pending]
    <3>1. match'.active = match.active /\ match'.moves = match.moves
      BY <2>1, <2>4 DEF State
    <3>2. match.moves <= match.moves
      BY <2>1 DEF State
    <3> QED
      BY <3>1, <3>2
  <2> QED
    BY <2>1, <2>2, <2>3, <2>4 DEF Progress
<1>2. IInv /\ [Next]_vars => [match'.turn = match.turn => Owned]_vars
  BY <1>1
<1> QED
  BY <1>2, Invariance, PTL DEF Spec, TurnIsOwned

(* Once complete, a match never changes again but for the declared reason  *)
(* (scheduler.rs:108).                                                     *)
THEOREM CompletionIsAbsorbing == Spec => CompleteIsAbsorbing
<1> DEFINE Same == match' = [match EXCEPT !.pending = match'.pending]
<1>1. ASSUME IInv, [Next]_vars, match.phase = "MatchComplete"
      PROVE  Same
  BY <1>1, StepFacts DEF Progress, Open
<1>2. IInv /\ [Next]_vars => [match.phase = "MatchComplete" => Same]_vars
  BY <1>1
<1> QED
  BY <1>2, Invariance, PTL DEF Spec, CompleteIsAbsorbing

(* The turn is owned, handed over completely, and never again once the     *)
(* match is complete (scheduler.rs:241, match_host.rs:411).                *)
THEOREM TurnsChange == Spec => TurnsChangeHands
BY TurnsAreHandedOver, TurnsAreOwned, CompletionIsAbsorbing DEF TurnsChangeHands

-----------------------------------------------------------------------------
(* Refinement of the abstract game of turns.                               *)

LEMMA InitRefines ==
  ASSUME Init
  PROVE  Order!Init
<1>1. /\ Open(match)
      /\ Living(match) = Player
      /\ match.active = First(Player)
      /\ match.turn = 1
  BY StartIsGood DEF Init
<1>2. Order!Contested(Living(match))
  BY <1>1 DEF Open, Decided, Order!Contested
<1>3. match.active \in Player /\ \A p \in Player : match.active <= p
  <2>1. Player # {} /\ Player \in SUBSET Player
    BY RosterAssumption
  <2> QED
    BY <1>1, <2>1, FirstIsLeast
<1> QED
  BY <1>1, <1>2, <1>3 DEF Open, Order!Init

LEMMA StepRefines ==
  ASSUME IInv, [Next]_vars
  PROVE  [Order!Next]_Order!vars
<1>1. /\ match \in State /\ match' \in State
      /\ Good(match) /\ Good(match')
      /\ Progress(match, match')
  BY StepFacts
<1>2. CASE Open(match) /\ Kept(match, match')
  <2>1. /\ match.phase # "MatchComplete"
        /\ match'.phase # "MatchComplete"
        /\ Order!Contested(Living(match'))
    BY <1>2 DEF Open, Kept, Decided, Order!Contested
  <2>2. /\ Living(match') \subseteq Living(match)
        /\ match.active \in Living(match')
        /\ match'.active = match.active
        /\ match'.turn = match.turn
    BY <1>2 DEF Open, Kept
  <2>3. Order!Act
    BY <2>1, <2>2 DEF Order!Act, Order!Die
  <2> QED
    BY <2>3 DEF Order!Next
<1>3. CASE Open(match) /\ Handed(match, match')
  <2>1. match'.phase = "Movement" /\ match.phase = "Movement"
    BY <1>1, <1>3 DEF Good, Open, Final, Handed
  <2>2. Order!Contested(Living(match'))
    BY <1>3 DEF Handed, Decided, Order!Contested
  <2>3. Order!Follows(match.active, match'.active, Living(match'))
    BY <1>3 DEF Handed, Between, Order!Follows, Order!Between
  <2>4. match.turn < HardTurnLimit /\ match'.turn = match.turn + 1
    BY <1>1, <1>3, BoundAssumption DEF Good, Handed
  <2>5. Order!HandOver
    BY <1>3, <2>1, <2>2, <2>3, <2>4 DEF Handed, Order!HandOver, Order!Die
  <2> QED
    BY <2>5 DEF Order!Next
<1>4. CASE Open(match) /\ Ended(match, match')
  <2>1. match.phase # "MatchComplete" /\ match'.phase = "MatchComplete"
    BY <1>4 DEF Open, Ended, Final
  <2>2. ~Order!Contested(Living(match'))
    BY <1>4 DEF Ended, Final, Decided, Order!Contested
  <2>3. Order!End
    BY <1>4, <2>1, <2>2 DEF Ended, Order!End, Order!Die
  <2> QED
    BY <2>3 DEF Order!Next
<1>5. CASE match' = [match EXCEPT !.pending = match'.pending]
  <2>1. /\ match'.health = match.health
        /\ match'.active = match.active
        /\ match'.turn = match.turn
        /\ match'.phase = match.phase
    BY <1>1, <1>5 DEF State
  <2>2. Living(match') = Living(match)
    BY <2>1 DEF Living
  <2> QED
    BY <2>1, <2>2 DEF Order!vars
<1> QED
  BY <1>1, <1>2, <1>3, <1>4, <1>5 DEF Progress

(* Whatever is submitted to it, a match is the fair game of turns that     *)
(* TurnOrder describes (scheduler.rs:283).                                 *)
THEOREM MatchImplementsTurnOrder == Spec => ImplementsTurnOrder
<1>1. Init => Order!Init
  BY InitRefines
<1>2. IInv /\ [Next]_vars => [Order!Next]_Order!vars
  BY StepRefines
<1> QED
  BY <1>1, <1>2, Invariance, PTL DEF Spec, ImplementsTurnOrder, Order!Spec

-----------------------------------------------------------------------------
(* The invariant: the histories agree with the match.                      *)

Counted ==
  /\ IsFiniteSet(match.processed)
  /\ NoCommandTwice
  /\ OneAttackPerTurn
  /\ EmbersLastOwnTurns

AInv == IInv /\ Counted

LEMMA InitCounts == Init => AInv
<1> SUFFICES ASSUME Init
             PROVE  AInv
  OBVIOUS
<1>1. IInv
  BY InitIsGood
<1>2. /\ match.processed = {}
      /\ \A p \in Player : match.embers[p] = 0
  BY StartAccounts DEF Init
<1>3. /\ IsFiniteSet(match.processed)
      /\ Cardinality(match.processed) = 0
  BY <1>2, FS_EmptySet
<1>4. OneAttackPerTurn
  BY <1>1 DEF Init, OneAttackPerTurn, IInv, Good
<1>5. EmbersLastOwnTurns
  <2> SUFFICES ASSUME NEW p \in Player
               PROVE  match.embers[p] = IF burnsUntil[p] > ownTurns[p]
                                          THEN burnsUntil[p] - ownTurns[p] ELSE 0
    BY DEF EmbersLastOwnTurns
  <2>1. burnsUntil[p] = 0 /\ ownTurns[p] = 0
    BY DEF Init
  <2>2. match.embers[p] = 0
    BY <1>2
  <2> QED
    BY <2>1, <2>2
<1> QED
  BY <1>1, <1>3, <1>4, <1>5 DEF Init, AInv, Counted, NoCommandTwice

(* A call that accepts no command.                                         *)
LEMMA QuietCounts ==
  ASSUME AInv, match' \in State, Progress(match, match'),
         Account(match, match', match.embers, match.processed),
         Remember(match, match'), UNCHANGED <<burnsUntil, attacks, commits>>
  PROVE  Counted'
<1> USE DEF AInv, IInv, Counted
<1>1. match \in State /\ Histories
  BY DEF Good
<1>2. match'.processed = match.processed
  BY DEF Account
<1>3. IsFiniteSet(match.processed)' /\ NoCommandTwice'
  BY <1>2 DEF NoCommandTwice
<1>4. OneAttackPerTurn'
  <2>1. match'.turn \in Nat /\ match.turn \in Nat /\ attacks \in Nat
    BY <1>1 DEF State, Histories
  <2>2. CASE Open(match) /\ Kept(match, match')
    BY <2>1, <2>2 DEF Kept, Open, OneAttackPerTurn
  <2>3. CASE Handed(match, match') \/ Ended(match, match')
    BY <2>1, <2>3 DEF Handed, Ended, Final, OneAttackPerTurn
  <2>4. CASE Final(match) /\ match' = [match EXCEPT !.pending = match'.pending]
    <3>1. match'.phase = match.phase /\ match'.turn = match.turn
      BY <1>1, <2>4 DEF State
    <3> QED
      BY <3>1 DEF OneAttackPerTurn
  <2> QED
    BY <2>2, <2>3, <2>4 DEF Progress
<1>5. EmbersLastOwnTurns'
  <2> SUFFICES ASSUME NEW p \in Player
               PROVE  match'.embers[p] = IF burnsUntil[p] > ownTurns'[p]
                                           THEN burnsUntil[p] - ownTurns'[p] ELSE 0
    BY DEF EmbersLastOwnTurns
  <2>1. /\ match.embers[p] = IF burnsUntil[p] > ownTurns[p]
                               THEN burnsUntil[p] - ownTurns[p] ELSE 0
        /\ burnsUntil[p] \in Nat /\ ownTurns[p] \in Nat
        /\ match.embers \in [Player -> Nat]
        /\ ownTurns \in [Player -> Nat]
        /\ match.active \in Player
    BY <1>1 DEF EmbersLastOwnTurns, Histories, State
  <2>2. CASE TurnEnded(match, match')
    <3>1. match'.embers = Ticked(match.embers, match.active)
      BY <2>2 DEF Account, EndsTurn, TurnEnded
    <3>2. ownTurns' = [ownTurns EXCEPT ![match.active] = @ + 1]
      BY <2>2 DEF Remember
    <3> QED
      BY <2>1, <3>1, <3>2 DEF Ticked, Less
  <2>3. CASE ~TurnEnded(match, match')
    BY <2>1, <2>3 DEF Account, Remember, EndsTurn, TurnEnded
  <2> QED
    BY <2>2, <2>3
<1> QED
  BY <1>3, <1>4, <1>5

(* A call that accepts the command c.                                      *)
LEMMA CommandCounts ==
  ASSUME AInv, NEW c \in Commands, Valid(match, c), NEW fx \in Effects(match, c),
         NEW pit, match' = SubmitAbility(match, c, fx, pit), match' \in State,
         Remember(match, match'),
         burnsUntil' = [p \in Player |->
           IF p \in fx.burnt THEN ownTurns[p] + fx.burn ELSE burnsUntil[p]],
         attacks' = IF c.slot = "Trinket" THEN attacks ELSE attacks + 1,
         commits' = commits + 1
  PROVE  Counted'
<1> USE DEF AInv, IInv, Counted
<1>1. match \in State /\ Histories /\ Good(match)
  BY DEF Good
<1>2. c.id \in CommandId /\ c.slot \in Slot
  BY DEF Commands
<1>3. /\ Account(match, match', Burning(match, fx), match.processed \cup {c.id})
      /\ c.slot # "Trinket" => TurnEnded(match, match')
  BY <1>1, <1>2, AbilityAccounts DEF EndsTurn, TurnEnded
<1>4. IsFiniteSet(match.processed)' /\ NoCommandTwice'
  <2>1. c.id \notin match.processed
    BY DEF Valid
  <2>2. match'.processed = match.processed \cup {c.id}
    BY <1>3 DEF Account
  <2>3. /\ IsFiniteSet(match'.processed)
        /\ Cardinality(match'.processed) = Cardinality(match.processed) + 1
    <3>1. IsFiniteSet(match.processed)
      OBVIOUS
    <3>2. /\ IsFiniteSet(match.processed \cup {c.id})
          /\ Cardinality(match.processed \cup {c.id}) = Cardinality(match.processed) + 1
      BY <2>1, <3>1, FS_AddElement
    <3> QED
      BY <2>2, <3>2
  <2> QED
    BY <2>3 DEF NoCommandTwice
<1>5. OneAttackPerTurn'
  <2>1. Progress(match, match') /\ Open(match)
    BY <1>1, <1>2, AbilityIsGood DEF Valid, AcceptsAbility, Good, Final
  <2>2. /\ match'.turn \in Nat /\ match.turn \in Nat /\ attacks \in Nat
        /\ attacks <= match.turn - 1
    BY <1>1, <2>1 DEF State, Histories, Open, OneAttackPerTurn
  <2>3. Kept(match, match') \/ Handed(match, match') \/ Ended(match, match')
    BY <2>1 DEF Progress, Open, Final
  <2>4. CASE Kept(match, match')
    <3>1. ~TurnEnded(match, match')
      BY <2>4 DEF Kept, Open, TurnEnded
    <3> QED
      BY <1>3, <2>2, <2>4, <3>1 DEF Kept, Open, OneAttackPerTurn
  <2>5. CASE Handed(match, match')
    BY <2>2, <2>5 DEF Handed, OneAttackPerTurn
  <2>6. CASE Ended(match, match')
    BY <2>2, <2>6 DEF Ended, Final, OneAttackPerTurn
  <2> QED
    BY <2>3, <2>4, <2>5, <2>6
<1>6. EmbersLastOwnTurns'
  <2> SUFFICES ASSUME NEW p \in Player
               PROVE  match'.embers[p] = IF burnsUntil'[p] > ownTurns'[p]
                                           THEN burnsUntil'[p] - ownTurns'[p] ELSE 0
    BY DEF EmbersLastOwnTurns
  <2>1. /\ match.embers[p] = IF burnsUntil[p] > ownTurns[p]
                               THEN burnsUntil[p] - ownTurns[p] ELSE 0
        /\ burnsUntil[p] \in Nat /\ ownTurns[p] \in Nat
        /\ ownTurns \in [Player -> Nat]
        /\ match.active \in Player
    BY <1>1 DEF EmbersLastOwnTurns, Histories, State
  <2>2. p \in fx.burnt => fx.burn \in Nat /\ fx.burn > 0
    <3>1. fx.burn \in EmberTurns \cup {0} /\ (p \in fx.burnt => fx.burn # 0)
      BY DEF Effects
    <3>2. fx.burn \in EmberTurns => fx.burn \in Nat /\ fx.burn # 0
      BY CommandAssumption, Zenon
    <3>3. p \in fx.burnt => fx.burn \in EmberTurns
      BY <3>1, Zenon
    <3> QED
      BY <3>2, <3>3
  <2>3. burnsUntil'[p] = IF p \in fx.burnt THEN ownTurns[p] + fx.burn ELSE burnsUntil[p]
    OBVIOUS
  <2> DEFINE burning == Burning(match, fx)[p]
  <2>4. burning = IF burnsUntil'[p] > ownTurns[p]
                    THEN burnsUntil'[p] - ownTurns[p] ELSE 0
    BY <2>1, <2>2, <2>3 DEF Burning
  <2>5. burnsUntil'[p] \in Nat
    BY <2>1, <2>2, <2>3
  <2>6. CASE TurnEnded(match, match')
    <3>1. match'.embers = Ticked(Burning(match, fx), match.active)
      BY <1>3, <2>6 DEF Account, EndsTurn, TurnEnded
    <3>2. ownTurns' = [ownTurns EXCEPT ![match.active] = @ + 1]
      BY <2>6 DEF Remember
    <3>3. match'.embers[p] = IF p = match.active THEN Less(burning) ELSE burning
      BY <3>1 DEF Ticked, Burning
    <3> HIDE DEF burning
    <3> QED
      BY <2>1, <2>4, <2>5, <3>2, <3>3 DEF Less
  <2>7. CASE ~TurnEnded(match, match')
    <3>1. match'.embers[p] = burning /\ ownTurns' = ownTurns
      BY <1>3, <2>7 DEF Account, Remember, EndsTurn, TurnEnded
    <3> QED
      BY <2>4, <3>1
  <2> QED
    BY <2>6, <2>7
<1> QED
  BY <1>4, <1>5, <1>6

LEMMA NextCounts ==
  ASSUME AInv, [Next]_vars
  PROVE  AInv'
<1>1. /\ match \in State /\ Good(match)
      /\ IInv'
      /\ match' \in State
      /\ Progress(match, match')
  BY NextIsGood DEF AInv, IInv, Good
<1>2. ASSUME NEW p \in Player, Move(p) \/ Hop(p)
      PROVE  Counted'
  <2>1. Account(match, match', match.embers, match.processed)
    BY <1>1, <1>2, MoveAccounts, JumpAccounts DEF Move, Hop
  <2> QED
    BY <1>1, <1>2, <2>1, QuietCounts DEF Move, Hop
<1>3. ASSUME NEW c \in Commands, UseAbility(c)
      PROVE  Counted'
  <2>1. CASE ~Valid(match, c)
    BY <1>3, <2>1 DEF UseAbility, AInv, Counted, vars, NoCommandTwice,
                      OneAttackPerTurn, EmbersLastOwnTurns
  <2>2. CASE Valid(match, c)
    BY <1>1, <1>3, <2>2, CommandCounts DEF UseAbility, Commit
  <2> QED
    BY <2>1, <2>2
<1>4. ASSUME Pass \/ TimeOut
      PROVE  Counted'
  <2>1. "Passed" \in TurnEndReason /\ "TimedOut" \in TurnEndReason
    BY DEF TurnEndReason
  <2>2. match.phase # "PassiveSelection"
    BY <1>1 DEF Good, Open, Final
  <2>3. Account(match, match', match.embers, match.processed)
    BY <1>1, <1>4, <2>1, <2>2, EndingAccounts DEF Pass, TimeOut, PassTurn, TimeOutTurn
  <2> QED
    BY <1>1, <1>4, <2>3, QuietCounts DEF Pass, TimeOut
<1>5. ASSUME UNCHANGED vars
      PROVE  Counted'
  BY <1>5 DEF AInv, Counted, vars, NoCommandTwice, OneAttackPerTurn, EmbersLastOwnTurns
<1> QED
  BY <1>1, <1>2, <1>3, <1>4, <1>5 DEF Next, AInv

(* In every reachable state the histories agree with the match.            *)
THEOREM AccountsAgree == Spec => []AInv
<1>1. AInv /\ [Next]_vars => AInv'
  BY NextCounts
<1> QED
  BY <1>1, InitCounts, PTL DEF Spec

(* No command acts twice and no turn is attacked in twice, however many    *)
(* commands are sent and however late (command.rs:152, command.rs:199).    *)
THEOREM CommandsAct == Spec => []CommandsActOnce
<1>1. AInv => CommandsActOnce
  BY DEF AInv, Counted, CommandsActOnce
<1> QED
  BY <1>1, AccountsAgree, PTL

(* Embers last their published number of the victim's own turns            *)
(* (scheduler.rs:145, resolve/status.rs:233).                              *)
THEOREM EmbersLast == Spec => []EmbersLastOwnTurns
<1>1. AInv => EmbersLastOwnTurns
  BY DEF AInv, Counted
<1> QED
  BY <1>1, AccountsAgree, PTL

=============================================================================
