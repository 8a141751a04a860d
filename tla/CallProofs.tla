----------------------------- MODULE CallProofs -----------------------------
(***************************************************************************)
(* What one call does, proved for every roster and every limit, with no    *)
(* regard to who calls: the lemmas that the proofs about a match           *)
(* (MatchProofs), its receipts (ReceiptProofs), a session (SessionProofs), *)
(* a handle (HandleProofs) and a client (LiveProofs) rest on.              *)
(*                                                                         *)
(* A call of the match host takes a state between calls (Good) to a state  *)
(* between calls, and what it did in the meantime is one of four things    *)
(* (Progress): the turn was kept, was handed over, the match ended, or it  *)
(* had ended before. Account adds what became of the embers and of the ids *)
(* of processed commands.                                                  *)
(*                                                                         *)
(* A request to a session has one of four outcomes: it closes the session, *)
(* it is dropped, it is answered from the ledger, or its receipt is        *)
(* recorded together with the host it left. Everything else follows from   *)
(* these four.                                                             *)
(***************************************************************************)
EXTENDS MatchSession, FiniteSetTheorems, TLAPS

(* A turn somebody can play, and a match that is over.                     *)
Open(s) ==
  /\ s.phase = "Movement"
  /\ s.active \in Living(s)
  /\ ~s.attacked
  /\ ~Decided(s)

Final(s) ==
  /\ s.phase = "MatchComplete"
  /\ Decided(s)
  /\ s.turrets \subseteq Living(s)

Grounded(s) == s.unsupported \cap Living(s) = {}

(* The states between two calls of the host.                               *)
Good(s) ==
  /\ s \in State
  /\ Grounded(s)
  /\ s.turn \in 1..HardTurnLimit
  /\ Open(s) \/ Final(s)

-----------------------------------------------------------------------------
(* Turn order (scheduler.rs:283).                                          *)

LEMMA FirstIsLeast ==
  ASSUME NEW S \in SUBSET Player, S # {}
  PROVE  First(S) \in S /\ \A q \in S : First(S) <= q
BY OrderAssumption DEF First

(* r comes up between p and q on the way round the table.                  *)
Between(p, r, q) ==
  IF p < q THEN p < r /\ r < q ELSE p < r \/ r < q

(* The next player lives, and nobody living is passed over.                *)
LEMMA NextFollows ==
  ASSUME NEW s \in State, Living(s) # {}
  PROVE  /\ NextActivePlayer(s) \in Living(s)
         /\ \A r \in Living(s) : ~Between(s.active, r, NextActivePlayer(s))
<1> DEFINE after == {p \in Living(s) : p > s.active}
<1>1. /\ Living(s) \in SUBSET Player
      /\ \A p \in Living(s) : p \in Nat
      /\ s.active \in Nat
  BY RosterAssumption DEF Living, State
<1>2. CASE after # {}
  <2>1. NextActivePlayer(s) = First(after)
    BY <1>2 DEF NextActivePlayer
  <2>2. /\ First(after) \in after
        /\ \A q \in after : First(after) <= q
    BY <1>1, <1>2, FirstIsLeast
  <2>3. /\ NextActivePlayer(s) \in Living(s)
        /\ NextActivePlayer(s) > s.active
        /\ \A q \in Living(s) : q > s.active => NextActivePlayer(s) <= q
    BY <2>1, <2>2
  <2> QED
    BY <1>1, <2>3 DEF Between
<1>3. CASE after = {}
  <2>1. NextActivePlayer(s) = First(Living(s))
    BY <1>3 DEF NextActivePlayer
  <2>2. /\ NextActivePlayer(s) \in Living(s)
        /\ \A q \in Living(s) : NextActivePlayer(s) <= q
    BY <1>1, <2>1, FirstIsLeast
  <2>3. \A q \in Living(s) : ~(q > s.active)
    BY <1>3
  <2> QED
    BY <1>1, <2>2, <2>3 DEF Between
<1> QED
  BY <1>2, <1>3

-----------------------------------------------------------------------------
(* Falling (movement.rs:318).                                              *)

SameTurn(s, t) ==
  /\ t.phase = s.phase
  /\ t.active = s.active
  /\ t.turn = s.turn
  /\ t.moves = s.moves
  /\ t.attacked = s.attacked
  /\ t.pending = s.pending
  /\ t.last = s.last
  /\ t.turrets = s.turrets

(* settle() leaves nobody in the air, revives nobody, and kills only those *)
(* who were falling.                                                       *)
LEMMA SettleGrounds ==
  ASSUME NEW s \in State, NEW pit
  PROVE  /\ Settle(s, pit) \in State
         /\ SameTurn(s, Settle(s, pit))
         /\ Grounded(Settle(s, pit))
         /\ Living(Settle(s, pit)) = Living(s) \ (s.unsupported \cap pit)
<1> DEFINE fallen == (s.unsupported \cap Living(s)) \cap pit
<1>0. /\ Settle(s, pit).health
           = [p \in Player |-> IF p \in fallen THEN 0 ELSE s.health[p]]
      /\ Settle(s, pit).unsupported = s.unsupported \ (s.unsupported \cap Living(s))
  BY DEF State, Settle
<1>1. Settle(s, pit) \in State
  <2>1. [p \in Player |-> IF p \in fallen THEN 0 ELSE s.health[p]]
          \in [Player -> 0..MaxHealth]
    BY BoundAssumption DEF State
  <2> QED
    BY <2>1 DEF State, Settle
<1>2. SameTurn(s, Settle(s, pit))
  BY DEF State, Settle, SameTurn
<1>3. Settle(s, pit).unsupported = s.unsupported \ Living(s)
  BY <1>0
<1>4. Living(Settle(s, pit)) = Living(s) \ (s.unsupported \cap pit)
  <2>1. \A p \in Player :
          Settle(s, pit).health[p] = IF p \in fallen THEN 0 ELSE s.health[p]
    BY <1>0
  <2> QED
    BY <2>1 DEF Living
<1> QED
  BY <1>1, <1>2, <1>3, <1>4 DEF Grounded

-----------------------------------------------------------------------------
(* Elimination and victory (victory.rs:94, victory.rs:156).                *)

LEMMA CheckCleansUp ==
  ASSUME NEW s \in State
  PROVE  /\ CheckAndFinalize(s) \in State
         /\ Living(CheckAndFinalize(s)) = Living(s)
         /\ CheckAndFinalize(s).turrets \subseteq Living(s)
         /\ CheckAndFinalize(s).unsupported = s.unsupported
         /\ CheckAndFinalize(s).active = s.active
         /\ CheckAndFinalize(s).turn = s.turn
         /\ CheckAndFinalize(s).moves = s.moves
         /\ CheckAndFinalize(s).pending = s.pending
         /\ CheckAndFinalize(s).phase =
              IF Decided(s) THEN "MatchComplete" ELSE s.phase
<1> DEFINE cleaned == [s EXCEPT !.turrets = @ \cap Living(s)]
<1>0. /\ cleaned \in State
      /\ cleaned.health = s.health /\ cleaned.turrets = s.turrets \cap Living(s)
      /\ cleaned.unsupported = s.unsupported /\ cleaned.active = s.active
      /\ cleaned.turn = s.turn /\ cleaned.moves = s.moves
      /\ cleaned.pending = s.pending /\ cleaned.phase = s.phase
  BY DEF State
<1>1. Living(cleaned) = Living(s) /\ (Decided(cleaned) <=> Decided(s))
  BY <1>0 DEF Living, Decided
<1>2. CheckAndFinalize(s) =
        IF Decided(s) THEN [cleaned EXCEPT !.phase = "MatchComplete"]
                      ELSE cleaned
  BY <1>1 DEF CheckAndFinalize
<1> HIDE DEF cleaned
<1>3. /\ CheckAndFinalize(s) \in State
      /\ CheckAndFinalize(s).health = s.health
      /\ CheckAndFinalize(s).turrets = s.turrets \cap Living(s)
      /\ CheckAndFinalize(s).unsupported = s.unsupported
      /\ CheckAndFinalize(s).active = s.active
      /\ CheckAndFinalize(s).turn = s.turn
      /\ CheckAndFinalize(s).moves = s.moves
      /\ CheckAndFinalize(s).pending = s.pending
      /\ CheckAndFinalize(s).phase =
           IF Decided(s) THEN "MatchComplete" ELSE s.phase
  <2>1. CASE Decided(s)
    <3> DEFINE over == [cleaned EXCEPT !.phase = "MatchComplete"]
    <3>1. over \in State
      BY <1>0 DEF State, Phase
    <3>2. /\ over.health = cleaned.health /\ over.turrets = cleaned.turrets
          /\ over.unsupported = cleaned.unsupported /\ over.active = cleaned.active
          /\ over.turn = cleaned.turn /\ over.moves = cleaned.moves
          /\ over.pending = cleaned.pending /\ over.phase = "MatchComplete"
      BY <1>0 DEF State
    <3>3. CheckAndFinalize(s) = over
      BY <1>2, <2>1
    <3> HIDE DEF over
    <3> QED
      BY <1>0, <2>1, <3>1, <3>2, <3>3
  <2>2. CASE ~Decided(s)
    BY <1>0, <1>2, <2>2
  <2> QED
    BY <2>1, <2>2
<1>4. Living(CheckAndFinalize(s)) = Living(s)
  BY <1>3 DEF Living
<1> QED
  BY <1>3, <1>4

LEMMA EliminateKills ==
  ASSUME NEW s \in State, NEW gone
  PROVE  /\ Eliminate(s, gone) \in State
         /\ Living(Eliminate(s, gone)) = Living(s) \ gone
         /\ Eliminate(s, gone).unsupported = s.unsupported
         /\ Eliminate(s, gone).active = s.active
         /\ Eliminate(s, gone).turn = s.turn
         /\ Eliminate(s, gone).moves = s.moves
         /\ Eliminate(s, gone).pending = s.pending
<1>1. /\ Eliminate(s, gone).health
           = [p \in Player |-> IF p \in gone THEN 0 ELSE s.health[p]]
      /\ Eliminate(s, gone).unsupported = s.unsupported
      /\ Eliminate(s, gone).active = s.active
      /\ Eliminate(s, gone).turn = s.turn
      /\ Eliminate(s, gone).moves = s.moves
      /\ Eliminate(s, gone).pending = s.pending
  BY DEF State, Eliminate
<1>2. [p \in Player |-> IF p \in gone THEN 0 ELSE s.health[p]]
        \in [Player -> 0..MaxHealth]
  BY BoundAssumption DEF State
<1>3. Eliminate(s, gone) \in State
  BY <1>2 DEF State, Eliminate
<1>4. \A p \in Player :
        Eliminate(s, gone).health[p] = IF p \in gone THEN 0 ELSE s.health[p]
  BY <1>1
<1>5. Living(Eliminate(s, gone)) = Living(s) \ gone
  BY <1>4 DEF Living
<1> QED
  BY <1>1, <1>3, <1>5

-----------------------------------------------------------------------------
(* The end of a turn (scheduler.rs:160, match_host.rs:397).                *)

(* t opens the turn after s's.                                             *)
Handed(s, t) ==
  /\ t.turn = s.turn + 1
  /\ Living(t) \subseteq Living(s)
  /\ t.active \in Living(t)
  /\ t.active # s.active
  /\ \A r \in Living(t) : ~Between(s.active, r, t.active)
  /\ t.moves = Allowance[t.active]
  /\ t.last = t.pending
  /\ t.turrets \subseteq Living(t)
  /\ ~t.attacked
  /\ ~Decided(t)

(* t completes the match in s's turn.                                      *)
Ended(s, t) ==
  /\ Final(t)
  /\ t.turn = s.turn
  /\ t.active = s.active
  /\ t.moves <= s.moves
  /\ Living(t) \subseteq Living(s)

LEMMA EndTurnHandsOver ==
  ASSUME NEW s \in State, NEW reason \in TurnEndReason,
         ~Decided(s), s.turn < HardTurnLimit,
         s.pending = reason, s.turrets \subseteq Living(s)
  PROVE  /\ EndTurn(s, reason) \in State
         /\ Living(EndTurn(s, reason)) = Living(s)
         /\ Handed(s, EndTurn(s, reason))
         /\ EndTurn(s, reason).unsupported = s.unsupported
<1> DEFINE next == NextActivePlayer(s)
           t    == EndTurn(s, reason)
<1>1. Living(s) # {}
  BY DEF Decided
<1>2. /\ next \in Living(s)
      /\ \A r \in Living(s) : ~Between(s.active, r, next)
  BY <1>1, NextFollows
<1>3. next # s.active
  <2>1. PICK p, q \in Living(s) : Team[p] # Team[q]
    BY DEF Decided
  <2>2. PICK r \in Living(s) : r # next
    BY <2>1
  <2>3. r \in Nat /\ next \in Nat
    BY <1>2, <2>2, RosterAssumption DEF Living
  <2> QED
    BY <1>2, <2>2, <2>3 DEF Between
<1>4. next \in Player /\ Allowance[next] \in Nat
  BY <1>2, RosterAssumption DEF Living
<1>5. s.turn \in Nat /\ s.turn < MaxTurn
  BY BoundAssumption DEF State
<1>6. t = [s EXCEPT !.last     = reason,
                    !.active   = next,
                    !.moves    = Allowance[next],
                    !.attacked = FALSE,
                    !.turn     = s.turn + 1]
  BY <1>5 DEF EndTurn, State
<1> HIDE DEF next
<1>7. s.turn + 1 \in Nat /\ Allowance[next] \in Int
  BY <1>4, <1>5
<1>8. t \in State
  BY <1>4, <1>6, <1>7 DEF State
<1>9. /\ t.health = s.health
      /\ t.turn = s.turn + 1
      /\ t.active = next
      /\ t.moves = Allowance[next]
      /\ t.last = reason
      /\ t.pending = reason
      /\ t.turrets = s.turrets
      /\ ~t.attacked
      /\ t.unsupported = s.unsupported
  BY <1>6 DEF State
<1> HIDE DEF t
<1>10. Living(t) = Living(s) /\ ~Decided(t)
  BY <1>9 DEF Living, Decided
<1> QED
  BY <1>2, <1>3, <1>9, <1>10, <1>8 DEF Handed, t

(* A turn that is left either ends the match or hands the turn over, and   *)
(* at the hard limit it always ends the match.                             *)
LEMMA LeaveEndsOrHandsOver ==
  ASSUME NEW s \in State, s.turn \in 1..HardTurnLimit, s.phase = "VictoryCheck"
  PROVE  /\ LeaveVictoryCheck(s) \in State
         /\ LeaveVictoryCheck(s).turn \in 1..HardTurnLimit
         /\ LeaveVictoryCheck(s).unsupported = s.unsupported
         /\ \/ Ended(s, LeaveVictoryCheck(s))
            \/ /\ Handed(s, LeaveVictoryCheck(s))
               /\ LeaveVictoryCheck(s).phase = "TurnStart"
<1> DEFINE checked == CheckAndFinalize(s)
           empty   == Eliminate(checked, Living(checked))
           forced  == CheckAndFinalize(empty)
           outcome == IF checked.phase # "MatchComplete" /\ s.turn >= HardTurnLimit
                        THEN forced ELSE checked
           t       == LeaveVictoryCheck(s)
<1>1. /\ checked \in State
      /\ Living(checked) = Living(s)
      /\ checked.turrets \subseteq Living(s)
      /\ checked.unsupported = s.unsupported
      /\ checked.active = s.active
      /\ checked.turn = s.turn
      /\ checked.moves = s.moves
      /\ checked.pending = s.pending
      /\ checked.phase = IF Decided(s) THEN "MatchComplete" ELSE s.phase
  BY CheckCleansUp
<1>2. Decided(checked) <=> Decided(s)
  BY <1>1 DEF Decided
<1>3. /\ forced \in State
      /\ Living(forced) = {}
      /\ forced.turrets = {}
      /\ forced.unsupported = s.unsupported
      /\ forced.active = s.active
      /\ forced.turn = s.turn
      /\ forced.moves = s.moves
      /\ forced.phase = "MatchComplete"
  <2>1. /\ empty \in State
        /\ Living(empty) = {}
        /\ empty.unsupported = s.unsupported
        /\ empty.active = s.active
        /\ empty.turn = s.turn
        /\ empty.moves = s.moves
    BY <1>1, EliminateKills
  <2>2. Decided(empty)
    BY <2>1 DEF Decided
  <2> QED
    BY <2>1, <2>2, CheckCleansUp
<1> DEFINE stamped(u) == [u EXCEPT !.last = s.pending]
<1>4. ASSUME NEW u \in State, u.phase = "MatchComplete", Decided(u),
             u.turrets \subseteq Living(u), Living(u) \subseteq Living(s),
             u.unsupported = s.unsupported, u.active = s.active,
             u.turn = s.turn, u.moves = s.moves
      PROVE  /\ stamped(u) \in State
             /\ Ended(s, stamped(u))
             /\ stamped(u).turn = s.turn
             /\ stamped(u).unsupported = s.unsupported
  <2>1. /\ stamped(u) \in State
        /\ stamped(u).health = u.health
        /\ stamped(u).phase = u.phase
        /\ stamped(u).turrets = u.turrets
        /\ stamped(u).unsupported = u.unsupported
        /\ stamped(u).active = u.active
        /\ stamped(u).turn = u.turn
        /\ stamped(u).moves = u.moves
    BY DEF State
  <2>2. Living(stamped(u)) = Living(u) /\ Decided(stamped(u))
    BY <2>1, <1>4 DEF Living, Decided
  <2> QED
    <3>1. s.moves <= s.moves
      BY DEF State
    <3> QED
      BY <1>4, <2>1, <2>2, <3>1 DEF Ended, Final
<1>5. t = IF outcome.phase = "MatchComplete" THEN stamped(outcome)
          ELSE [EndTurn(outcome, s.pending) EXCEPT !.phase = "TurnStart"]
  BY DEF LeaveVictoryCheck
<1>6. CASE Decided(s)
  <2>1. outcome = checked /\ checked.phase = "MatchComplete"
    BY <1>1, <1>6
  <2>2. t = stamped(checked)
    BY <1>5, <2>1
  <2> QED
    BY <1>1, <1>2, <1>4, <1>6, <2>1, <2>2
<1>7. CASE ~Decided(s) /\ s.turn >= HardTurnLimit
  <2>1. outcome = forced /\ Decided(forced)
    BY <1>1, <1>3, <1>7 DEF Decided
  <2>2. t = stamped(forced)
    BY <1>3, <1>5, <2>1
  <2> QED
    BY <1>3, <1>4, <2>1, <2>2
<1>8. CASE ~Decided(s) /\ s.turn < HardTurnLimit
  <2> DEFINE next == EndTurn(checked, s.pending)
  <2>1. outcome = checked /\ checked.phase # "MatchComplete"
    <3>1. ~(s.turn >= HardTurnLimit)
      BY <1>8, BoundAssumption
    <3> QED
      BY <1>1, <1>8, <3>1
  <2>2. t = [next EXCEPT !.phase = "TurnStart"]
    BY <1>5, <2>1
  <2>3. /\ next \in State
        /\ Living(next) = Living(s)
        /\ Handed(checked, next)
        /\ next.unsupported = s.unsupported
    BY <1>1, <1>2, <1>8, EndTurnHandsOver DEF State
  <2> HIDE DEF next
  <2>4. /\ t \in State
        /\ t.phase = "TurnStart"
        /\ t.health = next.health
        /\ t.turn = next.turn
        /\ t.active = next.active
        /\ t.moves = next.moves
        /\ t.last = next.last
        /\ t.pending = next.pending
        /\ t.turrets = next.turrets
        /\ t.attacked = next.attacked
        /\ t.unsupported = next.unsupported
    BY <2>2, <2>3 DEF State, Phase
  <2> HIDE DEF t
  <2>5. Living(t) = Living(s) /\ (Decided(t) <=> Decided(next))
    BY <2>3, <2>4 DEF Living, Decided
  <2>6. Handed(s, t)
    BY <1>1, <2>3, <2>4, <2>5 DEF Handed
  <2>7. t.turn \in 1..HardTurnLimit
    BY <1>1, <1>8, <2>3, <2>4, BoundAssumption DEF Handed
  <2> QED
    BY <2>3, <2>4, <2>6, <2>7 DEF t
<1> QED
  BY <1>6, <1>7, <1>8, BoundAssumption

(* finish_turn() comes back with the next turn open or the match complete, *)
(* whoever died in the turn that ends, its own player included.            *)
LEMMA FinishTurnCloses ==
  ASSUME NEW s \in State, s.turn \in 1..HardTurnLimit,
         s.phase # "MatchComplete", Grounded(s),
         NEW reason \in TurnEndReason, NEW pit
  PROVE  /\ Good(FinishTurn(s, reason, pit))
         /\ Ended(s, FinishTurn(s, reason, pit)) \/ Handed(s, FinishTurn(s, reason, pit))
<1> DEFINE declared == [s EXCEPT !.pending = reason]
           ticked   == TickStatuses(declared, declared.active)
           leaving  == [ticked EXCEPT !.phase = "VictoryCheck"]
           closed   == LeaveVictoryCheck(leaving)
           settled  == Settle(closed, pit)
           t        == FinishTurn(s, reason, pit)
<1>1. /\ declared \in State
      /\ declared.health = s.health
      /\ declared.active = s.active
      /\ declared.turn = s.turn
      /\ declared.moves = s.moves
      /\ declared.unsupported = s.unsupported
  BY DEF State
<1>2. /\ leaving \in State
      /\ leaving.phase = "VictoryCheck"
      /\ leaving.health = s.health
      /\ leaving.active = s.active
      /\ leaving.turn = s.turn
      /\ leaving.moves = s.moves
      /\ leaving.unsupported = s.unsupported
  <2> DEFINE embers == [declared.embers EXCEPT ![declared.active] = IF @ > 0 THEN @ - 1 ELSE 0]
  <2>1. embers \in [Player -> Nat]
    BY <1>1 DEF State
  <2>2. ticked = [declared EXCEPT !.embers = embers]
    BY DEF TickStatuses
  <2> HIDE DEF embers, declared
  <2> QED
    BY <1>1, <2>1, <2>2 DEF State, Phase
<1>3. Living(leaving) = Living(s)
  BY <1>2 DEF Living
<1>4. /\ closed \in State
      /\ closed.turn \in 1..HardTurnLimit
      /\ closed.unsupported = s.unsupported
      /\ \/ Ended(leaving, closed)
         \/ Handed(leaving, closed) /\ closed.phase = "TurnStart"
  BY <1>2, LeaveEndsOrHandsOver
<1>5. t = IF closed.phase = "MatchComplete" THEN closed ELSE OpenTurn(settled)
  BY <1>2 DEF FinishTurn, RunCycle
<1> HIDE DEF closed, leaving, t
<1>6. Grounded(closed)
  BY <1>3, <1>4 DEF Grounded, Ended, Handed
<1>7. CASE Ended(leaving, closed)
  <2>1. t = closed
    BY <1>5, <1>7 DEF Ended, Final
  <2> QED
    BY <1>2, <1>3, <1>4, <1>6, <1>7, <2>1 DEF Ended, Good, t
<1>8. CASE Handed(leaving, closed) /\ closed.phase = "TurnStart"
  <2>1. /\ settled \in State
        /\ SameTurn(closed, settled)
        /\ Grounded(settled)
        /\ Living(settled) = Living(closed)
    <3>1. /\ settled \in State
          /\ SameTurn(closed, settled)
          /\ Grounded(settled)
          /\ Living(settled) = Living(closed) \ (closed.unsupported \cap pit)
      BY <1>4, SettleGrounds
    <3>2. Living(closed) \ (closed.unsupported \cap pit) = Living(closed)
      BY <1>6 DEF Grounded
    <3> QED
      BY <3>1, <3>2
  <2>2. t = [settled EXCEPT !.phase = "Movement"]
    BY <1>5, <1>8, <2>1 DEF SameTurn, OpenTurn
  <2> HIDE DEF settled
  <2>3. /\ t \in State
        /\ t.phase = "Movement"
        /\ t.health = settled.health
        /\ t.turn = settled.turn
        /\ t.active = settled.active
        /\ t.moves = settled.moves
        /\ t.last = settled.last
        /\ t.pending = settled.pending
        /\ t.turrets = settled.turrets
        /\ t.attacked = settled.attacked
        /\ t.unsupported = settled.unsupported
    BY <2>1, <2>2 DEF State, Phase
  <2>4. Living(t) = Living(closed) /\ Grounded(t)
    BY <2>1, <2>3 DEF Living, Grounded
  <2>5. Decided(t) <=> Decided(closed)
    BY <2>4 DEF Decided
  <2>6. Handed(s, t)
    BY <2>5, <1>2, <1>3, <1>8, <2>1, <2>3, <2>4 DEF Handed, SameTurn
  <2>7. Open(t)
    BY <2>3, <2>6 DEF Open, Handed
  <2> QED
    BY <1>4, <2>1, <2>3, <2>4, <2>6, <2>7 DEF Good, SameTurn, t
<1> QED
  BY <1>4, <1>7, <1>8

(* Most steps of the cycle change nothing but the phase.                   *)
LEMMA OnlyRelabels ==
  ASSUME NEW s \in State, NEW phase, phase \notin {"StatusResolution", "VictoryCheck"}
  PROVE  AdvancePhase([s EXCEPT !.phase = phase]) = [s EXCEPT !.phase = Relabel[phase]]
<1> DEFINE u == [s EXCEPT !.phase = phase]
<1>1. u.phase = phase /\ \A next : [u EXCEPT !.phase = next] = [s EXCEPT !.phase = next]
  BY DEF State
<1> HIDE DEF u
<1>2. AdvancePhase(u) = [u EXCEPT !.phase = Relabel[phase]]
  BY <1>1 DEF AdvancePhase
<1> QED
  BY <1>1, <1>2 DEF u

(* The loop of finish_turn calls advance_phase until it answers TurnStart  *)
(* or MatchComplete. From an open turn that takes seven calls, never fewer *)
(* and never a second lap, and computes RunCycle: statuses tick once and   *)
(* the victory check is not skipped (match_host.rs:409).                   *)
THEOREM LoopIsRunCycle ==
  ASSUME NEW s \in State, s.phase = "Movement",
         NEW run, run[0] = s, \A i \in 0..6 : run[i + 1] = AdvancePhase(run[i])
  PROVE  /\ \A i \in 1..6 : run[i].phase \notin {"TurnStart", "MatchComplete"}
         /\ run[7].phase \in {"TurnStart", "MatchComplete"}
         /\ run[7] = RunCycle(s)
<1> DEFINE at(phase) == [s EXCEPT !.phase = phase]
           leaving   == [TickStatuses(s, s.active) EXCEPT !.phase = "VictoryCheck"]
<1>1. run[1] = at("AimingAndSelection")
  BY DEF AdvancePhase, Relabel
<1>2. run[2] = at("CommandLocked")
  <2>1. run[1 + 1] = AdvancePhase(run[1])
    OBVIOUS
  <2> QED
    BY <1>1, <2>1, OnlyRelabels DEF Relabel
<1>3. run[3] = at("Resolution")
  <2>1. run[2 + 1] = AdvancePhase(run[2])
    OBVIOUS
  <2> QED
    BY <1>2, <2>1, OnlyRelabels DEF Relabel
<1>4. run[4] = at("Settling")
  <2>1. run[3 + 1] = AdvancePhase(run[3])
    OBVIOUS
  <2> QED
    BY <1>3, <2>1, OnlyRelabels DEF Relabel
<1>5. run[5] = at("StatusResolution")
  <2>1. run[4 + 1] = AdvancePhase(run[4])
    OBVIOUS
  <2> QED
    BY <1>4, <2>1, OnlyRelabels DEF Relabel
<1>6. run[6] = leaving
  <2>1. run[5 + 1] = AdvancePhase(run[5])
    OBVIOUS
  <2>2. /\ run[5].phase = "StatusResolution"
        /\ run[5].active = s.active
    BY <1>5 DEF State
  <2>3. run[6] = [TickStatuses(run[5], s.active) EXCEPT !.phase = "VictoryCheck"]
    BY <2>1, <2>2 DEF AdvancePhase
  <2> QED
    <3> DEFINE u == run[5]
    <3>1. /\ u.phase = "StatusResolution" /\ u.embers = s.embers
          /\ u = [s EXCEPT !.phase = "StatusResolution"]
      BY <1>5 DEF State
    <3> HIDE DEF u
    <3>2. run[6] = [u EXCEPT !.embers = [s.embers EXCEPT ![s.active] = IF @ > 0 THEN @ - 1 ELSE 0],
                           !.phase = "VictoryCheck"]
      BY <2>3, <3>1 DEF TickStatuses, State, u
    <3> QED
      BY <3>1, <3>2 DEF TickStatuses, State
<1>7. leaving.phase = "VictoryCheck"
  BY DEF TickStatuses, State
<1> HIDE DEF leaving
<1>8. \A i \in 1..6 : run[i].phase \notin {"TurnStart", "MatchComplete"}
  <2>1. \A phase : at(phase).phase = phase
    BY DEF State
  <2> QED
    BY <1>1, <1>2, <1>3, <1>4, <1>5, <1>6, <1>7, <2>1
<1>9. run[7] = LeaveVictoryCheck(leaving)
  <2>1. run[6 + 1] = AdvancePhase(run[6])
    OBVIOUS
  <2> QED
    BY <1>6, <1>7, <2>1 DEF AdvancePhase
<1>10. LeaveVictoryCheck(leaving).phase \in {"TurnStart", "MatchComplete"}
  <2>1. leaving \in State
    <3> DEFINE embers == [s.embers EXCEPT ![s.active] = IF @ > 0 THEN @ - 1 ELSE 0]
    <3>1. embers \in [Player -> Nat]
      BY DEF State
    <3>2. leaving = [s EXCEPT !.embers = embers, !.phase = "VictoryCheck"]
      BY DEF leaving, TickStatuses
    <3> HIDE DEF embers
    <3> QED
      BY <3>1, <3>2 DEF State, Phase
  <2>2. \A t : [EndTurn(t, leaving.pending) EXCEPT !.phase = "TurnStart"].phase = "TurnStart"
    BY DEF EndTurn
  <2> QED
    BY <2>1, <2>2 DEF LeaveVictoryCheck, State
<1> QED
  BY <1>7, <1>8, <1>9, <1>10 DEF RunCycle, leaving

-----------------------------------------------------------------------------
(* What a call of the host may do to a match.                              *)

Kept(s, t) ==
  /\ Open(t)
  /\ t.turn = s.turn
  /\ t.active = s.active
  /\ t.moves <= s.moves
  /\ Living(t) \subseteq Living(s)

Progress(s, t) ==
  \/ Open(s) /\ (Kept(s, t) \/ Handed(s, t) \/ Ended(s, t))
  \/ Final(s) /\ t = [s EXCEPT !.pending = t.pending]

(* The end of a turn in the state u, which the same call reached from s.   *)
LEMMA FinishAfter ==
  ASSUME NEW s \in State, Good(s), Open(s),
         NEW u \in State, Grounded(u), u.phase = "Movement",
         u.turn = s.turn, u.active = s.active, u.moves <= s.moves,
         Living(u) \subseteq Living(s),
         NEW reason \in TurnEndReason, NEW pit
  PROVE  /\ Good(FinishTurn(u, reason, pit))
         /\ Progress(s, FinishTurn(u, reason, pit))
<1> DEFINE t == FinishTurn(u, reason, pit)
<1>1. Good(t) /\ (Ended(u, t) \/ Handed(u, t))
  BY FinishTurnCloses DEF Good
<1> HIDE DEF t
<1>2. CASE Ended(u, t)
  <2>1. t.moves \in Int /\ u.moves \in Int /\ s.moves \in Int
    BY <1>1 DEF Good, State
  <2>2. Ended(s, t)
    BY <1>2, <2>1 DEF Ended
  <2> QED
    BY <1>1, <2>2 DEF Progress, t
<1>3. CASE Handed(u, t)
  <2>1. Handed(s, t)
    BY <1>3 DEF Handed
  <2> QED
    BY <1>1, <2>1 DEF Progress, t
<1> QED
  BY <1>1, <1>2, <1>3

(* The settling half of a move or a hop: w is the state right after the    *)
(* active player changed its position.                                     *)
LEMMA MoverSettles ==
  ASSUME NEW s \in State, Good(s), Open(s), NEW w \in State,
         w.phase = s.phase, w.active = s.active, w.turn = s.turn,
         w.attacked = s.attacked, w.health = s.health, w.moves <= s.moves,
         w.unsupported \subseteq s.unsupported \cup {s.active}, NEW pit
  PROVE  /\ Good(AfterMoving(w, s.active, pit))
         /\ Progress(s, AfterMoving(w, s.active, pit))
<1> DEFINE u == Settle(w, pit)
           t == AfterMoving(w, s.active, pit)
<1>1. /\ u \in State
      /\ SameTurn(w, u)
      /\ Grounded(u)
      /\ Living(u) = Living(w) \ (w.unsupported \cap pit)
  BY SettleGrounds
<1>2. Living(w) = Living(s)
  BY DEF Living
<1>3. Living(u) \subseteq Living(s)
  BY <1>1, <1>2
<1>4. t = IF s.active \notin Living(u) /\ u.active = s.active
            THEN FinishTurn(u, "Eliminated", pit) ELSE u
  BY DEF AfterMoving
<1> HIDE DEF u, t
<1>5. CASE s.active \notin Living(u)
  <2>1. t = FinishTurn(u, "Eliminated", pit)
    BY <1>1, <1>4, <1>5 DEF SameTurn
  <2>2. "Eliminated" \in TurnEndReason /\ u.phase = "Movement"
    BY <1>1 DEF TurnEndReason, SameTurn, Open
  <2> QED
    BY <1>1, <1>3, <2>1, <2>2, FinishAfter DEF SameTurn, t
<1>6. CASE s.active \in Living(u)
  <2>1. t = u
    BY <1>4, <1>6
  <2>2. Living(u) = Living(s)
    BY <1>1, <1>2, <1>6 DEF Good, Grounded
  <2>3. Decided(u) <=> Decided(s)
    BY <2>2 DEF Decided
  <2>4. Open(u) /\ Kept(s, u)
    BY <1>1, <1>3, <1>6, <2>3 DEF Open, Kept, SameTurn
  <2>5. Good(u)
    BY <1>1, <2>4 DEF Good, SameTurn
  <2> QED
    BY <2>1, <2>4, <2>5 DEF Progress, t
<1> QED
  BY <1>5, <1>6

-----------------------------------------------------------------------------
(* Every public call keeps the invariant and makes progress.               *)

LEMMA NothingHappens ==
  ASSUME NEW s \in State, Good(s)
  PROVE  Progress(s, s)
<1>1. s.moves <= s.moves
  BY DEF State
<1>2. s = [s EXCEPT !.pending = s.pending]
  BY DEF State
<1> QED
  BY <1>1, <1>2 DEF Good, Progress, Kept

LEMMA MoveIsGood ==
  ASSUME NEW s \in State, Good(s), NEW p \in Player,
         NEW travelled \in 0..WalkBudget(s), NEW off \in BOOLEAN, NEW pit
  PROVE  /\ Good(SubmitMove(s, p, travelled, off, pit))
         /\ Progress(s, SubmitMove(s, p, travelled, off, pit))
<1>1. CASE ~MayMove(s, p)
  BY <1>1, NothingHappens DEF SubmitMove
<1>2. CASE MayMove(s, p)
  <2> DEFINE w == Walk(s, p, travelled, off)
  <2>1. Open(s) /\ p = s.active
    BY <1>2 DEF MayMove, AcceptsAbility, Good, Final
  <2>2. travelled \in Nat
    BY DEF WalkBudget, State
  <2>3. s.moves - travelled \in Int /\ s.moves - travelled <= s.moves
    BY <2>2 DEF State
  <2>4. /\ w \in State
        /\ w.phase = s.phase
        /\ w.active = s.active
        /\ w.turn = s.turn
        /\ w.attacked = s.attacked
        /\ w.health = s.health
        /\ w.moves <= s.moves
        /\ w.unsupported \subseteq s.unsupported \cup {s.active}
    BY <2>1, <2>3 DEF State, Walk
  <2>5. SubmitMove(s, p, travelled, off, pit) = AfterMoving(w, s.active, pit)
    BY <1>2, <2>1 DEF SubmitMove
  <2> QED
    BY <2>1, <2>4, <2>5, MoverSettles
<1> QED
  BY <1>1, <1>2

LEMMA JumpIsGood ==
  ASSUME NEW s \in State, Good(s), NEW p \in Player, NEW rises \in BOOLEAN
  PROVE  /\ Good(SubmitJump(s, p, rises))
         /\ Progress(s, SubmitJump(s, p, rises))
<1>1. CASE ~MayMove(s, p)
  BY <1>1, NothingHappens DEF SubmitJump
<1>2. CASE MayMove(s, p)
  <2> DEFINE w == Jump(s, p, rises)
  <2>1. Open(s) /\ p = s.active
    BY <1>2 DEF MayMove, AcceptsAbility, Good, Final
  <2>2. s.moves - 1 \in Int /\ s.moves - 1 <= s.moves /\ s.moves <= s.moves
    BY DEF State
  <2>3. /\ w \in State
        /\ w.phase = s.phase
        /\ w.active = s.active
        /\ w.turn = s.turn
        /\ w.attacked = s.attacked
        /\ w.health = s.health
        /\ w.moves <= s.moves
        /\ w.unsupported \subseteq s.unsupported \cup {s.active}
    BY <2>1, <2>2 DEF State, Jump
  <2>4. SubmitJump(s, p, rises) = AfterMoving(w, s.active, {})
    BY <1>2, <2>1 DEF SubmitJump
  <2> QED
    BY <2>1, <2>3, <2>4, MoverSettles
<1> QED
  BY <1>1, <1>2

(* What is left of a Final state when it is declared over once more.       *)
LEMMA DeclaringAgain ==
  ASSUME NEW s \in State, Good(s), Final(s), NEW reason \in TurnEndReason, NEW pit
  PROVE  /\ Good(FinishTurn(s, reason, pit))
         /\ Progress(s, FinishTurn(s, reason, pit))
<1> DEFINE t == [s EXCEPT !.pending = reason]
<1>1. FinishTurn(s, reason, pit) = t
  BY DEF FinishTurn, Final
<1>2. /\ t \in State
      /\ t.phase = s.phase
      /\ t.turn = s.turn
      /\ t.health = s.health
      /\ t.turrets = s.turrets
      /\ t.unsupported = s.unsupported
      /\ t = [s EXCEPT !.pending = t.pending]
  BY DEF State
<1> HIDE DEF t
<1>3. Living(t) = Living(s) /\ (Decided(t) <=> Decided(s))
  BY <1>2 DEF Living, Decided
<1> QED
  BY <1>1, <1>2, <1>3 DEF Good, Grounded, Final, Progress

LEMMA EndingIsGood ==
  ASSUME NEW s \in State, Good(s), NEW reason \in TurnEndReason, NEW pit
  PROVE  /\ Good(FinishTurn(s, reason, pit))
         /\ Progress(s, FinishTurn(s, reason, pit))
<1>1. CASE Open(s)
  <2>1. s.moves <= s.moves
    BY DEF State
  <2> QED
    BY <1>1, <2>1, FinishAfter DEF Good, Open
<1>2. CASE Final(s)
  BY <1>2, DeclaringAgain
<1> QED
  BY <1>1, <1>2 DEF Good

LEMMA ResolveTyped ==
  ASSUME NEW s \in State, NEW c, Valid(s, c), c.id \in CommandId, c.slot \in Slot,
         NEW fx \in Effects(s, c)
  PROVE  /\ Resolve(s, c, fx) \in State
         /\ Resolve(s, c, fx).health = fx.health
         /\ Resolve(s, c, fx).attacked = (s.attacked \/ c.slot # "Trinket")
         /\ Resolve(s, c, fx).phase = s.phase
         /\ Resolve(s, c, fx).active = s.active
         /\ Resolve(s, c, fx).turn = s.turn
         /\ Resolve(s, c, fx).moves = s.moves
<1> DEFINE burning == [p \in Player |->
                         IF p \in fx.burnt THEN fx.burn ELSE s.embers[p]]
           charged == [s.charge EXCEPT ![c.player] = AwardGauge(@, c, fx)]
           attacked == s.attacked \/ c.slot # "Trinket"
           falling  == s.unsupported \cup fx.lost
           turrets  == IF fx.turret THEN s.turrets \cup {c.player} ELSE s.turrets
           answered == s.processed \cup {c.id}
<1>1. /\ c.player \in Player
      /\ c.slot \in Slot
  BY DEF Valid, Living, Slot
<1>2. /\ fx.health \in [Player -> 0..MaxHealth]
      /\ fx.lost \in SUBSET Player
      /\ fx.burn \in EmberTurns \cup {0}
      /\ fx.dealt \in BOOLEAN
  BY DEF Effects, Living
<1>3. burning \in [Player -> Nat]
  <2>1. fx.burn \in Nat
    <3>1. CASE fx.burn \in EmberTurns
      BY <3>1, CommandAssumption, Zenon
    <3>2. CASE fx.burn = 0
      BY <3>2
    <3> QED
      BY <1>2, <3>1, <3>2, Zenon
  <2>2. s.embers \in [Player -> Nat]
    BY DEF State
  <2> QED
    BY <2>1, <2>2
<1>4. charged \in [Player -> 0..ChargeFull]
  <2>1. \A g \in 0..ChargeFull : AwardGauge(g, c, fx) \in 0..ChargeFull
    <3> SUFFICES ASSUME NEW g \in 0..ChargeFull
                 PROVE  AwardGauge(g, c, fx) \in 0..ChargeFull
      OBVIOUS
    <3>1. \/ AwardGauge(g, c, fx) \in {0, g}
          \/ g < ChargeFull /\ AwardGauge(g, c, fx) = g + 1
      BY Zenon DEF AwardGauge
    <3> QED
      BY <3>1, BoundAssumption
  <2> QED
    BY <1>1, <2>1 DEF State
<1>5. Resolve(s, c, fx) =
        [s EXCEPT !.charge = charged, !.attacked = attacked, !.health = fx.health,
                  !.unsupported = falling, !.embers = burning, !.turrets = turrets,
                  !.processed = answered]
  BY DEF Resolve, State
<1>6. /\ attacked \in BOOLEAN /\ falling \in SUBSET Player
      /\ turrets \in SUBSET Player /\ answered \in SUBSET CommandId
  BY <1>1, <1>2 DEF State
<1> HIDE DEF burning, charged, falling, turrets, answered
<1>7. Resolve(s, c, fx) =
        [phase |-> s.phase, active |-> s.active, turn |-> s.turn, moves |-> s.moves,
         attacked |-> attacked, pending |-> s.pending, last |-> s.last,
         health |-> fx.health, charge |-> charged, embers |-> burning,
         turrets |-> turrets, unsupported |-> falling, processed |-> answered]
  <2> HIDE DEF attacked
  <2> QED
    <3>1. s = [phase |-> s.phase, active |-> s.active, turn |-> s.turn,
               moves |-> s.moves, attacked |-> s.attacked, pending |-> s.pending,
               last |-> s.last, health |-> s.health, charge |-> s.charge,
               embers |-> s.embers, turrets |-> s.turrets,
               unsupported |-> s.unsupported, processed |-> s.processed]
      BY DEF State
    <3> QED
      BY <1>5, <3>1
<1>8. /\ s.phase \in Phase /\ s.active \in Player /\ s.turn \in Nat /\ s.moves \in Int
      /\ s.pending \in TurnEndReason /\ s.last \in TurnEndReason
  BY DEF State
<1>9. Resolve(s, c, fx) \in State
  <2> HIDE DEF attacked
  <2> QED
    BY <1>2, <1>3, <1>4, <1>6, <1>7, <1>8 DEF State
<1> QED
  BY <1>7, <1>9

LEMMA AbilityIsGood ==
  ASSUME NEW s \in State, Good(s), NEW c, Valid(s, c),
         c.id \in CommandId, c.slot \in Slot, NEW fx \in Effects(s, c), NEW pit
  PROVE  /\ Good(SubmitAbility(s, c, fx, pit))
         /\ Progress(s, SubmitAbility(s, c, fx, pit))
<1> DEFINE r == Resolve(s, c, fx)
           u == Settle(r, pit)
           t == SubmitAbility(s, c, fx, pit)
<1>1. /\ r \in State
      /\ r.health = fx.health
      /\ r.attacked = (s.attacked \/ c.slot # "Trinket")
      /\ r.phase = s.phase
      /\ r.active = s.active
      /\ r.turn = s.turn
      /\ r.moves = s.moves
  BY ResolveTyped
<1>2. Open(s) /\ c.player = s.active
  BY DEF Valid, AcceptsAbility, Good, Final
<1>3. Living(r) \subseteq Living(s)
  <2>1. \A p \in Player : /\ fx.health[p] <= s.health[p]
                          /\ fx.health[p] \in Nat
                          /\ s.health[p] \in Nat
    <3>1. \A p \in Player : fx.health[p] <= s.health[p]
      BY DEF Effects
    <3>2. /\ fx.health \in [Player -> 0..MaxHealth]
          /\ s.health \in [Player -> 0..MaxHealth]
      BY DEF Effects, State
    <3> TAKE p \in Player
    <3>3. fx.health[p] \in 0..MaxHealth /\ s.health[p] \in 0..MaxHealth
      BY <3>2
    <3> QED
      BY <3>1, <3>3, BoundAssumption
  <2> QED
    BY <1>1, <2>1 DEF Living
<1>4. /\ u \in State
      /\ SameTurn(r, u)
      /\ Grounded(u)
      /\ Living(u) \subseteq Living(s)
  <2>1. Living(u) = Living(r) \ (r.unsupported \cap pit)
    BY <1>1, SettleGrounds
  <2> QED
    BY <1>1, <1>3, <2>1, SettleGrounds
<1>5. t = IF \/ c.slot # "Trinket"
             \/ c.player \notin Living(u)
             \/ Decided(u)
            THEN FinishTurn(u, "Attacked", pit) ELSE u
  BY DEF SubmitAbility
<1>6. /\ u.phase = "Movement"
      /\ u.active = s.active
      /\ u.turn = s.turn
      /\ u.moves <= s.moves
  <2>1. s.moves <= s.moves
    BY DEF State
  <2> QED
    BY <1>1, <1>2, <1>4, <2>1 DEF SameTurn, Open
<1> HIDE DEF u, t
<1>7. CASE t = FinishTurn(u, "Attacked", pit)
  <2>1. "Attacked" \in TurnEndReason
    BY DEF TurnEndReason
  <2> QED
    BY <1>2, <1>4, <1>6, <1>7, <2>1, FinishAfter DEF t
<1>8. CASE /\ t = u
           /\ c.slot = "Trinket"
           /\ c.player \in Living(u)
           /\ ~Decided(u)
  <2>1. ~u.attacked
    BY <1>1, <1>2, <1>4, <1>8 DEF SameTurn, Open
  <2>2. Open(u) /\ Kept(s, u)
    BY <1>2, <1>4, <1>6, <1>8, <2>1 DEF Open, Kept
  <2>3. Good(u)
    BY <1>4, <1>6, <2>2 DEF Good
  <2> QED
    BY <1>2, <1>8, <2>2, <2>3 DEF Progress, t
<1> QED
  BY <1>5, <1>7, <1>8

-----------------------------------------------------------------------------

(* The state begin_match opens.                                            *)
LEMMA StartIsGood ==
  /\ Good(Start(InitialState))
  /\ Open(Start(InitialState))
  /\ Living(Start(InitialState)) = Player
  /\ Start(InitialState).active = First(Player)
  /\ Start(InitialState).turn = 1
<1> DEFINE opener == First(Player)
           i == InitialState
           b == BeginMatch(i)
           u == Settle(b, {})
           t == Start(i)
<1>1. /\ opener \in Player
      /\ Allowance[opener] \in Int
  <2>1. Player # {} /\ Player \in SUBSET Player
    BY RosterAssumption
  <2>2. opener \in Player
    BY <2>1, FirstIsLeast
  <2> HIDE DEF opener
  <2>3. Allowance[opener] \in Nat
    BY <2>2, RosterAssumption
  <2> QED
    BY <2>2, <2>3
<1>2. i \in State /\ i.health = [p \in Player |-> MaxHealth]
  <2>1. /\ [p \in Player |-> MaxHealth] \in [Player -> 0..MaxHealth]
        /\ [p \in Player |-> 0] \in [Player -> 0..ChargeFull]
        /\ [p \in Player |-> 0] \in [Player -> Nat]
    BY BoundAssumption
  <2> QED
    BY <1>1, <2>1 DEF InitialState, State, Phase, TurnEndReason
<1>3. Living(i) = Player
  BY <1>2, BoundAssumption DEF Living
<1>4. /\ b \in State
      /\ b.phase = "TurnStart"
      /\ b.active = opener
      /\ b.turn = 1
      /\ ~b.attacked
      /\ b.health = i.health
  <2>1. b = [i EXCEPT !.active = opener, !.moves = Allowance[opener], !.attacked = FALSE,
                      !.turn = 1, !.phase = "TurnStart"]
    BY <1>3 DEF BeginMatch
  <2> HIDE DEF b, i, opener
  <2> QED
    BY <1>1, <1>2, <2>1 DEF State, Phase
<1>5. Living(b) = Player
  BY <1>3, <1>4 DEF Living
<1> HIDE DEF b, i, opener
<1>6. /\ u \in State
      /\ SameTurn(b, u)
      /\ Grounded(u)
      /\ Living(u) = Player
  <2>1. Living(u) = Living(b) \ (b.unsupported \cap {})
    BY <1>4, SettleGrounds
  <2> QED
    BY <1>4, <1>5, <2>1, SettleGrounds
<1>7. t = [u EXCEPT !.phase = "Movement"]
  BY <1>4, <1>6 DEF Start, OpenTurn, SameTurn, b, i
<1> HIDE DEF u
<1>8. /\ t \in State
      /\ t.phase = "Movement"
      /\ t.active = u.active
      /\ t.turn = u.turn
      /\ t.attacked = u.attacked
      /\ t.health = u.health
      /\ t.unsupported = u.unsupported
  BY <1>6, <1>7 DEF State, Phase
<1> HIDE DEF t
<1>9. Living(t) = Player /\ Grounded(t)
  BY <1>6, <1>8 DEF Living, Grounded
<1>10. ~Decided(t)
  BY <1>9, RosterAssumption DEF Decided
<1>11. Open(t) /\ t.turn = 1 /\ t.active = opener
  BY <1>1, <1>4, <1>6, <1>8, <1>9, <1>10 DEF Open, SameTurn
<1>12. Good(t)
  BY <1>8, <1>9, <1>11, BoundAssumption DEF Good
<1> QED
  BY <1>9, <1>11, <1>12 DEF t, i, opener

LEMMA StartAccounts ==
  /\ Start(InitialState).processed = {}
  /\ \A p \in Player : Start(InitialState).embers[p] = 0
<1> DEFINE begun   == BeginMatch(InitialState)
           settled == Settle(begun, {})
<1>1. /\ begun.processed = {}
      /\ begun.embers = [p \in Player |-> 0]
  <2> DEFINE i == InitialState
  <2>1. i.processed = {} /\ i.embers = [p \in Player |-> 0]
    BY DEF InitialState
  <2>2. begun.processed = i.processed /\ begun.embers = i.embers
    <3> HIDE DEF i
    <3> QED
      BY DEF BeginMatch, i
  <2> QED
    BY <2>1, <2>2
<1>2. /\ settled.processed = begun.processed
      /\ settled.embers = begun.embers
  BY DEF Settle, BeginMatch, InitialState
<1>3. /\ OpenTurn(settled).processed = settled.processed
      /\ OpenTurn(settled).embers = settled.embers
  BY DEF OpenTurn, Settle, BeginMatch, InitialState
<1> QED
  BY <1>1, <1>2, <1>3 DEF Start

-----------------------------------------------------------------------------
(* The call left s's turn behind it, or the match.                         *)
EndsTurn(s, t) ==
  t.turn # s.turn \/ (t.phase = "MatchComplete" /\ s.phase # "MatchComplete")

Less(n) == IF n > 0 THEN n - 1 ELSE 0

(* The statuses after the turn of p has ended.                             *)
Ticked(embers, p) == [embers EXCEPT ![p] = Less(@)]

(* A call took s to t and, before it ended the turn or did not, left the   *)
(* statuses at embers and the ledger at processed.                         *)
Account(s, t, embers, processed) ==
  /\ t.processed = processed
  /\ t.embers = IF EndsTurn(s, t) THEN Ticked(embers, s.active) ELSE embers

-----------------------------------------------------------------------------
(* The end of a turn touches no ledger and ticks one player.               *)

LEMMA SettleAccounts ==
  ASSUME NEW s \in State, NEW pit
  PROVE  /\ Settle(s, pit).processed = s.processed
         /\ Settle(s, pit).embers = s.embers
BY DEF Settle, State

LEMMA CheckAccounts ==
  ASSUME NEW s \in State
  PROVE  /\ CheckAndFinalize(s).processed = s.processed
         /\ CheckAndFinalize(s).embers = s.embers
BY DEF CheckAndFinalize, State

LEMMA LeaveAccounts ==
  ASSUME NEW s \in State
  PROVE  /\ LeaveVictoryCheck(s).processed = s.processed
         /\ LeaveVictoryCheck(s).embers = s.embers
<1> DEFINE checked == CheckAndFinalize(s)
           drawn   == Eliminate(checked, Living(checked))
           forced  == CheckAndFinalize(drawn)
           outcome == IF checked.phase # "MatchComplete" /\ s.turn >= HardTurnLimit
                        THEN forced ELSE checked
           rotated == EndTurn(outcome, s.pending)
<1>1. /\ checked \in State
      /\ checked.processed = s.processed
      /\ checked.embers = s.embers
  BY CheckCleansUp, CheckAccounts
<1> HIDE DEF checked
<1>2. /\ drawn \in State
      /\ drawn.processed = checked.processed
      /\ drawn.embers = checked.embers
  <2>1. Living(checked) \subseteq Player
    BY DEF Living
  <2>2. [p \in Player |-> IF p \in Living(checked) THEN 0 ELSE checked.health[p]]
          \in [Player -> 0..MaxHealth]
    BY <1>1, BoundAssumption DEF State
  <2> QED
    BY <1>1, <2>1, <2>2 DEF Eliminate, State
<1> HIDE DEF drawn
<1>3. /\ forced \in State
      /\ forced.processed = s.processed
      /\ forced.embers = s.embers
  BY <1>1, <1>2, CheckCleansUp, CheckAccounts
<1> HIDE DEF forced
<1>4. /\ outcome \in State
      /\ outcome.processed = s.processed
      /\ outcome.embers = s.embers
  BY <1>1, <1>3
<1> HIDE DEF outcome
<1>5. LeaveVictoryCheck(s) =
        IF outcome.phase = "MatchComplete" THEN [outcome EXCEPT !.last = s.pending]
        ELSE [rotated EXCEPT !.phase = "TurnStart"]
  BY DEF LeaveVictoryCheck, outcome, forced, drawn, checked
<1>6. /\ rotated.processed = outcome.processed
      /\ rotated.embers = outcome.embers
      /\ rotated = [rotated EXCEPT !.phase = rotated.phase]
  BY <1>4 DEF EndTurn, State
<1>7. /\ [outcome EXCEPT !.last = s.pending].processed = outcome.processed
      /\ [outcome EXCEPT !.last = s.pending].embers = outcome.embers
      /\ [rotated EXCEPT !.phase = "TurnStart"].processed = rotated.processed
      /\ [rotated EXCEPT !.phase = "TurnStart"].embers = rotated.embers
  BY <1>4 DEF EndTurn, State
<1> HIDE DEF rotated
<1> QED
  BY <1>4, <1>5, <1>6, <1>7

LEMMA FinishAccounts ==
  ASSUME NEW s \in State, s.turn \in 1..HardTurnLimit,
         s.phase # "MatchComplete", Grounded(s),
         NEW reason \in TurnEndReason, NEW pit
  PROVE  Account(s, FinishTurn(s, reason, pit), s.embers, s.processed)
<1> DEFINE declared == [s EXCEPT !.pending = reason]
           ticked   == TickStatuses(declared, declared.active)
           leaving  == [ticked EXCEPT !.phase = "VictoryCheck"]
           closed   == LeaveVictoryCheck(leaving)
           settled  == Settle(closed, pit)
           t        == FinishTurn(s, reason, pit)
<1>1. /\ leaving \in State
      /\ leaving.phase = "VictoryCheck"
      /\ leaving.turn = s.turn
      /\ leaving.active = s.active
      /\ leaving.processed = s.processed
      /\ leaving.embers = Ticked(s.embers, s.active)
  <2>1. /\ declared \in State
        /\ declared.active = s.active
        /\ declared.turn = s.turn
        /\ declared.processed = s.processed
        /\ declared.embers = s.embers
    BY DEF State
  <2> HIDE DEF declared
  <2>2. Ticked(s.embers, s.active) \in [Player -> Nat]
    BY DEF State, Ticked, Less
  <2>3. ticked = [declared EXCEPT !.embers = Ticked(s.embers, s.active)]
    BY <2>1 DEF TickStatuses, Ticked, Less, State
  <2> QED
    BY <2>1, <2>2, <2>3 DEF State, Phase
<1> HIDE DEF leaving
<1>2. /\ closed \in State
      /\ closed.processed = s.processed
      /\ closed.embers = Ticked(s.embers, s.active)
  BY <1>1, LeaveAccounts, LeaveEndsOrHandsOver
<1>3. t = IF closed.phase = "MatchComplete" THEN closed ELSE OpenTurn(settled)
  BY DEF FinishTurn, RunCycle, leaving
<1> HIDE DEF closed
<1>4. /\ settled.processed = closed.processed
      /\ settled.embers = closed.embers
      /\ settled \in State
  BY <1>2, SettleAccounts, SettleGrounds
<1> HIDE DEF settled
<1>5. /\ OpenTurn(settled).processed = settled.processed
      /\ OpenTurn(settled).embers = settled.embers
  BY <1>4 DEF OpenTurn, State
<1>6. t.processed = s.processed /\ t.embers = Ticked(s.embers, s.active)
  BY <1>2, <1>3, <1>4, <1>5
<1>7. EndsTurn(s, t)
  <2>1. Ended(s, t) \/ Handed(s, t)
    BY FinishTurnCloses
  <2> QED
    BY <2>1 DEF Ended, Final, Handed, EndsTurn, State
<1> QED
  BY <1>6, <1>7 DEF Account

-----------------------------------------------------------------------------
(* The same of every call.                                                 *)

(* The end of a turn that began in s, reached in u.                        *)
LEMMA EndAccounts ==
  ASSUME NEW s \in State, s.phase # "MatchComplete",
         NEW u \in State, u.turn \in 1..HardTurnLimit, Grounded(u),
         u.phase # "MatchComplete", u.turn = s.turn, u.active = s.active,
         NEW reason \in TurnEndReason, NEW pit
  PROVE  Account(s, FinishTurn(u, reason, pit), u.embers, u.processed)
<1>1. Account(u, FinishTurn(u, reason, pit), u.embers, u.processed)
  BY FinishAccounts
<1>2. EndsTurn(s, FinishTurn(u, reason, pit)) <=> EndsTurn(u, FinishTurn(u, reason, pit))
  BY DEF EndsTurn
<1> QED
  BY <1>1, <1>2 DEF Account

LEMMA StayAccounts ==
  ASSUME NEW s \in State
  PROVE  Account(s, s, s.embers, s.processed)
BY DEF Account, EndsTurn

LEMMA MoverAccounts ==
  ASSUME NEW s \in State, Good(s), Open(s), NEW w \in State,
         w.phase = s.phase, w.active = s.active, w.turn = s.turn,
         w.embers = s.embers, w.processed = s.processed, NEW pit
  PROVE  Account(s, AfterMoving(w, s.active, pit), s.embers, s.processed)
<1> DEFINE u == Settle(w, pit)
           t == AfterMoving(w, s.active, pit)
<1>1. /\ u \in State
      /\ SameTurn(w, u)
      /\ Grounded(u)
      /\ u.embers = s.embers
      /\ u.processed = s.processed
  BY SettleGrounds, SettleAccounts
<1>2. t = IF s.active \notin Living(u) /\ u.active = s.active
            THEN FinishTurn(u, "Eliminated", pit) ELSE u
  BY DEF AfterMoving
<1> HIDE DEF u, t
<1>3. /\ u.phase = "Movement"
      /\ u.turn = s.turn
      /\ u.active = s.active
      /\ u.turn \in 1..HardTurnLimit
  BY <1>1 DEF SameTurn, Open, Good
<1>4. CASE t = FinishTurn(u, "Eliminated", pit)
  <2>1. "Eliminated" \in TurnEndReason /\ s.phase # "MatchComplete"
    BY DEF TurnEndReason, Open
  <2>2. Account(s, FinishTurn(u, "Eliminated", pit), u.embers, u.processed)
    BY <1>1, <1>3, <2>1, EndAccounts
  <2> QED
    BY <1>1, <1>4, <2>2 DEF t
<1>5. CASE t = u
  <2>1. ~EndsTurn(s, u)
    BY <1>3 DEF EndsTurn
  <2> QED
    BY <1>1, <1>5, <2>1 DEF Account, t
<1> QED
  BY <1>2, <1>4, <1>5

LEMMA MoveAccounts ==
  ASSUME NEW s \in State, Good(s), NEW p \in Player,
         NEW travelled \in 0..WalkBudget(s), NEW off \in BOOLEAN, NEW pit
  PROVE  Account(s, SubmitMove(s, p, travelled, off, pit), s.embers, s.processed)
<1>1. CASE ~MayMove(s, p)
  BY <1>1, StayAccounts DEF SubmitMove
<1>2. CASE MayMove(s, p)
  <2> DEFINE w == Walk(s, p, travelled, off)
  <2>1. Open(s) /\ p = s.active
    BY <1>2 DEF MayMove, AcceptsAbility, Good, Final
  <2>2. s.moves - travelled \in Int
    BY DEF WalkBudget, State
  <2>3. /\ w \in State
        /\ w.phase = s.phase
        /\ w.active = s.active
        /\ w.turn = s.turn
        /\ w.embers = s.embers
        /\ w.processed = s.processed
    BY <2>1, <2>2 DEF State, Walk
  <2>4. SubmitMove(s, p, travelled, off, pit) = AfterMoving(w, s.active, pit)
    BY <1>2, <2>1 DEF SubmitMove
  <2> QED
    BY <2>1, <2>3, <2>4, MoverAccounts
<1> QED
  BY <1>1, <1>2

LEMMA JumpAccounts ==
  ASSUME NEW s \in State, Good(s), NEW p \in Player, NEW rises \in BOOLEAN
  PROVE  Account(s, SubmitJump(s, p, rises), s.embers, s.processed)
<1>1. CASE ~MayMove(s, p)
  BY <1>1, StayAccounts DEF SubmitJump
<1>2. CASE MayMove(s, p)
  <2> DEFINE w == Jump(s, p, rises)
  <2>1. Open(s) /\ p = s.active
    BY <1>2 DEF MayMove, AcceptsAbility, Good, Final
  <2>2. s.moves - 1 \in Int
    BY DEF State
  <2>3. /\ w \in State
        /\ w.phase = s.phase
        /\ w.active = s.active
        /\ w.turn = s.turn
        /\ w.embers = s.embers
        /\ w.processed = s.processed
    BY <2>1, <2>2 DEF State, Jump
  <2>4. SubmitJump(s, p, rises) = AfterMoving(w, s.active, {})
    BY <1>2, <2>1 DEF SubmitJump
  <2> QED
    BY <2>1, <2>3, <2>4, MoverAccounts
<1> QED
  BY <1>1, <1>2

(* Passing and timing out, also of a match that is over.                   *)
LEMMA EndingAccounts ==
  ASSUME NEW s \in State, Good(s), NEW reason \in TurnEndReason, NEW pit
  PROVE  Account(s, FinishTurn(s, reason, pit), s.embers, s.processed)
<1>1. CASE Open(s)
  BY <1>1, FinishAccounts DEF Good, Open
<1>2. CASE Final(s)
  BY <1>2 DEF FinishTurn, Final, Account, EndsTurn, State
<1> QED
  BY <1>1, <1>2 DEF Good

Burning(s, fx) == [p \in Player |-> IF p \in fx.burnt THEN fx.burn ELSE s.embers[p]]

(* An accepted ability is entered in the ledger and burns whom it burns    *)
(* before its turn ends; unless it is a trinket, its turn ends.            *)
LEMMA AbilityAccounts ==
  ASSUME NEW s \in State, Good(s), NEW c, Valid(s, c),
         c.id \in CommandId, c.slot \in Slot, NEW fx \in Effects(s, c), NEW pit
  PROVE  /\ Account(s, SubmitAbility(s, c, fx, pit),
                    Burning(s, fx), s.processed \cup {c.id})
         /\ c.slot # "Trinket" => EndsTurn(s, SubmitAbility(s, c, fx, pit))
<1> DEFINE r == Resolve(s, c, fx)
           u == Settle(r, pit)
           t == SubmitAbility(s, c, fx, pit)
<1>1. /\ r \in State
      /\ r.phase = s.phase
      /\ r.active = s.active
      /\ r.turn = s.turn
  BY ResolveTyped
<1>2. r.processed = s.processed \cup {c.id} /\ r.embers = Burning(s, fx)
  BY DEF Resolve, Burning, State
<1> HIDE DEF r
<1>3. Open(s)
  BY DEF Valid, AcceptsAbility, Good, Final
<1>4. /\ u \in State
      /\ SameTurn(r, u)
      /\ Grounded(u)
      /\ u.embers = r.embers
      /\ u.processed = r.processed
  BY <1>1, SettleGrounds, SettleAccounts
<1>5. t = IF \/ c.slot # "Trinket"
             \/ c.player \notin Living(u)
             \/ Decided(u)
            THEN FinishTurn(u, "Attacked", pit) ELSE u
  BY DEF SubmitAbility, r
<1> HIDE DEF u, t
<1>6. /\ u.phase = "Movement"
      /\ u.turn = s.turn
      /\ u.active = s.active
      /\ u.turn \in 1..HardTurnLimit
  BY <1>1, <1>3, <1>4 DEF SameTurn, Open, Good
<1>7. CASE t = FinishTurn(u, "Attacked", pit)
  <2>1. "Attacked" \in TurnEndReason /\ s.phase # "MatchComplete"
    BY <1>3 DEF TurnEndReason, Open
  <2>2. Account(s, FinishTurn(u, "Attacked", pit), u.embers, u.processed)
    BY <1>4, <1>6, <2>1, EndAccounts
  <2>3. EndsTurn(s, t)
    <3>1. Ended(u, t) \/ Handed(u, t)
      BY <1>4, <1>6, <1>7, <2>1, FinishTurnCloses
    <3> QED
      BY <1>6, <2>1, <3>1 DEF Ended, Final, Handed, EndsTurn, State
  <2> QED
    BY <1>2, <1>4, <1>7, <2>2, <2>3 DEF t
<1>8. CASE t = u /\ c.slot = "Trinket"
  <2>1. ~EndsTurn(s, u)
    BY <1>6 DEF EndsTurn
  <2> QED
    BY <1>2, <1>4, <1>8, <2>1 DEF Account, t
<1> QED
  BY <1>5, <1>7, <1>8

-----------------------------------------------------------------------------
(* One request to a session.                                               *)

(* A record with the fields of a session, whatever they hold.              *)
Shaped(ss) ==
  ss \in [host : {ss.host}, generation : {ss.generation}, ledger : {ss.ledger},
          bytes : {ss.bytes}, closed : BOOLEAN]

(* The session with the receipt t of r on record.                          *)
Grown(ss, r, t) ==
  [host       |-> t.snapshot,
   generation |-> t.post,
   ledger     |-> WithEntry(ss.ledger, r, t),
   bytes      |-> ss.bytes + EntryBytes[t.disposition],
   closed     |-> FALSE]

(* The receipt of an accepted request: of a legal one, made from the       *)
(* present view.                                                           *)
Moved(ss, r, t) ==
  /\ r.generation = ss.generation
  /\ ~Refused(ss.host, r)
  /\ t.snapshot \in Accepts(ss.host, r)
  /\ t = Transition("Accepted", ss.generation,
           IF t.snapshot = ss.host THEN ss.generation ELSE ss.generation + 1,
           t.snapshot)

Closes(ss, o) ==
  o = [session |-> Close(ss), reply |-> [kind |-> "Fault"]]

Dropped(ss, o) ==
  o = [session |-> ss, reply |-> [kind |-> "Fault"]]

Repeats(ss, r, o) ==
  /\ ~ss.closed
  /\ r.id \in DOMAIN ss.ledger
  /\ o = Known(ss, r)

Records(ss, r, t, o) ==
  /\ ~ss.closed
  /\ r.id \notin DOMAIN ss.ledger
  /\ ~(Cardinality(DOMAIN ss.ledger) >= EntryLimit)
  /\ ~(ss.bytes + EntryBytes[t.disposition] > ByteLimit)
  /\ t = Rejection(ss) \/ Moved(ss, r, t)
  /\ o = [session |-> Grown(ss, r, t),
          reply   |-> [kind |-> "Receipt", transition |-> t]]

-----------------------------------------------------------------------------
(* The four outcomes (match_session.rs:2013).                              *)

LEMMA ReceiptRecords ==
  ASSUME NEW ss, Shaped(ss), ~ss.closed, NEW r, r.id \notin DOMAIN ss.ledger,
         ~(Cardinality(DOMAIN ss.ledger) >= EntryLimit),
         NEW t, t = Rejection(ss) \/ Moved(ss, r, t)
  PROVE  Closes(ss, Receipt(ss, r, t)) \/ Records(ss, r, t, Receipt(ss, r, t))
<1> DEFINE grown == ss.bytes + EntryBytes[t.disposition]
<1>1. CASE grown > ByteLimit
  <2>1. Record(ss, r, t) = Close(ss)
    BY <1>1 DEF Record
  <2>2. Close(ss).closed /\ Close(Close(ss)) = Close(ss)
    BY DEF Close, Shaped
  <2> QED
    BY <2>1, <2>2 DEF Receipt, Fault, Closes
<1>2. CASE ~(grown > ByteLimit)
  <2>1. Record(ss, r, t) = Grown(ss, r, t)
    BY <1>2 DEF Record, Grown, Shaped
  <2>2. ~Grown(ss, r, t).closed
    BY DEF Grown
  <2> QED
    BY <1>2, <2>1, <2>2 DEF Receipt, Records
<1> QED
  BY <1>1, <1>2

LEMMA OutcomeKinds ==
  ASSUME NEW ss, Shaped(ss), NEW r, NEW o \in Outcomes(ss, r)
  PROVE  \/ Closes(ss, o)
         \/ Dropped(ss, o)
         \/ Repeats(ss, r, o)
         \/ \E t : Records(ss, r, t, o)
<1>1. CASE ss.closed
  BY <1>1 DEF Outcomes, Fault, Closes
<1>2. CASE ~ss.closed /\ r.id \in DOMAIN ss.ledger
  BY <1>2 DEF Outcomes, Repeats
<1>3. CASE /\ ~ss.closed /\ r.id \notin DOMAIN ss.ledger
           /\ Cardinality(DOMAIN ss.ledger) >= EntryLimit
  BY <1>3 DEF Outcomes, Fault, Closes
<1>4. CASE /\ ~ss.closed /\ r.id \notin DOMAIN ss.ledger
           /\ ~(Cardinality(DOMAIN ss.ledger) >= EntryLimit)
  <2>1. o \in Execute(ss, r)
    BY <1>4 DEF Outcomes
  <2>2. CASE o = Receipt(ss, r, Rejection(ss))
    BY <1>4, <2>2, ReceiptRecords
  <2>3. CASE o = SimulationFault(ss)
    BY <2>3 DEF SimulationFault, Dropped
  <2>4. ASSUME r.generation = ss.generation, ~Refused(ss.host, r),
               NEW h \in Accepts(ss.host, r), o = Publish(ss, r, h)
        PROVE  Closes(ss, o) \/ \E t : Records(ss, r, t, o)
    <3> DEFINE post == IF h = ss.host THEN ss.generation ELSE ss.generation + 1
               t == Transition("Accepted", ss.generation, post, h)
    <3>1. CASE o = Fault(ss)
      BY <3>1 DEF Fault, Closes
    <3>2. CASE o = Receipt(ss, r, t)
      <4>1. t.snapshot = h
        BY DEF Transition
      <4>2. Moved(ss, r, t)
        BY <2>4, <4>1 DEF Moved
      <4> HIDE DEF t
      <4> QED
        BY <1>4, <3>2, <4>2, ReceiptRecords
    <3> QED
      BY <2>4, <3>1, <3>2 DEF Publish
  <2> QED
    BY <2>1, <2>2, <2>3, <2>4 DEF Execute
<1> QED
  BY <1>1, <1>2, <1>3, <1>4

(* A receipt is on record with what it answers.                            *)
LEMMA ReceiptIsOnRecord ==
  ASSUME NEW ss, Shaped(ss), NEW r, NEW o \in Outcomes(ss, r),
         o.reply.kind = "Receipt"
  PROVE  \E t : Records(ss, r, t, o) /\ o.reply.transition = t
<1>1. Known(ss, r).reply.kind # "Receipt"
  BY DEF Known
<1>2. ~Closes(ss, o) /\ ~Dropped(ss, o) /\ ~Repeats(ss, r, o)
  BY <1>1 DEF Closes, Dropped, Repeats
<1>3. PICK t : Records(ss, r, t, o)
  BY <1>2, OutcomeKinds
<1>4. o.reply.transition = t
  BY <1>3 DEF Records
<1> QED
  BY <1>3, <1>4

(* The session after a receipt was recorded.                               *)
Extends(ss, r, t, gs) ==
  /\ r.id \notin DOMAIN ss.ledger
  /\ t = Rejection(ss) \/ Moved(ss, r, t)
  /\ Shaped(gs)
  /\ gs.host = t.snapshot
  /\ gs.generation = t.post
  /\ gs.bytes = ss.bytes + EntryBytes[t.disposition]
  /\ DOMAIN gs.ledger = DOMAIN ss.ledger \cup {r.id}
  /\ gs.ledger = [id \in DOMAIN gs.ledger |-> gs.ledger[id]]
  /\ gs.ledger[r.id] = [request |-> r, transition |-> t]
  /\ \A id \in DOMAIN ss.ledger : gs.ledger[id] = ss.ledger[id]

LEMMA RecordExtends ==
  ASSUME NEW ss, NEW r, NEW t, NEW o, Records(ss, r, t, o)
  PROVE  /\ Extends(ss, r, t, o.session)
         /\ ~o.session.closed
<1>1. o.session = Grown(ss, r, t)
  BY DEF Records
<1>2. WithEntry(ss.ledger, r, t)
        = [id \in DOMAIN WithEntry(ss.ledger, r, t) |-> WithEntry(ss.ledger, r, t)[id]]
  BY DEF WithEntry
<1>3. Shaped(Grown(ss, r, t))
  BY DEF Shaped, Grown
<1>4. r.id \notin DOMAIN ss.ledger /\ (t = Rejection(ss) \/ Moved(ss, r, t))
  BY DEF Records
<1> DEFINE ledger == WithEntry(ss.ledger, r, t)
<1>5. /\ DOMAIN ledger = DOMAIN ss.ledger \cup {r.id}
      /\ ledger[r.id] = [request |-> r, transition |-> t]
      /\ \A id \in DOMAIN ss.ledger : ledger[id] = ss.ledger[id]
  <2>1. ledger = [id \in DOMAIN ss.ledger \cup {r.id} |->
                    IF id = r.id THEN [request |-> r, transition |-> t] ELSE ss.ledger[id]]
    BY DEF WithEntry
  <2> HIDE DEF ledger
  <2> QED
    BY <1>4, <2>1
<1>6. /\ Grown(ss, r, t).ledger = ledger
      /\ Grown(ss, r, t).host = t.snapshot
      /\ Grown(ss, r, t).generation = t.post
      /\ Grown(ss, r, t).bytes = ss.bytes + EntryBytes[t.disposition]
      /\ ~Grown(ss, r, t).closed
  BY DEF Grown
<1> HIDE DEF ledger
<1> QED
  BY <1>1, <1>2, <1>3, <1>4, <1>5, <1>6 DEF Extends, ledger

-----------------------------------------------------------------------------
(* The host an accepted request leaves (match_session.rs:2250).            *)

(* Requests that, once accepted, leave no turn open.                       *)
EndsItsTurn(r) ==
  \/ r.kind \in {"Pass", "Timeout"}
  \/ r.kind = "Ability" /\ r.slot # "Trinket"

LEMMA EndingEnds ==
  ASSUME NEW s \in State, Good(s), Open(s), NEW reason \in TurnEndReason
  PROVE  EndsTurn(s, FinishTurn(s, reason, {}))
<1>1. \/ Ended(s, FinishTurn(s, reason, {}))
      \/ Handed(s, FinishTurn(s, reason, {}))
  BY FinishTurnCloses DEF Good, Open
<1> QED
  BY <1>1 DEF Ended, Final, Handed, Open, EndsTurn, State

LEMMA AcceptedMoves ==
  ASSUME NEW s \in State, Good(s), NEW r \in Request, ~Refused(s, r),
         NEW t \in Accepts(s, r)
  PROVE  /\ Good(t)
         /\ Progress(s, t)
         /\ Open(s)
         /\ r.kind = "Ability" => r.id \notin s.processed
         /\ t.processed = IF r.kind = "Ability"
                            THEN s.processed \cup {r.id} ELSE s.processed
         /\ EndsItsTurn(r) => EndsTurn(s, t)
<1>1. /\ r.id \in CommandId
      /\ r.kind \in Kind
      /\ r.slot \in Slot
      /\ r.player \in Player
  BY DEF Request
<1>2. r.kind # "PassiveChoice"
  BY DEF Accepts
<1>3. Open(s)
  BY <1>2 DEF Refused, AcceptsAbility, Good, Final
<1>4. s.phase # "PassiveSelection"
  BY <1>3 DEF Open
<1>5. CASE r.kind = "Move"
  <2>1. PICK travelled \in 0..WalkBudget(s), off \in BOOLEAN, pit \in SUBSET {r.player} :
          t = SubmitMove(s, r.player, travelled, off, pit)
    BY <1>5 DEF Accepts
  <2>2. Account(s, t, s.embers, s.processed)
    BY <1>1, <2>1, MoveAccounts
  <2> QED
    BY <1>1, <1>3, <1>5, <2>1, <2>2, MoveIsGood DEF Account, EndsItsTurn
<1>6. CASE r.kind = "Jump"
  <2>1. PICK rises \in BOOLEAN : t = SubmitJump(s, r.player, rises)
    BY <1>6 DEF Accepts
  <2>2. Account(s, t, s.embers, s.processed)
    BY <1>1, <2>1, JumpAccounts
  <2> QED
    BY <1>1, <1>3, <1>6, <2>1, <2>2, JumpIsGood DEF Account, EndsItsTurn
<1>7. CASE r.kind \in {"Pass", "Timeout"}
  <2>1. PICK reason \in TurnEndReason : t = FinishTurn(s, reason, {})
    BY <1>4, <1>7 DEF Accepts, PassTurn, TimeOutTurn, TurnEndReason
  <2>2. Account(s, t, s.embers, s.processed)
    BY <2>1, EndingAccounts
  <2> QED
    BY <1>3, <1>7, <2>1, <2>2, EndingIsGood, EndingEnds DEF Account
<1>8. CASE r.kind = "Ability"
  <2> DEFINE c == AbilityOf(r)
  <2>1. Valid(s, c)
    BY <1>8 DEF Accepts
  <2>2. PICK fx \in Effects(s, c) : \E pit \in SUBSET fx.lost :
          t = SubmitAbility(s, c, fx, pit)
    BY <1>8, <2>1 DEF Accepts
  <2>3. PICK pit : t = SubmitAbility(s, c, fx, pit)
    BY <2>2
  <2>4. c.id = r.id /\ c.slot = r.slot
    BY DEF AbilityOf
  <2> HIDE DEF c
  <2>5. /\ Account(s, t, Burning(s, fx), s.processed \cup {r.id})
        /\ c.slot # "Trinket" => EndsTurn(s, t)
    BY <1>1, <2>1, <2>3, <2>4, AbilityAccounts
  <2>6. Good(t) /\ Progress(s, t)
    BY <1>1, <2>1, <2>3, <2>4, AbilityIsGood
  <2> QED
    BY <1>3, <1>8, <2>1, <2>4, <2>5, <2>6 DEF Account, EndsItsTurn, Valid
<1> QED
  BY <1>1, <1>2, <1>5, <1>6, <1>7, <1>8 DEF Kind, ClientKind

=============================================================================
