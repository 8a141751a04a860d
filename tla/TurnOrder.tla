----------------------------- MODULE TurnOrder -----------------------------
(***************************************************************************)
(* What a match promises its players, with nothing of how it is resolved:  *)
(* one living player holds the turn; players only ever die; at the end of  *)
(* a turn the next survivor round the table takes over; the match is over  *)
(* exactly when one team at most is left, and by the turn limit at the     *)
(* latest. Module MatchPlay is shown to implement this.                    *)
(***************************************************************************)
EXTENDS Integers

CONSTANTS Player, Team, Limit

VARIABLES
  living,  \* the survivors
  holder,  \* whose turn it is
  round,   \* turns opened so far
  over     \* the match has ended

vars == <<living, holder, round, over>>

Contested(S) == \E p, q \in S : Team[p] # Team[q]

(* r sits strictly between p and q, going upwards from p and round the end.*)
Between(p, r, q) ==
  IF p < q THEN p < r /\ r < q ELSE p < r \/ r < q

(* q is the first of S to come after p.                                    *)
Follows(p, q, S) == q \in S /\ \A r \in S : ~Between(p, r, q)

Init ==
  /\ living = Player
  /\ Contested(living)
  /\ holder \in Player /\ \A p \in Player : holder <= p
  /\ round = 1
  /\ over = FALSE

Die == ~over /\ living' \subseteq living

(* The holder acts and keeps the turn.                                     *)
Act ==
  /\ Die
  /\ holder \in living'
  /\ Contested(living')
  /\ UNCHANGED <<holder, round, over>>

HandOver ==
  /\ Die
  /\ Contested(living')
  /\ Follows(holder, holder', living')
  /\ round < Limit
  /\ round' = round + 1
  /\ UNCHANGED over

End ==
  /\ Die
  /\ ~Contested(living')
  /\ over'
  /\ UNCHANGED <<holder, round>>

Next == Act \/ HandOver \/ End

Spec == Init /\ [][Next]_vars

=============================================================================
