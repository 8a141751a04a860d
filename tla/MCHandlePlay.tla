---------------------------- MODULE MCHandlePlay ----------------------------
(***************************************************************************)
(* A handle of a duel with two callers and a session that soon meets its   *)
(* limits.                                                                 *)
(***************************************************************************)
EXTENDS HandlePlay, TLC

CONSTANTS a, b, c1, c2

Callers == {a, b}
TwoIds == {c1, c2}
HandleSymmetry == Permutations(Callers) \cup Permutations(TwoIds)

Duelists == 1..2
DuelTeams == [p \in Duelists |-> p]
DuelAllowance == [p \in Duelists |-> 1]
NoEmbers == {}

Sizes == [d \in Recorded |-> IF d = "Accepted" THEN 3 ELSE 1]

Enders == {<<"Pass", "Basic">>, <<"Timeout", "Basic">>}
=============================================================================
