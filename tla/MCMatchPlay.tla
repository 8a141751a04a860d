---------------------------- MODULE MCMatchPlay ----------------------------
(***************************************************************************)
(* Small matches for TLC. Characters differ in allowance so that taking    *)
(* the allowance of the wrong player shows; ids are interchangeable.       *)
(***************************************************************************)
EXTENDS MatchPlay, TLC

CONSTANTS c1, c2, c3

Duelists == 1..2
Pairs == 1..4

DuelTeams == [p \in Duelists |-> p]
PairTeams == [p \in Pairs |-> p % 2]

DuelAllowance == [p \in Duelists |-> p]
PairAllowance == [p \in Pairs |-> IF p = 2 THEN 2 ELSE 1]

TwoIds == {c1, c2}
ThreeIds == {c1, c2, c3}
IdSymmetry == Permutations({c1, c2, c3})

TwoTurns == {2}
NoEmbers == {}
=============================================================================
