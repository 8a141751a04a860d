--------------------------- MODULE MCSessionPlay ---------------------------
(***************************************************************************)
(* Sessions of a duel with a ledger of a few entries.                      *)
(***************************************************************************)
EXTENDS SessionPlay, TLC

CONSTANTS c1, c2, c3, c4

Duelists == 1..2
DuelTeams == [p \in Duelists |-> p]
DuelAllowance == [p \in Duelists |-> 1]

FourIds == {c1, c2, c3, c4}
FourSymmetry == Permutations(FourIds)

NoEmbers == {}

Sizes == [d \in Recorded |-> IF d = "Accepted" THEN 3 ELSE 1]

(* A client and the clock racing for the turn, with every way to end it    *)
(* and the free actions that do not.                                       *)
Racers ==
  {<<"Move", "Basic">>, <<"Timeout", "Basic">>,
   <<"Ability", "Basic">>, <<"Ability", "Trinket">>}
=============================================================================
