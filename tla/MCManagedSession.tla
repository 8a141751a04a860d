-------------------------- MODULE MCManagedSession --------------------------
(***************************************************************************)
(* A managed session of a duel with a ledger of one receipt.       *)
(***************************************************************************)
EXTENDS ManagedSession

CONSTANTS a, b, c1

TwoCallers == {a, b}
OneId == {c1}

Duelists == 1..2
DuelTeams == [p \in Duelists |-> p]
DuelAllowance == [p \in Duelists |-> 1]
NoEmbers == {}

Sizes == [x \in Recorded |-> 1]

Passes == {<<"Pass", "Basic">>}
=============================================================================
