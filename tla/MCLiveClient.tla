---------------------------- MODULE MCLiveClient ----------------------------
(***************************************************************************)
(* A duel of a human against the bot, as HumanVsBot starts it.             *)
(***************************************************************************)
EXTENDS LiveClient

Duelists == 1..2
DuelTeams == [p \in Duelists |-> p]
DuelAllowance == [p \in Duelists |-> 1]
TheBot == {2}
NoEmbers == {}
Ordinals == 0..EntryLimit + 1
Sizes == [d \in Recorded |-> 1]
=============================================================================
