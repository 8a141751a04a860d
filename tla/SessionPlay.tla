---------------------------- MODULE SessionPlay ----------------------------
(***************************************************************************)
(* A session under the requests of its clients and of the authority's      *)
(* clock: made from the present view or from one that is already stale, in *)
(* the name of any player, repeated any number of times, with ids reused   *)
(* for other requests.                                                     *)
(***************************************************************************)
EXTENDS MatchSession

CONSTANTS
  Asked       \* the <<kind, slot>> pairs explored

ASSUME AskedAssumption == Asked \subseteq Kind \X Slot

VARIABLES
  session,    \* the session
  answered    \* history: the first receipt each request was given

vars == <<session, answered>>

Init ==
  /\ session = NewSession(Start(InitialState))
  /\ answered = [r \in {} |-> r]

(* A request is made from a view of the match: the turn and generation of  *)
(* the present or of the previous publication.                             *)
Requests ==
  {[id |-> id, kind |-> ask[1], slot |-> ask[2], player |-> player,
    turn |-> turn, generation |-> generation] :
     id \in CommandId, ask \in Asked, player \in Player,
     turn \in {session.host.turn, session.host.turn - 1},
     generation \in {session.generation, session.generation - 1} \cap Nat}

Submit(r) ==
  \E outcome \in Outcomes(session, r) :
    /\ session' = outcome.session
    /\ answered' =
         IF outcome.reply.kind = "Receipt" /\ r \notin DOMAIN answered
           THEN [q \in DOMAIN answered \cup {r} |->
                   IF q = r THEN outcome.reply.transition ELSE answered[q]]
           ELSE answered

(* A retry, or a duplicate on the way.                                     *)
Resubmit == \E r \in DOMAIN answered : Submit(r)

Next == (\E r \in Requests : Submit(r)) \/ Resubmit

Spec == Init /\ [][Next]_vars

-----------------------------------------------------------------------------
(* However often and however late a request is repeated, it is given its   *)
(* first receipt again and changes nothing: refused requests stay refused  *)
(* even when they would be legal by now (match_session.rs:2032).           *)
AnswersAreFinal ==
  ~session.closed =>
    \A r \in DOMAIN answered :
      Outcomes(session, r) =
        {[session |-> session,
          reply |-> [kind |-> "Replay", transition |-> Replayed(answered[r])]]}

(* Every checkpoint of a live session can be restored: the ledger, the     *)
(* generation, the host and the byte count never drift apart               *)
(* (match_session.rs:2441, validate_checkpoint).                           *)
CheckpointsRestore == ~session.closed => ValidCheckpoint(session)

(* A turn is ended at most once, by whichever of attack, pass and timeout  *)
(* comes first; the loser of the race, and every retry of the winner, ends *)
(* no other turn (match_session.rs:2762).                                  *)
Ends(id) ==
  LET entry == session.ledger[id]
  IN  /\ entry.transition.disposition = "Accepted"
      /\ entry.request.kind \in {"Pass", "Timeout"} \/
         (entry.request.kind = "Ability" /\ entry.request.slot # "Trinket")

OneEndPerTurn ==
  \A a, b \in DOMAIN session.ledger :
    Ends(a) /\ Ends(b) /\ a # b =>
      session.ledger[a].request.turn # session.ledger[b].request.turn

AtLimit ==
  \/ Cardinality(DOMAIN session.ledger) >= EntryLimit
  \/ session.bytes + EntryBytes["Accepted"] > ByteLimit
  \/ session.generation >= MaxGeneration

(* What a preview calls legal the session would accept from the same view, *)
(* unless a limit closes it first; what it calls illegal the session       *)
(* refuses. The two are asked along different ways: one on a clone, the    *)
(* other past the ledger and the preflight (match_session.rs:1944).        *)
PreviewForetells ==
  \A r \in Requests :
    (/\ r.kind = "Ability"
     /\ r.turn = session.host.turn
     /\ r.id \notin DOMAIN session.ledger) =>
      LET accepted == \E outcome \in Outcomes(session, r) :
                        /\ outcome.reply.kind = "Receipt"
                        /\ outcome.reply.transition.disposition = "Accepted"
      IN  IF PreviewLegal(session, r) THEN accepted \/ AtLimit ELSE ~accepted

(* The host moves only by a request that was made from the very state it   *)
(* changes, by the player whose turn it was, and never without its         *)
(* receipt: the same step adds one entry that holds the new state under    *)
(* the next generation. A fault publishes nothing: the step that closes a  *)
(* session, at whatever limit, leaves the rest of it as it was             *)
(* (match_session.rs:2400, 2430).                                          *)
ChangesAreReceipted ==
  [][/\ session'.host # session.host =>
          \E id \in DOMAIN session'.ledger \ DOMAIN session.ledger :
            LET r == session'.ledger[id].request
                t == session'.ledger[id].transition
            IN  /\ r.turn = session.host.turn
                /\ r.generation = session.generation
                /\ r.player = session.host.active
                /\ t = Transition("Accepted", session.generation,
                                  session.generation + 1, session'.host)
                /\ session'.generation = session.generation + 1
     /\ session'.closed => session' = [session EXCEPT !.closed = TRUE]]_vars

=============================================================================
