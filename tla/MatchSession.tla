---------------------------- MODULE MatchSession ----------------------------
(***************************************************************************)
(* The match session (match_session.rs): the one publication point of a    *)
(* match. Every request carries an id and the view it was made from (turn  *)
(* and snapshot generation). The first answer to an id is kept for ever in *)
(* a ledger; the same request is answered from it, another request under   *)
(* the same id is refused. An accepted request works on a clone of the     *)
(* host, which is published together with its ledger entry and generation. *)
(* A resource or contract fault closes the session.                        *)
(*                                                                         *)
(* As in the modules below, an operator maps the session before a call to  *)
(* the session after it. What the session keeps:                           *)
(*   host, generation, ledger, bytes, closed       as in the code          *)
(* A transition keeps its disposition, the two generations and its post    *)
(* snapshot, which is the host it was taken from (a snapshot holds the     *)
(* hash of the whole state). Its events and its texts are left out, and    *)
(* with them the digest of a request: the request itself is compared.      *)
(***************************************************************************)
EXTENDS MatchHost, FiniteSets

CONSTANTS
  EntryLimit,     \* COMMAND_LEDGER_ENTRY_LIMIT
  ByteLimit,      \* COMMAND_LEDGER_BYTE_LIMIT
  EntryBytes,     \* EntryBytes[d]: bytes retained for a receipt of disposition d
  MaxGeneration   \* where the generation counter is exhausted (u64::MAX)

Recorded == {"Accepted", "Rejected"}
Disposition == Recorded \cup {"DuplicateReplay"}

ASSUME LedgerAssumption ==
  /\ EntryLimit \in Nat
  /\ ByteLimit \in Nat
  /\ EntryBytes \in [Recorded -> Nat]
  /\ MaxGeneration \in Nat

(* MatchCommandKind, and the timeout only the authority can ask for.       *)
ClientKind == {"Move", "Jump", "Ability", "PassiveChoice", "Pass"}
Kind == ClientKind \cup {"Timeout"}

Request ==
  [id : CommandId, kind : Kind, slot : Slot, player : Player,
   turn : Nat, generation : Nat]

NewSession(h) ==
  [host |-> h, generation |-> 0, ledger |-> [id \in {} |-> id], bytes |-> 0,
   closed |-> FALSE]

-----------------------------------------------------------------------------
(* preflight_rejection() and authority_timeout_rejection() refuse the      *)
(* same things: the view and the player must still be the current ones.    *)
RefusedAnyTurnBug(h, r) ==
  \/ r.player # h.active
  \/ r.player \notin Living(h)
  \/ IF r.kind = "PassiveChoice"
       THEN h.phase # "PassiveSelection" ELSE ~AcceptsAbility(h)

Refused(h, r) ==
  \/ r.turn # h.turn
  \/ r.player # h.active
  \/ r.player \notin Living(h)
  \/ IF r.kind = "PassiveChoice"
       THEN h.phase # "PassiveSelection" ELSE ~AcceptsAbility(h)

AbilityOf(r) ==
  [id |-> r.id, player |-> r.player, turn |-> r.turn, slot |-> r.slot, power |-> 1]

(* apply_to_working_host(): the hosts an accepted request may leave. A     *)
(* valid ability may still be refused while it resolves, with no effect.   *)
Accepts(h, r) ==
  CASE r.kind = "Move" ->
         {SubmitMove(h, r.player, travelled, off, pit) :
            travelled \in 0..WalkBudget(h), off \in BOOLEAN,
            pit \in SUBSET {r.player}}
    [] r.kind = "Jump" -> {SubmitJump(h, r.player, rises) : rises \in BOOLEAN}
    [] r.kind = "Pass" -> {PassTurn(h)}
    [] r.kind = "Timeout" -> {TimeOutTurn(h)}
    [] r.kind = "PassiveChoice" -> {}
    [] r.kind = "Ability" ->
         IF Valid(h, AbilityOf(r))
           THEN UNION {{SubmitAbility(h, AbilityOf(r), fx, pit) :
                          pit \in SUBSET fx.lost} : fx \in Effects(h, AbilityOf(r))}
           ELSE {}

(* The kinds the host may still refuse; the code calls those it accepts    *)
(* processed.                                                              *)
MayRefuse == {"Ability", "PassiveChoice"}

-----------------------------------------------------------------------------
(* What a request gets back: a transition, or a fault.                     *)

Transition(disposition, pre, post, h) ==
  [disposition |-> disposition, pre |-> pre, post |-> post, snapshot |-> h]

(* current_rejection().                                                    *)
Rejection(ss) == Transition("Rejected", ss.generation, ss.generation, ss.host)

Close(ss) == [ss EXCEPT !.closed = TRUE]

WithEntry(ledger, r, t) ==
  [id \in DOMAIN ledger \cup {r.id} |->
     IF id = r.id THEN [request |-> r, transition |-> t] ELSE ledger[id]]

RecordAcceptedOnlyBug(ss, r, t) ==
  IF t.disposition = "Rejected" THEN ss
  ELSE [ss EXCEPT !.host = t.snapshot, !.generation = t.post,
                  !.ledger = WithEntry(@, r, t),
                  !.bytes  = @ + EntryBytes[t.disposition]]

(* record_and_commit(): nothing is published unless everything fits.       *)
Record(ss, r, t) ==
  LET grown == ss.bytes + EntryBytes[t.disposition]
  IN  IF grown > ByteLimit \/ r.id \in DOMAIN ss.ledger
        THEN Close(ss)
        ELSE [ss EXCEPT !.host       = t.snapshot,
                        !.generation = t.post,
                        !.ledger     = WithEntry(@, r, t),
                        !.bytes      = grown]

Fault(ss) == [session |-> Close(ss), reply |-> [kind |-> "Fault"]]

(* A simulation error while the request resolves: the working host is      *)
(* dropped and the session stays open.                                     *)
SimulationFault(ss) == [session |-> ss, reply |-> [kind |-> "Fault"]]

Receipt(ss, r, t) ==
  LET after == Record(ss, r, t)
  IN  IF after.closed THEN Fault(after)
      ELSE [session |-> after, reply |-> [kind |-> "Receipt", transition |-> t]]

Replayed(t) == [t EXCEPT !.disposition = "DuplicateReplay"]

(* An id that was answered before: its receipt, marked as a replay, or a   *)
(* conflict, which is not recorded.                                        *)
Known(ss, r) ==
  LET entry == ss.ledger[r.id]
  IN  [session |-> ss,
       reply   |-> IF entry.request = r
                     THEN [kind |-> "Replay",
                           transition |-> Replayed(entry.transition)]
                     ELSE [kind |-> "Conflict", transition |-> Rejection(ss)]]

PublishUnversionedBug(ss, r, h) ==
  Receipt(ss, r, Transition("Accepted", ss.generation,
    IF h.turn # ss.host.turn THEN ss.generation + 1 ELSE ss.generation, h))

(* An accepted request counts a generation exactly if it changed the host. *)
Publish(ss, r, h) ==
  IF h = ss.host
    THEN Receipt(ss, r, Transition("Accepted", ss.generation, ss.generation, h))
  ELSE IF ss.generation >= MaxGeneration THEN Fault(ss)
  ELSE Receipt(ss, r, Transition("Accepted", ss.generation, ss.generation + 1, h))

ExecuteStaleBug(ss, r) ==
  IF Refused(ss.host, r) THEN {Receipt(ss, r, Rejection(ss))}
  ELSE {Publish(ss, r, h) : h \in Accepts(ss.host, r)}

(* A request made from another view is refused on the record.              *)
Execute(ss, r) ==
  IF r.generation # ss.generation \/ Refused(ss.host, r)
    THEN {Receipt(ss, r, Rejection(ss))}
    ELSE {Publish(ss, r, h) : h \in Accepts(ss.host, r)} \cup
         (IF r.kind \in MayRefuse THEN {Receipt(ss, r, Rejection(ss))} ELSE {}) \cup
         (IF r.kind # "Timeout" THEN {SimulationFault(ss)} ELSE {})

(* apply() and apply_authority_timeout(): what one request may do. First   *)
(* receipts are never evicted: a full ledger ends the session.             *)
Outcomes(ss, r) ==
  IF ss.closed THEN {Fault(ss)}
  ELSE IF r.id \in DOMAIN ss.ledger THEN {Known(ss, r)}
  ELSE IF Cardinality(DOMAIN ss.ledger) >= EntryLimit THEN {Fault(ss)}
  ELSE Execute(ss, r)

-----------------------------------------------------------------------------
(* preview(): whether an ability could be submitted now. It is tried on a  *)
(* clone of the host under an id ("preview:n") that was never processed;   *)
(* a preview has no turn of its own. Nothing of it stays.                  *)

PreviewLegalStaleBug(ss, r) ==
  /\ ~ss.closed
  /\ Valid([ss.host EXCEPT !.processed = {}],
           [AbilityOf(r) EXCEPT !.turn = ss.host.turn])

PreviewLegal(ss, r) ==
  /\ ~ss.closed
  /\ r.generation = ss.generation
  /\ Valid([ss.host EXCEPT !.processed = {}],
           [AbilityOf(r) EXCEPT !.turn = ss.host.turn])

-----------------------------------------------------------------------------
(* Checkpoints. validate_checkpoint() believes nothing that it can compute *)
(* again from the entries.                                                 *)

Accepted(ss) ==
  {id \in DOMAIN ss.ledger : ss.ledger[id].transition.disposition = "Accepted"}

(* Entries that published a new generation.                                *)
Mutations(ss) ==
  {id \in Accepted(ss) :
     ss.ledger[id].transition.post > ss.ledger[id].transition.pre}

LedgerBytes(ss) ==
  EntryBytes["Accepted"] * Cardinality(Accepted(ss)) +
  EntryBytes["Rejected"] * Cardinality(DOMAIN ss.ledger \ Accepted(ss))

(* validate_restored_transition().                                         *)
Restorable(t, live) ==
  /\ t.pre <= t.post
  /\ t.post <= live
  /\ t.post - t.pre <= 1
  /\ t.disposition = "Rejected" => t.pre = t.post

ValidCheckpoint(ss) ==
  /\ Cardinality(DOMAIN ss.ledger) <= EntryLimit
  /\ \A id \in DOMAIN ss.ledger :
       LET entry == ss.ledger[id]
       IN  /\ entry.request.id = id
           /\ Restorable(entry.transition, ss.generation)
           /\ entry.transition.post = ss.generation =>
                entry.transition.snapshot = ss.host
  /\ \/ DOMAIN ss.ledger = {} /\ ss.generation = 0
     \/ \E id \in DOMAIN ss.ledger :
          ss.ledger[id].transition.post = ss.generation
  /\ ss.bytes = LedgerBytes(ss)
  /\ ss.bytes <= ByteLimit
  /\ ss.host.processed =
       {id \in Accepted(ss) : ss.ledger[id].request.kind \in MayRefuse}
  /\ {ss.ledger[id].transition.post : id \in Mutations(ss)} = 1..ss.generation
  /\ Cardinality(Mutations(ss)) = ss.generation

=============================================================================
