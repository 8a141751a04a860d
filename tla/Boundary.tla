------------------------------ MODULE Boundary ------------------------------
(***************************************************************************)
(* The boundary of a match: everything that is written down about it, and  *)
(* everything that is read from outside. A behaviour studies one topic on  *)
(* two values, which its steps edit:                                       *)
(*                                                                         *)
(*   State       two replicas of a match, grown in any order               *)
(*   Request     two requests                                              *)
(*   Document    a request, and the document of it as it arrives           *)
(*   Transition  a transition that collects events, and nothing            *)
(*   Config      a lobby that fills, and nothing                           *)
(***************************************************************************)
EXTENDS ClientContracts, Schema

CONSTANTS EmptyMatch,      \* a match with no players, objects or commands
          Growth,          \* what a replica may gain: records [list, item]
          MaxGrowth,       \* bound: items a replica gains
          Requests,        \* requests a client or a host may make
          MaxDamage,       \* bound: damages to a document
          MaxMembers,      \* bound: members of a document
          Happenings,      \* events a transition may carry
          Refusals,        \* rejections it may carry
          Pictures,        \* matches it may show
          MaxEvents,       \* bound: events of a transition
          Lobbies,         \* empty lobbies
          Guests,          \* players who may join one
          MaxGuests        \* bound: players of a lobby

VARIABLES topic, left, right

vars == <<topic, left, right>>

Nothing == <<>>

Size(m) == Len(m.players) + Len(m.objects) + Len(m.blocks) + Len(m.commands)

(* A refusal stays at its generation and tells of nothing.                 *)
InitialTransition(m, refusal) ==
  [schema |-> ContractVersion, id |-> <<65>>,
   disposition |-> IF refusal = None THEN "Accepted" ELSE "Rejected",
   rejection |-> refusal, pre |-> 0, post |-> IF refusal = None THEN 1 ELSE 0,
   rate |-> TickRate, lock |-> 0, events |-> <<>>,
   snapshot |-> Snapshot(m, [kind |-> "InProgress"], 1),
   hash |-> <<>>]

Init ==
  \/ topic = "State" /\ left = EmptyMatch /\ right = EmptyMatch
  \/ topic = "Request" /\ left \in Requests /\ right = left
  \/ /\ topic = "Document" /\ left \in Requests
     /\ right = [doc |-> Document(left), damages |-> 0]
  \/ /\ topic = "Transition" /\ right = Nothing
     /\ left \in {InitialTransition(m, refusal) : m \in Pictures, refusal \in Refusals}
  \/ topic = "Config" /\ left \in Lobbies /\ right = Nothing

(* A replica gains an entry it does not hold yet.                          *)
Gain(m, g) == [m EXCEPT ![g.list] = Append(@, g.item)]

KeyOf(g) ==
  CASE g.list = "players"  -> g.item.id
    [] g.list = "objects"  -> g.item.sequence
    [] g.list = "blocks"   -> g.item.id
    [] g.list = "commands" -> g.item

Holds(m, g) ==
  \E i \in DOMAIN m[g.list] : KeyOf([g EXCEPT !.item = m[g.list][i]]) = KeyOf(g)

Grow(g) ==
  /\ topic = "State"
  /\ \/ /\ ~Holds(left, g) /\ Size(left) < MaxGrowth
        /\ left' = Gain(left, g) /\ UNCHANGED right
     \/ /\ ~Holds(right, g) /\ Size(right) < MaxGrowth
        /\ right' = Gain(right, g) /\ UNCHANGED left
  /\ UNCHANGED topic

Compare(r) ==
  /\ topic = "Request" /\ left = right
  /\ right' = r
  /\ UNCHANGED <<topic, left>>

(* A member is lost, sent twice, renamed, or comes with a useless value.   *)
Damage(i) ==
  /\ topic = "Document" /\ right.damages < MaxDamage /\ i \in DOMAIN right.doc
  /\ \E doc \in {RemoveAt(right.doc, i), Append(right.doc, right.doc[i]),
                 [right.doc EXCEPT ![i][1] = "surplus"],
                 [right.doc EXCEPT ![i][2] = Spoiled]} :
       right' = [doc |-> doc, damages |-> right.damages + 1]
  /\ UNCHANGED <<topic, left>>

Report(e) ==
  /\ topic = "Transition" /\ Len(left.events) < MaxEvents
  /\ left.disposition = "Accepted"
  /\ left' = [left EXCEPT !.events =
                Append(@, [tick |-> 0, sequence |-> Len(@), what |-> e])]
  /\ UNCHANGED <<topic, right>>

(* The receipt is asked for again.                                         *)
Replay ==
  /\ topic = "Transition" /\ left.disposition # "DuplicateReplay"
  /\ left' = [left EXCEPT !.disposition = "DuplicateReplay"]
  /\ UNCHANGED <<topic, right>>

Join(guest) ==
  /\ topic = "Config" /\ Len(left.players) < MaxGuests
  /\ left' = [left EXCEPT !.players = Append(@, guest)]
  /\ UNCHANGED <<topic, right>>

Next ==
  \/ \E g \in Growth : Grow(g)
  \/ \E r \in Requests : Compare(r)
  \/ \E i \in 1..MaxMembers : Damage(i)
  \/ \E e \in Happenings : Report(e)
  \/ Replay
  \/ \E guest \in Guests : Join(guest)

Spec == Init /\ [][Next]_vars

-----------------------------------------------------------------------------
(* Two states are the same match when they hold the same entries, however  *)
(* the lists are ordered and whatever the players look like.               *)
Plain(p) ==
  [id |-> p.id, team |-> p.team, health |-> p.health, max |-> p.max,
   position |-> p.position, loadout |-> p.loadout, charge |-> p.charge,
   ammo |-> p.ammo, statuses |-> Range(p.statuses)]

SameMatch(m, n) ==
  /\ [m EXCEPT !.players = <<>>, !.objects = <<>>, !.blocks = <<>>, !.commands = <<>>]
     = [n EXCEPT !.players = <<>>, !.objects = <<>>, !.blocks = <<>>, !.commands = <<>>]
  /\ {Plain(p) : p \in Range(m.players)} = {Plain(p) : p \in Range(n.players)}
  /\ Range(m.objects) = Range(n.objects)
  /\ Range(m.blocks) = Range(n.blocks)
  /\ Range(m.commands) = Range(n.commands)

(* The picture of a match but for the faces.                               *)
Shown(m) ==
  LET picture == Snapshot(m, [kind |-> "InProgress"], 0)
      faceless(p) == [p EXCEPT !.appearance = Nothing]
  IN  [picture EXCEPT !.players = [i \in DOMAIN @ |-> faceless(@[i])]]

(* Two machines that simulate a match agree on its hash exactly when they  *)
(* hold the same match: no order of a list, no skin and no boundary        *)
(* between two strings makes the difference. Then their clients are shown  *)
(* the same picture, statuses of a player included (hash.rs,               *)
(* client_contract.rs).                                                    *)
ReplicasAgree ==
  topic = "State" =>
    /\ SameMatch(left, right) <=> HashState(left) = HashState(right)
    /\ SameMatch(left, right) => Shown(left) = Shown(right)

(* A retry is recognised by the digest of its request: two requests that   *)
(* differ anywhere differ in their bytes, a timeout from any command and   *)
(* an absent target from any named one (match_session.rs canonical_digest).*)
DigestsTellApart ==
  topic = "Request" =>
    (left = right <=> RequestDigest(left) = RequestDigest(right))

(* A document is read as the request it was written for or not at all:     *)
(* through its own entry point and through no other, and no lost, doubled, *)
(* renamed or spoiled member changes what is asked (wire.rs, lib.rs).      *)
NothingIsMisread ==
  topic = "Document" =>
    LET own   == IF left.kind = "Timeout" THEN ReadTimeout(right.doc) ELSE ReadCommand(right.doc)
        other == IF left.kind = "Timeout" THEN ReadCommand(right.doc) ELSE ReadTimeout(right.doc)
    IN  /\ own \in {left, Malformed, Unsupported}
        /\ other = Malformed
        /\ right.doc = Document(left) =>
             (own = left <=> left.schema = ContractVersion /\ IsStructured(left))

(* What a ledger entry is charged is the measure its limit is stated in,   *)
(* structure by structure (match_session.rs COMMAND_LEDGER_BYTE_LIMIT):    *)
(* the transition by its fields, the request by the bytes it is hashed as. *)
MeasureIsAsDocumented ==
  /\ topic = "Transition" => RetainedTransition(left) = TransitionMeasure(left)
  /\ topic = "Request" => RetainedRequest(left) = Len(RequestDigest(left))

(* What the library publishes, the client takes: the whole transition with *)
(* its snapshot, and every decision of the bot. No two events come out as  *)
(* the same document (wire.rs, the C# contracts).                          *)
PublishedIsUnderstood ==
  /\ topic = "Transition" =>
       /\ Accepts(ClientMatchTransition, WireTransition(left, <<65>>, "crow-perch"))
       /\ left.events # <<>> =>
            \A e \in Happenings :
              WireEventKind(e) = WireEventKind(Last(left.events).what)
                => e = Last(left.events).what
  /\ (topic = "Request" /\ left.kind # "Timeout") =>
       Accepts(ClientBotDecision, WireBotDecision(left))

(* A lobby that is accepted opens a match that can be played: everyone who *)
(* joined is in it once, alive with the health of the character chosen, on *)
(* ground of his own, against somebody; and the client is told the         *)
(* character that was chosen (match_setup.rs, map.rs, wire.rs).            *)
CreatedIsPlayable ==
  topic = "Config" =>
    LET made == CreateMatch(left)
    IN  made \notin {Malformed, Unsupported, InvalidConfig} =>
          /\ Len(made) = Len(left.players)
          /\ \A guest \in Range(left.players) : \E p \in Range(made) :
               /\ p.id = guest.id /\ p.team = guest.team
               /\ Announced(p.loadout) = guest.character
               /\ p.health = LaunchCharacters[guest.character].health
          /\ \A i, j \in DOMAIN made :
               i < j => /\ Before(made[i].id, made[j].id)
                        /\ made[i].position # made[j].position
          /\ Cardinality({p.team : p \in Range(made)}) >= 2

=============================================================================
