------------------------------ MODULE Requests ------------------------------
(***************************************************************************)
(* How a request gets from the bytes of a client into a session: the       *)
(* strict JSON documents of wire.rs, their decoding in lib.rs, and the     *)
(* structural checks of match_session.rs.                                  *)
(*                                                                         *)
(* A document is the sequence of the members of one JSON object, each a    *)
(* name and a value, in the order they were written. Spoiled stands for    *)
(* any value of the wrong type or out of its type's range.                 *)
(***************************************************************************)
EXTENDS Contract, FiniteSets

CONSTANTS Spoiled, Malformed, Unsupported,
          MaxIdBytes      \* MAX_PLAYER_ID_BYTES

AlphaNumeric == (48..57) \cup (65..90) \cup (97..122)

(* is_valid_match_local_id(), is_valid_definition_id().                    *)
IsMatchLocalId(s) ==
  Len(s) \in 1..MaxIdBytes /\ Range(s) \subseteq AlphaNumeric \cup {45, 46, 58, 95}

IsDefinitionId(s) ==
  Len(s) \in 1..MaxIdBytes /\ Range(s) \subseteq (48..57) \cup (97..122) \cup {45}

WireSlot == [main |-> "Basic", secondary |-> "BasicAlt",
             meleeTool |-> "Special", trinket |-> "Trinket"]

(* The members of the five command objects and of the timeout object.      *)
Common ==
  {"schemaVersion", "playerId", "expectedTurnNumber", "expectedSnapshotGeneration"}

Targets == {"targetPlayerId", "secondaryTargetPlayerId"}

Members ==
  [move          |-> {"dx"},
   ability       |-> {"slot", "angleMillidegrees", "powerBasisPoints"} \cup Targets,
   passiveChoice |-> {"passiveId"},
   pass          |-> {},
   jump          |-> {}]

CommandMembers(kind) == Common \cup {"commandId", "kind"} \cup Members[kind]
TimeoutMembers == Common \cup {"actionId"}

Value(doc, name) ==
  doc[CHOOSE i \in DOMAIN doc : doc[i][1] = name][2]

ObjectOfLenientBug(doc, members) ==
  LET names == {doc[i][1] : i \in DOMAIN doc}
  IN  /\ members \ Targets \subseteq names /\ names \subseteq members
      /\ Len(doc) = Cardinality(names)
      /\ \A i \in DOMAIN doc : doc[i][2] # Spoiled

(* A strict object: exactly its members, each once, of the right type. A   *)
(* target must be there too, though it may be null.                        *)
ObjectOf(doc, members) ==
  /\ {doc[i][1] : i \in DOMAIN doc} = members
  /\ Len(doc) = Cardinality(members)
  /\ \A i \in DOMAIN doc :
       doc[i][2] # Spoiled /\ (doc[i][2] = None => doc[i][1] \in Targets)

OrNull(doc, name) ==
  IF \E i \in DOMAIN doc : doc[i][1] = name THEN Value(doc, name) ELSE None

ToCore(doc, id, kind) ==
  [kind |-> kind, schema |-> Value(doc, "schemaVersion"), id |-> Value(doc, id),
   player |-> Value(doc, "playerId"), turn |-> Value(doc, "expectedTurnNumber"),
   generation |-> Value(doc, "expectedSnapshotGeneration")]

IntoCore(doc, kind) ==
  CASE kind = "move" ->
         [dx |-> Value(doc, "dx")] @@ ToCore(doc, "commandId", "Move")
    [] kind = "ability" ->
         [slot |-> WireSlot[Value(doc, "slot")],
          angle |-> Value(doc, "angleMillidegrees"),
          power |-> Value(doc, "powerBasisPoints"),
          target |-> OrNull(doc, "targetPlayerId"),
          second |-> OrNull(doc, "secondaryTargetPlayerId")]
         @@ ToCore(doc, "commandId", "Ability")
    [] kind = "passiveChoice" ->
         [passive |-> Value(doc, "passiveId")] @@ ToCore(doc, "commandId", "Passive")
    [] kind = "pass" -> ToCore(doc, "commandId", "Pass")
    [] kind = "jump" -> ToCore(doc, "commandId", "Jump")

(* validate_structure(); the schema is checked before, in lib.rs.          *)
IsStructured(r) ==
  /\ IsMatchLocalId(r.id)
  /\ IsMatchLocalId(r.player)
  /\ r.kind = "Ability" =>
       \A target \in {r.target, r.second} \ {None} : IsMatchLocalId(target)
  /\ r.kind = "Passive" => IsDefinitionId(r.passive)

Admit(r) ==
  IF r.schema # ContractVersion THEN Unsupported
  ELSE IF ~IsStructured(r) THEN Malformed
  ELSE r

(* db_sim_match_apply() up to the session: the command whose object this   *)
(* is, if any; a timeout is none of them.                                  *)
ReadCommand(doc) ==
  LET kinds == {kind \in DOMAIN Members :
                  ObjectOf(doc, CommandMembers(kind)) /\ Value(doc, "kind") = kind}
  IN  IF kinds = {} THEN Malformed
      ELSE Admit(IntoCore(doc, CHOOSE kind \in kinds : TRUE))

(* db_sim_match_timeout() up to the session.                               *)
ReadTimeout(doc) ==
  IF ObjectOf(doc, TimeoutMembers)
    THEN Admit(ToCore(doc, "actionId", "Timeout"))
    ELSE Malformed

-----------------------------------------------------------------------------
(* The document a client writes for a request (ClientMatchCommand of       *)
(* CommandContracts.cs and TimeoutContracts.cs).                           *)
WireName(slot) == CHOOSE name \in DOMAIN WireSlot : WireSlot[name] = slot

Written(r, id) ==
  <<<<"schemaVersion", r.schema>>, <<id, r.id>>, <<"playerId", r.player>>,
    <<"expectedTurnNumber", r.turn>>,
    <<"expectedSnapshotGeneration", r.generation>>>>

Document(r) ==
  CASE r.kind = "Timeout" -> Written(r, "actionId")
    [] r.kind = "Move" ->
         Written(r, "commandId") \o <<<<"kind", "move">>, <<"dx", r.dx>>>>
    [] r.kind = "Ability" ->
         Written(r, "commandId") \o
         <<<<"kind", "ability">>, <<"slot", WireName(r.slot)>>,
           <<"angleMillidegrees", r.angle>>, <<"powerBasisPoints", r.power>>,
           <<"targetPlayerId", r.target>>, <<"secondaryTargetPlayerId", r.second>>>>
    [] r.kind = "Passive" ->
         Written(r, "commandId") \o
         <<<<"kind", "passiveChoice">>, <<"passiveId", r.passive>>>>
    [] r.kind = "Pass" -> Written(r, "commandId") \o <<<<"kind", "pass">>>>
    [] r.kind = "Jump" -> Written(r, "commandId") \o <<<<"kind", "jump">>>>

=============================================================================
