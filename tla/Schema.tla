------------------------------- MODULE Schema -------------------------------
(***************************************************************************)
(* The declared fields of everything a ledger retains (match_session.rs,   *)
(* client_contract.rs, types.rs), and the measure COMMAND_LEDGER_BYTE_LIMIT *)
(* is stated in: an integer has its width, a discriminant and an option    *)
(* tag one byte, a string and a sequence a four-byte length and their      *)
(* contents, and each top-level value the encoding header and a domain     *)
(* separator. A type is a tuple led by its constructor.                    *)
(***************************************************************************)
EXTENDS Contract

N1 == <<"int", 1>>
N2 == <<"int", 2>>
N4 == <<"int", 4>>
N8 == <<"int", 8>>
Name        == <<"int", 1>>       \* an enum without payloads
String      == <<"string">>
List(t)     == <<"list", t>>
Option(t)   == <<"option", t>>
Array(n, t) == <<"array", n, t>>
Struct(fields)  == <<"struct", fields>>
Choice(variants) == <<"choice", variants>>

Pair == Array(2, N4)

Rectangle == Array(4, N4)

StatusType == Struct(<<<<"kind", Name>>, <<"magnitude", N4>>, <<"turns", N1>>>>)

AppearanceType ==
  Struct(<<<<"skin", String>>, <<"effects", List(String)>>, <<"pose", String>>>>)

AmmoType == Struct(<<<<"policy", Name>>, <<"remaining", N2>>, <<"maximum", N2>>>>)

PlayerType ==
  Struct(<<<<"id", String>>, <<"team", N1>>, <<"health", N2>>,
           <<"eliminated", N1>>, <<"max", N2>>, <<"position", Pair>>,
           <<"center", Pair>>, <<"radius", N4>>, <<"loadout", Array(4, String)>>,
           <<"ammo", Array(3, AmmoType)>>, <<"charge", N2>>,
           <<"statuses", List(StatusType)>>, <<"appearance", AppearanceType>>>>)

BlockType ==
  Struct(<<<<"id", N4>>, <<"x", N4>>, <<"y", N4>>, <<"width", N2>>,
           <<"height", N2>>, <<"material", Name>>, <<"health", N2>>,
           <<"max", N2>>, <<"axis", Name>>>>)

ObjectType ==
  Struct(<<<<"sequence", N4>>, <<"owner", String>>, <<"kind", Name>>,
           <<"position", Pair>>, <<"health", N2>>, <<"turns", N1>>>>)

OutcomeType ==
  Choice([InProgress |-> <<>>, Draw |-> <<>>, Victory |-> <<<<"team", N1>>>>])

(* The state hash is a string of sixteen hexadecimal digits.               *)
HashType == <<"hex">>

SnapshotType ==
  Struct(<<<<"contract", N4>>, <<"simulation", N4>>, <<"content", N4>>,
           <<"scale", N4>>, <<"rate", N4>>, <<"generation", N8>>, <<"tick", N8>>,
           <<"turn", N4>>, <<"phase", Name>>, <<"active", Option(String)>>,
           <<"order", List(String)>>, <<"wind", N4>>, <<"moves", N4>>,
           <<"attacked", N1>>, <<"outcome", OutcomeType>>, <<"width", N4>>,
           <<"height", N4>>, <<"terrain", N4>>, <<"blocks", List(BlockType)>>,
           <<"players", List(PlayerType)>>, <<"objects", List(ObjectType)>>,
           <<"hash", HashType>>>>)

ImpactType == Struct(<<<<"position", Pair>>, <<"tick", N4>>, <<"cause", Name>>>>)

TraceType ==
  Struct(<<<<"trace", N4>>, <<"owner", String>>, <<"ability", String>>,
           <<"samples", List(Array(3, N4))>>, <<"impact", ImpactType>>>>)

DeliveryType ==
  Choice([Projectile |-> <<<<"trace", N4>>>>, Melee |-> <<>>,
          Effect |-> <<<<"effect", Name>>>>])

StrikeType ==
  Struct(<<<<"index", N2>>, <<"target", String>>, <<"point", Pair>>,
           <<"delivery", DeliveryType>>, <<"crit", Name>>, <<"damage", N2>>,
           <<"eliminated", N1>>>>)

BreakdownType ==
  Struct(<<<<"direct", N2>>, <<"splash", N2>>, <<"backlash", N2>>,
           <<"hazard", N2>>, <<"wall", N2>>, <<"healed", N2>>,
           <<"critical", N1>>, <<"knockback", Pair>>, <<"eliminated", N1>>>>)

RandomType ==
  Choice([ChainStrikeTarget |->
            <<<<"count", N4>>, <<"selected", N4>>, <<"target", String>>,
              <<"destination", Pair>>>>,
          VeilstepPoint |->
            <<<<"bound", N4>>, <<"x", N4>>, <<"y", N4>>, <<"fallback", N1>>,
              <<"drawn", Pair>>, <<"destination", Pair>>>>])

ChangeType ==
  Choice([Applied |-> <<<<"magnitude", N4>>, <<"turns", N1>>>>,
          Refreshed |-> <<<<"magnitude", N4>>, <<"turns", N1>>,
                          <<"oldMagnitude", N4>>, <<"oldTurns", N1>>>>,
          ChargeConsumed |-> <<<<"remaining", N4>>>>,
          Ticked |-> <<<<"turns", N1>>>>,
          Exhausted |-> <<>>, Expired |-> <<>>])

CauseType ==
  LET attributed == <<<<"owner", String>>, <<"ability", String>>>>
  IN  Choice([Strike |-> Append(attributed, <<"index", N2>>),
              Backlash |-> attributed, Splash |-> attributed,
              WallImpact |-> attributed, AbilityEffect |-> attributed,
              Hazard |-> <<>>, AuthoritativeResolution |-> <<>>])

EventType ==
  LET health == <<<<"player", String>>, <<"before", N2>>, <<"after", N2>>>>
  IN  Choice([
        ProjectileTrace |-> <<<<"trace", TraceType>>>>,
        Impact |-> <<<<"trace", N4>>, <<"impact", ImpactType>>>>,
        StrikeResolved |-> <<<<"owner", String>>, <<"ability", String>>,
                             <<"strike", StrikeType>>>>,
        TerrainChanged |-> <<<<"generation", N4>>, <<"dirty", List(Rectangle)>>>>,
        BlockChanged |-> <<<<"block", N4>>, <<"before", Option(N2)>>,
                           <<"after", Option(N2)>>, <<"was", Option(Rectangle)>>,
                           <<"is", Option(Rectangle)>>>>,
        HealthChanged |-> Append(health, <<"breakdown", Option(BreakdownType)>>),
        GaugeChanged |-> Append(health, <<"delta", N4>>),
        RandomOutcome |-> <<<<"owner", String>>, <<"ability", String>>,
                            <<"draw", RandomType>>>>,
        StatusChanged |-> <<<<"player", String>>, <<"status", Name>>,
                            <<"change", ChangeType>>>>,
        EntityMoved |-> <<<<"player", String>>, <<"start", Pair>>, <<"end", Pair>>,
                          <<"cause", Name>>>>,
        ObjectSpawned |-> <<<<"object", ObjectType>>>>,
        ObjectChanged |-> <<<<"previous", ObjectType>>, <<"object", ObjectType>>>>,
        ObjectRemoved |-> <<<<"previous", ObjectType>>, <<"cause", Name>>>>,
        PlayerEliminated |-> <<<<"player", String>>, <<"cause", CauseType>>>>,
        PassiveChoiceRequired |-> <<<<"player", String>>, <<"passives", List(String)>>>>,
        PassiveChosen |-> <<<<"player", String>>, <<"passive", String>>>>,
        TurnEnded |-> <<<<"player", String>>, <<"reason", Name>>>>,
        TurnOpened |-> <<<<"player", String>>, <<"turn", N4>>>>,
        MatchCompleted |-> <<<<"outcome", OutcomeType>>>>])

RejectionType ==
  Choice([SnapshotGenerationMismatch |-> <<<<"expected", N8>>, <<"actual", N8>>>>,
          CommandIdConflict |-> <<>>, Core |-> <<<<"reason", Name>>>>])

TransitionType ==
  Struct(<<<<"schema", N4>>, <<"id", String>>, <<"disposition", Name>>,
           <<"rejection", Option(RejectionType)>>, <<"pre", N8>>, <<"post", N8>>,
           <<"rate", N4>>, <<"lock", N4>>,
           <<"events", List(Struct(<<<<"tick", N4>>, <<"sequence", N4>>,
                                     <<"what", EventType>>>>))>>,
           <<"snapshot", SnapshotType>>, <<"hash", HashType>>>>)

RECURSIVE Measure(_, _)
Measure(type, value) ==
  LET fields(list) ==
        Total([i \in DOMAIN list |-> Measure(list[i][2], value[list[i][1]])])
      elements(t) == Total([i \in DOMAIN value |-> Measure(t, value[i])])
  IN  CASE type[1] = "int"    -> type[2]
        [] type[1] = "hex"    -> 4 + HexDigest
        [] type[1] = "string" -> 4 + Len(value)
        [] type[1] = "list"   -> 4 + elements(type[2])
        [] type[1] = "array"  -> elements(type[3])
        [] type[1] = "option" -> 1 + (IF value = None THEN 0
                                      ELSE Measure(type[2], value))
        [] type[1] = "struct" -> fields(type[2])
        [] type[1] = "choice" -> 1 + fields(type[2][value.kind])

TransitionMeasure(t) == TopLevelHeader + Measure(TransitionType, t)

=============================================================================
