---------------------------- MODULE MCBoundary ----------------------------
(***************************************************************************)
(* A small world of bytes: ids of one to three letters, two of them        *)
(* prefixes of another; a sample of every structure and every value of the *)
(* enumerations the client reads, so that each field and each name the     *)
(* encodings write, count or project occurs.                               *)
(***************************************************************************)
EXTENDS Boundary

A == 65
B == 66

Ammo(n) == [policy |-> "Finite", remaining |-> n, maximum |-> 3]

Pawn(id, team, statuses, skin) ==
  [id |-> id, team |-> team, health |-> 2, max |-> 2, position |-> <<team, -1>>,
   loadout |-> DerivedLoadout(IF team = 1 THEN "crow" ELSE "leslie"), charge |-> 0,
   ammo |-> <<Ammo(1), Ammo(2), [policy |-> "Unlimited", remaining |-> 0, maximum |-> 0]>>,
   statuses |-> statuses,
   appearance |-> [skin |-> skin, effects |-> <<<<A>>, <<B>>, <<A>>>>, pose |-> <<B, B>>]]

Chilled == [kind |-> "Chill", magnitude |-> 2, turns |-> 1]
Burning == [kind |-> "Embers", magnitude |-> 1, turns |-> 2]

MCEmptyMatch ==
  [simulation |-> 1, content |-> 1, tick |-> 0, turn |-> 1, phase |-> "Movement",
   active |-> <<A>>, wind |-> -1, moves |-> 3, attacked |-> FALSE,
   terrain |-> [width |-> 2, height |-> 1, cells |-> <<0, 1>>],
   blocks |-> <<>>, players |-> <<>>, objects |-> <<>>, commands |-> <<>>,
   nextTerrain |-> 0, nextObject |-> 2, rng |-> 9, pending |-> "Passed",
   last |-> "TimedOut"]

Placed(n, owner, kind) ==
  [sequence |-> n, owner |-> owner, kind |-> kind, position |-> <<0, 0>>,
   health |-> 1, turns |-> 2]

Object(n, owner) == Placed(n, owner, "Turret")

Slab(n, x) ==
  [id |-> n, x |-> x, y |-> 0, width |-> 1, height |-> 1, material |-> "Soil",
   health |-> 2, max |-> 2, axis |-> "Columns"]

MCGrowth ==
  [list : {"players"},
   item : {Pawn(<<A>>, 1, <<Chilled, Burning>>, <<A>>),
           Pawn(<<A>>, 1, <<Burning, Chilled>>, <<B>>),
           Pawn(<<A>>, 1, <<>>, <<A>>), Pawn(<<B>>, 2, <<>>, <<A>>)}]
  \cup [list : {"objects"}, item : {Object(0, <<A>>), Object(1, <<B>>)}]
  \cup [list : {"blocks"}, item : {Slab(1, 0), Slab(2, 1)}]
  \cup [list : {"commands"}, item : {<<A>>, <<A, B>>, <<B>>, <<B, B>>}]

MCPictures ==
  {[MCEmptyMatch EXCEPT !.phase = phase] : phase \in DOMAIN PhaseName} \cup
  {[MCEmptyMatch EXCEPT
      !.players = <<Pawn(<<A>>, 1, <<Chilled, Burning>>, <<A>>),
                    Pawn(<<A, B>>, 2, <<>>, <<B>>)>>,
      !.objects = <<Object(1, <<A, B>>), Placed(2, <<A>>, "EmbeddedKnife"),
                    Placed(3, <<A>>, "GasCloud")>>,
      !.blocks = <<Slab(1, 0), [Slab(2, 1) EXCEPT !.material = "Wood"],
                   [Slab(3, 1) EXCEPT !.material = "ReinforcedStone", !.axis = "Rows"]>>]}

Envelopes ==
  [schema : {ContractVersion}, id : {<<A>>}, player : {<<A>>, <<B, A>>},
   turn : {1}, generation : {0}]
  \cup [schema : {ContractVersion}, id : {<<A, B>>}, player : {<<A>>}, turn : {1},
        generation : {256}]
  \cup [schema : {1}, id : {<<A>>}, player : {<<B>>}, turn : {1}, generation : {0}]
  \cup [schema : {ContractVersion}, id : {<<>>, <<32>>, <<A, A, A>>}, player : {<<B>>},
        turn : {0}, generation : {0}]

Bodies ==
  [kind : {"Timeout", "Pass", "Jump"}]
  \cup [kind : {"Move"}, dx : {-1, 255}]
  \cup [kind : {"Passive"}, passive : {<<97>>, <<A>>}]
  \cup [kind : {"Ability"}, slot : {"Basic", "Trinket"}, angle : {-256},
        power : {5}, target : {None, <<A>>, <<B>>}, second : {None, <<A>>}]
  \cup [kind : {"Ability"}, slot : {"BasicAlt", "Special"}, angle : {-256},
        power : {5}, target : {None}, second : {None}]

MCRequests == {body @@ envelope : body \in Bodies, envelope \in Envelopes}

Impact == [position |-> <<1, 2>>, tick |-> 3, cause |-> "Terrain"]
Trace(n) ==
  [trace |-> 0, owner |-> <<A>>, ability |-> <<B, B>>,
   samples |-> [i \in 1..n |-> <<i, 0, 0>>], impact |-> Impact]
Strike(delivery) ==
  [index |-> 0, target |-> <<A, B>>, point |-> <<0, 0>>, delivery |-> delivery,
   crit |-> "Landed", damage |-> 1, eliminated |-> TRUE]
Breakdown ==
  [direct |-> 1, splash |-> 0, backlash |-> 0, hazard |-> 0, wall |-> 0,
   healed |-> 0, critical |-> FALSE, knockback |-> <<0, 0>>, eliminated |-> FALSE]
Rectangle1 == <<0, 0, 1, 1>>

MCHappenings ==
  {[kind |-> "ProjectileTrace", trace |-> Trace(0)],
   [kind |-> "ProjectileTrace", trace |-> Trace(2)],
   [kind |-> "TerrainChanged", generation |-> 1, dirty |-> <<Rectangle1, Rectangle1>>],
   [kind |-> "BlockChanged", block |-> 1, before |-> 2, after |-> None,
    was |-> Rectangle1, is |-> None],
   [kind |-> "BlockChanged", block |-> 1, before |-> None, after |-> 1,
    was |-> None, is |-> Rectangle1],
   [kind |-> "HealthChanged", player |-> <<A>>, before |-> 2, after |-> 1, breakdown |-> None],
   [kind |-> "HealthChanged", player |-> <<A>>, before |-> 2, after |-> 1,
    breakdown |-> Breakdown],
   [kind |-> "GaugeChanged", player |-> <<A>>, before |-> 0, after |-> 1, delta |-> 1],
   [kind |-> "ObjectSpawned", object |-> Object(0, <<A>>)],
   [kind |-> "ObjectChanged", previous |-> Object(0, <<A>>), object |-> Object(0, <<A, B>>)],
   [kind |-> "PassiveChoiceRequired", player |-> <<A>>, passives |-> <<<<A>>, <<B, B>>>>],
   [kind |-> "PassiveChosen", player |-> <<A>>, passive |-> <<B>>],
   [kind |-> "TurnOpened", player |-> <<B>>, turn |-> 2]}
  \cup [kind : {"Impact"}, trace : {0},
        impact : {[Impact EXCEPT !.cause = cause] : cause \in DOMAIN ImpactName}]
  \cup [kind : {"EntityMoved"}, player : {<<A>>}, start : {<<0, 0>>}, end : {<<1, 0>>},
        cause : DOMAIN MovementName]
  \cup [kind : {"ObjectRemoved"}, previous : {Object(0, <<A>>)}, cause : DOMAIN RemovalName]
  \cup [kind : {"TurnEnded"}, player : {<<A, A>>}, reason : DOMAIN ReasonName]
  \cup [kind : {"StatusChanged"}, player : {<<A>>}, status : DOMAIN EffectName,
        change : {[kind |-> "Expired"]}]
  \cup [kind : {"StrikeResolved"}, owner : {<<A>>}, ability : {<<B>>},
        strike : {Strike([kind |-> "Projectile", trace |-> 0]),
                  Strike([kind |-> "Effect", effect |-> "Cluster"])}
                 \cup {[Strike([kind |-> "Melee"]) EXCEPT !.crit = crit] :
                         crit \in DOMAIN CritName}]
  \cup [kind : {"RandomOutcome"}, owner : {<<A>>}, ability : {<<A>>},
        draw : {[kind |-> "ChainStrikeTarget", count |-> 2, selected |-> 0,
                 target |-> <<B>>, destination |-> <<0, 0>>],
                [kind |-> "VeilstepPoint", bound |-> 4, x |-> 1, y |-> 1,
                 fallback |-> TRUE, drawn |-> <<0, 0>>, destination |-> <<0, 0>>]}]
  \cup [kind : {"StatusChanged"}, player : {<<A>>}, status : {"Embers"},
        change : {[kind |-> "Applied", magnitude |-> 1, turns |-> 2],
                  [kind |-> "Refreshed", magnitude |-> 1, turns |-> 2,
                   oldMagnitude |-> 1, oldTurns |-> 1],
                  [kind |-> "ChargeConsumed", remaining |-> 0],
                  [kind |-> "Ticked", turns |-> 1],
                  [kind |-> "Exhausted"]}]
  \cup [kind : {"PlayerEliminated"}, player : {<<A>>},
        cause : {[kind |-> "Strike", owner |-> <<A>>, ability |-> <<B>>, index |-> 1],
                 [kind |-> "Hazard"], [kind |-> "AuthoritativeResolution"]}
                \cup [kind : {"Backlash", "Splash", "WallImpact", "AbilityEffect"},
                      owner : {<<A>>}, ability : {<<B, B>>}]]
  \cup [kind : {"MatchCompleted"},
        outcome : {[kind |-> "Draw"], [kind |-> "Victory", team |-> 1]}]

(* OutOfAmmo is never constructed, and the client has no name for it.      *)
MCRefusals ==
  {None, [kind |-> "SnapshotGenerationMismatch", expected |-> 1, actual |-> 2],
   [kind |-> "CommandIdConflict"]}
  \cup [kind : {"Core"}, reason : DOMAIN RejectionName \ {"OutOfAmmo"}]

MCLobbies ==
  [version : {1, ContractVersion}, match : {<<A>>}, players : {<<>>},
   map : {"horizontal-test-array"}]
  \cup [version : {ContractVersion}, match : {<<>>, <<B>>}, players : {<<>>},
        map : {"crow-perch", "broken-battlements", "twin-spires", "nowhere"}]

Guest(id, team, character, skin) ==
  [id |-> id, team |-> team, character |-> character, skin |-> skin]

MCGuests ==
  {Guest(<<B>>, 1, "leslie", <<A>>), Guest(<<A>>, 1, "crow", <<A>>),
   Guest(<<A>>, 2, "kreena", <<A>>), Guest(<<A, B>>, 2, "erus", <<B>>),
   Guest(<<A, A, A>>, 2, "crow", <<A>>), Guest(<<B, B>>, 2, "nobody", <<A>>),
   Guest(<<B, A>>, 2, "erus", <<58>>)}

=============================================================================
