------------------------------- MODULE Setup -------------------------------
(***************************************************************************)
(* How a match comes to be: the create envelope a host sends (wire.rs,     *)
(* lib.rs), the validation and seating of its roster (match_setup.rs), the *)
(* authored maps (map.rs) and kits (character_roster.rs), the first settle *)
(* (match_host.rs), and what the client is told of the characters.         *)
(*                                                                         *)
(* Names of maps and characters are strings; a name that is not in a       *)
(* catalog is refused with the same answer whatever its bytes are.         *)
(***************************************************************************)
EXTENDS Requests

CONSTANTS MaxMatchPlayers,       \* MAX_MATCH_PLAYERS
          MaxAppearanceBytes,    \* the longest appearance id
          InvalidConfig          \* the refusal of a well-formed envelope

MinMatchPlayers == 2

(* The launch roster: health and the abilities of the three slots, their   *)
(* ids shortened to the initial of the character and a digit.              *)
LaunchCharacters ==
  [leslie |-> [health |-> 340, kit |-> <<<<76, 49>>, <<76, 50>>, <<76, 51>>>>],
   crow   |-> [health |-> 250, kit |-> <<<<67, 49>>, <<67, 50>>, <<67, 51>>>>],
   erus   |-> [health |-> 270, kit |-> <<<<69, 49>>, <<69, 50>>, <<69, 51>>>>],
   kreena |-> [health |-> 260, kit |-> <<<<75, 49>>, <<75, 50>>, <<75, 51>>>>]]

TrenchSpade == <<116>>

(* derived_loadout(): the retired third slot holds the same tool for all.  *)
DerivedLoadout(character) ==
  LET kit == LaunchCharacters[character].kit
  IN  <<kit[1], kit[2], TrenchSpade, kit[3]>>

(* find_by_kit(), for a client: the character a loadout belongs to.        *)
Announced(loadout) ==
  LET owners == {c \in DOMAIN LaunchCharacters : DerivedLoadout(c) = loadout}
  IN  IF owners = {} THEN "unknown" ELSE CHOOSE c \in owners : TRUE

-----------------------------------------------------------------------------
(* The authored maps: blocks by id, and the cells players start in.        *)

Block(x, y, w, h, material, health) ==
  [x |-> x, y |-> y, w |-> w, h |-> h, material |-> material,
   health |-> health, max |-> health]

StackBlock(x, y)         == Block(x, y, 4, 3, "Soil", 180)
SoftPlatform(x, y, w, h) == Block(x, y, w, h, "Soil", 180)
MainStage(x, y, w)       == Block(x, y, w, 3, "ReinforcedStone", 999)

HorizontalTestArray ==
  [width |-> 50, height |-> 20,
   blocks |-> [i \in 1..8 |-> Block(6 * (i - 1), 8, 4, 3, "Soil", 100)],
   spawns |-> [i \in 1..8 |-> <<6 * (i - 1) + 2, 6>>]]

CrowPerch ==
  [width |-> 64, height |-> 30,
   blocks |-> <<StackBlock(10, 15), StackBlock(10, 18), StackBlock(10, 21),
                StackBlock(50, 15), StackBlock(50, 18), StackBlock(50, 21),
                SoftPlatform(26, 8, 12, 2)>> @@ (100 :> MainStage(6, 24, 52)),
   spawns |-> <<<<12, 13>>, <<52, 13>>>>]

BrokenBattlements ==
  [width |-> 68, height |-> 32,
   blocks |-> <<StackBlock(8, 20), StackBlock(8, 23),
                StackBlock(26, 17), StackBlock(26, 20), StackBlock(26, 23),
                StackBlock(32, 17), StackBlock(32, 20), StackBlock(32, 23),
                StackBlock(56, 20), StackBlock(56, 23)>>
              @@ (100 :> MainStage(6, 26, 56)),
   spawns |-> <<<<10, 18>>, <<58, 18>>>>]

TwinSpires ==
  [width |-> 60, height |-> 30,
   blocks |-> <<StackBlock(10, 18), StackBlock(10, 21),
                StackBlock(28, 15), StackBlock(28, 18), StackBlock(28, 21),
                StackBlock(46, 18), StackBlock(46, 21)>>
              @@ (100 :> MainStage(6, 24, 48)),
   spawns |-> <<<<12, 16>>, <<48, 16>>>>]

Catalog ==
  "horizontal-test-array" :> HorizontalTestArray @@ "crow-perch" :> CrowPerch @@
  "broken-battlements" :> BrokenBattlements @@ "twin-spires" :> TwinSpires

-----------------------------------------------------------------------------

IsAppearanceId(s) ==
  Len(s) \in 1..MaxAppearanceBytes /\ Range(s) \subseteq AlphaNumeric \cup {45, 46, 95}

(* validate_roster().                                                      *)
ValidRoster(players) ==
  /\ \A i \in DOMAIN players :
       /\ IsMatchLocalId(players[i].id)
       /\ \A j \in 1..(i - 1) : players[j].id # players[i].id
       /\ players[i].character \in DOMAIN LaunchCharacters
  /\ Cardinality({players[i].team : i \in DOMAIN players}) >= 2

NewPlayer(player, spawn) ==
  LET health == LaunchCharacters[player.character].health
  IN  [id |-> player.id, team |-> player.team, health |-> health, max |-> health,
       position |-> FromCells(spawn), loadout |-> DerivedLoadout(player.character),
       skin |-> player.skin]

(* The spawn points go out in lobby order, and the list is then sorted.    *)
Seated(players, spawns) ==
  SortSeq([i \in 1..Least(Len(players), Len(spawns)) |->
             NewPlayer(players[i], spawns[i])],
          LAMBDA p, q : Before(p.id, q.id))

BuildInitialCrowdedBug(config) ==
  IF /\ Len(config.players) \in MinMatchPlayers..MaxMatchPlayers
     /\ config.map \in DOMAIN Catalog
     /\ ValidRoster(config.players)
    THEN [map     |-> Catalog[config.map],
          players |-> Seated(config.players, Catalog[config.map].spawns)]
    ELSE InvalidConfig

(* build_initial_state().                                                  *)
BuildInitial(config) ==
  IF /\ Len(config.players) \in MinMatchPlayers..MaxMatchPlayers
     /\ config.map \in DOMAIN Catalog
     /\ Len(config.players) <= Len(Catalog[config.map].spawns)
     /\ ValidRoster(config.players)
    THEN [map     |-> Catalog[config.map],
          players |-> Seated(config.players, Catalog[config.map].spawns)]
    ELSE InvalidConfig

Ground(Width, Height, Player, MaxHealth, NoImpact, MaxPasses) == INSTANCE Terrain

(* MatchHost::start(): the players settle where they were seated.          *)
Start(m) ==
  LET n == Len(m.players)
      mask == Ground(m.map.width, m.map.height, 1..n, 0, None, 0)!
                BuildMask(m.map.blocks)
      w == Ground(m.map.width, m.map.height, 1..n, 0, None, 0)!SettlePlayers(
             [mask   |-> mask,
              pos    |-> [i \in 1..n |-> m.players[i].position],
              health |-> [i \in 1..n |-> m.players[i].health]])
  IN  [i \in 1..n |-> [m.players[i] EXCEPT !.position = w.pos[i],
                                           !.health = w.health[i]]]

(* db_sim_match_create(): a fifth player already fails the decoding.       *)
CreateMatch(config) ==
  IF Len(config.players) > MaxMatchPlayers THEN Malformed
  ELSE IF config.version # ContractVersion THEN Unsupported
  ELSE IF \/ ~IsMatchLocalId(config.match)
          \/ \E i \in DOMAIN config.players : ~IsAppearanceId(config.players[i].skin)
          \/ BuildInitial(config) = InvalidConfig
    THEN InvalidConfig
    ELSE Start(BuildInitial(config))

=============================================================================
