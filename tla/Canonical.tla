----------------------------- MODULE Canonical -----------------------------
(***************************************************************************)
(* The canonical byte encoding (canonical.rs) and what is written in it:   *)
(* a simulation state (hash.rs) and the two kinds of request a session     *)
(* answers (match_session.rs). A string is the sequence of its bytes.      *)
(*                                                                         *)
(* A digest stands for the bytes it is computed from: collisions of the    *)
(* 64-bit hash itself are left out.                                        *)
(***************************************************************************)
EXTENDS Integers, Sequences, SequencesExt

CONSTANT None      \* an absent optional value

(* Little endian, two's complement: width bytes of n.                      *)
Bytes(n, width) ==
  [k \in 1..width |->
     IF k > 4 THEN (IF n < 0 THEN 255 ELSE 0)
     ELSE (n \div 256 ^ (k - 1)) % 256]

U8(n)   == Bytes(n, 1)
U32(n)  == Bytes(n, 4)
U64(n)  == Bytes(n, 8)
Flag(b) == IF b THEN <<1>> ELSE <<0>>

StrUnprefixedBug(s) == s

Str(s) == U32(Len(s)) \o s

(* A sequence: its length, then its elements, already written.             *)
Items(written) == U32(Len(written)) \o FlattenSeq(written)

MaybeBareBug(s) == IF s = None THEN <<>> ELSE Str(s)

Maybe(s) == IF s = None THEN Flag(FALSE) ELSE Flag(TRUE) \o Str(s)

Section(tag) == <<255, tag>>

(* hash_canonical(): every stream opens with the encoding version.         *)
CanonicalEncodingVersion == 1
Digest(body) == U32(CanonicalEncodingVersion) \o body

(* The hand-assigned discriminants: a name's place in its table.           *)
Code(table, name) == (CHOOSE i \in DOMAIN table : table[i] = name) - 1

Reasons   == <<"Attacked", "Passed", "TimedOut", "Eliminated">>
Materials == <<"Empty", "Soil", "Wood", "ReinforcedStone">>
Objects   == <<"Turret", "EmbeddedKnife", "GasCloud">>
Policies  == <<"Finite", "Unlimited">>
Axes      == <<"Columns", "Rows">>
Slots     == <<"Basic", "BasicAlt", "Special", "Trinket">>
Phases    ==
  <<"MatchIntro", "TurnStart", "Movement", "AimingAndSelection",
    "PassiveSelection", "CommandLocked", "Resolution", "Settling",
    "StatusResolution", "VictoryCheck", "MatchComplete">>
Effects   ==
  <<"Knockback", "Chill", "Cluster", "Embers", "Tunnel", "Return", "Recoil",
    "SelfDamage", "Teleport", "Pull", "Push", "WallImpact", "Lockdown",
    "SpawnTurret", "Heal", "HealthTransfer", "MultiStrike", "GuaranteeCrit",
    "EmbedProjectile", "ChainDetonate", "Relocate", "Obscure">>

(* The order of byte strings.                                              *)
Before(s, t) ==
  \/ IsStrictPrefix(s, t)
  \/ \E i \in DOMAIN s \cap DOMAIN t :
       s[i] < t[i] /\ \A j \in 1..(i - 1) : s[j] = t[j]

-----------------------------------------------------------------------------
(* A simulation state. Every list is sorted before it is written, and what *)
(* a player looks like is not written at all.                              *)

Point(p) == U32(p[1]) \o U32(p[2])

StatusBytes(s) ==
  U8(Code(Effects, s.kind)) \o U32(s.magnitude) \o U8(s.turns)

AmmoBytes(a) ==
  U8(Code(Policies, a.policy)) \o U32(a.remaining) \o U32(a.maximum)

SortedStatuses(p) ==
  SortSeq(p.statuses, LAMBDA s, t : Code(Effects, s.kind) < Code(Effects, t.kind))

PlayerBytes(p) ==
  LET sorted == SortedStatuses(p)
  IN  Str(p.id) \o U8(p.team) \o U32(p.health) \o U32(p.max) \o
      Point(p.position) \o FlattenSeq([i \in 1..4 |-> Str(p.loadout[i])]) \o
      U32(p.charge) \o FlattenSeq([i \in 1..3 |-> AmmoBytes(p.ammo[i])]) \o
      Items([i \in DOMAIN sorted |-> StatusBytes(sorted[i])])

ObjectBytes(o) ==
  U32(o.sequence) \o Str(o.owner) \o U8(Code(Objects, o.kind)) \o
  Point(o.position) \o U32(o.health) \o U8(o.turns)

BlockBytes(b) ==
  U32(b.id) \o U32(b.x) \o U32(b.y) \o U32(b.width) \o U32(b.height) \o
  U8(Code(Materials, b.material)) \o U32(b.health) \o U32(b.max) \o
  U8(Code(Axes, b.axis))

MetadataBytes(s) ==
  U32(s.simulation) \o U32(s.content) \o U64(s.tick) \o U32(s.turn) \o
  U8(Code(Phases, s.phase)) \o Str(s.active) \o U32(s.wind) \o U32(s.moves) \o
  Flag(s.attacked) \o U32(s.nextTerrain) \o U32(s.nextObject) \o U64(s.rng) \o
  U8(Code(Reasons, s.pending)) \o U8(Code(Reasons, s.last))

TerrainBytes(t) ==
  Section(3) \o U32(t.width) \o U32(t.height) \o Str(t.cells)

StateBytes(s) ==
  LET players  == SortSeq(s.players, LAMBDA p, q : Before(p.id, q.id))
      objects  == SortSeq(s.objects, LAMBDA o, p : o.sequence < p.sequence)
      blocks   == SortSeq(s.blocks, LAMBDA b, c : b.id < c.id)
      commands == SortSeq(s.commands, Before)
  IN  Section(1) \o MetadataBytes(s) \o
      Section(2) \o Items([i \in DOMAIN players |-> PlayerBytes(players[i])]) \o
      Section(5) \o Items([i \in DOMAIN objects |-> ObjectBytes(objects[i])]) \o
      Section(6) \o Items([i \in DOMAIN blocks |-> BlockBytes(blocks[i])]) \o
      TerrainBytes(s.terrain) \o
      Section(4) \o Items([i \in DOMAIN commands |-> Str(commands[i])])

HashState(s) == Digest(StateBytes(s))

-----------------------------------------------------------------------------
(* A request: a command of a client, or the authority's timeout under a    *)
(* domain tag of its own.                                                  *)

Envelope(r) ==
  U32(r.schema) \o Str(r.id) \o Str(r.player) \o U32(r.turn) \o U64(r.generation)

CommandBytes(r) ==
  CASE r.kind = "Move"    -> U8(0) \o U32(r.dx)
    [] r.kind = "Ability" -> U8(1) \o U8(Code(Slots, r.slot)) \o U32(r.angle) \o
                             U32(r.power) \o Maybe(r.target) \o Maybe(r.second)
    [] r.kind = "Passive" -> U8(2) \o Str(r.passive)
    [] r.kind = "Pass"    -> U8(3)
    [] r.kind = "Jump"    -> U8(4)

RequestBytes(r) ==
  IF r.kind = "Timeout"
    THEN Section(33) \o Envelope(r)
    ELSE Section(32) \o Envelope(r) \o CommandBytes(r)

RequestDigest(r) == Digest(RequestBytes(r))

=============================================================================
