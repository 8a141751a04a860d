------------------------------ MODULE Terrain ------------------------------
(***************************************************************************)
(* The ground and how one moves over it: the mask of cells (terrain.rs),   *)
(* the destructible blocks that keep a part of it (blocks.rs,              *)
(* block_ops.rs, map.rs), and locomotion (movement.rs).                    *)
(*                                                                         *)
(* A block is a rectangle of cells with health; its health says how many   *)
(* of its columns stand, and every operation rewrites the mask to match.   *)
(* The ground is a record of the mask and of the blocks by id; a destroyed *)
(* block stays on the list with health 0.                                  *)
(***************************************************************************)
EXTENDS Fixed, FiniteSets, SequencesExt

-----------------------------------------------------------------------------

(***************************************************************************)
(* The terrain mask and the operations that carve it (terrain.rs): one     *)
(* material for every cell of the map, the only truth about what is solid. *)
(* Soil stands for every material a SOFT mask permits.                     *)
(***************************************************************************)

CONSTANTS Width, Height    \* of the map, in cells

ASSUME MapAssumption == Width \in Nat \ {0} /\ Height \in Nat \ {0}

Material == {"Empty", "Soil", "ReinforcedStone"}

Cells == (0..Width - 1) \X (0..Height - 1)

(* material_at(): a cell outside the map reads as empty.                   *)
MaterialAt(mask, c) == IF c \in Cells THEN mask[c] ELSE "Empty"

SolidAt(mask, c) == MaterialAt(mask, c) # "Empty"

IsSolidAt(mask, p) == SolidAt(mask, ToCells(p))

(* An operation subtracts a capsule: the cells within radius of the        *)
(* segment from one cell to another. A circle is a capsule of length 0.    *)
Circle(center, radius, permits) ==
  [from |-> ToCells(center), to |-> ToCells(center),
   radius |-> radius, permits |-> permits]

Capsule(start, end, radius, permits) ==
  [from |-> ToCells(start), to |-> ToCells(end),
   radius |-> radius, permits |-> permits]

(* point_in_capsule(): nearest to an end of the segment, or to a point     *)
(* inside it, compared through the cross product to avoid a division.      *)
InCapsule(c, op) ==
  LET line   == Minus(op.to, op.from)
      point  == Minus(c, op.from)
      length == line[1] * line[1] + line[2] * line[2]
      dot    == point[1] * line[1] + point[2] * line[2]
      cross  == point[1] * line[2] - point[2] * line[1]
  IN  IF dot <= 0 THEN WithinRadius(c, op.from, op.radius)
      ELSE IF dot >= length THEN WithinRadius(c, op.to, op.radius)
      ELSE cross * cross <= op.radius * op.radius * length

(* terrain::apply_operation(): clears every cell of the shape whose        *)
(* material the operation may remove.                                      *)
Carve(mask, op) ==
  [c \in Cells |-> IF mask[c] \in op.permits /\ InCapsule(c, op)
                     THEN "Empty" ELSE mask[c]]

Soft == {"Soil"}           \* MaterialMask::SOFT

-----------------------------------------------------------------------------

CONSTANTS NoImpact,        \* erosion without a point of impact (None)
          MaxPasses        \* MAX_PASSES of settle_unsupported_blocks

Columns(b) == b.x .. b.x + b.w - 1
Rows(b)    == b.y .. b.y + b.h - 1
Span(b)    == Columns(b) \X Rows(b)

CeilDiv(n, d) == (n + d - 1) \div d

(* solid_columns(): health above zero keeps at least one column.           *)
SolidColumns(b) ==
  IF b.w = 0 \/ b.health = 0 \/ b.max = 0 THEN 0
  ELSE Least(CeilDiv(b.w * b.health, b.max), b.w)

(* erosion_rank(): by distance from the impact, or from the nearer edge.   *)
ErosionRank(b, x, impact) ==
  IF impact = NoImpact THEN Least(x - b.x, b.x + b.w - 1 - x)
  ELSE Abs(x - impact)

ErodesBefore(b, x, y, impact) ==
  \/ ErosionRank(b, x, impact) < ErosionRank(b, y, impact)
  \/ ErosionRank(b, x, impact) = ErosionRank(b, y, impact) /\ x < y

(* surviving_columns(): all but the columns that erode first.              *)
SurvivingColumns(b, impact) ==
  {x \in Columns(b) :
     Cardinality({y \in Columns(b) : ErodesBefore(b, y, x, impact)})
       >= b.w - SolidColumns(b)}

(* apply_to_mask(): rewrites the whole span, whatever else lies in it.     *)
ApplyToMask(mask, b, impact) ==
  LET standing == SurvivingColumns(b, impact)
  IN  [c \in Cells |->
         IF c \notin Span(b) THEN mask[c]
         ELSE IF c[1] \in standing THEN b.material ELSE "Empty"]

(* Block ids in ascending order, the order of the authored lists.          *)
Ascending(ids) ==
  SelectSeq([i \in 1..Max(ids \cup {0}) |-> i], LAMBDA i : i \in ids)

(* build_mask(): the blocks of a map written into an empty mask in order.  *)
BuildMask(blocks) ==
  FoldLeft(LAMBDA mask, id : ApplyToMask(mask, blocks[id], NoImpact),
           [c \in Cells |-> "Empty"],
           Ascending(DOMAIN blocks))

DamageBlock(b, amount) == [b EXCEPT !.health = Monus(@, amount)]

(* A rectangle is the record of its inclusive ends.                        *)
OperationBounds(op) ==
  [left   |-> Least(op.from[1], op.to[1]) - op.radius,
   top    |-> Least(op.from[2], op.to[2]) - op.radius,
   right  |-> Greatest(op.from[1], op.to[1]) + op.radius,
   bottom |-> Greatest(op.from[2], op.to[2]) + op.radius]

BlockBounds(b) ==
  [left |-> b.x, top |-> b.y, right |-> b.x + b.w - 1, bottom |-> b.y + b.h - 1]

RectsOverlap(a, b) ==
  /\ a.left <= b.right /\ b.left <= a.right
  /\ a.top <= b.bottom /\ b.top <= a.bottom

CountSolid(mask, r) ==
  Cardinality({c \in Cells : /\ c[1] \in r.left..r.right
                             /\ c[2] \in r.top..r.bottom
                             /\ mask[c] # "Empty"})

ExpectedSolidCells(b) == SolidColumns(b) * b.h

(* proportional_damage(): the share of the cells, rounded up.              *)
ProportionalDamage(b, cleared) == CeilDiv(b.max * cleared, b.w * b.h)

-----------------------------------------------------------------------------
(* Operations routed through block health, and the fall of structures that *)
(* lost their support (block_ops.rs). g is anything with the fields mask   *)
(* and blocks.                                                             *)

ReDerive(g, id, op) ==
  LET b       == g.blocks[id]
      cleared == Monus(ExpectedSolidCells(b), CountSolid(g.mask, BlockBounds(b)))
      hurt    == DamageBlock(b, ProportionalDamage(b, cleared))
  IN  IF RectsOverlap(OperationBounds(op), BlockBounds(b))
        THEN [g EXCEPT !.blocks[id] = hurt,
                       !.mask = ApplyToMask(@, hurt, op.to[1])]
        ELSE g

(* footprint_blocked(): the whole rectangle must be free at its new row,   *)
(* the columns it has already lost included.                               *)
FootprintBlocked(mask, b, row) ==
  \E c \in Columns(b) \X (row .. row + b.h - 1) :
    \/ c[2] \notin 0..Height - 1
    \/ c \notin Span(b) /\ SolidAt(mask, c)

(* fall_distance(): down to the first obstacle or the bottom of the map.   *)
FallDistance(mask, b) ==
  CHOOSE k \in 0..Height :
    /\ \A j \in 1..k : ~FootprintBlocked(mask, b, b.y + j)
    /\ FootprintBlocked(mask, b, b.y + k + 1)

(* One block of settle_once(): lifted out of the mask and written back     *)
(* lower, its columns now eroding from its edges.                          *)
Drop(g, id) ==
  LET b    == g.blocks[id]
      fall == FallDistance(g.mask, b)
      gone == [b EXCEPT !.health = 0]
      low  == [b EXCEPT !.y = @ + fall]
  IN  IF b.health = 0 \/ fall = 0 THEN g
      ELSE [g EXCEPT !.blocks[id] = low,
                     !.mask = ApplyToMask(ApplyToMask(@, gone, NoImpact),
                                          low, NoImpact)]

(* settle_once(): the lowest origin first, in the order of the ids on a    *)
(* tie, both as they were when the pass began.                             *)
FallOrder(blocks) ==
  SetToSortSeq(DOMAIN blocks,
    LAMBDA i, j : \/ blocks[i].y > blocks[j].y
                  \/ blocks[i].y = blocks[j].y /\ i < j)

SettleOnce(g) == FoldLeft(Drop, g, FallOrder(g.blocks))

(* settle_unsupported_blocks(): passes until one moves nothing.            *)
SettleUnsupported(g) ==
  LET pass(run) == LET fallen == SettleOnce(run.ground)
                   IN  [ground |-> fallen, moved |-> fallen.blocks # run.ground.blocks]
      next(run, n) == IF run.moved THEN pass(run) ELSE run
  IN  FoldLeft(next, [ground |-> g, moved |-> TRUE],
               [n \in 1..MaxPasses |-> n]).ground

ApplyOperationHangsBug(g, op) ==
  FoldLeft(LAMBDA acc, id : ReDerive(acc, id, op),
           [g EXCEPT !.mask = Carve(@, op)],
           SetToSortSeq(DOMAIN g.blocks, <))

(* block_ops::apply_operation(): carve, then each block the operation      *)
(* reaches in ascending id, then the falls. The number of cells it counts  *)
(* as removed is left out.                                                 *)
ApplyOperation(g, op) ==
  SettleUnsupported(
    FoldLeft(LAMBDA acc, id : ReDerive(acc, id, op),
             [g EXCEPT !.mask = Carve(@, op)],
             SetToSortSeq(DOMAIN g.blocks, <)))

-----------------------------------------------------------------------------

(***************************************************************************)
(* Walking, jumping and falling over the mask. w is a world: the ground,   *)
(* the players' position and health, the active player's movement          *)
(* allowance. No ability of the roster pins anyone, so the Lockdown guard  *)
(* of walk() and jump() is left out.                                       *)
(***************************************************************************)

CONSTANTS Player,          \* ordered, as player ids are
          MaxHealth

ASSUME PlayerAssumption == Player \subseteq Nat /\ Player # {}

Alive(w) == {p \in Player : w.health[p] > 0}

CanStandAt(mask, at) ==
  ~IsSolidAt(mask, at) /\ IsSolidAt(mask, Plus(at, <<0, PositionScale>>))

IsBelowMap(at) == ToCells(at)[2] >= Height

(* One step of walk(): level if the cell is free, else up one cell if that *)
(* one is, else the walk has stopped.                                      *)
Stride(mask, walk, dir) ==
  LET level  == Plus(walk.at, <<dir * Step, 0>>)
      raised == Plus(level, <<0, -PositionScale>>)
      gone(to) == [walk EXCEPT !.at = to, !.travelled = @ + Step]
  IN  IF walk.stopped THEN walk
      ELSE IF ~IsSolidAt(mask, level) THEN gone(level)
      ELSE IF ~IsSolidAt(mask, raised) THEN gone(raised)
      ELSE [walk EXCEPT !.stopped = TRUE]

(* walk(): no farther than the allowance, which pays for what was covered. *)
WalkThroughBug(w, p, dx) ==
  LET dir     == IF dx < 0 THEN -1 ELSE 1
      budget  == Least(Abs(dx), Greatest(w.moves, 0))
  IN  [w EXCEPT !.pos[p] = Plus(@, <<dir * budget, 0>>),
                !.moves = @ - budget]

Walk(w, p, dx) ==
  LET dir     == IF dx < 0 THEN -1 ELSE 1
      budget  == Least(Abs(dx), Greatest(w.moves, 0))
      stepped == FoldLeft(LAMBDA walk, n : Stride(w.mask, walk, dir),
                   [at |-> w.pos[p], travelled |-> 0, stopped |-> FALSE],
                   [n \in 1..budget \div Step |-> n])
  IN  [w EXCEPT !.pos[p] = stepped.at, !.moves = @ - stepped.travelled]

(* jump(): up to two cells, less under a ceiling; any rise costs a cell.   *)
JumpRise(mask, at) ==
  CHOOSE k \in 0..(2 * PositionScale) \div Step :
    /\ \A j \in 1..k : ~IsSolidAt(mask, Plus(at, <<0, -j * Step>>))
    /\ \/ k = (2 * PositionScale) \div Step
       \/ IsSolidAt(mask, Plus(at, <<0, -(k + 1) * Step>>))

Hop(w, p) ==
  LET rise == JumpRise(w.mask, w.pos[p])
  IN  IF rise = 0 THEN w
      ELSE [w EXCEPT !.pos[p] = Plus(@, <<0, -rise * Step>>),
                     !.moves = @ - PositionScale]

(* settle(), one player: nothing if it can stand, else down a step at a    *)
(* time until the next step is solid or below the map, which is fatal.     *)
Fall(w, p) ==
  LET at    == w.pos[p]
      below(k) == Plus(at, <<0, k * Step>>)
      stop  == CHOOSE k \in 1..((Height + 4) * PositionScale) :
                 /\ IsBelowMap(below(k)) \/ IsSolidAt(w.mask, below(k))
                 /\ \A j \in 1..k - 1 :
                      ~IsBelowMap(below(j)) /\ ~IsSolidAt(w.mask, below(j))
  IN  IF p \notin Alive(w) \/ CanStandAt(w.mask, at) THEN w
      ELSE IF IsBelowMap(below(stop))
        THEN [w EXCEPT !.pos[p] = below(stop), !.health[p] = 0]
        ELSE [w EXCEPT !.pos[p] = below(stop - 1)]

SettlePlayers(w) == FoldLeft(Fall, w, SetToSortSeq(Player, <))

=============================================================================
