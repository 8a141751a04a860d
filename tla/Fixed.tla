------------------------------- MODULE Fixed -------------------------------
(***************************************************************************)
(* The fixed-point arithmetic every spatial rule is written in (fixed.rs). *)
(* A position is a pair <<x, y>> of integers, y growing downwards, in      *)
(* units of which PositionScale make a terrain cell. Step is the stride of *)
(* every swept motion: SWEEP_STEP of displacement.rs and MOVE_STEP of      *)
(* movement.rs, a quarter of a cell in the code.                           *)
(***************************************************************************)
EXTENDS Integers

CONSTANTS PositionScale,   \* POSITION_SCALE
          Step,            \* SWEEP_STEP and MOVE_STEP
          BodyRadius       \* PLAYER_COLLISION_RADIUS

ASSUME ScaleAssumption ==
  /\ PositionScale \in Nat \ {0} /\ Step \in 1..PositionScale
  /\ PositionScale % Step = 0
  /\ BodyRadius \in Nat

Abs(n) == IF n < 0 THEN -n ELSE n
Least(a, b) == IF a <= b THEN a ELSE b
Greatest(a, b) == IF a >= b THEN a ELSE b

(* saturating_sub on an unsigned number.                                   *)
Monus(a, b) == Greatest(a - b, 0)

BasisPoints == 10000

(* to_cells(): the cell a position lies in, rounding towards minus         *)
(* infinity on both sides of zero.                                         *)
ToCells(p) == <<p[1] \div PositionScale, p[2] \div PositionScale>>

FromCells(c) == <<c[1] * PositionScale, c[2] * PositionScale>>

Plus(p, q)  == <<p[1] + q[1], p[2] + q[2]>>
Minus(p, q) == <<p[1] - q[1], p[2] - q[2]>>

(* round_divide(): to the nearest, a half away from zero.                  *)
RoundDivide(n, d) ==
  IF n < 0 THEN -((d \div 2 - n) \div d) ELSE (n + d \div 2) \div d

Scale(value, numerator, denominator) ==
  RoundDivide(value * numerator, denominator)

ApplyBasisPoints(value, bp) == Scale(value, bp, BasisPoints)

DistanceSquared(p, q) ==
  (p[1] - q[1]) * (p[1] - q[1]) + (p[2] - q[2]) * (p[2] - q[2])

WithinRadius(p, q, radius) == DistanceSquared(p, q) <= radius * radius

(* player_collision_center(): a character stands on its position and is    *)
(* hit around a point above it.                                            *)
CollisionCenter(p) == <<p[1], p[2] - BodyRadius>>

=============================================================================
