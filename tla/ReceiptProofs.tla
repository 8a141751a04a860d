---------------------------- MODULE ReceiptProofs ----------------------------
(***************************************************************************)
(* Theorems about ReceiptPlay: what the receipt of an ability says of the  *)
(* match. The account of an ability is built strike by strike, and the     *)
(* proof is about what it tells at every moment in between (Tellings):     *)
(* health before is health now plus what is itemised (Explained), kills    *)
(* name the dead and name them once (Killed), drawing the records' dice    *)
(* again ends at the generator now, and critical strikes fit the ability.  *)
(* Until a cluster drops the records also add up to the items (Summed),    *)
(* and in a barrage every hit delivered one strike (Delivered). One strike *)
(* keeps all of it (StrikeTells); projectiles, blows and drops are loops   *)
(* over strikes or over damage; and what the host does to the health it is *)
(* handed is to let players fall (Falls). Whoever a strike says it killed  *)
(* had nothing left just then (Finished), which is what makes the causes   *)
(* of death the session reports the right ones.                            *)
(*                                                                         *)
(* The events are a sequence of sequences, flattened and sorted. Who is    *)
(* told of what (Complete) is a fact of the pieces; sorting keeps it,      *)
(* because the place of an event is how many go before it and no two have  *)
(* the same place; and the order follows from the ticks and the ranks.     *)
(*                                                                         *)
(* Loops are FoldLefts, and the lemmas that take them apart (UpTo,         *)
(* Recursion, FoldPath) read as those of LifecycleProofs: neither module   *)
(* can extend the other, and both need them.                               *)
(***************************************************************************)
EXTENDS ReceiptPlay, CallProofs, SequenceTheorems, WellFoundedInduction

(* Induction up to N, over a set and not over an operator: no provers here *)
(* take the library's induction theorems, so the least number not in T is  *)
(* asked for instead (WFMin).                                              *)
LEMMA UpTo ==
  ASSUME NEW T, NEW N \in Nat, 0 \in T,
         \A n \in 0..(N - 1) : n \in T => n + 1 \in T
  PROVE  0..N \subseteq T
<1> DEFINE Bad == {n \in 0..N : n \notin T}
<1> SUFFICES ASSUME Bad # {} PROVE FALSE
  OBVIOUS
<1>0. Bad \subseteq Nat
  OBVIOUS
<1>1. PICK x \in Bad : \A y \in Bad : ~ (<<y, x>> \in OpToRel(<, Nat))
  BY <1>0, NatLessThanWellFounded, WFMin
<1>2. x \in 0..N /\ x \notin T /\ x # 0
  OBVIOUS
<1>3. x - 1 \in 0..(N - 1) /\ x = (x - 1) + 1
  BY <1>2
<1>4. x - 1 \in Bad
  BY <1>2, <1>3
<1>5. <<x - 1, x>> \in OpToRel(<, Nat)
  BY <1>2, <1>3 DEF OpToRel
<1> QED BY <1>1, <1>4, <1>5

(* f is the walk of a loop: where it starts, and one turn of it after      *)
(* another.                                                                *)
Walks(f, N, base, step) == f[0] = base /\ \A n \in 1..N : f[n] = step[n][f[n - 1]]

(* Every loop has a walk.                                                  *)
LEMMA Recursion ==
  ASSUME NEW N \in Nat, NEW base, NEW S, base \in S,
         NEW step \in [1..N -> [S -> S]]
  PROVE  \E f \in [0..N -> S] : Walks(f, N, base, step)
<1> DEFINE Has(m) == \E f \in [0..m -> S] :
             \A n \in 0..m : f[n] = IF n = 0 THEN base ELSE step[n][f[n - 1]]
<1> DEFINE T == {m \in 0..N : Has(m)}
<1>1. Has(0)
  <2> DEFINE f == [n \in 0..0 |-> base]
  <2>1. f \in [0..0 -> S] OBVIOUS
  <2>2. \A n \in 0..0 : f[n] = IF n = 0 THEN base ELSE step[n][f[n - 1]] OBVIOUS
  <2> QED BY <2>1, <2>2
<1>2. ASSUME NEW m \in 0..(N - 1), Has(m) PROVE Has(m + 1)
  <2>1. PICK f \in [0..m -> S] :
            \A n \in 0..m : f[n] = IF n = 0 THEN base ELSE step[n][f[n - 1]]
    BY <1>2
  <2> DEFINE g == [n \in 0..(m + 1) |-> IF n = m + 1 THEN step[m + 1][f[m]] ELSE f[n]]
  <2>2. step[m + 1][f[m]] \in S
    <3>1. m + 1 \in 1..N /\ m \in 0..m OBVIOUS
    <3> QED BY <3>1
  <2>3. g \in [0..(m + 1) -> S]
    <3>1. \A n \in 0..(m + 1) : n # m + 1 => n \in 0..m OBVIOUS
    <3> QED BY <2>2, <3>1
  <2>4. ASSUME NEW n \in 0..(m + 1)
        PROVE  g[n] = IF n = 0 THEN base ELSE step[n][g[n - 1]]
    <3>1. CASE n = m + 1
      <4>1. g[m + 1] = step[m + 1][f[m]] /\ g[m] = f[m] OBVIOUS
      <4> QED BY <3>1, <4>1
    <3>2. CASE n \in 0..m
      <4>1. g[n] = f[n] BY <3>2
      <4>2. f[n] = IF n = 0 THEN base ELSE step[n][f[n - 1]] BY <2>1, <3>2
      <4>3. n # 0 => g[n - 1] = f[n - 1] BY <3>2
      <4> QED BY <4>1, <4>2, <4>3
    <3> QED BY <3>1, <3>2
  <2> HIDE DEF g
  <2> QED BY <2>3, <2>4
<1>3. 0 \in T BY <1>1
<1> HIDE DEF Has
<1>4. \A m \in 0..(N - 1) : m \in T => m + 1 \in T BY <1>2
<1>5. N \in T
  <2>1. 0..N \subseteq T BY <1>3, <1>4, UpTo
  <2> QED BY <2>1
<1>6. Has(N) BY <1>5
<1>7. PICK f \in [0..N -> S] :
            \A n \in 0..N : f[n] = IF n = 0 THEN base ELSE step[n][f[n - 1]]
  BY <1>6 DEF Has
<1>8. Walks(f, N, base, step)
  BY <1>7 DEF Walks
<1> QED BY <1>8

(* The last of the first n numbers, and the rest of them.                  *)
LEMMA MaxOfPrefix ==
  ASSUME NEW n \in Nat \ {0}
  PROVE  Max(1..n) = n /\ (1..n) \ {Max(1..n)} = 1..(n - 1)
<1>1. Max(1..n) = n
  BY DEF Max
<1> QED BY <1>1

(* A set of some of the first N numbers has a largest.                     *)
LEMMA MaxOfSome ==
  ASSUME NEW N \in Nat, NEW s \in SUBSET (1..N), s # {}
  PROVE  Max(s) \in s /\ \A i \in s : i <= Max(s)
<1> DEFINE Above == {n \in 0..N : \A i \in s : i <= N - n}
<1> SUFFICES \E x \in s : \A y \in s : x >= y
  BY DEF Max
<1> SUFFICES ASSUME \A x \in s : \E y \in s : y > x PROVE FALSE
  OBVIOUS
<1>1. 0 \in Above
  OBVIOUS
<1>2. \A n \in 0..(N - 1) : n \in Above => n + 1 \in Above
  OBVIOUS
<1>3. 0..N \subseteq Above
  <2> HIDE DEF Above
  <2> QED BY <1>1, <1>2, UpTo
<1>4. N \in Above
  BY <1>3
<1>5. PICK i \in s : TRUE
  OBVIOUS
<1>6. i <= N - N /\ i \in 1..N
  BY <1>4
<1> QED BY <1>6

(* A fold of the community modules: it takes the largest index of a set    *)
(* last.                                                                   *)
Folds(f, N, base, step) ==
  \A s \in SUBSET (1..N) :
    f[s] = IF s = {} THEN base ELSE step[Max(s)][f[s \ {Max(s)}]]

(* What is known of such a fold before one knows it stays within a set.    *)
Unfolds(f, N, base, step, S) ==
  /\ f[{}] = base
  /\ \A s \in SUBSET (1..N) :
       s # {} /\ f[s \ {Max(s)}] \in S => f[s] = step[Max(s)][f[s \ {Max(s)}]]

(* The fold over the first N indices is the end of a walk.                 *)
Reaches(iter, N, base, step, S) ==
  \E f \in [0..N -> S] : Walks(f, N, base, step) /\ f[N] = iter[1..N]

(* Such a fold exists for every step that stays within a set.              *)
LEMMA FoldExists ==
  ASSUME NEW N \in Nat, NEW base, NEW S, base \in S,
         NEW step \in [1..N -> [S -> S]]
  PROVE  \E f \in [SUBSET (1..N) -> S] : Folds(f, N, base, step)
<1> DEFINE Has(m) == \E f \in [SUBSET (1..m) -> S] : \A s \in SUBSET (1..m) :
             f[s] = IF s = {} THEN base ELSE step[Max(s)][f[s \ {Max(s)}]]
<1> DEFINE T == {m \in 0..N : Has(m)}
<1>1. Has(0)
  <2> DEFINE f == [s \in SUBSET (1..0) |-> base]
  <2>1. f \in [SUBSET (1..0) -> S] OBVIOUS
  <2>2. \A s \in SUBSET (1..0) : s = {} OBVIOUS
  <2> QED BY <2>1, <2>2
<1>2. ASSUME NEW m \in 0..(N - 1), Has(m) PROVE Has(m + 1)
  <2>1. PICK f \in [SUBSET (1..m) -> S] : \A s \in SUBSET (1..m) :
             f[s] = IF s = {} THEN base ELSE step[Max(s)][f[s \ {Max(s)}]]
    BY <1>2
  <2> DEFINE g == [s \in SUBSET (1..(m + 1)) |->
                     IF m + 1 \in s THEN step[m + 1][f[s \ {m + 1}]] ELSE f[s]]
  <2>2. ASSUME NEW s \in SUBSET (1..(m + 1))
        PROVE  /\ s \ {m + 1} \in SUBSET (1..m)
               /\ m + 1 \notin s => s \in SUBSET (1..m)
               /\ m + 1 \in s => Max(s) = m + 1
    <3>1. m + 1 \in s => Max(s) = m + 1
      <4> SUFFICES ASSUME m + 1 \in s PROVE Max(s) = m + 1 OBVIOUS
      <4>1. m + 1 \in Nat /\ s # {} OBVIOUS
      <4>2. Max(s) \in s /\ \A i \in s : i <= Max(s)
        BY <4>1, <2>2, MaxOfSome
      <4>3. Max(s) \in 1..(m + 1) /\ m + 1 <= Max(s) BY <4>2
      <4> QED BY <4>3
    <3> QED BY <3>1
  <2>3. g \in [SUBSET (1..(m + 1)) -> S]
    <3>1. m + 1 \in 1..N OBVIOUS
    <3> QED BY <2>2, <3>1
  <2>4. ASSUME NEW s \in SUBSET (1..(m + 1)), s # {}
        PROVE  g[s] = step[Max(s)][g[s \ {Max(s)}]]
    <3>1. CASE m + 1 \in s
      <4>1. Max(s) = m + 1 BY <2>2, <3>1
      <4>2. g[s] = step[m + 1][f[s \ {m + 1}]] BY <3>1
      <4>3. g[s \ {m + 1}] = f[s \ {m + 1}] OBVIOUS
      <4> QED BY <4>1, <4>2, <4>3
    <3>2. CASE m + 1 \notin s
      <4>1. s \in SUBSET (1..m) BY <2>2, <3>2
      <4>2. g[s] = f[s] /\ g[s \ {Max(s)}] = f[s \ {Max(s)}] BY <3>2
      <4>3. f[s] = step[Max(s)][f[s \ {Max(s)}]] BY <2>1, <2>4, <4>1
      <4> QED BY <4>2, <4>3
    <3> QED BY <3>1, <3>2
  <2>5. g[{}] = base
    BY <2>1
  <2> HIDE DEF g
  <2>6. \A s \in SUBSET (1..(m + 1)) :
          g[s] = IF s = {} THEN base ELSE step[Max(s)][g[s \ {Max(s)}]]
    BY <2>4, <2>5
  <2> QED BY <2>3, <2>6
<1> HIDE DEF Has
<1>3. 0 \in T BY <1>1
<1>4. \A m \in 0..(N - 1) : m \in T => m + 1 \in T BY <1>2
<1>5. N \in T
  <2>1. 0..N \subseteq T BY <1>3, <1>4, UpTo
  <2> QED BY <2>1
<1> QED BY <1>5 DEF Has, Folds

(* And whatever unfolds like one is the end of a walk: a loop written with *)
(* FoldLeft goes through its states one by one.                            *)
LEMMA FoldPath ==
  ASSUME NEW N \in Nat, NEW base, NEW S, base \in S,
         NEW step \in [1..N -> [S -> S]], NEW iter, Unfolds(iter, N, base, step, S)
  PROVE  Reaches(iter, N, base, step, S)
<1> USE DEF Unfolds
<1> DEFINE T == {n \in 0..N : iter[1..n] \in S}
<1>1. ASSUME NEW n \in 1..N, iter[1..(n - 1)] \in S
      PROVE  iter[1..n] = step[n][iter[1..(n - 1)]] /\ iter[1..n] \in S
  <2>1. 1..n \in SUBSET (1..N) /\ 1..n # {} OBVIOUS
  <2>2. Max(1..n) = n /\ (1..n) \ {Max(1..n)} = 1..(n - 1) BY MaxOfPrefix
  <2>3. iter[1..n] = step[n][iter[1..(n - 1)]] BY <1>1, <2>1, <2>2
  <2> QED BY <1>1, <2>3
<1>2. 0 \in T
  <2>1. 1..0 = {} OBVIOUS
  <2> QED BY <2>1
<1>3. \A n \in 0..(N - 1) : n \in T => n + 1 \in T
  <2> SUFFICES ASSUME NEW n \in 0..(N - 1), iter[1..n] \in S PROVE iter[1..(n + 1)] \in S
    OBVIOUS
  <2>1. n + 1 \in 1..N /\ (n + 1) - 1 = n OBVIOUS
  <2> QED BY <1>1, <2>1
<1>4. 0..N \subseteq T
  <2> HIDE DEF T
  <2> QED BY <1>2, <1>3, UpTo
<1> DEFINE f == [n \in 0..N |-> iter[1..n]]
<1>5. f \in [0..N -> S] BY <1>4
<1>6. f[0] = base
  <2>1. 1..0 = {} OBVIOUS
  <2> QED BY <2>1
<1>7. ASSUME NEW n \in 1..N PROVE f[n] = step[n][f[n - 1]]
  <2>1. n - 1 \in 0..N OBVIOUS
  <2>2. iter[1..(n - 1)] \in S BY <1>4, <2>1
  <2> QED BY <1>1, <2>1, <2>2
<1>8. f[N] = iter[1..N] OBVIOUS
<1> HIDE DEF f
<1>9. Walks(f, N, base, step)
  BY <1>6, <1>7 DEF Walks
<1> QED BY <1>5, <1>8, <1>9 DEF Reaches

-----------------------------------------------------------------------------
(* The generator.                                                          *)

(* The generator stays within its states, however often it is drawn from.  *)
LEMMA AfterIs ==
  ASSUME NEW s \in RngState, NEW N \in Nat
  PROVE  After(s, N) \in RngState
<1> DEFINE step == [n \in 1..N |-> [t \in RngState |-> Advance[t]]]
           orbit == CHOOSE orbit : orbit = [k \in 0..N |->
                      IF k = 0 THEN s ELSE Advance[orbit[k - 1]]]
<1>1. After(s, N) = orbit[N]
  BY DEF After
<1>2. /\ step \in [1..N -> [RngState -> RngState]]
      /\ \A n \in 1..N : \A t \in RngState : step[n][t] = Advance[t]
  BY GeneratorAssumption
<1> HIDE DEF step
<1>3. PICK f \in [0..N -> RngState] : Walks(f, N, s, step)
  BY <1>2, Recursion
<1>4. \A n \in 0..N : n # 0 => n \in 1..N /\ n - 1 \in 0..N
  OBVIOUS
<1>5. ASSUME NEW n \in 0..N, n # 0
      PROVE  f[n] = Advance[f[n - 1]]
  BY <1>2, <1>3, <1>4, <1>5 DEF Walks
<1>6. f = [k \in 0..N |-> IF k = 0 THEN s ELSE Advance[f[k - 1]]]
  <2>1. f = [n \in 0..N |-> f[n]]
    BY <1>3
  <2>2. f[0] = s
    BY <1>3 DEF Walks
  <2> QED BY <1>5, <2>1, <2>2
<1>7. orbit = [k \in 0..N |-> IF k = 0 THEN s ELSE Advance[orbit[k - 1]]]
  BY <1>6
<1> HIDE DEF orbit
<1> DEFINE T == {n \in 0..N : orbit[n] \in RngState}
<1>8. 0 \in T
  BY <1>7
<1>9. \A n \in 0..(N - 1) : n \in T => n + 1 \in T
  <2> SUFFICES ASSUME NEW n \in 0..(N - 1), orbit[n] \in RngState
               PROVE  n + 1 \in T
    OBVIOUS
  <2>1. n + 1 \in 0..N /\ n + 1 # 0 /\ (n + 1) - 1 = n
    OBVIOUS
  <2>2. orbit[n + 1] = Advance[orbit[n]]
    BY <1>7, <2>1
  <2> QED BY <2>1, <2>2, GeneratorAssumption
<1>10. 0..N \subseteq T
  <2> HIDE DEF T
  <2> QED BY <1>8, <1>9, UpTo
<1> QED BY <1>1, <1>10

(* The least number of a set.                                              *)
LEMMA LeastIs ==
  ASSUME NEW S \in SUBSET Nat, S # {}
  PROVE  /\ (CHOOSE k \in S : \A j \in S : k <= j) \in S
         /\ \A j \in S : (CHOOSE k \in S : \A i \in S : k <= i) <= j
<1>1. PICK x \in S : \A y \in S : ~ (<<y, x>> \in OpToRel(<, Nat))
  BY NatLessThanWellFounded, WFMin
<1>2. \A y \in S : x <= y
  <2> SUFFICES ASSUME NEW y \in S, ~(x <= y) PROVE FALSE
    OBVIOUS
  <2>1. y < x /\ y \in Nat /\ x \in Nat
    OBVIOUS
  <2>2. <<y, x>> \in OpToRel(<, Nat)
    BY <2>1 DEF OpToRel
  <2> QED BY <1>1, <2>2
<1> QED BY <1>2

(* So does a draw below the bound of the critical strikes: some word is    *)
(* admitted (DrawAssumption), and the first one ends it.                   *)
LEMMA BoundedIs ==
  ASSUME NEW s \in RngState
  PROVE  Bounded(s, CritBound).state \in RngState
<1> DEFINE A == Admitted(s, CritBound)
           n == CHOOSE k \in A : \A j \in A : k <= j
<1>1. A # {} /\ A \in SUBSET Nat
  <2>1. A # {}
    BY DrawAssumption
  <2>2. A \subseteq 0..Cardinality(RngState)
    BY DEF Admitted
  <2>3. 0..Cardinality(RngState) \subseteq Nat
    BY GeneratorAssumption, FS_CardinalityType
  <2> QED BY <2>1, <2>2, <2>3
<1>2. n \in Nat
  <2> HIDE DEF A
  <2> QED BY <1>1, LeastIs
<1> HIDE DEF A, n
<1>3. Bounded(s, CritBound).state = IF CritBound = 0 THEN s ELSE After(s, n + 1)
  BY DEF Bounded, A, n
<1> QED BY <1>2, <1>3, AfterIs

-----------------------------------------------------------------------------
(* Values of the account.                                                  *)

(* What is itemised against one player.                                    *)
Item == [direct : Nat, critical : BOOLEAN, eliminated : BOOLEAN]

(* The damage itemised so far.                                             *)
Damages == UNION {[hurt -> Item] : hurt \in SUBSET Player}

(* The record of one strike.                                               *)
StrikeRecord ==
  [target : Player, trace : Nat, crit : {"NotEligible", "Landed", "Missed"},
   applied : Nat, eliminated : BOOLEAN]

(* The trace of one projectile.                                            *)
Trace == [tick : Nat, cause : {"Character", "Terrain"}]

(* An account.                                                             *)
Book ==
  [health : [Player -> 0..MaxHealth], rng : RngState, dealt : Nat,
   damage : Damages, strikes : Seq(StrikeRecord), traces : Seq(Trace)]

(* Dice drawn again: the generator, and whether they agree so far.         *)
Dice == [rng : RngState, ok : BOOLEAN]

(* Drawing again stays within the states of the generator.                 *)
LEMMA RedrawIs ==
  ASSUME NEW acc \in Dice, NEW a, NEW r
  PROVE  Redraw(acc, a, r) \in Dice
<1>1. Bounded(acc.rng, CritBound).state \in RngState
  BY BoundedIs DEF Dice
<1>2. acc.ok \in BOOLEAN
  BY DEF Dice
<1> QED BY <1>1, <1>2 DEF Redraw, Dice

(* Drawing again, record by record.                                        *)
RedrawWalk(g, from, a, strikes) ==
  /\ g[0] = [rng |-> from, ok |-> TRUE]
  /\ \A n \in 1..Len(strikes) : g[n] = Redraw(g[n - 1], a, strikes[n])
  /\ g[Len(strikes)] = Redrawn(from, a, strikes)

(* What one record adds to the damage of a player.                         *)
AddUp(sum, r, q) == IF r.target = q THEN sum + r.applied ELSE sum

(* The damage the records of some strikes add up to.                       *)
Total(strikes, q) == FoldLeft(LAMBDA sum, r : AddUp(sum, r, q), 0, strikes)

(* Adding up, record by record.                                            *)
AddWalk(g, strikes, q) ==
  /\ g[0] = 0
  /\ \A n \in 1..Len(strikes) : g[n] = AddUp(g[n - 1], strikes[n], q)
  /\ g[Len(strikes)] = Total(strikes, q)

(* Drawing again is such a walk (FoldPath).                                *)
LEMMA RedrawWalks ==
  ASSUME NEW from \in RngState, NEW a, NEW strikes \in Seq(StrikeRecord)
  PROVE  \E g \in [0..Len(strikes) -> Dice] : RedrawWalk(g, from, a, strikes)
<1> DEFINE N == Len(strikes)
           S == Dice
           base == [rng |-> from, ok |-> TRUE]
           step == [n \in 1..N |-> [acc \in S |-> Redraw(acc, a, strikes[n])]]
           iter == CHOOSE iter : iter = [s \in SUBSET DOMAIN strikes |->
                     IF s = {} THEN [rng |-> from, ok |-> TRUE]
                     ELSE Redraw(iter[s \ {Max(s)}], a, strikes[Max(s)])]
<1>1. N \in Nat /\ DOMAIN strikes = 1..N
  OBVIOUS
<1>2. base \in S /\ \A acc \in S : \A n \in 1..N : Redraw(acc, a, strikes[n]) \in S
  BY RedrawIs DEF Dice
<1>3. Redrawn(from, a, strikes) = iter[1..N]
  BY <1>1 DEF FoldLeft, MapThenFoldSet, Redrawn
<1>4. /\ step \in [1..N -> [S -> S]]
      /\ \A n \in 1..N, acc \in S : step[n][acc] = Redraw(acc, a, strikes[n])
  BY <1>2
<1> HIDE DEF step, N, S, base
<1>5. PICK f \in [SUBSET (1..N) -> S] : \A s \in SUBSET (1..N) :
         f[s] = IF s = {} THEN base ELSE step[Max(s)][f[s \ {Max(s)}]]
  <2>1. \E f \in [SUBSET (1..N) -> S] : Folds(f, N, base, step)
    BY <1>2, <1>1, <1>4, FoldExists
  <2> QED BY <2>1 DEF Folds
<1>6. \A s \in SUBSET (1..N) : s # {} => Max(s) \in 1..N
  BY <1>1, MaxOfSome
<1>7. f = [s \in SUBSET (1..N) |-> IF s = {} THEN base
                     ELSE Redraw(f[s \ {Max(s)}], a, strikes[Max(s)])]
  BY <1>4, <1>5, <1>6
<1>8. iter = [s \in SUBSET (1..N) |-> IF s = {} THEN base
                     ELSE Redraw(iter[s \ {Max(s)}], a, strikes[Max(s)])]
  BY <1>1, <1>7 DEF base
<1> HIDE DEF iter
<1>9. Unfolds(iter, N, base, step, S)
  BY <1>4, <1>6, <1>8 DEF Unfolds
<1>10. base \in S /\ N \in Nat /\ step \in [1..N -> [S -> S]]
  BY <1>2, <1>1, <1>4
<1>11. PICK g \in [0..N -> S] : Walks(g, N, base, step) /\ g[N] = iter[1..N]
  <2>1. Reaches(iter, N, base, step, S)
    BY <1>9, <1>10, FoldPath
  <2> QED BY <2>1 DEF Reaches
<1>12. \A n \in 1..N : g[n] = Redraw(g[n - 1], a, strikes[n])
  BY <1>1, <1>4, <1>11 DEF Walks
<1> QED BY <1>3, <1>11, <1>12 DEF Walks, RedrawWalk, N, S, base

(* So is adding up.                                                        *)
LEMMA AddsUp ==
  ASSUME NEW strikes \in Seq(StrikeRecord), NEW q \in Player
  PROVE  \E g \in [0..Len(strikes) -> Nat] : AddWalk(g, strikes, q)
<1> DEFINE N == Len(strikes)
           S == Nat
           base == 0
           step == [n \in 1..N |-> [acc \in S |-> AddUp(acc, strikes[n], q)]]
           iter == CHOOSE iter : iter = [s \in SUBSET DOMAIN strikes |->
                     IF s = {} THEN 0
                     ELSE AddUp(iter[s \ {Max(s)}], strikes[Max(s)], q)]
<1>1. N \in Nat /\ DOMAIN strikes = 1..N
  OBVIOUS
<1>2. base \in S /\ \A acc \in S : \A n \in 1..N : AddUp(acc, strikes[n], q) \in S
  <2>1. \A n \in 1..N : strikes[n] \in StrikeRecord
    OBVIOUS
  <2> QED BY <2>1 DEF AddUp, StrikeRecord
<1>3. Total(strikes, q) = iter[1..N]
  BY <1>1 DEF FoldLeft, MapThenFoldSet, Total
<1>4. /\ step \in [1..N -> [S -> S]]
      /\ \A n \in 1..N, acc \in S : step[n][acc] = AddUp(acc, strikes[n], q)
  BY <1>2
<1> HIDE DEF step, N, S, base
<1>5. PICK f \in [SUBSET (1..N) -> S] : \A s \in SUBSET (1..N) :
         f[s] = IF s = {} THEN base ELSE step[Max(s)][f[s \ {Max(s)}]]
  <2>1. \E f \in [SUBSET (1..N) -> S] : Folds(f, N, base, step)
    BY <1>2, <1>1, <1>4, FoldExists
  <2> QED BY <2>1 DEF Folds
<1>6. \A s \in SUBSET (1..N) : s # {} => Max(s) \in 1..N
  BY <1>1, MaxOfSome
<1>7. f = [s \in SUBSET (1..N) |-> IF s = {} THEN base
                     ELSE AddUp(f[s \ {Max(s)}], strikes[Max(s)], q)]
  BY <1>4, <1>5, <1>6
<1>8. iter = [s \in SUBSET (1..N) |-> IF s = {} THEN base
                     ELSE AddUp(iter[s \ {Max(s)}], strikes[Max(s)], q)]
  BY <1>1, <1>7 DEF base
<1> HIDE DEF iter
<1>9. Unfolds(iter, N, base, step, S)
  BY <1>4, <1>6, <1>8 DEF Unfolds
<1>10. base \in S /\ N \in Nat /\ step \in [1..N -> [S -> S]]
  BY <1>2, <1>1, <1>4
<1>11. PICK g \in [0..N -> S] : Walks(g, N, base, step) /\ g[N] = iter[1..N]
  <2>1. Reaches(iter, N, base, step, S)
    BY <1>9, <1>10, FoldPath
  <2> QED BY <2>1 DEF Reaches
<1>12. \A n \in 1..N : g[n] = AddUp(g[n - 1], strikes[n], q)
  BY <1>1, <1>4, <1>11 DEF Walks
<1> QED BY <1>3, <1>11, <1>12 DEF Walks, AddWalk, N, S, base

(* One record more is one draw more.                                       *)
LEMMA RedrawnGrows ==
  ASSUME NEW from \in RngState, NEW a, NEW strikes \in Seq(StrikeRecord),
         NEW r \in StrikeRecord
  PROVE  /\ Redrawn(from, a, strikes) \in Dice
         /\ Redrawn(from, a, Append(strikes, r)) = Redraw(Redrawn(from, a, strikes), a, r)
<1> DEFINE N == Len(strikes)
           longer == Append(strikes, r)
<1>1. /\ longer \in Seq(StrikeRecord) /\ N \in Nat /\ Len(longer) = N + 1
      /\ longer[N + 1] = r /\ \A n \in 1..N : longer[n] = strikes[n]
  OBVIOUS
<1> HIDE DEF longer
<1>2. PICK g \in [0..N -> Dice] : RedrawWalk(g, from, a, strikes)
  BY RedrawWalks
<1>3. PICK h \in [0..(N + 1) -> Dice] : RedrawWalk(h, from, a, longer)
  BY <1>1, RedrawWalks
<1> DEFINE T == {n \in 0..N : h[n] = g[n]}
<1>4. 0 \in T
  <2>1. g[0] = [rng |-> from, ok |-> TRUE] /\ h[0] = [rng |-> from, ok |-> TRUE]
    BY <1>2, <1>3 DEF RedrawWalk
  <2> QED BY <1>1, <2>1
<1>5. \A n \in 0..(N - 1) : n \in T => n + 1 \in T
  <2> SUFFICES ASSUME NEW n \in 0..(N - 1), h[n] = g[n] PROVE h[n + 1] = g[n + 1]
    OBVIOUS
  <2>1. n + 1 \in 1..N /\ (n + 1) - 1 = n
    BY <1>1
  <2> QED BY <1>1, <1>2, <1>3, <2>1 DEF RedrawWalk
<1>6. N \in T
  <2>1. 0..N \subseteq T
    <3> HIDE DEF T
    <3> QED BY <1>1, <1>4, <1>5, UpTo
  <2> QED BY <1>1, <2>1
<1>7. h[N] = g[N] /\ h[N + 1] = Redraw(h[N], a, r) /\ g[N] \in Dice
  BY <1>1, <1>2, <1>3, <1>6 DEF RedrawWalk
<1> QED BY <1>1, <1>2, <1>3, <1>7 DEF RedrawWalk, longer

(* No records, no draws, whatever the ability.                             *)
LEMMA RedrawnStarts ==
  ASSUME NEW from \in RngState, NEW a
  PROVE  Redrawn(from, a, <<>>) = [rng |-> from, ok |-> TRUE]
<1>1. <<>> \in Seq(StrikeRecord) /\ Len(<<>>) = 0
  OBVIOUS
<1>2. PICK g \in [0..Len(<<>>) -> Dice] : RedrawWalk(g, from, a, <<>>)
  BY <1>1, RedrawWalks
<1> QED BY <1>1, <1>2 DEF RedrawWalk

(* One record more is one summand more.                                    *)
LEMMA TotalGrows ==
  ASSUME NEW strikes \in Seq(StrikeRecord), NEW r \in StrikeRecord, NEW q \in Player
  PROVE  /\ Total(strikes, q) \in Nat
         /\ Total(Append(strikes, r), q) = AddUp(Total(strikes, q), r, q)
<1> DEFINE N == Len(strikes)
           longer == Append(strikes, r)
<1>1. /\ longer \in Seq(StrikeRecord) /\ N \in Nat /\ Len(longer) = N + 1
      /\ longer[N + 1] = r /\ \A n \in 1..N : longer[n] = strikes[n]
  OBVIOUS
<1> HIDE DEF longer
<1>2. PICK g \in [0..N -> Nat] : AddWalk(g, strikes, q)
  BY AddsUp
<1>3. PICK h \in [0..(N + 1) -> Nat] : AddWalk(h, longer, q)
  BY <1>1, AddsUp
<1> DEFINE T == {n \in 0..N : h[n] = g[n]}
<1>4. 0 \in T
  <2>1. g[0] = 0 /\ h[0] = 0
    BY <1>2, <1>3 DEF AddWalk
  <2> QED BY <1>1, <2>1
<1>5. \A n \in 0..(N - 1) : n \in T => n + 1 \in T
  <2> SUFFICES ASSUME NEW n \in 0..(N - 1), h[n] = g[n] PROVE h[n + 1] = g[n + 1]
    OBVIOUS
  <2>1. n + 1 \in 1..N /\ (n + 1) - 1 = n
    BY <1>1
  <2> QED BY <1>1, <1>2, <1>3, <2>1 DEF AddWalk
<1>6. N \in T
  <2>1. 0..N \subseteq T
    <3> HIDE DEF T
    <3> QED BY <1>1, <1>4, <1>5, UpTo
  <2> QED BY <1>1, <2>1
<1>7. h[N] = g[N] /\ h[N + 1] = AddUp(h[N], r, q) /\ g[N] \in Nat
  BY <1>1, <1>2, <1>3, <1>6 DEF AddWalk
<1> QED BY <1>1, <1>2, <1>3, <1>7 DEF AddWalk, longer

(* Nothing is added up without strikes.                                    *)
LEMMA TotalStarts ==
  ASSUME NEW q \in Player
  PROVE  Total(<<>>, q) = 0
<1>1. <<>> \in Seq(StrikeRecord) /\ Len(<<>>) = 0
  OBVIOUS
<1>2. PICK g \in [0..Len(<<>>) -> Nat] : AddWalk(g, <<>>, q)
  BY <1>1, AddsUp
<1> QED BY <1>1, <1>2 DEF AddWalk

(* What strikes take is what the records add up to on the way.             *)
LEMMA TakenWalks ==
  ASSUME NEW strikes \in Seq(StrikeRecord), NEW q \in Player,
         NEW g \in [0..Len(strikes) -> Nat], AddWalk(g, strikes, q),
         NEW n \in 0..Len(strikes)
  PROVE  Taken(strikes, q, n) = g[n]
<1> DEFINE idx == [i \in 1..n |-> i]
           more(i) == IF strikes[i].target = q THEN strikes[i].applied ELSE 0
           step == [m \in 1..n |-> [acc \in Nat |-> acc + more(idx[m])]]
           iter == CHOOSE iter : iter = [s \in SUBSET DOMAIN idx |->
                     IF s = {} THEN 0 ELSE iter[s \ {Max(s)}] + more(idx[Max(s)])]
<1>1. /\ n \in Nat /\ 0 \in Nat /\ Len(strikes) \in Nat
      /\ DOMAIN idx = 1..n /\ \A m \in 1..n : idx[m] = m
  OBVIOUS
<1>2. \A m \in 1..n : m \in 1..Len(strikes) /\ more(idx[m]) \in Nat
  <2> SUFFICES ASSUME NEW m \in 1..n PROVE m \in 1..Len(strikes) /\ more(idx[m]) \in Nat
    OBVIOUS
  <2>1. m \in 1..Len(strikes) /\ idx[m] = m
    BY <1>1
  <2>2. strikes[m] \in StrikeRecord
    BY <2>1
  <2>3. strikes[m].applied \in Nat
    BY <2>2 DEF StrikeRecord
  <2> HIDE DEF idx
  <2> QED BY <2>1, <2>3
<1>3. Taken(strikes, q, n) = iter[1..n]
  BY <1>1 DEF FoldLeft, MapThenFoldSet, Taken
<1> HIDE DEF idx, more
<1>4. /\ step \in [1..n -> [Nat -> Nat]]
      /\ \A m \in 1..n, acc \in Nat : step[m][acc] = acc + more(idx[m])
  BY <1>2
<1> HIDE DEF step
<1>5. PICK f \in [SUBSET (1..n) -> Nat] : \A s \in SUBSET (1..n) :
         f[s] = IF s = {} THEN 0 ELSE step[Max(s)][f[s \ {Max(s)}]]
  <2>1. \E f \in [SUBSET (1..n) -> Nat] : Folds(f, n, 0, step)
    BY <1>1, <1>4, FoldExists
  <2> QED BY <2>1 DEF Folds
<1>6. \A s \in SUBSET (1..n) : s # {} => Max(s) \in 1..n
  BY <1>1, MaxOfSome
<1>7. f = [s \in SUBSET (1..n) |->
             IF s = {} THEN 0 ELSE f[s \ {Max(s)}] + more(idx[Max(s)])]
  BY <1>4, <1>5, <1>6
<1>8. iter = [s \in SUBSET (1..n) |->
                IF s = {} THEN 0 ELSE iter[s \ {Max(s)}] + more(idx[Max(s)])]
  BY <1>7, Zenon DEF idx
<1> HIDE DEF iter
<1>9. Unfolds(iter, n, 0, step, Nat)
  BY <1>4, <1>6, <1>8 DEF Unfolds
<1>10. PICK h \in [0..n -> Nat] : Walks(h, n, 0, step) /\ h[n] = iter[1..n]
  <2>1. Reaches(iter, n, 0, step, Nat)
    BY <1>1, <1>4, <1>9, FoldPath
  <2> QED BY <2>1 DEF Reaches
<1> DEFINE T == {m \in 0..n : h[m] = g[m]}
<1>11. 0 \in T
  BY <1>1, <1>10 DEF Walks, AddWalk
<1>12. ASSUME NEW m \in 0..(n - 1), m \in T PROVE m + 1 \in T
  <2>1. m + 1 \in 0..n /\ m + 1 \in 1..n /\ (m + 1) - 1 = m /\ m \in 0..n
    BY <1>1
  <2>2. h[m + 1] = h[m] + more(m + 1)
    <3>1. h[m + 1] = step[m + 1][h[m]]
      BY <1>10, <2>1 DEF Walks
    <3>2. h[m] \in Nat
      BY <1>10, <2>1
    <3> QED BY <1>1, <1>4, <2>1, <3>1, <3>2
  <2>3. g[m + 1] = AddUp(g[m], strikes[m + 1], q)
    BY <1>2, <2>1 DEF AddWalk
  <2>4. g[m] \in Nat
    BY <1>1, <2>1
  <2>5. AddUp(g[m], strikes[m + 1], q) = g[m] + more(m + 1)
    BY <2>4 DEF AddUp, more
  <2> QED BY <1>12, <2>1, <2>2, <2>3, <2>5
<1>13. 0..n \subseteq T
  <2> HIDE DEF T
  <2> QED BY <1>1, <1>11, <1>12, UpTo
<1> QED BY <1>1, <1>3, <1>10, <1>13

(* In the end it is the total, and a strike more changes none of it.       *)
LEMMA TakenGrows ==
  ASSUME NEW strikes \in Seq(StrikeRecord), NEW r \in StrikeRecord, NEW q \in Player
  PROVE  /\ Taken(strikes, q, Len(strikes)) = Total(strikes, q)
         /\ \A n \in 0..Len(strikes) :
              Taken(Append(strikes, r), q, n) = Taken(strikes, q, n)
<1> DEFINE N == Len(strikes)
           longer == Append(strikes, r)
<1>1. /\ longer \in Seq(StrikeRecord) /\ N \in Nat /\ Len(longer) = N + 1
      /\ longer[N + 1] = r /\ \A n \in 1..N : longer[n] = strikes[n]
  OBVIOUS
<1> HIDE DEF longer
<1>2. PICK g \in [0..N -> Nat] : AddWalk(g, strikes, q)
  BY AddsUp
<1>3. PICK h \in [0..(N + 1) -> Nat] : AddWalk(h, longer, q)
  BY <1>1, AddsUp
<1> DEFINE T == {n \in 0..N : h[n] = g[n]}
<1>4. 0 \in T
  <2>1. g[0] = 0 /\ h[0] = 0
    BY <1>2, <1>3 DEF AddWalk
  <2> QED BY <1>1, <2>1
<1>5. \A n \in 0..(N - 1) : n \in T => n + 1 \in T
  <2> SUFFICES ASSUME NEW n \in 0..(N - 1), h[n] = g[n] PROVE h[n + 1] = g[n + 1]
    OBVIOUS
  <2>1. n + 1 \in 1..N /\ (n + 1) - 1 = n
    BY <1>1
  <2> QED BY <1>1, <1>2, <1>3, <2>1 DEF AddWalk
<1>6. 0..N \subseteq T
  <2> HIDE DEF T
  <2> QED BY <1>1, <1>4, <1>5, UpTo
<1>7. ASSUME NEW n \in 0..N PROVE Taken(longer, q, n) = Taken(strikes, q, n)
  <2>1. Taken(strikes, q, n) = g[n]
    BY <1>2, TakenWalks
  <2>2. n \in 0..Len(longer)
    BY <1>1
  <2>3. Taken(longer, q, n) = h[n]
    BY <1>1, <1>3, <2>2, TakenWalks
  <2> QED BY <1>6, <2>1, <2>3
<1>8. Taken(strikes, q, N) = Total(strikes, q)
  <2>1. N \in 0..N
    BY <1>1
  <2> QED BY <1>2, <2>1, TakenWalks DEF AddWalk
<1> QED BY <1>7, <1>8 DEF longer

(* That is what the session compares the itemised damage with.             *)
LEMMA AppliedIs ==
  ASSUME NEW f, NEW q
  PROVE  Applied(f, q) = Total(f.strikes, q)
BY DEF Applied, Total, AddUp

-----------------------------------------------------------------------------
(* What a strike does to the account.                                      *)

(* What is gone from the health of each player is itemised, and an item    *)
(* says whether anything was left.                                         *)
Explained(s, f) ==
  \A r \in Player :
    /\ f.health[r] + Entry(f, r).direct = s.health[r]
    /\ r \in DOMAIN f.damage => (f.damage[r].eliminated <=> f.health[r] = 0)

(* A record of a kill names somebody who lived and does no longer, and no  *)
(* two records name the same.                                              *)
Killed(s, f) ==
  \A i \in DOMAIN f.strikes : f.strikes[i].eliminated =>
    /\ s.health[f.strikes[i].target] > 0
    /\ f.health[f.strikes[i].target] = 0
    /\ \A j \in DOMAIN f.strikes \ {i} :
         f.strikes[j].target = f.strikes[i].target => ~f.strikes[j].eliminated

(* What an account made of the strikes of p with ability a tells, from the *)
(* board s and the generator from: every part of it agrees with the rest.  *)
Tellings(s, from, p, a) ==
  {f \in Book :
     /\ Explained(s, f)
     /\ Killed(s, f)
     /\ Redrawn(from, a, f.strikes) = [rng |-> f.rng, ok |-> TRUE]
     /\ \A i \in DOMAIN f.strikes : CritFits(a, f.strikes[i])
     /\ f.dealt > 0 => \E q \in Player : f.health[q] < s.health[q]
     /\ a.attack = "Projectile" => f.health[p] = s.health[p]}

(* The records add up to the items, until a cluster drops.                 *)
Summed(f) == \A q \in Player : Entry(f, q).direct = Total(f.strikes, q)

(* An entry, whether or not there is one yet.                              *)
LEMMA EntryIs ==
  ASSUME NEW f \in Book, NEW q \in Player
  PROVE  /\ f.damage \in [DOMAIN f.damage -> Item] /\ DOMAIN f.damage \subseteq Player
         /\ Entry(f, q) \in Item
         /\ q \in DOMAIN f.damage => Entry(f, q) = f.damage[q]
         /\ q \notin DOMAIN f.damage => Entry(f, q).direct = 0
<1>1. f.damage \in Damages
  BY DEF Book
<1>2. PICK hurt \in SUBSET Player : f.damage \in [hurt -> Item]
  BY <1>1 DEF Damages
<1>3. DOMAIN f.damage = hurt
  BY <1>2
<1> QED BY <1>2, <1>3 DEF Entry, Item

(* The fields of an account.                                               *)
LEMMA BookIs ==
  ASSUME NEW f \in Book
  PROVE  /\ f = [health |-> f.health, rng |-> f.rng, dealt |-> f.dealt,
                 damage |-> f.damage, strikes |-> f.strikes, traces |-> f.traces]
         /\ f.health \in [Player -> 0..MaxHealth] /\ f.rng \in RngState
         /\ f.dealt \in Nat /\ f.damage \in Damages
         /\ f.strikes \in Seq(StrikeRecord) /\ f.traces \in Seq(Trace)
BY DEF Book

(* g is what damage to q makes of f: what was there to take is itemised,   *)
(* and nothing else changes.                                               *)
Harmed(f, g, q) ==
  /\ g.rng = f.rng /\ g.dealt = f.dealt
  /\ g.strikes = f.strikes /\ g.traces = f.traces
  /\ \A r \in Player \ {q} : g.health[r] = f.health[r] /\ Entry(g, r) = Entry(f, r)
  /\ g.health[q] <= f.health[q]
  /\ Entry(g, q).direct = Entry(f, q).direct + (f.health[q] - g.health[q])
  /\ \A s : Explained(s, f) => Explained(s, g)

(* deal_damage() does no more.                                             *)
LEMMA HarmIs ==
  ASSUME NEW f \in Book, NEW q \in Player, NEW amount \in Nat, NEW critical \in BOOLEAN
  PROVE  /\ DealDamage(f, q, amount, critical) \in Book
         /\ Harmed(f, DealDamage(f, q, amount, critical), q)
<1> USE DEF Harmed
<1> DEFINE g == DealDamage(f, q, amount, critical)
           actual == Smaller(amount, f.health[q])
           item == [direct |-> Entry(f, q).direct + actual,
                    critical |-> Entry(f, q).critical \/ critical,
                    eliminated |-> actual = f.health[q]]
           damage == [r \in DOMAIN f.damage \cup {q} |-> IF r = q THEN item ELSE f.damage[r]]
           health == [f.health EXCEPT ![q] = @ - actual]
<1>1. f.health[q] \in 0..MaxHealth /\ MaxHealth \in Nat
  BY BookIs, BoundAssumption
<1>2. actual \in 0..f.health[q]
  BY <1>1 DEF Smaller
<1>3. Entry(f, q) \in Item
  BY EntryIs
<1>4. CASE amount = 0
  <2>1. g = f
    BY <1>4 DEF DealDamage
  <2>2. Entry(f, q).direct \in Nat
    BY <1>3 DEF Item
  <2> QED BY <1>1, <2>1, <2>2
<1>5. CASE amount # 0
  <2>1. g = [health |-> health, rng |-> f.rng, dealt |-> f.dealt, damage |-> damage,
             strikes |-> f.strikes, traces |-> f.traces]
    <3>1. g = [f EXCEPT !.health = health, !.damage = damage]
      <4>1. g = [f EXCEPT !.health[q] = @ - actual,
                          !.damage = [r \in DOMAIN @ \cup {q} |-> IF r = q THEN item ELSE @[r]]]
        BY <1>5, Zenon DEF DealDamage
      <4> HIDE DEF g, actual, item
      <4> QED BY <4>1, BookIs
    <3> HIDE DEF g, health, damage
    <3> QED BY <3>1 DEF Book
  <2>2. item \in Item
    BY <1>1, <1>2, <1>3 DEF Item
  <2>3. health \in [Player -> 0..MaxHealth] /\ health[q] = f.health[q] - actual
        /\ \A r \in Player \ {q} : health[r] = f.health[r]
    BY <1>1, <1>2, BookIs
  <2> HIDE DEF actual, item, health
  <2>4. /\ damage \in [DOMAIN f.damage \cup {q} -> Item]
        /\ DOMAIN f.damage \cup {q} \subseteq Player
        /\ damage[q] = item
        /\ \A r \in DOMAIN f.damage \ {q} : damage[r] = f.damage[r]
    BY <2>2, EntryIs
  <2>5. damage \in Damages /\ DOMAIN damage = DOMAIN f.damage \cup {q}
    BY <2>4 DEF Damages
  <2> HIDE DEF damage, g
  <2>6. g \in Book
    BY <2>1, <2>3, <2>5, BookIs DEF Book
  <2>7. /\ g.rng = f.rng /\ g.dealt = f.dealt
        /\ g.strikes = f.strikes /\ g.traces = f.traces
        /\ g.health = health /\ g.damage = damage
    BY <2>1
  <2>8. Entry(g, q) = item
    BY <2>4, <2>5, <2>7 DEF Entry
  <2>9. ASSUME NEW r \in Player \ {q} PROVE Entry(g, r) = Entry(f, r)
    BY <2>4, <2>5, <2>7 DEF Entry
  <2>10. g.health[q] <= f.health[q]
         /\ Entry(g, q).direct = Entry(f, q).direct + (f.health[q] - g.health[q])
    <3>1. item.direct = Entry(f, q).direct + actual
      BY DEF item
    <3>2. Entry(f, q).direct \in Nat
      BY <1>3 DEF Item
    <3> QED BY <1>1, <1>2, <2>3, <2>7, <2>8, <3>1, <3>2
  <2>11. ASSUME NEW s, Explained(s, f) PROVE Explained(s, g)
    <3> SUFFICES ASSUME NEW r \in Player
                 PROVE  /\ g.health[r] + Entry(g, r).direct = s.health[r]
                        /\ r \in DOMAIN g.damage =>
                             (g.damage[r].eliminated <=> g.health[r] = 0)
      BY DEF Explained
    <3>1. CASE r # q
      BY <2>3, <2>4, <2>5, <2>7, <2>9, <2>11, <3>1 DEF Explained
    <3>2. CASE r = q
      <4>1. g.damage[q].eliminated = (actual = f.health[q])
        BY <2>4, <2>7 DEF item
      <4>2. f.health[q] + Entry(f, q).direct = s.health[q]
        BY <2>11 DEF Explained
      <4>3. Entry(f, q).direct \in Nat
        BY <1>3 DEF Item
      <4>4. g.health[q] = 0 <=> actual = f.health[q]
        BY <1>1, <1>2, <2>3, <2>7
      <4>5. g.health[q] + Entry(g, q).direct = s.health[q]
        <5>1. g.health[q] \in Int
          BY <1>1, <1>2, <2>3, <2>7
        <5> QED BY <1>1, <2>10, <4>2, <4>3, <5>1
      <4> QED BY <3>2, <4>1, <4>4, <4>5
    <3> QED BY <3>1, <3>2
  <2> QED BY <2>3, <2>6, <2>7, <2>9, <2>10, <2>11 DEF g
<1> QED BY <1>4, <1>5

(* What is asked of an ability: ReceiptPlay assumes it of every kit.       *)
Fit(a) == a \in AbilityData /\ (a.crit > a.damage => a.chance > 0)

(* A roll takes a draw exactly where the record says so.                   *)
LEMMA RollIs ==
  ASSUME NEW from \in RngState, NEW a, Fit(a)
  PROVE  LET roll == RollCrit(from, a)
         IN  /\ roll.rng \in RngState
             /\ roll.crit \in {"NotEligible", "Landed", "Missed"}
             /\ CanCrit(a) <=> roll.crit # "NotEligible"
             /\ roll.crit = "NotEligible" => roll.rng = from
             /\ roll.crit # "NotEligible" =>
                  /\ roll.rng = Bounded(from, CritBound).state
                  /\ roll.crit = "Landed" <=> Bounded(from, CritBound).value < a.chance
<1> DEFINE roll == RollCrit(from, a)
<1>1. a.chance \in Nat /\ (CanCrit(a) => a.chance # 0)
  BY DEF Fit, AbilityData, CanCrit
<1>2. Bounded(from, CritBound).state \in RngState
  BY BoundedIs
<1>3. CASE ~CanCrit(a)
  <2>1. roll = [rng |-> from, crit |-> "NotEligible"]
    BY <1>3 DEF RollCrit
  <2> HIDE DEF roll
  <2> QED BY <1>3, <2>1 DEF roll
<1>4. CASE CanCrit(a)
  <2>1. roll = [rng |-> Bounded(from, CritBound).state,
                crit |-> IF Bounded(from, CritBound).value < a.chance
                           THEN "Landed" ELSE "Missed"]
    BY <1>1, <1>4 DEF RollCrit
  <2> HIDE DEF roll
  <2> QED BY <1>2, <1>4, <2>1 DEF roll
<1> QED BY <1>3, <1>4

(* The record a strike leaves.                                             *)
RecordOf(f, q, trace, roll, hurt) ==
  [target |-> q, trace |-> trace, crit |-> roll.crit,
   applied |-> f.health[q] - hurt.health[q],
   eliminated |-> f.health[q] > 0 /\ hurt.health[q] = 0]

(* A strike is its harm, its record and its draw.                          *)
LEMMA StrikeIs ==
  ASSUME NEW f \in Book, NEW a, Fit(a), NEW q \in Player, NEW trace \in Nat
  PROVE  LET roll == RollCrit(f.rng, a)
             hurt == DealDamage(f, q, IF roll.crit = "Landed" THEN a.crit ELSE a.damage,
                                roll.crit = "Landed")
             r    == RecordOf(f, q, trace, roll, hurt)
             g    == Strike(f, a, q, trace)
         IN  /\ g \in Book /\ hurt \in Book /\ r \in StrikeRecord
             /\ g = [health |-> hurt.health, rng |-> roll.rng, dealt |-> f.dealt + r.applied,
                     damage |-> hurt.damage, strikes |-> Append(f.strikes, r),
                     traces |-> f.traces]
<1> DEFINE roll == RollCrit(f.rng, a)
           amount == IF roll.crit = "Landed" THEN a.crit ELSE a.damage
           hurt == DealDamage(f, q, amount, roll.crit = "Landed")
           r == RecordOf(f, q, trace, roll, hurt)
           g == Strike(f, a, q, trace)
<1>1. /\ roll.rng \in RngState
      /\ roll.crit \in {"NotEligible", "Landed", "Missed"}
  BY RollIs, BookIs
<1>2. amount \in Nat /\ (roll.crit = "Landed") \in BOOLEAN
  BY DEF Fit, AbilityData
<1> HIDE DEF roll, amount
<1>3. /\ hurt \in Book /\ hurt.health[q] <= f.health[q]
      /\ hurt.dealt = f.dealt /\ hurt.strikes = f.strikes /\ hurt.traces = f.traces
  <2>1. hurt \in Book /\ Harmed(f, hurt, q)
    BY <1>2, HarmIs, Zenon
  <2> HIDE DEF hurt
  <2> QED BY <2>1 DEF Harmed
<1>4. f.health[q] \in 0..MaxHealth /\ hurt.health[q] \in 0..MaxHealth /\ MaxHealth \in Nat
  BY <1>3, BookIs, BoundAssumption
<1>5. r \in StrikeRecord /\ r.applied \in Nat
  BY <1>1, <1>3, <1>4 DEF RecordOf, StrikeRecord
<1>6. g = [hurt EXCEPT !.rng = roll.rng, !.strikes = Append(hurt.strikes, r),
                       !.dealt = hurt.dealt + r.applied]
  <2>1. g = [hurt EXCEPT !.rng = roll.rng, !.strikes = Append(@, r),
                         !.dealt = @ + (f.health[q] - hurt.health[q])]
    BY Zenon DEF Strike, roll, amount, RecordOf
  <2>2. r.applied = f.health[q] - hurt.health[q]
    BY DEF RecordOf
  <2> HIDE DEF g, hurt, r
  <2> QED BY <1>3, <2>1, <2>2 DEF Book
<1> HIDE DEF g, hurt, r
<1>7. g = [health |-> hurt.health, rng |-> roll.rng, dealt |-> f.dealt + r.applied,
           damage |-> hurt.damage, strikes |-> Append(f.strikes, r), traces |-> f.traces]
  BY <1>3, <1>6 DEF Book
<1>8. g \in Book
  <2>1. /\ f.dealt + r.applied \in Nat /\ Append(f.strikes, r) \in Seq(StrikeRecord)
        /\ f.traces \in Seq(Trace) /\ hurt.health \in [Player -> 0..MaxHealth]
        /\ hurt.damage \in Damages
    BY <1>3, <1>5, BookIs
  <2> QED BY <1>1, <1>7, <2>1 DEF Book
<1> QED BY <1>3, <1>5, <1>7, <1>8 DEF g, hurt, r, amount, roll

(* Somebody killed twice has no health left to be killed with.             *)
LEMMA KilledOnce ==
  ASSUME NEW s, NEW f \in Book, NEW g \in Book, NEW r \in StrikeRecord,
         Killed(s, f), Explained(s, f),
         \A q \in Player : g.health[q] <= f.health[q],
         g.strikes = Append(f.strikes, r),
         r.eliminated => f.health[r.target] > 0 /\ g.health[r.target] = 0
  PROVE  Killed(s, g)
<1> DEFINE N == Len(f.strikes)
<1>1. /\ N \in Nat /\ DOMAIN f.strikes = 1..N /\ DOMAIN g.strikes = 1..(N + 1)
      /\ g.strikes[N + 1] = r /\ \A i \in 1..N : g.strikes[i] = f.strikes[i]
  <2>1. f.strikes \in Seq(StrikeRecord)
    BY BookIs
  <2> QED BY <2>1
<1>2. \A i \in 1..N : f.strikes[i] \in StrikeRecord
  <2>1. f.strikes \in Seq(StrikeRecord)
    BY BookIs
  <2> QED BY <2>1
<1>3. \A q \in Player : /\ f.health[q] \in Nat /\ g.health[q] \in Nat
                        /\ g.health[q] <= f.health[q]
  <2>1. MaxHealth \in Nat
    BY BoundAssumption
  <2>2. f.health \in [Player -> 0..MaxHealth] /\ g.health \in [Player -> 0..MaxHealth]
    BY BookIs
  <2>3. ASSUME NEW q \in Player
        PROVE  f.health[q] \in 0..MaxHealth /\ g.health[q] \in 0..MaxHealth
    BY <2>2
  <2>4. ASSUME NEW q \in Player PROVE f.health[q] \in Nat /\ g.health[q] \in Nat
    BY <2>1, <2>3
  <2> QED BY <2>4
<1>4. \A q \in Player : f.health[q] > 0 => s.health[q] > 0
  <2> SUFFICES ASSUME NEW q \in Player, f.health[q] > 0 PROVE s.health[q] > 0
    OBVIOUS
  <2>1. f.health[q] + Entry(f, q).direct = s.health[q]
    BY DEF Explained
  <2>2. Entry(f, q).direct \in Nat
    BY EntryIs DEF Item
  <2> QED BY <1>3, <2>1, <2>2
<1> HIDE DEF N
<1>5. \A i \in 1..(N + 1) : g.strikes[i].target \in Player
  BY <1>1, <1>2 DEF StrikeRecord
<1>6. \A i \in 1..N : f.strikes[i].eliminated =>
        /\ s.health[f.strikes[i].target] > 0 /\ f.health[f.strikes[i].target] = 0
        /\ \A j \in 1..N \ {i} :
             f.strikes[j].target = f.strikes[i].target => ~f.strikes[j].eliminated
  BY <1>1 DEF Killed
<1> SUFFICES ASSUME NEW i \in 1..(N + 1), g.strikes[i].eliminated
             PROVE  /\ s.health[g.strikes[i].target] > 0
                    /\ g.health[g.strikes[i].target] = 0
                    /\ \A j \in 1..(N + 1) \ {i} :
                         g.strikes[j].target = g.strikes[i].target => ~g.strikes[j].eliminated
  BY <1>1 DEF Killed
<1>7. CASE i = N + 1
  <2>1. f.health[r.target] > 0 /\ g.health[r.target] = 0 /\ r.target \in Player
    BY <1>1, <1>5, <1>7
  <2>2. ASSUME NEW j \in 1..(N + 1) \ {i}, g.strikes[j].target = r.target,
               g.strikes[j].eliminated
        PROVE  FALSE
    <3>1. j \in 1..N
      BY <1>1, <1>7
    <3>2. f.health[r.target] = 0
      BY <1>1, <1>6, <2>2, <3>1
    <3> QED BY <2>1, <3>2
  <2> QED BY <1>1, <1>4, <1>7, <2>1, <2>2
<1>8. CASE i \in 1..N
  <2>1. /\ f.strikes[i].eliminated /\ g.strikes[i] = f.strikes[i]
        /\ f.strikes[i].target \in Player
    BY <1>1, <1>5, <1>8
  <2>2. s.health[f.strikes[i].target] > 0 /\ f.health[f.strikes[i].target] = 0
    BY <1>6, <1>8, <2>1
  <2>3. g.health[f.strikes[i].target] = 0
    BY <1>3, <2>1, <2>2
  <2>4. ASSUME NEW j \in 1..(N + 1) \ {i}, g.strikes[j].target = f.strikes[i].target,
               g.strikes[j].eliminated
        PROVE  FALSE
    <3>1. CASE j = N + 1
      <4>1. f.health[f.strikes[i].target] > 0
        BY <1>1, <2>4, <3>1
      <4> QED BY <2>2, <4>1
    <3>2. CASE j \in 1..N
      BY <1>1, <1>6, <1>8, <2>1, <2>4, <3>2
    <3> QED BY <1>1, <3>1, <3>2
  <2> QED BY <2>1, <2>2, <2>3, <2>4
<1> QED BY <1>1, <1>7, <1>8

(* A strike that says it killed took what was left, and whoever no strike  *)
(* says it killed has something left of what the strikes took from.        *)
Finished(s, strikes) ==
  \A q \in Player :
    /\ \A i \in DOMAIN strikes : strikes[i].target = q /\ strikes[i].eliminated =>
         /\ Taken(strikes, q, i) = s.health[q]
         /\ Taken(strikes, q, i - 1) < s.health[q]
    /\ s.health[q] > 0 /\ (\A i \in DOMAIN strikes :
                             strikes[i].target = q => ~strikes[i].eliminated) =>
         Total(strikes, q) < s.health[q]

(* No strike leaves everybody what he has.                                 *)
LEMMA FinishedStarts ==
  ASSUME NEW s
  PROVE  Finished(s, <<>>)
<1>1. DOMAIN <<>> = {}
  OBVIOUS
<1>2. \A q \in Player : Total(<<>>, q) = 0
  BY TotalStarts
<1> QED BY <1>1, <1>2 DEF Finished

(* One more strike keeps that, while the records add up to the items.      *)
LEMMA FinishedGrows ==
  ASSUME NEW s, NEW f \in Book, NEW g \in Book, NEW r \in StrikeRecord,
         Explained(s, f), Explained(s, g), Summed(f), Summed(g),
         g.strikes = Append(f.strikes, r),
         r.eliminated <=> f.health[r.target] > 0 /\ g.health[r.target] = 0,
         Finished(s, f.strikes)
  PROVE  Finished(s, g.strikes)
<1> DEFINE N == Len(f.strikes)
<1>1. /\ f.strikes \in Seq(StrikeRecord) /\ N \in Nat
      /\ DOMAIN f.strikes = 1..N /\ DOMAIN g.strikes = 1..(N + 1)
      /\ g.strikes[N + 1] = r /\ \A i \in 1..N : g.strikes[i] = f.strikes[i]
  <2>1. f.strikes \in Seq(StrikeRecord)
    BY BookIs
  <2> QED BY <2>1
<1> SUFFICES ASSUME NEW q \in Player
             PROVE  /\ \A i \in 1..(N + 1) :
                         g.strikes[i].target = q /\ g.strikes[i].eliminated =>
                           /\ Taken(g.strikes, q, i) = s.health[q]
                           /\ Taken(g.strikes, q, i - 1) < s.health[q]
                    /\ s.health[q] > 0 /\ (\A i \in 1..(N + 1) :
                           g.strikes[i].target = q => ~g.strikes[i].eliminated) =>
                         Total(g.strikes, q) < s.health[q]
  BY <1>1, Zenon DEF Finished
<1>2. /\ Taken(f.strikes, q, N) = Total(f.strikes, q)
      /\ Taken(g.strikes, q, N + 1) = Total(g.strikes, q)
      /\ \A n \in 0..N : Taken(g.strikes, q, n) = Taken(f.strikes, q, n)
  <2>1. g.strikes \in Seq(StrikeRecord) /\ Len(g.strikes) = N + 1
    BY <1>1
  <2>2. /\ Taken(f.strikes, q, Len(f.strikes)) = Total(f.strikes, q)
        /\ \A n \in 0..Len(f.strikes) :
             Taken(Append(f.strikes, r), q, n) = Taken(f.strikes, q, n)
    BY <1>1, TakenGrows
  <2>3. Taken(g.strikes, q, Len(g.strikes)) = Total(g.strikes, q)
    BY <2>1, TakenGrows
  <2> QED BY <2>1, <2>2, <2>3
<1>3. Total(g.strikes, q) = AddUp(Total(f.strikes, q), r, q)
  BY <1>1, TotalGrows
<1> HIDE DEF N
<1>4. /\ f.health[q] \in Nat /\ g.health[q] \in Nat /\ s.health[q] \in Nat
      /\ Total(f.strikes, q) \in Nat /\ Total(g.strikes, q) \in Nat
      /\ s.health[q] = f.health[q] + Total(f.strikes, q)
      /\ s.health[q] = g.health[q] + Total(g.strikes, q)
  <2>1. f.health[q] \in 0..MaxHealth /\ g.health[q] \in 0..MaxHealth /\ MaxHealth \in Nat
    BY BookIs, BoundAssumption
  <2>2. f.health[q] \in Nat /\ g.health[q] \in Nat
    BY <2>1
  <2>3. Total(f.strikes, q) \in Nat /\ Total(g.strikes, q) \in Nat
    <3>1. Entry(f, q) \in Item /\ Entry(g, q) \in Item
      BY EntryIs
    <3>2. Entry(f, q).direct \in Nat /\ Entry(g, q).direct \in Nat
      BY <3>1 DEF Item
    <3> QED BY <3>2 DEF Summed
  <2>4. /\ s.health[q] = f.health[q] + Total(f.strikes, q)
        /\ s.health[q] = g.health[q] + Total(g.strikes, q)
    BY DEF Explained, Summed
  <2> QED BY <2>2, <2>3, <2>4
<1>5. /\ \A i \in 1..N : f.strikes[i].target = q /\ f.strikes[i].eliminated =>
           /\ Taken(f.strikes, q, i) = s.health[q]
           /\ Taken(f.strikes, q, i - 1) < s.health[q]
      /\ s.health[q] > 0 /\ (\A i \in 1..N :
              f.strikes[i].target = q => ~f.strikes[i].eliminated) =>
           Total(f.strikes, q) < s.health[q]
  BY <1>1 DEF Finished
<1>6. ASSUME NEW i \in 1..(N + 1), g.strikes[i].target = q, g.strikes[i].eliminated
      PROVE  /\ Taken(g.strikes, q, i) = s.health[q]
             /\ Taken(g.strikes, q, i - 1) < s.health[q]
  <2>1. CASE i = N + 1
    <3>1. r.target = q /\ f.health[q] > 0 /\ g.health[q] = 0
      BY <1>1, <1>6, <2>1
    <3>2. N \in 0..N /\ i - 1 = N
      BY <1>1, <2>1
    <3>3. Taken(g.strikes, q, i - 1) = Total(f.strikes, q)
      BY <1>2, <3>2
    <3>4. Taken(g.strikes, q, i) = Total(g.strikes, q)
      BY <1>2, <2>1
    <3> QED BY <1>4, <3>1, <3>3, <3>4
  <2>2. CASE i \in 1..N
    <3>1. i \in 0..N /\ i - 1 \in 0..N
      BY <1>1, <2>2
    <3>2. f.strikes[i].target = q /\ f.strikes[i].eliminated
      BY <1>1, <1>6, <2>2
    <3> QED BY <1>2, <1>5, <2>2, <3>1, <3>2
  <2> QED BY <1>1, <2>1, <2>2
<1>7. ASSUME s.health[q] > 0,
             \A i \in 1..(N + 1) : g.strikes[i].target = q => ~g.strikes[i].eliminated
      PROVE  Total(g.strikes, q) < s.health[q]
  <2>1. \A i \in 1..N : f.strikes[i].target = q => ~f.strikes[i].eliminated
    BY <1>1, <1>7
  <2>2. Total(f.strikes, q) < s.health[q]
    BY <1>5, <1>7, <2>1
  <2>3. CASE r.target = q
    <3>1. ~r.eliminated
      <4>1. N + 1 \in 1..(N + 1)
        BY <1>1
      <4> QED BY <1>1, <1>7, <2>3, <4>1
    <3>2. g.health[q] # 0
      BY <1>4, <2>2, <2>3, <3>1
    <3> QED BY <1>4, <3>2
  <2>4. CASE r.target # q
    BY <1>3, <2>2, <2>4 DEF AddUp
  <2> QED BY <2>3, <2>4
<1> QED BY <1>6, <1>7

(* A record more of a strike at q, and sums that still add up.             *)
OneMore(f, g, q, trace) ==
  /\ Summed(f) => Summed(g)
  /\ g.traces = f.traces
  /\ \E r \in StrikeRecord :
       /\ g.strikes = Append(f.strikes, r) /\ r.target = q /\ r.trace = trace
       /\ r.eliminated <=> f.health[q] > 0 /\ g.health[q] = 0

(* A strike keeps every part of the account in agreement with the rest.    *)
LEMMA StrikeTells ==
  ASSUME NEW s, NEW from \in RngState, NEW p \in Player, NEW a, Fit(a),
         NEW f \in Tellings(s, from, p, a), NEW q \in Player, NEW trace \in Nat,
         a.attack = "Projectile" => q # p
  PROVE  /\ Strike(f, a, q, trace) \in Tellings(s, from, p, a)
         /\ OneMore(f, Strike(f, a, q, trace), q, trace)
<1> DEFINE roll == RollCrit(f.rng, a)
           amount == IF roll.crit = "Landed" THEN a.crit ELSE a.damage
           hurt == DealDamage(f, q, amount, roll.crit = "Landed")
           r == RecordOf(f, q, trace, roll, hurt)
           g == Strike(f, a, q, trace)
<1>0. /\ f \in Book /\ Explained(s, f) /\ Killed(s, f)
      /\ Redrawn(from, a, f.strikes) = [rng |-> f.rng, ok |-> TRUE]
      /\ \A i \in DOMAIN f.strikes : CritFits(a, f.strikes[i])
      /\ f.dealt > 0 => \E t \in Player : f.health[t] < s.health[t]
      /\ a.attack = "Projectile" => f.health[p] = s.health[p]
  BY DEF Tellings
<1>1. /\ g \in Book /\ hurt \in Book /\ r \in StrikeRecord
      /\ g = [health |-> hurt.health, rng |-> roll.rng, dealt |-> f.dealt + r.applied,
              damage |-> hurt.damage, strikes |-> Append(f.strikes, r),
              traces |-> f.traces]
  BY <1>0, StrikeIs
<1>2. amount \in Nat /\ (roll.crit = "Landed") \in BOOLEAN
  BY DEF Fit, AbilityData
<1>3. /\ roll.rng \in RngState
      /\ CanCrit(a) <=> roll.crit # "NotEligible"
      /\ roll.crit = "NotEligible" => roll.rng = f.rng
      /\ roll.crit # "NotEligible" =>
           /\ roll.rng = Bounded(f.rng, CritBound).state
           /\ roll.crit = "Landed" <=> Bounded(f.rng, CritBound).value < a.chance
  BY <1>0, BookIs, RollIs
<1> HIDE DEF roll, amount
<1>4. /\ \A t \in Player \ {q} : hurt.health[t] = f.health[t] /\ Entry(hurt, t) = Entry(f, t)
      /\ hurt.health[q] <= f.health[q]
      /\ Entry(hurt, q).direct = Entry(f, q).direct + (f.health[q] - hurt.health[q])
      /\ Explained(s, hurt)
  <2>1. Harmed(f, hurt, q)
    BY <1>0, <1>2, HarmIs, Zenon
  <2> HIDE DEF hurt
  <2> QED BY <1>0, <2>1 DEF Harmed
<1>5. /\ r.target = q /\ r.trace = trace /\ r.crit = roll.crit
      /\ r.applied = f.health[q] - hurt.health[q]
      /\ r.eliminated = (f.health[q] > 0 /\ hurt.health[q] = 0)
  BY DEF RecordOf
<1> HIDE DEF r, hurt, g
<1>6. /\ g.health = hurt.health /\ g.rng = roll.rng /\ g.dealt = f.dealt + r.applied
      /\ g.damage = hurt.damage /\ g.strikes = Append(f.strikes, r) /\ g.traces = f.traces
  BY <1>1
<1>7. \A t : Entry(g, t) = Entry(hurt, t)
  BY <1>6 DEF Entry
<1>8. Explained(s, g)
  <2> SUFFICES ASSUME NEW t \in Player
               PROVE  /\ g.health[t] + Entry(g, t).direct = s.health[t]
                      /\ t \in DOMAIN g.damage =>
                           (g.damage[t].eliminated <=> g.health[t] = 0)
    BY DEF Explained
  <2>1. /\ hurt.health[t] + Entry(hurt, t).direct = s.health[t]
        /\ t \in DOMAIN hurt.damage =>
             (hurt.damage[t].eliminated <=> hurt.health[t] = 0)
    BY <1>4 DEF Explained
  <2> QED BY <1>6, <1>7, <2>1
<1>9. \A t \in Player : f.health[t] \in Nat /\ g.health[t] \in Nat /\ g.health[t] <= f.health[t]
  <2>1. MaxHealth \in Nat
    BY BoundAssumption
  <2>2. f.health \in [Player -> 0..MaxHealth] /\ g.health \in [Player -> 0..MaxHealth]
    BY <1>0, <1>1, BookIs
  <2>3. ASSUME NEW t \in Player
        PROVE  f.health[t] \in 0..MaxHealth /\ g.health[t] \in 0..MaxHealth
    BY <2>2
  <2>4. ASSUME NEW t \in Player PROVE g.health[t] <= f.health[t]
    <3>1. f.health[t] \in Int
      BY <2>1, <2>3
    <3> QED BY <1>4, <1>6, <3>1
  <2>5. ASSUME NEW t \in Player PROVE f.health[t] \in Nat /\ g.health[t] \in Nat
    BY <2>1, <2>3
  <2> QED BY <2>4, <2>5
<1>10. Killed(s, g)
  <2>1. r.eliminated => f.health[r.target] > 0 /\ g.health[r.target] = 0
    BY <1>5, <1>6
  <2> QED BY <1>0, <1>1, <1>6, <1>9, <2>1, KilledOnce
<1>11. Redrawn(from, a, g.strikes) = [rng |-> g.rng, ok |-> TRUE]
  <2>1. Redrawn(from, a, g.strikes) = Redraw([rng |-> f.rng, ok |-> TRUE], a, r)
    BY <1>0, <1>1, <1>6, BookIs, RedrawnGrows
  <2>2. Redraw([rng |-> f.rng, ok |-> TRUE], a, r) =
          IF r.crit = "NotEligible" THEN [rng |-> f.rng, ok |-> TRUE]
          ELSE [rng |-> Bounded(f.rng, CritBound).state,
                ok |-> TRUE /\ (r.crit = "Landed" <=> Bounded(f.rng, CritBound).value < a.chance)]
    BY DEF Redraw
  <2>3. CASE r.crit = "NotEligible"
    BY <1>3, <1>5, <1>6, <2>1, <2>2, <2>3
  <2>4. CASE r.crit # "NotEligible"
    <3>1. (r.crit = "Landed" <=> Bounded(f.rng, CritBound).value < a.chance) = TRUE
      BY <1>3, <1>5, <2>4
    <3> QED BY <1>3, <1>5, <1>6, <2>1, <2>2, <2>4, <3>1
  <2> QED BY <2>3, <2>4
<1>12. \A i \in DOMAIN g.strikes : CritFits(a, g.strikes[i])
  <2>1. f.strikes \in Seq(StrikeRecord)
    BY <1>0, BookIs
  <2>2. CritFits(a, r)
    BY <1>3, <1>5 DEF CritFits
  <2> QED BY <1>0, <1>6, <2>1, <2>2
<1>13. g.dealt > 0 => \E t \in Player : g.health[t] < s.health[t]
  <2>1. \A t \in Player : f.health[t] + Entry(f, t).direct = s.health[t]
                          /\ Entry(f, t).direct \in Nat
    BY <1>0, EntryIs DEF Explained, Item
  <2>2. CASE f.dealt > 0
    BY <1>0, <1>9, <2>1, <2>2
  <2>3. CASE ~(f.dealt > 0)
    <3>1. f.dealt = 0
      BY <1>0, <2>3, BookIs
    <3>2. g.dealt > 0 => g.health[q] < f.health[q]
      BY <1>5, <1>6, <1>9, <3>1
    <3> QED BY <1>9, <2>1, <3>2
  <2> QED BY <2>2, <2>3
<1>14. a.attack = "Projectile" => g.health[p] = s.health[p]
  BY <1>0, <1>4, <1>6
<1>15. g \in Tellings(s, from, p, a)
  BY <1>1, <1>8, <1>10, <1>11, <1>12, <1>13, <1>14 DEF Tellings
<1>16. ASSUME Summed(f) PROVE Summed(g)
  <2> SUFFICES ASSUME NEW t \in Player PROVE Entry(g, t).direct = Total(g.strikes, t)
    BY DEF Summed
  <2>1. Total(g.strikes, t) = AddUp(Total(f.strikes, t), r, t)
    BY <1>0, <1>1, <1>6, BookIs, TotalGrows
  <2>2. Entry(f, t).direct = Total(f.strikes, t)
    BY <1>16 DEF Summed
  <2>3. CASE t = q
    BY <1>4, <1>5, <1>7, <2>1, <2>2, <2>3 DEF AddUp
  <2>4. CASE t # q
    BY <1>4, <1>5, <1>7, <2>1, <2>2, <2>4 DEF AddUp
  <2> QED BY <2>3, <2>4
<1>17. OneMore(f, g, q, trace)
  BY <1>1, <1>5, <1>6, <1>16 DEF OneMore
<1> QED BY <1>15, <1>17 DEF g

-----------------------------------------------------------------------------
(* A barrage.                                                              *)

(* Every projectile that hit somebody delivered one strike, and every      *)
(* strike was delivered by one.                                            *)
Delivered(f) ==
  /\ \A i \in DOMAIN f.strikes : f.strikes[i].trace \in CharacterImpacts(f)
  /\ \A i, j \in DOMAIN f.strikes : f.strikes[i].trace = f.strikes[j].trace => i = j
  /\ \A n \in CharacterImpacts(f) : \E i \in DOMAIN f.strikes : f.strikes[i].trace = n

(* What an account tells between two projectiles.                          *)
Barrages(s, from, p, a) ==
  {f \in Tellings(s, from, p, a) :
     Summed(f) /\ Finished(s, f.strikes) /\ Delivered(f)}

(* What an account tells between two blows.                                *)
Beatings(s, from, p, a) ==
  {f \in Tellings(s, from, p, a) : Summed(f) /\ Finished(s, f.strikes)}

(* A strike keeps it.                                                      *)
LEMMA StrikeBeats ==
  ASSUME NEW s, NEW from \in RngState, NEW p \in Player, NEW a, Fit(a),
         NEW f \in Beatings(s, from, p, a), NEW q \in Player, NEW trace \in Nat,
         a.attack = "Projectile" => q # p
  PROVE  /\ Strike(f, a, q, trace) \in Beatings(s, from, p, a)
         /\ OneMore(f, Strike(f, a, q, trace), q, trace)
<1> DEFINE g == Strike(f, a, q, trace)
<1>1. f \in Tellings(s, from, p, a) /\ Summed(f) /\ Finished(s, f.strikes)
  BY DEF Beatings
<1>2. g \in Tellings(s, from, p, a) /\ OneMore(f, g, q, trace)
  BY <1>1, StrikeTells
<1> HIDE DEF g
<1>3. PICK r \in StrikeRecord :
        /\ g.strikes = Append(f.strikes, r) /\ r.target = q
        /\ r.eliminated <=> f.health[q] > 0 /\ g.health[q] = 0
  BY <1>2 DEF OneMore
<1>4. /\ f \in Book /\ g \in Book /\ Explained(s, f) /\ Explained(s, g) /\ Summed(g)
  BY <1>1, <1>2 DEF Tellings, OneMore
<1>5. Finished(s, g.strikes)
  BY <1>1, <1>3, <1>4, FinishedGrows
<1> QED BY <1>2, <1>4, <1>5 DEF Beatings, g

(* The account an ability starts with tells nothing yet.                   *)
LEMMA OpenedTells ==
  ASSUME NEW s, s.health \in [Player -> 0..MaxHealth], NEW from \in RngState,
         NEW p \in Player, NEW a
  PROVE  /\ Opened(s, from) \in Barrages(s, from, p, a)
         /\ Opened(s, from).strikes = <<>> /\ Opened(s, from).traces = <<>>
         /\ Opened(s, from).health = s.health /\ Opened(s, from).rng = from
         /\ Opened(s, from).damage \in [{} -> Item]
<1> DEFINE f == Opened(s, from)
           none == [q \in {} |-> q]
<1>1. none \in Damages /\ none \in [{} -> Item] /\ DOMAIN none = {}
  <2>1. none \in [{} -> Item] /\ DOMAIN none = {}
    OBVIOUS
  <2>2. {} \in SUBSET Player
    OBVIOUS
  <2> HIDE DEF none
  <2> QED BY <2>1, <2>2, Zenon DEF Damages
<1>2. f = [health |-> s.health, rng |-> from, dealt |-> 0, damage |-> none,
           strikes |-> <<>>, traces |-> <<>>]
  BY DEF Opened
<1> HIDE DEF f, none
<1>3. /\ f.health = s.health /\ f.rng = from /\ f.dealt = 0 /\ f.damage = none
      /\ f.strikes = <<>> /\ f.traces = <<>>
  BY <1>2
<1>4. f \in Book
  BY <1>1, <1>2 DEF Book
<1>5. \A r \in Player : Entry(f, r).direct = 0
  BY <1>1, <1>3 DEF Entry
<1>6. Explained(s, f)
  <2> SUFFICES ASSUME NEW r \in Player
               PROVE  /\ f.health[r] + Entry(f, r).direct = s.health[r]
                      /\ r \notin DOMAIN f.damage
    BY DEF Explained
  <2>1. s.health[r] \in Int
    BY BoundAssumption
  <2> QED BY <1>1, <1>3, <1>5, <2>1
<1>7. DOMAIN f.strikes = {} /\ CharacterImpacts(f) = {}
  BY <1>3 DEF CharacterImpacts
<1>8. Killed(s, f) /\ Delivered(f)
  BY <1>7 DEF Killed, Delivered
<1>9. Redrawn(from, a, f.strikes) = [rng |-> f.rng, ok |-> TRUE]
  BY <1>3, RedrawnStarts
<1>10. Summed(f)
  BY <1>3, <1>5, TotalStarts DEF Summed
<1>11. f \in Tellings(s, from, p, a)
  <2>1. ~(f.dealt > 0)
    BY <1>3
  <2>2. \A i \in DOMAIN f.strikes : CritFits(a, f.strikes[i])
    BY <1>7
  <2>3. f.health[p] = s.health[p]
    BY <1>3
  <2> QED BY <1>4, <1>6, <1>8, <1>9, <2>1, <2>2, <2>3, Zenon DEF Tellings
<1>12. Finished(s, f.strikes)
  BY <1>3, FinishedStarts
<1> QED BY <1>1, <1>3, <1>8, <1>10, <1>11, <1>12 DEF Barrages, f

(* The flight of a projectile: who is in its way, nearest first, and how   *)
(* long it lasts.                                                          *)
Shot == [line : Seq(Player), tick : Nat]

(* A trace more changes nothing else.                                      *)
LEMMA FlownTells ==
  ASSUME NEW s, NEW from, NEW p, NEW a, NEW f \in Beatings(s, from, p, a),
         NEW flight \in Shot,
         NEW cause \in {"Character", "Terrain"}
  PROVE  LET g == Flown(f, flight, cause)
         IN  /\ g \in Beatings(s, from, p, a)
             /\ g.traces = Append(f.traces, [tick |-> flight.tick, cause |-> cause])
             /\ g.strikes = f.strikes /\ g.health = f.health
<1> DEFINE t == [tick |-> flight.tick, cause |-> cause]
           g == Flown(f, flight, cause)
<1>1. f \in Book
  BY DEF Beatings, Tellings
<1>2. t \in Trace
  BY DEF Trace, Shot
<1>3. g = [f EXCEPT !.traces = Append(@, t)]
  BY DEF Flown
<1> HIDE DEF g, t
<1>4. /\ g \in Book
      /\ g.health = f.health /\ g.rng = f.rng /\ g.dealt = f.dealt
      /\ g.damage = f.damage /\ g.strikes = f.strikes
      /\ g.traces = Append(f.traces, t)
  <2>1. g = [health |-> f.health, rng |-> f.rng, dealt |-> f.dealt, damage |-> f.damage,
             strikes |-> f.strikes, traces |-> Append(f.traces, t)]
    BY <1>1, <1>3 DEF Book
  <2>2. Append(f.traces, t) \in Seq(Trace)
    BY <1>1, <1>2, BookIs
  <2>3. g \in Book
    BY <1>1, <2>1, <2>2, BookIs DEF Book
  <2> QED BY <2>1, <2>3
<1>5. \A q : Entry(g, q) = Entry(f, q)
  BY <1>4 DEF Entry
<1>6. g \in Beatings(s, from, p, a)
  <2>1. f \in Tellings(s, from, p, a) /\ Summed(f) /\ Finished(s, f.strikes)
    BY DEF Beatings
  <2>2. Explained(s, g)
    BY <1>4, <1>5, <2>1 DEF Tellings, Explained
  <2>3. Killed(s, g)
    BY <1>4, <2>1 DEF Tellings, Killed
  <2>4. Summed(g)
    BY <1>4, <1>5, <2>1 DEF Summed
  <2>5. g \in Tellings(s, from, p, a)
    BY <1>4, <2>1, <2>2, <2>3 DEF Tellings
  <2> QED BY <1>4, <2>1, <2>4, <2>5 DEF Beatings
<1> QED BY <1>4, <1>6 DEF g, t

(* A projectile keeps the account in order.                                *)
LEMMA FlyTells ==
  ASSUME NEW s, NEW from \in RngState, NEW p \in Player, NEW a, Fit(a),
         NEW f \in Barrages(s, from, p, a),
         NEW flight \in Shot
  PROVE  Fly(f, p, a, flight) \in Barrages(s, from, p, a)
<1> DEFINE way == {n \in DOMAIN flight.line :
                     flight.line[n] # p /\ f.health[flight.line[n]] > 0}
           first == CHOOSE n \in way : \A m \in way : n <= m
           hit == flight.line[first]
           flown == Flown(f, flight, "Character")
           missed == Flown(f, flight, "Terrain")
           N == Len(f.traces)
           g == Fly(f, p, a, flight)
<1>1. /\ f \in Beatings(s, from, p, a) /\ f \in Book /\ Delivered(f)
      /\ f.traces \in Seq(Trace) /\ N \in Nat /\ f.strikes \in Seq(StrikeRecord)
  <2>1. f \in Book
    BY DEF Barrages, Tellings
  <2> QED BY <2>1, BookIs DEF Barrages, Beatings
<1>2. /\ flown \in Beatings(s, from, p, a) /\ missed \in Beatings(s, from, p, a)
      /\ flown.traces = Append(f.traces, [tick |-> flight.tick, cause |-> "Character"])
      /\ missed.traces = Append(f.traces, [tick |-> flight.tick, cause |-> "Terrain"])
      /\ flown.strikes = f.strikes /\ missed.strikes = f.strikes
  BY <1>1, FlownTells
<1> HIDE DEF flown, missed, N
<1>3. CASE way = {}
  <2>1. g = missed
    BY <1>3 DEF Fly, missed
  <2>2. CharacterImpacts(missed) = CharacterImpacts(f)
    <3>1. /\ DOMAIN missed.traces = 1..(N + 1) /\ DOMAIN f.traces = 1..N
          /\ missed.traces[N + 1].cause = "Terrain"
          /\ \A n \in 1..N : missed.traces[n] = f.traces[n]
      BY <1>1, <1>2 DEF N
    <3>2. 1..(N + 1) = 1..N \cup {N + 1}
      BY <1>1
    <3> QED BY <3>1, <3>2 DEF CharacterImpacts
  <2>3. Delivered(missed)
    BY <1>1, <1>2, <2>2 DEF Delivered
  <2> QED BY <1>2, <2>1, <2>3 DEF Barrages, Beatings
<1>4. CASE way # {}
  <2>1. g = Strike(flown, a, hit, Len(flown.traces))
    BY <1>4 DEF Fly, flown
  <2>2. hit \in Player /\ hit # p
    <3>1. flight.line \in Seq(Player) /\ way \in SUBSET Nat
      BY DEF Shot
    <3>2. first \in way
      <4> HIDE DEF way
      <4>1. (CHOOSE n \in way : \A m \in way : n <= m) \in way
        BY <1>4, <3>1, LeastIs
      <4> QED BY <4>1
    <3> HIDE DEF first
    <3>3. first \in DOMAIN flight.line /\ flight.line[first] # p
      BY <3>2
    <3> QED BY <3>1, <3>3
  <2> HIDE DEF hit, g
  <2>3. /\ DOMAIN flown.traces = 1..(N + 1) /\ DOMAIN f.traces = 1..N
        /\ Len(flown.traces) = N + 1
        /\ flown.traces[N + 1].cause = "Character"
        /\ \A n \in 1..N : flown.traces[n] = f.traces[n]
    BY <1>1, <1>2 DEF N
  <2>4. CharacterImpacts(flown) = CharacterImpacts(f) \cup {N + 1}
    <3>1. 1..(N + 1) = 1..N \cup {N + 1}
      BY <1>1
    <3> QED BY <2>3, <3>1 DEF CharacterImpacts
  <2>5. N + 1 \in Nat
    BY <1>1
  <2>6. /\ g \in Beatings(s, from, p, a)
        /\ g.traces = flown.traces
        /\ \E r \in StrikeRecord :
             g.strikes = Append(flown.strikes, r) /\ r.target = hit /\ r.trace = N + 1
    <3>1. g = Strike(flown, a, hit, N + 1)
      BY <2>1, <2>3
    <3>2. /\ Strike(flown, a, hit, N + 1) \in Beatings(s, from, p, a)
          /\ OneMore(flown, Strike(flown, a, hit, N + 1), hit, N + 1)
      BY <1>2, <2>2, <2>5, StrikeBeats
    <3> QED BY <3>1, <3>2 DEF OneMore
  <2>7. /\ g \in Tellings(s, from, p, a) /\ Summed(g) /\ Finished(s, g.strikes)
        /\ g.traces = flown.traces
    BY <2>6 DEF Beatings
  <2>8. CharacterImpacts(g) = CharacterImpacts(f) \cup {N + 1}
    BY <2>4, <2>7 DEF CharacterImpacts
  <2>9. N + 1 \notin CharacterImpacts(f)
    BY <1>1, <2>3 DEF CharacterImpacts
  <2>10. Delivered(g)
    <3>0. PICK r \in StrikeRecord : g.strikes = Append(f.strikes, r) /\ r.trace = N + 1
      BY <1>2, <2>6
    <3> DEFINE M == Len(f.strikes)
    <3>1. /\ M \in Nat /\ DOMAIN f.strikes = 1..M /\ DOMAIN g.strikes = 1..(M + 1)
          /\ g.strikes[M + 1].trace = N + 1
          /\ \A i \in 1..M : g.strikes[i] = f.strikes[i]
      BY <1>1, <3>0
    <3>2. 1..(M + 1) = 1..M \cup {M + 1}
      BY <3>1
    <3> HIDE DEF M
    <3>3. /\ \A i \in 1..M : f.strikes[i].trace \in CharacterImpacts(f)
          /\ \A i, j \in 1..M : f.strikes[i].trace = f.strikes[j].trace => i = j
          /\ \A n \in CharacterImpacts(f) : \E i \in 1..M : f.strikes[i].trace = n
      BY <1>1, <3>1 DEF Delivered
    <3>4. \A i \in 1..M : g.strikes[i].trace \in CharacterImpacts(f)
      BY <3>1, <3>3
    <3>5. \A i \in 1..(M + 1) : g.strikes[i].trace \in CharacterImpacts(g)
      BY <2>8, <3>1, <3>2, <3>4
    <3>6. \A i, j \in 1..(M + 1) : g.strikes[i].trace = g.strikes[j].trace => i = j
      BY <2>9, <3>1, <3>2, <3>3, <3>4
    <3>7. \A n \in CharacterImpacts(g) : \E i \in 1..(M + 1) : g.strikes[i].trace = n
      <4> SUFFICES ASSUME NEW n \in CharacterImpacts(g)
                   PROVE  \E i \in 1..(M + 1) : g.strikes[i].trace = n
        OBVIOUS
      <4>1. CASE n = N + 1
        BY <3>1, <3>2, <4>1
      <4>2. CASE n \in CharacterImpacts(f)
        <5>1. PICK i \in 1..M : f.strikes[i].trace = n
          BY <3>3, <4>2
        <5>2. g.strikes[i].trace = n /\ i \in 1..(M + 1)
          BY <3>1, <3>2, <5>1
        <5> QED BY <5>2
      <4> QED BY <2>8, <4>1, <4>2
    <3> QED BY <3>1, <3>5, <3>6, <3>7 DEF Delivered
  <2> QED BY <2>7, <2>10 DEF Barrages, g
<1> QED BY <1>3, <1>4

(* A whole barrage keeps the account in order (FoldPath).                  *)
LEMMA BarrageTells ==
  ASSUME NEW pre, pre.health \in [Player -> 0..MaxHealth], NEW from \in RngState,
         NEW p \in Player, NEW a, Fit(a),
         NEW flights \in Seq(Shot)
  PROVE  FoldLeft(LAMBDA f, flight : Fly(f, p, a, flight), Opened(pre, from), flights)
           \in Barrages(pre, from, p, a)
<1> DEFINE N == Len(flights)
           S == Barrages(pre, from, p, a)
           base == Opened(pre, from)
           step == [n \in 1..N |-> [acc \in S |-> Fly(acc, p, a, flights[n])]]
           iter == CHOOSE iter : iter = [s \in SUBSET DOMAIN flights |->
                     IF s = {} THEN Opened(pre, from)
                     ELSE Fly(iter[s \ {Max(s)}], p, a, flights[Max(s)])]
<1>1. N \in Nat /\ DOMAIN flights = 1..N
  OBVIOUS
<1>2. base \in S /\ \A acc \in S : \A n \in 1..N : Fly(acc, p, a, flights[n]) \in S
  <2>1. \A n \in 1..N : flights[n] \in Shot
    OBVIOUS
  <2> QED BY <2>1, FlyTells, OpenedTells
<1>3. FoldLeft(LAMBDA f, flight : Fly(f, p, a, flight), Opened(pre, from), flights) = iter[1..N]
  BY <1>1 DEF FoldLeft, MapThenFoldSet
<1>4. /\ step \in [1..N -> [S -> S]]
      /\ \A n \in 1..N, acc \in S : step[n][acc] = Fly(acc, p, a, flights[n])
  BY <1>2
<1> HIDE DEF step, N, S, base
<1>5. PICK f \in [SUBSET (1..N) -> S] : \A s \in SUBSET (1..N) :
         f[s] = IF s = {} THEN base ELSE step[Max(s)][f[s \ {Max(s)}]]
  <2>1. \E f \in [SUBSET (1..N) -> S] : Folds(f, N, base, step)
    BY <1>2, <1>1, <1>4, FoldExists
  <2> QED BY <2>1 DEF Folds
<1>6. \A s \in SUBSET (1..N) : s # {} => Max(s) \in 1..N
  BY <1>1, MaxOfSome
<1>7. f = [s \in SUBSET (1..N) |-> IF s = {} THEN base
                     ELSE Fly(f[s \ {Max(s)}], p, a, flights[Max(s)])]
  BY <1>4, <1>5, <1>6
<1>8. iter = [s \in SUBSET (1..N) |-> IF s = {} THEN base
                     ELSE Fly(iter[s \ {Max(s)}], p, a, flights[Max(s)])]
  BY <1>1, <1>7 DEF base
<1> HIDE DEF iter
<1>9. Unfolds(iter, N, base, step, S)
  BY <1>4, <1>6, <1>8 DEF Unfolds
<1>10. base \in S /\ N \in Nat /\ step \in [1..N -> [S -> S]]
  BY <1>2, <1>1, <1>4
<1>11. PICK g \in [0..N -> S] : Walks(g, N, base, step) /\ g[N] = iter[1..N]
  <2>1. Reaches(iter, N, base, step, S)
    BY <1>9, <1>10, FoldPath
  <2> QED BY <2>1 DEF Reaches
<1>12. g[N] \in S
  BY <1>1, <1>11
<1> QED BY <1>3, <1>11, <1>12, Zenon DEF S

(* The blows of an ability, one after another.                             *)
Beaten(pre, from, a, blows) ==
  FoldLeft(LAMBDA f, q : Strike(f, a, q, 0), Opened(pre, from), blows)

(* The blows of an ability, one by one.                                    *)
BlowWalk(g, pre, from, a, blows) ==
  /\ g[0] = Opened(pre, from)
  /\ \A n \in 1..Len(blows) : g[n] = Strike(g[n - 1], a, blows[n], 0)
  /\ g[Len(blows)] = Beaten(pre, from, a, blows)

(* They are such a walk, and keep the account in order (FoldPath).         *)
LEMMA BlowWalks ==
  ASSUME NEW pre, pre.health \in [Player -> 0..MaxHealth], NEW from \in RngState,
         NEW p \in Player, NEW a, Fit(a), a.attack # "Projectile",
         NEW blows \in Seq(Player)
  PROVE  \E g \in [0..Len(blows) -> Beatings(pre, from, p, a)] :
           BlowWalk(g, pre, from, a, blows)
<1> DEFINE N == Len(blows)
           S == Beatings(pre, from, p, a)
           base == Opened(pre, from)
           step == [n \in 1..N |-> [acc \in S |-> Strike(acc, a, blows[n], 0)]]
           iter == CHOOSE iter : iter = [s \in SUBSET DOMAIN blows |->
                     IF s = {} THEN Opened(pre, from)
                     ELSE Strike(iter[s \ {Max(s)}], a, blows[Max(s)], 0)]
<1>1. N \in Nat /\ DOMAIN blows = 1..N
  OBVIOUS
<1>2. base \in S /\ \A acc \in S : \A n \in 1..N : Strike(acc, a, blows[n], 0) \in S
  <2>1. base \in S
    BY OpenedTells DEF Barrages, Beatings
  <2>2. ASSUME NEW acc \in S, NEW n \in 1..N PROVE Strike(acc, a, blows[n], 0) \in S
    <3>1. blows[n] \in Player
      OBVIOUS
    <3> QED BY <2>2, <3>1, StrikeBeats
  <2> QED BY <2>1, <2>2
<1>3. Beaten(pre, from, a, blows) = iter[1..N]
  BY <1>1 DEF FoldLeft, MapThenFoldSet, Beaten
<1>4. /\ step \in [1..N -> [S -> S]]
      /\ \A n \in 1..N, acc \in S : step[n][acc] = Strike(acc, a, blows[n], 0)
  BY <1>2
<1> HIDE DEF step, N, S, base
<1>5. PICK f \in [SUBSET (1..N) -> S] : \A s \in SUBSET (1..N) :
         f[s] = IF s = {} THEN base ELSE step[Max(s)][f[s \ {Max(s)}]]
  <2>1. \E f \in [SUBSET (1..N) -> S] : Folds(f, N, base, step)
    BY <1>2, <1>1, <1>4, FoldExists
  <2> QED BY <2>1 DEF Folds
<1>6. \A s \in SUBSET (1..N) : s # {} => Max(s) \in 1..N
  BY <1>1, MaxOfSome
<1>7. f = [s \in SUBSET (1..N) |-> IF s = {} THEN base
                     ELSE Strike(f[s \ {Max(s)}], a, blows[Max(s)], 0)]
  BY <1>4, <1>5, <1>6
<1>8. iter = [s \in SUBSET (1..N) |-> IF s = {} THEN base
                     ELSE Strike(iter[s \ {Max(s)}], a, blows[Max(s)], 0)]
  BY <1>1, <1>7 DEF base
<1> HIDE DEF iter
<1>9. Unfolds(iter, N, base, step, S)
  BY <1>4, <1>6, <1>8 DEF Unfolds
<1>10. base \in S /\ N \in Nat /\ step \in [1..N -> [S -> S]]
  BY <1>2, <1>1, <1>4
<1>11. PICK g \in [0..N -> S] : Walks(g, N, base, step) /\ g[N] = iter[1..N]
  <2>1. Reaches(iter, N, base, step, S)
    BY <1>9, <1>10, FoldPath
  <2> QED BY <2>1 DEF Reaches
<1>12. \A n \in 1..N : g[n] = Strike(g[n - 1], a, blows[n], 0)
  BY <1>1, <1>4, <1>11 DEF Walks
<1> QED BY <1>3, <1>11, <1>12 DEF Walks, BlowWalk, N, S, base

(* One record for every blow, of the player it landed on.                  *)
TellsOf(f, blows) ==
  /\ Len(f.strikes) = Len(blows)
  /\ \A i \in 1..Len(blows) : f.strikes[i].target = blows[i] /\ f.strikes[i].trace = 0

(* The records of the blows name those the blows landed on, in order.      *)
LEMMA BlowsTell ==
  ASSUME NEW s, s.health \in [Player -> 0..MaxHealth], NEW from \in RngState,
         NEW p \in Player, NEW a, Fit(a), a.attack # "Projectile",
         NEW blows \in Seq(Player)
  PROVE  /\ Beaten(s, from, a, blows) \in Beatings(s, from, p, a)
         /\ TellsOf(Beaten(s, from, a, blows), blows)
<1> DEFINE N == Len(blows)
           Upto(f, n) == /\ Len(f.strikes) = n
                         /\ \A i \in 1..n : /\ f.strikes[i].target = blows[i]
                                            /\ f.strikes[i].trace = 0
<1>1. PICK g \in [0..N -> Beatings(s, from, p, a)] : BlowWalk(g, s, from, a, blows)
  BY BlowWalks
<1> DEFINE T == {n \in 0..N : Upto(g[n], n)}
<1>2. N \in Nat
  OBVIOUS
<1>3. 0 \in T
  <2>1. g[0].strikes = <<>>
    <3>1. g[0] = Opened(s, from)
      BY <1>1 DEF BlowWalk
    <3>2. Opened(s, from).strikes = <<>>
      BY DEF Opened
    <3> QED BY <3>1, <3>2
  <2> QED BY <1>2, <2>1
<1>4. ASSUME NEW n \in 0..(N - 1), n \in T PROVE n + 1 \in T
  <2>1. n \in 0..N /\ n + 1 \in 1..N /\ (n + 1) - 1 = n
    BY <1>2
  <2>2. g[n + 1] = Strike(g[n], a, blows[n + 1], 0)
    BY <1>1, <2>1 DEF BlowWalk
  <2>3. g[n] \in Tellings(s, from, p, a) /\ blows[n + 1] \in Player
    BY <1>1, <2>1 DEF Beatings
  <2>4. OneMore(g[n], g[n + 1], blows[n + 1], 0)
    BY <2>2, <2>3, StrikeTells
  <2>5. PICK r \in StrikeRecord : /\ g[n + 1].strikes = Append(g[n].strikes, r)
                                  /\ r.target = blows[n + 1] /\ r.trace = 0
    BY <2>4 DEF OneMore
  <2>6. g[n].strikes \in Seq(StrikeRecord)
    BY <2>3, BookIs DEF Tellings
  <2>7. Upto(g[n], n)
    BY <1>4
  <2>8. Upto(g[n + 1], n + 1)
    BY <2>1, <2>5, <2>6, <2>7
  <2> QED BY <2>1, <2>8
<1>5. 0..N \subseteq T
  <2> HIDE DEF T
  <2> QED BY <1>2, <1>3, <1>4, UpTo
<1>6. Upto(g[N], N) /\ g[N] \in Beatings(s, from, p, a)
  BY <1>1, <1>2, <1>5
<1>7. Beaten(s, from, a, blows) = g[N]
  BY <1>1 DEF BlowWalk
<1> QED BY <1>6, <1>7 DEF TellsOf

-----------------------------------------------------------------------------
(* Whom blows and clusters reach.                                          *)

(* Ascending sequences of a number of players.                             *)
Ascends(seq, n) == \A i, j \in 1..n : i < j => seq[i] < seq[j]

(* Any finite group of players can be put in order, the first of them      *)
(* first.                                                                  *)
LEMMA OrderExists ==
  ASSUME NEW N \in Nat
  PROVE  \A S \in SUBSET Player : IsFiniteSet(S) /\ Cardinality(S) = N =>
           \E seq \in [1..N -> S] : Ascends(seq, N)
<1> DEFINE Has(n) == \A S \in SUBSET Player : IsFiniteSet(S) /\ Cardinality(S) = n =>
                        \E seq \in [1..n -> S] : Ascends(seq, n)
           T == {n \in 0..N : Has(n)}
<1>1. Has(0)
  <2> SUFFICES ASSUME NEW S \in SUBSET Player
               PROVE  \E seq \in [1..0 -> S] : Ascends(seq, 0)
    OBVIOUS
  <2>1. [i \in 1..0 |-> CHOOSE q \in S : TRUE] \in [1..0 -> S]
    OBVIOUS
  <2>2. Ascends([i \in 1..0 |-> CHOOSE q \in S : TRUE], 0)
    BY DEF Ascends
  <2> QED BY <2>1, <2>2
<1>2. ASSUME NEW n \in 0..(N - 1), Has(n) PROVE Has(n + 1)
  <2> SUFFICES ASSUME NEW S \in SUBSET Player, IsFiniteSet(S), Cardinality(S) = n + 1
               PROVE  \E seq \in [1..(n + 1) -> S] : Ascends(seq, n + 1)
    OBVIOUS
  <2>1. S # {}
    BY FS_EmptySet
  <2>2. PICK least \in S : \A q \in S : least <= q
    BY <2>1, OrderAssumption
  <2> DEFINE rest == S \ {least}
  <2>3. rest \in SUBSET Player /\ IsFiniteSet(rest) /\ Cardinality(rest) = n
    BY FS_RemoveElement
  <2> HIDE DEF rest
  <2>4. PICK seq \in [1..n -> rest] : Ascends(seq, n)
    BY <1>2, <2>3
  <2> DEFINE whole == [i \in 1..(n + 1) |-> IF i = 1 THEN least ELSE seq[i - 1]]
  <2>5. \A i \in 1..(n + 1) : i # 1 => i - 1 \in 1..n
    OBVIOUS
  <2>6. whole \in [1..(n + 1) -> S]
    BY <2>4, <2>5 DEF rest
  <2>7. Ascends(whole, n + 1)
    <3> SUFFICES ASSUME NEW i \in 1..(n + 1), NEW j \in 1..(n + 1), i < j
                 PROVE  whole[i] < whole[j]
      BY Zenon DEF Ascends
    <3>1. j # 1 /\ j - 1 \in 1..n /\ whole[j] = seq[j - 1] /\ seq[j - 1] \in rest
      BY <2>4, <2>5
    <3>2. CASE i = 1
      <4>1. whole[i] = least /\ least \in Nat /\ seq[j - 1] \in Nat
        BY <3>1, <3>2, RosterAssumption DEF rest
      <4>2. least <= seq[j - 1] /\ least # seq[j - 1]
        BY <2>2, <3>1 DEF rest
      <4> QED BY <3>1, <4>1, <4>2
    <3>3. CASE i # 1
      <4>1. i - 1 \in 1..n /\ whole[i] = seq[i - 1] /\ i - 1 < j - 1
        BY <2>5, <3>3
      <4> QED BY <2>4, <3>1, <4>1 DEF Ascends
    <3> QED BY <3>2, <3>3
  <2> HIDE DEF whole
  <2> QED BY <2>6, <2>7
<1>3. 0 \in T
  BY <1>1
<1> HIDE DEF Has
<1>4. \A n \in 0..(N - 1) : n \in T => n + 1 \in T
  BY <1>2
<1>5. N \in T
  <2>1. 0..N \subseteq T
    BY <1>3, <1>4, UpTo
  <2> QED BY <2>1
<1> QED BY <1>5 DEF Has

(* Players in order are those players.                                     *)
LEMMA InOrderIs ==
  ASSUME NEW S \in SUBSET Player
  PROVE  InOrder(S) \in Seq(S)
<1> DEFINE N == Cardinality(S)
<1>1. IsFiniteSet(S) /\ N \in Nat
  BY AimAssumption, FS_Subset, FS_CardinalityType
<1>2. \E seq \in [1..N -> S] : \A i, j \in 1..N : i < j => seq[i] < seq[j]
  BY <1>1, OrderExists DEF Ascends
<1>3. InOrder(S) \in [1..N -> S]
  BY <1>2 DEF InOrder
<1> HIDE DEF N
<1> QED BY <1>1, <1>3

(* Sequences put end to end, one after another.                            *)
EndToEnd(f, N, seqs) ==
  /\ f[0] = <<>>
  /\ \A n \in 1..N : f[n] = f[n - 1] \o seqs[n]
  /\ f[N] = FlattenSeq(seqs)

(* Flattening is such a walk.                                              *)
LEMMA FlattenWalks ==
  ASSUME NEW S, NEW N \in Nat, NEW seqs \in [1..N -> Seq(S)]
  PROVE  \E f \in [0..N -> Seq(S)] : EndToEnd(f, N, seqs)
<1> DEFINE step == [n \in 1..N |-> [some \in Seq(S) |-> some \o seqs[n]]]
           flatten == CHOOSE flatten : flatten = [i \in 1..Len(seqs) |->
                        IF i = 1 THEN seqs[i] ELSE flatten[i - 1] \o seqs[i]]
<1>0. seqs \in Seq(Seq(S)) /\ Len(seqs) = N
  OBVIOUS
<1>1. /\ step \in [1..N -> [Seq(S) -> Seq(S)]]
      /\ \A n \in 1..N : \A some \in Seq(S) : step[n][some] = some \o seqs[n]
  <2>1. \A n \in 1..N : \A some \in Seq(S) : some \o seqs[n] \in Seq(S)
    OBVIOUS
  <2> QED BY <2>1
<1> HIDE DEF step
<1>2. PICK f \in [0..N -> Seq(S)] : Walks(f, N, <<>>, step)
  <2>1. <<>> \in Seq(S)
    OBVIOUS
  <2> QED BY <1>1, <2>1, Recursion
<1>3. \A i \in 1..N : i \in 0..N /\ i - 1 \in 0..N /\ (i # 1 => i - 1 \in 1..N)
  OBVIOUS
<1>4. f[0] = <<>> /\ \A n \in 1..N : f[n] = f[n - 1] \o seqs[n]
  BY <1>1, <1>2, <1>3 DEF Walks
<1>5. f[N] = FlattenSeq(seqs)
  <2>1. CASE N = 0
    <3>1. FlattenSeq(seqs) = seqs
      BY <1>0, <2>1 DEF FlattenSeq
    <3>2. seqs = <<>>
      BY <1>0, <2>1
    <3> QED BY <1>4, <2>1, <3>1, <3>2
  <2>2. CASE N # 0
    <3> DEFINE g == [i \in 1..N |-> f[i]]
    <3> HIDE DEF flatten
    <3>1. ASSUME NEW i \in 1..N
          PROVE  f[i] = IF i = 1 THEN seqs[i] ELSE g[i - 1] \o seqs[i]
      <4>1. CASE i = 1
        <5>1. f[i] = <<>> \o seqs[i] /\ seqs[i] \in Seq(S)
          <6>1. f[i] = f[i - 1] \o seqs[i] /\ f[0] = <<>>
            BY <1>4, Zenon
          <6>2. i - 1 = 0
            BY <4>1
          <6> QED BY <6>1, <6>2
        <5>2. <<>> \o seqs[i] = seqs[i]
          <6> HIDE DEF g
          <6> QED BY <5>1
        <5> QED BY <4>1, <5>1, <5>2
      <4>2. CASE i # 1
        BY <1>3, <1>4, <4>2
      <4> QED BY <4>1, <4>2
    <3>2. g = [i \in 1..Len(seqs) |-> IF i = 1 THEN seqs[i] ELSE g[i - 1] \o seqs[i]]
      BY <1>0, <3>1
    <3> HIDE DEF g
    <3>3. flatten = [i \in 1..Len(seqs) |->
                       IF i = 1 THEN seqs[i] ELSE flatten[i - 1] \o seqs[i]]
      BY <3>2 DEF flatten
    <3> DEFINE T == {n \in 0..N : n # 0 => flatten[n] = f[n]}
    <3>4. 0 \in T
      OBVIOUS
    <3>5. ASSUME NEW n \in 0..(N - 1), n \in T PROVE n + 1 \in T
      <4>1. /\ n + 1 \in 0..N /\ n + 1 \in 1..N /\ (n + 1) - 1 = n
            /\ n + 1 = 1 <=> n = 0
        OBVIOUS
      <4>2. flatten[n + 1] = IF n + 1 = 1 THEN seqs[n + 1] ELSE flatten[n] \o seqs[n + 1]
        BY <1>0, <3>3, <4>1
      <4>3. seqs[n + 1] \in Seq(S) /\ f[n + 1] = f[n] \o seqs[n + 1]
        BY <1>4, <4>1
      <4>4. n = 0 => f[n] \o seqs[n + 1] = seqs[n + 1]
        <5> HIDE DEF T
        <5>1. <<>> \o seqs[n + 1] = seqs[n + 1]
          BY <4>3
        <5> QED BY <1>4, <5>1
      <4>5. n # 0 => flatten[n] = f[n]
        BY <3>5
      <4>6. flatten[n + 1] = f[n + 1]
        BY <4>1, <4>2, <4>3, <4>4, <4>5
      <4> QED BY <4>1, <4>6
    <3>6. 0..N \subseteq T
      <4> HIDE DEF T
      <4> QED BY <3>4, <3>5, UpTo
    <3>7. flatten[N] = f[N]
      BY <2>2, <3>6
    <3>8. FlattenSeq(seqs) = flatten[N]
      BY <1>0, <2>2 DEF FlattenSeq, flatten
    <3> QED BY <3>7, <3>8
  <2> QED BY <2>1, <2>2
<1> QED BY <1>4, <1>5 DEF EndToEnd

(* So sequences of one kind end to end are of that kind.                   *)
LEMMA FlattenIs ==
  ASSUME NEW S, NEW N \in Nat, NEW seqs \in [1..N -> Seq(S)]
  PROVE  FlattenSeq(seqs) \in Seq(S)
<1>1. PICK f \in [0..N -> Seq(S)] : EndToEnd(f, N, seqs)
  BY FlattenWalks
<1> QED BY <1>1 DEF EndToEnd

(* What an account tells while a cluster drops.                            *)
Drizzles(pre, from, p, a, hit) ==
  {g \in Tellings(pre, from, p, a) : g.strikes = hit.strikes /\ g.traces = hit.traces}

(* A drop keeps the account in order, except for the sums.                 *)
LEMMA DropTells ==
  ASSUME NEW pre, NEW from, NEW p \in Player, NEW a, NEW hit,
         NEW f \in Drizzles(pre, from, p, a, hit), NEW q \in Player \ {p}, NEW amount \in Nat
  PROVE  DealDamage(f, q, amount, FALSE) \in Drizzles(pre, from, p, a, hit)
<1> DEFINE g == DealDamage(f, q, amount, FALSE)
<1>1. /\ f \in Book /\ Explained(pre, f) /\ Killed(pre, f)
      /\ Redrawn(from, a, f.strikes) = [rng |-> f.rng, ok |-> TRUE]
      /\ \A i \in DOMAIN f.strikes : CritFits(a, f.strikes[i])
      /\ f.dealt > 0 => \E t \in Player : f.health[t] < pre.health[t]
      /\ a.attack = "Projectile" => f.health[p] = pre.health[p]
      /\ f.strikes = hit.strikes /\ f.traces = hit.traces
  BY DEF Drizzles, Tellings
<1>2. /\ g \in Book /\ g.rng = f.rng /\ g.dealt = f.dealt
      /\ g.strikes = f.strikes /\ g.traces = f.traces
      /\ \A t \in Player \ {q} : g.health[t] = f.health[t]
      /\ g.health[q] <= f.health[q]
      /\ Explained(pre, g)
  <2>1. g \in Book /\ Harmed(f, g, q)
    <3>1. f \in Book /\ FALSE \in BOOLEAN
      BY <1>1
    <3> QED BY <3>1, HarmIs, Zenon
  <2> HIDE DEF g
  <2> QED BY <1>1, <2>1 DEF Harmed
<1> HIDE DEF g
<1>3. ASSUME NEW t \in Player
      PROVE  f.health[t] \in Nat /\ g.health[t] \in Nat /\ g.health[t] <= f.health[t]
  <2>1. f.health[t] \in 0..MaxHealth /\ g.health[t] \in 0..MaxHealth /\ MaxHealth \in Nat
    BY <1>1, <1>2, BookIs, BoundAssumption
  <2>2. f.health[t] \in Nat /\ g.health[t] \in Nat
    BY <2>1
  <2> QED BY <1>2, <2>2
<1>4. Killed(pre, g)
  <2> SUFFICES ASSUME NEW i \in DOMAIN f.strikes, f.strikes[i].eliminated
               PROVE  /\ pre.health[f.strikes[i].target] > 0
                      /\ g.health[f.strikes[i].target] = 0
                      /\ \A j \in DOMAIN f.strikes \ {i} :
                           f.strikes[j].target = f.strikes[i].target => ~f.strikes[j].eliminated
    BY <1>2 DEF Killed
  <2>1. f.strikes[i].target \in Player
    <3>1. f.strikes \in Seq(StrikeRecord)
      BY <1>1, BookIs
    <3>2. f.strikes[i] \in StrikeRecord
      BY <3>1
    <3> QED BY <3>2 DEF StrikeRecord
  <2>2. /\ pre.health[f.strikes[i].target] > 0 /\ f.health[f.strikes[i].target] = 0
        /\ \A j \in DOMAIN f.strikes \ {i} :
             f.strikes[j].target = f.strikes[i].target => ~f.strikes[j].eliminated
    BY <1>1 DEF Killed
  <2>3. g.health[f.strikes[i].target] = 0
    BY <1>3, <2>1, <2>2
  <2> QED BY <2>2, <2>3
<1>5. g.dealt > 0 => \E t \in Player : g.health[t] < pre.health[t]
  <2> SUFFICES ASSUME g.dealt > 0 PROVE \E t \in Player : g.health[t] < pre.health[t]
    OBVIOUS
  <2>1. PICK t \in Player : f.health[t] < pre.health[t]
    BY <1>1, <1>2
  <2>2. pre.health[t] = f.health[t] + Entry(f, t).direct /\ Entry(f, t).direct \in Nat
    BY <1>1, EntryIs DEF Explained, Item
  <2>3. g.health[t] < pre.health[t]
    BY <1>3, <2>1, <2>2
  <2> QED BY <2>3
<1>6. a.attack = "Projectile" => g.health[p] = pre.health[p]
  BY <1>1, <1>2
<1> QED BY <1>1, <1>2, <1>4, <1>5, <1>6 DEF Drizzles, Tellings, g

(* The drops of a cluster, one after another.                              *)
Rained(hit, a, aim, targets) ==
  FoldLeft(LAMBDA acc, q : DealDamage(acc, q, Smaller(aim.blast[q], a.cap), FALSE),
           hit, targets)

(* So does a whole cluster (FoldPath).                                     *)
LEMMA DropsTell ==
  ASSUME NEW pre, NEW from, NEW p \in Player, NEW a, a.cap \in Nat,
         NEW hit \in Tellings(pre, from, p, a), NEW aim, aim.blast \in [Player -> Nat],
         NEW targets \in Seq(Player \ {p})
  PROVE  Rained(hit, a, aim, targets) \in Drizzles(pre, from, p, a, hit)
<1> DEFINE N == Len(targets)
           S == Drizzles(pre, from, p, a, hit)
           base == hit
           step == [n \in 1..N |-> [acc \in S |->
                     DealDamage(acc, targets[n], Smaller(aim.blast[targets[n]], a.cap), FALSE)]]
           iter == CHOOSE iter : iter = [s \in SUBSET DOMAIN targets |->
                     IF s = {} THEN hit
                     ELSE DealDamage(iter[s \ {Max(s)}], targets[Max(s)],
                                     Smaller(aim.blast[targets[Max(s)]], a.cap), FALSE)]
<1>1. N \in Nat /\ DOMAIN targets = 1..N
  OBVIOUS
<1>2. base \in S /\ \A acc \in S : \A n \in 1..N :
        DealDamage(acc, targets[n], Smaller(aim.blast[targets[n]], a.cap), FALSE) \in S
  <2>1. hit \in S
    BY DEF Drizzles
  <2>2. ASSUME NEW acc \in S, NEW n \in 1..N
        PROVE  DealDamage(acc, targets[n], Smaller(aim.blast[targets[n]], a.cap), FALSE) \in S
    <3>1. targets[n] \in Player \ {p}
      OBVIOUS
    <3>2. Smaller(aim.blast[targets[n]], a.cap) \in Nat
      BY <3>1 DEF Smaller
    <3> QED BY <3>1, <3>2, DropTells
  <2> QED BY <2>1, <2>2
<1>3. Rained(hit, a, aim, targets) = iter[1..N]
  BY <1>1 DEF FoldLeft, MapThenFoldSet, Rained
<1>4. /\ step \in [1..N -> [S -> S]]
      /\ \A n \in 1..N, acc \in S : step[n][acc] =
           DealDamage(acc, targets[n], Smaller(aim.blast[targets[n]], a.cap), FALSE)
  BY <1>2
<1> HIDE DEF step, N, S, base
<1>5. PICK f \in [SUBSET (1..N) -> S] : \A s \in SUBSET (1..N) :
         f[s] = IF s = {} THEN base ELSE step[Max(s)][f[s \ {Max(s)}]]
  <2>1. \E f \in [SUBSET (1..N) -> S] : Folds(f, N, base, step)
    BY <1>2, <1>1, <1>4, FoldExists
  <2> QED BY <2>1 DEF Folds
<1>6. \A s \in SUBSET (1..N) : s # {} => Max(s) \in 1..N
  BY <1>1, MaxOfSome
<1>7. f = [s \in SUBSET (1..N) |-> IF s = {} THEN base
                     ELSE DealDamage(f[s \ {Max(s)}], targets[Max(s)],
                                     Smaller(aim.blast[targets[Max(s)]], a.cap), FALSE)]
  BY <1>4, <1>5, <1>6
<1>8. iter = [s \in SUBSET (1..N) |-> IF s = {} THEN base
                     ELSE DealDamage(iter[s \ {Max(s)}], targets[Max(s)],
                                     Smaller(aim.blast[targets[Max(s)]], a.cap), FALSE)]
  BY <1>1, <1>7 DEF base
<1> HIDE DEF iter
<1>9. Unfolds(iter, N, base, step, S)
  BY <1>4, <1>6, <1>8 DEF Unfolds
<1>10. base \in S /\ N \in Nat /\ step \in [1..N -> [S -> S]]
  BY <1>2, <1>1, <1>4
<1>11. PICK g \in [0..N -> S] : Walks(g, N, base, step) /\ g[N] = iter[1..N]
  <2>1. Reaches(iter, N, base, step, S)
    BY <1>9, <1>10, FoldPath
  <2> QED BY <2>1 DEF Reaches
<1>12. g[N] \in S
  BY <1>1, <1>11
<1> QED BY <1>3, <1>11, <1>12 DEF S

(* Where an ability may land.                                              *)
LEMMA AimIs ==
  ASSUME NEW p \in Player, NEW a \in AbilityData, NEW aim \in Aims(p, a),
         match.health \in [Player -> 0..MaxHealth]
  PROVE  /\ a.attack = "Projectile" => aim.flights \in Seq(Shot)
         /\ aim.blast \in [Player -> Nat]
         /\ a.attack # "Projectile" => Struck(match, p, aim) \subseteq Player
<1>1. /\ NoAim.target = Nobody /\ NoAim.flights = <<>> /\ NoAim.reach = {}
      /\ NoAim.blast = [q \in Player |-> 0]
      /\ DOMAIN NoAim = {"target", "flights", "reach", "blast"}
  BY DEF NoAim
<1>2. Living(match) \subseteq Player
  BY DEF Living
<1>3. NoAim.blast \in [Player -> Nat]
  BY <1>1
<1>4. CASE a.attack = "Projectile"
  <2>1. \E shot \in [flights : Flights(a), blast : Blasts(a)] :
          aim = [NoAim EXCEPT !.flights = shot.flights, !.blast = shot.blast]
    BY <1>4, Zenon DEF Aims
  <2> PICK shot \in [flights : Flights(a), blast : Blasts(a)] :
          aim = [NoAim EXCEPT !.flights = shot.flights, !.blast = shot.blast]
    BY <2>1
  <2> DEFINE flights == shot.flights
             blast == shot.blast
  <2>2. aim.flights = flights /\ aim.blast = blast
    BY <1>1
  <2>3. flights \in Seq(Shot)
    <3>1. a.strikes \in Nat
      BY DEF AbilityData
    <3>2. [line : Lines, tick : Ticks] \subseteq Shot
      BY AimAssumption DEF Shot
    <3>3. flights \in [1..a.strikes -> Shot]
      BY <3>2 DEF Flights
    <3> QED BY <3>1, <3>3
  <2>4. blast \in [Player -> Nat]
    BY <1>3, AimAssumption DEF Blasts
  <2> QED BY <1>4, <2>2, <2>3, <2>4
<1>5. CASE a.attack # "Projectile"
  <2>1. \/ \E q \in Living(match) : aim = [NoAim EXCEPT !.target = q]
        \/ \E reach \in SUBSET (Living(match) \ {p}) : aim = [NoAim EXCEPT !.reach = reach]
    BY <1>5 DEF Aims
  <2>2. aim.blast = NoAim.blast /\ (aim.target # Nobody => aim.target \in Living(match))
    BY <1>1, <2>1
  <2> QED BY <1>2, <1>3, <1>5, <2>2 DEF Struck
<1> QED BY <1>4, <1>5

(* The blows of an ability land on players.                                *)
LEMMA BlowsAre ==
  ASSUME NEW s, NEW p, NEW a \in AbilityData, NEW aim, Struck(s, p, aim) \subseteq Player
  PROVE  Blows(s, p, a, aim) \in Seq(Player)
<1> DEFINE some == InOrder(Struck(s, p, aim))
<1>1. some \in Seq(Player)
  <2>1. some \in Seq(Struck(s, p, aim))
    BY InOrderIs
  <2> HIDE DEF some
  <2> QED BY <2>1
<1>2. a.strikes \in Nat
  BY DEF AbilityData
<1> HIDE DEF some
<1>3. [n \in 1..a.strikes |-> some] \in [1..a.strikes -> Seq(Player)]
  BY <1>1
<1>4. FlattenSeq([n \in 1..a.strikes |-> some]) \in Seq(Player)
  BY <1>2, <1>3, FlattenIs
<1> QED BY <1>4 DEF Blows, some

(* As many projectiles are cited as there are strikes.                     *)
LEMMA CitedOnce ==
  ASSUME NEW f \in Book, Delivered(f)
  PROVE  LET cited == {f.strikes[i].trace : i \in DOMAIN f.strikes}
         IN  /\ cited = CharacterImpacts(f)
             /\ Cardinality(cited) = Len(f.strikes)
<1> DEFINE N == Len(f.strikes)
           cited == {f.strikes[i].trace : i \in DOMAIN f.strikes}
           cite == [i \in 1..N |-> f.strikes[i].trace]
<1>1. N \in Nat /\ DOMAIN f.strikes = 1..N
  BY BookIs
<1>2. cited = CharacterImpacts(f)
  BY DEF Delivered
<1>3. IsFiniteSet(1..N) /\ Cardinality(1..N) = N
  BY <1>1, FS_Interval
<1>4. cite \in Bijection(1..N, cited)
  <2>1. cite \in [1..N -> cited]
    BY <1>1
  <2>2. \A i, j \in 1..N : cite[i] = cite[j] => i = j
    BY <1>1 DEF Delivered
  <2>3. \A n \in cited : \E i \in 1..N : cite[i] = n
    BY <1>1
  <2> HIDE DEF cite, cited, N
  <2> QED BY <2>1, <2>2, <2>3 DEF Bijection, Injection, Surjection, IsInjective
<1>5. Cardinality(cited) = N
  <2> HIDE DEF cite, cited, N
  <2>1. ExistsBijection(1..N, cited)
    BY <1>4 DEF ExistsBijection
  <2> QED BY <1>3, <2>1, FS_Bijection
<1> QED BY <1>2, <1>5

(* A cluster leaves the records and the traces as they are.                *)
LEMMA ClusterTells ==
  ASSUME NEW pre, NEW from, NEW p \in Player, NEW a, Fit(a),
         NEW hit \in Tellings(pre, from, p, a), NEW aim, aim.blast \in [Player -> Nat]
  PROVE  Cluster(hit, p, a, aim) \in Drizzles(pre, from, p, a, hit)
<1> DEFINE under == {q \in Player \ {p} : hit.health[q] > 0}
           targets == InOrder(under)
           rained == Rained(hit, a, aim, targets)
<1>1. targets \in Seq(Player \ {p})
  <2>1. targets \in Seq(under)
    BY InOrderIs
  <2> HIDE DEF targets
  <2> QED BY <2>1
<1>2. Cluster(hit, p, a, aim) = rained
  BY Zenon DEF Cluster, Rained
<1> HIDE DEF targets
<1>3. a.cap \in Nat
  BY DEF Fit, AbilityData
<1>4. rained \in Drizzles(pre, from, p, a, hit)
  BY <1>1, <1>3, DropsTell
<1> HIDE DEF rained
<1> QED BY <1>2, <1>4

(* What happens to the account after the attack, if anything does.         *)
LEMMA EffectsTell ==
  ASSUME NEW pre, NEW from, NEW p \in Player, NEW a, Fit(a),
         NEW hit \in Tellings(pre, from, p, a), Summed(hit),
         NEW aim, aim.blast \in [Player -> Nat], NEW f,
         f = IF a.cap = 0 THEN hit ELSE Cluster(hit, p, a, aim)
  PROVE  /\ f \in Tellings(pre, from, p, a)
         /\ f.strikes = hit.strikes /\ f.traces = hit.traces
         /\ a.cap = 0 => Summed(f)
<1>1. CASE a.cap = 0
  BY <1>1
<1>2. CASE a.cap # 0
  <2>1. f \in Drizzles(pre, from, p, a, hit)
    BY <1>2, ClusterTells
  <2> QED BY <1>2, <2>1 DEF Drizzles
<1> QED BY <1>1, <1>2

(* A resolved ability leaves an account that agrees with itself, and its   *)
(* records are those of its projectiles or of its blows.                   *)
LEMMA ResolveTells ==
  ASSUME NEW pre, pre.health \in [Player -> 0..MaxHealth], NEW from \in RngState,
         NEW p \in Player, NEW a, Fit(a), NEW aim, aim.blast \in [Player -> Nat],
         a.attack = "Projectile" => aim.flights \in Seq(Shot),
         a.attack # "Projectile" => Struck(pre, p, aim) \subseteq Player
  PROVE  /\ ResolveAbility(pre, from, p, a, aim) \in Tellings(pre, from, p, a)
         /\ a.cap = 0 => Summed(ResolveAbility(pre, from, p, a, aim))
         /\ Finished(pre, ResolveAbility(pre, from, p, a, aim).strikes)
         /\ DeliveriesReconcile(pre, p, a, aim, ResolveAbility(pre, from, p, a, aim))
<1> DEFINE flown == FoldLeft(LAMBDA f, flight : Fly(f, p, a, flight),
                             Opened(pre, from), aim.flights)
           blows == Blows(pre, p, a, aim)
           beaten == Beaten(pre, from, a, blows)
           f == ResolveAbility(pre, from, p, a, aim)
<1>1. CASE a.attack = "Projectile"
  <2>1. f = IF a.cap = 0 THEN flown ELSE Cluster(flown, p, a, aim)
    BY <1>1, Zenon DEF ResolveAbility
  <2>2. flown \in Barrages(pre, from, p, a)
    BY <1>1, BarrageTells
  <2> HIDE DEF flown, f
  <2>3. /\ flown \in Tellings(pre, from, p, a) /\ Summed(flown) /\ Delivered(flown)
        /\ Finished(pre, flown.strikes)
    BY <2>2 DEF Barrages
  <2>4. /\ f \in Tellings(pre, from, p, a)
        /\ f.strikes = flown.strikes /\ f.traces = flown.traces
        /\ a.cap = 0 => Summed(f)
    BY <2>1, <2>3, EffectsTell
  <2>5. f \in Book /\ Delivered(f)
    BY <2>3, <2>4 DEF Delivered, CharacterImpacts, Tellings
  <2>6. DeliveriesReconcile(pre, p, a, aim, f)
    BY <1>1, <2>5, CitedOnce DEF DeliveriesReconcile
  <2>7. Finished(pre, f.strikes)
    BY <2>3, <2>4
  <2> QED BY <2>4, <2>6, <2>7 DEF f
<1>2. CASE a.attack # "Projectile"
  <2>1. f = IF a.cap = 0 THEN beaten ELSE Cluster(beaten, p, a, aim)
    BY <1>2, Zenon DEF ResolveAbility, Beaten
  <2>2. blows \in Seq(Player)
    BY <1>2, BlowsAre DEF Fit
  <2> HIDE DEF blows
  <2>3. /\ beaten \in Beatings(pre, from, p, a)
        /\ TellsOf(beaten, blows)
    BY <1>2, <2>2, BlowsTell
  <2> HIDE DEF beaten, f
  <2>4. /\ beaten \in Tellings(pre, from, p, a) /\ Summed(beaten)
        /\ Finished(pre, beaten.strikes)
    BY <2>3 DEF Beatings
  <2>5. /\ f \in Tellings(pre, from, p, a)
        /\ f.strikes = beaten.strikes
        /\ a.cap = 0 => Summed(f)
    BY <2>1, <2>4, EffectsTell
  <2>6. f.strikes \in Seq(StrikeRecord)
    BY <2>5, BookIs DEF Tellings
  <2>7. DOMAIN f.strikes = 1..Len(blows)
    BY <2>3, <2>5, <2>6 DEF TellsOf
  <2>8. [i \in DOMAIN f.strikes |-> f.strikes[i].target] = blows
    BY <2>2, <2>3, <2>5, <2>7 DEF TellsOf
  <2>9. {f.strikes[i].trace : i \in DOMAIN f.strikes} \subseteq {0}
    BY <2>3, <2>5, <2>7 DEF TellsOf
  <2>10. DeliveriesReconcile(pre, p, a, aim, f)
    BY <1>2, <2>8, <2>9 DEF DeliveriesReconcile, blows
  <2>11. Finished(pre, f.strikes)
    BY <2>4, <2>5
  <2> QED BY <2>5, <2>10, <2>11 DEF f
<1> QED BY <1>1, <1>2

-----------------------------------------------------------------------------
(* What the host does to the health it is handed.                          *)

(* Nobody is hurt between s and t but those who are left with nothing:     *)
(* they fell out of the map or were drawn.                                 *)
Falls(s, t) == \A q \in Player : t.health[q] = s.health[q] \/ t.health[q] = 0

(* Settling lets players fall and does nothing else to them.               *)
LEMMA SettleFalls ==
  ASSUME NEW s \in State, NEW pit
  PROVE  Falls(s, Settle(s, pit))
BY DEF Settle, State, Falls

(* The victory check hurts nobody, but for the forced draw at the limit    *)
(* of turns, which leaves nobody alive.                                    *)
LEMMA LeaveFalls ==
  ASSUME NEW s \in State
  PROVE  Falls(s, LeaveVictoryCheck(s))
<1> DEFINE checked == CheckAndFinalize(s)
           drawn   == Eliminate(checked, Living(checked))
           forced  == CheckAndFinalize(drawn)
           outcome == IF checked.phase # "MatchComplete" /\ s.turn >= HardTurnLimit
                        THEN forced ELSE checked
           rotated == EndTurn(outcome, s.pending)
<1>1. checked \in State /\ checked.health = s.health
  <2>1. checked.health = s.health
    BY DEF CheckAndFinalize, State
  <2> QED BY <2>1, CheckCleansUp
<1> HIDE DEF checked
<1>2. /\ drawn \in State
      /\ drawn.health = [p \in Player |->
            IF p \in Living(checked) THEN 0 ELSE checked.health[p]]
  <2>1. drawn.health = [p \in Player |->
          IF p \in Living(checked) THEN 0 ELSE checked.health[p]]
    BY <1>1 DEF Eliminate, State
  <2> QED BY <1>1, <2>1, EliminateKills
<1> HIDE DEF drawn
<1>3. forced \in State /\ forced.health = drawn.health
  <2>1. forced.health = drawn.health
    BY <1>2 DEF CheckAndFinalize, State
  <2> QED BY <1>2, <2>1, CheckCleansUp
<1> HIDE DEF forced
<1>4. outcome \in State /\ Falls(s, outcome)
  BY <1>1, <1>2, <1>3 DEF Falls
<1> HIDE DEF outcome
<1>5. LeaveVictoryCheck(s) =
        IF outcome.phase = "MatchComplete" THEN [outcome EXCEPT !.last = s.pending]
        ELSE [rotated EXCEPT !.phase = "TurnStart"]
  BY DEF LeaveVictoryCheck, outcome, forced, drawn, checked
<1>6. /\ [outcome EXCEPT !.last = s.pending].health = outcome.health
      /\ [rotated EXCEPT !.phase = "TurnStart"].health = outcome.health
  BY <1>4 DEF EndTurn, State
<1> HIDE DEF rotated
<1> QED BY <1>4, <1>5, <1>6 DEF Falls

(* Neither does ending a turn.                                             *)
LEMMA FinishFalls ==
  ASSUME NEW s \in State, s.turn \in 1..HardTurnLimit,
         NEW reason \in TurnEndReason, NEW pit
  PROVE  Falls(s, FinishTurn(s, reason, pit))
<1> DEFINE declared == [s EXCEPT !.pending = reason]
           ticked   == TickStatuses(declared, declared.active)
           leaving  == [ticked EXCEPT !.phase = "VictoryCheck"]
           closed   == LeaveVictoryCheck(leaving)
           settled  == Settle(closed, pit)
           t        == FinishTurn(s, reason, pit)
<1>1. declared \in State /\ declared.health = s.health /\ declared.turn = s.turn
  BY DEF State
<1>2. /\ leaving \in State
      /\ leaving.phase = "VictoryCheck"
      /\ leaving.health = s.health
      /\ leaving.turn = s.turn
  <2> DEFINE embers == [declared.embers EXCEPT ![declared.active] =
                        IF @ > 0 THEN @ - 1 ELSE 0]
  <2>1. embers \in [Player -> Nat]
    BY <1>1 DEF State
  <2>2. ticked = [declared EXCEPT !.embers = embers]
    BY DEF TickStatuses
  <2> HIDE DEF embers, declared
  <2> QED BY <1>1, <2>1, <2>2 DEF State, Phase
<1>3. t = IF s.phase = "MatchComplete" THEN declared
          ELSE IF closed.phase = "MatchComplete" THEN closed ELSE OpenTurn(settled)
  BY DEF FinishTurn, RunCycle
<1> HIDE DEF leaving, t, declared
<1>4. closed \in State /\ Falls(leaving, closed)
  BY <1>2, LeaveEndsOrHandsOver, LeaveFalls
<1> HIDE DEF closed
<1>5. settled \in State /\ Falls(closed, settled)
  BY <1>4, SettleGrounds, SettleFalls
<1> HIDE DEF settled
<1>6. OpenTurn(settled).health = settled.health
  BY <1>5 DEF OpenTurn, State
<1> QED BY <1>1, <1>2, <1>3, <1>4, <1>5, <1>6 DEF Falls, t

(* Passing a turn hurts nobody else.                                       *)
LEMMA PassFalls ==
  ASSUME NEW s \in State, Good(s)
  PROVE  Falls(s, PassTurn(s))
<1>1. s.turn \in 1..HardTurnLimit /\ "Passed" \in TurnEndReason
  BY DEF Good, TurnEndReason
<1>2. PassTurn(s) = s \/ PassTurn(s) = FinishTurn(s, "Passed", {})
  BY DEF PassTurn
<1>3. Falls(s, FinishTurn(s, "Passed", {}))
  BY <1>1, FinishFalls
<1> QED BY <1>2, <1>3 DEF Falls

(* After an ability the health is that of its outcome, but for those.      *)
LEMMA AbilityFalls ==
  ASSUME NEW s \in State, Good(s), NEW c, Valid(s, c),
         c.id \in CommandId, c.slot \in Slot, NEW fx \in Effects(s, c), NEW pit
  PROVE  Falls(fx, SubmitAbility(s, c, fx, pit))
<1> DEFINE r == Resolve(s, c, fx)
           u == Settle(r, pit)
           t == SubmitAbility(s, c, fx, pit)
<1>1. r \in State /\ r.health = fx.health /\ r.turn = s.turn
  BY ResolveTyped
<1> HIDE DEF r
<1>2. u \in State /\ Falls(r, u) /\ u.turn = r.turn
  BY <1>1, SettleGrounds, SettleFalls DEF SameTurn
<1>3. t = FinishTurn(u, "Attacked", pit) \/ t = u
  BY DEF SubmitAbility, r
<1> HIDE DEF u, t
<1>4. u.turn \in 1..HardTurnLimit /\ "Attacked" \in TurnEndReason
  BY <1>1, <1>2 DEF Good, TurnEndReason
<1>5. Falls(u, FinishTurn(u, "Attacked", pit))
  BY <1>2, <1>4, FinishFalls
<1> QED BY <1>1, <1>2, <1>3, <1>5 DEF Falls, t

-----------------------------------------------------------------------------
(* The story of a request: what the events say, and in which order.        *)

(* What a sequence says.                                                   *)
Said(seq, e) == \E k \in DOMAIN seq : seq[k] = e

(* It says it once at most.                                                *)
Rare(seq, e) == \A j, k \in DOMAIN seq : seq[j] = e /\ seq[k] = e => j = k

(* Two sequences end to end say what either says, and what only one of     *)
(* them says is said no more often than there.                             *)
LEMMA ConcatSays ==
  ASSUME NEW S, NEW A \in Seq(S), NEW B \in Seq(S), NEW e
  PROVE  /\ A \o B \in Seq(S)
         /\ Said(A \o B, e) <=> Said(A, e) \/ Said(B, e)
         /\ Rare(A, e) /\ ~Said(B, e) => Rare(A \o B, e)
         /\ Rare(B, e) /\ ~Said(A, e) => Rare(A \o B, e)
<1> DEFINE M == Len(A)
           N == Len(B)
           C == A \o B
<1>1. /\ M \in Nat /\ N \in Nat /\ C \in Seq(S)
      /\ DOMAIN A = 1..M /\ DOMAIN B = 1..N /\ DOMAIN C = 1..(M + N)
      /\ \A k \in 1..(M + N) : C[k] = IF k <= M THEN A[k] ELSE B[k - M]
  OBVIOUS
<1> HIDE DEF M, N, C
<1>2. ASSUME NEW k \in 1..(M + N)
      PROVE  \/ k \in 1..M /\ C[k] = A[k]
             \/ k - M \in 1..N /\ C[k] = B[k - M] /\ k = M + (k - M)
  <2>1. CASE k <= M
    BY <1>1, <2>1
  <2>2. CASE ~(k <= M)
    BY <1>1, <2>2
  <2> QED BY <2>1, <2>2
<1>3. \A k \in 1..M : k \in 1..(M + N) /\ C[k] = A[k]
  BY <1>1
<1>4. \A k \in 1..N : M + k \in 1..(M + N) /\ C[M + k] = B[k]
  <2> SUFFICES ASSUME NEW k \in 1..N PROVE M + k \in 1..(M + N) /\ C[M + k] = B[k]
    OBVIOUS
  <2>1. M + k \in 1..(M + N) /\ ~(M + k <= M) /\ (M + k) - M = k
    BY <1>1
  <2> QED BY <1>1, <2>1
<1>5. Said(C, e) <=> Said(A, e) \/ Said(B, e)
  <2>1. ASSUME NEW k \in 1..(M + N), C[k] = e PROVE Said(A, e) \/ Said(B, e)
    BY <1>1, <1>2, <2>1 DEF Said
  <2>2. Said(A, e) => Said(C, e)
    BY <1>1, <1>3 DEF Said
  <2>3. Said(B, e) => Said(C, e)
    BY <1>1, <1>4 DEF Said
  <2> QED BY <1>1, <2>1, <2>2, <2>3 DEF Said
<1>6. ASSUME Rare(A, e), ~Said(B, e) PROVE Rare(C, e)
  <2>1. \A k \in 1..(M + N) : C[k] = e => k \in 1..M /\ A[k] = e
    BY <1>1, <1>2, <1>6 DEF Said
  <2> QED BY <1>1, <1>6, <2>1 DEF Rare
<1>7. ASSUME Rare(B, e), ~Said(A, e) PROVE Rare(C, e)
  <2>1. \A k \in 1..(M + N) : C[k] = e => k - M \in 1..N /\ B[k - M] = e /\ k = M + (k - M)
    BY <1>1, <1>2, <1>7 DEF Said
  <2>2. \A j, k \in 1..(M + N) : C[j] = e /\ C[k] = e => j - M = k - M
    BY <1>1, <1>7, <2>1 DEF Rare
  <2> QED BY <1>1, <2>1, <2>2 DEF Rare
<1> QED BY <1>1, <1>5, <1>6, <1>7 DEF C

(* So do any number of them.                                               *)
LEMMA FlattenSays ==
  ASSUME NEW S, NEW N \in Nat, NEW seqs \in [1..N -> Seq(S)], NEW e
  PROVE  /\ FlattenSeq(seqs) \in Seq(S)
         /\ Said(FlattenSeq(seqs), e) <=> \E n \in 1..N : Said(seqs[n], e)
         /\ /\ \A n \in 1..N : Rare(seqs[n], e)
            /\ \A m, n \in 1..N : Said(seqs[m], e) /\ Said(seqs[n], e) => m = n
            => Rare(FlattenSeq(seqs), e)
<1> DEFINE Alone == /\ \A n \in 1..N : Rare(seqs[n], e)
                    /\ \A m, n \in 1..N : Said(seqs[m], e) /\ Said(seqs[n], e) => m = n
<1>1. PICK f \in [0..N -> Seq(S)] : EndToEnd(f, N, seqs)
  BY FlattenWalks
<1> DEFINE Holds(n) == /\ Said(f[n], e) <=> \E m \in 1..n : Said(seqs[m], e)
                       /\ Alone => Rare(f[n], e)
           T == {n \in 0..N : Holds(n)}
<1>2. 0 \in T
  <2>1. f[0] = <<>> /\ DOMAIN <<>> = {} /\ 1..0 = {}
    BY <1>1 DEF EndToEnd
  <2> QED BY <2>1 DEF Said, Rare
<1>3. ASSUME NEW n \in 0..(N - 1), Holds(n) PROVE Holds(n + 1)
  <2> HIDE DEF Alone, T
  <2>0. n \in Nat
    OBVIOUS
  <2>1. /\ n \in 0..N /\ n + 1 \in 1..N /\ (n + 1) - 1 = n
        /\ 1..(n + 1) = 1..n \cup {n + 1} /\ n + 1 \notin 1..n /\ 1..n \subseteq 1..N
    <3>1. n \in 0..N /\ n + 1 \in 1..N /\ (n + 1) - 1 = n /\ n + 1 \notin 1..n
      BY <2>0
    <3>2. 1..(n + 1) = 1..n \cup {n + 1}
      BY <2>0
    <3>3. 1..n \subseteq 1..N
      BY <2>0
    <3> QED BY <3>1, <3>2, <3>3
  <2>2. f[n + 1] = f[n] \o seqs[n + 1] /\ f[n] \in Seq(S) /\ seqs[n + 1] \in Seq(S)
    BY <1>1, <2>1 DEF EndToEnd
  <2>3. Said(f[n + 1], e) <=> Said(f[n], e) \/ Said(seqs[n + 1], e)
    BY <2>2, ConcatSays
  <2>4. Said(f[n + 1], e) <=> \E m \in 1..(n + 1) : Said(seqs[m], e)
    BY <1>3, <2>1, <2>3
  <2>5. ASSUME Alone PROVE Rare(f[n + 1], e)
    <3>1. Rare(f[n], e) /\ Rare(seqs[n + 1], e)
      BY <1>3, <2>1, <2>5 DEF Alone
    <3>2. ~Said(seqs[n + 1], e) \/ ~Said(f[n], e)
      BY <1>3, <2>1, <2>5 DEF Alone
    <3> QED BY <2>2, <3>1, <3>2, ConcatSays
  <2> QED BY <2>4, <2>5
<1> HIDE DEF Holds
<1>4. \A n \in 0..(N - 1) : n \in T => n + 1 \in T
  BY <1>3
<1>5. N \in T
  <2>1. 0..N \subseteq T
    BY <1>2, <1>4, UpTo
  <2> QED BY <2>1
<1>6. Holds(N)
  BY <1>5
<1>7. f[N] = FlattenSeq(seqs) /\ f[N] \in Seq(S)
  BY <1>1 DEF EndToEnd
<1> QED BY <1>6, <1>7 DEF Holds

(* The order of derive_events() between events: neither is to be shown     *)
(* later.                                                                  *)
NoLater(a, b) == a.tick < b.tick \/ (a.tick = b.tick /\ a.rank <= b.rank)

(* What sorting compares.                                                  *)
GoesBefore(pending, i, j) ==
  \/ pending[i].tick < pending[j].tick
  \/ pending[i].tick = pending[j].tick /\ pending[i].rank < pending[j].rank
  \/ pending[i].tick = pending[j].tick /\ pending[i].rank = pending[j].rank /\ i < j

(* It is a strict order of all events.                                     *)
LEMMA EventsAreOrdered ==
  ASSUME NEW S, \A e \in S : e.tick \in Nat /\ e.rank \in Nat, NEW pending \in Seq(S),
         NEW i \in DOMAIN pending, NEW j \in DOMAIN pending, NEW k \in DOMAIN pending
  PROVE  /\ ~GoesBefore(pending, i, i)
         /\ GoesBefore(pending, i, j) /\ GoesBefore(pending, j, k)
              => GoesBefore(pending, i, k)
         /\ i # j => GoesBefore(pending, i, j) \/ GoesBefore(pending, j, i)
         /\ GoesBefore(pending, i, j) => NoLater(pending[i], pending[j])
<1>1. pending[i] \in S /\ pending[j] \in S /\ pending[k] \in S
  OBVIOUS
<1>2. i \in Nat /\ j \in Nat /\ k \in Nat
  OBVIOUS
<1>3. /\ pending[i].tick \in Nat /\ pending[j].tick \in Nat /\ pending[k].tick \in Nat
      /\ pending[i].rank \in Nat /\ pending[j].rank \in Nat /\ pending[k].rank \in Nat
  BY <1>1
<1>4. /\ ~GoesBefore(pending, i, i)
      /\ i # j => GoesBefore(pending, i, j) \/ GoesBefore(pending, j, i)
      /\ GoesBefore(pending, i, j) => NoLater(pending[i], pending[j])
  BY <1>2, <1>3 DEF GoesBefore, NoLater
<1>5. ASSUME GoesBefore(pending, i, j), GoesBefore(pending, j, k)
      PROVE  GoesBefore(pending, i, k)
  BY <1>2, <1>3, <1>5 DEF GoesBefore
<1> QED BY <1>4, <1>5

(* Sorting puts events in that order and changes nothing of what is said.  *)
LEMMA SortedIs ==
  ASSUME NEW S, \A e \in S : e.tick \in Nat /\ e.rank \in Nat, NEW pending \in Seq(S)
  PROVE  LET sorted == Sorted(pending)
         IN  /\ sorted \in Seq(S)
             /\ \A j, k \in DOMAIN sorted : j < k => NoLater(sorted[j], sorted[k])
             /\ \A e : Said(sorted, e) <=> Said(pending, e)
             /\ \A e : Rare(pending, e) => Rare(sorted, e)
<1> DEFINE N == Len(pending)
           ahead(i) == {j \in 1..N : GoesBefore(pending, j, i)}
           place == [i \in 1..N |-> 1 + Cardinality(ahead(i))]
           perm == [n \in 1..N |-> CHOOSE i \in 1..N : place[i] = n]
           sorted == Sorted(pending)
<1>1. N \in Nat /\ DOMAIN pending = 1..N
  OBVIOUS
<1> HIDE DEF N
<1>2. sorted = [n \in 1..N |-> pending[CHOOSE i \in 1..N : place[i] = n]]
  BY <1>1 DEF Sorted, GoesBefore
<1>3. sorted = [n \in 1..N |-> pending[perm[n]]]
  <2> HIDE DEF place, sorted
  <2> QED BY <1>2
<1> HIDE DEF sorted
<1>4. ASSUME NEW i \in 1..N
      PROVE  /\ IsFiniteSet(ahead(i)) /\ Cardinality(ahead(i)) \in 0..(N - 1)
             /\ ahead(i) \subseteq 1..N /\ i \notin ahead(i)
  <2>1. ahead(i) \subseteq 1..N /\ i \notin ahead(i)
    BY <1>1, EventsAreOrdered
  <2> HIDE DEF ahead
  <2>2. ahead(i) \in SUBSET ((1..N) \ {i})
    BY <2>1
  <2>3. /\ IsFiniteSet(1..N) /\ Cardinality(1..N) = N
        /\ IsFiniteSet((1..N) \ {i}) /\ Cardinality((1..N) \ {i}) = N - 1
    <3>1. IsFiniteSet(1..N) /\ Cardinality(1..N) = N
      BY <1>1, FS_Interval
    <3> QED BY <3>1, FS_RemoveElement
  <2>4. IsFiniteSet(ahead(i)) /\ Cardinality(ahead(i)) <= N - 1
    BY <2>2, <2>3, FS_Subset
  <2>5. Cardinality(ahead(i)) \in Nat
    BY <2>4, FS_CardinalityType
  <2> QED BY <1>1, <2>1, <2>4, <2>5
<1>5. ASSUME NEW i \in 1..N, NEW j \in 1..N, GoesBefore(pending, i, j)
      PROVE  Cardinality(ahead(i)) < Cardinality(ahead(j))
  <2>1. ahead(i) \cup {i} \in SUBSET ahead(j)
    <3>1. \A k \in ahead(i) : GoesBefore(pending, k, j)
      BY <1>1, <1>5, EventsAreOrdered
    <3> QED BY <1>5, <3>1
  <2> HIDE DEF ahead
  <2>2. Cardinality(ahead(i) \cup {i}) = Cardinality(ahead(i)) + 1
    BY <1>4, FS_AddElement
  <2>3. Cardinality(ahead(i) \cup {i}) <= Cardinality(ahead(j))
    BY <1>4, <2>1, FS_Subset
  <2>4. Cardinality(ahead(i)) \in Nat /\ Cardinality(ahead(j)) \in Nat
    BY <1>1, <1>4
  <2> QED BY <2>2, <2>3, <2>4
<1>6. /\ place \in [1..N -> 1..N]
      /\ \A i, j \in 1..N : GoesBefore(pending, i, j) => place[i] < place[j]
  <2>1. \A i \in 1..N : place[i] = 1 + Cardinality(ahead(i))
    OBVIOUS
  <2>2. \A i \in 1..N : 1 + Cardinality(ahead(i)) \in 1..N
    <3> HIDE DEF ahead
    <3> QED BY <1>1, <1>4
  <2>3. place \in [1..N -> 1..N]
    <3> HIDE DEF ahead
    <3> QED BY <2>2
  <2>4. \A i \in 1..N : Cardinality(ahead(i)) \in Nat
    <3> HIDE DEF ahead
    <3> QED BY <1>1, <1>4
  <2> HIDE DEF place, ahead
  <2> QED BY <1>5, <2>1, <2>3, <2>4
<1> HIDE DEF place, ahead
<1>7. \A i, j \in 1..N : i # j => place[i] < place[j] \/ place[j] < place[i]
  BY <1>1, <1>6, EventsAreOrdered
<1>8. \A n \in 1..N : \E i \in 1..N : place[i] = n
  <2>0. IsFiniteSet(1..N)
    BY <1>1, FS_Interval
  <2>1. \A i \in 1..N : place[i] \in Nat
    <3>1. \A i \in 1..N : place[i] \in 1..N
      BY <1>6
    <3> QED BY <1>1, <3>1
  <2>2. place \in Injection(1..N, 1..N)
    <3>1. \A i, j \in 1..N : place[i] = place[j] => i = j
      BY <1>7, <2>1
    <3> QED BY <1>6, <3>1 DEF Injection, IsInjective
  <2>3. place \in Surjection(1..N, 1..N)
    BY <2>0, <2>2, FS_Injection
  <2> QED BY <2>3 DEF Surjection
<1>9. \A n \in 1..N : perm[n] \in 1..N /\ place[perm[n]] = n
  BY <1>8
<1> HIDE DEF perm
<1>10. \A i \in 1..N : place[i] \in 1..N /\ perm[place[i]] = i
  <2> SUFFICES ASSUME NEW i \in 1..N PROVE place[i] \in 1..N /\ perm[place[i]] = i
    OBVIOUS
  <2>1. place[i] \in 1..N
    BY <1>6
  <2>2. perm[place[i]] \in 1..N /\ place[perm[place[i]]] = place[i]
    BY <1>9, <2>1
  <2>3. place[i] \in Nat
    BY <2>1
  <2> QED BY <1>7, <2>1, <2>2, <2>3
<1>11. sorted \in Seq(S) /\ DOMAIN sorted = 1..N /\ \A n \in 1..N : sorted[n] = pending[perm[n]]
  <2>1. \A n \in 1..N : pending[perm[n]] \in S
    BY <1>1, <1>9
  <2>2. DOMAIN sorted = 1..N /\ \A n \in 1..N : sorted[n] = pending[perm[n]]
    BY <1>3
  <2>3. sorted \in [1..N -> S]
    BY <1>3, <2>1
  <2> QED BY <1>1, <2>2, <2>3
<1>12. ASSUME NEW j \in 1..N, NEW k \in 1..N, j < k
       PROVE  NoLater(sorted[j], sorted[k])
  <2>1. /\ perm[j] \in 1..N /\ perm[k] \in 1..N
        /\ place[perm[j]] = j /\ place[perm[k]] = k
    BY <1>9
  <2>2. perm[j] # perm[k] /\ ~(k < j)
    BY <1>12, <2>1
  <2>3. ~GoesBefore(pending, perm[k], perm[j])
    BY <1>6, <2>1, <2>2
  <2>4. GoesBefore(pending, perm[j], perm[k])
    BY <1>1, <2>1, <2>2, <2>3, EventsAreOrdered
  <2>5. NoLater(pending[perm[j]], pending[perm[k]])
    BY <1>1, <2>1, <2>4, EventsAreOrdered
  <2> QED BY <1>11, <2>5
<1>13. ASSUME NEW e
       PROVE  /\ Said(sorted, e) <=> Said(pending, e)
              /\ Rare(pending, e) => Rare(sorted, e)
  <2>1. Said(sorted, e) => Said(pending, e)
    BY <1>1, <1>9, <1>11 DEF Said
  <2>2. Said(pending, e) => Said(sorted, e)
    BY <1>1, <1>10, <1>11 DEF Said
  <2>3. ASSUME Rare(pending, e), NEW j \in 1..N, NEW k \in 1..N, sorted[j] = e, sorted[k] = e
        PROVE  j = k
    <3>1. perm[j] = perm[k]
      BY <1>1, <1>9, <1>11, <2>3 DEF Rare
    <3> QED BY <1>9, <3>1
  <2> QED BY <1>11, <2>1, <2>2, <2>3 DEF Rare
<1> QED BY <1>11, <1>12, <1>13 DEF sorted

(* The players in order, each of them once.                                *)
LEMMA EveryoneInOrder ==
  /\ Cardinality(Player) \in Nat
  /\ InOrder(Player) \in [1..Cardinality(Player) -> Player]
  /\ \A q \in Player : \E i \in 1..Cardinality(Player) : InOrder(Player)[i] = q
  /\ \A i, j \in 1..Cardinality(Player) : InOrder(Player)[i] = InOrder(Player)[j] => i = j
<1> DEFINE N == Cardinality(Player)
           seq == InOrder(Player)
<1>1. IsFiniteSet(Player) /\ N \in Nat
  BY AimAssumption, FS_CardinalityType
<1>2. IsFiniteSet(1..N) /\ Cardinality(1..N) = N
  BY <1>1, FS_Interval
<1>3. \E some \in [1..N -> Player] : \A i, j \in 1..N : i < j => some[i] < some[j]
  BY <1>1, OrderExists DEF Ascends
<1>4. seq \in [1..N -> Player] /\ \A i, j \in 1..N : i < j => seq[i] < seq[j]
  BY <1>3 DEF InOrder
<1> HIDE DEF N, seq
<1>5. ASSUME NEW i \in 1..N, NEW j \in 1..N, seq[i] = seq[j] PROVE i = j
  <2>1. seq[i] \in Nat /\ seq[j] \in Nat
    BY <1>4, RosterAssumption
  <2>2. ~(seq[i] < seq[j]) /\ ~(seq[j] < seq[i])
    BY <1>5, <2>1
  <2> QED BY <1>1, <1>4, <2>2
<1>6. seq \in Injection(1..N, Player)
  BY <1>4, <1>5 DEF Injection, IsInjective
<1>7. seq \in Surjection(1..N, Player)
  <2>1. Cardinality(1..N) = Cardinality(Player)
    BY <1>2 DEF N
  <2> QED BY <1>1, <1>6, <2>1, FS_Injection
<1> QED BY <1>1, <1>4, <1>5, <1>7 DEF Surjection, N, seq

(* The later of two ticks, as resolution_tick keeps it.                    *)
Later(latest, t) == IF t.tick > latest THEN t.tick ELSE latest

(* No impact is shown after the tick of resolution.                        *)
LEMMA ResolutionTickIs ==
  ASSUME NEW f, f.traces \in Seq(Trace)
  PROVE  /\ ResolutionTick(f) \in Nat
         /\ \A n \in DOMAIN f.traces : f.traces[n].tick <= ResolutionTick(f)
<1> DEFINE traces == f.traces
           N == Len(traces)
           step == [n \in 1..N |-> [acc \in Nat |-> Later(acc, traces[n])]]
           iter == CHOOSE iter : iter = [s \in SUBSET DOMAIN traces |->
                     IF s = {} THEN 0 ELSE Later(iter[s \ {Max(s)}], traces[Max(s)])]
<1>1. N \in Nat /\ 0 \in Nat /\ DOMAIN traces = 1..N
  OBVIOUS
<1>2. \A n \in 1..N : traces[n].tick \in Nat
  <2>1. \A n \in 1..N : traces[n] \in Trace
    OBVIOUS
  <2> QED BY <2>1 DEF Trace
<1>3. ResolutionTick(f) = iter[1..N]
  BY <1>1 DEF FoldLeft, MapThenFoldSet, ResolutionTick, Later
<1>4. /\ step \in [1..N -> [Nat -> Nat]]
      /\ \A n \in 1..N, acc \in Nat : step[n][acc] = Later(acc, traces[n])
  BY <1>2 DEF Later
<1> HIDE DEF step, N, traces
<1>5. PICK g \in [SUBSET (1..N) -> Nat] : \A s \in SUBSET (1..N) :
         g[s] = IF s = {} THEN 0 ELSE step[Max(s)][g[s \ {Max(s)}]]
  <2>1. \E g \in [SUBSET (1..N) -> Nat] : Folds(g, N, 0, step)
    BY <1>1, <1>4, FoldExists
  <2> QED BY <2>1 DEF Folds
<1>6. \A s \in SUBSET (1..N) : s # {} => Max(s) \in 1..N
  BY <1>1, MaxOfSome
<1>7. g = [s \in SUBSET (1..N) |-> IF s = {} THEN 0
                     ELSE Later(g[s \ {Max(s)}], traces[Max(s)])]
  BY <1>4, <1>5, <1>6
<1>8. iter = [s \in SUBSET (1..N) |-> IF s = {} THEN 0
                     ELSE Later(iter[s \ {Max(s)}], traces[Max(s)])]
  BY <1>1, <1>7
<1> HIDE DEF iter
<1>9. Unfolds(iter, N, 0, step, Nat)
  BY <1>4, <1>6, <1>8 DEF Unfolds
<1>10. PICK h \in [0..N -> Nat] : Walks(h, N, 0, step) /\ h[N] = iter[1..N]
  <2>1. Reaches(iter, N, 0, step, Nat)
    BY <1>1, <1>4, <1>9, FoldPath
  <2> QED BY <2>1 DEF Reaches
<1> DEFINE T == {m \in 0..N : \A n \in 1..m : traces[n].tick <= h[m]}
<1>11. 0 \in T
  BY <1>1
<1>12. ASSUME NEW m \in 0..(N - 1), m \in T PROVE m + 1 \in T
  <2>1. m \in Nat /\ m + 1 \in 0..N /\ m + 1 \in 1..N /\ (m + 1) - 1 = m /\ m \in 0..N
    BY <1>1
  <2>2. h[m + 1] = Later(h[m], traces[m + 1])
    <3>1. h[m + 1] = step[m + 1][h[m]]
      BY <1>10, <2>1 DEF Walks
    <3>2. h[m] \in Nat
      BY <1>10, <2>1
    <3> QED BY <1>4, <2>1, <3>1, <3>2
  <2>3. h[m] \in Nat /\ traces[m + 1].tick \in Nat
    BY <1>2, <1>10, <2>1
  <2>4. h[m] <= h[m + 1] /\ traces[m + 1].tick <= h[m + 1] /\ h[m + 1] \in Nat
    BY <2>2, <2>3 DEF Later
  <2>5. ASSUME NEW n \in 1..(m + 1) PROVE traces[n].tick <= h[m + 1]
    <3>1. CASE n = m + 1
      BY <2>4, <3>1
    <3>2. CASE n \in 1..m
      <4>1. traces[n].tick <= h[m]
        BY <1>12, <3>2
      <4>2. traces[n].tick \in Nat
        <5>1. n \in 1..N
          BY <1>1, <2>1, <3>2
        <5> QED BY <1>2, <5>1
      <4> QED BY <2>3, <2>4, <4>1, <4>2
    <3> QED BY <2>1, <3>1, <3>2
  <2> QED BY <2>1, <2>5
<1>13. N \in T
  <2>1. 0..N \subseteq T
    <3> HIDE DEF T
    <3> QED BY <1>1, <1>11, <1>12, UpTo
  <2> QED BY <1>1, <2>1
<1> QED BY <1>1, <1>3, <1>10, <1>13 DEF traces

-----------------------------------------------------------------------------
(* The story.                                                              *)

(* A projectile and how it ends.                                           *)
FlightEvent(n) == Event(0, 0, "ProjectileTrace", n)

(* Its impact.                                                             *)
ImpactEvent(f, n) == Event(f.traces[n].tick, 2, "Impact", n)

(* A strike.                                                               *)
StrikeEvent(f, i) ==
  IF f.strikes[i].trace = 0 THEN Event(0, 1, "StrikeResolved", i)
  ELSE Event(f.traces[f.strikes[i].trace].tick, 3, "StrikeResolved", i)

(* What is left of a player.                                               *)
HealthEvent(f, q) == Event(ResolutionTick(f), 13, "HealthChanged", q)

(* His death.                                                              *)
DeathEvent(f, q) ==
  Event(ResolutionTick(f), 17, "PlayerEliminated",
        [player |-> q, cause |-> EliminationCause(f, q)])

(* The end of the turn.                                                    *)
EndEvent(pre, post, f) ==
  Event(ResolutionTick(f), 19, "TurnEnded", [player |-> pre.active, reason |-> post.last])

(* The end of the match.                                                   *)
OverEvent(post, f) == Event(ResolutionTick(f), 20, "MatchCompleted", Living(post))

(* The next turn.                                                          *)
OpenEvent(post, f) ==
  Event(ResolutionTick(f), 21, "TurnOpened", [player |-> post.active, turn |-> post.turn])

(* Every event a request may be told with.                                 *)
Story(pre, post, f) ==
  UNION {{FlightEvent(n) : n \in DOMAIN f.traces},
         {ImpactEvent(f, n) : n \in DOMAIN f.traces},
         {StrikeEvent(f, i) : i \in DOMAIN f.strikes},
         {HealthEvent(f, q) : q \in Player},
         {DeathEvent(f, q) : q \in Died(pre, post)},
         {EndEvent(pre, post, f), OverEvent(post, f), OpenEvent(post, f)}}

(* Where the strikes of an account come from: a blow, or one of its        *)
(* projectiles.                                                            *)
Traced(f) == \A i \in DOMAIN f.strikes : f.strikes[i].trace \in {0} \cup DOMAIN f.traces

(* What the kind and the rank of an event say of it.                       *)
LEMMA StoryIs ==
  ASSUME NEW pre, NEW post, NEW f \in Book, Traced(f), NEW e \in Story(pre, post, f)
  PROVE  /\ e.tick \in Nat /\ e.rank \in Nat /\ e.tick <= ResolutionTick(f)
         /\ e.kind = "ProjectileTrace" => e.tick = 0 /\ e.rank = 0
         /\ e.kind = "Impact" => /\ e.about \in DOMAIN f.traces
                                 /\ e = ImpactEvent(f, e.about)
         /\ e.kind = "StrikeResolved" => /\ e.about \in DOMAIN f.strikes /\ e.rank <= 3
                                         /\ e = StrikeEvent(f, e.about)
         /\ e.kind = "PlayerEliminated" =>
              \E q \in Died(pre, post) : e = DeathEvent(f, q)
         /\ e.kind = "TurnEnded" => e = EndEvent(pre, post, f)
         /\ e.kind = "TurnOpened" => e = OpenEvent(post, f)
         /\ e.rank = 19 => e = EndEvent(pre, post, f)
         /\ e.rank > 19 => e.kind \in {"MatchCompleted", "TurnOpened"}
         /\ e.rank > 20 => e = OpenEvent(post, f)
<1> DEFINE now == ResolutionTick(f)
<1>1. now \in Nat /\ \A n \in DOMAIN f.traces : f.traces[n].tick \in Nat /\ f.traces[n].tick <= now
  <2>1. f.traces \in Seq(Trace)
    BY BookIs
  <2>2. \A n \in DOMAIN f.traces : f.traces[n] \in Trace
    BY <2>1
  <2> QED BY <2>1, <2>2, ResolutionTickIs DEF Trace
<1> HIDE DEF now
<1>2. \A tick, rank, kind, about :
        LET v == Event(tick, rank, kind, about)
        IN  v.tick = tick /\ v.rank = rank /\ v.kind = kind /\ v.about = about
  BY DEF Event
<1>3. CASE \E n \in DOMAIN f.traces : e = FlightEvent(n)
  <2>1. PICK n \in DOMAIN f.traces : e = FlightEvent(n)
    BY <1>3
  <2>2. e.tick = 0 /\ e.rank = 0 /\ e.kind = "ProjectileTrace"
    BY <1>2, <2>1 DEF FlightEvent
  <2> QED BY <1>1, <2>2 DEF now
<1>4. CASE \E n \in DOMAIN f.traces : e = ImpactEvent(f, n)
  <2>1. PICK n \in DOMAIN f.traces : e = ImpactEvent(f, n)
    BY <1>4
  <2>2. e.tick = f.traces[n].tick /\ e.rank = 2 /\ e.kind = "Impact" /\ e.about = n
    BY <1>2, <2>1 DEF ImpactEvent
  <2> QED BY <1>1, <2>1, <2>2 DEF now
<1>5. CASE \E i \in DOMAIN f.strikes : e = StrikeEvent(f, i)
  <2>1. PICK i \in DOMAIN f.strikes : e = StrikeEvent(f, i)
    BY <1>5
  <2>2. CASE f.strikes[i].trace = 0
    <3>1. e.tick = 0 /\ e.rank = 1 /\ e.kind = "StrikeResolved" /\ e.about = i
      BY <1>2, <2>1, <2>2 DEF StrikeEvent
    <3> QED BY <1>1, <2>1, <3>1 DEF now
  <2>3. CASE f.strikes[i].trace # 0
    <3>1. f.strikes[i].trace \in DOMAIN f.traces
      BY <2>3 DEF Traced
    <3>2. /\ e.tick = f.traces[f.strikes[i].trace].tick /\ e.rank = 3
          /\ e.kind = "StrikeResolved" /\ e.about = i
      <4>1. e = Event(f.traces[f.strikes[i].trace].tick, 3, "StrikeResolved", i)
        BY <2>1, <2>3, Zenon DEF StrikeEvent
      <4> QED BY <4>1 DEF Event
    <3>3. e.tick \in Nat /\ e.tick <= ResolutionTick(f)
      BY <1>1, <3>1, <3>2 DEF now
    <3>4. e = StrikeEvent(f, e.about) /\ e.about \in DOMAIN f.strikes
      BY <2>1, <3>2
    <3>5. e.rank \in Nat /\ e.rank <= 3 /\ e.rank # 19 /\ ~(e.rank > 19) /\ ~(e.rank > 20)
      BY <3>2
    <3> QED BY <3>2, <3>3, <3>4, <3>5
  <2> QED BY <2>2, <2>3
<1>6. CASE \E q \in Player : e = HealthEvent(f, q)
  <2>1. PICK q \in Player : e = HealthEvent(f, q)
    BY <1>6
  <2>2. e.tick = now /\ e.rank = 13 /\ e.kind = "HealthChanged"
    BY <1>2, <2>1 DEF HealthEvent, now
  <2> QED BY <1>1, <2>2 DEF now
<1>7. CASE \E q \in Died(pre, post) : e = DeathEvent(f, q)
  <2>1. PICK q \in Died(pre, post) : e = DeathEvent(f, q)
    BY <1>7
  <2>2. e.tick = now /\ e.rank = 17 /\ e.kind = "PlayerEliminated"
    BY <1>2, <2>1 DEF DeathEvent, now
  <2> QED BY <1>1, <2>1, <2>2 DEF now
<1>8. CASE e = EndEvent(pre, post, f)
  <2>1. e.tick = now /\ e.rank = 19 /\ e.kind = "TurnEnded"
    BY <1>2, <1>8 DEF EndEvent, now
  <2> QED BY <1>1, <1>8, <2>1 DEF now
<1>9. CASE e = OverEvent(post, f)
  <2>1. e.tick = now /\ e.rank = 20 /\ e.kind = "MatchCompleted"
    BY <1>2, <1>9 DEF OverEvent, now
  <2> QED BY <1>1, <2>1 DEF now
<1>10. CASE e = OpenEvent(post, f)
  <2>1. e.tick = now /\ e.rank = 21 /\ e.kind = "TurnOpened"
    BY <1>2, <1>10 DEF OpenEvent, now
  <2> QED BY <1>1, <1>10, <2>1 DEF now
<1> QED BY <1>3, <1>4, <1>5, <1>6, <1>7, <1>8, <1>9, <1>10, Zenon DEF Story

(* The events of projectiles are those of flights and impacts.             *)
LEMMA FlightsAreTold ==
  ASSUME NEW pre, NEW post, NEW f \in Book, Traced(f)
  PROVE  /\ TraceEvents(f) \in Seq({e \in Story(pre, post, f) : e.rank < 17})
         /\ \A n \in DOMAIN f.traces : /\ Said(TraceEvents(f), FlightEvent(n))
                                       /\ Said(TraceEvents(f), ImpactEvent(f, n))
<1> DEFINE S == {e \in Story(pre, post, f) : e.rank < 17}
           N == Len(f.traces)
           both(n) == <<FlightEvent(n), ImpactEvent(f, n)>>
           seqs == [n \in 1..N |-> both(n)]
<1>1. N \in Nat /\ DOMAIN f.traces = 1..N
  <2>1. f.traces \in Seq(Trace)
    BY BookIs
  <2> QED BY <2>1
<1>2. TraceEvents(f) = FlattenSeq(seqs)
  BY <1>1, Zenon DEF TraceEvents, FlightEvent, ImpactEvent
<1> HIDE DEF N
<1>3. ASSUME NEW n \in 1..N
      PROVE  FlightEvent(n) \in S /\ ImpactEvent(f, n) \in S
  <2>1. FlightEvent(n) \in Story(pre, post, f) /\ ImpactEvent(f, n) \in Story(pre, post, f)
    BY <1>1, Zenon DEF Story
  <2>2. FlightEvent(n).rank = 0 /\ ImpactEvent(f, n).rank = 2
    BY DEF FlightEvent, ImpactEvent, Event
  <2> QED BY <2>1, <2>2
<1> HIDE DEF S
<1>4. \A n \in 1..N : /\ both(n) \in Seq(S)
                      /\ Said(both(n), FlightEvent(n)) /\ Said(both(n), ImpactEvent(f, n))
  <2> SUFFICES ASSUME NEW n \in 1..N
               PROVE  /\ both(n) \in Seq(S)
                      /\ Said(both(n), FlightEvent(n)) /\ Said(both(n), ImpactEvent(f, n))
    OBVIOUS
  <2>1. /\ both(n) \in Seq(S) /\ DOMAIN both(n) = 1..2
        /\ both(n)[1] = FlightEvent(n) /\ both(n)[2] = ImpactEvent(f, n)
    BY <1>3
  <2> HIDE DEF both
  <2>2. 1 \in 1..2 /\ 2 \in 1..2
    OBVIOUS
  <2> QED BY <2>1, <2>2 DEF Said
<1> HIDE DEF both
<1>5. seqs \in [1..N -> Seq(S)] /\ \A n \in 1..N : seqs[n] = both(n)
  BY <1>4
<1> HIDE DEF seqs
<1>6. \A e : /\ FlattenSeq(seqs) \in Seq(S)
             /\ Said(FlattenSeq(seqs), e) <=> \E n \in 1..N : Said(seqs[n], e)
  BY <1>1, <1>5, FlattenSays
<1>7. ASSUME NEW n \in 1..N
      PROVE  Said(FlattenSeq(seqs), FlightEvent(n)) /\ Said(FlattenSeq(seqs), ImpactEvent(f, n))
  BY <1>4, <1>5, <1>6, Zenon
<1> QED BY <1>1, <1>2, <1>6, <1>7 DEF S

(* Every strike has its event.                                             *)
LEMMA StrikesAreTold ==
  ASSUME NEW pre, NEW post, NEW f \in Book, Traced(f)
  PROVE  /\ StrikeEvents(f) \in Seq({e \in Story(pre, post, f) : e.rank < 17})
         /\ \A i \in DOMAIN f.strikes : Said(StrikeEvents(f), StrikeEvent(f, i))
<1> DEFINE S == {e \in Story(pre, post, f) : e.rank < 17}
           N == Len(f.strikes)
<1>1. N \in Nat /\ DOMAIN f.strikes = 1..N
  <2>1. f.strikes \in Seq(StrikeRecord)
    BY BookIs
  <2> QED BY <2>1
<1>2. StrikeEvents(f) = [i \in 1..N |-> StrikeEvent(f, i)]
  BY <1>1, Zenon DEF StrikeEvents, StrikeEvent
<1> HIDE DEF N
<1>3. ASSUME NEW i \in 1..N PROVE StrikeEvent(f, i) \in S
  <2>1. StrikeEvent(f, i) \in Story(pre, post, f)
    BY <1>1, Zenon DEF Story
  <2>2. StrikeEvent(f, i).rank \in {1, 3}
    BY DEF StrikeEvent, Event
  <2> QED BY <2>1, <2>2
<1> HIDE DEF S
<1>4. StrikeEvents(f) \in Seq(S)
  BY <1>1, <1>2, <1>3
<1>5. ASSUME NEW i \in 1..N PROVE Said(StrikeEvents(f), StrikeEvent(f, i))
  BY <1>2 DEF Said
<1> QED BY <1>1, <1>4, <1>5 DEF S

(* A player dies in his own events and nowhere else, and once.             *)
LEMMA PlayerIsTold ==
  ASSUME NEW pre, NEW post, NEW f \in Book, Traced(f), NEW q \in Player
  PROVE  /\ PlayerEvents(pre, post, f, q) \in Seq({e \in Story(pre, post, f) : e.rank < 19})
         /\ \A r \in Died(pre, post) :
              /\ Said(PlayerEvents(pre, post, f, q), DeathEvent(f, r)) <=> r = q
              /\ Rare(PlayerEvents(pre, post, f, q), DeathEvent(f, r))
<1> DEFINE S == {e \in Story(pre, post, f) : e.rank < 19}
           H == IF pre.health[q] # post.health[q] \/ q \in DOMAIN f.damage
                  THEN <<HealthEvent(f, q)>> ELSE <<>>
           D == IF q \in Died(pre, post) THEN <<DeathEvent(f, q)>> ELSE <<>>
<1>1. PlayerEvents(pre, post, f, q) = H \o D
  BY Zenon DEF PlayerEvents, HealthEvent, DeathEvent
<1>2. /\ HealthEvent(f, q) \in S
      /\ q \in Died(pre, post) => DeathEvent(f, q) \in S
  <2>1. /\ HealthEvent(f, q) \in Story(pre, post, f)
        /\ q \in Died(pre, post) => DeathEvent(f, q) \in Story(pre, post, f)
    BY Zenon DEF Story
  <2>2. HealthEvent(f, q).rank = 13 /\ DeathEvent(f, q).rank = 17
    BY DEF HealthEvent, DeathEvent, Event
  <2> QED BY <2>1, <2>2
<1>3. ASSUME NEW r
      PROVE  HealthEvent(f, q) # DeathEvent(f, r)
             /\ (DeathEvent(f, q) = DeathEvent(f, r) => q = r)
  <2>1. HealthEvent(f, q).rank = 13 /\ DeathEvent(f, r).rank = 17
    BY DEF HealthEvent, DeathEvent, Event
  <2>2. DeathEvent(f, q).about.player = q /\ DeathEvent(f, r).about.player = r
    BY DEF DeathEvent, Event
  <2> QED BY <2>1, <2>2
<1> HIDE DEF S
<1>4. H \in Seq(S) /\ D \in Seq(S)
  BY <1>2
<1>5. ASSUME NEW r \in Died(pre, post)
      PROVE  /\ ~Said(H, DeathEvent(f, r))
             /\ Said(D, DeathEvent(f, r)) <=> r = q
             /\ Rare(D, DeathEvent(f, r))
  <2>1. ~Said(H, DeathEvent(f, r))
    BY <1>3 DEF Said
  <2>2. Said(D, DeathEvent(f, r)) <=> r = q
    <3>1. CASE q \in Died(pre, post)
      <4>1. DOMAIN D = {1} /\ D[1] = DeathEvent(f, q)
        BY <3>1
      <4> HIDE DEF D
      <4> QED BY <1>3, <4>1 DEF Said
    <3>2. CASE q \notin Died(pre, post)
      <4>1. DOMAIN D = {}
        BY <3>2
      <4> HIDE DEF D
      <4> QED BY <3>2, <4>1 DEF Said
    <3> QED BY <3>1, <3>2
  <2>3. Rare(D, DeathEvent(f, r))
    BY DEF Rare
  <2> QED BY <2>1, <2>2, <2>3
<1> HIDE DEF H, D
<1>6. PlayerEvents(pre, post, f, q) \in Seq(S)
  BY <1>1, <1>4, ConcatSays
<1>7. ASSUME NEW r \in Died(pre, post)
      PROVE  /\ Said(PlayerEvents(pre, post, f, q), DeathEvent(f, r)) <=> r = q
             /\ Rare(PlayerEvents(pre, post, f, q), DeathEvent(f, r))
  BY <1>1, <1>4, <1>5, ConcatSays
<1> QED BY <1>6, <1>7 DEF S

(* The events of all players.                                              *)
EverybodysEvents(pre, post, f) ==
  FlattenSeq([i \in 1..Cardinality(Player) |->
    PlayerEvents(pre, post, f, InOrder(Player)[i])])

(* Everybody who died dies there, and once.                                *)
LEMMA EverybodyIsTold ==
  ASSUME NEW pre, NEW post, NEW f \in Book, Traced(f)
  PROVE  /\ EverybodysEvents(pre, post, f) \in Seq({e \in Story(pre, post, f) : e.rank < 19})
         /\ \A r \in Died(pre, post) : /\ Said(EverybodysEvents(pre, post, f), DeathEvent(f, r))
                                       /\ Rare(EverybodysEvents(pre, post, f), DeathEvent(f, r))
<1> DEFINE S == {e \in Story(pre, post, f) : e.rank < 19}
           N == Cardinality(Player)
           seqs == [i \in 1..N |-> PlayerEvents(pre, post, f, InOrder(Player)[i])]
<1>1. /\ N \in Nat /\ InOrder(Player) \in [1..N -> Player]
      /\ \A q \in Player : \E i \in 1..N : InOrder(Player)[i] = q
      /\ \A i, j \in 1..N : InOrder(Player)[i] = InOrder(Player)[j] => i = j
  BY EveryoneInOrder
<1> HIDE DEF N, S
<1>2. ASSUME NEW i \in 1..N
      PROVE  /\ seqs[i] \in Seq(S)
             /\ \A r \in Died(pre, post) :
                  /\ Said(seqs[i], DeathEvent(f, r)) <=> r = InOrder(Player)[i]
                  /\ Rare(seqs[i], DeathEvent(f, r))
  <2> DEFINE q == InOrder(Player)[i]
  <2>1. q \in Player
    BY <1>1
  <2>2. seqs[i] = PlayerEvents(pre, post, f, q)
    OBVIOUS
  <2> HIDE DEF seqs, q
  <2>3. /\ PlayerEvents(pre, post, f, q) \in Seq(S)
        /\ \A r \in Died(pre, post) :
             /\ Said(PlayerEvents(pre, post, f, q), DeathEvent(f, r)) <=> r = q
             /\ Rare(PlayerEvents(pre, post, f, q), DeathEvent(f, r))
    BY <2>1, PlayerIsTold DEF S
  <2> QED BY <2>2, <2>3 DEF q
<1>3. seqs \in [1..N -> Seq(S)]
  BY <1>2
<1>4. EverybodysEvents(pre, post, f) = FlattenSeq(seqs)
  BY DEF EverybodysEvents, N
<1> HIDE DEF seqs
<1>5. EverybodysEvents(pre, post, f) \in Seq(S)
  <2>1. PICK walk \in [0..N -> Seq(S)] : EndToEnd(walk, N, seqs)
    BY <1>1, <1>3, FlattenWalks
  <2>2. walk[N] = FlattenSeq(seqs) /\ walk[N] \in Seq(S)
    BY <1>1, <2>1 DEF EndToEnd
  <2> QED BY <1>4, <2>2
<1>6. ASSUME NEW r \in Died(pre, post)
      PROVE  /\ Said(EverybodysEvents(pre, post, f), DeathEvent(f, r))
             /\ Rare(EverybodysEvents(pre, post, f), DeathEvent(f, r))
  <2> DEFINE e == DeathEvent(f, r)
  <2>1. r \in Player
    BY DEF Died, Living
  <2>2. /\ \A i \in 1..N : Rare(seqs[i], e)
        /\ \E i \in 1..N : Said(seqs[i], e)
        /\ \A i, j \in 1..N : Said(seqs[i], e) /\ Said(seqs[j], e) => i = j
    BY <1>1, <1>2, <2>1
  <2> HIDE DEF e
  <2>3. /\ Said(FlattenSeq(seqs), e) <=> \E n \in 1..N : Said(seqs[n], e)
        /\ /\ \A n \in 1..N : Rare(seqs[n], e)
           /\ \A m, n \in 1..N : Said(seqs[m], e) /\ Said(seqs[n], e) => m = n
           => Rare(FlattenSeq(seqs), e)
    BY <1>1, <1>3, FlattenSays
  <2> QED BY <1>4, <2>2, <2>3 DEF e
<1> QED BY <1>5, <1>6 DEF S

(* The turn ends once and the next one opens once.                         *)
LEMMA TurnIsTold ==
  ASSUME NEW pre, NEW post, NEW f \in Book, Traced(f)
  PROVE  /\ TurnEvents(pre, post, f) \in Seq({e \in Story(pre, post, f) : e.rank >= 19})
         /\ Rare(TurnEvents(pre, post, f), EndEvent(pre, post, f))
         /\ Rare(TurnEvents(pre, post, f), OpenEvent(post, f))
<1> DEFINE S == {e \in Story(pre, post, f) : e.rank >= 19}
           end == EndEvent(pre, post, f)
           over == OverEvent(post, f)
           open == OpenEvent(post, f)
           A == IF TurnOver(pre, post) THEN <<end>> ELSE <<>>
           B == IF Over(post) /\ ~Over(pre) THEN <<over>> ELSE <<>>
           C == IF TurnOver(pre, post) /\ ~Over(post) THEN <<open>> ELSE <<>>
<1>1. TurnEvents(pre, post, f) = A \o B \o C
  BY Zenon DEF TurnEvents, EndEvent, OverEvent, OpenEvent
<1>2. end.rank = 19 /\ over.rank = 20 /\ open.rank = 21
  BY DEF EndEvent, OverEvent, OpenEvent, Event
<1>3. end \in S /\ over \in S /\ open \in S
  <2>1. /\ end \in Story(pre, post, f) /\ over \in Story(pre, post, f)
        /\ open \in Story(pre, post, f)
    BY Zenon DEF Story
  <2> QED BY <1>2, <2>1
<1> HIDE DEF S, end, over, open
<1>4. A \in Seq(S) /\ B \in Seq(S) /\ C \in Seq(S)
  BY <1>3
<1>5. /\ Rare(A, end) /\ ~Said(B, end) /\ ~Said(C, end)
      /\ ~Said(A, open) /\ ~Said(B, open) /\ Rare(C, open)
  <2>1. Rare(A, end) /\ Rare(C, open)
    BY DEF Rare
  <2>2. end # over /\ end # open /\ over # open
    BY <1>2
  <2>3. ~Said(B, end) /\ ~Said(B, open)
    BY <2>2 DEF Said
  <2>4. ~Said(C, end) /\ ~Said(A, open)
    BY <2>2 DEF Said
  <2> QED BY <2>1, <2>3, <2>4
<1> HIDE DEF A, B, C
<1>6. A \o B \in Seq(S) /\ Rare(A \o B, end) /\ ~Said(A \o B, open)
  BY <1>4, <1>5, ConcatSays
<1> DEFINE AB == A \o B
<1>7. /\ AB \in Seq(S) /\ Rare(AB, end) /\ ~Said(AB, open)
      /\ TurnEvents(pre, post, f) = AB \o C
  BY <1>1, <1>6
<1> HIDE DEF AB
<1>8. AB \o C \in Seq(S) /\ Rare(AB \o C, end) /\ Rare(AB \o C, open)
  BY <1>4, <1>5, <1>7, ConcatSays
<1> QED BY <1>7, <1>8 DEF S, end, open

(* What is said of a request: every projectile, its impact, every strike   *)
(* and every death, each death and each end and opening of a turn once.    *)
Complete(seq, pre, post, f) ==
  /\ \A n \in DOMAIN f.traces : Said(seq, FlightEvent(n)) /\ Said(seq, ImpactEvent(f, n))
  /\ \A i \in DOMAIN f.strikes : Said(seq, StrikeEvent(f, i))
  /\ \A q \in Died(pre, post) : Said(seq, DeathEvent(f, q)) /\ Rare(seq, DeathEvent(f, q))
  /\ Rare(seq, EndEvent(pre, post, f)) /\ Rare(seq, OpenEvent(post, f))

(* The events before they are sorted.                                      *)
Pending(pre, post, f) ==
  TraceEvents(f) \o StrikeEvents(f) \o EverybodysEvents(pre, post, f) \o
  TurnEvents(pre, post, f)

(* They say all that.                                                      *)
LEMMA PendingIsComplete ==
  ASSUME NEW pre, NEW post, NEW f \in Book, Traced(f)
  PROVE  /\ Pending(pre, post, f) \in Seq(Story(pre, post, f))
         /\ Complete(Pending(pre, post, f), pre, post, f)
<1> DEFINE S == Story(pre, post, f)
           A == TraceEvents(f)
           B == StrikeEvents(f)
           C == EverybodysEvents(pre, post, f)
           D == TurnEvents(pre, post, f)
           end == EndEvent(pre, post, f)
           open == OpenEvent(post, f)
<1>1. /\ A \in Seq({e \in S : e.rank < 17}) /\ B \in Seq({e \in S : e.rank < 17})
      /\ C \in Seq({e \in S : e.rank < 19}) /\ D \in Seq({e \in S : e.rank >= 19})
  BY FlightsAreTold, StrikesAreTold, EverybodyIsTold, TurnIsTold
<1>2. /\ \A n \in DOMAIN f.traces : Said(A, FlightEvent(n)) /\ Said(A, ImpactEvent(f, n))
      /\ \A i \in DOMAIN f.strikes : Said(B, StrikeEvent(f, i))
      /\ \A q \in Died(pre, post) : Said(C, DeathEvent(f, q)) /\ Rare(C, DeathEvent(f, q))
      /\ Rare(D, end) /\ Rare(D, open)
  BY FlightsAreTold, StrikesAreTold, EverybodyIsTold, TurnIsTold
<1>3. /\ \A q : DeathEvent(f, q).rank = 17
      /\ end.rank = 19 /\ open.rank = 21
  BY DEF DeathEvent, EndEvent, OpenEvent, Event
<1>4. /\ \A q : DeathEvent(f, q).rank \in 17..18
      /\ end.rank \in 19..21 /\ open.rank \in 19..21
  BY <1>3
<1> HIDE DEF S, A, B, C, D, end, open
<1>5. /\ A \in Seq(S) /\ B \in Seq(S) /\ C \in Seq(S) /\ D \in Seq(S)
  BY <1>1
<1>6. ASSUME NEW e, e.rank \in 17..21
      PROVE  ~Said(A, e) /\ ~Said(B, e)
  BY <1>1, <1>6 DEF Said
<1>7. ASSUME NEW e, e.rank \in 19..21
      PROVE  ~Said(C, e)
  BY <1>1, <1>7 DEF Said
<1>8. ASSUME NEW e, e.rank \in 17..18
      PROVE  ~Said(D, e)
  BY <1>1, <1>8 DEF Said
<1> DEFINE AB == A \o B
           ABC == AB \o C
           P == ABC \o D
<1>9. /\ AB \in Seq(S)
      /\ \A e : Said(AB, e) <=> Said(A, e) \/ Said(B, e)
  BY <1>5, ConcatSays
<1> HIDE DEF AB
<1>10. /\ ABC \in Seq(S)
       /\ \A e : /\ Said(ABC, e) <=> Said(AB, e) \/ Said(C, e)
                 /\ Rare(C, e) /\ ~Said(AB, e) => Rare(ABC, e)
  BY <1>5, <1>9, ConcatSays
<1> HIDE DEF ABC
<1>11. /\ P \in Seq(S)
       /\ \A e : /\ Said(P, e) <=> Said(ABC, e) \/ Said(D, e)
                 /\ Rare(ABC, e) /\ ~Said(D, e) => Rare(P, e)
                 /\ Rare(D, e) /\ ~Said(ABC, e) => Rare(P, e)
  BY <1>5, <1>10, ConcatSays
<1>12. P = Pending(pre, post, f)
  BY DEF Pending, ABC, AB, A, B, C, D
<1> HIDE DEF P
<1>13. ASSUME NEW q \in Died(pre, post)
       PROVE  Said(P, DeathEvent(f, q)) /\ Rare(P, DeathEvent(f, q))
  <2> DEFINE e == DeathEvent(f, q)
  <2>1. e.rank \in 17..18 /\ e.rank \in 17..21 /\ Said(C, e) /\ Rare(C, e)
    BY <1>2, <1>4
  <2> HIDE DEF e
  <2>2. ~Said(AB, e) /\ ~Said(D, e)
    BY <1>6, <1>8, <1>9, <2>1
  <2> QED BY <1>10, <1>11, <2>1, <2>2 DEF e
<1>14. Rare(P, end) /\ Rare(P, open)
  <2>1. ~Said(ABC, end)
    BY <1>4, <1>6, <1>7, <1>9, <1>10
  <2>2. ~Said(ABC, open)
    BY <1>4, <1>6, <1>7, <1>9, <1>10
  <2> QED BY <1>2, <1>11, <2>1, <2>2
<1>15. \A e : Said(A, e) \/ Said(B, e) => Said(P, e)
  BY <1>9, <1>10, <1>11
<1>16. Complete(P, pre, post, f)
  BY <1>2, <1>13, <1>14, <1>15 DEF Complete, end, open
<1> QED BY <1>11, <1>12, <1>16 DEF S

(* So do the events, and each is shown no earlier than those before it.    *)
LEMMA EventsAreComplete ==
  ASSUME NEW pre, NEW post, NEW f \in Book, Traced(f)
  PROVE  LET events == DeriveEvents(pre, post, f)
         IN  /\ events \in Seq(Story(pre, post, f))
             /\ Complete(events, pre, post, f)
             /\ \A j, k \in DOMAIN events : j < k => NoLater(events[j], events[k])
<1> DEFINE pending == Pending(pre, post, f)
           events == DeriveEvents(pre, post, f)
           S == Story(pre, post, f)
<1>1. events = Sorted(pending)
  BY Zenon DEF DeriveEvents, Pending, EverybodysEvents
<1>2. pending \in Seq(S) /\ Complete(pending, pre, post, f)
  BY PendingIsComplete
<1>3. \A e \in S : e.tick \in Nat /\ e.rank \in Nat
  BY StoryIs
<1> HIDE DEF pending, events, S
<1>4. /\ events \in Seq(S)
      /\ \A j, k \in DOMAIN events : j < k => NoLater(events[j], events[k])
      /\ \A e : Said(events, e) <=> Said(pending, e)
      /\ \A e : Rare(pending, e) => Rare(events, e)
  BY <1>1, <1>2, <1>3, SortedIs
<1>5. Complete(events, pre, post, f)
  BY <1>2, <1>4 DEF Complete
<1> QED BY <1>4, <1>5 DEF events, S

(* The cause the session reports is right.                                 *)
LEMMA CauseIsRight ==
  ASSUME NEW pre \in State, NEW f \in Book, Explained(pre, f), Finished(pre, f.strikes),
         NEW q \in Player, pre.health[q] > 0
  PROVE  RightCause(pre, f, q, EliminationCause(f, q))
<1> DEFINE kills == {i \in DOMAIN f.strikes :
                       f.strikes[i].target = q /\ f.strikes[i].eliminated}
           first == CHOOSE i \in kills : \A j \in kills : i <= j
           cause == EliminationCause(f, q)
<1>1. f.strikes \in Seq(StrikeRecord)
  BY BookIs
<1>2. /\ f.health[q] \in Nat /\ pre.health[q] \in Nat /\ Entry(f, q).direct \in Nat
      /\ f.health[q] + Entry(f, q).direct = pre.health[q]
      /\ q \in DOMAIN f.damage => /\ Entry(f, q) = f.damage[q]
                                  /\ Entry(f, q).eliminated <=> f.health[q] = 0
      /\ q \notin DOMAIN f.damage => Entry(f, q).direct = 0
  <2>1. f.health[q] \in 0..MaxHealth /\ pre.health[q] \in 0..MaxHealth /\ MaxHealth \in Nat
    BY BookIs, BoundAssumption DEF State
  <2>2. Entry(f, q).direct \in Nat
    BY EntryIs DEF Item
  <2> QED BY <2>1, <2>2, EntryIs DEF Explained
<1>3. CASE kills # {}
  <2>1. kills \in SUBSET Nat
    BY <1>1
  <2>2. first \in kills
    <3> HIDE DEF kills
    <3> QED BY <1>3, <2>1, LeastIs
  <2>3. cause = [by |-> "Strike", index |-> first]
    BY <1>3, Zenon DEF EliminationCause
  <2> HIDE DEF first, cause
  <2>4. cause.by = "Strike" /\ cause.index = first
    BY <2>3
  <2>5. /\ Taken(f.strikes, q, first) = pre.health[q]
        /\ Taken(f.strikes, q, first - 1) < pre.health[q]
    BY <2>2 DEF Finished
  <2> QED BY <2>4, <2>5 DEF RightCause, cause
<1>4. CASE kills = {} /\ Entry(f, q).eliminated
  <2>1. cause = [by |-> "AbilityEffect"]
    BY <1>4 DEF EliminationCause
  <2> HIDE DEF cause
  <2>2. cause.by = "AbilityEffect"
    BY <2>1
  <2>3. f.health[q] = 0
    BY <1>2, <1>4 DEF Entry
  <2>4. Total(f.strikes, q) < pre.health[q]
    BY <1>4 DEF Finished
  <2>5. Taken(f.strikes, q, Len(f.strikes)) = Total(f.strikes, q)
    <3>1. [target |-> q, trace |-> 0, crit |-> "Missed", applied |-> 0,
           eliminated |-> FALSE] \in StrikeRecord
      BY DEF StrikeRecord
    <3> QED BY <1>1, <3>1, TakenGrows
  <2>6. Entry(f, q).direct = pre.health[q]
    BY <1>2, <2>3
  <2> QED BY <2>2, <2>4, <2>5, <2>6 DEF RightCause, cause
<1>5. CASE kills = {} /\ ~Entry(f, q).eliminated
  <2>1. cause = [by |-> "AuthoritativeResolution"]
    BY <1>5 DEF EliminationCause
  <2> HIDE DEF cause
  <2>2. cause.by = "AuthoritativeResolution"
    BY <2>1
  <2>3. Entry(f, q).direct < pre.health[q]
    BY <1>2, <1>5
  <2> QED BY <2>2, <2>3 DEF RightCause, cause
<1> QED BY <1>3, <1>4, <1>5

(* Everybody who died is told dead once, of the right cause, after the     *)
(* last strike that touched him.                                           *)
LEMMA DeathIsTold ==
  ASSUME NEW pre \in State, NEW post, NEW f \in Book, Traced(f),
         Explained(pre, f), Finished(pre, f.strikes), NEW q \in Player
  PROVE  LET events == DeriveEvents(pre, post, f)
         IN  /\ Cardinality(ToldDead(events, q)) = IF q \in Died(pre, post) THEN 1 ELSE 0
             /\ \A k \in ToldDead(events, q) :
                  /\ RightCause(pre, f, q, events[k].about.cause)
                  /\ \A j \in k..Len(events) :
                       events[j].kind = "StrikeResolved" =>
                         f.strikes[events[j].about].target # q
<1> DEFINE events == DeriveEvents(pre, post, f)
           S == Story(pre, post, f)
           told == ToldDead(events, q)
           N == Len(events)
<1>1. /\ events \in Seq(S) /\ Complete(events, pre, post, f)
      /\ \A j, k \in DOMAIN events : j < k => NoLater(events[j], events[k])
  BY EventsAreComplete
<1> HIDE DEF events
<1>2. N \in Nat /\ DOMAIN events = 1..N /\ \A k \in 1..N : events[k] \in S
  BY <1>1
<1> HIDE DEF N, S
<1>3. /\ DeathEvent(f, q).kind = "PlayerEliminated" /\ DeathEvent(f, q).about.player = q
      /\ DeathEvent(f, q).about.cause = EliminationCause(f, q)
      /\ DeathEvent(f, q).tick = ResolutionTick(f) /\ DeathEvent(f, q).rank = 17
      /\ \A r : DeathEvent(f, r).about.player = r
  BY DEF DeathEvent, Event
<1>4. ASSUME NEW k \in told
      PROVE  k \in 1..N /\ q \in Died(pre, post) /\ events[k] = DeathEvent(f, q)
  <2>1. k \in 1..N /\ events[k].kind = "PlayerEliminated" /\ events[k].about.player = q
    BY <1>2 DEF ToldDead
  <2>2. events[k] \in S
    BY <1>2, <2>1
  <2>3. PICK r \in Died(pre, post) : events[k] = DeathEvent(f, r)
    BY <2>1, <2>2, StoryIs DEF S
  <2>4. r = q
    BY <1>3, <2>1, <2>3
  <2> QED BY <2>1, <2>3, <2>4
<1>5. Cardinality(told) = IF q \in Died(pre, post) THEN 1 ELSE 0
  <2>1. CASE q \in Died(pre, post)
    <3>1. PICK k \in DOMAIN events : events[k] = DeathEvent(f, q)
      BY <1>1, <2>1 DEF Complete, Said
    <3>2. k \in told
      BY <1>3, <3>1 DEF ToldDead
    <3>3. \A j \in told : j = k
      BY <1>1, <1>2, <1>4, <2>1, <3>1 DEF Complete, Rare
    <3>4. told = {k}
      BY <3>2, <3>3
    <3> HIDE DEF told
    <3> QED BY <2>1, <3>4, FS_Singleton
  <2>2. CASE q \notin Died(pre, post)
    <3>1. told = {}
      BY <1>4, <2>2
    <3> HIDE DEF told
    <3> QED BY <2>2, <3>1, FS_EmptySet
  <2> QED BY <2>1, <2>2
<1>6. ASSUME NEW k \in told
      PROVE  RightCause(pre, f, q, events[k].about.cause)
  <2>1. q \in Died(pre, post) /\ events[k].about.cause = EliminationCause(f, q)
    BY <1>3, <1>4
  <2>2. pre.health[q] > 0
    BY <2>1 DEF Died, Living
  <2> QED BY <2>1, <2>2, CauseIsRight
<1>7. ASSUME NEW k \in told, NEW j \in k..N, events[j].kind = "StrikeResolved"
      PROVE  FALSE
  <2>1. /\ k \in 1..N /\ events[k].tick = ResolutionTick(f) /\ events[k].rank = 17
        /\ events[k].kind = "PlayerEliminated"
    BY <1>3, <1>4
  <2>2. j \in 1..N /\ j # k /\ k < j
    BY <1>2, <1>7, <2>1
  <2>3. NoLater(events[k], events[j])
    BY <1>1, <1>2, <2>1, <2>2
  <2>4. events[j] \in S
    BY <1>2, <2>2
  <2>5. events[j].rank <= 3 /\ events[j].tick <= ResolutionTick(f)
        /\ events[j].rank \in Nat /\ events[j].tick \in Nat
    BY <1>7, <2>4, StoryIs DEF S
  <2>6. ResolutionTick(f) \in Nat
    BY BookIs, ResolutionTickIs
  <2> QED BY <2>1, <2>3, <2>5, <2>6 DEF NoLater
<1> QED BY <1>5, <1>6, <1>7 DEF events, N

(* The order the events of a request are told in.                          *)
LEMMA OrderIsTold ==
  ASSUME NEW pre, NEW post, NEW f \in Book, Traced(f)
  PROVE  LET events == DeriveEvents(pre, post, f)
         IN  /\ \A i \in DOMAIN f.strikes : f.strikes[i].trace # 0 =>
                  /\ Told(events, "ProjectileTrace", f.strikes[i].trace)
                       < Told(events, "Impact", f.strikes[i].trace)
                  /\ Told(events, "Impact", f.strikes[i].trace)
                       < Told(events, "StrikeResolved", i)
             /\ \A k \in DOMAIN events : events[k].kind = "TurnEnded" =>
                  \A j \in k + 1..Len(events) :
                    events[j].kind \in {"MatchCompleted", "TurnOpened"}
             /\ \A k \in DOMAIN events : events[k].kind = "TurnOpened" => k = Len(events)
<1> DEFINE events == DeriveEvents(pre, post, f)
           S == Story(pre, post, f)
           N == Len(events)
<1>1. /\ events \in Seq(S) /\ Complete(events, pre, post, f)
      /\ \A j, k \in DOMAIN events : j < k => NoLater(events[j], events[k])
  BY EventsAreComplete
<1> HIDE DEF events
<1>2. N \in Nat /\ DOMAIN events = 1..N /\ \A k \in 1..N : events[k] \in S
  BY <1>1
<1> HIDE DEF N
<1>3. ASSUME NEW k \in 1..N
      PROVE  /\ events[k].tick \in Nat /\ events[k].rank \in Nat
             /\ events[k].tick <= ResolutionTick(f)
             /\ events[k].kind = "ProjectileTrace" => events[k].tick = 0 /\ events[k].rank = 0
             /\ events[k].kind = "Impact" => events[k] = ImpactEvent(f, events[k].about)
             /\ events[k].kind = "StrikeResolved" => events[k] = StrikeEvent(f, events[k].about)
             /\ events[k].kind = "TurnEnded" => events[k] = EndEvent(pre, post, f)
             /\ events[k].kind = "TurnOpened" => events[k] = OpenEvent(post, f)
             /\ events[k].rank = 19 => events[k] = EndEvent(pre, post, f)
             /\ events[k].rank > 19 => events[k].kind \in {"MatchCompleted", "TurnOpened"}
             /\ events[k].rank > 20 => events[k] = OpenEvent(post, f)
  BY <1>2, StoryIs
<1> HIDE DEF S
<1>4. ASSUME NEW j \in 1..N, NEW k \in 1..N, ~NoLater(events[k], events[j])
      PROVE  j < k
  <2>1. j # k
    BY <1>3, <1>4 DEF NoLater
  <2>2. ~(k < j)
    BY <1>1, <1>2, <1>4
  <2> QED BY <2>1, <2>2
<1>5. ASSUME NEW i \in DOMAIN f.strikes, f.strikes[i].trace # 0
      PROVE  /\ Told(events, "ProjectileTrace", f.strikes[i].trace)
                  < Told(events, "Impact", f.strikes[i].trace)
             /\ Told(events, "Impact", f.strikes[i].trace) < Told(events, "StrikeResolved", i)
  <2> DEFINE n == f.strikes[i].trace
             shot == Told(events, "ProjectileTrace", n)
             impact == Told(events, "Impact", n)
             strike == Told(events, "StrikeResolved", i)
  <2>1. n \in DOMAIN f.traces
    BY <1>5 DEF Traced
  <2>2. /\ FlightEvent(n).kind = "ProjectileTrace" /\ FlightEvent(n).about = n
        /\ ImpactEvent(f, n).kind = "Impact" /\ ImpactEvent(f, n).about = n
        /\ ImpactEvent(f, n).tick = f.traces[n].tick /\ ImpactEvent(f, n).rank = 2
        /\ StrikeEvent(f, i).kind = "StrikeResolved" /\ StrikeEvent(f, i).about = i
        /\ StrikeEvent(f, i).tick = f.traces[n].tick /\ StrikeEvent(f, i).rank = 3
    BY <1>5 DEF FlightEvent, ImpactEvent, StrikeEvent, Event
  <2>3. /\ Said(events, FlightEvent(n)) /\ Said(events, ImpactEvent(f, n))
        /\ Said(events, StrikeEvent(f, i))
    BY <1>1, <1>5, <2>1 DEF Complete
  <2>4. /\ \E k \in DOMAIN events : events[k].kind = "ProjectileTrace" /\ events[k].about = n
        /\ \E k \in DOMAIN events : events[k].kind = "Impact" /\ events[k].about = n
        /\ \E k \in DOMAIN events : events[k].kind = "StrikeResolved" /\ events[k].about = i
    BY <2>2, <2>3, Zenon DEF Said
  <2>5. /\ shot \in DOMAIN events /\ events[shot].kind = "ProjectileTrace"
        /\ impact \in DOMAIN events /\ events[impact].kind = "Impact"
        /\ events[impact].about = n
        /\ strike \in DOMAIN events /\ events[strike].kind = "StrikeResolved"
        /\ events[strike].about = i
    BY <2>4, Zenon DEF Told
  <2> HIDE DEF n, shot, impact, strike
  <2>6. /\ shot \in 1..N /\ impact \in 1..N /\ strike \in 1..N
        /\ events[shot].tick = 0 /\ events[shot].rank = 0
        /\ events[impact].tick = f.traces[n].tick /\ events[impact].rank = 2
        /\ events[strike].tick = f.traces[n].tick /\ events[strike].rank = 3
    BY <1>2, <1>3, <2>2, <2>5
  <2>7. f.traces[n].tick \in Nat
    BY <1>3, <2>6
  <2>8. ~NoLater(events[impact], events[shot]) /\ ~NoLater(events[strike], events[impact])
    BY <2>6, <2>7 DEF NoLater
  <2>9. shot < impact /\ impact < strike
    BY <1>4, <2>6, <2>8
  <2> QED BY <2>9 DEF n, shot, impact, strike
<1>6. /\ EndEvent(pre, post, f).tick = ResolutionTick(f) /\ EndEvent(pre, post, f).rank = 19
      /\ OpenEvent(post, f).tick = ResolutionTick(f) /\ OpenEvent(post, f).rank = 21
  BY DEF EndEvent, OpenEvent, Event
<1>7. ResolutionTick(f) \in Nat
  BY BookIs, ResolutionTickIs
<1>8. ASSUME NEW k \in 1..N, events[k].tick = ResolutionTick(f), NEW j \in k + 1..N
      PROVE  j \in 1..N /\ j # k /\ events[j].rank >= events[k].rank
  <2>1. j \in 1..N /\ j # k /\ k < j
    BY <1>2
  <2>2. NoLater(events[k], events[j])
    BY <1>1, <1>2, <2>1
  <2>3. /\ events[j].tick <= ResolutionTick(f) /\ events[j].tick \in Nat
        /\ events[j].rank \in Nat /\ events[k].rank \in Nat
    BY <1>3, <2>1
  <2> QED BY <1>7, <1>8, <2>1, <2>2, <2>3 DEF NoLater
<1>9. ASSUME NEW k \in 1..N, events[k].kind = "TurnEnded", NEW j \in k + 1..N
      PROVE  events[j].kind \in {"MatchCompleted", "TurnOpened"}
  <2>1. events[k] = EndEvent(pre, post, f)
    BY <1>3, <1>9
  <2>2. events[k].tick = ResolutionTick(f) /\ events[k].rank = 19
    BY <1>6, <2>1
  <2>3. j \in 1..N /\ j # k /\ events[j].rank >= 19
    BY <1>8, <2>2
  <2>4. events[j].rank # 19
    BY <1>1, <1>2, <1>3, <2>1, <2>3 DEF Complete, Rare
  <2>5. events[j].rank > 19
    BY <1>3, <2>3, <2>4
  <2> QED BY <1>3, <2>3, <2>5
<1>10. ASSUME NEW k \in 1..N, events[k].kind = "TurnOpened"
       PROVE  k = N
  <2>1. events[k] = OpenEvent(post, f)
    BY <1>3, <1>10
  <2>2. events[k].tick = ResolutionTick(f) /\ events[k].rank = 21
    BY <1>6, <2>1
  <2>3. ASSUME NEW j \in k + 1..N PROVE FALSE
    <3>1. j \in 1..N /\ j # k /\ events[j].rank >= 21
      BY <1>8, <2>2
    <3>2. events[j].rank > 20
      BY <1>3, <3>1
    <3>3. events[j] = OpenEvent(post, f)
      BY <1>3, <3>1, <3>2
    <3> QED BY <1>1, <1>2, <2>1, <3>1, <3>3 DEF Complete, Rare
  <2>4. k \in Nat /\ k <= N
    BY <1>2
  <2>5. ~(k + 1 <= N)
    <3>1. k + 1 <= N => k + 1 \in k + 1..N
      BY <1>2, <2>4
    <3> QED BY <2>3, <3>1
  <2> QED BY <1>2, <2>4, <2>5
<1> QED BY <1>2, <1>5, <1>9, <1>10, Zenon DEF events, N

-----------------------------------------------------------------------------
(* The receipts.                                                           *)

(* What is gone is itemised, and what was left is left or fell.            *)
NothingLeftOut(pre, post, f) ==
  \A q \in Player :
    LET item == Entry(f, q)
        left == pre.health[q] - item.direct
    IN  /\ post.health[q] = left \/ (left > 0 /\ post.health[q] = 0)
        /\ q \in DOMAIN f.damage => (item.eliminated <=> left = 0)

(* The second half of ReceiptsReconcile follows from what the account      *)
(* explains and from what the host does to it.                             *)
LEMMA NothingIsLeftOut ==
  ASSUME NEW pre \in State, NEW f \in Book, Explained(pre, f), NEW post, Falls(f, post)
  PROVE  NothingLeftOut(pre, post, f)
<1> SUFFICES ASSUME NEW q \in Player
             PROVE  LET left == pre.health[q] - Entry(f, q).direct
                    IN  /\ post.health[q] = left \/ (left > 0 /\ post.health[q] = 0)
                        /\ q \in DOMAIN f.damage => (Entry(f, q).eliminated <=> left = 0)
  BY DEF NothingLeftOut
<1>1. f.health[q] \in Nat
  <2>1. f.health[q] \in 0..MaxHealth /\ MaxHealth \in Nat
    BY BookIs, BoundAssumption
  <2> QED BY <2>1
<1>2. /\ f.health[q] + Entry(f, q).direct = pre.health[q]
      /\ q \in DOMAIN f.damage => (Entry(f, q).eliminated <=> f.health[q] = 0)
  BY EntryIs DEF Explained
<1>3. Entry(f, q).direct \in Nat
  BY EntryIs DEF Item
<1>4. pre.health[q] - Entry(f, q).direct = f.health[q]
  BY <1>1, <1>2, <1>3
<1>5. post.health[q] = f.health[q] \/ post.health[q] = 0
  BY DEF Falls
<1> QED BY <1>1, <1>2, <1>4, <1>5

(* An account that agrees with itself passes the checks of the session.    *)
LEMMA AccountReconciles ==
  ASSUME NEW pre \in State, NEW from, NEW p, NEW a, NEW aim,
         NEW f \in Tellings(pre, from, p, a), a.cap = 0 => Summed(f),
         DeliveriesReconcile(pre, p, a, aim, f), NEW post, Falls(f, post)
  PROVE  ReconcileStrikes(pre, post, p, a, aim, f)
<1>1. /\ f \in Book /\ Killed(pre, f)
      /\ \A i \in DOMAIN f.strikes : CritFits(a, f.strikes[i])
  BY DEF Tellings
<1>2. \A i \in DOMAIN f.strikes : f.strikes[i].target \in Player
  <2> SUFFICES ASSUME NEW i \in DOMAIN f.strikes PROVE f.strikes[i].target \in Player
    OBVIOUS
  <2>1. f.strikes \in Seq(StrikeRecord)
    BY <1>1, BookIs
  <2>2. f.strikes[i] \in StrikeRecord
    BY <2>1
  <2> QED BY <2>2 DEF StrikeRecord
<1>3. KillsReconcile(pre, post, f)
  <2> SUFFICES ASSUME NEW i \in DOMAIN f.strikes, f.strikes[i].eliminated
               PROVE  /\ f.strikes[i].target \in Living(pre)
                      /\ f.strikes[i].target \notin Living(post)
                      /\ \A j \in DOMAIN f.strikes \ {i} :
                           f.strikes[j].target = f.strikes[i].target => ~f.strikes[j].eliminated
    BY DEF KillsReconcile
  <2>1. /\ pre.health[f.strikes[i].target] > 0 /\ f.health[f.strikes[i].target] = 0
        /\ \A j \in DOMAIN f.strikes \ {i} :
             f.strikes[j].target = f.strikes[i].target => ~f.strikes[j].eliminated
    BY <1>1 DEF Killed
  <2>2. post.health[f.strikes[i].target] = 0
    BY <1>2, <2>1 DEF Falls
  <2> QED BY <1>2, <2>1, <2>2 DEF Living
<1>4. SumsReconcile(a, f)
  BY AppliedIs DEF SumsReconcile, Summed
<1> QED BY <1>1, <1>3, <1>4 DEF ReconcileStrikes

(* A command the client has an id left for names a new one.                *)
LEMMA CommandIs ==
  ASSUME NEW slot, match.processed # CommandId, match.processed \subseteq CommandId
  PROVE  /\ Command(slot).id \in CommandId
         /\ Command(slot).player = match.active /\ Command(slot).slot = slot
<1> DEFINE left == CommandId \ match.processed
           id == CHOOSE id \in left : \A other \in left : id <= other
<1>1. left # {} /\ left \in SUBSET Nat
  BY AimAssumption
<1> HIDE DEF left
<1>2. id \in left
  BY <1>1, LeastIs
<1> HIDE DEF id
<1>3. Command(slot) = [id |-> id, player |-> match.active, turn |-> match.turn,
                       slot |-> slot, power |-> 1]
  BY DEF Command, id, left
<1> QED BY <1>2, <1>3 DEF left

(* The outcome of an account is one module Command allows.                 *)
LEMMA OutcomeIs ==
  ASSUME NEW s \in State, NEW c, c.player \in Player, NEW slot \in Slot, c.slot = slot,
         NEW a, a = Kit[c.player][slot],
         NEW from, NEW f \in Tellings(s, from, c.player, a),
         NEW lost, lost \subseteq Living(s), a.shoves \/ lost = {},
         NEW burnt \in Burnt(a, f)
  PROVE  Outcome(a, f, lost, burnt) \in Effects(s, c)
<1> DEFINE fx == Outcome(a, f, lost, burnt)
<1>1. /\ f \in Book /\ Explained(s, f)
      /\ f.dealt > 0 => \E q \in Player : f.health[q] < s.health[q]
      /\ a.attack = "Projectile" => f.health[c.player] = s.health[c.player]
  BY DEF Tellings
<1>2. /\ a \in AbilityData
      /\ slot # "BasicAlt" => a.attack = "Projectile"
      /\ slot = "BasicAlt" => a.burn = 0
      /\ slot = "Trinket" => ~a.shoves
  BY KitAssumption
<1>3. /\ fx.health = f.health /\ fx.dealt = (f.dealt > 0) /\ fx.lost = lost
      /\ fx.burnt = burnt /\ fx.burn = IF burnt = {} THEN 0 ELSE a.burn
      /\ fx.turret = FALSE
      /\ fx = [health |-> fx.health, dealt |-> fx.dealt, lost |-> fx.lost,
               burnt |-> fx.burnt, burn |-> fx.burn, turret |-> fx.turret]
  BY DEF Outcome
<1> HIDE DEF fx
<1>4. ASSUME NEW q \in Player
      PROVE  f.health[q] \in Nat /\ s.health[q] \in Nat /\ f.health[q] <= s.health[q]
  <2>1. f.health[q] \in 0..MaxHealth /\ s.health[q] \in 0..MaxHealth /\ MaxHealth \in Nat
    BY <1>1, BookIs, BoundAssumption DEF State
  <2>2. f.health[q] + Entry(f, q).direct = s.health[q] /\ Entry(f, q).direct \in Nat
    BY <1>1, EntryIs DEF Explained, Item
  <2> QED BY <2>1, <2>2
<1>5. /\ \A q \in burnt : q \in Player /\ f.health[q] > 0
      /\ a.burn = 0 => burnt = {}
  BY DEF Burnt
<1>6. burnt \subseteq Living(s)
  <2> SUFFICES ASSUME NEW q \in burnt PROVE q \in Player /\ s.health[q] > 0
    BY DEF Living
  <2> QED BY <1>4, <1>5
<1>7. a.burn \in EmberTurns \cup {0} /\ (a.burn # 0 => a.burn \in EmberTurns)
  BY <1>2 DEF AbilityData
<1>8. 0 \notin EmberTurns
  BY CommandAssumption
<1>9. fx \in [health : [Player -> 0..MaxHealth], dealt : BOOLEAN, lost : SUBSET Living(s),
              burnt : SUBSET Living(s), burn : EmberTurns \cup {0}, turret : BOOLEAN]
  <2>1. f.health \in [Player -> 0..MaxHealth]
    BY <1>1, BookIs
  <2>2. fx.burn \in EmberTurns \cup {0}
    BY <1>3, <1>7
  <2>3. (f.dealt > 0) \in BOOLEAN
    <3>1. f.dealt \in Nat
      BY <1>1, BookIs
    <3> QED BY <3>1
  <2>4. fx.dealt \in BOOLEAN /\ fx.turret \in BOOLEAN
    BY <1>3, <2>3
  <2> QED BY <1>3, <1>6, <2>1, <2>2, <2>4
<1>10. fx.burnt = {} <=> fx.burn = 0
  BY <1>3, <1>5, <1>7, <1>8
<1>11. fx.dealt => \E q \in Player : fx.health[q] < s.health[q]
  BY <1>1, <1>3
<1>12. c.slot = "Trinket" => fx.lost = {}
  BY <1>2, <1>3
<1>13. c.slot # "BasicAlt" => fx.health[c.player] = s.health[c.player]
  BY <1>1, <1>2, <1>3
<1>14. c.slot = "BasicAlt" => fx.burnt = {}
  BY <1>2, <1>3, <1>5
<1>15. /\ \A q \in Player : fx.health[q] <= s.health[q]
       /\ \A q \in fx.burnt : fx.health[q] > 0
       /\ c.slot # "Trinket" => ~fx.turret
  BY <1>3, <1>4, <1>5
<1> QED BY <1>9, <1>10, <1>11, <1>12, <1>13, <1>14, <1>15 DEF Effects, fx

-----------------------------------------------------------------------------
(* What is delivered is delivered by a projectile that flew.               *)
LEMMA DeliveredIsTraced ==
  ASSUME NEW pre, NEW p, NEW a, NEW aim, NEW f, DeliveriesReconcile(pre, p, a, aim, f)
  PROVE  Traced(f)
<1> SUFFICES ASSUME NEW i \in DOMAIN f.strikes, f.strikes[i].trace # 0
             PROVE  f.strikes[i].trace \in DOMAIN f.traces
  BY DEF Traced
<1> DEFINE cited == {f.strikes[j].trace : j \in DOMAIN f.strikes}
<1>1. f.strikes[i].trace \in cited
  OBVIOUS
<1>2. cited = CharacterImpacts(f) \/ cited \subseteq {0}
  BY DEF DeliveriesReconcile
<1> HIDE DEF cited
<1>3. f.strikes[i].trace \in CharacterImpacts(f)
  BY <1>1, <1>2
<1> QED BY <1>3 DEF CharacterImpacts

(* The story of an account that explains what is gone is told in full and  *)
(* in order.                                                               *)
LEMMA ReceiptIsTold ==
  ASSUME match \in State, NEW f \in Book, Explained(match, f),
         Finished(match, f.strikes), Traced(f),
         receipt'.pre = match, receipt'.account = f,
         receipt'.events = DeriveEvents(match, match', f)
  PROVE  StoryIsTold'
<1> DEFINE events == DeriveEvents(match, match', f)
<1>1. ASSUME NEW q \in Player
      PROVE  /\ Cardinality(ToldDead(events, q)) = IF q \in Died(match, match') THEN 1 ELSE 0
             /\ \A k \in ToldDead(events, q) :
                  /\ RightCause(match, f, q, events[k].about.cause)
                  /\ \A j \in k..Len(events) :
                       events[j].kind = "StrikeResolved" =>
                         f.strikes[events[j].about].target # q
  BY DeathIsTold
<1>2. DeathsAreTold'
  <2> HIDE DEF events
  <2>1. receipt'.events = events
    BY DEF events
  <2> QED BY <1>1, <2>1 DEF DeathsAreTold
<1>3. StoryInOrder'
  BY OrderIsTold DEF StoryInOrder
<1> QED BY <1>2, <1>3 DEF StoryIsTold

(* The invariant of the receipts. The host is between two calls; what the  *)
(* properties say of the last receipt needs nothing of the one before.     *)
ReceiptInv ==
  /\ Good(match)
  /\ rng \in RngState
  /\ ReceiptsReconcile
  /\ DrawsReplay
  /\ OutcomesAreEffects
  /\ StoryIsTold

(* A match starts without a receipt.                                       *)
LEMMA ReceiptInit == Init => ReceiptInv
<1> SUFFICES ASSUME Init PROVE ReceiptInv
  OBVIOUS
<1>1. Good(match) /\ rng \in RngState
  BY StartIsGood, AimAssumption DEF Init
<1>2. receipt.kind = "None"
  BY DEF Init
<1>3. StoryIsTold
  BY <1>2 DEF StoryIsTold, DeathsAreTold, StoryInOrder
<1> QED BY <1>1, <1>2, <1>3
    DEF ReceiptInv, ReceiptsReconcile, DrawsReplay, OutcomesAreEffects

(* An ability leaves a receipt that reconciles, replays, tells its story   *)
(* and is one of the outcomes the host allows.                             *)
LEMMA AbilityReports ==
  ASSUME Good(match), rng \in RngState, NEW slot \in Slot, UseAbility(slot)
  PROVE  ReceiptInv'
<1> DEFINE c == Command(slot)
           p == match.active
           a == Kit[p][slot]
<1>1. match \in State /\ match.processed \subseteq CommandId /\ p \in Player
  BY DEF Good, State
<1>2. c.id \in CommandId /\ c.player = p /\ c.slot = slot
  BY <1>1, CommandIs DEF UseAbility
<1> HIDE DEF c
<1>3. PICK aim \in Aims(p, a) :
        \E lost \in Footing(a), burnt \in Burnt(a, ResolveAbility(match, rng, p, a, aim)) :
          \E pit \in SUBSET lost :
            LET f  == ResolveAbility(match, rng, p, a, aim)
                fx == Outcome(a, f, lost, burnt)
            IN  /\ match' = SubmitAbility(match, c, fx, pit)
                /\ rng' = f.rng
                /\ receipt' =
                     [pre |-> match, rng |-> rng, kind |-> "Ability",
                      command |-> c, ability |-> a, aim |-> aim, fx |-> fx,
                      account |-> f, events |-> DeriveEvents(match, match', f)]
  BY <1>2 DEF UseAbility, c
<1> DEFINE f == ResolveAbility(match, rng, p, a, aim)
<1>4. PICK lost \in Footing(a), burnt \in Burnt(a, f) :
        \E pit \in SUBSET lost :
            /\ match' = SubmitAbility(match, c, Outcome(a, f, lost, burnt), pit)
            /\ rng' = f.rng
            /\ receipt' =
                 [pre |-> match, rng |-> rng, kind |-> "Ability",
                  command |-> c, ability |-> a, aim |-> aim,
                  fx |-> Outcome(a, f, lost, burnt),
                  account |-> f, events |-> DeriveEvents(match, match', f)]
  BY <1>3
<1>4a. PICK pit \in SUBSET lost :
        /\ match' = SubmitAbility(match, c, Outcome(a, f, lost, burnt), pit)
        /\ rng' = f.rng
        /\ receipt' =
             [pre |-> match, rng |-> rng, kind |-> "Ability",
              command |-> c, ability |-> a, aim |-> aim,
              fx |-> Outcome(a, f, lost, burnt),
              account |-> f, events |-> DeriveEvents(match, match', f)]
  BY <1>4
<1> DEFINE fx == Outcome(a, f, lost, burnt)
<1>5. Valid(match, c)
  BY DEF UseAbility, c
<1>6. Fit(a)
  BY <1>1, KitAssumption DEF Fit
<1>7. match.health \in [Player -> 0..MaxHealth]
  BY <1>1 DEF State
<1> HIDE DEF p, a
<1>8. /\ a.attack = "Projectile" => aim.flights \in Seq(Shot)
      /\ aim.blast \in [Player -> Nat]
      /\ a.attack # "Projectile" => Struck(match, p, aim) \subseteq Player
  BY <1>1, <1>6, <1>7, AimIs DEF Fit
<1>9. /\ f \in Tellings(match, rng, p, a)
      /\ a.cap = 0 => Summed(f)
      /\ Finished(match, f.strikes)
      /\ DeliveriesReconcile(match, p, a, aim, f)
  BY <1>1, <1>6, <1>7, <1>8, ResolveTells
<1> HIDE DEF f
<1>10. lost \subseteq Living(match) /\ (a.shoves \/ lost = {})
  BY DEF Footing
<1>11. fx \in Effects(match, c)
  <2>1. c.player \in Player /\ a = Kit[c.player][slot]
    BY <1>1, <1>2 DEF a
  <2> QED BY <1>1, <1>2, <1>9, <1>10, <2>1, OutcomeIs
<1>12. fx.health = f.health
  BY DEF Outcome
<1> HIDE DEF fx
<1>13. match' = SubmitAbility(match, c, fx, pit)
  BY <1>4a DEF fx
<1>14. Good(match')
  BY <1>1, <1>2, <1>5, <1>11, <1>13, AbilityIsGood
<1>15. Falls(f, match')
  <2>1. Falls(fx, match')
    BY <1>1, <1>2, <1>5, <1>11, <1>13, AbilityFalls
  <2> QED BY <1>12, <2>1 DEF Falls
<1>16. /\ receipt'.kind = "Ability" /\ receipt'.pre = match /\ receipt'.rng = rng
       /\ receipt'.command = c /\ receipt'.ability = a /\ receipt'.aim = aim
       /\ receipt'.fx = fx /\ receipt'.account = f
       /\ receipt'.events = DeriveEvents(match, match', f)
  BY <1>4a DEF fx
<1>17. /\ f \in Book /\ Explained(match, f)
       /\ Redrawn(rng, a, f.strikes) = [rng |-> f.rng, ok |-> TRUE]
  BY <1>9 DEF Tellings
<1>18. rng' = f.rng /\ rng' \in RngState
  BY <1>4a, <1>17, BookIs
<1>19. ReceiptsReconcile'
  <2>1. ReconcileStrikes(match, match', p, a, aim, f)
    BY <1>1, <1>9, <1>15, AccountReconciles
  <2>2. NothingLeftOut(match, match', f)
    BY <1>1, <1>15, <1>17, NothingIsLeftOut
  <2> QED BY <1>2, <1>16, <2>1, <2>2 DEF ReceiptsReconcile, NothingLeftOut
<1>20. DrawsReplay'
  BY <1>16, <1>17, <1>18 DEF DrawsReplay
<1>21. OutcomesAreEffects'
  BY <1>11, <1>16 DEF OutcomesAreEffects
<1>22. StoryIsTold'
  BY <1>1, <1>9, <1>16, <1>17, DeliveredIsTraced, ReceiptIsTold
<1> QED BY <1>14, <1>18, <1>19, <1>20, <1>21, <1>22 DEF ReceiptInv

(* So does a pass: it strikes nobody and draws nothing.                    *)
LEMMA PassReports ==
  ASSUME Good(match), rng \in RngState, Pass
  PROVE  ReceiptInv'
<1> DEFINE f == Opened(match, rng)
<1>1. match \in State /\ match.health \in [Player -> 0..MaxHealth] /\ match.active \in Player
  BY DEF Good, State
<1>2. /\ match' = PassTurn(match) /\ rng' = rng
      /\ receipt' = [pre |-> match, rng |-> rng, kind |-> "Pass", account |-> f,
                     events |-> DeriveEvents(match, match', f)]
  BY DEF Pass
<1>3. /\ f \in Tellings(match, rng, match.active, NoAbility)
      /\ f.strikes = <<>> /\ f.health = match.health
  <2>1. f \in Barrages(match, rng, match.active, NoAbility)
    BY <1>1, OpenedTells
  <2>2. f.strikes = <<>> /\ f.health = match.health
    BY DEF Opened
  <2> QED BY <2>1, <2>2 DEF Barrages
<1> HIDE DEF f
<1>4. /\ receipt'.kind = "Pass" /\ receipt'.pre = match /\ receipt'.rng = rng
      /\ receipt'.account = f /\ receipt'.events = DeriveEvents(match, match', f)
  BY <1>2
<1>5. Good(match')
  <2>1. PassTurn(match) = match \/ PassTurn(match) = FinishTurn(match, "Passed", {})
    BY DEF PassTurn
  <2>2. "Passed" \in TurnEndReason
    BY DEF TurnEndReason
  <2>3. Good(FinishTurn(match, "Passed", {}))
    BY <1>1, <2>2, EndingIsGood
  <2> QED BY <1>2, <2>1, <2>3
<1>6. Falls(f, match')
  <2>1. Falls(match, match')
    BY <1>1, <1>2, PassFalls
  <2> QED BY <1>3, <2>1 DEF Falls
<1>7. ReceiptsReconcile'
  <2>1. NothingLeftOut(match, match', f)
    BY <1>1, <1>3, <1>6, NothingIsLeftOut DEF Tellings
  <2> QED BY <1>4, <2>1 DEF ReceiptsReconcile, NothingLeftOut
<1>8. DrawsReplay'
  <2>1. Redrawn(rng, receipt'.ability, f.strikes) = [rng |-> rng, ok |-> TRUE]
    BY <1>3, RedrawnStarts
  <2> QED BY <1>2, <1>4, <2>1 DEF DrawsReplay
<1>9. OutcomesAreEffects'
  BY <1>4 DEF OutcomesAreEffects
<1>10. StoryIsTold'
  <2>1. f \in Book /\ Explained(match, f)
    BY <1>3 DEF Tellings
  <2>2. Finished(match, f.strikes) /\ Traced(f)
    BY <1>3, FinishedStarts DEF Traced
  <2> QED BY <1>1, <1>4, <2>1, <2>2, ReceiptIsTold
<1> QED BY <1>2, <1>5, <1>7, <1>8, <1>9, <1>10 DEF ReceiptInv

(* A step keeps it: requests of either kind leave such a receipt, and      *)
(* between requests nothing moves.                                         *)
LEMMA ReceiptStep == ReceiptInv /\ [Next]_vars => ReceiptInv'
<1> SUFFICES ASSUME ReceiptInv, [Next]_vars PROVE ReceiptInv'
  OBVIOUS
<1>1. Good(match) /\ rng \in RngState
  BY DEF ReceiptInv
<1>2. ASSUME NEW slot \in Slot, UseAbility(slot) PROVE ReceiptInv'
  BY <1>1, <1>2, AbilityReports
<1>3. CASE Pass
  BY <1>1, <1>3, PassReports
<1>4. CASE UNCHANGED vars
  BY <1>4 DEF vars, ReceiptInv, ReceiptsReconcile, DrawsReplay, OutcomesAreEffects,
              StoryIsTold, DeathsAreTold, StoryInOrder
<1> QED BY <1>2, <1>3, <1>4 DEF Next

(* The invariant holds throughout.                                         *)
LEMMA ReceiptsAreKept == Spec => []ReceiptInv
BY ReceiptInit, ReceiptStep, PTL DEF Spec

(* The session never closes on an ability the rules allow: whoever dies    *)
(* half way through a barrage, is overkilled by a cluster or falls         *)
(* afterwards, reconcile_strikes (match_session.rs:3144) finds records,    *)
(* itemised damage, traces and the health before and after in agreement,   *)
(* and deal_damage (command.rs:868) has itemised every point of health     *)
(* that is gone.                                                           *)
THEOREM ReceiptsAlwaysReconcile == Spec => []ReceiptsReconcile
<1>1. ReceiptInv => ReceiptsReconcile
  BY DEF ReceiptInv
<1> QED BY <1>1, ReceiptsAreKept, PTL

(* roll_crit (command.rs:806) draws once for every strike recorded as      *)
(* landed or missed and not at all for the rest: the records alone bring   *)
(* the generator before a request to the one after it, whatever the words  *)
(* it rejects.                                                             *)
THEOREM DiceCanBeReplayed == Spec => []DrawsReplay
<1>1. ReceiptInv => DrawsReplay
  BY DEF ReceiptInv
<1> QED BY <1>1, ReceiptsAreKept, PTL

(* What resolve_ability (command.rs:291) computes strike by strike is one  *)
(* of the outcomes module Command allows an ability, so that what is       *)
(* proved of every match of MatchPlay is proved of these.                  *)
THEOREM OutcomesAreAllowed == Spec => []OutcomesAreEffects
<1>1. ReceiptInv => OutcomesAreEffects
  BY DEF ReceiptInv
<1> QED BY <1>1, ReceiptsAreKept, PTL

(* Whatever order the loop of derive_events (match_session.rs:3737) pushes *)
(* them in and whatever the impacts' ticks are, the sorted events can be   *)
(* played as they come: whoever died is told dead exactly once, after the  *)
(* last strike on him and of the cause that killed him                     *)
(* (elimination_cause, match_session.rs:3916); projectile, impact and      *)
(* strike follow each other; the turn ends after everything, and the next  *)
(* opens last.                                                             *)
THEOREM StoryIsAlwaysTold == Spec => []StoryIsTold
<1>1. ReceiptInv => StoryIsTold
  BY DEF ReceiptInv
<1> QED BY <1>1, ReceiptsAreKept, PTL

=============================================================================
