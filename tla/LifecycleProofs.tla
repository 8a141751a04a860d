---------------------------- MODULE LifecycleProofs ----------------------------
(***************************************************************************)
(* Theorems about LifecyclePlay: statuses and placed objects through a     *)
(* match. Every loop of the model is a FoldLeft, so the proofs first show  *)
(* that a fold goes through its states one by one (UpTo, Recursion,        *)
(* FoldPath): induction, stated over functions and sets. A lemma of its    *)
(* own says so of each loop, because a lemma cannot take the body of a     *)
(* loop as a parameter; they read alike. From there: what one record, one  *)
(* object, one status, one knife of a chain does, what each loop then      *)
(* keeps (Kept), and what a step keeps (LifeInv).                          *)
(***************************************************************************)
EXTENDS LifecyclePlay, FiniteSetTheorems, SequenceTheorems,
        WellFoundedInduction, TLAPS

(* Induction up to N, over a set and not over an operator: no provers here *)
(* take the library's induction theorems, so the least number not in T is  *)
(* asked for instead (WFMin).                                              *)
LEMMA UpTo ==
  ASSUME NEW T, NEW N \in Nat, 0 \in T,
         \A n \in 0..(N - 1) : n \in T => n + 1 \in T
  PROVE  0..N \subseteq T
<1> DEFINE Bad == {n \in 0..N : n \notin T}
<1> SUFFICES ASSUME Bad # {} PROVE FALSE
  OBVIOUS
<1>0. Bad \subseteq Nat
  OBVIOUS
<1>1. PICK x \in Bad : \A y \in Bad : ~ (<<y, x>> \in OpToRel(<, Nat))
  BY <1>0, NatLessThanWellFounded, WFMin
<1>2. x \in 0..N /\ x \notin T /\ x # 0
  OBVIOUS
<1>3. x - 1 \in 0..(N - 1) /\ x = (x - 1) + 1
  BY <1>2
<1>4. x - 1 \in Bad
  BY <1>2, <1>3
<1>5. <<x - 1, x>> \in OpToRel(<, Nat)
  BY <1>2, <1>3 DEF OpToRel
<1> QED BY <1>1, <1>4, <1>5

(* f is the walk of a loop: where it starts, and one turn of it after      *)
(* another.                                                                *)
Walks(f, N, base, step) == f[0] = base /\ \A n \in 1..N : f[n] = step[n][f[n - 1]]

(* Every loop has a walk.                                                  *)
LEMMA Recursion ==
  ASSUME NEW N \in Nat, NEW base, NEW S, base \in S,
         NEW step \in [1..N -> [S -> S]]
  PROVE  \E f \in [0..N -> S] : Walks(f, N, base, step)
<1> DEFINE Good(m) == \E f \in [0..m -> S] :
             \A n \in 0..m : f[n] = IF n = 0 THEN base ELSE step[n][f[n - 1]]
<1> DEFINE T == {m \in 0..N : Good(m)}
<1>1. Good(0)
  <2> DEFINE f == [n \in 0..0 |-> base]
  <2>1. f \in [0..0 -> S] OBVIOUS
  <2>2. \A n \in 0..0 : f[n] = IF n = 0 THEN base ELSE step[n][f[n - 1]] OBVIOUS
  <2> QED BY <2>1, <2>2
<1>2. ASSUME NEW m \in 0..(N - 1), Good(m) PROVE Good(m + 1)
  <2>1. PICK f \in [0..m -> S] :
            \A n \in 0..m : f[n] = IF n = 0 THEN base ELSE step[n][f[n - 1]]
    BY <1>2
  <2> DEFINE g == [n \in 0..(m + 1) |-> IF n = m + 1 THEN step[m + 1][f[m]] ELSE f[n]]
  <2>2. step[m + 1][f[m]] \in S
    <3>1. m + 1 \in 1..N /\ m \in 0..m OBVIOUS
    <3> QED BY <3>1
  <2>3. g \in [0..(m + 1) -> S]
    <3>1. \A n \in 0..(m + 1) : n # m + 1 => n \in 0..m OBVIOUS
    <3> QED BY <2>2, <3>1
  <2>4. ASSUME NEW n \in 0..(m + 1)
        PROVE  g[n] = IF n = 0 THEN base ELSE step[n][g[n - 1]]
    <3>1. CASE n = m + 1
      <4>1. g[m + 1] = step[m + 1][f[m]] /\ g[m] = f[m] OBVIOUS
      <4> QED BY <3>1, <4>1
    <3>2. CASE n \in 0..m
      <4>1. g[n] = f[n] BY <3>2
      <4>2. f[n] = IF n = 0 THEN base ELSE step[n][f[n - 1]] BY <2>1, <3>2
      <4>3. n # 0 => g[n - 1] = f[n - 1] BY <3>2
      <4> QED BY <4>1, <4>2, <4>3
    <3> QED BY <3>1, <3>2
  <2> HIDE DEF g
  <2> QED BY <2>3, <2>4
<1>3. 0 \in T BY <1>1
<1> HIDE DEF Good
<1>4. \A m \in 0..(N - 1) : m \in T => m + 1 \in T BY <1>2
<1>5. N \in T
  <2>1. 0..N \subseteq T BY <1>3, <1>4, UpTo
  <2> QED BY <2>1
<1>6. Good(N) BY <1>5
<1>7. PICK f \in [0..N -> S] :
            \A n \in 0..N : f[n] = IF n = 0 THEN base ELSE step[n][f[n - 1]]
  BY <1>6 DEF Good
<1>8. Walks(f, N, base, step)
  BY <1>7 DEF Walks
<1> QED BY <1>8

(* The last of the first n numbers, and the rest of them.                  *)
LEMMA MaxOfPrefix ==
  ASSUME NEW n \in Nat \ {0}
  PROVE  Max(1..n) = n /\ (1..n) \ {Max(1..n)} = 1..(n - 1)
<1>1. Max(1..n) = n
  BY DEF Max
<1> QED BY <1>1

(* A set of some of the first N numbers has a largest.                     *)
LEMMA MaxOfSome ==
  ASSUME NEW N \in Nat, NEW s \in SUBSET (1..N), s # {}
  PROVE  Max(s) \in s /\ \A i \in s : i <= Max(s)
<1> DEFINE Above == {n \in 0..N : \A i \in s : i <= N - n}
<1> SUFFICES \E x \in s : \A y \in s : x >= y
  BY DEF Max
<1> SUFFICES ASSUME \A x \in s : \E y \in s : y > x PROVE FALSE
  OBVIOUS
<1>1. 0 \in Above
  OBVIOUS
<1>2. \A n \in 0..(N - 1) : n \in Above => n + 1 \in Above
  OBVIOUS
<1>3. 0..N \subseteq Above
  <2> HIDE DEF Above
  <2> QED BY <1>1, <1>2, UpTo
<1>4. N \in Above
  BY <1>3
<1>5. PICK i \in s : TRUE
  OBVIOUS
<1>6. i <= N - N /\ i \in 1..N
  BY <1>4
<1> QED BY <1>6

(* A fold of the community modules: it takes the largest index of a set    *)
(* last.                                                                   *)
Folds(f, N, base, step) ==
  \A s \in SUBSET (1..N) :
    f[s] = IF s = {} THEN base ELSE step[Max(s)][f[s \ {Max(s)}]]

(* What is known of such a fold before one knows it stays within a set.    *)
Unfolds(f, N, base, step, S) ==
  /\ f[{}] = base
  /\ \A s \in SUBSET (1..N) :
       s # {} /\ f[s \ {Max(s)}] \in S => f[s] = step[Max(s)][f[s \ {Max(s)}]]

(* The fold over the first N indices is the end of a walk.                 *)
Reaches(iter, N, base, step, S) ==
  \E f \in [0..N -> S] : Walks(f, N, base, step) /\ f[N] = iter[1..N]

(* Such a fold exists for every step that stays within a set.              *)
LEMMA FoldExists ==
  ASSUME NEW N \in Nat, NEW base, NEW S, base \in S,
         NEW step \in [1..N -> [S -> S]]
  PROVE  \E f \in [SUBSET (1..N) -> S] : Folds(f, N, base, step)
<1> DEFINE Good(m) == \E f \in [SUBSET (1..m) -> S] : \A s \in SUBSET (1..m) :
             f[s] = IF s = {} THEN base ELSE step[Max(s)][f[s \ {Max(s)}]]
<1> DEFINE T == {m \in 0..N : Good(m)}
<1>1. Good(0)
  <2> DEFINE f == [s \in SUBSET (1..0) |-> base]
  <2>1. f \in [SUBSET (1..0) -> S] OBVIOUS
  <2>2. \A s \in SUBSET (1..0) : s = {} OBVIOUS
  <2> QED BY <2>1, <2>2
<1>2. ASSUME NEW m \in 0..(N - 1), Good(m) PROVE Good(m + 1)
  <2>1. PICK f \in [SUBSET (1..m) -> S] : \A s \in SUBSET (1..m) :
             f[s] = IF s = {} THEN base ELSE step[Max(s)][f[s \ {Max(s)}]]
    BY <1>2
  <2> DEFINE g == [s \in SUBSET (1..(m + 1)) |->
                     IF m + 1 \in s THEN step[m + 1][f[s \ {m + 1}]] ELSE f[s]]
  <2>2. ASSUME NEW s \in SUBSET (1..(m + 1))
        PROVE  /\ s \ {m + 1} \in SUBSET (1..m)
               /\ m + 1 \notin s => s \in SUBSET (1..m)
               /\ m + 1 \in s => Max(s) = m + 1
    <3>1. m + 1 \in s => Max(s) = m + 1
      <4> SUFFICES ASSUME m + 1 \in s PROVE Max(s) = m + 1 OBVIOUS
      <4>1. m + 1 \in Nat /\ s # {} OBVIOUS
      <4>2. Max(s) \in s /\ \A i \in s : i <= Max(s)
        BY <4>1, <2>2, MaxOfSome
      <4>3. Max(s) \in 1..(m + 1) /\ m + 1 <= Max(s) BY <4>2
      <4> QED BY <4>3
    <3> QED BY <3>1
  <2>3. g \in [SUBSET (1..(m + 1)) -> S]
    <3>1. m + 1 \in 1..N OBVIOUS
    <3> QED BY <2>2, <3>1
  <2>4. ASSUME NEW s \in SUBSET (1..(m + 1)), s # {}
        PROVE  g[s] = step[Max(s)][g[s \ {Max(s)}]]
    <3>1. CASE m + 1 \in s
      <4>1. Max(s) = m + 1 BY <2>2, <3>1
      <4>2. g[s] = step[m + 1][f[s \ {m + 1}]] BY <3>1
      <4>3. g[s \ {m + 1}] = f[s \ {m + 1}] OBVIOUS
      <4> QED BY <4>1, <4>2, <4>3
    <3>2. CASE m + 1 \notin s
      <4>1. s \in SUBSET (1..m) BY <2>2, <3>2
      <4>2. g[s] = f[s] /\ g[s \ {Max(s)}] = f[s \ {Max(s)}] BY <3>2
      <4>3. f[s] = step[Max(s)][f[s \ {Max(s)}]] BY <2>1, <2>4, <4>1
      <4> QED BY <4>2, <4>3
    <3> QED BY <3>1, <3>2
  <2>5. g[{}] = base
    BY <2>1
  <2> HIDE DEF g
  <2>6. \A s \in SUBSET (1..(m + 1)) :
          g[s] = IF s = {} THEN base ELSE step[Max(s)][g[s \ {Max(s)}]]
    BY <2>4, <2>5
  <2> QED BY <2>3, <2>6
<1> HIDE DEF Good
<1>3. 0 \in T BY <1>1
<1>4. \A m \in 0..(N - 1) : m \in T => m + 1 \in T BY <1>2
<1>5. N \in T
  <2>1. 0..N \subseteq T BY <1>3, <1>4, UpTo
  <2> QED BY <2>1
<1> QED BY <1>5 DEF Good, Folds

(* And whatever unfolds like one is the end of a walk: a loop written with *)
(* FoldLeft goes through its states one by one.                            *)
LEMMA FoldPath ==
  ASSUME NEW N \in Nat, NEW base, NEW S, base \in S,
         NEW step \in [1..N -> [S -> S]], NEW iter, Unfolds(iter, N, base, step, S)
  PROVE  Reaches(iter, N, base, step, S)
<1> USE DEF Unfolds
<1> DEFINE T == {n \in 0..N : iter[1..n] \in S}
<1>1. ASSUME NEW n \in 1..N, iter[1..(n - 1)] \in S
      PROVE  iter[1..n] = step[n][iter[1..(n - 1)]] /\ iter[1..n] \in S
  <2>1. 1..n \in SUBSET (1..N) /\ 1..n # {} OBVIOUS
  <2>2. Max(1..n) = n /\ (1..n) \ {Max(1..n)} = 1..(n - 1) BY MaxOfPrefix
  <2>3. iter[1..n] = step[n][iter[1..(n - 1)]] BY <1>1, <2>1, <2>2
  <2> QED BY <1>1, <2>3
<1>2. 0 \in T
  <2>1. 1..0 = {} OBVIOUS
  <2> QED BY <2>1
<1>3. \A n \in 0..(N - 1) : n \in T => n + 1 \in T
  <2> SUFFICES ASSUME NEW n \in 0..(N - 1), iter[1..n] \in S PROVE iter[1..(n + 1)] \in S
    OBVIOUS
  <2>1. n + 1 \in 1..N /\ (n + 1) - 1 = n OBVIOUS
  <2> QED BY <1>1, <2>1
<1>4. 0..N \subseteq T
  <2> HIDE DEF T
  <2> QED BY <1>2, <1>3, UpTo
<1> DEFINE f == [n \in 0..N |-> iter[1..n]]
<1>5. f \in [0..N -> S] BY <1>4
<1>6. f[0] = base
  <2>1. 1..0 = {} OBVIOUS
  <2> QED BY <2>1
<1>7. ASSUME NEW n \in 1..N PROVE f[n] = step[n][f[n - 1]]
  <2>1. n - 1 \in 0..N OBVIOUS
  <2>2. iter[1..(n - 1)] \in S BY <1>4, <2>1
  <2> QED BY <1>1, <2>1, <2>2
<1>8. f[N] = iter[1..N] OBVIOUS
<1> HIDE DEF f
<1>9. Walks(f, N, base, step)
  BY <1>6, <1>7 DEF Walks
<1> QED BY <1>5, <1>8, <1>9 DEF Reaches

-----------------------------------------------------------------------------
(* What boards are made of.                                                *)

(* The kinds of status.                                                    *)
Kind == ToSet(Timed) \cup {Mark}

(* A status (types.rs, StatusEffect).                                      *)
Status == [magnitude : Int, turns : Nat]

(* The statuses a player may hold: at most one of each kind.               *)
Held == UNION {[K -> Status] : K \in SUBSET Kind}

(* What a status record may say (types.rs, StatusTransition).              *)
Transition ==
  [name : {"Applied"}, status : Status]
    \cup [name : {"Refreshed"}, status : Status, replaced : Status]
    \cup [name : {"ChargeConsumed"}, remaining : Int]
    \cup [name : {"Ticked"}, turns : Nat]
    \cup [name : {"Exhausted", "Expired"}]

(* A status record.                                                        *)
StatusChange == [player : Player, kind : Kind, transition : Transition]

(* A placed object (types.rs, PersistentObject).                           *)
Object ==
  [sequence : Nat, owner : Player, kind : {"Turret", "EmbeddedKnife"},
   place : Int, turns : Nat]

(* An object record.                                                       *)
ObjectChange ==
  [object : Object,
   transition : {"Spawned", "Replaced", "CapacityEvicted", "Detonated", "OwnerEliminated"}]

(* The boards of a match: what Lifecycle calls b.                          *)
Board ==
  [health : [Player -> Nat], statuses : [Player -> Held], objects : Seq(Object),
   next : Nat, statusLog : Seq(StatusChange), objectLog : Seq(ObjectChange)]

(* Players are numbered.                                                   *)
LEMMA PlayerIs == Player = 1..Len(Standing) /\ Len(Standing) \in Nat /\ Standing \in [Player -> Int]
  BY StandingAssumption DEF Player

(* The kinds of status, one by one.                                        *)
LEMMA KindIs == Kind = {"Chill", "Embers", "Lockdown", "GuaranteeCrit"}
<1>1. ToSet(Timed) = {"Chill", "Embers", "Lockdown"}
  BY DEF ToSet, Timed
<1> QED BY <1>1 DEF Kind, Mark

(* The roster lists every player once, in order.                           *)
LEMMA RosterIs ==
  /\ Len(Roster) = Len(Standing) /\ Len(Roster) \in Nat
  /\ Player = 1..Len(Roster) /\ DOMAIN Roster = 1..Len(Roster)
  /\ \A p \in Player : Roster[p] = p
BY PlayerIs DEF Roster

(* One turn of each loop over players.                                     *)
CleanupOne(b, acc, p) ==
  IF p \in Alive(b) THEN acc ELSE Discard(acc, Owned(acc, p), "OwnerEliminated")

StrikeOne(b, ability, targets, damage, p) ==
  IF p \notin targets \/ (ability.attack = "Projectile" /\ b.health[p] = 0) THEN b
  ELSE Strike(b, p, ability, damage)

ApplyOne(b, effect, targets, p) ==
  IF p \notin targets THEN b
  ELSE Apply(b, p, effect.kind, [magnitude |-> effect.magnitude, turns |-> effect.turns])

-----------------------------------------------------------------------------
(* What the two replays make of a log and of one more record.              *)

(* What the replay of status records carries along.                        *)
StatusShadow == [ok : BOOLEAN, statuses : [Player -> Held]]

(* What the replay of object records carries along.                        *)
ObjectShadow == [ok : BOOLEAN, shadow : SUBSET Object, used : SUBSET Nat]

(* Nothing but the status of a kind differs.                               *)
OnlyAt(held, after, kind) ==
  \A k : k # kind => /\ k \in DOMAIN held <=> k \in DOMAIN after
                     /\ k \in DOMAIN held => after[k] = held[k]

(* Setting a status sets that one.                                         *)
LEMMA WithIs ==
  ASSUME NEW held \in Held, NEW kind \in Kind, NEW status \in Status
  PROVE  /\ With(held, kind, status) \in Held
         /\ OnlyAt(held, With(held, kind, status), kind)
         /\ DOMAIN With(held, kind, status) = DOMAIN held \cup {kind}
         /\ With(held, kind, status)[kind] = status
         /\ \A k \in DOMAIN held \ {kind} : With(held, kind, status)[k] = held[k]
<1>1. PICK K \in SUBSET Kind : held \in [K -> Status]
  BY DEF Held
<1>2. With(held, kind, status) \in [K \cup {kind} -> Status]
  BY <1>1 DEF With
<1> QED BY <1>1, <1>2 DEF Held, With, OnlyAt

(* Removing a status removes that one.                                     *)
LEMMA WithoutIs ==
  ASSUME NEW held \in Held, NEW kind
  PROVE  /\ Without(held, kind) \in Held
         /\ OnlyAt(held, Without(held, kind), kind)
         /\ DOMAIN Without(held, kind) = DOMAIN held \ {kind}
         /\ \A k \in DOMAIN held \ {kind} : Without(held, kind)[k] = held[k]
<1>1. PICK K \in SUBSET Kind : held \in [K -> Status]
  BY DEF Held
<1>2. Without(held, kind) \in [K \ {kind} -> Status]
  BY <1>1 DEF Without
<1> QED BY <1>1, <1>2 DEF Held, Without, OnlyAt

(* What is held is a status of a kind.                                     *)
LEMMA HeldIs ==
  ASSUME NEW held \in Held
  PROVE  DOMAIN held \subseteq Kind /\ \A k \in DOMAIN held : held[k] \in Status
BY DEF Held

(* A record that fits changes the status it names and no other.            *)
LEMMA AfterIs ==
  ASSUME NEW held \in Held, NEW change \in StatusChange, StatusFits(held, change)
  PROVE  /\ StatusAfter(held, change) \in Held
         /\ OnlyAt(held, StatusAfter(held, change), change.kind)
<1> DEFINE k == change.kind
           t == change.transition
           after == StatusAfter(held, change)
<1> SUFFICES after \in Held /\ OnlyAt(held, after, k)
  OBVIOUS
<1>1. k \in Kind /\ t \in Transition
  BY DEF StatusChange
<1>2. CASE t.name \in {"Applied", "Refreshed"}
  <2>1. t.status \in Status BY <1>1, <1>2 DEF Transition
  <2>2. after = With(held, k, t.status) BY <1>2 DEF StatusAfter
  <2> HIDE DEF k, t, after
  <2> QED BY <1>1, <2>1, <2>2, WithIs
<1>3. CASE t.name = "ChargeConsumed"
  <2>1. k \in DOMAIN held BY <1>3 DEF StatusFits
  <2>2. t.remaining \in Int BY <1>1, <1>3 DEF Transition
  <2>3. [held[k] EXCEPT !.magnitude = t.remaining] \in Status
    BY <2>1, <2>2, HeldIs DEF Status
  <2>4. after = With(held, k, [held[k] EXCEPT !.magnitude = t.remaining])
    BY <1>3 DEF StatusAfter
  <2> HIDE DEF k, t, after
  <2> QED BY <1>1, <2>3, <2>4, WithIs
<1>4. CASE t.name = "Ticked"
  <2>1. k \in DOMAIN held BY <1>4 DEF StatusFits
  <2>2. t.turns \in Nat BY <1>1, <1>4 DEF Transition
  <2>3. [held[k] EXCEPT !.turns = t.turns] \in Status
    BY <2>1, <2>2, HeldIs DEF Status
  <2>4. after = With(held, k, [held[k] EXCEPT !.turns = t.turns])
    BY <1>4 DEF StatusAfter
  <2> HIDE DEF k, t, after
  <2> QED BY <1>1, <2>3, <2>4, WithIs
<1>5. CASE t.name \in {"Exhausted", "Expired"}
  <2>1. after = Without(held, k) BY <1>5 DEF StatusAfter
  <2> QED BY <2>1, WithoutIs
<1>6. t.name \in {"Applied", "Refreshed", "ChargeConsumed", "Ticked", "Exhausted", "Expired"}
  BY <1>1 DEF Transition
<1> QED BY <1>2, <1>3, <1>4, <1>5, <1>6

(* One record replayed.                                                    *)
LEMMA StatusReplayIs ==
  ASSUME NEW acc \in StatusShadow, NEW change \in StatusChange
  PROVE  /\ StatusReplay(acc, change) \in StatusShadow
         /\ acc.ok /\ StatusFits(acc.statuses[change.player], change)
              => StatusReplay(acc, change) =
                   [ok |-> TRUE, statuses |->
                      [acc.statuses EXCEPT ![change.player] =
                         StatusAfter(acc.statuses[change.player], change)]]
<1>1. change.player \in Player /\ acc.statuses[change.player] \in Held
  BY DEF StatusChange, StatusShadow
<1>2. CASE acc.ok /\ StatusFits(acc.statuses[change.player], change)
  <2>1. StatusAfter(acc.statuses[change.player], change) \in Held
    BY <1>1, <1>2, AfterIs
  <2>2. StatusReplay(acc, change) =
          [acc EXCEPT !.statuses = [acc.statuses EXCEPT ![change.player] =
                         StatusAfter(acc.statuses[change.player], change)]]
    BY <1>2 DEF StatusReplay
  <2>3. acc = [ok |-> TRUE, statuses |-> acc.statuses]
    BY <1>2 DEF StatusShadow
  <2> QED BY <1>1, <2>1, <2>2, <2>3 DEF StatusShadow
<1>3. CASE ~(acc.ok /\ StatusFits(acc.statuses[change.player], change))
  BY <1>3 DEF StatusReplay, StatusShadow
<1> QED BY <1>2, <1>3

(* One record replayed.                                                    *)
LEMMA ObjectReplayIs ==
  ASSUME NEW acc \in ObjectShadow, NEW change \in ObjectChange
  PROVE  ObjectReplay(acc, change) \in ObjectShadow
BY DEF ObjectReplay, ObjectShadow, ObjectChange, Object

(* The replay of a log, record by record.                                  *)
StatusWalk(g, start, log) ==
  /\ g[0] = start
  /\ \A n \in 1..Len(log) : g[n] = StatusReplay(g[n - 1], log[n])
  /\ g[Len(log)] = FoldLeft(StatusReplay, start, log)

(* Every replay of a status log is such a walk (FoldPath).                 *)
LEMMA StatusReplayWalks ==
  ASSUME NEW start \in StatusShadow, NEW log \in Seq(StatusChange)
  PROVE  \E g \in [0..Len(log) -> StatusShadow] : StatusWalk(g, start, log)
<1> DEFINE N == Len(log)
           S == StatusShadow
           base == start
           step == [n \in 1..N |-> [acc \in S |-> StatusReplay(acc, log[n])]]
           iter == CHOOSE iter : iter = [s \in SUBSET DOMAIN log |->
                     IF s = {} THEN start
                     ELSE StatusReplay(iter[s \ {Max(s)}], log[Max(s)])]
<1>1. N \in Nat /\ DOMAIN log = 1..N
  OBVIOUS
<1>2. base \in S /\ \A acc \in S : \A n \in 1..N : StatusReplay(acc, log[n]) \in S
  <2>1. \A n \in 1..N : log[n] \in StatusChange
    OBVIOUS
  <2> QED BY <2>1, StatusReplayIs
<1>3. FoldLeft(StatusReplay, start, log) = iter[1..N]
  BY <1>1 DEF FoldLeft, MapThenFoldSet
<1>4. /\ step \in [1..N -> [S -> S]]
      /\ \A n \in 1..N, acc \in S : step[n][acc] = StatusReplay(acc, log[n])
  BY <1>2
<1> HIDE DEF step, N, S, base
<1>5. PICK f \in [SUBSET (1..N) -> S] : \A s \in SUBSET (1..N) :
         f[s] = IF s = {} THEN base ELSE step[Max(s)][f[s \ {Max(s)}]]
  <2>1. \E f \in [SUBSET (1..N) -> S] : Folds(f, N, base, step)
    BY <1>2, <1>1, <1>4, FoldExists
  <2> QED BY <2>1 DEF Folds
<1>6. \A s \in SUBSET (1..N) : s # {} => Max(s) \in 1..N
  BY <1>1, MaxOfSome
<1>7. f = [s \in SUBSET (1..N) |-> IF s = {} THEN base
                     ELSE StatusReplay(f[s \ {Max(s)}], log[Max(s)])]
  BY <1>4, <1>5, <1>6
<1>8. iter = [s \in SUBSET (1..N) |-> IF s = {} THEN base
                     ELSE StatusReplay(iter[s \ {Max(s)}], log[Max(s)])]
  BY <1>1, <1>7 DEF base
<1> HIDE DEF iter
<1>9. Unfolds(iter, N, base, step, S)
  BY <1>4, <1>6, <1>8 DEF Unfolds
<1>10. base \in S /\ N \in Nat /\ step \in [1..N -> [S -> S]]
  BY <1>2, <1>1, <1>4
<1>11. PICK g \in [0..N -> S] : Walks(g, N, base, step) /\ g[N] = iter[1..N]
  <2>1. Reaches(iter, N, base, step, S)
    BY <1>9, <1>10, FoldPath
  <2> QED BY <2>1 DEF Reaches
<1>12. \A n \in 1..N : g[n] = StatusReplay(g[n - 1], log[n])
  BY <1>1, <1>4, <1>11 DEF Walks
<1> QED BY <1>3, <1>11, <1>12 DEF Walks, StatusWalk, N, S, base

(* The replay of a log, record by record.                                  *)
ObjectWalk(g, start, log) ==
  /\ g[0] = start
  /\ \A n \in 1..Len(log) : g[n] = ObjectReplay(g[n - 1], log[n])
  /\ g[Len(log)] = FoldLeft(ObjectReplay, start, log)

(* Every replay of an object log is such a walk (FoldPath).                *)
LEMMA ObjectReplayWalks ==
  ASSUME NEW start \in ObjectShadow, NEW log \in Seq(ObjectChange)
  PROVE  \E g \in [0..Len(log) -> ObjectShadow] : ObjectWalk(g, start, log)
<1> DEFINE N == Len(log)
           S == ObjectShadow
           base == start
           step == [n \in 1..N |-> [acc \in S |-> ObjectReplay(acc, log[n])]]
           iter == CHOOSE iter : iter = [s \in SUBSET DOMAIN log |->
                     IF s = {} THEN start
                     ELSE ObjectReplay(iter[s \ {Max(s)}], log[Max(s)])]
<1>1. N \in Nat /\ DOMAIN log = 1..N
  OBVIOUS
<1>2. base \in S /\ \A acc \in S : \A n \in 1..N : ObjectReplay(acc, log[n]) \in S
  <2>1. \A n \in 1..N : log[n] \in ObjectChange
    OBVIOUS
  <2> QED BY <2>1, ObjectReplayIs
<1>3. FoldLeft(ObjectReplay, start, log) = iter[1..N]
  BY <1>1 DEF FoldLeft, MapThenFoldSet
<1>4. /\ step \in [1..N -> [S -> S]]
      /\ \A n \in 1..N, acc \in S : step[n][acc] = ObjectReplay(acc, log[n])
  BY <1>2
<1> HIDE DEF step, N, S, base
<1>5. PICK f \in [SUBSET (1..N) -> S] : \A s \in SUBSET (1..N) :
         f[s] = IF s = {} THEN base ELSE step[Max(s)][f[s \ {Max(s)}]]
  <2>1. \E f \in [SUBSET (1..N) -> S] : Folds(f, N, base, step)
    BY <1>2, <1>1, <1>4, FoldExists
  <2> QED BY <2>1 DEF Folds
<1>6. \A s \in SUBSET (1..N) : s # {} => Max(s) \in 1..N
  BY <1>1, MaxOfSome
<1>7. f = [s \in SUBSET (1..N) |-> IF s = {} THEN base
                     ELSE ObjectReplay(f[s \ {Max(s)}], log[Max(s)])]
  BY <1>4, <1>5, <1>6
<1>8. iter = [s \in SUBSET (1..N) |-> IF s = {} THEN base
                     ELSE ObjectReplay(iter[s \ {Max(s)}], log[Max(s)])]
  BY <1>1, <1>7 DEF base
<1> HIDE DEF iter
<1>9. Unfolds(iter, N, base, step, S)
  BY <1>4, <1>6, <1>8 DEF Unfolds
<1>10. base \in S /\ N \in Nat /\ step \in [1..N -> [S -> S]]
  BY <1>2, <1>1, <1>4
<1>11. PICK g \in [0..N -> S] : Walks(g, N, base, step) /\ g[N] = iter[1..N]
  <2>1. Reaches(iter, N, base, step, S)
    BY <1>9, <1>10, FoldPath
  <2> QED BY <2>1 DEF Reaches
<1>12. \A n \in 1..N : g[n] = ObjectReplay(g[n - 1], log[n])
  BY <1>1, <1>4, <1>11 DEF Walks
<1> QED BY <1>3, <1>11, <1>12 DEF Walks, ObjectWalk, N, S, base

(* A log with one more record replays to one more step.                    *)
LEMMA StatusLogGrows ==
  ASSUME NEW start \in StatusShadow, NEW log \in Seq(StatusChange), NEW c \in StatusChange
  PROVE  /\ FoldLeft(StatusReplay, start, log) \in StatusShadow
         /\ FoldLeft(StatusReplay, start, Append(log, c)) =
              StatusReplay(FoldLeft(StatusReplay, start, log), c)
<1> DEFINE N == Len(log)
           longer == Append(log, c)
<1>1. /\ longer \in Seq(StatusChange) /\ N \in Nat /\ Len(longer) = N + 1
      /\ longer[N + 1] = c /\ \A n \in 1..N : longer[n] = log[n]
  OBVIOUS
<1> HIDE DEF longer
<1>4. PICK g \in [0..N -> StatusShadow] : StatusWalk(g, start, log)
  BY StatusReplayWalks
<1>5. PICK h \in [0..(N + 1) -> StatusShadow] : StatusWalk(h, start, longer)
  BY <1>1, StatusReplayWalks
<1> DEFINE T == {n \in 0..N : h[n] = g[n]}
<1>6. 0 \in T
  BY <1>1, <1>4, <1>5 DEF StatusWalk
<1>7. \A n \in 0..(N - 1) : n \in T => n + 1 \in T
  <2> SUFFICES ASSUME NEW n \in 0..(N - 1), h[n] = g[n] PROVE h[n + 1] = g[n + 1]
    OBVIOUS
  <2>1. n + 1 \in 1..N /\ (n + 1) - 1 = n
    BY <1>1
  <2>2. g[n + 1] = StatusReplay(g[n], log[n + 1])
    BY <1>4, <2>1 DEF StatusWalk
  <2>3. h[n + 1] = StatusReplay(h[n], longer[n + 1])
    BY <1>1, <1>5, <2>1 DEF StatusWalk
  <2> QED BY <1>1, <2>1, <2>2, <2>3
<1>8. N \in T
  <2>1. 0..N \subseteq T
    <3> HIDE DEF T
    <3> QED BY <1>1, <1>6, <1>7, UpTo
  <2> QED BY <1>1, <2>1
<1>9. h[N] = g[N] /\ h[N + 1] = StatusReplay(h[N], c) /\ g[N] \in StatusShadow
  BY <1>1, <1>4, <1>5, <1>8 DEF StatusWalk
<1> QED BY <1>1, <1>4, <1>5, <1>9 DEF StatusWalk, longer

(* An empty log replays to where it starts.                                *)
LEMMA StatusLogStarts ==
  ASSUME NEW start \in StatusShadow
  PROVE  FoldLeft(StatusReplay, start, <<>>) = start
<1>1. <<>> \in Seq(StatusChange) /\ Len(<<>>) = 0
  OBVIOUS
<1>2. PICK g \in [0..Len(<<>>) -> StatusShadow] : StatusWalk(g, start, <<>>)
  BY <1>1, StatusReplayWalks
<1> QED BY <1>1, <1>2 DEF StatusWalk

(* A log with one more record replays to one more step.                    *)
LEMMA ObjectLogGrows ==
  ASSUME NEW start \in ObjectShadow, NEW log \in Seq(ObjectChange), NEW c \in ObjectChange
  PROVE  /\ FoldLeft(ObjectReplay, start, log) \in ObjectShadow
         /\ FoldLeft(ObjectReplay, start, Append(log, c)) =
              ObjectReplay(FoldLeft(ObjectReplay, start, log), c)
<1> DEFINE N == Len(log)
           longer == Append(log, c)
<1>1. /\ longer \in Seq(ObjectChange) /\ N \in Nat /\ Len(longer) = N + 1
      /\ longer[N + 1] = c /\ \A n \in 1..N : longer[n] = log[n]
  OBVIOUS
<1> HIDE DEF longer
<1>4. PICK g \in [0..N -> ObjectShadow] : ObjectWalk(g, start, log)
  BY ObjectReplayWalks
<1>5. PICK h \in [0..(N + 1) -> ObjectShadow] : ObjectWalk(h, start, longer)
  BY <1>1, ObjectReplayWalks
<1> DEFINE T == {n \in 0..N : h[n] = g[n]}
<1>6. 0 \in T
  BY <1>1, <1>4, <1>5 DEF ObjectWalk
<1>7. \A n \in 0..(N - 1) : n \in T => n + 1 \in T
  <2> SUFFICES ASSUME NEW n \in 0..(N - 1), h[n] = g[n] PROVE h[n + 1] = g[n + 1]
    OBVIOUS
  <2>1. n + 1 \in 1..N /\ (n + 1) - 1 = n
    BY <1>1
  <2>2. g[n + 1] = ObjectReplay(g[n], log[n + 1])
    BY <1>4, <2>1 DEF ObjectWalk
  <2>3. h[n + 1] = ObjectReplay(h[n], longer[n + 1])
    BY <1>1, <1>5, <2>1 DEF ObjectWalk
  <2> QED BY <1>1, <2>1, <2>2, <2>3
<1>8. N \in T
  <2>1. 0..N \subseteq T
    <3> HIDE DEF T
    <3> QED BY <1>1, <1>6, <1>7, UpTo
  <2> QED BY <1>1, <2>1
<1>9. h[N] = g[N] /\ h[N + 1] = ObjectReplay(h[N], c) /\ g[N] \in ObjectShadow
  BY <1>1, <1>4, <1>5, <1>8 DEF ObjectWalk
<1> QED BY <1>1, <1>4, <1>5, <1>9 DEF ObjectWalk, longer

(* An empty log replays to where it starts.                                *)
LEMMA ObjectLogStarts ==
  ASSUME NEW start \in ObjectShadow
  PROVE  FoldLeft(ObjectReplay, start, <<>>) = start
<1>1. <<>> \in Seq(ObjectChange) /\ Len(<<>>) = 0
  OBVIOUS
<1>2. PICK g \in [0..Len(<<>>) -> ObjectShadow] : ObjectWalk(g, start, <<>>)
  BY <1>1, ObjectReplayWalks
<1> QED BY <1>1, <1>2 DEF ObjectWalk

-----------------------------------------------------------------------------
(* Statuses, since a board pre: the log replays, and whatever it does not  *)
(* mention is as it was, but for the timed statuses of who ended his turn. *)
StatusesFollow(pre, b) ==
  FoldLeft(StatusReplay, [ok |-> TRUE, statuses |-> pre.statuses], b.statusLog)
    = [ok |-> TRUE, statuses |-> b.statuses]

(* The log speaks of a status that was there before.                       *)
Told(b, p, kind) ==
  \E i \in DOMAIN b.statusLog :
    LET c == b.statusLog[i]
    IN  /\ c.player = p /\ c.kind = kind
        /\ c.transition.name \in {"Refreshed", "ChargeConsumed", "Exhausted"}

(* Statuses pre held are spoken of, or as they were, or timed ones of a    *)
(* player whose turn has ended.                                            *)
Spoken(pre, b, ended) ==
  \A p \in Player : \A kind \in DOMAIN pre.statuses[p] :
    \/ Told(b, p, kind)
    \/ kind \in DOMAIN b.statuses[p] /\ b.statuses[p][kind] = pre.statuses[p][kind]
    \/ kind # Mark /\ p \in ended

(* The statuses' side of the invariant.                                    *)
StatusSide(pre, b, ended) == StatusesFollow(pre, b) /\ Spoken(pre, b, ended)

(* Only the statuses may have moved.                                       *)
SameObjects(b, after) ==
  /\ after.objects = b.objects /\ after.next = b.next
  /\ after.objectLog = b.objectLog /\ after.health = b.health

(* A record that fits, written with the change it tells of, keeps the      *)
(* statuses' side.                                                         *)
LEMMA StatusStep ==
  ASSUME NEW pre \in Board, NEW b \in Board, NEW after, NEW ended,
         NEW c \in StatusChange, StatusSide(pre, b, ended),
         StatusFits(b.statuses[c.player], c),
         after.statuses = [b.statuses EXCEPT ![c.player] = StatusAfter(@, c)],
         after.statusLog = Append(b.statusLog, c),
         c.transition.name \in {"Ticked", "Expired"} => c.kind # Mark /\ c.player \in ended
  PROVE  StatusSide(pre, after, ended)
<1>1. /\ b.statuses \in [Player -> Held] /\ pre.statuses \in [Player -> Held]
      /\ b.statusLog \in Seq(StatusChange)
      /\ c.player \in Player /\ c.kind \in Kind /\ c.transition \in Transition
  BY DEF Board, StatusChange
<1>2. StatusesFollow(pre, after)
  <2> DEFINE start == [ok |-> TRUE, statuses |-> pre.statuses]
             acc   == [ok |-> TRUE, statuses |-> b.statuses]
  <2>1. start \in StatusShadow /\ acc \in StatusShadow
    BY <1>1 DEF StatusShadow
  <2>2. FoldLeft(StatusReplay, start, b.statusLog) = acc
    BY DEF StatusSide, StatusesFollow
  <2>3. FoldLeft(StatusReplay, start, after.statusLog) = StatusReplay(acc, c)
    <3> DEFINE log == b.statusLog
    <3>1. log \in Seq(StatusChange) BY <1>1
    <3> HIDE DEF start, acc, log
    <3>2. FoldLeft(StatusReplay, start, Append(log, c)) =
            StatusReplay(FoldLeft(StatusReplay, start, log), c)
      BY <2>1, <3>1, StatusLogGrows
    <3> QED BY <2>2, <3>2 DEF log
  <2>4. acc.ok /\ acc.statuses = b.statuses
    OBVIOUS
  <2>5. StatusReplay(acc, c) = [ok |-> TRUE, statuses |-> after.statuses]
    <3> HIDE DEF start, acc
    <3> QED BY <2>1, <2>4, StatusReplayIs
  <2> QED BY <2>3, <2>5 DEF StatusesFollow
<1>3. Spoken(pre, after, ended)
  <2> SUFFICES ASSUME NEW p \in Player, NEW kind \in DOMAIN pre.statuses[p],
                      ~ Told(after, p, kind), ~ (kind # Mark /\ p \in ended)
               PROVE  /\ kind \in DOMAIN after.statuses[p]
                      /\ after.statuses[p][kind] = pre.statuses[p][kind]
    BY DEF Spoken
  <2>1. /\ DOMAIN after.statusLog = 1..(Len(b.statusLog) + 1)
        /\ DOMAIN b.statusLog = 1..Len(b.statusLog) /\ Len(b.statusLog) \in Nat
        /\ after.statusLog[Len(b.statusLog) + 1] = c
        /\ \A i \in DOMAIN b.statusLog : after.statusLog[i] = b.statusLog[i]
    BY <1>1
  <2>2. ~ Told(b, p, kind)
    BY <2>1 DEF Told
  <2>3. /\ kind \in DOMAIN b.statuses[p]
        /\ b.statuses[p][kind] = pre.statuses[p][kind]
    BY <2>2 DEF StatusSide, Spoken
  <2>4. CASE p # c.player \/ kind # c.kind
    <3>1. OnlyAt(b.statuses[c.player], StatusAfter(b.statuses[c.player], c), c.kind)
      BY <1>1, AfterIs
    <3>2. p # c.player => after.statuses[p] = b.statuses[p]
      BY <1>1
    <3>3. p = c.player => after.statuses[p] = StatusAfter(b.statuses[c.player], c)
      BY <1>1
    <3> QED BY <2>3, <2>4, <3>1, <3>2, <3>3 DEF OnlyAt
  <2>5. CASE p = c.player /\ kind = c.kind
    <3>1. c.transition.name \notin {"Refreshed", "ChargeConsumed", "Exhausted"}
      BY <2>1, <2>5 DEF Told
    <3>2. c.transition.name = "Applied"
      BY <1>1, <2>5, <3>1 DEF Transition
    <3> QED BY <2>3, <2>5, <3>2 DEF StatusFits
  <2> QED BY <2>4, <2>5
<1> QED BY <1>2, <1>3 DEF StatusSide

(* Changing what one player holds, with a record of it, moves no object.   *)
LEMMA NotingIs ==
  ASSUME NEW b \in Board, NEW p \in Player, NEW held \in Held, NEW c \in StatusChange,
         NEW after,
         after = [b EXCEPT !.statuses = [b.statuses EXCEPT ![p] = held],
                           !.statusLog = Append(b.statusLog, c)]
  PROVE  after \in Board /\ SameObjects(b, after)
<1>1. /\ b = [health |-> b.health, statuses |-> b.statuses, objects |-> b.objects,
               next |-> b.next, statusLog |-> b.statusLog, objectLog |-> b.objectLog]
      /\ b.health \in [Player -> Nat] /\ b.objects \in Seq(Object) /\ b.next \in Nat
      /\ b.objectLog \in Seq(ObjectChange)
  BY DEF Board
<1>2. [b.statuses EXCEPT ![p] = held] \in [Player -> Held]
  BY DEF Board
<1>3. Append(b.statusLog, c) \in Seq(StatusChange)
  BY DEF Board
<1>4. after = [health |-> b.health, statuses |-> [b.statuses EXCEPT ![p] = held],
               objects |-> b.objects, next |-> b.next,
               statusLog |-> Append(b.statusLog, c), objectLog |-> b.objectLog]
  BY <1>1
<1>5. after \in Board
  BY <1>1, <1>2, <1>3, <1>4 DEF Board
<1> QED BY <1>4, <1>5 DEF SameObjects

(* The transition of a record of each of the four producers.               *)
LEMMA ApplyKeeps ==
  ASSUME NEW pre \in Board, NEW b \in Board, NEW ended, NEW p \in Player,
         NEW kind \in Kind, NEW status \in Status, StatusSide(pre, b, ended)
  PROVE  /\ Apply(b, p, kind, status) \in Board
         /\ StatusSide(pre, Apply(b, p, kind, status), ended)
         /\ SameObjects(b, Apply(b, p, kind, status))
<1> DEFINE held == b.statuses[p]
           t == IF kind \in DOMAIN held
                  THEN [name |-> "Refreshed", status |-> status, replaced |-> held[kind]]
                  ELSE [name |-> "Applied", status |-> status]
           c == [player |-> p, kind |-> kind, transition |-> t]
           after == Apply(b, p, kind, status)
<1>1. held \in Held /\ (kind \in DOMAIN held => held[kind] \in Status)
  BY HeldIs DEF Board
<1>2. t \in Transition
  BY <1>1 DEF Transition
<1>3. c \in StatusChange
  BY <1>2 DEF StatusChange
<1>4. /\ c.player = p /\ c.kind = kind /\ c.transition = t
      /\ t.name = (IF kind \in DOMAIN held THEN "Refreshed" ELSE "Applied")
      /\ t.status = status /\ (kind \in DOMAIN held => t.replaced = held[kind])
  OBVIOUS
<1>5. after = [b EXCEPT !.statuses = [b.statuses EXCEPT ![p] = With(held, kind, status)],
                        !.statusLog = Append(b.statusLog, c)]
  BY DEF Apply, Noted, Board
<1> HIDE DEF t, c, after
<1>6. StatusFits(held, c) /\ StatusAfter(held, c) = With(held, kind, status)
  BY <1>4 DEF StatusFits, StatusAfter
<1>7. With(held, kind, status) \in Held
  BY <1>1, WithIs
<1>8. after \in Board /\ SameObjects(b, after)
  BY <1>3, <1>5, <1>7, NotingIs
<1>9. StatusSide(pre, after, ended)
  <2>1. after.statuses = [b.statuses EXCEPT ![c.player] = StatusAfter(@, c)]
    BY <1>4, <1>5, <1>6 DEF Board
  <2>2. after.statusLog = Append(b.statusLog, c)
    BY <1>5 DEF Board
  <2>3. c.transition.name \notin {"Ticked", "Expired"}
    BY <1>4
  <2> QED BY <1>3, <1>4, <1>6, <2>1, <2>2, <2>3, StatusStep
<1> QED BY <1>8, <1>9 DEF after

(* A strike uses up a charge, and says so.                                 *)
LEMMA ConsumeKeeps ==
  ASSUME NEW pre \in Board, NEW b \in Board, NEW ended, NEW p \in Player,
         StatusSide(pre, b, ended)
  PROVE  /\ Consume(b, p) \in Board
         /\ StatusSide(pre, Consume(b, p), ended)
         /\ SameObjects(b, Consume(b, p))
<1> DEFINE held == b.statuses[p]
           left == held[Mark].magnitude - 1
           t == IF left = 0 THEN [name |-> "Exhausted"]
                ELSE [name |-> "ChargeConsumed", remaining |-> left]
           c == [player |-> p, kind |-> Mark, transition |-> t]
           next == IF left = 0 THEN Without(held, Mark)
                   ELSE [held EXCEPT ![Mark].magnitude = left]
           after == Consume(b, p)
<1>1. held \in Held /\ (Mark \in DOMAIN held => held[Mark] \in Status)
  BY HeldIs DEF Board
<1>2. CASE Mark \notin DOMAIN held \/ held[Mark].magnitude <= 0
  BY <1>2 DEF Consume, SameObjects
<1>3. CASE Mark \in DOMAIN held /\ ~ (held[Mark].magnitude <= 0)
  <2>1. left \in Nat /\ held[Mark] \in Status
    BY <1>1, <1>3 DEF Status
  <2>2. t \in Transition
    BY <2>1 DEF Transition
  <2>3. c \in StatusChange
    BY <2>2, KindIs DEF StatusChange, Mark
  <2>4. /\ c.player = p /\ c.kind = Mark /\ c.transition = t
        /\ t.name = (IF left = 0 THEN "Exhausted" ELSE "ChargeConsumed")
        /\ left # 0 => t.remaining = left
    OBVIOUS
  <2>5. [held EXCEPT ![Mark].magnitude = left]
          = With(held, Mark, [held[Mark] EXCEPT !.magnitude = left])
    BY <1>1, <1>3 DEF With, Held
  <2>6. after = [b EXCEPT !.statuses = [b.statuses EXCEPT ![p] = next],
                          !.statusLog = Append(b.statusLog, c)]
    BY <1>3, <2>1 DEF Consume, Noted, Board
  <2>7. StatusFits(held, c) /\ StatusAfter(held, c) = next
    <3>1. CASE left = 0
      <4> HIDE DEF t, c
      <4> QED BY <1>3, <2>1, <2>4, <3>1 DEF StatusFits, StatusAfter, Status
    <3>2. CASE left # 0
      <4> HIDE DEF t, c
      <4> QED BY <1>3, <2>1, <2>4, <2>5, <3>2 DEF StatusFits, StatusAfter, Status
    <3> QED BY <3>1, <3>2
  <2> HIDE DEF t, c, next, after, left
  <2>8. next \in Held
    BY <1>1, <2>3, <2>7, AfterIs
  <2>9. after \in Board /\ SameObjects(b, after)
    BY <2>3, <2>6, <2>8, NotingIs
  <2>10. StatusSide(pre, after, ended)
    <3>1. after.statuses = [b.statuses EXCEPT ![c.player] = StatusAfter(@, c)]
      BY <2>4, <2>6, <2>7 DEF Board
    <3>2. after.statusLog = Append(b.statusLog, c)
      BY <2>6 DEF Board
    <3>3. c.transition.name \notin {"Ticked", "Expired"}
      BY <2>4
    <3> QED BY <2>3, <2>4, <2>7, <3>1, <3>2, <3>3, StatusStep
  <2> QED BY <2>9, <2>10 DEF after
<1> QED BY <1>2, <1>3

(* A status ages or expires, and says so.                                  *)
LEMMA TickStatusKeeps ==
  ASSUME NEW pre \in Board, NEW b \in Board, NEW ended, NEW p \in Player, p \in ended,
         NEW kind \in ToSet(Timed), StatusSide(pre, b, ended)
  PROVE  /\ TickStatus(b, p, kind) \in Board
         /\ StatusSide(pre, TickStatus(b, p, kind), ended)
         /\ SameObjects(b, TickStatus(b, p, kind))
<1> DEFINE held == b.statuses[p]
           left == IF held[kind].turns > 0 THEN held[kind].turns - 1 ELSE 0
           t == IF left = 0 THEN [name |-> "Expired"] ELSE [name |-> "Ticked", turns |-> left]
           c == [player |-> p, kind |-> kind, transition |-> t]
           next == IF left = 0 THEN Without(held, kind)
                   ELSE [held EXCEPT ![kind].turns = left]
           after == TickStatus(b, p, kind)
<1>1. held \in Held /\ (kind \in DOMAIN held => held[kind] \in Status)
  BY HeldIs DEF Board
<1>2. kind \in Kind /\ kind # Mark
  BY DEF Kind, ToSet, Timed, Mark
<1>3. CASE kind \notin DOMAIN held
  BY <1>3 DEF TickStatus, SameObjects
<1>4. CASE kind \in DOMAIN held
  <2>1. left \in Nat /\ held[kind] \in Status /\ held[kind].turns \in Nat
    BY <1>1, <1>4 DEF Status
  <2>2. t \in Transition
    BY <2>1 DEF Transition
  <2>3. c \in StatusChange
    BY <1>2, <2>2 DEF StatusChange
  <2>4. /\ c.player = p /\ c.kind = kind /\ c.transition = t
        /\ t.name = (IF left = 0 THEN "Expired" ELSE "Ticked")
        /\ left # 0 => t.turns = left
    OBVIOUS
  <2>5. [held EXCEPT ![kind].turns = left]
          = With(held, kind, [held[kind] EXCEPT !.turns = left])
    BY <1>1, <1>4 DEF With, Held
  <2>6. after = [b EXCEPT !.statuses = [b.statuses EXCEPT ![p] = next],
                          !.statusLog = Append(b.statusLog, c)]
    BY <1>4, <2>1 DEF TickStatus, Noted, Board
  <2>7. StatusFits(held, c) /\ StatusAfter(held, c) = next
    <3>1. CASE left = 0
      <4>1. held[kind].turns <= 1 BY <2>1, <3>1
      <4> HIDE DEF t, c, left
      <4> QED BY <1>4, <2>4, <3>1, <4>1 DEF StatusFits, StatusAfter
    <3>2. CASE left # 0
      <4>1. left > 0 /\ held[kind].turns - 1 = left BY <2>1, <3>2
      <4> HIDE DEF t, c, left
      <4> QED BY <1>4, <2>4, <2>5, <3>2, <4>1 DEF StatusFits, StatusAfter
    <3> QED BY <3>1, <3>2
  <2> HIDE DEF t, c, next, after, left
  <2>8. next \in Held
    BY <1>1, <2>3, <2>7, AfterIs
  <2>9. after \in Board /\ SameObjects(b, after)
    BY <2>3, <2>6, <2>8, NotingIs
  <2>10. StatusSide(pre, after, ended)
    <3>1. after.statuses = [b.statuses EXCEPT ![c.player] = StatusAfter(@, c)]
      BY <2>4, <2>6, <2>7 DEF Board
    <3>2. after.statusLog = Append(b.statusLog, c)
      BY <2>6 DEF Board
    <3> QED BY <1>2, <2>3, <2>4, <2>7, <3>1, <3>2, StatusStep
  <2> QED BY <2>9, <2>10 DEF after
<1> QED BY <1>3, <1>4

-----------------------------------------------------------------------------
(* Objects, since a board pre: the log replays to what is placed, in the   *)
(* order of numbers none of which is used again.                           *)
Ordered(objects) ==
  \A i, j \in DOMAIN objects : i < j => objects[i].sequence < objects[j].sequence

(* What is placed is in the order of its numbers, and the next number is   *)
(* free.                                                                   *)
Numbered(b) == Ordered(b.objects) /\ \A o \in ToSet(b.objects) : o.sequence < b.next

(* The replay of object records begins with what pre has placed.           *)
Placed(pre) ==
  [ok |-> TRUE, shadow |-> ToSet(pre.objects), used |-> Sequences(ToSet(pre.objects))]

(* The replay of what b has recorded.                                      *)
Shadow(pre, b) == FoldLeft(ObjectReplay, Placed(pre), b.objectLog)

(* The objects' side of the invariant.                                     *)
ObjectSide(pre, b) ==
  /\ Numbered(b)
  /\ Shadow(pre, b).ok
  /\ Shadow(pre, b).shadow = ToSet(b.objects)
  /\ \A n \in Shadow(pre, b).used : n < b.next

(* Only the objects may have moved.                                        *)
SameStatuses(b, after) ==
  /\ after.statuses = b.statuses /\ after.statusLog = b.statusLog
  /\ after.health = b.health

(* The parts of a board.                                                   *)
LEMMA BoardIs ==
  ASSUME NEW b \in Board
  PROVE  /\ b = [health |-> b.health, statuses |-> b.statuses, objects |-> b.objects,
                 next |-> b.next, statusLog |-> b.statusLog, objectLog |-> b.objectLog]
         /\ b.health \in [Player -> Nat] /\ b.statuses \in [Player -> Held]
         /\ b.objects \in Seq(Object) /\ b.next \in Nat
         /\ b.statusLog \in Seq(StatusChange) /\ b.objectLog \in Seq(ObjectChange)
         /\ ToSet(b.objects) \in SUBSET Object
BY DEF Board, ToSet

(* What a longer sequence holds.                                           *)
LEMMA AppendSet ==
  ASSUME NEW S, NEW s \in Seq(S), NEW x \in S
  PROVE  /\ Append(s, x) \in Seq(S)
         /\ ToSet(Append(s, x)) = ToSet(s) \cup {x}
<1>1. /\ DOMAIN Append(s, x) = 1..(Len(s) + 1) /\ DOMAIN s = 1..Len(s) /\ Len(s) \in Nat
      /\ Append(s, x)[Len(s) + 1] = x
      /\ \A i \in 1..Len(s) : Append(s, x)[i] = s[i]
  OBVIOUS
<1>2. \A i \in 1..(Len(s) + 1) : i \in 1..Len(s) \/ i = Len(s) + 1
  BY <1>1
<1> QED BY <1>1, <1>2 DEF ToSet

(* A later number at the end keeps the order.                              *)
LEMMA AppendOrdered ==
  ASSUME NEW s \in Seq(Object), NEW o \in Object, Ordered(s),
         \A q \in ToSet(s) : q.sequence < o.sequence
  PROVE  Ordered(Append(s, o))
<1>1. /\ DOMAIN Append(s, o) = 1..(Len(s) + 1) /\ DOMAIN s = 1..Len(s) /\ Len(s) \in Nat
      /\ Append(s, o)[Len(s) + 1] = o
      /\ \A i \in 1..Len(s) : Append(s, o)[i] = s[i]
  OBVIOUS
<1> SUFFICES ASSUME NEW i \in 1..(Len(s) + 1), NEW j \in 1..(Len(s) + 1), i < j
             PROVE  Append(s, o)[i].sequence < Append(s, o)[j].sequence
  BY <1>1 DEF Ordered
<1>2. i \in 1..Len(s) /\ Append(s, o)[i] = s[i] /\ s[i] \in ToSet(s)
  BY <1>1 DEF ToSet
<1>3. CASE j = Len(s) + 1
  BY <1>1, <1>2, <1>3
<1>4. CASE j # Len(s) + 1
  <2>1. j \in 1..Len(s) BY <1>1, <1>4
  <2> QED BY <1>1, <1>2, <2>1 DEF Ordered
<1> QED BY <1>3, <1>4

(* The replay begins where replays may be.                                 *)
LEMMA PlacedIs ==
  ASSUME NEW pre \in Board
  PROVE  Placed(pre) \in ObjectShadow
<1>1. Sequences(ToSet(pre.objects)) \subseteq Nat
  BY BoardIs DEF Sequences, Object
<1> QED BY <1>1, BoardIs DEF Placed, ObjectShadow

(* What one more record does to the replay of objects.                     *)
LEMMA ShadowGrows ==
  ASSUME NEW pre \in Board, NEW b \in Board, NEW after, NEW c \in ObjectChange,
         after.objectLog = Append(b.objectLog, c)
  PROVE  /\ Shadow(pre, b) \in ObjectShadow
         /\ Shadow(pre, after) = ObjectReplay(Shadow(pre, b), c)
<1> DEFINE log == b.objectLog
           start == Placed(pre)
<1>1. log \in Seq(ObjectChange) /\ start \in ObjectShadow
  BY BoardIs, PlacedIs
<1> HIDE DEF log, start
<1>2. /\ FoldLeft(ObjectReplay, start, log) \in ObjectShadow
      /\ FoldLeft(ObjectReplay, start, Append(log, c)) =
           ObjectReplay(FoldLeft(ObjectReplay, start, log), c)
  BY <1>1, ObjectLogGrows
<1> QED BY <1>2 DEF Shadow, log, start

(* Why an object goes (types.rs, PersistentObjectRemovalCause).            *)
Cause == {"Replaced", "CapacityEvicted", "Detonated", "OwnerEliminated"}

(* Boards that differ from b in their objects and the record of them only. *)
Sifted(b) == {acc \in Board : SameStatuses(b, acc) /\ acc.next = b.next}

(* b with other objects and another record of them.                        *)
Rewrite(b, objects, log) ==
  [health |-> b.health, statuses |-> b.statuses, objects |-> objects,
   next |-> b.next, statusLog |-> b.statusLog, objectLog |-> log]

(* A change of either is such a board.                                     *)
LEMMA RewriteOne ==
  ASSUME NEW b \in Board, NEW objects, NEW log
  PROVE  /\ [b EXCEPT !.objects = objects] = Rewrite(b, objects, b.objectLog)
         /\ [b EXCEPT !.objectLog = log] = Rewrite(b, b.objects, log)
<1>1. \E h, s, o, n, l, m : b = [health |-> h, statuses |-> s, objects |-> o, next |-> n,
                               statusLog |-> l, objectLog |-> m]
  BY BoardIs
<1>2. PICK h, s, o, n, l, m : b = [health |-> h, statuses |-> s, objects |-> o, next |-> n,
                               statusLog |-> l, objectLog |-> m]
  BY <1>1
<1> QED BY <1>2 DEF Rewrite

(* And such a board differs in nothing else.                               *)
LEMMA RewriteIs ==
  ASSUME NEW b \in Board, NEW acc \in Sifted(b), NEW objects \in Seq(Object),
         NEW log \in Seq(ObjectChange)
  PROVE  /\ Rewrite(acc, objects, log) \in Sifted(b)
         /\ Rewrite(acc, objects, log).objects = objects
         /\ Rewrite(acc, objects, log).objectLog = log
<1> DEFINE after == Rewrite(acc, objects, log)
<1>1. acc \in Board /\ SameStatuses(b, acc) /\ acc.next = b.next
  BY DEF Sifted
<1>2. /\ acc.health \in [Player -> Nat] /\ acc.statuses \in [Player -> Held]
      /\ acc.next \in Nat /\ acc.statusLog \in Seq(StatusChange)
  BY <1>1, BoardIs
<1>3. after = [health |-> acc.health, statuses |-> acc.statuses, objects |-> objects,
               next |-> acc.next, statusLog |-> acc.statusLog, objectLog |-> log]
  BY DEF Rewrite
<1>4. after \in Board
  BY <1>2, <1>3 DEF Board
<1> QED BY <1>1, <1>3, <1>4 DEF Sifted, SameStatuses

(* One object kept or dropped, and if dropped, recorded.                   *)
LEMMA SiftIs ==
  ASSUME NEW b \in Board, NEW acc \in Sifted(b), NEW o \in Object, NEW gone,
         NEW cause \in Cause
  PROVE  /\ Sift(acc, o, gone, cause) \in Sifted(b)
         /\ [object |-> o, transition |-> cause] \in ObjectChange
         /\ o \in gone =>
              /\ Sift(acc, o, gone, cause).objects = acc.objects
              /\ Sift(acc, o, gone, cause).objectLog =
                   Append(acc.objectLog, [object |-> o, transition |-> cause])
         /\ o \notin gone =>
              /\ Sift(acc, o, gone, cause).objects = Append(acc.objects, o)
              /\ Sift(acc, o, gone, cause).objectLog = acc.objectLog
<1> DEFINE after == Sift(acc, o, gone, cause)
           c == [object |-> o, transition |-> cause]
<1>1. acc \in Board /\ acc.objects \in Seq(Object) /\ acc.objectLog \in Seq(ObjectChange)
  BY BoardIs DEF Sifted
<1>2. c \in ObjectChange
  BY DEF ObjectChange, Cause
<1>3. Append(acc.objects, o) \in Seq(Object) /\ Append(acc.objectLog, c) \in Seq(ObjectChange)
  BY <1>1, <1>2, AppendSet
<1>4. CASE o \in gone
  <2>1. after = Rewrite(acc, acc.objects, Append(acc.objectLog, c))
    BY <1>4, <1>1, RewriteOne DEF Sift, Removed
  <2> DEFINE log == Append(acc.objectLog, c)
             kept == acc.objects
  <2>3. kept \in Seq(Object) /\ log \in Seq(ObjectChange) /\ after = Rewrite(acc, kept, log)
    BY <1>1, <1>3, <2>1
  <2> HIDE DEF after, log, kept, c
  <2>4. after \in Sifted(b) /\ after.objects = kept /\ after.objectLog = log
    BY <2>3, RewriteIs
  <2>2. /\ after \in Sifted(b) /\ after.objects = acc.objects
        /\ after.objectLog = Append(acc.objectLog, c)
    BY <2>4 DEF log, kept
  <2> QED BY <1>2, <1>4, <2>2 DEF after, c
<1>5. CASE o \notin gone
  <2>1. after = Rewrite(acc, Append(acc.objects, o), acc.objectLog)
    BY <1>5, <1>1, RewriteOne DEF Sift
  <2> DEFINE log == acc.objectLog
             kept == Append(acc.objects, o)
  <2>3. kept \in Seq(Object) /\ log \in Seq(ObjectChange) /\ after = Rewrite(acc, kept, log)
    BY <1>1, <1>3, <2>1
  <2> HIDE DEF after, log, kept, c
  <2>4. after \in Sifted(b) /\ after.objects = kept /\ after.objectLog = log
    BY <2>3, RewriteIs
  <2>2. /\ after \in Sifted(b) /\ after.objects = Append(acc.objects, o)
        /\ after.objectLog = acc.objectLog
    BY <2>4 DEF log, kept
  <2> QED BY <1>2, <1>5, <2>2 DEF after, c
<1> QED BY <1>4, <1>5

(* A discard, object by object.                                            *)
DiscardWalk(g, b, gone, cause) ==
  /\ g[0] = [b EXCEPT !.objects = <<>>]
  /\ \A n \in 1..Len(b.objects) : g[n] = Sift(g[n - 1], b.objects[n], gone, cause)
  /\ g[Len(b.objects)] = Discard(b, gone, cause)

(* Every discard is such a walk (FoldPath).                                *)
LEMMA DiscardWalks ==
  ASSUME NEW b \in Board, NEW gone, NEW cause \in Cause
  PROVE  \E g \in [0..Len(b.objects) -> Sifted(b)] : DiscardWalk(g, b, gone, cause)
<1> DEFINE N == Len(b.objects)
           S == Sifted(b)
           base == [b EXCEPT !.objects = <<>>]
           step == [n \in 1..N |-> [acc \in S |-> Sift(acc, b.objects[n], gone, cause)]]
           iter == CHOOSE iter : iter = [s \in SUBSET DOMAIN b.objects |->
                     IF s = {} THEN [b EXCEPT !.objects = <<>>]
                     ELSE Sift(iter[s \ {Max(s)}], b.objects[Max(s)], gone, cause)]
<1>1. N \in Nat /\ DOMAIN b.objects = 1..N
  BY BoardIs
<1>2. base \in S /\ \A acc \in S : \A n \in 1..N : Sift(acc, b.objects[n], gone, cause) \in S
  <2>1. \A n \in 1..N : b.objects[n] \in Object
    BY BoardIs
  <2>2. b \in Sifted(b) /\ <<>> \in Seq(Object) /\ b.objectLog \in Seq(ObjectChange)
    BY BoardIs DEF Sifted, SameStatuses
  <2>3. b = [health |-> b.health, statuses |-> b.statuses, objects |-> b.objects,
             next |-> b.next, statusLog |-> b.statusLog, objectLog |-> b.objectLog]
    BY BoardIs
  <2>5. base = Rewrite(b, <<>>, b.objectLog)
    BY <2>3 DEF Rewrite
  <2>4. base \in S
    <3> HIDE DEF base
    <3> QED BY <2>2, <2>5, RewriteIs
  <2> QED BY <2>1, <2>4, SiftIs
<1>3. Discard(b, gone, cause) = iter[1..N]
  BY <1>1 DEF Discard, FoldLeft, MapThenFoldSet
<1>4. /\ step \in [1..N -> [S -> S]]
      /\ \A n \in 1..N, acc \in S : step[n][acc] = Sift(acc, b.objects[n], gone, cause)
  BY <1>2
<1> HIDE DEF step, N, S, base
<1>5. PICK f \in [SUBSET (1..N) -> S] : \A s \in SUBSET (1..N) :
         f[s] = IF s = {} THEN base ELSE step[Max(s)][f[s \ {Max(s)}]]
  <2>1. \E f \in [SUBSET (1..N) -> S] : Folds(f, N, base, step)
    BY <1>2, <1>1, <1>4, FoldExists
  <2> QED BY <2>1 DEF Folds
<1>6. \A s \in SUBSET (1..N) : s # {} => Max(s) \in 1..N
  BY <1>1, MaxOfSome
<1>7. f = [s \in SUBSET (1..N) |-> IF s = {} THEN base
                     ELSE Sift(f[s \ {Max(s)}], b.objects[Max(s)], gone, cause)]
  BY <1>4, <1>5, <1>6
<1>8. iter = [s \in SUBSET (1..N) |-> IF s = {} THEN base
                     ELSE Sift(iter[s \ {Max(s)}], b.objects[Max(s)], gone, cause)]
  BY <1>1, <1>7 DEF base
<1> HIDE DEF iter
<1>9. Unfolds(iter, N, base, step, S)
  BY <1>4, <1>6, <1>8 DEF Unfolds
<1>10. base \in S /\ N \in Nat /\ step \in [1..N -> [S -> S]]
  BY <1>2, <1>1, <1>4
<1>11. PICK g \in [0..N -> S] : Walks(g, N, base, step) /\ g[N] = iter[1..N]
  <2>1. Reaches(iter, N, base, step, S)
    BY <1>9, <1>10, FoldPath
  <2> QED BY <2>1 DEF Reaches
<1>12. \A n \in 1..N : g[n] = Sift(g[n - 1], b.objects[n], gone, cause)
  BY <1>1, <1>4, <1>11 DEF Walks
<1> QED BY <1>3, <1>11, <1>12 DEF Walks, DiscardWalk, N, S, base

(* What a discard leaves: the objects not in the set, and a log that still *)
(* replays.                                                                *)
LEMMA DiscardIs ==
  ASSUME NEW b \in Board, NEW gone, NEW cause \in Cause, Numbered(b)
  PROVE  /\ Discard(b, gone, cause) \in Sifted(b)
         /\ ToSet(Discard(b, gone, cause).objects) = ToSet(b.objects) \ gone
         /\ Numbered(Discard(b, gone, cause))
         /\ \A pre \in Board : ObjectSide(pre, b) => ObjectSide(pre, Discard(b, gone, cause))
<1> DEFINE N == Len(b.objects)
           first(n) == {b.objects[i] : i \in 1..n}
<1>1. /\ b.objects \in Seq(Object) /\ N \in Nat /\ DOMAIN b.objects = 1..N
      /\ \A n \in 1..N : b.objects[n] \in Object
      /\ first(0) = {} /\ first(N) = ToSet(b.objects)
  BY BoardIs DEF ToSet
<1>2. ASSUME NEW n \in 0..(N - 1)
      PROVE  /\ n + 1 \in 1..N /\ (n + 1) - 1 = n
             /\ first(n + 1) = first(n) \cup {b.objects[n + 1]}
             /\ \A q \in first(n) : q.sequence < b.objects[n + 1].sequence
             /\ b.objects[n + 1] \notin first(n)
  <2>1. n + 1 \in 1..N /\ (n + 1) - 1 = n /\ 1..(n + 1) = 1..n \cup {n + 1} /\ 1..n \subseteq 1..N
    BY <1>1
  <2>2. \A i \in 1..n : b.objects[i].sequence < b.objects[n + 1].sequence
    <3>1. \A i, j \in 1..N : i < j => b.objects[i].sequence < b.objects[j].sequence
      BY <1>1 DEF Numbered, Ordered
    <3>2. \A i \in 1..n : i \in 1..N /\ i < n + 1
      BY <2>1
    <3> QED BY <2>1, <3>1, <3>2
  <2>3. \A i \in 1..n : b.objects[i].sequence \in Nat
    BY <1>1, <2>1 DEF Object
  <2> QED BY <2>1, <2>2, <2>3
<1>3. PICK g \in [0..N -> Sifted(b)] : DiscardWalk(g, b, gone, cause)
  BY DiscardWalks
<1>4. /\ g[0].objects = <<>> /\ g[0].objectLog = b.objectLog
      /\ g[N] = Discard(b, gone, cause)
  <2>1. b = [health |-> b.health, statuses |-> b.statuses, objects |-> b.objects,
             next |-> b.next, statusLog |-> b.statusLog, objectLog |-> b.objectLog]
    BY BoardIs
  <2> QED BY <1>3, <2>1 DEF DiscardWalk
<1>5. ASSUME NEW n \in 0..(N - 1)
      PROVE  /\ g[n] \in Sifted(b) /\ g[n] \in Board /\ b.objects[n + 1] \in Object
             /\ [object |-> b.objects[n + 1], transition |-> cause] \in ObjectChange
             /\ b.objects[n + 1] \in gone =>
                  /\ g[n + 1].objects = g[n].objects
                  /\ g[n + 1].objectLog =
                       Append(g[n].objectLog,
                              [object |-> b.objects[n + 1], transition |-> cause])
             /\ b.objects[n + 1] \notin gone =>
                  /\ g[n + 1].objects = Append(g[n].objects, b.objects[n + 1])
                  /\ g[n + 1].objectLog = g[n].objectLog
  <2> DEFINE o == b.objects[n + 1]
             acc == g[n]
  <2>1. acc \in Sifted(b) /\ acc \in Board /\ o \in Object
    BY <1>1, <1>2, <1>3 DEF Sifted
  <2>2. g[n + 1] = Sift(acc, o, gone, cause)
    BY <1>1, <1>2, <1>3 DEF DiscardWalk
  <2> HIDE DEF o, acc
  <2>3. /\ [object |-> o, transition |-> cause] \in ObjectChange
        /\ o \in gone =>
              /\ g[n + 1].objects = acc.objects
              /\ g[n + 1].objectLog =
                   Append(acc.objectLog, [object |-> o, transition |-> cause])
        /\ o \notin gone =>
              /\ g[n + 1].objects = Append(acc.objects, o)
              /\ g[n + 1].objectLog = acc.objectLog
    BY <2>1, <2>2, SiftIs
  <2> QED BY <2>1, <2>3 DEF o, acc
<1> DEFINE Kept(n) == /\ ToSet(g[n].objects) = first(n) \ gone
                      /\ Ordered(g[n].objects)
<1>6. Kept(N)
  <2> DEFINE T == {n \in 0..N : Kept(n)}
  <2>1. 0 \in T
    BY <1>1, <1>4 DEF ToSet, Ordered
  <2>2. ASSUME NEW n \in 0..(N - 1), n \in T PROVE n + 1 \in T
    <3> DEFINE o == b.objects[n + 1]
               s == g[n].objects
    <3>1. o \in Object /\ s \in Seq(Object) /\ ToSet(s) = first(n) \ gone /\ Ordered(s)
      BY <1>5, <2>2, BoardIs
    <3>2. first(n + 1) = first(n) \cup {o} /\ \A q \in ToSet(s) : q.sequence < o.sequence
      BY <1>2, <3>1
    <3>3. CASE o \in gone
      <4>1. g[n + 1].objects = s BY <1>5, <3>3
      <4> HIDE DEF first, o, s
      <4>2. Kept(n + 1) BY <3>1, <3>2, <3>3, <4>1
      <4> QED BY <1>1, <4>2
    <3>4. CASE o \notin gone
      <4>1. g[n + 1].objects = Append(s, o) BY <1>5, <3>4
      <4> HIDE DEF first, o, s
      <4>2. ToSet(Append(s, o)) = ToSet(s) \cup {o} BY <3>1, AppendSet
      <4>3. Ordered(Append(s, o)) BY <3>1, <3>2, AppendOrdered
      <4>4. Kept(n + 1) BY <3>1, <3>2, <3>4, <4>1, <4>2, <4>3
      <4> QED BY <1>1, <4>4
    <3> QED BY <3>3, <3>4
  <2>3. 0..N \subseteq T
    <3>1. N \in Nat BY <1>1
    <3>2. \A n \in 0..(N - 1) : n \in T => n + 1 \in T BY <2>2
    <3> HIDE DEF T, N, first
    <3> QED BY <2>1, <3>1, <3>2, UpTo
  <2>4. N \in T
    <3>1. N \in 0..N BY <1>1
    <3> HIDE DEF T, N
    <3> QED BY <2>3, <3>1
  <2> QED BY <2>4
<1>7. /\ Discard(b, gone, cause) \in Sifted(b)
      /\ ToSet(Discard(b, gone, cause).objects) = ToSet(b.objects) \ gone
      /\ Numbered(Discard(b, gone, cause))
  <2>1. g[N] \in Sifted(b) BY <1>1
  <2>2. g[N].next = b.next BY <2>1 DEF Sifted
  <2> HIDE DEF first
  <2>3. ToSet(g[N].objects) = ToSet(b.objects) \ gone /\ Ordered(g[N].objects)
    BY <1>1, <1>6
  <2> QED BY <1>4, <2>1, <2>2, <2>3 DEF Numbered
<1>8. ASSUME NEW pre \in Board, ObjectSide(pre, b)
      PROVE  ObjectSide(pre, Discard(b, gone, cause))
  <2> DEFINE Replayed(n) == /\ Shadow(pre, g[n]).ok
                            /\ Shadow(pre, g[n]).shadow = ToSet(b.objects) \ (first(n) \cap gone)
                            /\ \A m \in Shadow(pre, g[n]).used : m < b.next
             T == {n \in 0..N : Replayed(n)}
  <2>1. 0 \in T
    <3>1. Shadow(pre, g[0]) = Shadow(pre, b) BY <1>4 DEF Shadow
    <3> QED BY <1>1, <1>8, <3>1 DEF ObjectSide
  <2>2. ASSUME NEW n \in 0..(N - 1), n \in T PROVE n + 1 \in T
    <3> DEFINE o == b.objects[n + 1]
               c == [object |-> o, transition |-> cause]
    <3>1. first(n + 1) = first(n) \cup {o} /\ o \in ToSet(b.objects) /\ o \notin first(n)
      BY <1>1, <1>2 DEF ToSet
    <3>2. CASE o \in gone
      <4>1. c \in ObjectChange /\ g[n + 1].objectLog = Append(g[n].objectLog, c)
        BY <1>5, <3>2
      <4>2. Shadow(pre, g[n]) \in ObjectShadow
            /\ Shadow(pre, g[n + 1]) = ObjectReplay(Shadow(pre, g[n]), c)
        <5> DEFINE acc == g[n]
                   after == g[n + 1]
        <5>1. acc \in Board BY <1>5
        <5> HIDE DEF c, acc, after
        <5>2. Shadow(pre, acc) \in ObjectShadow
              /\ Shadow(pre, after) = ObjectReplay(Shadow(pre, acc), c)
          BY <4>1, <5>1, ShadowGrows DEF acc, after
        <5> QED BY <5>2 DEF acc, after
      <4>3. c.object = o /\ c.transition # "Spawned"
        BY DEF Cause
      <4> HIDE DEF first, o, c
      <4>4. o \in Shadow(pre, g[n]).shadow
        BY <2>2, <3>1
      <4>5. /\ Shadow(pre, g[n + 1]).ok = Shadow(pre, g[n]).ok
            /\ Shadow(pre, g[n + 1]).shadow = Shadow(pre, g[n]).shadow \ {o}
            /\ Shadow(pre, g[n + 1]).used = Shadow(pre, g[n]).used
        BY <4>2, <4>3, <4>4 DEF ObjectReplay, ObjectShadow
      <4>6. Replayed(n + 1)
        BY <2>2, <3>1, <3>2, <4>5
      <4> QED BY <1>1, <4>6
    <3>3. CASE o \notin gone
      <4>1. g[n + 1].objectLog = g[n].objectLog
        BY <1>5, <3>3
      <4>2. Shadow(pre, g[n + 1]) = Shadow(pre, g[n])
        BY <4>1 DEF Shadow
      <4> HIDE DEF first, o
      <4>3. Replayed(n + 1)
        BY <2>2, <3>1, <3>3, <4>2
      <4> QED BY <1>1, <4>3
    <3> QED BY <3>2, <3>3
  <2>3. 0..N \subseteq T
    <3>1. N \in Nat BY <1>1
    <3>2. \A n \in 0..(N - 1) : n \in T => n + 1 \in T BY <2>2
    <3> HIDE DEF T, N, first
    <3> QED BY <2>1, <3>1, <3>2, UpTo
  <2>4. Replayed(N)
    BY <1>1, <2>3
  <2> HIDE DEF first
  <2>5. Discard(b, gone, cause).next = b.next
    BY <1>7 DEF Sifted
  <2>6. ToSet(b.objects) \ (first(N) \cap gone) = ToSet(b.objects) \ gone
    BY <1>1
  <2> QED BY <1>4, <1>7, <2>4, <2>5, <2>6 DEF ObjectSide
<1> QED BY <1>7, <1>8

-----------------------------------------------------------------------------
(* What every step of a command keeps, from the board before the command.  *)

(* An owner's turrets.                                                     *)
Turrets(b, p) == {o \in ToSet(b.objects) : o.owner = p /\ o.kind = "Turret"}

(* An owner's knives.                                                      *)
KnivesOf(b, p) == {o \in ToSet(b.objects) : o.owner = p /\ o.kind = "EmbeddedKnife"}

(* Nobody has more than one turret, or more knives than the cap.           *)
Capped(b) ==
  \A p \in Player : Cardinality(Turrets(b, p)) <= 1 /\ Cardinality(KnivesOf(b, p)) <= KnifeCap

(* The invariant within a command: boards the effects may make of pre.     *)
(* ended holds the player whose turn has ended, if it has.                 *)
Kept(pre, ended) ==
  {b \in Board : StatusSide(pre, b, ended) /\ ObjectSide(pre, b) /\ Capped(b)}

(* What is placed is finite.                                               *)
LEMMA ObjectsFinite ==
  ASSUME NEW s \in Seq(Object)
  PROVE  IsFiniteSet(ToSet(s))
<1> DEFINE f == [i \in 1..Len(s) |-> s[i]]
<1>1. Len(s) \in Nat /\ DOMAIN s = 1..Len(s)
  OBVIOUS
<1>2. IsFiniteSet(1..Len(s))
  BY <1>1, FS_Interval
<1>3. f \in Surjection(1..Len(s), ToSet(s))
  BY <1>1 DEF Surjection, ToSet
<1> HIDE DEF f
<1> QED BY <1>2, <1>3, FS_Surjection

(* So is what one owner has placed.                                        *)
LEMMA OwnedFinite ==
  ASSUME NEW b \in Board, NEW p
  PROVE  /\ IsFiniteSet(ToSet(b.objects)) /\ IsFiniteSet(Turrets(b, p))
         /\ IsFiniteSet(KnivesOf(b, p))
         /\ Cardinality(Turrets(b, p)) \in Nat /\ Cardinality(KnivesOf(b, p)) \in Nat
<1>1. b.objects \in Seq(Object)
  BY BoardIs
<1>2. IsFiniteSet(ToSet(b.objects))
  BY <1>1, ObjectsFinite
<1>3. Turrets(b, p) \subseteq ToSet(b.objects) /\ KnivesOf(b, p) \subseteq ToSet(b.objects)
  BY DEF Turrets, KnivesOf
<1>4. IsFiniteSet(Turrets(b, p)) /\ IsFiniteSet(KnivesOf(b, p))
  BY <1>2, <1>3, FS_Subset
<1> QED BY <1>2, <1>4, FS_CardinalityType

(* Fewer objects stay within the caps.                                     *)
LEMMA FewerCapped ==
  ASSUME NEW b \in Board, NEW after \in Board, Capped(b),
         ToSet(after.objects) \subseteq ToSet(b.objects)
  PROVE  Capped(after)
<1> SUFFICES ASSUME NEW p \in Player
             PROVE  /\ Cardinality(Turrets(after, p)) <= 1
                    /\ Cardinality(KnivesOf(after, p)) <= KnifeCap
  BY DEF Capped
<1>1. Turrets(after, p) \subseteq Turrets(b, p) /\ KnivesOf(after, p) \subseteq KnivesOf(b, p)
  BY DEF Turrets, KnivesOf
<1>2. /\ IsFiniteSet(Turrets(b, p)) /\ IsFiniteSet(KnivesOf(b, p))
      /\ Cardinality(Turrets(b, p)) \in Nat /\ Cardinality(KnivesOf(b, p)) \in Nat
      /\ Cardinality(Turrets(after, p)) \in Nat /\ Cardinality(KnivesOf(after, p)) \in Nat
  BY OwnedFinite
<1>3. /\ Cardinality(Turrets(after, p)) <= Cardinality(Turrets(b, p))
      /\ Cardinality(KnivesOf(after, p)) <= Cardinality(KnivesOf(b, p))
  BY <1>1, <1>2, FS_Subset
<1>4. Cardinality(Turrets(b, p)) <= 1 /\ Cardinality(KnivesOf(b, p)) <= KnifeCap
  BY DEF Capped
<1>5. KnifeCap \in Nat
  BY RadiusAssumption
<1> QED BY <1>2, <1>3, <1>4, <1>5

(* The statuses' side, the objects' side and the caps each look at their   *)
(* own part of the board.                                                  *)
LEMMA SidesApart ==
  ASSUME NEW pre, NEW b, NEW after, NEW ended
  PROVE  /\ after.statuses = b.statuses /\ after.statusLog = b.statusLog =>
              (StatusSide(pre, b, ended) => StatusSide(pre, after, ended))
         /\ /\ after.objects = b.objects /\ after.next = b.next
            /\ after.objectLog = b.objectLog
            => /\ ObjectSide(pre, b) => ObjectSide(pre, after)
               /\ Capped(b) => Capped(after)
<1>1. ASSUME after.statuses = b.statuses, after.statusLog = b.statusLog
      PROVE  StatusSide(pre, b, ended) => StatusSide(pre, after, ended)
  BY <1>1 DEF StatusSide, StatusesFollow, Spoken, Told
<1>2. ASSUME after.objects = b.objects, after.next = b.next, after.objectLog = b.objectLog
      PROVE  ObjectSide(pre, b) => ObjectSide(pre, after)
  BY <1>2 DEF ObjectSide, Numbered, Shadow
<1>3. ASSUME after.objects = b.objects
      PROVE  Capped(b) => Capped(after)
  BY <1>3 DEF Capped, Turrets, KnivesOf
<1> QED BY <1>1, <1>2, <1>3

(* A change of statuses that keeps their side keeps the rest.              *)
LEMMA StatusesMove ==
  ASSUME NEW pre, NEW ended, NEW b \in Kept(pre, ended), NEW after \in Board,
         SameObjects(b, after), StatusSide(pre, after, ended)
  PROVE  after \in Kept(pre, ended)
BY SidesApart DEF Kept, SameObjects

(* A change of health keeps everything.                                    *)
LEMMA HealthMoves ==
  ASSUME NEW pre, NEW ended, NEW b \in Kept(pre, ended), NEW health \in [Player -> Nat]
  PROVE  /\ [b EXCEPT !.health = health] \in Kept(pre, ended)
         /\ [b EXCEPT !.health = health].health = health
         /\ [b EXCEPT !.health = health].objects = b.objects
         /\ [b EXCEPT !.health = health].next = b.next
<1> DEFINE after == [b EXCEPT !.health = health]
<1>1. b \in Board
  BY DEF Kept
<1>2. \E h, s, o, n, l, m : b = [health |-> h, statuses |-> s, objects |-> o, next |-> n,
                               statusLog |-> l, objectLog |-> m]
  BY <1>1, BoardIs
<1>3. PICK h, s, o, n, l, m : b = [health |-> h, statuses |-> s, objects |-> o, next |-> n,
                               statusLog |-> l, objectLog |-> m]
  BY <1>2
<1>4. after = [health |-> health, statuses |-> b.statuses, objects |-> b.objects,
               next |-> b.next, statusLog |-> b.statusLog, objectLog |-> b.objectLog]
  BY <1>3
<1>5. after \in Board
  BY <1>1, <1>4, BoardIs DEF Board
<1>6. /\ after.statuses = b.statuses /\ after.statusLog = b.statusLog
      /\ after.objects = b.objects /\ after.next = b.next
      /\ after.objectLog = b.objectLog /\ after.health = health
  BY <1>4
<1> HIDE DEF after
<1>7. after \in Kept(pre, ended)
  BY <1>5, <1>6, SidesApart DEF Kept
<1> QED BY <1>6, <1>7 DEF after

(* A discard keeps everything (DiscardIs, FewerCapped).                    *)
LEMMA DiscardKeeps ==
  ASSUME NEW pre \in Board, NEW ended, NEW b \in Kept(pre, ended), NEW gone, NEW cause \in Cause
  PROVE  /\ Discard(b, gone, cause) \in Kept(pre, ended)
         /\ ToSet(Discard(b, gone, cause).objects) = ToSet(b.objects) \ gone
         /\ Discard(b, gone, cause).health = b.health
         /\ Discard(b, gone, cause).next = b.next
<1> DEFINE after == Discard(b, gone, cause)
<1>1. /\ b \in Board /\ StatusSide(pre, b, ended) /\ ObjectSide(pre, b) /\ Capped(b)
      /\ Numbered(b)
  BY DEF Kept, ObjectSide
<1>2. /\ after \in Sifted(b) /\ ToSet(after.objects) = ToSet(b.objects) \ gone
      /\ ObjectSide(pre, after)
  BY <1>1, DiscardIs
<1> HIDE DEF after
<1>3. /\ after \in Board /\ after.health = b.health /\ after.next = b.next
      /\ after.statuses = b.statuses /\ after.statusLog = b.statusLog
  BY <1>2 DEF Sifted, SameStatuses
<1>4. Capped(after)
  BY <1>1, <1>2, <1>3, FewerCapped
<1>5. StatusSide(pre, after, ended)
  BY <1>1, <1>3, SidesApart
<1> QED BY <1>2, <1>3, <1>4, <1>5 DEF Kept, after

(* The object the next number would go to.                                 *)
Fresh(b, owner, kind, place, turns) ==
  [sequence |-> b.next, owner |-> owner, kind |-> kind, place |-> place, turns |-> turns]

(* A spawn places one new object, last in order, and says so.              *)
LEMMA SpawnIs ==
  ASSUME NEW b \in Board, Numbered(b), NEW owner \in Player,
         NEW kind \in {"Turret", "EmbeddedKnife"}, NEW place \in Int, NEW turns \in Nat
  PROVE  /\ Fresh(b, owner, kind, place, turns) \in Object
         /\ Fresh(b, owner, kind, place, turns) \notin ToSet(b.objects)
         /\ Spawn(b, owner, kind, place, turns) \in Board
         /\ SameStatuses(b, Spawn(b, owner, kind, place, turns))
         /\ Spawn(b, owner, kind, place, turns).next = b.next + 1
         /\ ToSet(Spawn(b, owner, kind, place, turns).objects) =
              ToSet(b.objects) \cup {Fresh(b, owner, kind, place, turns)}
         /\ Numbered(Spawn(b, owner, kind, place, turns))
         /\ \A pre \in Board :
              ObjectSide(pre, b) => ObjectSide(pre, Spawn(b, owner, kind, place, turns))
<1> DEFINE o == Fresh(b, owner, kind, place, turns)
           c == [object |-> o, transition |-> "Spawned"]
           after == Spawn(b, owner, kind, place, turns)
<1>1. /\ b.objects \in Seq(Object) /\ b.next \in Nat /\ b.objectLog \in Seq(ObjectChange)
      /\ b.health \in [Player -> Nat] /\ b.statuses \in [Player -> Held]
      /\ b.statusLog \in Seq(StatusChange) /\ ToSet(b.objects) \in SUBSET Object
  BY BoardIs
<1>2. o \in Object /\ o.sequence = b.next
  BY <1>1 DEF Object, Fresh
<1>3. c \in ObjectChange /\ c.object = o /\ c.transition = "Spawned"
  BY <1>2 DEF ObjectChange
<1>4. \E h, s, x, n, l, m : b = [health |-> h, statuses |-> s, objects |-> x, next |-> n,
                                 statusLog |-> l, objectLog |-> m]
  BY BoardIs
<1>5. PICK h, s, x, n, l, m : b = [health |-> h, statuses |-> s, objects |-> x, next |-> n,
                                   statusLog |-> l, objectLog |-> m]
  BY <1>4
<1>6. after = [health |-> b.health, statuses |-> b.statuses, objects |-> Append(b.objects, o),
               next |-> b.next + 1, statusLog |-> b.statusLog,
               objectLog |-> Append(b.objectLog, c)]
  <2>1. after = [b EXCEPT !.objects = Append(@, o), !.next = @ + 1,
                          !.objectLog = Append(@, c)]
    BY DEF Spawn, Fresh, Spawned
  <2> HIDE DEF o, c, after
  <2>2. b.objects = x /\ b.next = n /\ b.objectLog = m /\ b.health = h /\ b.statuses = s
        /\ b.statusLog = l
    BY <1>5
  <2>3. after = [health |-> h, statuses |-> s, objects |-> Append(x, o), next |-> n + 1,
                 statusLog |-> l, objectLog |-> Append(m, c)]
    BY <1>5, <2>1
  <2> QED BY <2>2, <2>3
<1> HIDE DEF o, c, after
<1>7. /\ after.objects = Append(b.objects, o) /\ after.next = b.next + 1
      /\ after.objectLog = Append(b.objectLog, c) /\ SameStatuses(b, after)
  BY <1>6 DEF SameStatuses
<1>8. /\ Append(b.objects, o) \in Seq(Object)
      /\ ToSet(Append(b.objects, o)) = ToSet(b.objects) \cup {o}
      /\ Append(b.objectLog, c) \in Seq(ObjectChange)
  BY <1>1, <1>2, <1>3, AppendSet
<1>9. after \in Board
  BY <1>1, <1>6, <1>8 DEF Board
<1>10. \A q \in ToSet(b.objects) : q.sequence < o.sequence
  BY <1>2 DEF Numbered
<1>11. o \notin ToSet(b.objects)
  BY <1>1, <1>2, <1>10
<1>12. Ordered(Append(b.objects, o))
  BY <1>1, <1>2, <1>10, AppendOrdered DEF Numbered
<1>13. \A q \in ToSet(after.objects) : q.sequence < after.next
  <2>1. \A q \in ToSet(b.objects) : q.sequence \in Nat
    BY <1>1 DEF Object
  <2> QED BY <1>1, <1>2, <1>7, <1>8, <1>10, <2>1
<1>14. Numbered(after)
  BY <1>7, <1>12, <1>13 DEF Numbered
<1>15. ASSUME NEW pre \in Board, ObjectSide(pre, b) PROVE ObjectSide(pre, after)
  <2>1. /\ Shadow(pre, b) \in ObjectShadow
        /\ Shadow(pre, after) = ObjectReplay(Shadow(pre, b), c)
    BY <1>3, <1>7, ShadowGrows
  <2>2. /\ Shadow(pre, b).ok /\ Shadow(pre, b).shadow = ToSet(b.objects)
        /\ \A n_1 \in Shadow(pre, b).used : n_1 < b.next
        /\ Shadow(pre, b).used \subseteq Nat
    BY <1>15, <2>1 DEF ObjectSide, ObjectShadow
  <2>3. o.sequence \notin Shadow(pre, b).used
    BY <1>1, <1>2, <2>2
  <2>4. /\ Shadow(pre, after).ok
        /\ Shadow(pre, after).shadow = ToSet(b.objects) \cup {o}
        /\ Shadow(pre, after).used = Shadow(pre, b).used \cup {o.sequence}
    <3> DEFINE acc == Shadow(pre, b)
    <3>1. Shadow(pre, after) = [ok     |-> acc.ok /\ o.sequence \notin acc.used,
                                shadow |-> acc.shadow \cup {o},
                                used   |-> acc.used \cup {o.sequence}]
      BY <1>3, <2>1 DEF ObjectReplay
    <3>2. acc.ok = TRUE /\ acc.shadow = ToSet(b.objects) /\ o.sequence \notin acc.used
      BY <2>1, <2>2, <2>3 DEF ObjectShadow
    <3> HIDE DEF acc
    <3>3. Shadow(pre, after) = [ok     |-> TRUE,
                                shadow |-> ToSet(b.objects) \cup {o},
                                used   |-> acc.used \cup {o.sequence}]
      BY <3>1, <3>2
    <3> QED BY <3>3 DEF acc
  <2>5. \A n_1 \in Shadow(pre, after).used : n_1 < after.next
    BY <1>1, <1>2, <1>7, <2>2, <2>4
  <2> QED BY <1>7, <1>8, <1>14, <2>4, <2>5 DEF ObjectSide
<1> QED BY <1>2, <1>7, <1>8, <1>9, <1>11, <1>14, <1>15 DEF o, after

(* A turret takes the place of the one before it (objects.rs:74).          *)
LEMMA SpawnTurretKeeps ==
  ASSUME NEW pre \in Board, NEW ended, NEW b \in Kept(pre, ended), NEW actor \in Player,
         NEW place \in Int, NEW turns \in Nat
  PROVE  /\ SpawnTurret(b, actor, place, turns) \in Kept(pre, ended)
         /\ SpawnTurret(b, actor, place, turns).health = b.health
<1> DEFINE old == {o \in Owned(b, actor) : o.kind = "Turret"}
           cleared == Discard(b, old, "Replaced")
           after == SpawnTurret(b, actor, place, turns)
           o == Fresh(cleared, actor, "Turret", place, turns)
<1>1. after = Spawn(cleared, actor, "Turret", place, turns)
  BY DEF SpawnTurret
<1>2. /\ cleared \in Kept(pre, ended) /\ ToSet(cleared.objects) = ToSet(b.objects) \ old
      /\ cleared.health = b.health
  BY DiscardKeeps DEF Cause
<1>3. ToSet(cleared.objects) \cap old = {} /\ old = Turrets(b, actor)
  BY <1>2 DEF Owned, Turrets
<1> HIDE DEF cleared, after, o, old
<1>4. /\ cleared \in Board /\ Numbered(cleared) /\ ObjectSide(pre, cleared)
      /\ StatusSide(pre, cleared, ended) /\ Capped(cleared)
  BY <1>2 DEF Kept, ObjectSide
<1>5. /\ o \in Object /\ after \in Board /\ SameStatuses(cleared, after)
      /\ ToSet(after.objects) = ToSet(cleared.objects) \cup {o}
      /\ ObjectSide(pre, after)
  BY <1>1, <1>4, SpawnIs DEF o
<1>6. o.owner = actor /\ o.kind = "Turret"
  BY DEF o, Fresh
<1>7. Turrets(after, actor) = {o}
  BY <1>2, <1>3, <1>5, <1>6 DEF Turrets
<1>8. ASSUME NEW p \in Player
      PROVE  /\ KnivesOf(after, p) = KnivesOf(cleared, p)
             /\ p # actor => Turrets(after, p) = Turrets(cleared, p)
  BY <1>5, <1>6 DEF Turrets, KnivesOf
<1>9. Cardinality({o}) = 1
  BY FS_Singleton
<1>10. Capped(after)
  BY <1>4, <1>7, <1>8, <1>9 DEF Capped
<1>11. StatusSide(pre, after, ended)
  BY <1>4, <1>5, SidesApart DEF SameStatuses
<1>12. after \in Kept(pre, ended)
  BY <1>5, <1>10, <1>11 DEF Kept
<1>13. after.health = b.health
  BY <1>2, <1>5 DEF SameStatuses
<1> QED BY <1>12, <1>13 DEF after

(* Some object of a set is the oldest.                                     *)
LEMMA OldestIs ==
  ASSUME NEW objects \in SUBSET Object, objects # {}
  PROVE  Oldest(objects) \in SUBSET objects /\ Oldest(objects) # {}
<1> DEFINE numbers == {o.sequence : o \in objects}
<1>1. numbers \subseteq Nat /\ numbers # {}
  BY DEF Object
<1> HIDE DEF numbers
<1>2. PICK n \in numbers : \A m \in numbers : ~ (<<m, n>> \in OpToRel(<, Nat))
  BY <1>1, NatLessThanWellFounded, WFMin
<1>3. \A m \in numbers : n <= m
  <2> SUFFICES ASSUME NEW m \in numbers, ~ (n <= m) PROVE FALSE
    OBVIOUS
  <2>1. m \in Nat /\ n \in Nat /\ m < n
    <3>1. m \in Nat /\ n \in Nat BY <1>1, <1>2
    <3> QED BY <3>1
  <2>2. <<m, n>> \in OpToRel(<, Nat)
    BY <2>1 DEF OpToRel
  <2> QED BY <1>2, <2>2
<1>4. PICK o \in objects : o.sequence = n
  BY <1>2 DEF numbers
<1>5. o \in Oldest(objects)
  BY <1>3, <1>4 DEF Oldest, numbers
<1> QED BY <1>5 DEF Oldest

(* The new knife is embedded; if that is one too many the oldest goes.     *)
LEMMA EmbedKeeps ==
  ASSUME NEW pre \in Board, NEW ended, NEW b \in Kept(pre, ended), NEW actor \in Player,
         NEW place \in Int
  PROVE  /\ Embed(b, actor, place) \in Kept(pre, ended)
         /\ Embed(b, actor, place).health = b.health
<1> DEFINE embedded == Spawn(b, actor, "EmbeddedKnife", place, Never)
           mine == Knives(embedded) \cap Owned(embedded, actor)
           o == Fresh(b, actor, "EmbeddedKnife", place, Never)
           after == Embed(b, actor, place)
<1>1. /\ b \in Board /\ Numbered(b) /\ ObjectSide(pre, b) /\ StatusSide(pre, b, ended)
      /\ Capped(b) /\ Never \in Nat /\ KnifeCap \in Nat \ {0}
  BY RadiusAssumption DEF Kept, ObjectSide, Never
<1>2. /\ o \in Object /\ o \notin ToSet(b.objects) /\ embedded \in Board
      /\ SameStatuses(b, embedded)
      /\ ToSet(embedded.objects) = ToSet(b.objects) \cup {o} /\ Numbered(embedded)
      /\ ObjectSide(pre, embedded)
  BY <1>1, SpawnIs
<1>3. o.owner = actor /\ o.kind = "EmbeddedKnife"
  BY DEF Fresh
<1>4. after = IF Cardinality(mine) <= KnifeCap THEN embedded
              ELSE Discard(embedded, Oldest(mine), "CapacityEvicted")
  BY DEF Embed
<1>5. mine = KnivesOf(embedded, actor)
  BY DEF Knives, Owned, KnivesOf
<1> HIDE DEF embedded, mine, o, after
<1>6. mine = KnivesOf(b, actor) \cup {o} /\ o \notin KnivesOf(b, actor)
  BY <1>2, <1>3, <1>5 DEF KnivesOf
<1>7. /\ IsFiniteSet(KnivesOf(b, actor)) /\ Cardinality(KnivesOf(b, actor)) \in Nat
      /\ Cardinality(KnivesOf(b, actor)) <= KnifeCap
  BY <1>1, OwnedFinite DEF Capped
<1>8. IsFiniteSet(mine) /\ Cardinality(mine) = Cardinality(KnivesOf(b, actor)) + 1
  BY <1>6, <1>7, FS_AddElement
<1>9. \A p \in Player : /\ Turrets(embedded, p) = Turrets(b, p)
                        /\ p # actor => KnivesOf(embedded, p) = KnivesOf(b, p)
  BY <1>2, <1>3 DEF Turrets, KnivesOf
<1>10. StatusSide(pre, embedded, ended) /\ embedded.health = b.health
  BY <1>1, <1>2, SidesApart DEF SameStatuses
<1>11. CASE Cardinality(mine) <= KnifeCap
  <2>1. after = embedded
    BY <1>4, <1>11
  <2>2. Capped(embedded)
    BY <1>1, <1>5, <1>9, <1>11 DEF Capped
  <2>3. embedded \in Kept(pre, ended)
    BY <1>2, <1>10, <2>2 DEF Kept
  <2> QED BY <1>10, <2>1, <2>3 DEF after
<1>12. CASE ~ (Cardinality(mine) <= KnifeCap)
  <2>1. after = Discard(embedded, Oldest(mine), "CapacityEvicted")
    BY <1>4, <1>12
  <2>2. mine \in SUBSET Object /\ mine # {}
    BY <1>2, <1>5, <1>6, BoardIs DEF KnivesOf
  <2>3. PICK q \in Oldest(mine) : q \in mine
    BY <2>2, OldestIs
  <2>4. /\ after \in Sifted(embedded)
        /\ ToSet(after.objects) = ToSet(embedded.objects) \ Oldest(mine)
        /\ ObjectSide(pre, after)
    BY <1>2, <2>1, DiscardIs DEF Cause
  <2>5. /\ after \in Board /\ after.statuses = embedded.statuses
        /\ after.statusLog = embedded.statusLog /\ after.health = embedded.health
    BY <2>4 DEF Sifted, SameStatuses
  <2>6. KnivesOf(after, actor) \subseteq mine \ {q}
    BY <1>5, <2>3, <2>4 DEF KnivesOf
  <2>7. IsFiniteSet(mine \ {q}) /\ Cardinality(mine \ {q}) = Cardinality(mine) - 1
    BY <1>8, <2>3, FS_RemoveElement
  <2>8. /\ Cardinality(KnivesOf(after, actor)) <= Cardinality(mine \ {q})
        /\ Cardinality(KnivesOf(after, actor)) \in Nat
    BY <2>5, <2>6, <2>7, FS_Subset, OwnedFinite
  <2>9. Cardinality(KnivesOf(after, actor)) <= KnifeCap
    BY <1>1, <1>7, <1>8, <2>7, <2>8
  <2>10. ASSUME NEW p \in Player
         PROVE  /\ Cardinality(Turrets(after, p)) <= 1
                /\ p # actor => Cardinality(KnivesOf(after, p)) <= KnifeCap
    <3>1. Turrets(after, p) \subseteq Turrets(b, p)
          /\ (p # actor => KnivesOf(after, p) \subseteq KnivesOf(b, p))
      BY <1>9, <2>4 DEF Turrets, KnivesOf
    <3>2. /\ IsFiniteSet(Turrets(b, p)) /\ IsFiniteSet(KnivesOf(b, p))
          /\ Cardinality(Turrets(b, p)) \in Nat /\ Cardinality(KnivesOf(b, p)) \in Nat
          /\ Cardinality(Turrets(after, p)) \in Nat /\ Cardinality(KnivesOf(after, p)) \in Nat
      BY <1>1, <2>5, OwnedFinite
    <3>3. /\ Cardinality(Turrets(after, p)) <= Cardinality(Turrets(b, p))
          /\ p # actor => Cardinality(KnivesOf(after, p)) <= Cardinality(KnivesOf(b, p))
      BY <3>1, <3>2, FS_Subset
    <3>4. Cardinality(Turrets(b, p)) <= 1 /\ Cardinality(KnivesOf(b, p)) <= KnifeCap
      BY <1>1 DEF Capped
    <3> QED BY <1>1, <3>2, <3>3, <3>4
  <2>11. Capped(after)
    BY <2>9, <2>10 DEF Capped
  <2>12. StatusSide(pre, after, ended)
    BY <1>10, <2>5, SidesApart
  <2>13. after \in Kept(pre, ended)
    BY <2>4, <2>5, <2>11, <2>12 DEF Kept
  <2> QED BY <1>10, <2>5, <2>13 DEF after
<1> QED BY <1>11, <1>12

-----------------------------------------------------------------------------
(* The chain. Its loop goes on until nothing is pending, and what has gone *)
(* off by then is what is connected to the landing knife.                  *)

(* Knives at a place.                                                      *)
Here(b, place) == {k \in Knives(b) : k.place = place}

(* The knife that has just landed there.                                   *)
Landing(b, place) ==
  CHOOSE k \in Here(b, place) : \A q \in Here(b, place) : q.sequence <= k.sequence

(* Knives near enough to be set off by it.                                 *)
Triggered(b, place) ==
  {k \in Knives(b) \ {Landing(b, place)} :
     Near(Landing(b, place).place, k.place, TriggerRadius)}

(* Boards that differ from b in nobody's anything but health.              *)
Hurt(b) == {after \in Board : /\ after.statuses = b.statuses /\ after.statusLog = b.statusLog
                              /\ after.objects = b.objects /\ after.next = b.next
                              /\ after.objectLog = b.objectLog}

(* States of the chain's loop.                                             *)
Chains(b, knives) ==
  [board : Hurt(b), pending : SUBSET knives, detonated : SUBSET knives]

(* Nothing has gone off yet.                                               *)
ChainStart(b, start) == [board |-> b, pending |-> start, detonated |-> {}]

(* One turn of the loop (objects.rs:293).                                  *)
ChainStep(chain, knives) ==
  IF chain.pending = {} THEN chain ELSE DetonateNext(chain, knives)

(* The loop, turn by turn; no more turns than there are knives.            *)
ChainWalk(g, b, knives, start) ==
  /\ g[0] = ChainStart(b, start)
  /\ \A n \in 1..Cardinality(knives) : g[n] = ChainStep(g[n - 1], knives)

(* A blast takes one from each of the living in reach.                     *)
LEMMA BlastIs ==
  ASSUME NEW b \in Board, NEW after \in Hurt(b), NEW knife \in Object
  PROVE  /\ Burst(after, knife) \in Hurt(b)
         /\ Burst(after, knife).health =
              [p \in Player |->
                 IF after.health[p] > 0 /\ Near(knife.place, Standing[p], BlastRadius)
                   THEN after.health[p] - 1 ELSE after.health[p]]
<1> DEFINE health == [p \in Player |->
                 IF after.health[p] > 0 /\ Near(knife.place, Standing[p], BlastRadius)
                   THEN after.health[p] - 1 ELSE after.health[p]]
           blown == Burst(after, knife)
<1>1. after \in Board
  BY DEF Hurt
<1>2. \E h, s, o, n, l, m : after = [health |-> h, statuses |-> s, objects |-> o, next |-> n,
                                     statusLog |-> l, objectLog |-> m]
  BY <1>1, BoardIs
<1>3. PICK h, s, o, n, l, m : after = [health |-> h, statuses |-> s, objects |-> o, next |-> n,
                                       statusLog |-> l, objectLog |-> m]
  BY <1>2
<1>4. blown = [after EXCEPT !.health = health]
  BY <1>1 DEF Burst
<1>5. health \in [Player -> Nat]
  BY <1>1, BoardIs
<1> HIDE DEF health, blown
<1>6. blown = [health |-> health, statuses |-> s, objects |-> o, next |-> n,
               statusLog |-> l, objectLog |-> m]
  BY <1>3, <1>4
<1>7. blown \in Board
  BY <1>1, <1>3, <1>5, <1>6 DEF Board
<1>8. blown \in Hurt(b) /\ blown.health = health
  BY <1>3, <1>6, <1>7 DEF Hurt
<1> QED BY <1>8 DEF health, blown

(* One pending knife goes off and sets off those near it.                  *)
LEMMA ChainStepIs ==
  ASSUME NEW b \in Board, NEW knives \in SUBSET Object, NEW chain \in Chains(b, knives)
  PROVE  /\ ChainStep(chain, knives) \in Chains(b, knives)
         /\ chain.pending = {} => ChainStep(chain, knives) = chain
         /\ chain.pending # {} =>
              \E knife \in chain.pending :
                /\ ChainStep(chain, knives).detonated = chain.detonated \cup {knife}
                /\ ChainStep(chain, knives).pending =
                     (chain.pending \ {knife}) \cup
                     {k \in knives \ (chain.detonated \cup {knife}) :
                        Near(knife.place, k.place, BlastRadius)}
                /\ ChainStep(chain, knives).board = Burst(chain.board, knife)
<1>1. CASE chain.pending = {}
  BY <1>1 DEF ChainStep
<1>2. CASE chain.pending # {}
  <2> DEFINE knife == CHOOSE k \in Oldest(chain.pending) : TRUE
             after == ChainStep(chain, knives)
             left == (chain.pending \ {knife}) \cup
                     {k \in knives \ (chain.detonated \cup {knife}) :
                        Near(knife.place, k.place, BlastRadius)}
  <2>1. chain.pending \in SUBSET knives /\ chain.detonated \in SUBSET knives
        /\ chain.board \in Hurt(b)
    BY DEF Chains
  <2>2. knife \in chain.pending
    <3>1. Oldest(chain.pending) # {} /\ Oldest(chain.pending) \subseteq chain.pending
      BY <1>2, <2>1, OldestIs
    <3> QED BY <3>1
  <2>3. after = [board |-> Burst(chain.board, knife), pending |-> left,
                 detonated |-> chain.detonated \cup {knife}]
    BY <1>2 DEF ChainStep, DetonateNext
  <2>4. left \in SUBSET knives /\ knife \in Object
    BY <2>1, <2>2
  <2> HIDE DEF knife, left
  <2>5. Burst(chain.board, knife) \in Hurt(b)
    BY <2>1, <2>4, BlastIs
  <2>6. after \in Chains(b, knives)
    BY <2>1, <2>2, <2>3, <2>4, <2>5 DEF Chains
  <2>7. /\ after.detonated = chain.detonated \cup {knife} /\ after.pending = left
        /\ after.board = Burst(chain.board, knife)
    BY <2>3
  <2> QED BY <1>2, <2>2, <2>6, <2>7 DEF left
<1> QED BY <1>1, <1>2

(* A detonation is the end of such a walk, and discards what has gone off. *)
LEMMA ChainUnfolds ==
  ASSUME NEW b \in Board, NEW place, Here(b, place) # {}, Triggered(b, place) # {},
         Landing(b, place) \in Knives(b)
  PROVE  \E g \in [0..Cardinality(Knives(b)) -> Chains(b, Knives(b))] :
           /\ ChainWalk(g, b, Knives(b), Triggered(b, place) \cup {Landing(b, place)})
           /\ ChainDetonate(b, place) =
                Discard(g[Cardinality(Knives(b))].board,
                        g[Cardinality(Knives(b))].detonated, "Detonated")
<1> DEFINE knives == Knives(b)
           N == Cardinality(knives)
           start == Triggered(b, place) \cup {Landing(b, place)}
           base == ChainStart(b, start)
           S == Chains(b, knives)
           step == [n \in 1..N |-> [chain \in S |-> ChainStep(chain, knives)]]
           loop == CHOOSE loop : loop = [n \in 0..N |->
                     IF n = 0
                       THEN [board |-> b,
                             pending |-> Triggered(b, place) \cup {Landing(b, place)},
                             detonated |-> {}]
                       ELSE IF loop[n - 1].pending = {} THEN loop[n - 1]
                            ELSE DetonateNext(loop[n - 1], knives)]
<1>1. knives \in SUBSET Object /\ N \in Nat
  <2>1. knives \subseteq ToSet(b.objects) BY DEF Knives
  <2>2. IsFiniteSet(ToSet(b.objects)) /\ ToSet(b.objects) \in SUBSET Object
    BY OwnedFinite, BoardIs
  <2> HIDE DEF knives
  <2>3. IsFiniteSet(knives) BY <2>1, <2>2, FS_Subset
  <2> QED BY <2>1, <2>2, <2>3, FS_CardinalityType
<1>2. start \in SUBSET knives
  BY DEF Triggered
<1>3. b \in Hurt(b)
  BY DEF Hurt
<1> HIDE DEF knives, start
<1>4. base \in S
  BY <1>2, <1>3 DEF ChainStart, Chains
<1>5. \A chain \in S : ChainStep(chain, knives) \in S
  BY <1>1, ChainStepIs
<1>6. /\ step \in [1..N -> [S -> S]]
      /\ \A n \in 1..N : \A chain \in S : step[n][chain] = ChainStep(chain, knives)
  <2> HIDE DEF N, S
  <2> QED BY <1>5
<1> HIDE DEF step, N, S
<1>7. PICK f \in [0..N -> S] : Walks(f, N, base, step)
  <2> HIDE DEF base
  <2> QED BY <1>1, <1>4, <1>6, Recursion
<1>8. \A n \in 0..N : n # 0 => n \in 1..N /\ n - 1 \in 0..N
  BY <1>1
<1>9. ASSUME NEW n \in 0..N, n # 0
      PROVE  step[n][f[n - 1]] = IF f[n - 1].pending = {} THEN f[n - 1]
                                 ELSE DetonateNext(f[n - 1], knives)
  BY <1>6, <1>7, <1>8, <1>9 DEF ChainStep
<1>10. f = [n \in 0..N |-> IF n = 0 THEN base
                           ELSE IF f[n - 1].pending = {} THEN f[n - 1]
                                ELSE DetonateNext(f[n - 1], knives)]
  <2>1. f = [n \in 0..N |-> f[n]]
    BY <1>7
  <2>2. f[0] = base /\ \A n \in 0..N : n # 0 => f[n] = step[n][f[n - 1]]
    BY <1>7, <1>8 DEF Walks
  <2> HIDE DEF base
  <2> QED BY <2>1, <2>2, <1>9
<1>11. loop = [n \in 0..N |-> IF n = 0 THEN base
                           ELSE IF loop[n - 1].pending = {} THEN loop[n - 1]
                                ELSE DetonateNext(loop[n - 1], knives)]
  BY <1>10 DEF ChainStart, start
<1>12. ChainDetonate(b, place) = Discard(loop[N].board, loop[N].detonated, "Detonated")
  BY DEF ChainDetonate, Here, Triggered, Landing, knives, N
<1> HIDE DEF loop
<1>13. /\ loop[0] = base
       /\ \A n \in 1..N : loop[n] = ChainStep(loop[n - 1], knives)
  <2>1. 0 \in 0..N /\ \A n \in 1..N : n \in 0..N /\ n # 0
    BY <1>1
  <2> HIDE DEF base
  <2> QED BY <1>11, <2>1 DEF ChainStep
<1> HIDE DEF base
<1> DEFINE T == {n \in 0..N : loop[n] \in S}
<1>14. 0..N \subseteq T
  <2>1. 0 \in T
    BY <1>1, <1>4, <1>13
  <2>2. \A n \in 0..(N - 1) : n \in T => n + 1 \in T
    <3> SUFFICES ASSUME NEW n \in 0..(N - 1), loop[n] \in S PROVE loop[n + 1] \in S
      BY <1>1
    <3>1. n + 1 \in 1..N /\ (n + 1) - 1 = n
      BY <1>1
    <3>2. loop[n + 1] = ChainStep(loop[n], knives)
      BY <1>13, <3>1
    <3> QED BY <1>5, <3>2
  <2> HIDE DEF T
  <2> QED BY <1>1, <2>1, <2>2, UpTo
<1>15. loop \in [0..N -> S]
  <2>1. \A n \in 0..N : loop[n] \in S
    BY <1>14
  <2>2. loop = [n \in 0..N |-> loop[n]]
    BY <1>11
  <2> QED BY <2>1, <2>2
<1>16. ChainWalk(loop, b, knives, start)
  BY <1>13 DEF ChainWalk, base, N
<1> QED BY <1>12, <1>15, <1>16 DEF N, S, knives, start

(* Nearness is mutual.                                                     *)
LEMMA NearIs ==
  ASSUME NEW x \in Int, NEW y \in Int, NEW radius \in Nat
  PROVE  Near(x, x, radius) /\ (Near(x, y, radius) <=> Near(y, x, radius))
BY DEF Near

(* Knives reached in one more turn from some.                              *)
Reached(some, knives) ==
  {k \in knives : \E q \in some : Near(k.place, q.place, BlastRadius)}

(* How Connected grows.                                                    *)
ReachWalk(r, knives, start) ==
  /\ r[0] = start
  /\ \A n \in 1..Cardinality(knives) : r[n] = Reached(r[n - 1], knives)

(* Connected is where that ends.                                           *)
LEMMA ConnectedUnfolds ==
  ASSUME NEW knives, IsFiniteSet(knives), NEW start \in SUBSET knives
  PROVE  \E r \in [0..Cardinality(knives) -> SUBSET knives] :
           /\ ReachWalk(r, knives, start)
           /\ Connected(knives, start) = r[Cardinality(knives)]
<1> DEFINE N == Cardinality(knives)
           S == SUBSET knives
           step == [n \in 1..N |-> [some \in S |-> Reached(some, knives)]]
           reach == CHOOSE reach : reach = [n \in 0..N |->
                      IF n = 0 THEN start
                      ELSE {k \in knives : \E q \in reach[n - 1] :
                              Near(k.place, q.place, BlastRadius)}]
<1>1. N \in Nat
  BY FS_CardinalityType
<1>2. start \in S /\ \A some \in S : Reached(some, knives) \in S
  BY DEF Reached
<1>3. /\ step \in [1..N -> [S -> S]]
      /\ \A n \in 1..N : \A some \in S : step[n][some] = Reached(some, knives)
  <2> HIDE DEF N, S
  <2> QED BY <1>2
<1>4. Connected(knives, start) = reach[N]
  BY DEF Connected
<1> HIDE DEF step, N, S
<1>5. PICK f \in [0..N -> S] : Walks(f, N, start, step)
  BY <1>1, <1>2, <1>3, Recursion
<1>6. \A n \in 0..N : n # 0 => n \in 1..N /\ n - 1 \in 0..N
  BY <1>1
<1>7. ASSUME NEW n \in 0..N, n # 0
      PROVE  f[n] = {k \in knives : \E q \in f[n - 1] : Near(k.place, q.place, BlastRadius)}
  BY <1>3, <1>5, <1>6, <1>7 DEF Reached, Walks
<1>8. f = [n \in 0..N |->
             IF n = 0 THEN start
             ELSE {k \in knives : \E q \in f[n - 1] : Near(k.place, q.place, BlastRadius)}]
  <2>1. f = [n \in 0..N |-> f[n]]
    BY <1>5
  <2>2. f[0] = start
    BY <1>5 DEF Walks
  <2> QED BY <1>7, <2>1, <2>2
<1>9. reach = [n \in 0..N |->
             IF n = 0 THEN start
             ELSE {k \in knives : \E q \in reach[n - 1] : Near(k.place, q.place, BlastRadius)}]
  BY <1>8
<1> HIDE DEF reach
<1>10. /\ reach[0] = start
       /\ \A n \in 1..N : reach[n] = Reached(reach[n - 1], knives)
  <2>1. 0 \in 0..N /\ \A n \in 1..N : n \in 0..N /\ n # 0
    BY <1>1
  <2> QED BY <1>9, <2>1 DEF Reached
<1>11. \A n \in 0..N : reach[n] \in S
  <2> SUFFICES ASSUME NEW n \in 0..N PROVE reach[n] \in S
    OBVIOUS
  <2>1. CASE n = 0
    BY <1>2, <1>10, <2>1
  <2>2. CASE n # 0
    <3>1. reach[n] = Reached(reach[n - 1], knives)
      BY <1>6, <1>10, <2>2
    <3> QED BY <3>1 DEF Reached, S
  <2> QED BY <2>1, <2>2
<1>12. reach \in [0..N -> S]
  <2>1. reach = [n \in 0..N |-> reach[n]]
    BY <1>9
  <2> QED BY <1>11, <2>1
<1>13. ReachWalk(reach, knives, start)
  BY <1>10 DEF ReachWalk, N
<1> QED BY <1>4, <1>12, <1>13 DEF N, S

(* Blasts that reach a player.                                             *)
Felt(gone, p) == {k \in gone : Near(k.place, Standing[p], BlastRadius)}

(* Health less the blasts felt.                                            *)
Less(health, felt) == IF health > felt THEN health - felt ELSE 0

(* The invariant of the loop after n turns: what has gone off or is        *)
(* pending holds the start and all that what has gone off reaches, and no  *)
(* more than reached; as long as something is pending n knives have gone   *)
(* off; and everybody is hurt by what has gone off and reaches him.        *)
Chained(chain, n, b, knives, start, reached) ==
  /\ chain.pending \cap chain.detonated = {}
  /\ start \subseteq chain.pending \cup chain.detonated
  /\ chain.pending \cup chain.detonated \subseteq reached
  /\ \A k \in chain.detonated : \A q \in knives :
       Near(k.place, q.place, BlastRadius) => q \in chain.pending \cup chain.detonated
  /\ chain.pending # {} => Cardinality(chain.detonated) = n
  /\ \A p \in Player :
       chain.board.health[p] = Less(b.health[p], Cardinality(Felt(chain.detonated, p)))

(* One more turn of the loop.                                              *)
LEMMA ChainGoesOn ==
  ASSUME NEW b \in Board, NEW knives \in SUBSET Object, IsFiniteSet(knives),
         NEW start \in SUBSET knives, NEW chain \in Chains(b, knives), NEW n \in Nat,
         NEW reached \in SUBSET knives, Chained(chain, n, b, knives, start, reached)
  PROVE  Chained(ChainStep(chain, knives), n + 1, b, knives, start, Reached(reached, knives))
<1> DEFINE after == ChainStep(chain, knives)
           further == Reached(reached, knives)
<1>1. /\ chain.pending \cap chain.detonated = {}
      /\ start \subseteq chain.pending \cup chain.detonated
      /\ chain.pending \cup chain.detonated \subseteq reached
      /\ \A k \in chain.detonated : \A q \in knives :
           Near(k.place, q.place, BlastRadius) => q \in chain.pending \cup chain.detonated
      /\ chain.pending # {} => Cardinality(chain.detonated) = n
      /\ \A p \in Player :
           chain.board.health[p] = Less(b.health[p], Cardinality(Felt(chain.detonated, p)))
  BY DEF Chained
<1>2. /\ chain.pending \in SUBSET knives /\ chain.detonated \in SUBSET knives
      /\ chain.board \in Hurt(b)
  BY DEF Chains
<1>3. BlastRadius \in Nat /\ \A k \in knives : k.place \in Int
  BY RadiusAssumption DEF Object
<1>4. reached \subseteq further
  <2> SUFFICES ASSUME NEW k \in reached PROVE k \in further
    OBVIOUS
  <2>1. Near(k.place, k.place, BlastRadius)
    BY <1>3, NearIs
  <2> QED BY <2>1 DEF Reached
<1>5. CASE chain.pending = {}
  <2>1. after = chain
    BY <1>5, ChainStepIs
  <2> HIDE DEF after, further
  <2>2. Chained(after, n + 1, b, knives, start, further)
    BY <1>1, <1>4, <1>5, <2>1 DEF Chained
  <2> QED BY <2>2 DEF after, further
<1>6. CASE chain.pending # {}
  <2>1. PICK knife \in chain.pending :
          /\ after.detonated = chain.detonated \cup {knife}
          /\ after.pending = (chain.pending \ {knife}) \cup
               {k \in knives \ (chain.detonated \cup {knife}) :
                  Near(knife.place, k.place, BlastRadius)}
          /\ after.board = Burst(chain.board, knife)
    BY <1>6, ChainStepIs
  <2>2. knife \in knives /\ knife \in Object /\ knife \notin chain.detonated /\ knife \in reached
    BY <1>1, <1>2
  <2> HIDE DEF after
  <2>3. after.pending \cap after.detonated = {}
    BY <1>1, <2>1
  <2>4. start \subseteq after.pending \cup after.detonated
    BY <1>1, <2>1
  <2>5. after.pending \cup after.detonated \subseteq further
    <3>1. ASSUME NEW k \in knives, Near(knife.place, k.place, BlastRadius)
          PROVE  k \in further
      <4>1. Near(k.place, knife.place, BlastRadius)
        BY <1>3, <2>2, <3>1, NearIs
      <4> QED BY <2>2, <4>1 DEF Reached
    <3> HIDE DEF further
    <3> QED BY <1>1, <1>4, <2>1, <3>1
  <2>6. ASSUME NEW k \in after.detonated, NEW q \in knives,
               Near(k.place, q.place, BlastRadius)
        PROVE  q \in after.pending \cup after.detonated
    <3>1. CASE k = knife
      BY <2>1, <2>6, <3>1
    <3>2. CASE k \in chain.detonated
      <4>1. q \in chain.pending \cup chain.detonated
        BY <1>1, <2>6, <3>2
      <4> QED BY <2>1, <4>1
    <3> QED BY <2>1, <3>1, <3>2
  <2>7. IsFiniteSet(chain.detonated)
    BY <1>2, FS_Subset
  <2>8. Cardinality(after.detonated) = n + 1
    <3>1. Cardinality(chain.detonated \cup {knife}) = Cardinality(chain.detonated) + 1
      BY <2>2, <2>7, FS_AddElement
    <3> QED BY <1>1, <1>6, <2>1, <3>1
  <2>9. ASSUME NEW p \in Player
        PROVE  after.board.health[p] = Less(b.health[p], Cardinality(Felt(after.detonated, p)))
    <3> DEFINE before == Felt(chain.detonated, p)
    <3>1. IsFiniteSet(before) /\ Cardinality(before) \in Nat
      <4>1. before \subseteq chain.detonated BY DEF Felt
      <4> HIDE DEF before
      <4>2. IsFiniteSet(before) BY <2>7, <4>1, FS_Subset
      <4> QED BY <4>2, FS_CardinalityType
    <3>2. b.health[p] \in Nat
      BY BoardIs
    <3>3. chain.board.health[p] = Less(b.health[p], Cardinality(before))
      BY <1>1
    <3>4. after.board.health[p] =
            IF chain.board.health[p] > 0 /\ Near(knife.place, Standing[p], BlastRadius)
              THEN chain.board.health[p] - 1 ELSE chain.board.health[p]
      <4> DEFINE hurt == chain.board
      <4>1. hurt \in Hurt(b) /\ after.board = Burst(hurt, knife)
        BY <1>2, <2>1
      <4> HIDE DEF hurt
      <4>2. after.board.health =
              [x \in Player |->
                 IF hurt.health[x] > 0 /\ Near(knife.place, Standing[x], BlastRadius)
                   THEN hurt.health[x] - 1 ELSE hurt.health[x]]
        BY <2>2, <4>1, BlastIs
      <4> QED BY <4>2 DEF hurt
    <3>5. CASE Near(knife.place, Standing[p], BlastRadius)
      <4>1. Felt(after.detonated, p) = before \cup {knife} /\ knife \notin before
        BY <2>1, <2>2, <3>5 DEF Felt
      <4> HIDE DEF before
      <4>2. Cardinality(before \cup {knife}) = Cardinality(before) + 1
        BY <3>1, <4>1, FS_AddElement
      <4>3. after.board.health[p] = Less(b.health[p], Cardinality(before) + 1)
        BY <3>1, <3>2, <3>3, <3>4, <3>5 DEF Less
      <4> QED BY <4>1, <4>2, <4>3
    <3>6. CASE ~ Near(knife.place, Standing[p], BlastRadius)
      <4>1. Felt(after.detonated, p) = before
        BY <2>1, <3>6 DEF Felt
      <4> HIDE DEF before
      <4> QED BY <3>3, <3>4, <3>6, <4>1
    <3> QED BY <3>5, <3>6
  <2> HIDE DEF further
  <2>10. Chained(after, n + 1, b, knives, start, further)
    BY <2>3, <2>4, <2>5, <2>6, <2>8, <2>9 DEF Chained
  <2> QED BY <2>10 DEF after, further
<1> QED BY <1>5, <1>6

(* What the loop leaves.                                                   *)
LEMMA ChainEnds ==
  ASSUME NEW b \in Board, NEW knives \in SUBSET Object, IsFiniteSet(knives),
         NEW start \in SUBSET knives,
         NEW g \in [0..Cardinality(knives) -> Chains(b, knives)], ChainWalk(g, b, knives, start)
  PROVE  /\ g[Cardinality(knives)].detonated = Connected(knives, start)
         /\ \A p \in Player : g[Cardinality(knives)].board.health[p] =
              Less(b.health[p], Cardinality(Felt(Connected(knives, start), p)))
<1> DEFINE N == Cardinality(knives)
           last == g[N]
<1>1. N \in Nat
  BY FS_CardinalityType
<1>2. PICK r \in [0..N -> SUBSET knives] :
         ReachWalk(r, knives, start) /\ Connected(knives, start) = r[N]
  BY ConnectedUnfolds
<1> DEFINE T == {n \in 0..N : Chained(g[n], n, b, knives, start, r[n])}
<1>3. 0 \in T
  <2>1. /\ g[0].board = b /\ g[0].pending = start /\ g[0].detonated = {} /\ r[0] = start
    BY <1>2 DEF ChainWalk, ReachWalk, ChainStart
  <2>2. Cardinality({}) = 0
    BY FS_EmptySet
  <2>3. \A p \in Player : b.health[p] = Less(b.health[p], Cardinality(Felt({}, p)))
    <3> SUFFICES ASSUME NEW p \in Player
                 PROVE  b.health[p] = Less(b.health[p], Cardinality(Felt({}, p)))
      OBVIOUS
    <3>1. Cardinality(Felt({}, p)) = 0
      <4>1. Felt({}, p) = {} BY DEF Felt
      <4> QED BY <2>2, <4>1
    <3>2. b.health[p] \in Nat
      BY BoardIs
    <3> QED BY <3>1, <3>2 DEF Less
  <2>4. Chained(g[0], 0, b, knives, start, r[0])
    BY <2>1, <2>2, <2>3 DEF Chained
  <2> QED BY <1>1, <2>4
<1>4. ASSUME NEW n \in 0..(N - 1), n \in T PROVE n + 1 \in T
  <2>1. n \in Nat /\ n + 1 \in 1..N /\ n + 1 \in 0..N /\ (n + 1) - 1 = n /\ n \in 0..N
    BY <1>1
  <2>2. g[n + 1] = ChainStep(g[n], knives) /\ r[n + 1] = Reached(r[n], knives)
    BY <1>2, <2>1 DEF ChainWalk, ReachWalk
  <2>3. g[n] \in Chains(b, knives) /\ r[n] \in SUBSET knives
    BY <1>2, <2>1
  <2>4. Chained(g[n], n, b, knives, start, r[n])
    BY <1>4
  <2>5. Chained(g[n + 1], n + 1, b, knives, start, r[n + 1])
    BY <2>1, <2>2, <2>3, <2>4, ChainGoesOn
  <2> QED BY <2>1, <2>5
<1>5. N \in T
  <2>1. 0..N \subseteq T
    <3>1. \A n \in 0..(N - 1) : n \in T => n + 1 \in T BY <1>4
    <3> HIDE DEF T, N
    <3> QED BY <1>1, <1>3, <3>1, UpTo
  <2>2. N \in 0..N BY <1>1
  <2> HIDE DEF T, N
  <2> QED BY <2>1, <2>2
<1>6. Chained(last, N, b, knives, start, r[N])
  BY <1>5
<1>7. last \in Chains(b, knives)
  BY <1>1
<1>8. last.pending \in SUBSET knives /\ last.detonated \in SUBSET knives
  BY <1>7 DEF Chains
<1> HIDE DEF last, T
<1>9. last.pending = {}
  <2> SUFFICES ASSUME last.pending # {} PROVE FALSE
    OBVIOUS
  <2>1. Cardinality(last.detonated) = Cardinality(knives)
    BY <1>6 DEF Chained
  <2>2. last.detonated = knives
    BY <1>8, <2>1, FS_Subset
  <2> QED BY <1>6, <1>8, <2>2 DEF Chained
<1>10. /\ start \subseteq last.detonated /\ last.detonated \subseteq r[N]
       /\ \A k \in last.detonated : \A q \in knives :
            Near(k.place, q.place, BlastRadius) => q \in last.detonated
       /\ \A p \in Player :
            last.board.health[p] = Less(b.health[p], Cardinality(Felt(last.detonated, p)))
  BY <1>6, <1>9 DEF Chained
<1> DEFINE U == {n \in 0..N : r[n] \subseteq last.detonated}
<1>11. N \in U
  <2>1. 0 \in U
    BY <1>1, <1>2, <1>10 DEF ReachWalk
  <2>2. ASSUME NEW n \in 0..(N - 1), n \in U PROVE n + 1 \in U
    <3>1. n + 1 \in 1..N /\ n + 1 \in 0..N /\ (n + 1) - 1 = n
      BY <1>1
    <3>2. r[n + 1] = Reached(r[n], knives) /\ r[n] \subseteq last.detonated
      BY <1>2, <2>2, <3>1 DEF ReachWalk
    <3>3. ASSUME NEW k \in Reached(r[n], knives) PROVE k \in last.detonated
      <4>1. k \in knives
        BY <3>3 DEF Reached
      <4>2. PICK q \in r[n] : Near(k.place, q.place, BlastRadius)
        BY <3>3 DEF Reached
      <4>3. q \in knives /\ k.place \in Int /\ q.place \in Int /\ BlastRadius \in Nat
        BY <1>8, <3>2, <4>1, RadiusAssumption DEF Object
      <4>4. Near(q.place, k.place, BlastRadius)
        BY <4>2, <4>3, NearIs
      <4> QED BY <1>10, <3>2, <4>1, <4>2, <4>4
    <3> QED BY <3>1, <3>2, <3>3
  <2>3. 0..N \subseteq U
    <3>1. \A n \in 0..(N - 1) : n \in U => n + 1 \in U BY <2>2
    <3> HIDE DEF U, N
    <3> QED BY <1>1, <2>1, <3>1, UpTo
  <2>4. N \in 0..N BY <1>1
  <2> HIDE DEF U, N
  <2> QED BY <2>3, <2>4
<1>12. last.detonated = Connected(knives, start)
  BY <1>2, <1>10, <1>11
<1> QED BY <1>10, <1>12 DEF last, N

(* There is a youngest knife wherever there is one.                        *)
LEMMA LandingIs ==
  ASSUME NEW b \in Board, Numbered(b), NEW place, Here(b, place) # {}
  PROVE  /\ Landing(b, place) \in Here(b, place)
         /\ \A q \in Here(b, place) : q.sequence <= Landing(b, place).sequence
<1> DEFINE here == Here(b, place)
           younger == {b.next - o.sequence : o \in here}
<1>1. /\ here \subseteq Object /\ b.next \in Nat
      /\ \A o \in here : o.sequence \in Nat /\ o.sequence < b.next
  BY BoardIs DEF Here, Knives, Numbered, Object
<1>2. younger \subseteq Nat /\ younger # {}
  BY <1>1
<1> HIDE DEF younger
<1>3. PICK n \in younger : \A m \in younger : ~ (<<m, n>> \in OpToRel(<, Nat))
  BY <1>2, NatLessThanWellFounded, WFMin
<1>4. PICK o \in here : n = b.next - o.sequence
  BY <1>3 DEF younger
<1>5. ASSUME NEW q \in here PROVE q.sequence <= o.sequence
  <2> SUFFICES ASSUME ~ (q.sequence <= o.sequence) PROVE FALSE
    OBVIOUS
  <2> DEFINE m == b.next - q.sequence
  <2>1. m \in younger
    BY DEF younger
  <2>2. m \in Nat /\ n \in Nat /\ m < n
    BY <1>1, <1>4
  <2> HIDE DEF m
  <2>3. <<m, n>> \in OpToRel(<, Nat)
    BY <2>2 DEF OpToRel
  <2> QED BY <1>3, <2>1, <2>3
<1> HIDE DEF here
<1>6. \E k \in here : \A q \in here : q.sequence <= k.sequence
  BY <1>5
<1> QED BY <1>6 DEF Landing, here

(* Knives a detonation takes.                                              *)
Chain(b, place) ==
  IF Here(b, place) = {} \/ Triggered(b, place) = {} THEN {}
  ELSE Connected(Knives(b), Triggered(b, place) \cup {Landing(b, place)})

(* What a chain makes of a board: hurt is the board before its knives go.  *)
Detonates(b, place, hurt) ==
  /\ \A p \in Player :
       hurt.health[p] = Less(b.health[p], Cardinality(Felt(Chain(b, place), p)))
  /\ \/ ChainDetonate(b, place) = Discard(hurt, Chain(b, place), "Detonated")
     \/ ChainDetonate(b, place) = hurt /\ Chain(b, place) = {}

(* A detonation hurts and discards, or does nothing.                       *)
LEMMA ChainDetonateIs ==
  ASSUME NEW b \in Board, Numbered(b), NEW place
  PROVE  \E hurt \in Hurt(b) : Detonates(b, place, hurt)
<1> DEFINE after == ChainDetonate(b, place)
<1>1. CASE Here(b, place) = {} \/ Triggered(b, place) = {}
  <2>1. after = b
    <3>1. CASE Here(b, place) = {}
      BY <3>1 DEF ChainDetonate, Here
    <3>2. CASE Triggered(b, place) = {}
      BY <3>2 DEF ChainDetonate, Triggered, Landing, Here
    <3> QED BY <1>1, <3>1, <3>2
  <2>2. Chain(b, place) = {}
    BY <1>1 DEF Chain
  <2>3. ASSUME NEW p \in Player
        PROVE  b.health[p] = Less(b.health[p], Cardinality(Felt(Chain(b, place), p)))
    <3>1. Cardinality(Felt({}, p)) = 0
      <4>1. Felt({}, p) = {} BY DEF Felt
      <4> QED BY <4>1, FS_EmptySet
    <3>2. b.health[p] \in Nat
      BY BoardIs
    <3> QED BY <2>2, <3>1, <3>2 DEF Less
  <2>4. b \in Hurt(b)
    BY DEF Hurt
  <2> HIDE DEF after
  <2>5. Detonates(b, place, b)
    BY <2>1, <2>2, <2>3 DEF Detonates, after
  <2> QED BY <2>4, <2>5
<1>2. CASE Here(b, place) # {} /\ Triggered(b, place) # {}
  <2> DEFINE knives == Knives(b)
             start == Triggered(b, place) \cup {Landing(b, place)}
             N == Cardinality(knives)
  <2>1. knives \subseteq ToSet(b.objects)
    BY DEF Knives
  <2>2. IsFiniteSet(ToSet(b.objects)) /\ ToSet(b.objects) \in SUBSET Object
    BY OwnedFinite, BoardIs
  <2>3. Landing(b, place) \in knives
    BY <1>2, LandingIs DEF Here
  <2>4. start \in SUBSET knives
    BY <2>3 DEF Triggered
  <2>5. PICK g \in [0..N -> Chains(b, knives)] :
          /\ ChainWalk(g, b, knives, start)
          /\ after = Discard(g[N].board, g[N].detonated, "Detonated")
    BY <1>2, <2>3, ChainUnfolds
  <2>6. Chain(b, place) = Connected(knives, start)
    BY <1>2 DEF Chain
  <2> HIDE DEF knives, start, after
  <2>7. IsFiniteSet(knives) /\ knives \in SUBSET Object
    BY <2>1, <2>2, FS_Subset
  <2>8. N \in Nat
    BY <2>7, FS_CardinalityType
  <2>9. /\ g[N].detonated = Connected(knives, start)
        /\ \A p \in Player : g[N].board.health[p] =
             Less(b.health[p], Cardinality(Felt(Connected(knives, start), p)))
    BY <2>4, <2>5, <2>7, ChainEnds
  <2>10. g[N].board \in Hurt(b)
    BY <2>5, <2>8 DEF Chains
  <2>11. Detonates(b, place, g[N].board)
    BY <2>5, <2>6, <2>9 DEF Detonates, after
  <2> QED BY <2>10, <2>11
<1> QED BY <1>1, <1>2

(* The knives of the chain go, and each hurts whoever is near.             *)
LEMMA ChainDetonateLeaves ==
  ASSUME NEW b \in Board, Numbered(b), NEW place
  PROVE  /\ Knives(ChainDetonate(b, place)) = Knives(b) \ Chain(b, place)
         /\ \A p \in Player : ChainDetonate(b, place).health[p] =
              Less(b.health[p], Cardinality(Felt(Chain(b, place), p)))
<1> DEFINE after == ChainDetonate(b, place)
           gone == Chain(b, place)
<1>1. PICK hurt \in Hurt(b) : Detonates(b, place, hurt)
  BY ChainDetonateIs
<1> HIDE DEF after, gone
<1>2. hurt \in Board /\ Numbered(hurt) /\ hurt.objects = b.objects
  BY DEF Hurt, Numbered
<1>3. CASE after = Discard(hurt, gone, "Detonated")
  <2>1. after \in Sifted(hurt) /\ ToSet(after.objects) = ToSet(hurt.objects) \ gone
    BY <1>2, <1>3, DiscardIs DEF Cause
  <2>2. after.health = hurt.health
    BY <2>1 DEF Sifted, SameStatuses
  <2> QED BY <1>1, <1>2, <2>1, <2>2 DEF Detonates, Knives, after, gone
<1>4. CASE after = hurt /\ gone = {}
  BY <1>1, <1>2, <1>4 DEF Detonates, Knives, after, gone
<1> QED BY <1>1, <1>3, <1>4 DEF Detonates, after, gone

(* A detonation keeps everything.                                          *)
LEMMA ChainDetonateKeeps ==
  ASSUME NEW pre \in Board, NEW ended, NEW b \in Kept(pre, ended), NEW place
  PROVE  ChainDetonate(b, place) \in Kept(pre, ended)
<1> DEFINE after == ChainDetonate(b, place)
           gone == Chain(b, place)
<1>1. b \in Board /\ Numbered(b)
  BY DEF Kept, ObjectSide
<1>2. PICK hurt \in Hurt(b) : Detonates(b, place, hurt)
  BY <1>1, ChainDetonateIs
<1> HIDE DEF after, gone
<1>3. hurt \in Kept(pre, ended)
  BY <1>2, SidesApart DEF Hurt, Kept
<1>4. CASE after = Discard(hurt, gone, "Detonated")
  <2>1. "Detonated" \in Cause BY DEF Cause
  <2>2. after \in Kept(pre, ended)
    BY <1>3, <1>4, <2>1, DiscardKeeps
  <2> QED BY <2>2 DEF after
<1>5. CASE after = hurt
  BY <1>3, <1>5 DEF after
<1> QED BY <1>2, <1>4, <1>5 DEF Detonates, after, gone

(* The knife that has just landed survives the cap, and is the youngest at *)
(* its place.                                                              *)
LEMMA LandsLast ==
  ASSUME NEW b \in Board, Numbered(b), NEW actor \in Player, NEW place \in Int
  PROVE  LET o == Fresh(b, actor, "EmbeddedKnife", place, Never)
             after == Embed(b, actor, place)
         IN  /\ o \in Knives(after) /\ o.place = place
             /\ \A k \in Knives(after) : k.sequence = b.next => k = o
             /\ \A k \in Knives(after) \ {o} : k.sequence < o.sequence
             /\ Numbered(after)
             /\ after \in Board /\ after.health = b.health
<1> DEFINE embedded == Spawn(b, actor, "EmbeddedKnife", place, Never)
           mine == Knives(embedded) \cap Owned(embedded, actor)
           o == Fresh(b, actor, "EmbeddedKnife", place, Never)
           after == Embed(b, actor, place)
<1>1. Never \in Nat /\ KnifeCap \in Nat \ {0} /\ b.next \in Nat /\ ToSet(b.objects) \in SUBSET Object
  BY RadiusAssumption, BoardIs DEF Never
<1>2. /\ o \in Object /\ o \notin ToSet(b.objects) /\ embedded \in Board
      /\ SameStatuses(b, embedded)
      /\ ToSet(embedded.objects) = ToSet(b.objects) \cup {o} /\ Numbered(embedded)
  BY <1>1, SpawnIs
<1>3. o.owner = actor /\ o.kind = "EmbeddedKnife" /\ o.place = place /\ o.sequence = b.next
  BY DEF Fresh
<1>4. after = IF Cardinality(mine) <= KnifeCap THEN embedded
              ELSE Discard(embedded, Oldest(mine), "CapacityEvicted")
  BY DEF Embed
<1>5. o \in mine /\ mine \subseteq ToSet(embedded.objects)
  BY <1>2, <1>3 DEF Knives, Owned
<1> HIDE DEF embedded, mine, o, after
<1>6. \A k \in ToSet(b.objects) : k.sequence < b.next /\ k.sequence \in Nat
  BY <1>1 DEF Numbered, Object
<1>7. /\ after \in Board /\ Numbered(after) /\ after.health = b.health
      /\ ToSet(after.objects) \subseteq ToSet(embedded.objects) /\ o \in ToSet(after.objects)
  <2>1. CASE Cardinality(mine) <= KnifeCap
    BY <1>2, <1>4, <2>1 DEF SameStatuses
  <2>2. CASE ~ (Cardinality(mine) <= KnifeCap)
    <3>1. after = Discard(embedded, Oldest(mine), "CapacityEvicted")
      BY <1>4, <2>2
    <3>2. /\ after \in Sifted(embedded) /\ Numbered(after)
          /\ ToSet(after.objects) = ToSet(embedded.objects) \ Oldest(mine)
      BY <1>2, <3>1, DiscardIs DEF Cause
    <3>3. mine # {o}
      <4>1. Cardinality({o}) = 1 BY FS_Singleton
      <4> QED BY <1>1, <2>2, <4>1
    <3>4. PICK q \in mine : q # o
      BY <1>5, <3>3
    <3>5. q \in ToSet(b.objects)
      BY <1>2, <1>5, <3>4
    <3>6. o \notin Oldest(mine)
      BY <1>1, <1>3, <1>6, <3>4, <3>5 DEF Oldest
    <3> QED BY <1>2, <3>2, <3>6 DEF Sifted, SameStatuses
  <2> QED BY <2>1, <2>2
<1>8. \A k \in ToSet(after.objects) \ {o} : k.sequence < o.sequence /\ k.sequence # b.next
  BY <1>1, <1>2, <1>3, <1>6, <1>7
<1>9. o \in Knives(after) /\ Knives(after) \subseteq ToSet(after.objects)
  BY <1>3, <1>7 DEF Knives
<1> QED BY <1>3, <1>7, <1>8, <1>9 DEF o, after

(* In that chain the spread is what ChainsAreComplete says of it.          *)
LEMMA ChainIsComplete ==
  ASSUME NEW b \in Board, Numbered(b), Capped(b), NEW actor \in Player, NEW place \in Int
  PROVE  LET now    == Embed(b, actor, place)
             knives == Knives(now)
             landed == CHOOSE k \in knives : k.sequence = b.next
             near   == {k \in knives \ {landed} : Near(k.place, place, TriggerRadius)}
         IN  Chain(now, place) = IF near = {} THEN {} ELSE Connected(knives, near \cup {landed})
<1> DEFINE o == Fresh(b, actor, "EmbeddedKnife", place, Never)
           now == Embed(b, actor, place)
           knives == Knives(now)
           landed == CHOOSE k \in knives : k.sequence = b.next
           near == {k \in knives \ {landed} : Near(k.place, place, TriggerRadius)}
<1>1. /\ o \in knives /\ o.place = place /\ o.sequence = b.next
      /\ \A k \in knives : k.sequence = b.next => k = o
      /\ \A k \in knives \ {o} : k.sequence < o.sequence
      /\ Numbered(now) /\ now \in Board
  BY LandsLast DEF Fresh
<1>2. b.next \in Nat /\ TriggerRadius \in Nat
  BY BoardIs, RadiusAssumption
<1>3. knives \subseteq Object
  BY <1>1, BoardIs DEF Knives
<1> HIDE DEF o, now
<1>4. landed = o
  <2> HIDE DEF knives
  <2>1. landed \in knives /\ landed.sequence = b.next
    BY <1>1
  <2> HIDE DEF landed
  <2> QED BY <1>1, <2>1
<1>5. Here(now, place) # {} /\ o \in Here(now, place)
  BY <1>1 DEF Here
<1>6. /\ Landing(now, place) \in Here(now, place)
      /\ \A q \in Here(now, place) : q.sequence <= Landing(now, place).sequence
  BY <1>1, <1>5, LandingIs
<1>7. Landing(now, place) = o
  <2>1. Landing(now, place) \in knives /\ o.sequence <= Landing(now, place).sequence
    BY <1>5, <1>6 DEF Here
  <2>2. Landing(now, place).sequence \in Nat /\ o.sequence \in Nat
    BY <1>1, <1>2, <1>3, <2>1 DEF Object
  <2> SUFFICES ASSUME Landing(now, place) # o PROVE FALSE
    OBVIOUS
  <2>3. Landing(now, place).sequence < o.sequence
    BY <1>1, <2>1
  <2> QED BY <2>1, <2>2, <2>3
<1>8. Triggered(now, place) = near
  <2>1. \A k \in knives : k.place \in Int
    BY <1>3 DEF Object
  <2>2. \A k \in knives : Near(o.place, k.place, TriggerRadius) <=> Near(k.place, place, TriggerRadius)
    BY <1>1, <1>2, <2>1, NearIs
  <2> HIDE DEF landed
  <2> QED BY <1>4, <1>7, <2>2 DEF Triggered
<1>9. Chain(now, place) = IF near = {} THEN {} ELSE Connected(knives, near \cup {landed})
  <2> HIDE DEF near, landed
  <2> QED BY <1>4, <1>5, <1>7, <1>8 DEF Chain, knives
<1> QED BY <1>9 DEF now

-----------------------------------------------------------------------------
(* The parts of a command.                                                 *)

(* A tick of one status keeps everything.                                  *)
LEMMA TickOneKeeps ==
  ASSUME NEW pre \in Board, NEW ended, NEW p \in Player, p \in ended,
         NEW b \in Kept(pre, ended), NEW kind \in ToSet(Timed)
  PROVE  TickStatus(b, p, kind) \in Kept(pre, ended)
<1>1. b \in Board /\ StatusSide(pre, b, ended)
  BY DEF Kept
<1>2. /\ TickStatus(b, p, kind) \in Board /\ StatusSide(pre, TickStatus(b, p, kind), ended)
      /\ SameObjects(b, TickStatus(b, p, kind))
  BY <1>1, TickStatusKeeps
<1> QED BY <1>2, StatusesMove

(* A status laid on one player keeps everything.                           *)
LEMMA ApplyOneKeeps ==
  ASSUME NEW pre \in Board, NEW ended, NEW b \in Kept(pre, ended), NEW p \in Player,
         NEW effect \in EffectData, effect.kind \in Kind, NEW targets
  PROVE  ApplyOne(b, effect, targets, p) \in Kept(pre, ended)
<1> DEFINE status == [magnitude |-> effect.magnitude, turns |-> effect.turns]
<1>1. b \in Board /\ StatusSide(pre, b, ended)
  BY DEF Kept
<1>2. status \in Status
  BY DEF EffectData, Status, Never
<1>3. /\ Apply(b, p, effect.kind, status) \in Board
      /\ StatusSide(pre, Apply(b, p, effect.kind, status), ended)
      /\ SameObjects(b, Apply(b, p, effect.kind, status))
  <2> HIDE DEF status
  <2> QED BY <1>1, <1>2, ApplyKeeps
<1>4. Apply(b, p, effect.kind, status) \in Kept(pre, ended)
  <2> HIDE DEF status
  <2> QED BY <1>3, StatusesMove
<1> QED BY <1>4 DEF ApplyOne

(* A strike keeps everything.                                              *)
LEMMA StrikeKeeps ==
  ASSUME NEW pre \in Board, NEW ended, NEW b \in Kept(pre, ended), NEW p \in Player,
         NEW ability, NEW damage \in Nat
  PROVE  Strike(b, p, ability, damage) \in Kept(pre, ended)
<1> DEFINE marked == IF ability.crits THEN Consume(b, p) ELSE b
           health == [marked.health EXCEPT ![p] = IF @ > damage THEN @ - damage ELSE 0]
<1>1. b \in Board /\ StatusSide(pre, b, ended)
  BY DEF Kept
<1>2. Consume(b, p) \in Kept(pre, ended)
  <2>1. /\ Consume(b, p) \in Board /\ StatusSide(pre, Consume(b, p), ended)
        /\ SameObjects(b, Consume(b, p))
    BY <1>1, ConsumeKeeps
  <2> QED BY <2>1, StatusesMove
<1>3. marked \in Kept(pre, ended)
  BY <1>2
<1>4. Strike(b, p, ability, damage) =
        [marked EXCEPT !.health[p] = IF @ > damage THEN @ - damage ELSE 0]
  BY DEF Strike
<1> HIDE DEF marked
<1>5. marked \in Board /\ marked.health \in [Player -> Nat]
  BY <1>3, BoardIs DEF Kept
<1>6. health \in [Player -> Nat]
  BY <1>5
<1>7. Strike(b, p, ability, damage) = [marked EXCEPT !.health = health]
  BY <1>4, <1>5 DEF Board
<1> HIDE DEF health
<1> QED BY <1>3, <1>6, <1>7, HealthMoves

(* So does a strike that may be spared.                                    *)
LEMMA StrikeOneKeeps ==
  ASSUME NEW pre \in Board, NEW ended, NEW b \in Kept(pre, ended), NEW p \in Player,
         NEW ability, NEW targets, NEW damage \in Nat
  PROVE  StrikeOne(b, ability, targets, damage, p) \in Kept(pre, ended)
BY StrikeKeeps DEF StrikeOne

(* The tick keeps everything: its loop is a walk (FoldPath).               *)
LEMMA TickKeeps ==
  ASSUME NEW pre \in Board, NEW ended, NEW b \in Kept(pre, ended),
         NEW p \in Player, p \in ended
  PROVE  Tick(b, p) \in Kept(pre, ended)
<1> DEFINE N == Len(Timed)
           S == Kept(pre, ended)
           base == b
           step == [n \in 1..N |-> [acc \in S |-> TickStatus(acc, p, Timed[n])]]
           iter == CHOOSE iter : iter = [s \in SUBSET DOMAIN Timed |->
                     IF s = {} THEN b
                     ELSE TickStatus(iter[s \ {Max(s)}], p, Timed[Max(s)])]
<1>1. N \in Nat /\ DOMAIN Timed = 1..N
  BY DEF Timed
<1>2. base \in S /\ \A acc \in S : \A n \in 1..N : TickStatus(acc, p, Timed[n]) \in S
  <2>1. \A n \in 1..N : Timed[n] \in ToSet(Timed)
    BY <1>1 DEF ToSet
  <2> HIDE DEF N
  <2> QED BY <2>1, TickOneKeeps
<1>3. Tick(b, p) = iter[1..N]
  BY <1>1 DEF Tick, FoldLeft, MapThenFoldSet
<1>4. /\ step \in [1..N -> [S -> S]]
      /\ \A n \in 1..N, acc \in S : step[n][acc] = TickStatus(acc, p, Timed[n])
  BY <1>2
<1> HIDE DEF step, N, S, base
<1>5. PICK f \in [SUBSET (1..N) -> S] : \A s \in SUBSET (1..N) :
         f[s] = IF s = {} THEN base ELSE step[Max(s)][f[s \ {Max(s)}]]
  <2>1. \E f \in [SUBSET (1..N) -> S] : Folds(f, N, base, step)
    BY <1>2, <1>1, <1>4, FoldExists
  <2> QED BY <2>1 DEF Folds
<1>6. \A s \in SUBSET (1..N) : s # {} => Max(s) \in 1..N
  BY <1>1, MaxOfSome
<1>7. f = [s \in SUBSET (1..N) |-> IF s = {} THEN base
                     ELSE TickStatus(f[s \ {Max(s)}], p, Timed[Max(s)])]
  BY <1>4, <1>5, <1>6
<1>8. iter = [s \in SUBSET (1..N) |-> IF s = {} THEN base
                     ELSE TickStatus(iter[s \ {Max(s)}], p, Timed[Max(s)])]
  BY <1>1, <1>7 DEF base
<1> HIDE DEF iter
<1>9. Unfolds(iter, N, base, step, S)
  BY <1>4, <1>6, <1>8 DEF Unfolds
<1>10. base \in S /\ N \in Nat /\ step \in [1..N -> [S -> S]]
  BY <1>2, <1>1, <1>4
<1>11. PICK g \in [0..N -> S] : Walks(g, N, base, step) /\ g[N] = iter[1..N]
  <2>1. Reaches(iter, N, base, step, S)
    BY <1>9, <1>10, FoldPath
  <2> QED BY <2>1 DEF Reaches
<1> QED BY <1>1, <1>3, <1>11 DEF S, base

(* So does the loop over those an effect catches.                          *)
LEMMA ApplyEachKeeps ==
  ASSUME NEW pre \in Board, NEW ended, NEW b \in Kept(pre, ended),
         NEW effect \in EffectData, effect.kind \in Kind, NEW targets
  PROVE  ApplyEach(b, effect, targets) \in Kept(pre, ended)
<1> DEFINE N == Len(Roster)
           S == Kept(pre, ended)
           base == b
           step == [n \in 1..N |-> [acc \in S |-> ApplyOne(acc, effect, targets, Roster[n])]]
           iter == CHOOSE iter : iter = [s \in SUBSET DOMAIN Roster |->
                     IF s = {} THEN b
                     ELSE ApplyOne(iter[s \ {Max(s)}], effect, targets, Roster[Max(s)])]
<1>1. N \in Nat /\ DOMAIN Roster = 1..N
  BY RosterIs
<1>2. base \in S /\ \A acc \in S : \A n \in 1..N : ApplyOne(acc, effect, targets, Roster[n]) \in S
  <2>1. \A n \in 1..N : Roster[n] \in Player
    BY RosterIs
  <2> HIDE DEF N
  <2> QED BY <2>1, ApplyOneKeeps
<1>3. ApplyEach(b, effect, targets) = iter[1..N]
  BY <1>1 DEF ApplyEach, ApplyOne, FoldLeft, MapThenFoldSet
<1>4. /\ step \in [1..N -> [S -> S]]
      /\ \A n \in 1..N, acc \in S : step[n][acc] = ApplyOne(acc, effect, targets, Roster[n])
  BY <1>2
<1> HIDE DEF step, N, S, base
<1>5. PICK f \in [SUBSET (1..N) -> S] : \A s \in SUBSET (1..N) :
         f[s] = IF s = {} THEN base ELSE step[Max(s)][f[s \ {Max(s)}]]
  <2>1. \E f \in [SUBSET (1..N) -> S] : Folds(f, N, base, step)
    BY <1>2, <1>1, <1>4, FoldExists
  <2> QED BY <2>1 DEF Folds
<1>6. \A s \in SUBSET (1..N) : s # {} => Max(s) \in 1..N
  BY <1>1, MaxOfSome
<1>7. f = [s \in SUBSET (1..N) |-> IF s = {} THEN base
                     ELSE ApplyOne(f[s \ {Max(s)}], effect, targets, Roster[Max(s)])]
  BY <1>4, <1>5, <1>6
<1>8. iter = [s \in SUBSET (1..N) |-> IF s = {} THEN base
                     ELSE ApplyOne(iter[s \ {Max(s)}], effect, targets, Roster[Max(s)])]
  BY <1>1, <1>7 DEF base
<1> HIDE DEF iter
<1>9. Unfolds(iter, N, base, step, S)
  BY <1>4, <1>6, <1>8 DEF Unfolds
<1>10. base \in S /\ N \in Nat /\ step \in [1..N -> [S -> S]]
  BY <1>2, <1>1, <1>4
<1>11. PICK g \in [0..N -> S] : Walks(g, N, base, step) /\ g[N] = iter[1..N]
  <2>1. Reaches(iter, N, base, step, S)
    BY <1>9, <1>10, FoldPath
  <2> QED BY <2>1 DEF Reaches
<1> QED BY <1>1, <1>3, <1>11 DEF S, base

(* So does the loop over the targets of a strike.                          *)
LEMMA StrikeEachKeeps ==
  ASSUME NEW pre \in Board, NEW ended, NEW b \in Kept(pre, ended),
         NEW ability, NEW targets, NEW damage \in Nat
  PROVE  StrikeEach(b, ability, targets, damage) \in Kept(pre, ended)
<1> DEFINE N == Len(Roster)
           S == Kept(pre, ended)
           base == b
           step == [n \in 1..N |-> [acc \in S |-> StrikeOne(acc, ability, targets, damage, Roster[n])]]
           iter == CHOOSE iter : iter = [s \in SUBSET DOMAIN Roster |->
                     IF s = {} THEN b
                     ELSE StrikeOne(iter[s \ {Max(s)}], ability, targets, damage, Roster[Max(s)])]
<1>1. N \in Nat /\ DOMAIN Roster = 1..N
  BY RosterIs
<1>2. base \in S /\ \A acc \in S : \A n \in 1..N : StrikeOne(acc, ability, targets, damage, Roster[n]) \in S
  <2>1. \A n \in 1..N : Roster[n] \in Player
    BY RosterIs
  <2> HIDE DEF N
  <2> QED BY <2>1, StrikeOneKeeps
<1>3. StrikeEach(b, ability, targets, damage) = iter[1..N]
  BY <1>1 DEF StrikeEach, StrikeOne, FoldLeft, MapThenFoldSet
<1>4. /\ step \in [1..N -> [S -> S]]
      /\ \A n \in 1..N, acc \in S : step[n][acc] = StrikeOne(acc, ability, targets, damage, Roster[n])
  BY <1>2
<1> HIDE DEF step, N, S, base
<1>5. PICK f \in [SUBSET (1..N) -> S] : \A s \in SUBSET (1..N) :
         f[s] = IF s = {} THEN base ELSE step[Max(s)][f[s \ {Max(s)}]]
  <2>1. \E f \in [SUBSET (1..N) -> S] : Folds(f, N, base, step)
    BY <1>2, <1>1, <1>4, FoldExists
  <2> QED BY <2>1 DEF Folds
<1>6. \A s \in SUBSET (1..N) : s # {} => Max(s) \in 1..N
  BY <1>1, MaxOfSome
<1>7. f = [s \in SUBSET (1..N) |-> IF s = {} THEN base
                     ELSE StrikeOne(f[s \ {Max(s)}], ability, targets, damage, Roster[Max(s)])]
  BY <1>4, <1>5, <1>6
<1>8. iter = [s \in SUBSET (1..N) |-> IF s = {} THEN base
                     ELSE StrikeOne(iter[s \ {Max(s)}], ability, targets, damage, Roster[Max(s)])]
  BY <1>1, <1>7 DEF base
<1> HIDE DEF iter
<1>9. Unfolds(iter, N, base, step, S)
  BY <1>4, <1>6, <1>8 DEF Unfolds
<1>10. base \in S /\ N \in Nat /\ step \in [1..N -> [S -> S]]
  BY <1>2, <1>1, <1>4
<1>11. PICK g \in [0..N -> S] : Walks(g, N, base, step) /\ g[N] = iter[1..N]
  <2>1. Reaches(iter, N, base, step, S)
    BY <1>9, <1>10, FoldPath
  <2> QED BY <2>1 DEF Reaches
<1> QED BY <1>1, <1>3, <1>11 DEF S, base

(* So does the loop over the strikes of an attack.                         *)
LEMMA StrikesKeep ==
  ASSUME NEW pre \in Board, NEW ended, NEW b \in Kept(pre, ended),
         NEW ability, NEW T, NEW hits \in Seq(T), NEW damage \in Nat
  PROVE  Strikes(b, ability, hits, damage) \in Kept(pre, ended)
<1> DEFINE N == Len(hits)
           S == Kept(pre, ended)
           base == b
           step == [n \in 1..N |-> [acc \in S |-> StrikeEach(acc, ability, hits[n], damage)]]
           iter == CHOOSE iter : iter = [s \in SUBSET DOMAIN hits |->
                     IF s = {} THEN b
                     ELSE StrikeEach(iter[s \ {Max(s)}], ability, hits[Max(s)], damage)]
<1>1. N \in Nat /\ DOMAIN hits = 1..N
  OBVIOUS
<1>2. base \in S /\ \A acc \in S : \A n \in 1..N : StrikeEach(acc, ability, hits[n], damage) \in S
  <2> QED BY StrikeEachKeeps
<1>3. Strikes(b, ability, hits, damage) = iter[1..N]
  BY <1>1 DEF Strikes, FoldLeft, MapThenFoldSet
<1>4. /\ step \in [1..N -> [S -> S]]
      /\ \A n \in 1..N, acc \in S : step[n][acc] = StrikeEach(acc, ability, hits[n], damage)
  BY <1>2
<1> HIDE DEF step, N, S, base
<1>5. PICK f \in [SUBSET (1..N) -> S] : \A s \in SUBSET (1..N) :
         f[s] = IF s = {} THEN base ELSE step[Max(s)][f[s \ {Max(s)}]]
  <2>1. \E f \in [SUBSET (1..N) -> S] : Folds(f, N, base, step)
    BY <1>2, <1>1, <1>4, FoldExists
  <2> QED BY <2>1 DEF Folds
<1>6. \A s \in SUBSET (1..N) : s # {} => Max(s) \in 1..N
  BY <1>1, MaxOfSome
<1>7. f = [s \in SUBSET (1..N) |-> IF s = {} THEN base
                     ELSE StrikeEach(f[s \ {Max(s)}], ability, hits[Max(s)], damage)]
  BY <1>4, <1>5, <1>6
<1>8. iter = [s \in SUBSET (1..N) |-> IF s = {} THEN base
                     ELSE StrikeEach(iter[s \ {Max(s)}], ability, hits[Max(s)], damage)]
  BY <1>1, <1>7 DEF base
<1> HIDE DEF iter
<1>9. Unfolds(iter, N, base, step, S)
  BY <1>4, <1>6, <1>8 DEF Unfolds
<1>10. base \in S /\ N \in Nat /\ step \in [1..N -> [S -> S]]
  BY <1>2, <1>1, <1>4
<1>11. PICK g \in [0..N -> S] : Walks(g, N, base, step) /\ g[N] = iter[1..N]
  <2>1. Reaches(iter, N, base, step, S)
    BY <1>9, <1>10, FoldPath
  <2> QED BY <2>1 DEF Reaches
<1> QED BY <1>1, <1>3, <1>11 DEF S, base

(* An effect of any kind keeps everything.                                 *)
LEMMA ResolveKeeps ==
  ASSUME NEW pre \in Board, NEW ended, NEW b \in Kept(pre, ended), active \in Player,
         NEW effect \in EffectData, NEW named, NEW place \in Int
  PROVE  Resolve(b, effect, named, place) \in Kept(pre, ended)
<1>1. effect.turns \in Nat /\ effect.kind \in {"SpawnTurret", "EmbedProjectile", "ChainDetonate"} \cup Kind
  BY DEF EffectData, Kind, Never
<1>2. ToSet(Timed) \cup {Mark} = {"Chill", "Embers", "Lockdown", "GuaranteeCrit"}
  BY KindIs DEF Kind
<1>3. CASE effect.kind = "SpawnTurret"
  <2>1. Resolve(b, effect, named, place) = SpawnTurret(b, active, place, effect.turns)
    BY <1>3, <1>2 DEF Resolve
  <2> QED BY <1>1, <2>1, SpawnTurretKeeps
<1>4. CASE effect.kind = "EmbedProjectile"
  <2>1. Resolve(b, effect, named, place) = Embed(b, active, place)
    BY <1>4, <1>2 DEF Resolve
  <2> QED BY <2>1, EmbedKeeps
<1>5. CASE effect.kind = "ChainDetonate"
  <2>1. Resolve(b, effect, named, place) = ChainDetonate(b, place)
    BY <1>5, <1>2 DEF Resolve
  <2> QED BY <2>1, ChainDetonateKeeps
<1>6. CASE effect.kind \in Kind
  <2>1. effect.kind \notin {"SpawnTurret", "EmbedProjectile", "ChainDetonate"}
    BY <1>6, KindIs
  <2>2. Resolve(b, effect, named, place) = ApplyEach(b, effect, Caught(b, effect, named, place))
    BY <1>6, <2>1 DEF Resolve, Kind
  <2> QED BY <1>6, <2>2, ApplyEachKeeps
<1> QED BY <1>1, <1>3, <1>4, <1>5, <1>6

(* So does the loop over the effects of an ability.                        *)
LEMMA ResolveEachKeeps ==
  ASSUME NEW pre \in Board, NEW ended, NEW b \in Kept(pre, ended), active \in Player,
         NEW ability, NEW effects \in Seq(EffectData), ability.effects = effects,
         NEW named \in SUBSET Player, NEW place \in Int
  PROVE  ResolveEach(b, ability, named, place) \in Kept(pre, ended)
<1> DEFINE N == Len(effects)
           S == Kept(pre, ended)
           base == b
           step == [n \in 1..N |-> [acc \in S |-> Resolve(acc, effects[n], named, place)]]
           iter == CHOOSE iter : iter = [s \in SUBSET DOMAIN effects |->
                     IF s = {} THEN b
                     ELSE Resolve(iter[s \ {Max(s)}], effects[Max(s)], named, place)]
<1>1. N \in Nat /\ DOMAIN effects = 1..N
  OBVIOUS
<1>2. base \in S /\ \A acc \in S : \A n \in 1..N : Resolve(acc, effects[n], named, place) \in S
  <2>1. \A n \in 1..N : effects[n] \in EffectData
    OBVIOUS
  <2> HIDE DEF N
  <2> QED BY <2>1, ResolveKeeps
<1>3. ResolveEach(b, ability, named, place) = iter[1..N]
  BY <1>1 DEF ResolveEach, FoldLeft, MapThenFoldSet
<1>4. /\ step \in [1..N -> [S -> S]]
      /\ \A n \in 1..N, acc \in S : step[n][acc] = Resolve(acc, effects[n], named, place)
  BY <1>2
<1> HIDE DEF step, N, S, base
<1>5. PICK f \in [SUBSET (1..N) -> S] : \A s \in SUBSET (1..N) :
         f[s] = IF s = {} THEN base ELSE step[Max(s)][f[s \ {Max(s)}]]
  <2>1. \E f \in [SUBSET (1..N) -> S] : Folds(f, N, base, step)
    BY <1>2, <1>1, <1>4, FoldExists
  <2> QED BY <2>1 DEF Folds
<1>6. \A s \in SUBSET (1..N) : s # {} => Max(s) \in 1..N
  BY <1>1, MaxOfSome
<1>7. f = [s \in SUBSET (1..N) |-> IF s = {} THEN base
                     ELSE Resolve(f[s \ {Max(s)}], effects[Max(s)], named, place)]
  BY <1>4, <1>5, <1>6
<1>8. iter = [s \in SUBSET (1..N) |-> IF s = {} THEN base
                     ELSE Resolve(iter[s \ {Max(s)}], effects[Max(s)], named, place)]
  BY <1>1, <1>7 DEF base
<1> HIDE DEF iter
<1>9. Unfolds(iter, N, base, step, S)
  BY <1>4, <1>6, <1>8 DEF Unfolds
<1>10. base \in S /\ N \in Nat /\ step \in [1..N -> [S -> S]]
  BY <1>2, <1>1, <1>4
<1>11. PICK g \in [0..N -> S] : Walks(g, N, base, step) /\ g[N] = iter[1..N]
  <2>1. Reaches(iter, N, base, step, S)
    BY <1>9, <1>10, FoldPath
  <2> QED BY <2>1 DEF Reaches
<1> QED BY <1>1, <1>3, <1>11 DEF S, base

-----------------------------------------------------------------------------
(* The end of a turn.                                                      *)

(* Boards on the way through the cleanup.                                  *)
Swept(b, pre, ended) == {acc \in Kept(pre, ended) : acc.health = b.health}

(* The cleanup, player by player.                                          *)
CleanupWalk(g, b) ==
  /\ g[0] = b
  /\ \A n \in 1..Len(Roster) : g[n] = CleanupOne(b, g[n - 1], n)
  /\ g[Len(Roster)] = Cleanup(b)

(* The objects of one of the dead go.                                      *)
LEMMA CleanupOneKeeps ==
  ASSUME NEW pre \in Board, NEW ended, NEW b \in Kept(pre, ended),
         NEW acc \in Swept(b, pre, ended), NEW p
  PROVE  /\ CleanupOne(b, acc, p) \in Swept(b, pre, ended)
         /\ ToSet(CleanupOne(b, acc, p).objects) =
              IF p \in Alive(b) THEN ToSet(acc.objects)
              ELSE {o \in ToSet(acc.objects) : o.owner # p}
<1>1. acc \in Kept(pre, ended) /\ acc.health = b.health
  BY DEF Swept
<1>2. CASE p \in Alive(b)
  BY <1>2 DEF CleanupOne
<1>3. CASE p \notin Alive(b)
  <2>1. CleanupOne(b, acc, p) = Discard(acc, Owned(acc, p), "OwnerEliminated")
    BY <1>3 DEF CleanupOne
  <2> DEFINE gone == Owned(acc, p)
             after == Discard(acc, gone, "OwnerEliminated")
  <2>2. /\ after \in Kept(pre, ended) /\ ToSet(after.objects) = ToSet(acc.objects) \ gone
        /\ after.health = acc.health
    <3>1. "OwnerEliminated" \in Cause BY DEF Cause
    <3> HIDE DEF gone
    <3> QED BY <1>1, <3>1, DiscardKeeps
  <2> HIDE DEF gone, after
  <2>3. CleanupOne(b, acc, p) = after /\ after \in Swept(b, pre, ended)
    BY <1>1, <2>1, <2>2 DEF Swept, after, gone
  <2> QED BY <1>3, <2>2, <2>3 DEF Owned, gone
<1> QED BY <1>2, <1>3

(* Every cleanup is such a walk (FoldPath).                                *)
LEMMA CleanupWalks ==
  ASSUME NEW pre \in Board, NEW ended, NEW b \in Kept(pre, ended)
  PROVE  \E g \in [0..Len(Roster) -> Swept(b, pre, ended)] : CleanupWalk(g, b)
<1> DEFINE N == Len(Roster)
           S == Swept(b, pre, ended)
           base == b
           step == [n \in 1..N |-> [acc \in S |-> CleanupOne(b, acc, Roster[n])]]
           iter == CHOOSE iter : iter = [s \in SUBSET DOMAIN Roster |->
                     IF s = {} THEN b
                     ELSE CleanupOne(b, iter[s \ {Max(s)}], Roster[Max(s)])]
<1>1. N \in Nat /\ DOMAIN Roster = 1..N
  BY RosterIs
<1>2. base \in S /\ \A acc \in S : \A n \in 1..N : CleanupOne(b, acc, Roster[n]) \in S
  <2>1. b \in Swept(b, pre, ended)
    BY DEF Swept
  <2> HIDE DEF N
  <2> QED BY <2>1, CleanupOneKeeps
<1>3. Cleanup(b) = iter[1..N]
  BY <1>1 DEF Cleanup, CleanupOne, FoldLeft, MapThenFoldSet
<1>4. /\ step \in [1..N -> [S -> S]]
      /\ \A n \in 1..N, acc \in S : step[n][acc] = CleanupOne(b, acc, Roster[n])
  BY <1>2
<1> HIDE DEF step, N, S, base
<1>5. PICK f \in [SUBSET (1..N) -> S] : \A s \in SUBSET (1..N) :
         f[s] = IF s = {} THEN base ELSE step[Max(s)][f[s \ {Max(s)}]]
  <2>1. \E f \in [SUBSET (1..N) -> S] : Folds(f, N, base, step)
    BY <1>2, <1>1, <1>4, FoldExists
  <2> QED BY <2>1 DEF Folds
<1>6. \A s \in SUBSET (1..N) : s # {} => Max(s) \in 1..N
  BY <1>1, MaxOfSome
<1>7. f = [s \in SUBSET (1..N) |-> IF s = {} THEN base
                     ELSE CleanupOne(b, f[s \ {Max(s)}], Roster[Max(s)])]
  BY <1>4, <1>5, <1>6
<1>8. iter = [s \in SUBSET (1..N) |-> IF s = {} THEN base
                     ELSE CleanupOne(b, iter[s \ {Max(s)}], Roster[Max(s)])]
  BY <1>1, <1>7 DEF base
<1> HIDE DEF iter
<1>9. Unfolds(iter, N, base, step, S)
  BY <1>4, <1>6, <1>8 DEF Unfolds
<1>10. base \in S /\ N \in Nat /\ step \in [1..N -> [S -> S]]
  BY <1>2, <1>1, <1>4
<1>11. PICK g \in [0..N -> S] : Walks(g, N, base, step) /\ g[N] = iter[1..N]
  <2>1. Reaches(iter, N, base, step, S)
    BY <1>9, <1>10, FoldPath
  <2> QED BY <2>1 DEF Reaches
<1>12. \A n \in 1..N : g[n] = CleanupOne(b, g[n - 1], n)
  <2>1. \A n \in 1..N : Roster[n] = n
    BY RosterIs DEF N
  <2> QED BY <1>1, <1>4, <1>11, <2>1 DEF Walks
<1> QED BY <1>3, <1>11, <1>12 DEF Walks, CleanupWalk, N, S, base

(* Nothing the dead own is left, and nobody's health changes.              *)
LEMMA CleanupIs ==
  ASSUME NEW pre \in Board, NEW ended, NEW b \in Kept(pre, ended)
  PROVE  /\ Cleanup(b) \in Kept(pre, ended) /\ Cleanup(b).health = b.health
         /\ \A o \in ToSet(Cleanup(b).objects) : b.health[o.owner] > 0
<1> DEFINE N == Len(Roster)
<1>1. N \in Nat /\ Player = 1..N
  BY RosterIs
<1>2. PICK g \in [0..N -> Swept(b, pre, ended)] : CleanupWalk(g, b)
  BY CleanupWalks
<1> DEFINE dead(n) == (1..n) \ Alive(b)
           T == {n \in 0..N : \A o \in ToSet(g[n].objects) : o.owner \notin dead(n)}
<1>3. 0 \in T
  BY <1>1
<1>4. ASSUME NEW n \in 0..(N - 1), n \in T PROVE n + 1 \in T
  <2>1. n + 1 \in 1..N /\ n + 1 \in 0..N /\ (n + 1) - 1 = n /\ 1..(n + 1) = 1..n \cup {n + 1}
        /\ n \in 0..N
    BY <1>1
  <2>2. g[n + 1] = CleanupOne(b, g[n], n + 1)
    BY <1>2, <2>1 DEF CleanupWalk
  <2>3. g[n] \in Swept(b, pre, ended)
    BY <1>2, <2>1
  <2>4. ToSet(g[n + 1].objects) =
          IF n + 1 \in Alive(b) THEN ToSet(g[n].objects)
          ELSE {o \in ToSet(g[n].objects) : o.owner # n + 1}
    BY <2>2, <2>3, CleanupOneKeeps
  <2>5. \A o \in ToSet(g[n + 1].objects) : o.owner \notin dead(n + 1)
    BY <1>4, <2>1, <2>4
  <2> QED BY <2>1, <2>5
<1>5. N \in T
  <2>1. 0..N \subseteq T
    <3>1. \A n \in 0..(N - 1) : n \in T => n + 1 \in T BY <1>4
    <3> HIDE DEF T, N
    <3> QED BY <1>1, <1>3, <3>1, UpTo
  <2>2. N \in 0..N BY <1>1
  <2> HIDE DEF T, N
  <2> QED BY <2>1, <2>2
<1>6. g[N] = Cleanup(b) /\ g[N] \in Swept(b, pre, ended)
  BY <1>1, <1>2 DEF CleanupWalk
<1>7. Cleanup(b) \in Kept(pre, ended) /\ Cleanup(b).health = b.health
  BY <1>6 DEF Swept
<1>8. \A o \in ToSet(Cleanup(b).objects) : o.owner \in Player
  BY <1>7, BoardIs DEF Kept, Object
<1>9. \A o \in ToSet(Cleanup(b).objects) : o.owner \in Alive(b)
  BY <1>1, <1>5, <1>6, <1>8
<1> QED BY <1>7, <1>9 DEF Alive

(* A fall keeps everything.                                                *)
LEMMA FallKeeps ==
  ASSUME NEW pre \in Board, NEW ended, NEW b \in Kept(pre, ended), NEW fallen
  PROVE  Fall(b, fallen) \in Kept(pre, ended)
<1> DEFINE health == [p \in Player |-> IF p \in fallen THEN 0 ELSE b.health[p]]
<1>1. b \in Board /\ b.health \in [Player -> Nat]
  BY BoardIs DEF Kept
<1>2. health \in [Player -> Nat]
  BY <1>1
<1>3. Fall(b, fallen) = [b EXCEPT !.health = health]
  BY <1>1 DEF Fall, Board
<1> HIDE DEF health
<1> QED BY <1>2, <1>3, HealthMoves

(* The inductive invariant: the board is one, what is placed is numbered   *)
(* and within the caps, and the dead own nothing once a turn begins. Of    *)
(* the records between commands nothing needs to be said: every command    *)
(* begins them anew.                                                       *)
LifeInv ==
  /\ board \in Board /\ Numbered(board) /\ Capped(board)
  /\ charged => \A o \in ToSet(board.objects) : board.health[o.owner] > 0
  /\ active \in Player /\ turn \in Nat /\ charged \in BOOLEAN

(* A command begins with empty records.                                    *)
LEMMA StartKeeps ==
  ASSUME NEW b \in Board, Numbered(b), Capped(b), NEW ended
  PROVE  EmptyRecord(b) \in Kept(b, ended)
<1> DEFINE after == EmptyRecord(b)
<1>1. \E h, s, o, n, l, m : b = [health |-> h, statuses |-> s, objects |-> o, next |-> n,
                               statusLog |-> l, objectLog |-> m]
  BY BoardIs
<1>2. PICK h, s, o, n, l, m : b = [health |-> h, statuses |-> s, objects |-> o, next |-> n,
                               statusLog |-> l, objectLog |-> m]
  BY <1>1
<1>3. after = [health |-> h, statuses |-> s, objects |-> o, next |-> n,
               statusLog |-> <<>>, objectLog |-> <<>>]
  <2>1. after = [b EXCEPT !.statusLog = <<>>, !.objectLog = <<>>]
    BY DEF EmptyRecord
  <2> DEFINE empty == <<>>
  <2> HIDE DEF after, empty
  <2>2. after = [health |-> h, statuses |-> s, objects |-> o, next |-> n,
                 statusLog |-> empty, objectLog |-> empty]
    BY <1>2, <2>1 DEF empty
  <2> QED BY <2>2 DEF empty
<1>4. /\ after.health = b.health /\ after.statuses = b.statuses /\ after.objects = b.objects
      /\ after.next = b.next /\ after.statusLog = <<>> /\ after.objectLog = <<>>
  BY <1>2, <1>3
<1>5. after \in Board
  <2>1. after = [health |-> b.health, statuses |-> b.statuses, objects |-> b.objects,
                 next |-> b.next, statusLog |-> <<>>, objectLog |-> <<>>]
    BY <1>2, <1>3
  <2> HIDE DEF after
  <2> QED BY <2>1, BoardIs DEF Board
<1> HIDE DEF after
<1>6. StatusSide(b, after, ended)
  <2> DEFINE start == [ok |-> TRUE, statuses |-> b.statuses]
  <2>1. start \in StatusShadow
    BY BoardIs DEF StatusShadow
  <2>2. FoldLeft(StatusReplay, start, <<>>) = start
    <3> HIDE DEF start
    <3> QED BY <2>1, StatusLogStarts
  <2> QED BY <1>4, <2>2 DEF StatusSide, StatusesFollow, Spoken
<1>7. ObjectSide(b, after)
  <2>1. Shadow(b, after) = Placed(b)
    BY <1>4, PlacedIs, ObjectLogStarts DEF Shadow
  <2>2. \A n_1 \in Sequences(ToSet(b.objects)) : n_1 < b.next
    BY DEF Sequences, Numbered
  <2>3. /\ Shadow(b, after).ok = TRUE /\ Shadow(b, after).shadow = ToSet(b.objects)
        /\ Shadow(b, after).used = Sequences(ToSet(b.objects))
    BY <2>1 DEF Placed
  <2>4. Numbered(after)
    BY <1>4 DEF Numbered
  <2>5. /\ Shadow(b, after).ok /\ Shadow(b, after).shadow = ToSet(after.objects)
        /\ \A x \in Shadow(b, after).used : x < after.next
    BY <1>4, <2>2, <2>3
  <2> QED BY <2>4, <2>5 DEF ObjectSide
<1>8. Capped(after)
  BY <1>4 DEF Capped, Turrets, KnivesOf
<1> QED BY <1>5, <1>6, <1>7, <1>8 DEF Kept, after

(* Some player of a set comes first.                                       *)
LEMMA FirstIs ==
  ASSUME NEW from \in SUBSET Player, from # {}
  PROVE  (CHOOSE p \in from : \A q \in from : p <= q) \in Player
<1>1. from \subseteq Nat
  BY PlayerIs
<1>2. PICK p \in from : \A q \in from : ~ (<<q, p>> \in OpToRel(<, Nat))
  BY <1>1, NatLessThanWellFounded, WFMin
<1>3. ASSUME NEW q \in from PROVE p <= q
  <2> SUFFICES ASSUME ~ (p <= q) PROVE FALSE
    OBVIOUS
  <2>1. p \in Nat /\ q \in Nat /\ q < p
    <3>1. p \in Nat /\ q \in Nat BY <1>1
    <3> QED BY <3>1
  <2>2. <<q, p>> \in OpToRel(<, Nat)
    BY <2>1 DEF OpToRel
  <2> QED BY <1>2, <2>2
<1>4. \E x \in from : \A q \in from : x <= q
  BY <1>3
<1> QED BY <1>4

(* A match begins with the invariant.                                      *)
LEMMA InitIsKept == Init => LifeInv
<1> SUFFICES ASSUME Init PROVE LifeInv
  OBVIOUS
<1> USE DEF Init
<1>1. \A p \in Player : [kind \in {} |-> kind] \in Held
  BY DEF Held
<1>2. board \in Board
  <2>1. MaxHealth \in Nat BY LimitAssumption
  <2> QED BY <1>1, <2>1 DEF Board
<1>3. board.objects = <<>> /\ ToSet(board.objects) = {}
  BY DEF ToSet
<1>4. Numbered(board)
  BY <1>3 DEF Numbered, Ordered
<1>5. Capped(board)
  <2> SUFFICES ASSUME NEW p \in Player
               PROVE  /\ Cardinality(Turrets(board, p)) <= 1
                      /\ Cardinality(KnivesOf(board, p)) <= KnifeCap
    BY DEF Capped
  <2>1. Turrets(board, p) = {} /\ KnivesOf(board, p) = {}
    BY <1>3 DEF Turrets, KnivesOf
  <2>2. Cardinality({}) = 0 /\ KnifeCap \in Nat
    BY FS_EmptySet, RadiusAssumption
  <2>3. Cardinality(Turrets(board, p)) = 0 /\ Cardinality(KnivesOf(board, p)) = 0
    BY <2>1, <2>2
  <2> QED BY <2>2, <2>3
<1>6. active \in Player
  <2>1. Player \in SUBSET Player /\ Player # {}
    BY StandingAssumption DEF Player
  <2> QED BY <2>1, FirstIs
<1> QED BY <1>2, <1>3, <1>4, <1>5, <1>6 DEF LifeInv

(* Whoever plays next is a player.                                         *)
LEMMA NextActiveIs ==
  ASSUME NEW b \in Board, Undecided(b)
  PROVE  NextActive(b) \in Player
<1> DEFINE later == {p \in Alive(b) : p > active}
           from == IF later # {} THEN later ELSE Alive(b)
<1>1. Alive(b) # {}
  BY FS_EmptySet DEF Undecided
<1>2. from \in SUBSET Player /\ from # {}
  BY <1>1 DEF Alive
<1>3. NextActive(b) = CHOOSE p \in from : \A q \in from : p <= q
  BY DEF NextActive
<1> HIDE DEF from
<1> QED BY <1>2, <1>3, FirstIs

(* The end of a turn keeps everything, clears away the dead, and ends the  *)
(* turn or the match.                                                      *)
LEMMA FinishKeeps ==
  ASSUME LifeInv, NEW b \in Kept(board, {active}), Finish(b)
  PROVE  LifeInv' /\ board' \in Kept(board, {active}) /\ TurnEnds
<1> DEFINE ticked == Tick(b, active)
           checked == Cleanup(ticked)
           last == Cleanup(Fall(checked, Player))
<1>1. board \in Board /\ active \in Player /\ turn \in Nat
  BY DEF LifeInv
<1>2. /\ charged' = TRUE /\ board' \in {checked, last}
      /\ IF Undecided(board') THEN turn' = turn + 1 /\ active' = NextActive(board')
                              ELSE UNCHANGED <<turn, active>>
  BY DEF Finish
<1>3. ticked \in Kept(board, {active})
  BY <1>1, TickKeeps
<1> HIDE DEF ticked
<1>4. /\ checked \in Kept(board, {active}) /\ checked.health = ticked.health
      /\ \A o \in ToSet(checked.objects) : ticked.health[o.owner] > 0
  BY <1>1, <1>3, CleanupIs
<1> HIDE DEF checked
<1>5. /\ last \in Kept(board, {active}) /\ last.health = Fall(checked, Player).health
      /\ \A o \in ToSet(last.objects) : Fall(checked, Player).health[o.owner] > 0
  <2>1. Fall(checked, Player) \in Kept(board, {active})
    BY <1>1, <1>4, FallKeeps
  <2> QED BY <1>1, <2>1, CleanupIs
<1> HIDE DEF last
<1>6. /\ board' \in Kept(board, {active})
      /\ \A o \in ToSet(board'.objects) : board'.health[o.owner] > 0
  BY <1>2, <1>4, <1>5
<1>7. board' \in Board /\ Numbered(board') /\ Capped(board')
  BY <1>6 DEF Kept, ObjectSide
<1>8. active' \in Player /\ turn' \in Nat
  BY <1>1, <1>2, <1>7, NextActiveIs
<1>9. LifeInv'
  BY <1>2, <1>6, <1>7, <1>8 DEF LifeInv, Numbered, Capped, Turrets, KnivesOf
<1>10. TurnEnds
  BY <1>1, <1>2 DEF TurnEnds
<1> QED BY <1>6, <1>9, <1>10

(* The impact and the blows of a lawful command.                           *)
LEMMA AimIs ==
  ASSUME LifeInv, NEW ability \in Ability, NEW named \in SUBSET Player,
         NEW place \in Impacts(ability, named), NEW hits \in Hits(ability, named, place)
  PROVE  /\ place \in Int /\ \E T : hits \in Seq(T)
         /\ ability.effects \in Seq(EffectData) /\ ability.damage \subseteq Nat
<1>1. /\ ability.lands \in SUBSET Int /\ ability.strikes \in Nat
      /\ ability.effects \in Seq(EffectData) /\ ability.damage \in SUBSET Nat
  BY AbilityAssumption
<1>2. place \in Int
  <2>1. CASE ability.attack = "Projectile"
    BY <1>1, <2>1 DEF Impacts
  <2>2. CASE ability.attack # "Projectile"
    BY <2>2, PlayerIs DEF Impacts, LifeInv
  <2> QED BY <2>1, <2>2
<1>3. \E T : hits \in Seq(T)
  <2>1. \E T : hits \in [1..ability.strikes -> T]
    <3>1. CASE ability.attack = "Projectile"
      BY <3>1 DEF Hits
    <3>2. CASE ability.attack # "Projectile"
      <4>1. DOMAIN hits = 1..ability.strikes /\ hits = [i \in 1..ability.strikes |-> hits[i]]
        BY <3>2 DEF Hits
      <4>2. hits \in [1..ability.strikes -> {hits[i] : i \in 1..ability.strikes}]
        BY <4>1
      <4> QED BY <4>2
    <3> QED BY <3>1, <3>2
  <2>2. PICK T : hits \in [1..ability.strikes -> T]
    BY <2>1
  <2>3. hits \in Seq(T)
    BY <1>1, <2>2
  <2> QED BY <2>3
<1> QED BY <1>1, <1>2, <1>3

(* A step keeps the invariant, and its records replay: those of a free     *)
(* ability with nobody's turn ended, any other with that of the active     *)
(* player.                                                                 *)
LEMMA StepKeeps ==
  ASSUME LifeInv, [Next]_vars
  PROVE  /\ LifeInv'
         /\ \/ UNCHANGED vars
            \/ board' \in Kept(board, {})
            \/ board' \in Kept(board, {active}) /\ TurnEnds
<1>1. board \in Board /\ Numbered(board) /\ Capped(board) /\ active \in Player
  BY DEF LifeInv
<1>2. \A ended : EmptyRecord(board) \in Kept(board, ended)
  BY <1>1, StartKeeps
<1>3. ASSUME NEW ability \in Ability, UseAbility(ability)
      PROVE  /\ LifeInv'
             /\ \/ board' \in Kept(board, {})
                \/ board' \in Kept(board, {active}) /\ TurnEnds
  <2> DEFINE Outcome(named, place, hits, damage) ==
        \E fallen :
          LET settled == Fall(ResolveEach(Strikes(EmptyRecord(board), ability, hits, damage),
                                          ability, named, place), fallen)
          IN  IF ability.free /\ active \in Alive(settled) /\ Undecided(settled)
                THEN board' = settled /\ charged' = FALSE /\ UNCHANGED <<active, turn>>
                ELSE Finish(settled)
  <2>1. PICK named \in {{}} \cup {{p} : p \in Alive(board)} :
          \E place \in Impacts(ability, named) :
          \E hits \in Hits(ability, named, place), damage \in ability.damage :
            Outcome(named, place, hits, damage)
    BY <1>3 DEF UseAbility
  <2>2. named \in SUBSET Player
    BY DEF Alive
  <2>11. PICK place \in Impacts(ability, named) :
          \E hits \in Hits(ability, named, place), damage \in ability.damage :
            Outcome(named, place, hits, damage)
    BY <2>1
  <2>3. PICK hits \in Hits(ability, named, place), damage \in ability.damage :
          Outcome(named, place, hits, damage)
    BY <2>11
  <2> DEFINE struck == Strikes(EmptyRecord(board), ability, hits, damage)
             after == ResolveEach(struck, ability, named, place)
  <2>4. PICK fallen :
          IF ability.free /\ active \in Alive(Fall(after, fallen)) /\ Undecided(Fall(after, fallen))
            THEN board' = Fall(after, fallen) /\ charged' = FALSE /\ UNCHANGED <<active, turn>>
            ELSE Finish(Fall(after, fallen))
    BY <2>3
  <2>5. /\ place \in Int /\ \E T : hits \in Seq(T)
        /\ ability.effects \in Seq(EffectData) /\ damage \in Nat
    BY <2>2, AimIs
  <2>6. ASSUME NEW ended PROVE Fall(after, fallen) \in Kept(board, ended)
    <3>1. PICK T : hits \in Seq(T)
      BY <2>5
    <3>2. struck \in Kept(board, ended)
      BY <1>1, <1>2, <2>5, <3>1, StrikesKeep
    <3> HIDE DEF struck
    <3>3. after \in Kept(board, ended)
      BY <1>1, <2>2, <2>5, <3>2, ResolveEachKeeps
    <3> HIDE DEF after
    <3> QED BY <1>1, <3>3, FallKeeps
  <2> DEFINE settled == Fall(after, fallen)
  <2>7. \A ended : settled \in Kept(board, ended)
    BY <2>6
  <2>8. \/ board' = settled /\ charged' = FALSE /\ UNCHANGED <<active, turn>>
        \/ Finish(settled)
    BY <2>4
  <2> HIDE DEF settled
  <2>9. CASE board' = settled /\ charged' = FALSE /\ UNCHANGED <<active, turn>>
    <3>1. board' \in Kept(board, {})
      BY <2>7, <2>9
    <3>2. board' \in Board /\ Numbered(board') /\ Capped(board')
      BY <3>1 DEF Kept, ObjectSide
    <3>3. LifeInv'
      BY <2>9, <3>2 DEF LifeInv, Numbered, Capped, Turrets, KnivesOf
    <3> QED BY <3>1, <3>3
  <2>10. CASE Finish(settled)
    BY <2>7, <2>10, FinishKeeps
  <2> QED BY <2>8, <2>9, <2>10
<1>4. ASSUME EndTurn
      PROVE  LifeInv' /\ board' \in Kept(board, {active}) /\ TurnEnds
  <2>1. PICK fallen : Finish(Fall(EmptyRecord(board), fallen))
    BY <1>4 DEF EndTurn
  <2>2. Fall(EmptyRecord(board), fallen) \in Kept(board, {active})
    BY <1>1, <1>2, FallKeeps
  <2> QED BY <2>1, <2>2, FinishKeeps
<1>5. CASE UNCHANGED vars
  BY <1>5 DEF vars, LifeInv, Numbered, Capped, Turrets, KnivesOf
<1> QED BY <1>3, <1>4, <1>5 DEF Next

(* The board is well formed in every reachable state, for any number of    *)
(* players, any abilities and any limits (objects.rs, status.rs,           *)
(* victory.rs:156).                                                        *)
THEOREM LifeIsKept == Spec => []LifeInv
<1>1. LifeInv /\ [Next]_vars => LifeInv'
  BY StepKeeps
<1> QED BY InitIsKept, <1>1, PTL DEF Spec

(* What the invariant within a command says at its end is what the session *)
(* asks of the records.                                                    *)
LEMMA KeptIsAccounted ==
  ASSUME LifeInv, NEW ended, board' \in Kept(board, ended)
  PROVE  /\ StatusesReconcile(board, board') /\ ObjectsReconcile(board, board')
         /\ \A p \in Player : \A kind \in DOMAIN board.statuses[p] :
              \/ \E i \in DOMAIN board'.statusLog :
                   LET c == board'.statusLog[i]
                   IN  /\ c.player = p /\ c.kind = kind
                       /\ c.transition.name \in {"Refreshed", "ChargeConsumed", "Exhausted"}
              \/ /\ kind \in DOMAIN board'.statuses[p]
                 /\ board'.statuses[p][kind] = board.statuses[p][kind]
              \/ kind # Mark /\ p \in ended
<1> DEFINE pre == board
           post == board'
<1>1. StatusSide(pre, post, ended) /\ ObjectSide(pre, post)
  BY DEF Kept
<1> HIDE DEF pre, post
<1>2. StatusesReconcile(pre, post)
  BY <1>1 DEF StatusSide, StatusesFollow, StatusesReconcile
<1>3. ObjectsReconcile(pre, post)
  <2>1. /\ Shadow(pre, post).ok /\ Shadow(pre, post).shadow = ToSet(post.objects)
    BY <1>1 DEF ObjectSide
  <2>2. Shadow(pre, post) =
          FoldLeft(ObjectReplay,
                   [ok |-> TRUE, shadow |-> ToSet(pre.objects),
                    used |-> Sequences(ToSet(pre.objects))], post.objectLog)
    BY DEF Shadow, Placed
  <2> QED BY <2>1, <2>2 DEF ObjectsReconcile
<1>4. Spoken(pre, post, ended)
  BY <1>1 DEF StatusSide
<1> QED BY <1>2, <1>3, <1>4 DEF Spoken, Told, pre, post

(* The records of every command replay from the board before it to the     *)
(* board after, so that no command of this kind closes a session for good, *)
(* and nobody's status moves unrecorded (match_session.rs:2840, 2969).     *)
THEOREM EffectsAreRecorded == Spec => EffectsAreAccountedFor
<1>1. LifeInv /\ [Next]_vars =>
        [/\ StatusesReconcile(board, board')
         /\ ObjectsReconcile(board, board')
         /\ \A p \in Player : \A kind \in DOMAIN board.statuses[p] :
              \/ \E i \in DOMAIN board'.statusLog :
                   LET c == board'.statusLog[i]
                   IN  /\ c.player = p /\ c.kind = kind
                       /\ c.transition.name \in {"Refreshed", "ChargeConsumed", "Exhausted"}
              \/ /\ kind \in DOMAIN board'.statuses[p]
                 /\ board'.statuses[p][kind] = board.statuses[p][kind]
              \/ kind # Mark /\ p = active /\ TurnEnds]_vars
  <2> SUFFICES ASSUME LifeInv, [Next]_vars, ~ UNCHANGED vars
               PROVE  /\ StatusesReconcile(board, board')
                      /\ ObjectsReconcile(board, board')
                      /\ \A p \in Player : \A kind \in DOMAIN board.statuses[p] :
                           \/ \E i \in DOMAIN board'.statusLog :
                                LET c == board'.statusLog[i]
                                IN  /\ c.player = p /\ c.kind = kind
                                    /\ c.transition.name \in
                                         {"Refreshed", "ChargeConsumed", "Exhausted"}
                           \/ /\ kind \in DOMAIN board'.statuses[p]
                              /\ board'.statuses[p][kind] = board.statuses[p][kind]
                           \/ kind # Mark /\ p = active /\ TurnEnds
    OBVIOUS
  <2>1. \/ board' \in Kept(board, {})
        \/ board' \in Kept(board, {active}) /\ TurnEnds
    BY StepKeeps
  <2>2. CASE board' \in Kept(board, {})
    BY <2>2, KeptIsAccounted
  <2>3. CASE board' \in Kept(board, {active}) /\ TurnEnds
    <3>1. \A p : p \in {active} => p = active
      OBVIOUS
    <3> DEFINE ended == {active}
    <3>2. board' \in Kept(board, ended) /\ \A p \in ended : p = active
      BY <2>3, <3>1
    <3> HIDE DEF ended
    <3> QED BY <2>3, <3>2, KeptIsAccounted
  <2> QED BY <2>1, <2>2, <2>3
<1> QED BY <1>1, LifeIsKept, PTL DEF Spec, EffectsAreAccountedFor

(* Wherever a knife may land, the chain it sets off is complete.           *)
LEMMA ChainsFollow == LifeInv => ChainsAreComplete
<1> SUFFICES ASSUME LifeInv, NEW place \in UNION {ability.lands : ability \in Ability}
             PROVE  LET b      == Embed(board, active, place)
                        knives == Knives(b)
                        landed == CHOOSE k \in knives : k.sequence = board.next
                        near   == {k \in knives \ {landed} : Near(k.place, place, TriggerRadius)}
                        gone   == IF near = {} THEN {} ELSE Connected(knives, near \cup {landed})
                        after  == ChainDetonate(b, place)
                        felt(p) == Cardinality({k \in gone : Near(k.place, Standing[p], BlastRadius)})
                    IN  /\ Knives(after) = knives \ gone
                        /\ \A p \in Player :
                             after.health[p] =
                               IF b.health[p] > felt(p) THEN b.health[p] - felt(p) ELSE 0
  BY DEF ChainsAreComplete
<1> DEFINE b      == Embed(board, active, place)
           knives == Knives(b)
           landed == CHOOSE k \in knives : k.sequence = board.next
           near   == {k \in knives \ {landed} : Near(k.place, place, TriggerRadius)}
           gone   == IF near = {} THEN {} ELSE Connected(knives, near \cup {landed})
           after  == ChainDetonate(b, place)
<1>1. place \in Int /\ active \in Player /\ board \in Board /\ Numbered(board) /\ Capped(board)
  BY AbilityAssumption DEF LifeInv
<1>2. b \in Board /\ Numbered(b)
  BY <1>1, LandsLast
<1>3. Chain(b, place) = gone
  BY <1>1, ChainIsComplete
<1>4. /\ Knives(after) = Knives(b) \ Chain(b, place)
      /\ \A p \in Player : after.health[p] =
           Less(b.health[p], Cardinality(Felt(Chain(b, place), p)))
  BY <1>2, ChainDetonateLeaves
<1> HIDE DEF gone, b, after
<1> QED BY <1>3, <1>4 DEF Less, Felt, gone, b, after

(* Between commands objects are in order and within their caps, no turn    *)
(* begins with an object of the dead, and the chain a knife would set off  *)
(* is complete (objects.rs:74, 123, 222).                                  *)
THEOREM PlacedObjectsAreKept == Spec => []ObjectsAreKept
<1>1. LifeInv => ObjectsAreKept
  <2> SUFFICES ASSUME LifeInv PROVE ObjectsAreKept
    OBVIOUS
  <2>1. \A i, j \in DOMAIN board.objects :
          i < j => board.objects[i].sequence < board.objects[j].sequence
    BY DEF LifeInv, Numbered, Ordered
  <2>2. \A p \in Player :
          /\ Cardinality({o \in ToSet(board.objects) : o.owner = p /\ o.kind = "Turret"}) <= 1
          /\ Cardinality({o \in ToSet(board.objects) : o.owner = p /\ o.kind = "EmbeddedKnife"})
               <= KnifeCap
    BY DEF LifeInv, Capped, Turrets, KnivesOf
  <2>3. charged => \A o \in ToSet(board.objects) : board.health[o.owner] > 0
    BY DEF LifeInv
  <2> QED BY <2>1, <2>2, <2>3, ChainsFollow DEF ObjectsAreKept
<1> QED BY <1>1, LifeIsKept, PTL

=============================================================================
