---------------------------- MODULE DataInduction ----------------------------
(***************************************************************************)
(* Induction for the proofs of this project.  The induction theorems of    *)
(* the library take a predicate as an operator; here the predicate is a    *)
(* set, so that a proof names the set of the numbers that satisfy it.      *)
(***************************************************************************)
EXTENDS Integers, WellFoundedInduction, TLAPS

LessNat == {p \in Nat \X Nat : p[1] < p[2]}

\* There is no endless descent among the natural numbers.
LEMMA LessWellFounded == IsWellFoundedOn(LessNat, Nat)
<1>1. \A x, y \in Nat : <<x, y>> \in OpToRel(<, Nat) <=> x < y
  BY DEF OpToRel
<1> QED
  BY <1>1, NatLessThanWellFounded, IsWellFoundedOnSubrelation DEF OpToRel, LessNat

\* A set with a natural number has a least one.
LEMMA LeastNumber ==
    ASSUME NEW T, T \subseteq Nat, T # {}
    PROVE  \E x \in T : \A y \in T : x <= y
<1>1. PICK x \in T : \A y \in T : ~(<<y, x>> \in LessNat)
  BY LessWellFounded, WFMin
<1>2. ASSUME NEW y \in T PROVE x <= y
  <2>1. x \in Nat /\ y \in Nat /\ ~(<<y, x>> \in LessNat)
    BY <1>1
  <2>2. ~(y < x)
    BY <2>1 DEF LessNat
  <2> QED
    BY <2>1, <2>2
<1> QED
  BY <1>2

\* Induction: a set that contains zero and with every number the next.
LEMMA Induction ==
    ASSUME NEW S, 0 \in S, \A n \in Nat : n \in S => n + 1 \in S
    PROVE  Nat \subseteq S
<1> DEFINE T == Nat \ S
<1> SUFFICES ASSUME T # {} PROVE FALSE
  OBVIOUS
<1>1. PICK x \in T : \A y \in T : x <= y
  BY LeastNumber
<1>2. x # 0 /\ x - 1 \in Nat /\ x - 1 \notin T
  BY <1>1
<1> QED
  BY <1>1, <1>2

\* Induction up to a bound.
LEMMA BoundedInduction ==
    ASSUME NEW S, NEW n \in Nat, 0 \in S, \A i \in 0 .. n - 1 : i \in S => i + 1 \in S
    PROVE  0 .. n \subseteq S
<1> DEFINE T == {i \in 0 .. n : i \notin S}
<1> SUFFICES ASSUME T # {} PROVE FALSE
  OBVIOUS
<1>0. T \subseteq Nat
  OBVIOUS
<1>1. PICK x \in T : \A y \in T : x <= y
  BY <1>0, LeastNumber
<1>2. x # 0 /\ x - 1 \in 0 .. n - 1 /\ x - 1 \notin T
  BY <1>1
<1> QED
  BY <1>1, <1>2

\* Induction up to a bound from all smaller numbers.
LEMMA StrongInduction ==
    ASSUME NEW S, NEW n \in Nat, \A i \in 0 .. n : 0 .. i - 1 \subseteq S => i \in S
    PROVE  0 .. n \subseteq S
<1> DEFINE T == {i \in 0 .. n : i \notin S}
<1> SUFFICES ASSUME T # {} PROVE FALSE
  OBVIOUS
<1>0. T \subseteq Nat
  OBVIOUS
<1>1. PICK x \in T : \A y \in T : x <= y
  BY <1>0, LeastNumber
<1>2. ASSUME NEW y \in 0 .. x - 1 PROVE y \in S
  BY <1>1
<1> QED
  BY <1>1, <1>2

\* A loop that applies F while that changes something, inside S, and makes the measure M
\* smaller with every change; the measure is at most n when it begins.
IsLoop(S, F, M, first, n) ==
    /\ first \in S /\ n \in Nat /\ M[first] <= n
    /\ \A s \in S : F[s] \in S /\ M[s] \in Nat /\ (F[s] = s \/ M[F[s]] < M[s])

\* The states after each of n turns.
IsRunOf(g, S, F, first, n) ==
    g \in [0 .. n -> S] /\ \A i \in 0 .. n : g[i] = IF i = 0 THEN first ELSE F[g[i - 1]]

\* Such turns can be made.
LEMMA RunExists ==
    ASSUME NEW S, NEW F, NEW first \in S, NEW n \in Nat, \A s \in S : F[s] \in S
    PROVE  \E g : IsRunOf(g, S, F, first, n)
<1> DEFINE Done == {m \in Nat : \E g : IsRunOf(g, S, F, first, m)}
<1>1. 0 \in Done
  <2> DEFINE g == [i \in 0 .. 0 |-> first]
  <2>1. IsRunOf(g, S, F, first, 0)
    BY DEF IsRunOf
  <2> QED
    BY <2>1
<1>2. ASSUME NEW m \in Nat, m \in Done PROVE m + 1 \in Done
  <2>1. PICK g : IsRunOf(g, S, F, first, m)
    BY <1>2
  <2> DEFINE f == [i \in 0 .. m + 1 |-> IF i = m + 1 THEN F[g[m]] ELSE g[i]]
  <2>2. f \in [0 .. m + 1 -> S]
    BY <2>1 DEF IsRunOf
  <2>3. \A i \in 0 .. m : f[i] = g[i]
    OBVIOUS
  <2>4. \A i \in 0 .. m + 1 : f[i] = IF i = 0 THEN first ELSE F[f[i - 1]]
    BY <2>1, <2>3 DEF IsRunOf
  <2> HIDE DEF f
  <2>5. IsRunOf(f, S, F, first, m + 1)
    BY <2>2, <2>4 DEF IsRunOf
  <2> QED
    BY <2>5
<1>3. Nat \subseteq Done
  <2> HIDE DEF Done
  <2> QED
    BY <1>1, <1>2, Induction
<1> QED
  BY <1>3

\* Such a loop has ended after as many turns as the measure says.
LEMMA LoopEnds ==
    ASSUME NEW S, NEW F, NEW M, NEW first, NEW n, IsLoop(S, F, M, first, n)
    PROVE  \E g : IsRunOf(g, S, F, first, n) /\ F[g[n]] = g[n]
<1>0. /\ first \in S /\ n \in Nat /\ M[first] <= n
      /\ \A s \in S : F[s] \in S /\ M[s] \in Nat /\ (F[s] = s \/ M[F[s]] < M[s])
  BY DEF IsLoop
<1> USE <1>0
<1>3. PICK g : IsRunOf(g, S, F, first, n)
  BY RunExists
<1>4. g \in [0 .. n -> S] /\ \A i \in 0 .. n : g[i] = IF i = 0 THEN first ELSE F[g[i - 1]]
  BY <1>3 DEF IsRunOf
<1> DEFINE Near == {i \in 0 .. n : F[g[i]] = g[i] \/ M[g[i]] + i <= n}
<1>5. 0 \in Near
  BY <1>4
<1>6. ASSUME NEW i \in 0 .. n - 1, i \in Near PROVE i + 1 \in Near
  <2>1. /\ g[i] \in S /\ g[i + 1] = F[g[i]] /\ M[g[i]] \in Nat /\ M[g[i + 1]] \in Nat
        /\ (F[g[i]] = g[i] \/ M[g[i + 1]] < M[g[i]])
    BY <1>4
  <2>2. CASE F[g[i]] = g[i]
    BY <2>1, <2>2
  <2>3. CASE M[g[i + 1]] < M[g[i]] /\ M[g[i]] + i <= n
    BY <2>1, <2>3
  <2> QED
    BY <1>6, <2>1, <2>2, <2>3
<1>7. 0 .. n \subseteq Near
  <2> HIDE DEF Near
  <2> QED
    BY <1>5, <1>6, BoundedInduction
<1>8. F[g[n]] = g[n]
  <2>1. n \in Near /\ g[n] \in S
    BY <1>4, <1>7
  <2> QED
    BY <2>1
<1> QED
  BY <1>4, <1>8 DEF IsRunOf
=============================================================================
