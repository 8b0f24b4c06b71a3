----------------------------- MODULE RecursionLemmas -----------------------------
(***************************************************************************)
(* Induction over the natural numbers, and functions defined by recursion  *)
(* on 0 .. n, in a form without operators as parameters: a property is a   *)
(* set of numbers, the step of a recursion a function.                     *)
(***************************************************************************)
EXTENDS Integers, WellFoundedInduction, TLAPS

\* A set of natural numbers that is not empty has a least element.
LEMMA LeastElement ==
  ASSUME NEW T, T \subseteq Nat, T # {}
  PROVE  \E x \in T : \A y \in T : x <= y
<1>1. PICK x \in T : \A y \in T : ~ (<<y, x>> \in OpToRel(<, Nat))
  BY NatLessThanWellFounded, WFMin
<1>2. \A y \in T : ~(y < x)
  BY <1>1 DEF OpToRel
<1> QED
  BY <1>2

\* Induction up to n.
LEMMA InductionUpTo ==
  ASSUME NEW n \in Nat, NEW S, 0 \in S, \A t \in 1 .. n : t - 1 \in S => t \in S
  PROVE  \A t \in 0 .. n : t \in S
<1> DEFINE T == {t \in 0 .. n : t \notin S}
<1>1. ASSUME T # {}
      PROVE  FALSE
  <2>1. T \subseteq Nat
    OBVIOUS
  <2> HIDE DEF T
  <2>2. PICK t \in T : \A y \in T : t <= y
    BY <2>1, <1>1, LeastElement
  <2>3. t \in 0 .. n /\ t \notin S
    BY DEF T
  <2>4. t \in 1 .. n /\ t - 1 \in 0 .. n /\ t - 1 \notin T
    BY <2>2, <2>3
  <2>5. t - 1 \in S
    BY <2>4 DEF T
  <2> QED
    BY <2>3, <2>4, <2>5
<1> QED
  BY <1>1

-----------------------------------------------------------------------------
\* f begins with a and goes on by F up to n.
Follows(f, n, a, F) == f[0] = a /\ \A t \in 1 .. n : f[t] = F[t][f[t - 1]]

LEMMA Extension ==
  ASSUME NEW n \in Nat, NEW V, NEW a \in V, NEW F \in [Nat -> [V -> V]],
         NEW f \in [0 .. n -> V], Follows(f, n, a, F)
  PROVE  \E g \in [0 .. n + 1 -> V] : Follows(g, n + 1, a, F)
<1> DEFINE v == F[n + 1][f[n]]
           g == [t \in 0 .. n + 1 |-> IF t = n + 1 THEN v ELSE f[t]]
<1>1. v \in V
  OBVIOUS
<1> HIDE DEF v
<1>2. g \in [0 .. n + 1 -> V]
  BY <1>1
<1>3. \A t \in 0 .. n : g[t] = f[t]
  OBVIOUS
<1>4. g[n + 1] = v
  OBVIOUS
<1> HIDE DEF g
<1>5. g[n + 1] = F[n + 1][g[n + 1 - 1]]
  BY <1>3, <1>4 DEF v
<1>6. \A t \in 1 .. n : g[t] = F[t][g[t - 1]]
  BY <1>3 DEF Follows
<1>7. g[0] = a
  BY <1>3 DEF Follows
<1>8. \A t \in 1 .. n + 1 : t \in 1 .. n \/ t = n + 1
  OBVIOUS
<1>9. Follows(g, n + 1, a, F)
  BY <1>5, <1>6, <1>7, <1>8 DEF Follows
<1> QED
  BY <1>2, <1>9

\* There is such a function for every first value and step.
LEMMA RecursionIsDefined ==
  ASSUME NEW n \in Nat, NEW V, NEW a \in V, NEW F \in [Nat -> [V -> V]]
  PROVE  \E f \in [0 .. n -> V] : Follows(f, n, a, F)
<1> DEFINE T == {m \in Nat : ~\E f \in [0 .. m -> V] : Follows(f, m, a, F)}
<1>1. \A m \in Nat : m \notin T <=> \E f \in [0 .. m -> V] : Follows(f, m, a, F)
  OBVIOUS
<1>2. T \subseteq Nat
  OBVIOUS
<1> HIDE DEF T
<1>3. ASSUME T # {}
      PROVE  FALSE
  <2>1. PICK m \in T : \A y \in T : m <= y
    BY <1>2, <1>3, LeastElement
  <2>2. CASE m = 0
    <3>1. [t \in 0 .. 0 |-> a] \in [0 .. 0 -> V] /\ Follows([t \in 0 .. 0 |-> a], 0, a, F)
      BY DEF Follows
    <3> QED
      BY <3>1, <2>2, <1>1, <1>2
  <2>3. CASE m # 0
    <3>1. PICK k \in Nat : m = k + 1 /\ k \notin T
      <4>1. m - 1 \in Nat /\ m = (m - 1) + 1 /\ m - 1 \notin T
        BY <1>2, <2>1, <2>3
      <4> QED
        BY <4>1
    <3> QED
      BY <3>1, <1>1, <1>2, Extension
  <2> QED
    BY <2>2, <2>3
<1> QED
  BY <1>1, <1>3

\* Whatever obeys the recursion has its values in V.
Obeys(g, n, a, F, V) ==
  g[0] = a /\ \A t \in 1 .. n : g[t - 1] \in V => g[t] = F[t][g[t - 1]]

LEMMA RecursionStaysIn ==
  ASSUME NEW n \in Nat, NEW V, NEW a \in V, NEW F \in [Nat -> [V -> V]], NEW g,
         Obeys(g, n, a, F, V)
  PROVE  \A t \in 0 .. n : g[t] \in V
<1> DEFINE S == {t \in 0 .. n : g[t] \in V}
<1>1. 0 \in S
  BY DEF Obeys
<1>2. \A t \in 1 .. n : t - 1 \in S => t \in S
  BY DEF Obeys
<1>3. \A t \in S : g[t] \in V
  OBVIOUS
<1> HIDE DEF S
<1> QED
  BY <1>1, <1>2, <1>3, InductionUpTo

-----------------------------------------------------------------------------
(* A measure made of stages and of what is left to do within a stage.      *)

(* Going on to a later stage outweighs whatever that stage has to do.        *)
LEMMA Lexicographic ==
  ASSUME NEW P \in Nat, NEW s \in Nat, NEW t \in Nat, s < t,
         NEW a \in 0..P, NEW b \in Nat
  PROVE  s * (P + 1) + a < t * (P + 1) + b
<1>1. PICK k \in Nat : t = s + 1 + k
  <2>1. t - s - 1 \in Nat /\ t = s + 1 + (t - s - 1)
    OBVIOUS
  <2> QED
    BY <2>1
<1>2. t * (P + 1) = s * (P + 1) + (P + 1) + k * (P + 1)
  BY <1>1
<1>3. s * (P + 1) \in Nat /\ k * (P + 1) \in Nat
  BY <1>1
<1> QED
  BY <1>2, <1>3

=============================================================================
