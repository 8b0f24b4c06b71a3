------------------------- MODULE AdmissionProofs -------------------------
(***************************************************************************)
(* Proofs about Admission, for any number of launches and GPUs, any memory *)
(* and any configurations.                                                 *)
(***************************************************************************)
EXTENDS Admission, RecursionLemmas

-----------------------------------------------------------------------------
(* Arithmetic                                                               *)

\* Division rounded up: the least whole number of d that is enough for n.
LEMMA CeilDivIsLeast ==
  ASSUME NEW n \in Nat, NEW d \in Nat \ {0}
  PROVE  /\ CeilDiv(n, d) \in Nat
         /\ CeilDiv(n, d) * d >= n /\ (CeilDiv(n, d) - 1) * d < n
<1> DEFINE a == n + d - 1
           q == a \div d
           r == a % d
<1>1. a \in Nat
  OBVIOUS
<1>2. q \in Nat /\ r \in 0 .. d - 1 /\ a = q * d + r
  BY <1>1
<1> HIDE DEF q, r
<1>3. (q - 1) * d = q * d - d
  BY <1>2
<1>4. q * d \in Int
  BY <1>2
<1>5. q * d >= n /\ (q - 1) * d < n
  BY <1>2, <1>3, <1>4
<1> QED
  BY <1>2, <1>5 DEF CeilDiv, q

\* The margin, and then whole MiB, are rounded up; together by less than a MiB.
LEMMA RequiredIsLeast ==
  ASSUME NEW b \in Nat, NEW p \in Nat
  PROVE  /\ Required(b, p) \in Nat
         /\ 100 * MiB * Required(b, p) >= b * (100 + p)
         /\ 100 * MiB * (Required(b, p) - 1) < b * (100 + p)
<1> DEFINE e == b * (100 + p)
           w == CeilDiv(e, 100)
<1>1. e \in Nat
  OBVIOUS
<1>2. MiB \in Nat \ {0} /\ MiB = 1048576
  BY DEF MiB
<1>3. w \in Nat /\ w * 100 >= e /\ (w - 1) * 100 < e
  <2> HIDE DEF e
  <2> QED
    BY <1>1, CeilDivIsLeast
<1>4. /\ CeilDiv(w, MiB) \in Nat
      /\ CeilDiv(w, MiB) * MiB >= w /\ (CeilDiv(w, MiB) - 1) * MiB < w
  BY <1>2, <1>3, CeilDivIsLeast
<1>5. Required(b, p) = CeilDiv(w, MiB)
  BY DEF Required, WithMargin
<1> HIDE DEF e, w
<1> QED
  BY <1>1, <1>2, <1>3, <1>4, <1>5 DEF e

LEMMA WholeMiB == \A b, p \in Nat : Required(b, p) \in Nat
BY RequiredIsLeast

LEMMA JobNumbers ==
  ASSUME NEW j \in Job
  PROVE  /\ ServingBytes(j) \in Nat /\ j.reserve \in Nat
         /\ j.least \in Nat /\ j.most \in Nat /\ j.most <= Whole
<1>1. /\ j.parameters \in Nat /\ j.element \in Nat /\ j.adapter \in Nat /\ j.layers \in Nat
      /\ j.heads \in Nat /\ j.dim \in Nat /\ j.length \in Nat /\ j.sequences \in Nat
      /\ j.overhead \in Nat /\ j.reserve \in Nat /\ j.least \in Nat /\ j.most \in Nat
      /\ 1 <= j.least /\ j.least <= j.most /\ j.most <= Whole
  BY AdmissionAssumption DEF JobField
<1>2. \A m, n \in Nat : m * n \in Nat
  OBVIOUS
<1>3. j.parameters * j.element \in Nat
  BY <1>1, <1>2
<1>4. CeilDiv(j.parameters * j.element * j.adapter, 100) \in Nat
  <2>1. j.parameters * j.element * j.adapter \in Nat
    BY <1>1, <1>2, <1>3
  <2>2. \A n \in Nat : CeilDiv(n, 100) \in Nat
    BY CeilDivIsLeast
  <2> QED
    BY <2>1, <2>2
<1>5. 2 * j.layers * j.heads * j.dim * j.length * j.sequences * j.element \in Nat
  <2>1. 2 * j.layers * j.heads \in Nat
    BY <1>1, <1>2
  <2>2. 2 * j.layers * j.heads * j.dim \in Nat
    BY <1>1, <1>2, <2>1
  <2>3. 2 * j.layers * j.heads * j.dim * j.length \in Nat
    BY <1>1, <1>2, <2>2
  <2>4. 2 * j.layers * j.heads * j.dim * j.length * j.sequences \in Nat
    BY <1>1, <1>2, <2>3
  <2> QED
    BY <1>1, <1>2, <2>4
<1>6. j.overhead * MiB \in Nat
  BY <1>1 DEF MiB
<1>7. ServingBytes(j) \in Nat
  BY <1>3, <1>4, <1>5, <1>6 DEF ServingBytes
<1> QED
  BY <1>1, <1>7

\* The share of a GPU that is enough for serving.
LEMMA ShareIsLeast ==
  ASSUME NEW serving \in Nat, NEW total \in Nat \ {0}, NEW least \in Nat
  PROVE  /\ Share(serving, total, least) \in Nat
         /\ Share(serving, total, least) * total >= Whole * serving
         /\ \/ Share(serving, total, least) = least
            \/ (Share(serving, total, least) - 1) * total < Whole * serving
<1> DEFINE n == serving * Whole
           c == CeilDiv(n, total)
<1>1. n \in Nat /\ n = Whole * serving
  BY DEF Whole
<1>2. c \in Nat /\ c * total >= n /\ (c - 1) * total < n
  <2> HIDE DEF n
  <2> QED
    BY <1>1, CeilDivIsLeast
<1>3. Share(serving, total, least) = Larger(c, least)
  BY DEF Share
<1> HIDE DEF n, c
<1>4. CASE c < least
  <2>1. Larger(c, least) = least
    BY <1>4 DEF Larger
  <2>2. least * total = c * total + (least - c) * total
    BY <1>2
  <2>3. (least - c) * total >= 0 /\ (least - c) * total \in Int /\ c * total \in Int
    BY <1>2, <1>4
  <2>4. least * total >= n
    BY <1>1, <1>2, <2>2, <2>3
  <2> QED
    BY <1>1, <1>3, <2>1, <2>4
<1>5. CASE ~(c < least)
  <2>1. Larger(c, least) = c /\ c >= least
    BY <1>2, <1>5 DEF Larger
  <2> QED
    BY <1>1, <1>2, <1>3, <2>1
<1> QED
  BY <1>4, <1>5

LEMMA WholeIsNat == Whole \in Nat
BY DEF Whole

LEMMA WholeShare ==
  \A serving, least \in Nat : \A total \in Nat \ {0} : Share(serving, total, least) \in Nat
BY ShareIsLeast

-----------------------------------------------------------------------------
(* Decimals                                                                 *)

\* What each start of a decimal stands for.
IsValue(value, d) ==
  value[0] = 0 /\ \A i \in 1 .. Len(d) : value[i] = 10 * value[i - 1] + d[i]

LEMMA ValueExists ==
  ASSUME NEW d \in Seq(0 .. 9)
  PROVE  /\ \E value \in [0 .. Len(d) -> Nat] : IsValue(value, d)
         /\ \A value : value = [i \in 0 .. Len(d) |-> IF i = 0 THEN 0 ELSE 10 * value[i - 1] + d[i]]
                        => IsValue(value, d)
         /\ \E value : value = [i \in 0 .. Len(d) |-> IF i = 0 THEN 0 ELSE 10 * value[i - 1] + d[i]]
<1> DEFINE n == Len(d)
           digit == [t \in Nat |-> IF t \in 1 .. n THEN d[t] ELSE 0]
           F == [t \in Nat |-> [b \in Nat |-> 10 * b + digit[t]]]
<1>1. n \in Nat /\ n = Len(d) /\ \A t \in 1 .. n : d[t] \in 0 .. 9 /\ t \in Nat /\ t # 0
  OBVIOUS
<1> HIDE DEF n
<1>2. digit \in [Nat -> 0 .. 9] /\ \A t \in 1 .. n : digit[t] = d[t]
  BY <1>1
<1> HIDE DEF digit
<1>3. F \in [Nat -> [Nat -> Nat]]
  BY <1>2
<1>4. \A t \in Nat, b \in Nat : F[t][b] = 10 * b + digit[t]
  OBVIOUS
<1> HIDE DEF F
<1>5. PICK f \in [0 .. n -> Nat] : Follows(f, n, 0, F)
  BY <1>1, <1>3, 0 \in Nat, RecursionIsDefined, Zenon
<1>6. IsValue(f, d)
  <2>1. \A i \in 1 .. n : f[i] = 10 * f[i - 1] + d[i]
    <3> TAKE i \in 1 .. n
    <3>1. f[i - 1] \in Nat /\ i \in Nat
      BY <1>1
    <3>2. f[i] = F[i][f[i - 1]]
      BY <1>5 DEF Follows
    <3> QED
      BY <3>1, <3>2, <1>2, <1>4
  <2> QED
    BY <2>1, <1>1, <1>5 DEF IsValue, Follows
<1>7. ASSUME NEW value,
             value = [i \in 0 .. n |-> IF i = 0 THEN 0 ELSE 10 * value[i - 1] + d[i]]
      PROVE  IsValue(value, d)
  <2>1. 0 \in 0 .. n /\ \A i \in 1 .. n : i \in 0 .. n /\ i # 0
    BY <1>1
  <2>2. value[0] = 0
    BY <2>1, <1>7
  <2>3. \A i \in 1 .. n : value[i] = 10 * value[i - 1] + d[i]
    BY <2>1, <1>7
  <2> QED
    BY <1>1, <2>2, <2>3 DEF IsValue
<1>8. f = [i \in 0 .. n |-> IF i = 0 THEN 0 ELSE 10 * f[i - 1] + d[i]]
  <2>1. \A i \in 0 .. n : f[i] = IF i = 0 THEN 0 ELSE 10 * f[i - 1] + d[i]
    <3> TAKE i \in 0 .. n
    <3>1. i = 0 \/ i \in 1 .. n
      BY <1>1
    <3> QED
      BY <3>1, <1>1, <1>6 DEF IsValue
  <2> QED
    BY <2>1
<1> QED
  BY <1>1, <1>6, <1>7, <1>8

LEMMA ValueIsUnique ==
  ASSUME NEW d \in Seq(0 .. 9), NEW f, NEW g, IsValue(f, d), IsValue(g, d)
  PROVE  \A i \in 0 .. Len(d) : f[i] = g[i]
<1> DEFINE n == Len(d)
           S == {i \in 0 .. n : f[i] = g[i]}
<1>1. n \in Nat /\ n = Len(d)
  OBVIOUS
<1> HIDE DEF n
<1>2. 0 \in S
  BY <1>1 DEF IsValue
<1>3. \A i \in 1 .. n : i - 1 \in S => i \in S
  BY <1>1 DEF IsValue
<1>4. \A i \in S : f[i] = g[i]
  OBVIOUS
<1> HIDE DEF S
<1> QED
  BY <1>1, <1>2, <1>3, <1>4, InductionUpTo

LEMMA NumberIsValue ==
  ASSUME NEW d \in Seq(0 .. 9), NEW value, IsValue(value, d)
  PROVE  Number(d) = value[Len(d)]
<1> DEFINE f[i \in 0 .. Len(d)] == IF i = 0 THEN 0 ELSE 10 * f[i - 1] + d[i]
<1>1. Number(d) = f[Len(d)]
  BY Zenon DEF Number
<1>2. f = [i \in 0 .. Len(d) |-> IF i = 0 THEN 0 ELSE 10 * f[i - 1] + d[i]]
  <2>1. \E value2 : value2 = [i \in 0 .. Len(d) |-> IF i = 0 THEN 0 ELSE 10 * value2[i - 1] + d[i]]
    BY ValueExists
  <2> QED
    BY <2>1, Zenon
<1> HIDE DEF f
<1>3. IsValue(f, d)
  BY <1>2, ValueExists, Zenon
<1>4. Len(d) \in 0 .. Len(d)
  OBVIOUS
<1> QED
  BY <1>1, <1>3, <1>4, ValueIsUnique

\* A decimal without leading zeros.
Normal(d) == d \in Seq(0 .. 9) /\ Len(d) >= 1 /\ (Len(d) = 1 \/ d[1] # 0)

\* Where two decimals of one length first differ.
Differ(a, b, i) == a[i] < b[i] /\ \A j \in 1 .. i - 1 : a[j] = b[j]

LEMMA OneDigitMore ==
  ASSUME NEW x \in Nat, NEW y \in Nat, NEW p \in 0 .. 9, NEW q \in 0 .. 9
  PROVE  /\ x < y => 10 * x + p < 10 * y + q
         /\ x = y /\ p < q => 10 * x + p < 10 * y + q
         /\ 1 <= x \/ 1 <= p => 1 <= 10 * x + p
OBVIOUS

LEMMA LessAtDifference ==
  ASSUME NEW a \in Seq(0 .. 9), NEW b \in Seq(0 .. 9), Len(a) = Len(b),
         NEW f \in [0 .. Len(a) -> Nat], NEW g \in [0 .. Len(b) -> Nat],
         IsValue(f, a), IsValue(g, b), NEW i \in 1 .. Len(a), Differ(a, b, i)
  PROVE  f[Len(a)] < g[Len(b)]
<1> DEFINE n == Len(a)
           S == {j \in 0 .. n : IF j < i THEN f[j] = g[j] ELSE f[j] < g[j]}
<1>1. /\ n \in Nat /\ n = Len(a) /\ n = Len(b) /\ n \in 0 .. n
      /\ \A j \in 1 .. n : /\ a[j] \in 0 .. 9 /\ b[j] \in 0 .. 9
                          /\ j \in 0 .. n /\ j - 1 \in 0 .. n
      /\ \A j \in 0 .. n : f[j] \in Nat /\ g[j] \in Nat
  <2>1. n \in Nat /\ n = Len(a) /\ n = Len(b)
    OBVIOUS
  <2>2. \A j \in 1 .. n : a[j] \in 0 .. 9 /\ b[j] \in 0 .. 9
    OBVIOUS
  <2> HIDE DEF n
  <2>3. \A j \in 0 .. n : f[j] \in Nat /\ g[j] \in Nat
    BY <2>1
  <2>4. \A j \in 1 .. n : j \in 0 .. n /\ j - 1 \in 0 .. n
    BY <2>1
  <2> QED
    BY <2>1, <2>2, <2>3, <2>4
<1> HIDE DEF n
<1>2. 0 \in S
  BY <1>1 DEF IsValue
<1>3. ASSUME NEW j \in 1 .. n, j - 1 \in S
      PROVE  j \in S
  <2>1. f[j] = 10 * f[j - 1] + a[j] /\ g[j] = 10 * g[j - 1] + b[j]
    BY <1>1 DEF IsValue
  <2>2. /\ f[j - 1] \in Nat /\ g[j - 1] \in Nat /\ a[j] \in 0 .. 9 /\ b[j] \in 0 .. 9
    BY <1>1
  <2>3. CASE j < i
    <3>1. a[j] = b[j] /\ f[j - 1] = g[j - 1]
      BY <1>1, <1>3, <2>3 DEF Differ
    <3> QED
      BY <2>1, <2>3, <3>1
  <2>4. CASE j = i
    <3>1. a[j] < b[j] /\ f[j - 1] = g[j - 1]
      BY <1>1, <1>3, <2>4 DEF Differ
    <3>2. f[j] < g[j]
      BY <2>1, <2>2, <3>1, OneDigitMore
    <3> QED
      BY <2>4, <3>2
  <2>5. CASE j > i
    <3>1. f[j - 1] < g[j - 1]
      BY <1>3, <2>5
    <3>2. f[j] < g[j]
      BY <2>1, <2>2, <3>1, OneDigitMore
    <3> QED
      BY <2>5, <3>2
  <2> QED
    BY <1>1, <2>3, <2>4, <2>5
<1>4. \A j \in S : j >= i => f[j] < g[j]
  OBVIOUS
<1> HIDE DEF S
<1>5. n \in S
  BY <1>1, <1>2, <1>3, InductionUpTo
<1> QED
  BY <1>1, <1>4, <1>5

LEMMA LessByLength ==
  ASSUME NEW a \in Seq(0 .. 9), NEW b \in Seq(0 .. 9), Len(a) < Len(b), b[1] # 0,
         NEW f \in [0 .. Len(a) -> Nat], NEW g \in [0 .. Len(b) -> Nat],
         IsValue(f, a), IsValue(g, b)
  PROVE  f[Len(a)] < g[Len(b)]
<1> DEFINE m == Len(a)
           n == Len(b)
           o == n - m
<1>1. /\ m \in Nat /\ n \in Nat /\ m = Len(a) /\ n = Len(b) /\ m < n
      /\ \A j \in 1 .. m : a[j] \in 0 .. 9 /\ j - 1 \in 0 .. m
      /\ \A j \in 1 .. n : b[j] \in 0 .. 9 /\ j \in 0 .. n /\ j - 1 \in 0 .. n
      /\ \A j \in 0 .. m : f[j] \in Nat
      /\ \A j \in 0 .. n : g[j] \in Nat
  <2>1. m \in Nat /\ n \in Nat /\ m = Len(a) /\ n = Len(b) /\ m < n
    OBVIOUS
  <2>2. (\A j \in 1 .. m : a[j] \in 0 .. 9) /\ (\A j \in 1 .. n : b[j] \in 0 .. 9)
    OBVIOUS
  <2> HIDE DEF m, n
  <2>3. (\A j \in 0 .. m : f[j] \in Nat) /\ (\A j \in 0 .. n : g[j] \in Nat)
    BY <2>1
  <2>4. /\ \A j \in 1 .. m : j - 1 \in 0 .. m
        /\ \A j \in 1 .. n : j \in 0 .. n /\ j - 1 \in 0 .. n
    BY <2>1
  <2> QED
    BY <2>1, <2>2, <2>3, <2>4
<1> HIDE DEF m, n
<1>2. \A j \in 1 .. n : g[j] >= 1
  <2> DEFINE S == {j \in 0 .. n : j = 0 \/ g[j] >= 1}
  <2>1. 0 \in S
    BY <1>1
  <2>2. ASSUME NEW j \in 1 .. n, j - 1 \in S
        PROVE  j \in S
    <3>1. g[j] = 10 * g[j - 1] + b[j] /\ g[j - 1] \in Nat /\ b[j] \in 0 .. 9 /\ j \in 0 .. n
      BY <1>1 DEF IsValue
    <3>2. 1 <= g[j - 1] \/ 1 <= b[j]
      <4>1. j - 1 = 0 \/ g[j - 1] >= 1
        BY <2>2
      <4>2. j - 1 = 0 => 1 <= b[j]
        BY <3>1
      <4>3. g[j - 1] >= 1 => 1 <= g[j - 1]
        BY <3>1
      <4> QED
        BY <4>1, <4>2, <4>3
    <3>3. g[j] \in Nat /\ 1 <= g[j]
      <4>1. 0 \in 0 .. 9 /\ g[j] \in Nat
        BY <3>1, <1>1
      <4>2. 1 <= 10 * g[j - 1] + b[j]
        BY <3>1, <3>2, <4>1, OneDigitMore
      <4> QED
        BY <3>1, <4>1, <4>2
    <3> QED
      BY <3>1, <3>3
  <2>3. \A j \in S : j \in 1 .. n => g[j] >= 1
    BY <1>1
  <2> HIDE DEF S
  <2>4. \A j \in 0 .. n : j \in S
    BY <1>1, <2>1, <2>2, InductionUpTo
  <2>5. \A j \in 1 .. n : j \in 0 .. n
    BY <1>1
  <2> QED
    BY <2>3, <2>4, <2>5
<1> DEFINE S == {i \in 0 .. m : f[i] < g[o + i]}
<1>3. 0 \in S
  <2>1. f[0] = 0 /\ o + 0 \in 1 .. n /\ 0 \in 0 .. m
    BY <1>1 DEF IsValue
  <2>2. g[o + 0] >= 1 /\ g[o + 0] \in Nat
    BY <2>1, <1>1, <1>2
  <2>3. f[0] < g[o + 0]
    BY <2>1, <2>2
  <2> QED
    BY <2>1, <2>3
<1>4. ASSUME NEW i \in 1 .. m, i - 1 \in S
      PROVE  i \in S
  <2>1. o + i \in 1 .. n /\ (o + i) - 1 = o + (i - 1) /\ o + (i - 1) \in 0 .. n
    BY <1>1
  <2>2. f[i] = 10 * f[i - 1] + a[i] /\ g[o + i] = 10 * g[o + (i - 1)] + b[o + i]
    BY <1>1, <2>1 DEF IsValue
  <2>3. /\ f[i - 1] \in Nat /\ g[o + (i - 1)] \in Nat /\ a[i] \in 0 .. 9 /\ b[o + i] \in 0 .. 9
    <3> HIDE DEF o
    <3> QED
      BY <1>1, <2>1
  <2>4. f[i - 1] < g[o + (i - 1)]
    BY <1>4
  <2>5. f[i] < g[o + i]
    BY <2>2, <2>3, <2>4, OneDigitMore
  <2> QED
    BY <2>5
<1>5. \A i \in S : f[i] < g[o + i]
  OBVIOUS
<1>6. o + m = n /\ m \in 0 .. m
  BY <1>1
<1> HIDE DEF S, o
<1>7. m \in S
  BY <1>1, <1>3, <1>4, <1>6, InductionUpTo
<1> QED
  BY <1>1, <1>5, <1>6, <1>7

LEMMA LessIsSmaller ==
  ASSUME NEW a, NEW b, Normal(a), Normal(b), Less(a, b)
  PROVE  Number(a) < Number(b)
<1>1. a \in Seq(0 .. 9) /\ b \in Seq(0 .. 9)
  BY DEF Normal
<1>2. PICK f \in [0 .. Len(a) -> Nat] : IsValue(f, a)
  BY <1>1, ValueExists
<1>3. PICK g \in [0 .. Len(b) -> Nat] : IsValue(g, b)
  BY <1>1, ValueExists
<1>4. Number(a) = f[Len(a)] /\ Number(b) = g[Len(b)]
  BY <1>1, <1>2, <1>3, NumberIsValue
<1>5. CASE Len(a) < Len(b)
  <2>1. b[1] # 0
    BY <1>1, <1>5 DEF Normal
  <2> QED
    BY <1>1, <1>2, <1>3, <1>4, <1>5, <2>1, LessByLength
<1>6. CASE ~(Len(a) < Len(b))
  <2>1. PICK i \in 1 .. Len(a) : Len(a) = Len(b) /\ Differ(a, b, i)
    BY <1>6 DEF Less, Differ
  <2> QED
    BY <1>1, <1>2, <1>3, <1>4, <2>1, LessAtDifference
<1> QED
  BY <1>5, <1>6

LEMMA OneIsLess ==
  ASSUME NEW a \in Seq(0 .. 9), NEW b \in Seq(0 .. 9), a # b
  PROVE  Less(a, b) \/ Less(b, a)
<1>1. CASE Len(a) # Len(b)
  BY <1>1 DEF Less
<1>2. CASE Len(a) = Len(b)
  <2> DEFINE T == {i \in 1 .. Len(a) : a[i] # b[i]}
  <2>1. T # {}
    BY <1>2
  <2>2. T \subseteq Nat
    OBVIOUS
  <2>3. \A i \in 1 .. Len(a) : a[i] # b[i] => i \in T
    OBVIOUS
  <2>4. \A i \in T : i \in 1 .. Len(a) /\ a[i] # b[i]
    OBVIOUS
  <2> HIDE DEF T
  <2>5. PICK i \in T : \A j \in T : i <= j
    BY <2>1, <2>2, LeastElement
  <2>6. i \in 1 .. Len(a) /\ a[i] \in 0 .. 9 /\ b[i] \in 0 .. 9 /\ a[i] # b[i]
    BY <1>2, <2>4
  <2>7. \A j \in 1 .. i - 1 : a[j] = b[j]
    <3> SUFFICES ASSUME NEW j \in 1 .. i - 1, a[j] # b[j] PROVE FALSE
      OBVIOUS
    <3>1. j \in 1 .. Len(a) /\ ~(i <= j)
      BY <2>6
    <3> QED
      BY <3>1, <2>3, <2>5
  <2>8. a[i] < b[i] \/ b[i] < a[i]
    BY <2>6
  <2>9. CASE a[i] < b[i]
    BY <1>2, <2>6, <2>7, <2>9 DEF Less
  <2>10. CASE b[i] < a[i]
    <3>1. \A j \in 1 .. i - 1 : b[j] = a[j]
      BY <2>7
    <3> QED
      BY <1>2, <2>6, <2>10, <3>1 DEF Less
  <2> QED
    BY <2>8, <2>9, <2>10
<1> QED
  BY <1>1, <1>2

LEMMA NumbersAreNat ==
  ASSUME NEW d \in Seq(0 .. 9)
  PROVE  Number(d) \in Nat
<1>1. PICK f \in [0 .. Len(d) -> Nat] : IsValue(f, d)
  BY ValueExists
<1>2. Number(d) = f[Len(d)] /\ Len(d) \in 0 .. Len(d)
  BY <1>1, NumberIsValue
<1> QED
  BY <1>2

\* Strings without leading zeros compare as their numbers do.
LEMMA NormalDecimalsCompare ==
  ASSUME NEW a, NEW b, Normal(a), Normal(b)
  PROVE  /\ Less(a, b) <=> Number(a) < Number(b)
         /\ a = b <=> Number(a) = Number(b)
<1>1. a \in Seq(0 .. 9) /\ b \in Seq(0 .. 9)
  BY DEF Normal
<1>2. Number(a) \in Nat /\ Number(b) \in Nat
  BY <1>1, NumbersAreNat
<1>3. Less(a, b) => Number(a) < Number(b)
  BY LessIsSmaller
<1>4. Less(b, a) => Number(b) < Number(a)
  BY LessIsSmaller
<1>5. a = b \/ Less(a, b) \/ Less(b, a)
  BY <1>1, OneIsLess
<1> QED
  BY <1>2, <1>3, <1>4, <1>5

\* What is left of a number as its digits are taken off.
IsLeft(left, n) == left[0] = n /\ \A k \in 1 .. n + 1 : left[k] = left[k - 1] \div 10

LEMMA LeftExists ==
  ASSUME NEW n \in Nat
  PROVE  /\ \E left : left = [k \in 0 .. n + 1 |-> IF k = 0 THEN n ELSE left[k - 1] \div 10]
         /\ \A left : left = [k \in 0 .. n + 1 |-> IF k = 0 THEN n ELSE left[k - 1] \div 10]
                       => IsLeft(left, n)
<1> DEFINE F == [t \in Nat |-> [b \in Nat |-> b \div 10]]
<1>1. F \in [Nat -> [Nat -> Nat]]
  OBVIOUS
<1>2. \A t \in Nat, b \in Nat : F[t][b] = b \div 10
  OBVIOUS
<1> HIDE DEF F
<1>3. n + 1 \in Nat
  OBVIOUS
<1>4. PICK f \in [0 .. n + 1 -> Nat] : Follows(f, n + 1, n, F)
  BY <1>1, <1>3, RecursionIsDefined, Zenon
<1>5. f = [k \in 0 .. n + 1 |-> IF k = 0 THEN n ELSE f[k - 1] \div 10]
  <2>1. \A k \in 0 .. n + 1 : f[k] = IF k = 0 THEN n ELSE f[k - 1] \div 10
    <3> TAKE k \in 0 .. n + 1
    <3>1. CASE k = 0
      BY <3>1, <1>4 DEF Follows
    <3>2. CASE k # 0
      <4>1. k \in 1 .. n + 1 /\ k - 1 \in 0 .. n + 1 /\ k \in Nat
        BY <3>2
      <4>2. f[k - 1] \in Nat /\ f[k] = F[k][f[k - 1]]
        BY <4>1, <1>4 DEF Follows
      <4> QED
        BY <4>1, <4>2, <1>2, <3>2
    <3> QED
      BY <3>1, <3>2
  <2> QED
    BY <2>1
<1>6. ASSUME NEW left, left = [k \in 0 .. n + 1 |-> IF k = 0 THEN n ELSE left[k - 1] \div 10]
      PROVE  IsLeft(left, n)
  <2>1. 0 \in 0 .. n + 1 /\ \A k \in 1 .. n + 1 : k \in 0 .. n + 1 /\ k # 0
    OBVIOUS
  <2>2. left[0] = n
    BY <2>1, <1>6
  <2>3. \A k \in 1 .. n + 1 : left[k] = left[k - 1] \div 10
    BY <2>1, <1>6
  <2> QED
    BY <2>2, <2>3 DEF IsLeft
<1> QED
  BY <1>5, <1>6

LEMMA TenthIsLess ==
  ASSUME NEW x \in Nat
  PROVE  /\ x \div 10 \in Nat /\ x % 10 \in 0 .. 9 /\ x = 10 * (x \div 10) + (x % 10)
         /\ x # 0 => x \div 10 < x
         /\ x # 0 /\ x \div 10 = 0 => x % 10 # 0
<1> DEFINE q == x \div 10
           r == x % 10
<1>1. q \in Nat
  OBVIOUS
<1>2. r \in 0 .. 9
  OBVIOUS
<1>3. x = 10 * q + r
  OBVIOUS
<1> HIDE DEF q, r
<1>4. x # 0 => q < x /\ (q = 0 => r # 0)
  BY <1>1, <1>2, <1>3
<1> QED
  BY <1>1, <1>2, <1>3, <1>4 DEF q, r

LEMMA LeftRunsOut ==
  ASSUME NEW n \in Nat, NEW left, IsLeft(left, n)
  PROVE  /\ \A k \in 0 .. n + 1 : left[k] \in Nat
         /\ \E w \in 1 .. n + 1 : left[w] = 0 /\ (w = 1 \/ left[w - 1] # 0)
<1> DEFINE S == {k \in 0 .. n + 1 : left[k] \in Nat /\ (left[k] = 0 \/ left[k] + k <= n)}
<1>1. 0 \in S
  BY DEF IsLeft
<1>2. ASSUME NEW k \in 1 .. n + 1, k - 1 \in S
      PROVE  k \in S
  <2>1. left[k] = left[k - 1] \div 10
    BY DEF IsLeft
  <2>2. left[k - 1] \in Nat /\ (left[k - 1] = 0 \/ left[k - 1] + (k - 1) <= n)
    BY <1>2
  <2>3. left[k] \in Nat /\ (left[k - 1] # 0 => left[k] < left[k - 1])
    BY <2>1, <2>2, TenthIsLess
  <2>4. left[k - 1] = 0 => left[k] = 0
    BY <2>1
  <2> QED
    BY <2>2, <2>3, <2>4
<1>3. \A k \in S : left[k] \in Nat /\ (left[k] = 0 \/ left[k] + k <= n)
  OBVIOUS
<1> HIDE DEF S
<1>4. n + 1 \in Nat /\ n + 1 \in 1 .. n + 1
  OBVIOUS
<1>5. \A k \in 0 .. n + 1 : k \in S
  BY <1>1, <1>2, <1>4, InductionUpTo
<1>6. \A k \in 0 .. n + 1 : left[k] \in Nat
  BY <1>3, <1>5
<1> DEFINE T == {w \in 1 .. n + 1 : left[w] = 0}
<1>7. n + 1 \in T
  <2>1. left[n + 1] \in Nat /\ (left[n + 1] = 0 \/ left[n + 1] + (n + 1) <= n)
    BY <1>3, <1>4, <1>5
  <2> QED
    BY <2>1
<1>8. \A w \in T : w \in 1 .. n + 1 /\ left[w] = 0
  OBVIOUS
<1>9. \A w \in 1 .. n + 1 : left[w] = 0 => w \in T
  OBVIOUS
<1>10. T \subseteq Nat
  OBVIOUS
<1> HIDE DEF T
<1>11. PICK w \in T : \A y \in T : w <= y
  BY <1>7, <1>10, LeastElement
<1>12. ASSUME w # 1, left[w - 1] = 0
       PROVE  FALSE
  <2>1. w - 1 \in 1 .. n + 1 /\ ~(w <= w - 1)
    BY <1>8, <1>12
  <2> QED
    BY <2>1, <1>9, <1>11, <1>12
<1> QED
  BY <1>6, <1>8, <1>11, <1>12

\* The digits of a number stand for it, and do not begin with a zero.
LEMMA DigitsStandForNumber ==
  ASSUME NEW n \in Nat
  PROVE  Normal(Digits(n)) /\ Number(Digits(n)) = n
<1> DEFINE left[k \in 0 .. n + 1] == IF k = 0 THEN n ELSE left[k - 1] \div 10
           w == CHOOSE x \in 1 .. n + 1 : left[x] = 0 /\ (x = 1 \/ left[x - 1] # 0)
           d == [i \in 1 .. w |-> left[w - i] % 10]
<1>1. Digits(n) = d
  BY Zenon DEF Digits
<1>2. left = [k \in 0 .. n + 1 |-> IF k = 0 THEN n ELSE left[k - 1] \div 10]
  <2>1. \E x : x = [k \in 0 .. n + 1 |-> IF k = 0 THEN n ELSE x[k - 1] \div 10]
    BY LeftExists
  <2> QED
    BY <2>1, Zenon
<1> HIDE DEF left
<1>3. IsLeft(left, n)
  BY <1>2, LeftExists, Zenon
<1>4. w \in 1 .. n + 1 /\ left[w] = 0 /\ (w = 1 \/ left[w - 1] # 0)
  BY <1>3, LeftRunsOut
<1> HIDE DEF w
<1>5. \A k \in 0 .. n + 1 : left[k] \in Nat
  BY <1>3, LeftRunsOut
<1>6. \A i \in 1 .. w : /\ w - i \in 0 .. n + 1 /\ w - i + 1 \in 1 .. n + 1
                       /\ (w - i + 1) - 1 = w - i /\ w - (i - 1) = w - i + 1
  BY <1>4
<1>7. d \in Seq(0 .. 9) /\ Len(d) = w
  <2>1. \A i \in 1 .. w : left[w - i] % 10 \in 0 .. 9
    BY <1>5, <1>6, TenthIsLess
  <2>2. w \in Nat
    BY <1>4
  <2>3. d \in [1 .. w -> 0 .. 9]
    BY <2>1
  <2> HIDE DEF d
  <2> QED
    BY <2>2, <2>3
<1>8. \A i \in 1 .. w : d[i] = left[w - i] % 10
  OBVIOUS
<1> HIDE DEF d
<1>9. Normal(d)
  <2>1. CASE w = 1
    BY <1>7, <2>1 DEF Normal
  <2>2. CASE w # 1
    <3>1. 1 \in 1 .. w /\ w - 1 \in 0 .. n + 1 /\ w \in 1 .. n + 1 /\ w >= 1
      BY <1>4
    <3>2. left[w] = left[w - 1] \div 10 /\ left[w - 1] \in Nat
      BY <3>1, <1>3, <1>5 DEF IsLeft
    <3>3. d[1] # 0
      BY <3>1, <3>2, <1>4, <1>8, <2>2, TenthIsLess
    <3> QED
      BY <3>1, <3>3, <1>7 DEF Normal
  <2> QED
    BY <2>1, <2>2
<1> DEFINE value == [i \in 0 .. w |-> left[w - i]]
<1>10. IsValue(value, d) /\ value[w] = n
  <2>1. 0 \in 0 .. w /\ w \in 0 .. w /\ w - 0 = w /\ w - w = 0
        /\ \A i \in 1 .. w : i \in 0 .. w /\ i - 1 \in 0 .. w
    BY <1>4
  <2>2. value[0] = 0 /\ value[w] = n
    BY <2>1, <1>3, <1>4 DEF IsLeft
  <2>3. ASSUME NEW i \in 1 .. w
        PROVE  value[i] = 10 * value[i - 1] + d[i]
    <3>1. value[i] = left[w - i] /\ value[i - 1] = left[w - i + 1]
      BY <2>1, <1>6
    <3>2. left[w - i + 1] = left[w - i] \div 10 /\ left[w - i] \in Nat
      BY <1>3, <1>5, <1>6 DEF IsLeft
    <3>3. d[i] = left[w - i] % 10
      BY <1>8
    <3>4. left[w - i] = 10 * (left[w - i] \div 10) + (left[w - i] % 10)
      BY <3>2, TenthIsLess
    <3> HIDE DEF value
    <3> QED
      BY <3>1, <3>2, <3>3, <3>4
  <2> HIDE DEF value
  <2> QED
    BY <2>2, <2>3, <1>7 DEF IsValue
<1> HIDE DEF value
<1>11. Number(d) = n
  BY <1>7, <1>10, NumberIsValue
<1> QED
  BY <1>1, <1>9, <1>11

\* Leading zeros do not matter.
LEMMA NormalizeKeepsNumber ==
  ASSUME NEW d \in Seq(0 .. 9), d # <<>>
  PROVE  Normal(Normalize(d)) /\ Number(Normalize(d)) = Number(d)
<1> DEFINE n == Len(d)
           kept == CHOOSE i \in 1 .. Len(d) : /\ \A j \in 1 .. i - 1 : d[j] = 0
                                              /\ i = Len(d) \/ d[i] # 0
           e == SubSeq(d, kept, n)
<1>1. /\ n \in Nat /\ n = Len(d) /\ n >= 1 /\ n \in 1 .. n
      /\ \A i \in 1 .. n : d[i] \in 0 .. 9
  OBVIOUS
<1>2. Normalize(d) = e
  BY DEF Normalize
<1>3. \E i \in 1 .. n : (\A j \in 1 .. i - 1 : d[j] = 0) /\ (i = n \/ d[i] # 0)
  <2> DEFINE T == {i \in 1 .. n : i = n \/ d[i] # 0}
  <2> HIDE DEF n
  <2>1. n \in T /\ T \subseteq Nat
    BY <1>1
  <2>2. \A i \in T : i \in 1 .. n /\ (i = n \/ d[i] # 0)
    OBVIOUS
  <2>3. \A i \in 1 .. n : d[i] # 0 => i \in T
    OBVIOUS
  <2> HIDE DEF T
  <2>4. PICK i \in T : \A y \in T : i <= y
    BY <2>1, LeastElement
  <2>5. \A j \in 1 .. i - 1 : d[j] = 0
    <3> SUFFICES ASSUME NEW j \in 1 .. i - 1, d[j] # 0 PROVE FALSE
      OBVIOUS
    <3>1. j \in 1 .. n /\ ~(i <= j)
      BY <2>2, <1>1
    <3> QED
      BY <3>1, <2>3, <2>4
  <2> QED
    BY <2>2, <2>5
<1>4. kept \in 1 .. n /\ (\A j \in 1 .. kept - 1 : d[j] = 0) /\ (kept = n \/ d[kept] # 0)
  BY <1>3
<1> HIDE DEF kept
<1>5. /\ e \in Seq(0 .. 9) /\ Len(e) = n - kept + 1
      /\ \A i \in 1 .. n - kept + 1 : e[i] = d[kept + i - 1]
  BY <1>4
<1> HIDE DEF e, n
<1>6. Normal(e)
  <2>1. Len(e) >= 1 /\ 1 \in 1 .. n - kept + 1 /\ kept + 1 - 1 = kept /\ (kept = n => Len(e) = 1)
    BY <1>1, <1>4, <1>5
  <2> QED
    BY <2>1, <1>4, <1>5 DEF Normal
<1>7. PICK f \in [0 .. n -> Nat] : IsValue(f, d)
  BY <1>1, ValueExists
<1>8. f[kept - 1] = 0
  <2> DEFINE S == {j \in 0 .. kept - 1 : f[j] = 0}
  <2>1. 0 \in S
    BY <1>4, <1>7 DEF IsValue
  <2>2. ASSUME NEW j \in 1 .. kept - 1, j - 1 \in S
        PROVE  j \in S
    <3>1. j \in 1 .. n /\ d[j] = 0 /\ f[j - 1] = 0
      BY <1>1, <1>4, <2>2
    <3>2. f[j] = 10 * f[j - 1] + d[j]
      BY <3>1, <1>1, <1>7 DEF IsValue
    <3> QED
      BY <3>1, <3>2
  <2>3. \A j \in S : f[j] = 0
    OBVIOUS
  <2> HIDE DEF S
  <2>4. kept - 1 \in Nat /\ kept - 1 \in 0 .. kept - 1
    BY <1>1, <1>4
  <2> QED
    BY <2>1, <2>2, <2>3, <2>4, InductionUpTo
<1> DEFINE m == n - kept + 1
           g == [i \in 0 .. m |-> f[kept - 1 + i]]
<1>9. IsValue(g, e) /\ g[m] = f[n]
  <2>1. m \in Nat /\ 0 \in 0 .. m /\ m \in 0 .. m /\ kept - 1 + 0 = kept - 1 /\ kept - 1 + m = n
    BY <1>1, <1>4
  <2>2. g[0] = 0 /\ g[m] = f[n]
    BY <2>1, <1>8
  <2>3. ASSUME NEW i \in 1 .. m
        PROVE  g[i] = 10 * g[i - 1] + e[i]
    <3>1. /\ kept - 1 + i \in 1 .. n /\ (kept - 1 + i) - 1 = kept - 1 + (i - 1)
          /\ kept + i - 1 = kept - 1 + i /\ i \in 0 .. m /\ i - 1 \in 0 .. m
      BY <1>1, <1>4
    <3>2. f[kept - 1 + i] = 10 * f[kept - 1 + (i - 1)] + d[kept - 1 + i]
      BY <3>1, <1>1, <1>7 DEF IsValue
    <3>3. e[i] = d[kept - 1 + i]
      BY <3>1, <1>5
    <3>4. g[i] = f[kept - 1 + i] /\ g[i - 1] = f[kept - 1 + (i - 1)]
      <4> HIDE DEF m
      <4> QED
        BY <3>1
    <3> QED
      BY <3>2, <3>3, <3>4
  <2> HIDE DEF g, m
  <2>4. Len(e) = m
    BY <1>5 DEF m
  <2> QED
    BY <2>2, <2>3, <2>4 DEF IsValue
<1> HIDE DEF g
<1>10. Number(e) = g[m] /\ Number(d) = f[n]
  BY <1>1, <1>5, <1>7, <1>9, NumberIsValue
<1> QED
  BY <1>2, <1>6, <1>9, <1>10

\* The string comparisons of gpu_preflight.sh decide what arithmetic would.
LEMMA StringsCompareNumbers ==
  ASSUME NEW m \in Nat, NEW n \in Nat
  PROVE  Less(Digits(m), Digits(n)) <=> m < n
BY DigitsStandForNumber, NormalDecimalsCompare

LEMMA StringsNameNumbers ==
  ASSUME NEW m \in Nat, NEW d \in Seq(0 .. 9), d # <<>>
  PROVE  Digits(m) = Normalize(d) <=> m = Number(d)
BY DigitsStandForNumber, NormalizeKeepsNumber, NormalDecimalsCompare

-----------------------------------------------------------------------------
(* The inductive invariant, in named parts.                                 *)

\* A launch decides once, in the scan,
Undecided == \A l \in Launch : pc[l] \in {"estimate", "scan"} => chosen[l] = Nothing

\* on a GPU that exists, and on the share that its serving needs of it;
Decided ==
  \A l \in Launch : chosen[l] # Nothing =>
    /\ chosen[l].gpu \in GpuId
    /\ chosen[l].share = Share(Serving(l), Total[chosen[l].gpu], job[l].least)
    /\ chosen[l].share <= job[l].most

\* a file holds the decision of one of the launches that write it,
FilesAreDecisions ==
  \A p \in Launch \cup {Shared} : file[p] # Nothing =>
    \E k \in Launch : path[k] = p /\ file[p] = chosen[k] /\ chosen[k] # Nothing

\* and so does what a controller is told.
ToldAreDecisions ==
  \A l \in Launch : told[l] # Nothing =>
    \E k \in Launch : path[k] = path[l] /\ told[l] = chosen[k] /\ chosen[k] # Nothing

Inv == TypeOK /\ Undecided /\ Decided /\ FilesAreDecisions /\ ToldAreDecisions

LEMMA InitInv == Init => Inv
<1> SUFFICES ASSUME Init PROVE Inv
  OBVIOUS
<1>1. free \in [GpuId -> Nat]
  BY AdmissionAssumption DEF Init
<1>2. Nothing \in Choice
  BY WholeIsNat DEF Choice, Nothing
<1>3. TypeOK
  BY <1>1, <1>2 DEF Init, TypeOK, Label
<1> QED
  BY <1>3 DEF Init, Inv, Undecided, Decided, FilesAreDecisions, ToldAreDecisions

\* What a scan decides, if it does.
Decides(l, g, share) ==
  /\ share = Share(Serving(l), Total[g], job[l].least)
  /\ share <= job[l].most
  /\ chosen' = [chosen EXCEPT ![l] = [gpu |-> g, share |-> share]]
  /\ pc' = [pc EXCEPT ![l] = "publish"]

LEMMA ScanDecides ==
  ASSUME TypeOK, NEW l \in Launch, Scan(l)
  PROVE  \/ UNCHANGED chosen /\ pc' = [pc EXCEPT ![l] = "no_gpu"]
         \/ \E g \in GpuId, share \in 0 .. Whole : Decides(l, g, share)
<1> DEFINE share(s) == Share(Serving(l), s.total, job[l].least)
<1> HIDE DEF share
<1>1. PICK selected \in Loop(Device[l], Need(l), Records) :
        \/ /\ selected[Gpu] # None /\ share(selected[Gpu]) <= job[l].most
           /\ chosen' = [chosen EXCEPT ![l] =
                [gpu |-> selected[Gpu].gpu, share |-> share(selected[Gpu])]]
           /\ pc' = [pc EXCEPT ![l] = "publish"]
        \/ pc' = [pc EXCEPT ![l] = "no_gpu"] /\ UNCHANGED chosen
  BY DEF Scan, Goto, share
<1>2. CASE pc' = [pc EXCEPT ![l] = "no_gpu"] /\ UNCHANGED chosen
  BY <1>2
<1>3. CASE /\ selected[Gpu] # None /\ share(selected[Gpu]) <= job[l].most
           /\ chosen' = [chosen EXCEPT ![l] =
                [gpu |-> selected[Gpu].gpu, share |-> share(selected[Gpu])]]
           /\ pc' = [pc EXCEPT ![l] = "publish"]
  <2>1. selected[Gpu] \in {None} \cup {Records[i] : i \in 1 .. Gpu}
    BY AdmissionAssumption DEF Loop
  <2>2. PICK i \in 1 .. Gpu : selected[Gpu] = Records[i]
    BY <1>3, <2>1
  <2>3. i - 1 \in GpuId /\ selected[Gpu].gpu = i - 1 /\ selected[Gpu].total = Total[i - 1]
    BY <2>2, AdmissionAssumption DEF Records, GpuId
  <2>4. job[l] \in Job /\ Total[i - 1] \in Nat \ {0}
    BY <2>3, AdmissionAssumption DEF TypeOK
  <2>5. /\ ServingBytes(job[l]) \in Nat /\ job[l].reserve \in Nat
        /\ job[l].least \in Nat /\ job[l].most \in Nat /\ job[l].most <= Whole
    BY <2>4, JobNumbers
  <2>6. Serving(l) \in Nat
    BY <2>5, WholeMiB DEF Serving
  <2>7. share(selected[Gpu]) = Share(Serving(l), Total[i - 1], job[l].least)
    BY <2>3 DEF share
  <2>8. share(selected[Gpu]) \in Nat
    BY <2>4, <2>5, <2>6, <2>7, WholeShare
  <2>9. share(selected[Gpu]) \in 0 .. Whole
    BY <1>3, <2>5, <2>8, WholeIsNat
  <2>10. Decides(l, i - 1, share(selected[Gpu]))
    BY <1>3, <2>3, <2>7 DEF Decides
  <2> QED
    BY <2>3, <2>9, <2>10
<1> QED
  BY <1>1, <1>2, <1>3

LEMMA TypeStep == TypeOK /\ [Next]_vars => TypeOK'
<1> SUFFICES ASSUME TypeOK, [Next]_vars PROVE TypeOK'
  OBVIOUS
<1>1. ASSUME NEW l \in Launch, Scan(l) PROVE TypeOK'
  <2>1. UNCHANGED <<host, job, path, file, told, port>>
    BY <1>1 DEF Scan
  <2>2. chosen' \in [Launch -> Choice] /\ pc' \in [Launch -> Label]
    <3>1. ASSUME NEW g \in GpuId, NEW share \in 0 .. Whole, Decides(l, g, share)
          PROVE  chosen' \in [Launch -> Choice] /\ pc' \in [Launch -> Label]
      BY <3>1 DEF Decides, TypeOK, Choice, Label
    <3>2. CASE UNCHANGED chosen /\ pc' = [pc EXCEPT ![l] = "no_gpu"]
      BY <3>2 DEF TypeOK, Label
    <3> QED
      BY <1>1, <3>1, <3>2, ScanDecides
  <2> QED
    BY <2>1, <2>2 DEF TypeOK, host
<1>2. ASSUME NEW l \in Launch, Estimate(l) \/ Recheck(l) \/ Fail(l) PROVE TypeOK'
  BY <1>2 DEF Estimate, Recheck, Fail, Goto, TypeOK, Label, host
<1>3. ASSUME NEW l \in Launch, Publish(l) PROVE TypeOK'
  <2>1. chosen[l] \in Choice
    BY DEF TypeOK
  <2> QED
    BY <1>3, <2>1 DEF Publish, Goto, TypeOK, Label, host
<1>4. ASSUME NEW l \in Launch, Source(l) PROVE TypeOK'
  <2>1. file[path[l]] \in Choice
    BY DEF TypeOK
  <2> QED
    BY <1>4, <2>1 DEF Source, Goto, TypeOK, Label, host
<1>5. ASSUME NEW l \in Launch, SelectPort(l) PROVE TypeOK'
  BY <1>5 DEF SelectPort, Goto, TypeOK, Label, host
<1>6. ASSUME NEW g \in GpuId, OthersUseMemory(g) PROVE TypeOK'
  <2>1. PICK n \in Level[g] : free' = [free EXCEPT ![g] = n]
    BY <1>6 DEF OthersUseMemory
  <2>2. n \in Nat
    BY AdmissionAssumption
  <2> QED
    BY <1>6, <2>1, <2>2 DEF OthersUseMemory, TypeOK
<1>7. ASSUME NEW p \in Ports, OthersBind(p) PROVE TypeOK'
  BY <1>7 DEF OthersBind, TypeOK
<1>8. CASE UNCHANGED vars
  BY <1>8 DEF TypeOK, vars, host
<1> QED
  BY <1>1, <1>2, <1>3, <1>4, <1>5, <1>6, <1>7, <1>8 DEF Next, Preflight

-----------------------------------------------------------------------------
(* Every step keeps the invariant.                                          *)

\* A step that decides nothing and writes no file keeps it all, and so does one
\* that only takes over what a file says.
LEMMA InvFrame ==
  ASSUME Inv, TypeOK', UNCHANGED <<job, path, chosen, file>>,
         \A l \in Launch : pc'[l] \in {"estimate", "scan"} => pc[l] \in {"estimate", "scan"},
         \A l \in Launch : told'[l] = told[l] \/ told'[l] = file[path[l]]
  PROVE  Inv'
<1>1. Undecided'
  BY DEF Inv, Undecided
<1>2. Decided'
  BY DEF Inv, Decided, Serving
<1>3. FilesAreDecisions'
  BY DEF Inv, FilesAreDecisions
<1>4. ToldAreDecisions'
  <2> SUFFICES ASSUME NEW l \in Launch, told'[l] # Nothing
               PROVE  \E k \in Launch : path[k] = path[l] /\ told'[l] = chosen[k] /\ chosen[k] # Nothing
    BY DEF ToldAreDecisions
  <2>1. CASE told'[l] = told[l]
    BY <2>1 DEF Inv, ToldAreDecisions
  <2>2. CASE told'[l] = file[path[l]]
    <3>1. path[l] \in Launch \cup {Shared}
      BY DEF Inv, TypeOK
    <3> QED
      BY <2>2, <3>1 DEF Inv, FilesAreDecisions
  <2> QED
    BY <2>1, <2>2
<1> QED
  BY <1>1, <1>2, <1>3, <1>4 DEF Inv

LEMMA InvDecides ==
  ASSUME Inv, TypeOK', NEW l \in Launch, pc[l] = "scan", NEW g \in GpuId,
         NEW share \in 0 .. Whole, Decides(l, g, share),
         UNCHANGED <<job, path, file, told>>
  PROVE  Inv'
<1>1. /\ chosen' = [chosen EXCEPT ![l] = [gpu |-> g, share |-> share]]
      /\ share = Share(Serving(l), Total[g], job[l].least) /\ share <= job[l].most
      /\ pc' = [pc EXCEPT ![l] = "publish"]
  BY DEF Decides
<1>2. chosen \in [Launch -> Choice] /\ pc \in [Launch -> Label] /\ chosen[l] = Nothing
  BY DEF Inv, TypeOK, Undecided
<1>3. \A k \in Launch \ {l} : chosen'[k] = chosen[k] /\ pc'[k] = pc[k]
  BY <1>1, <1>2
<1>4. chosen'[l] = [gpu |-> g, share |-> share] /\ pc'[l] = "publish"
  BY <1>1, <1>2
<1>5. Undecided'
  BY <1>3, <1>4 DEF Inv, Undecided
<1>6. Decided'
  <2>1. \A k \in Launch : Serving(k)' = Serving(k)
    BY DEF Serving
  <2> QED
    BY <1>1, <1>3, <1>4, <2>1 DEF Inv, Decided
<1>7. FilesAreDecisions'
  <2>1. \A k \in Launch : chosen[k] # Nothing => chosen'[k] = chosen[k]
    BY <1>2, <1>3
  <2> QED
    BY <2>1 DEF Inv, FilesAreDecisions
<1>8. ToldAreDecisions'
  <2>1. \A k \in Launch : chosen[k] # Nothing => chosen'[k] = chosen[k]
    BY <1>2, <1>3
  <2> QED
    BY <2>1 DEF Inv, ToldAreDecisions
<1> QED
  BY <1>5, <1>6, <1>7, <1>8 DEF Inv

LEMMA InvPublish ==
  ASSUME Inv, TypeOK', NEW l \in Launch, Publish(l)
  PROVE  Inv'
<1>1. /\ file' = [file EXCEPT ![path[l]] = chosen[l]]
      /\ pc' = [pc EXCEPT ![l] = "source"]
      /\ UNCHANGED <<job, path, chosen, told>>
  BY DEF Publish, Goto
<1>2. pc \in [Launch -> Label] /\ file \in [Launch \cup {Shared} -> Choice]
  BY DEF Inv, TypeOK
<1>3. Undecided'
  BY <1>1, <1>2 DEF Inv, Undecided
<1>4. Decided'
  BY <1>1 DEF Inv, Decided, Serving
<1>5. FilesAreDecisions'
  <2> SUFFICES ASSUME NEW p \in Launch \cup {Shared}, file'[p] # Nothing
               PROVE  \E k \in Launch : path[k] = p /\ file'[p] = chosen[k] /\ chosen[k] # Nothing
    BY <1>1 DEF FilesAreDecisions
  <2>1. CASE p = path[l]
    BY <1>1, <1>2, <2>1
  <2>2. CASE p # path[l]
    BY <1>1, <1>2, <2>2 DEF Inv, FilesAreDecisions
  <2> QED
    BY <2>1, <2>2
<1>6. ToldAreDecisions'
  BY <1>1 DEF Inv, ToldAreDecisions
<1> QED
  BY <1>3, <1>4, <1>5, <1>6 DEF Inv

LEMMA InvStep == Inv /\ [Next]_vars => Inv'
<1> SUFFICES ASSUME Inv, [Next]_vars PROVE Inv'
  OBVIOUS
<1>1. TypeOK /\ TypeOK'
  BY TypeStep DEF Inv
<1>2. pc \in [Launch -> Label]
  BY <1>1 DEF TypeOK
<1>3. ASSUME NEW l \in Launch, Scan(l) PROVE Inv'
  <2>1. pc[l] = "scan" /\ UNCHANGED <<job, path, file, told>>
    BY <1>3 DEF Scan
  <2>2. CASE UNCHANGED chosen /\ pc' = [pc EXCEPT ![l] = "no_gpu"]
    BY <1>1, <1>2, <2>1, <2>2, InvFrame
  <2>3. ASSUME NEW g \in GpuId, NEW share \in 0 .. Whole, Decides(l, g, share) PROVE Inv'
    BY <1>1, <2>1, <2>3, InvDecides
  <2> QED
    BY <1>1, <1>3, <2>2, <2>3, ScanDecides
<1>4. ASSUME NEW l \in Launch, Estimate(l) PROVE Inv'
  BY <1>1, <1>2, <1>4, InvFrame DEF Estimate, Goto
<1>5. ASSUME NEW l \in Launch, Publish(l) PROVE Inv'
  BY <1>1, <1>5, InvPublish
<1>6. ASSUME NEW l \in Launch, Source(l) PROVE Inv'
  <2>1. told \in [Launch -> Choice]
    BY <1>1 DEF TypeOK
  <2> QED
    BY <1>1, <1>2, <1>6, <2>1, InvFrame DEF Source, Goto
<1>7. ASSUME NEW l \in Launch, SelectPort(l) PROVE Inv'
  BY <1>1, <1>2, <1>7, InvFrame DEF SelectPort, Goto
<1>8. ASSUME NEW l \in Launch, Recheck(l) \/ Fail(l) PROVE Inv'
  BY <1>1, <1>2, <1>8, InvFrame DEF Recheck, Fail, Goto
<1>9. ASSUME NEW g \in GpuId, OthersUseMemory(g) PROVE Inv'
  BY <1>1, <1>9, InvFrame DEF OthersUseMemory
<1>10. ASSUME NEW p \in Ports, OthersBind(p) PROVE Inv'
  BY <1>1, <1>10, InvFrame DEF OthersBind
<1>11. CASE UNCHANGED vars
  BY <1>1, <1>11, InvFrame DEF vars
<1> QED
  BY <1>3, <1>4, <1>5, <1>6, <1>7, <1>8, <1>9, <1>10, <1>11 DEF Next, Preflight

THEOREM Invariance == Spec => []Inv
<1> QED
  BY InitInv, InvStep, PTL DEF Spec

-----------------------------------------------------------------------------
(* The theorems                                                             *)

\* The variables have their types.
THEOREM TypeCorrect == Spec => []TypeOK
<1>1. Inv => TypeOK
  BY DEF Inv
<1> QED
  BY Invariance, <1>1, PTL

\* The share that a launch decides on covers what serving needs with all its
\* margins, and neither rounding asks for more than the next whole unit.
THEOREM ReservationIsEnough == Spec => []ReservationCoversServing
<1>1. Inv => ReservationCoversServing
  <2> SUFFICES ASSUME Inv, NEW l \in Launch, chosen[l] # Nothing
               PROVE  LET share == chosen[l].share
                          total == Total[chosen[l].gpu]
                          serving == Serving(l)
                          exact == ServingBytes(job[l]) * (100 + job[l].reserve)
                      IN  /\ 100 * MiB * serving >= exact /\ 100 * MiB * (serving - 1) < exact
                          /\ share * total >= Whole * serving /\ share <= job[l].most
                          /\ share = job[l].least \/ (share - 1) * total < Whole * serving
    BY DEF ReservationCoversServing
  <2>1. /\ chosen[l].gpu \in GpuId /\ chosen[l].share <= job[l].most
        /\ chosen[l].share = Share(Serving(l), Total[chosen[l].gpu], job[l].least)
    BY DEF Inv, Decided
  <2>2. job[l] \in Job /\ Total[chosen[l].gpu] \in Nat \ {0}
    BY <2>1, AdmissionAssumption DEF Inv, TypeOK
  <2>3. ServingBytes(job[l]) \in Nat /\ job[l].reserve \in Nat /\ job[l].least \in Nat
    BY <2>2, JobNumbers
  <2>4. /\ Serving(l) \in Nat
        /\ 100 * MiB * Serving(l) >= ServingBytes(job[l]) * (100 + job[l].reserve)
        /\ 100 * MiB * (Serving(l) - 1) < ServingBytes(job[l]) * (100 + job[l].reserve)
    BY <2>3, RequiredIsLeast DEF Serving
  <2>5. /\ chosen[l].share * Total[chosen[l].gpu] >= Whole * Serving(l)
        /\ \/ chosen[l].share = job[l].least
           \/ (chosen[l].share - 1) * Total[chosen[l].gpu] < Whole * Serving(l)
    <3>1. Serving(l) \in Nat
      BY <2>4
    <3> QED
      BY <2>1, <2>2, <2>3, <3>1, ShareIsLeast
  <2> QED
    BY <2>1, <2>4, <2>5
<1> QED
  BY Invariance, <1>1, PTL

\* GPU and share reach the controller as one decision, its own launch's unless
\* another one writes the same file.
THEOREM DecisionsArriveWhole == Spec => []AdmissionIsWhole
<1>1. Inv => AdmissionIsWhole
  BY DEF Inv, ToldAreDecisions, AdmissionIsWhole
<1> QED
  BY Invariance, <1>1, PTL

-----------------------------------------------------------------------------
(* The choice of a GPU                                                      *)

LEMMA RecordsOfGpus ==
  ASSUME TypeOK
  PROVE  \A i \in 1 .. Gpu : /\ Records[i] # None /\ Records[i].gpu = i - 1 /\ i - 1 \in GpuId
                             /\ Records[i].free = free[i - 1] /\ free[i - 1] \in Nat
                             /\ Records[i].total = Total[i - 1]
<1> TAKE i \in 1 .. Gpu
<1>1. i - 1 \in GpuId /\ i - 1 \in Nat /\ i - 1 # -1
  BY AdmissionAssumption DEF GpuId
<1>2. Records[i] = [gpu |-> i - 1, free |-> free[i - 1], total |-> Total[i - 1]]
  BY DEF Records
<1>3. free[i - 1] \in Nat
  BY <1>1 DEF TypeOK
<1> QED
  BY <1>1, <1>2, <1>3 DEF None

\* After i rounds: none of the GPUs so far fits, or the first with most memory free is
\* selected, ...
Best(i, selected, need) ==
  \/ selected = None /\ \A j \in 1 .. i : free[j - 1] < need
  \/ \E j \in 1 .. i :
       /\ selected = Records[j] /\ need <= free[j - 1]
       /\ \A k \in 1 .. i : free[k - 1] <= free[j - 1] /\ (free[k - 1] = free[j - 1] => j <= k)

LEMMA BestGoesOn ==
  ASSUME TypeOK, NEW need \in Nat, NEW i \in 1 .. Gpu, NEW selected, Best(i - 1, selected, need)
  PROVE  Best(i, Consider(<<>>, need, selected, Records[i]), need)
<1> DEFINE r == Records[i]
           next == Consider(<<>>, need, selected, r)
<1>1. /\ r.free = free[i - 1] /\ i \in Nat
      /\ \A j \in 1 .. i : j \in 1 .. Gpu /\ free[j - 1] \in Nat
      /\ \A j \in 1 .. i : j \in 1 .. i - 1 \/ j = i
      /\ \A j \in 1 .. i - 1 : j \in 1 .. i /\ j < i /\ Records[j].free = free[j - 1] /\ Records[j] # None
  <2>1. i \in Nat /\ \A j \in 1 .. i : j \in 1 .. Gpu /\ (j \in 1 .. i - 1 \/ j = i)
    BY AdmissionAssumption
  <2>2. \A j \in 1 .. i - 1 : j \in 1 .. i /\ j < i
    BY <2>1
  <2> QED
    BY <2>1, <2>2, RecordsOfGpus
<1>2. i \in 1 .. i /\ free[i - 1] \in Nat /\ i <= i
  BY <1>1
<1>3. next = IF /\ ~Less(Digits(r.free), Digits(need))
                /\ selected = None \/ Less(Digits(selected.free), Digits(r.free))
             THEN r ELSE selected
  BY DEF Consider
<1>4. Less(Digits(r.free), Digits(need)) <=> free[i - 1] < need
  BY <1>1, <1>2, StringsCompareNumbers
<1> HIDE DEF r, next
<1>5. CASE selected = None /\ \A j \in 1 .. i - 1 : free[j - 1] < need
  <2>1. CASE free[i - 1] < need
    <3>1. next = None
      BY <1>3, <1>4, <1>5, <2>1
    <3>2. \A j \in 1 .. i : free[j - 1] < need
      BY <1>1, <1>5, <2>1
    <3> QED
      BY <3>1, <3>2 DEF Best, next, r
  <2>2. CASE need <= free[i - 1]
    <3>1. next = r
      BY <1>2, <1>3, <1>4, <1>5, <2>2
    <3>2. \A k \in 1 .. i : free[k - 1] <= free[i - 1] /\ (free[k - 1] = free[i - 1] => i <= k)
      BY <1>1, <1>2, <1>5, <2>2
    <3> QED
      BY <3>1, <3>2, <2>2, <1>2 DEF Best, next, r
  <2> QED
    BY <1>2, <2>1, <2>2
<1>6. ASSUME NEW j \in 1 .. i - 1, selected = Records[j], need <= free[j - 1],
             \A k \in 1 .. i - 1 :
               free[k - 1] <= free[j - 1] /\ (free[k - 1] = free[j - 1] => j <= k)
      PROVE  Best(i, next, need)
  <2>1. /\ j \in 1 .. i /\ j < i /\ selected.free = free[j - 1] /\ selected # None
        /\ free[j - 1] \in Nat
    BY <1>1, <1>6
  <2>2. Less(Digits(selected.free), Digits(r.free)) <=> free[j - 1] < free[i - 1]
    BY <1>1, <1>2, <2>1, StringsCompareNumbers
  <2>3. CASE free[j - 1] < free[i - 1]
    <3>1. ~(free[i - 1] < need)
      BY <1>2, <1>6, <2>1, <2>3
    <3>2. next = r
      BY <1>3, <1>4, <2>2, <2>3, <3>1
    <3>3. \A k \in 1 .. i : free[k - 1] <= free[i - 1] /\ (free[k - 1] = free[i - 1] => i <= k)
      <4> TAKE k \in 1 .. i
      <4>1. free[k - 1] \in Nat
        BY <1>1
      <4>2. CASE k = i
        BY <4>2, <1>2
      <4>3. CASE k \in 1 .. i - 1
        <5>1. free[k - 1] <= free[j - 1]
          BY <4>3, <1>6
        <5> QED
          BY <5>1, <4>1, <1>2, <2>1, <2>3
      <4> QED
        BY <1>1, <4>2, <4>3
    <3>4. need <= free[i - 1]
      BY <1>2, <3>1
    <3> QED
      BY <3>2, <3>3, <3>4, <1>2 DEF Best, r
  <2>4. CASE free[i - 1] <= free[j - 1]
    <3>1. next = Records[j]
      BY <1>2, <1>3, <1>6, <2>1, <2>2, <2>4
    <3>2. \A k \in 1 .. i : free[k - 1] <= free[j - 1] /\ (free[k - 1] = free[j - 1] => j <= k)
      <4> TAKE k \in 1 .. i
      <4>1. CASE k = i
        BY <4>1, <2>1, <2>4
      <4>2. CASE k \in 1 .. i - 1
        BY <4>2, <1>6
      <4> QED
        BY <1>1, <4>1, <4>2
    <3> QED
      BY <3>1, <3>2, <1>6, <2>1 DEF Best
  <2> QED
    BY <1>2, <2>1, <2>3, <2>4
<1> QED
  BY <1>5, <1>6, Zenon DEF Best, next, r

\* ... and if a device is given, that one as soon as it has been seen.
Named(i, selected, device) ==
  \/ selected = None /\ \A j \in 1 .. i : Number(device) # j - 1
  \/ \E j \in 1 .. i : selected = Records[j] /\ Number(device) = j - 1

LEMMA NamedGoesOn ==
  ASSUME TypeOK, NEW device \in Seq(0 .. 9), device # <<>>, NEW need, NEW i \in 1 .. Gpu,
         NEW selected, Named(i - 1, selected, device)
  PROVE  Named(i, Consider(device, need, selected, Records[i]), device)
<1> DEFINE next == Consider(device, need, selected, Records[i])
<1>1. Records[i].gpu = i - 1 /\ i - 1 \in Nat
  BY RecordsOfGpus
<1>2. next = IF Digits(i - 1) = Normalize(device) THEN Records[i] ELSE selected
  BY <1>1 DEF Consider
<1>3. Digits(i - 1) = Normalize(device) <=> i - 1 = Number(device)
  BY <1>1, StringsNameNumbers
<1>4. (\A j \in 1 .. i : j \in 1 .. i - 1 \/ j = i) /\ (\A j \in 1 .. i - 1 : j \in 1 .. i) /\ i \in 1 .. i
  OBVIOUS
<1> HIDE DEF next
<1>5. CASE i - 1 = Number(device)
  <2>1. next = Records[i]
    BY <1>2, <1>3, <1>5
  <2> QED
    BY <2>1, <1>4, <1>5 DEF Named, next
<1>6. CASE i - 1 # Number(device)
  <2>1. next = selected
    BY <1>2, <1>3, <1>6
  <2> QED
    BY <2>1, <1>4, <1>6 DEF Named, next
<1> QED
  BY <1>5, <1>6

LEMMA LoopEnds ==
  ASSUME TypeOK, NEW l \in Launch, NEW need \in Nat,
         NEW selected \in Loop(Device[l], need, Records)
  PROVE  IF Device[l] = <<>> THEN Best(Gpu, selected[Gpu], need)
                             ELSE Named(Gpu, selected[Gpu], Device[l])
<1>1. /\ Gpu \in Nat /\ Gpu \in 0 .. Gpu /\ Device[l] \in Seq(0 .. 9)
  BY AdmissionAssumption
<1>2. /\ selected[0] = None
      /\ \A i \in 1 .. Gpu : selected[i] = Consider(Device[l], need, selected[i - 1], Records[i])
  BY DEF Loop
<1>3. CASE Device[l] = <<>>
  <2> DEFINE S == {i \in 0 .. Gpu : Best(i, selected[i], need)}
  <2>1. 0 \in S
    BY <1>1, <1>2 DEF Best
  <2>2. \A i \in 1 .. Gpu : i - 1 \in S => i \in S
    BY <1>2, <1>3, BestGoesOn
  <2>3. \A i \in S : Best(i, selected[i], need)
    OBVIOUS
  <2> HIDE DEF S
  <2> QED
    BY <1>1, <1>3, <2>1, <2>2, <2>3, InductionUpTo
<1>4. CASE Device[l] # <<>>
  <2> DEFINE S == {i \in 0 .. Gpu : Named(i, selected[i], Device[l])}
  <2>1. 0 \in S
    BY <1>1, <1>2 DEF Named
  <2>2. \A i \in 1 .. Gpu : i - 1 \in S => i \in S
    <3> SUFFICES ASSUME NEW i \in 1 .. Gpu, i - 1 \in S PROVE i \in S
      OBVIOUS
    <3>1. Named(i - 1, selected[i - 1], Device[l])
      OBVIOUS
    <3> DEFINE next == Consider(Device[l], need, selected[i - 1], Records[i])
    <3>2. Named(i, next, Device[l])
      BY <1>1, <1>4, <3>1, NamedGoesOn
    <3>3. selected[i] = next
      BY <1>2
    <3> HIDE DEF next
    <3> QED
      BY <1>1, <3>2, <3>3
  <2>3. \A i \in S : Named(i, selected[i], Device[l])
    OBVIOUS
  <2> HIDE DEF S
  <2> QED
    BY <1>1, <1>4, <2>1, <2>2, <2>3, InductionUpTo
<1> QED
  BY <1>3, <1>4

\* The GPU that is wanted is the only one, and selected if it fits.
LEMMA WantedIsSelected ==
  ASSUME TypeOK, NEW l \in Launch, Need(l) \in Nat,
         NEW selected \in Loop(Device[l], Need(l), Records)
  PROVE  \/ selected[Gpu] = None /\ \A g \in Wanted(l) : ~Fits(l, g)
         \/ \E g \in GpuId : /\ selected[Gpu] = Records[g + 1] /\ selected[Gpu] # None
                             /\ Wanted(l) = {g}
<1>1. Gpu \in Nat /\ \A g \in GpuId : g + 1 \in 1 .. Gpu /\ (g + 1) - 1 = g /\ g \in Int
  BY AdmissionAssumption DEF GpuId
<1>2. \A j \in 1 .. Gpu : j - 1 \in GpuId /\ (j - 1) + 1 = j
  BY <1>1 DEF GpuId
<1>3. \A g \in GpuId : free[g] \in Nat
  BY DEF TypeOK
<1>4. \A g \in Wanted(l) : g \in GpuId
  BY DEF Wanted
<1>5. CASE Device[l] = <<>>
  <2>1. Best(Gpu, selected[Gpu], Need(l))
    BY <1>5, LoopEnds
  <2>2. CASE selected[Gpu] = None /\ \A j \in 1 .. Gpu : free[j - 1] < Need(l)
    <3>1. \A g \in GpuId : free[g] < Need(l)
      BY <2>2, <1>1
    <3>2. \A g \in GpuId : ~(Need(l) <= free[g])
      BY <3>1, <1>3
    <3> QED
      BY <2>2, <3>2, <1>4 DEF Fits
  <2>3. ASSUME NEW j \in 1 .. Gpu, selected[Gpu] = Records[j],
               \A k \in 1 .. Gpu :
                 free[k - 1] <= free[j - 1] /\ (free[k - 1] = free[j - 1] => j <= k)
        PROVE  \E g \in GpuId : /\ selected[Gpu] = Records[g + 1] /\ selected[Gpu] # None
                                /\ Wanted(l) = {g}
    <3> DEFINE g == j - 1
    <3>1. g \in GpuId /\ g + 1 = j /\ selected[Gpu] # None
      BY <1>2, <2>3, RecordsOfGpus
    <3>2. Freest(g)
      <4> SUFFICES ASSUME NEW h \in GpuId
                   PROVE  free[h] <= free[g] /\ (free[h] = free[g] => g <= h)
        BY DEF Freest
      <4>1. h + 1 \in 1 .. Gpu /\ (h + 1) - 1 = h /\ h \in Int
        BY <1>1
      <4>2. free[h] <= free[g] /\ (free[h] = free[g] => j <= h + 1)
        BY <4>1, <2>3
      <4> QED
        BY <4>1, <4>2
    <3> HIDE DEF g
    <3>3. \A h \in GpuId : Freest(h) => h = g
      <4> SUFFICES ASSUME NEW h \in GpuId, Freest(h) PROVE h = g
        OBVIOUS
      <4>1. free[h] <= free[g] /\ free[g] <= free[h]
        BY <3>1, <3>2 DEF Freest
      <4>2. free[h] = free[g]
        BY <4>1, <3>1, <1>3
      <4>3. g <= h /\ h <= g
        BY <4>2, <3>1, <3>2 DEF Freest
      <4> QED
        BY <4>3, <3>1, <1>1
    <3>4. Wanted(l) = {g}
      BY <3>1, <3>2, <3>3, <1>5 DEF Wanted
    <3> QED
      BY <3>1, <3>4, <2>3
  <2> QED
    BY <2>1, <2>2, <2>3, Zenon DEF Best
<1>6. CASE Device[l] # <<>>
  <2>1. Named(Gpu, selected[Gpu], Device[l])
    BY <1>6, LoopEnds
  <2>2. CASE selected[Gpu] = None /\ \A j \in 1 .. Gpu : Number(Device[l]) # j - 1
    <3>1. \A g \in GpuId : g # Number(Device[l])
      BY <2>2, <1>1
    <3> QED
      BY <2>2, <3>1, <1>6 DEF Wanted
  <2>3. CASE \E j \in 1 .. Gpu : selected[Gpu] = Records[j] /\ Number(Device[l]) = j - 1
    <3>1. PICK j \in 1 .. Gpu : selected[Gpu] = Records[j] /\ Number(Device[l]) = j - 1
      BY <2>3
    <3>2. j - 1 \in GpuId /\ (j - 1) + 1 = j /\ selected[Gpu] # None
      BY <1>2, <3>1, RecordsOfGpus
    <3>3. Wanted(l) = {j - 1}
      BY <3>1, <3>2, <1>6 DEF Wanted
    <3> QED
      BY <3>1, <3>2, <3>3
  <2> QED
    BY <2>1, <2>2, <2>3 DEF Named
<1> QED
  BY <1>5, <1>6

\* A share that exceeds the maximum would do so without roundings.
LEMMA ShareExceeds ==
  ASSUME NEW serving \in Nat, NEW total \in Nat \ {0}, NEW least \in Nat, NEW most \in Nat,
         least <= most, most < Share(serving, total, least)
  PROVE  ~(serving * Whole <= most * total)
<1> DEFINE n == serving * Whole
           c == CeilDiv(n, total)
<1>1. n \in Nat
  BY DEF Whole
<1>2. c \in Nat /\ (c - 1) * total < n
  <2> HIDE DEF n
  <2> QED
    BY <1>1, CeilDivIsLeast
<1>3. most < Larger(c, least)
  BY DEF Share
<1> HIDE DEF n, c
<1>4. most <= c - 1
  BY <1>2, <1>3 DEF Larger
<1>5. (c - 1) * total = most * total + ((c - 1) - most) * total
  BY <1>2
<1>6. ((c - 1) - most) * total \in Nat
  <2>1. (c - 1) - most \in Nat
    BY <1>2, <1>4
  <2> QED
    BY <2>1
<1>7. most * total \in Nat /\ (c - 1) * total \in Int
  BY <1>2
<1>8. most * total < n
  BY <1>1, <1>2, <1>5, <1>6, <1>7
<1> QED
  BY <1>1, <1>7, <1>8 DEF n

LEMMA NeedIsNat ==
  ASSUME TypeOK, NEW l \in Launch
  PROVE  /\ Need(l) \in Nat /\ Serving(l) \in Nat
         /\ job[l].least \in Nat /\ job[l].most \in Nat /\ job[l].least <= job[l].most
<1> DEFINE j == job[l]
<1>1. j \in Job
  BY DEF TypeOK
<1> HIDE DEF j
<1>2. /\ j.parameters \in Nat /\ j.element \in Nat /\ j.batch \in Nat /\ j.cutoff \in Nat
      /\ j.activation \in Nat /\ j.margin \in Nat /\ j.least <= j.most
  BY <1>1, AdmissionAssumption DEF JobField
<1>3. \A m, n \in Nat : m * n \in Nat /\ m + n \in Nat
  OBVIOUS
<1>4. TrainingBytes(j) \in Nat
  <2> DEFINE activation == j.batch * j.cutoff * j.activation
             element == IF j.lora THEN j.element + 2 ELSE j.element * 2 + 12
             half == IF j.checkpointing THEN CeilDiv(activation, 2) ELSE activation
  <2>1. activation \in Nat
    BY <1>2, <1>3
  <2>2. element \in Nat
    BY <1>2
  <2>3. TrainingBytes(j) = j.parameters * element + half
    BY DEF TrainingBytes
  <2> HIDE DEF activation, element
  <2>4. half \in Nat
    BY <2>1, CeilDivIsLeast
  <2> HIDE DEF half
  <2> QED
    BY <1>2, <1>3, <2>2, <2>3, <2>4
<1>5. ServingBytes(j) \in Nat /\ j.reserve \in Nat /\ j.least \in Nat /\ j.most \in Nat
  BY <1>1, JobNumbers
<1>6. Training(l) \in Nat /\ Serving(l) \in Nat
  BY <1>2, <1>4, <1>5, WholeMiB DEF Training, Serving, j
<1>7. Need(l) \in Nat
  BY <1>6 DEF Need, Larger
<1> QED
  BY <1>2, <1>5, <1>6, <1>7 DEF j

\* What a scan decides, and what it refuses.
Selects(l) ==
  \/ \E g \in Wanted(l), share \in Nat :
       /\ Fits(l, g) /\ chosen' = [chosen EXCEPT ![l] = [gpu |-> g, share |-> share]]
       /\ pc' = [pc EXCEPT ![l] = "publish"]
  \/ /\ \A g \in Wanted(l) : ~(Fits(l, g) /\ WithinMost(l, g))
     /\ UNCHANGED chosen /\ pc' = [pc EXCEPT ![l] = "no_gpu"]

LEMMA ScanSelects ==
  ASSUME TypeOK, NEW l \in Launch, Scan(l)
  PROVE  Selects(l)
<1> DEFINE share(s) == Share(Serving(l), s.total, job[l].least)
<1> HIDE DEF share
<1>1. PICK selected \in Loop(Device[l], Need(l), Records) :
        LET s == selected[Gpu]
        IN  \/ /\ s # None /\ ~Less(Digits(s.free), Digits(Need(l))) /\ share(s) <= job[l].most
               /\ chosen' = [chosen EXCEPT ![l] = [gpu |-> s.gpu, share |-> share(s)]]
               /\ pc' = [pc EXCEPT ![l] = "publish"]
            \/ /\ s = None \/ Less(Digits(s.free), Digits(Need(l))) \/ job[l].most < share(s)
               /\ pc' = [pc EXCEPT ![l] = "no_gpu"]
               /\ UNCHANGED chosen
  BY DEF Scan, Goto, share
<1> DEFINE s == selected[Gpu]
<1>2. /\ Need(l) \in Nat /\ Serving(l) \in Nat
      /\ job[l].least \in Nat /\ job[l].most \in Nat /\ job[l].least <= job[l].most
  BY NeedIsNat
<1>3. \/ s = None /\ \A g \in Wanted(l) : ~Fits(l, g)
      \/ \E g \in GpuId : s = Records[g + 1] /\ s # None /\ Wanted(l) = {g}
  BY <1>2, WantedIsSelected
<1> HIDE DEF s
<1>4. CASE s = None /\ \A g \in Wanted(l) : ~Fits(l, g)
  BY <1>1, <1>4 DEF Selects, s
<1>5. ASSUME NEW g \in GpuId, s = Records[g + 1], s # None, Wanted(l) = {g}
      PROVE  Selects(l)
  <2>1. s.gpu = g /\ s.free = free[g] /\ s.total = Total[g] /\ free[g] \in Nat
    <3>1. g + 1 \in 1 .. Gpu /\ (g + 1) - 1 = g
      BY AdmissionAssumption DEF GpuId
    <3> QED
      BY <3>1, <1>5, RecordsOfGpus
  <2>2. Less(Digits(s.free), Digits(Need(l))) <=> ~Fits(l, g)
    <3>1. Less(Digits(s.free), Digits(Need(l))) <=> free[g] < Need(l)
      BY <1>2, <2>1, StringsCompareNumbers
    <3> QED
      BY <3>1, <1>2, <2>1 DEF Fits
  <2>3. Total[g] \in Nat \ {0}
    BY AdmissionAssumption
  <2>4. share(s) \in Nat
    BY <1>2, <2>1, <2>3, WholeShare DEF share
  <2>5. job[l].most < share(s) => ~WithinMost(l, g)
    BY <1>2, <2>1, <2>3, ShareExceeds DEF share, WithinMost
  <2>6. CASE /\ ~Less(Digits(s.free), Digits(Need(l)))
             /\ chosen' = [chosen EXCEPT ![l] = [gpu |-> s.gpu, share |-> share(s)]]
             /\ pc' = [pc EXCEPT ![l] = "publish"]
    BY <1>5, <2>1, <2>2, <2>4, <2>6 DEF Selects
  <2>7. CASE /\ Less(Digits(s.free), Digits(Need(l))) \/ job[l].most < share(s)
             /\ pc' = [pc EXCEPT ![l] = "no_gpu"]
             /\ UNCHANGED chosen
    BY <1>5, <2>2, <2>5, <2>7 DEF Selects
  <2> QED
    BY <1>1, <1>5, <2>6, <2>7 DEF s
<1> QED
  BY <1>3, <1>4, <1>5

\* The loop over the records of nvidia-smi, which compares strings, picks the GPU that
\* arithmetic over the whole table would, and refuses only if that one does not do.
THEOREM ScanPicksTheBest == Spec => SelectionIsBest
<1> DEFINE Chosen == \A l \in Launch :
             /\ chosen'[l] # chosen[l] => chosen'[l].gpu \in Wanted(l) /\ Fits(l, chosen'[l].gpu)
             /\ pc[l] # "no_gpu" /\ pc'[l] = "no_gpu" =>
                  ~\E g \in Wanted(l) : Fits(l, g) /\ WithinMost(l, g)
<1>1. TypeOK /\ [Next]_vars => [Chosen]_vars
  <2> SUFFICES ASSUME TypeOK, Next PROVE Chosen
    OBVIOUS
  <2>1. chosen \in [Launch -> Choice] /\ pc \in [Launch -> Label]
    BY DEF TypeOK
  <2>2. ASSUME NEW l \in Launch, Scan(l) PROVE Chosen
    <3>1. CASE \E g \in Wanted(l), share \in Nat :
                 /\ Fits(l, g) /\ chosen' = [chosen EXCEPT ![l] = [gpu |-> g, share |-> share]]
                 /\ pc' = [pc EXCEPT ![l] = "publish"]
      <4>1. PICK g \in Wanted(l), share \in Nat :
               /\ Fits(l, g) /\ chosen' = [chosen EXCEPT ![l] = [gpu |-> g, share |-> share]]
               /\ pc' = [pc EXCEPT ![l] = "publish"]
        BY <3>1
      <4>2. \A k \in Launch \ {l} : chosen'[k] = chosen[k] /\ pc'[k] = pc[k]
        BY <4>1, <2>1
      <4>3. chosen'[l].gpu = g /\ pc'[l] = "publish"
        BY <4>1, <2>1
      <4> QED
        BY <4>1, <4>2, <4>3
    <3>2. CASE /\ \A g \in Wanted(l) : ~(Fits(l, g) /\ WithinMost(l, g))
               /\ UNCHANGED chosen /\ pc' = [pc EXCEPT ![l] = "no_gpu"]
      <4>1. \A k \in Launch \ {l} : pc'[k] = pc[k]
        BY <3>2, <2>1
      <4> QED
        BY <3>2, <4>1
    <3> QED
      BY <2>2, <3>1, <3>2, ScanSelects DEF Selects
  <2>3. ASSUME UNCHANGED chosen, \A l \in Launch : pc'[l] = "no_gpu" => pc[l] = "no_gpu"
        PROVE  Chosen
    BY <2>3
  <2> HIDE DEF Chosen
  <2>4. ASSUME NEW l \in Launch, Estimate(l) PROVE Chosen
    BY <2>1, <2>3, <2>4 DEF Estimate, Goto
  <2>5. ASSUME NEW l \in Launch, Publish(l) PROVE Chosen
    BY <2>1, <2>3, <2>5 DEF Publish, Goto
  <2>6. ASSUME NEW l \in Launch, Source(l) PROVE Chosen
    BY <2>1, <2>3, <2>6 DEF Source, Goto
  <2>7. ASSUME NEW l \in Launch, SelectPort(l) PROVE Chosen
    BY <2>1, <2>3, <2>7 DEF SelectPort, Goto
  <2>8. ASSUME NEW l \in Launch, Recheck(l) \/ Fail(l) PROVE Chosen
    BY <2>1, <2>3, <2>8 DEF Recheck, Fail, Goto
  <2>9. ASSUME NEW g \in GpuId, OthersUseMemory(g) PROVE Chosen
    BY <2>3, <2>9 DEF OthersUseMemory
  <2>10. ASSUME NEW p \in Ports, OthersBind(p) PROVE Chosen
    BY <2>3, <2>10 DEF OthersBind
  <2> QED
    BY <2>2, <2>4, <2>5, <2>6, <2>7, <2>8, <2>9, <2>10 DEF Next, Preflight
<1>2. SelectionIsBest <=> [][Chosen]_vars
  BY DEF SelectionIsBest
<1> HIDE DEF Chosen
<1> QED
  BY <1>1, <1>2, TypeCorrect, PTL DEF Spec

=============================================================================
