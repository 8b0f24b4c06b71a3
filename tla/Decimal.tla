-------------------------------- MODULE Decimal --------------------------------
(***************************************************************************)
(* The decimal strings of gpu_preflight.sh, as sequences of digits.  The   *)
(* script compares what nvidia-smi and the environment give it digit by    *)
(* digit, since the shell's integers may overflow.                         *)
(***************************************************************************)
EXTENDS Integers, Sequences

\* Leading zeros are dropped, but not the last digit.
Normalize(d) ==
  LET kept == CHOOSE i \in 1 .. Len(d) :
                /\ \A j \in 1 .. i - 1 : d[j] = 0
                /\ i = Len(d) \/ d[i] # 0
  IN  SubSeq(d, kept, Len(d))

\* The first decimal is shorter, or smaller where the two first differ.
Less(a, b) ==
  \/ Len(a) < Len(b)
  \/ Len(a) = Len(b) /\ \E i \in 1 .. Len(a) :
                          a[i] < b[i] /\ \A j \in 1 .. i - 1 : a[j] = b[j]

\* How nvidia-smi and Python print a number: the last digit of what is left, as
\* often as it takes until nothing is.
Digits(n) ==
  LET left[k \in 0 .. n + 1] == IF k = 0 THEN n ELSE left[k - 1] \div 10
      width == CHOOSE w \in 1 .. n + 1 : left[w] = 0 /\ (w = 1 \/ left[w - 1] # 0)
  IN  [i \in 1 .. width |-> left[width - i] % 10]

Number(d) ==
  LET value[i \in 0 .. Len(d)] == IF i = 0 THEN 0 ELSE 10 * value[i - 1] + d[i]
  IN  value[Len(d)]

=============================================================================
