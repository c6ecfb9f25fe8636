------------------------------ MODULE SeqLemmas ------------------------------
(***************************************************************************)
(* Lemmas about numbers and sequences that the proofs of several           *)
(* components need.  Least stands in for induction: what holds of every    *)
(* number has no least number it fails for.                                *)
(***************************************************************************)
EXTENDS Integers, SequenceTheorems, FiniteSetTheorems, WellFoundedInduction,
        TLAPS

\* Every set of numbers has a least one.
LEMMA Least ==
  ASSUME NEW T \in SUBSET Nat, T # {}
  PROVE  \E n \in T : \A m \in T : n <= m
<1> DEFINE U == {0 .. n : n \in T}
<1>1. IsWellFoundedOn(StrictSubsetOrdering(Nat), FiniteSubsetsOf(Nat))
  BY FS_StrictSubsetOrderingWellFounded
<1>2. U \subseteq FiniteSubsetsOf(Nat)
  <2> SUFFICES ASSUME NEW n \in T PROVE 0 .. n \in FiniteSubsetsOf(Nat)
    OBVIOUS
  <2>1. IsFiniteSet(0 .. n)
    BY FS_Interval
  <2>2. 0 .. n \in SUBSET Nat
    OBVIOUS
  <2> QED BY <2>1, <2>2 DEF FiniteSubsetsOf
<1>3. U # {}
  OBVIOUS
<1>4. PICK x \in U : \A y \in U : ~(<<y, x>> \in StrictSubsetOrdering(Nat))
  <2> HIDE DEF U
  <2> QED BY <1>1, <1>2, <1>3, WFMin
<1>5. PICK n \in T : x = 0 .. n
  OBVIOUS
<1>6. ASSUME NEW m \in T, m < n PROVE FALSE
  <2>1. (0 .. m) \subseteq (0 .. n) /\ n \in 0 .. n /\ n \notin 0 .. m
    BY <1>6
  <2>2. <<0 .. m, 0 .. n>> \in StrictSubsetOrdering(Nat)
    BY <2>1 DEF StrictSubsetOrdering
  <2> QED BY <2>2, <1>4, <1>5
<1> QED BY <1>6

\* Parts of two sequences that hold the same are equal.
LEMMA SameParts ==
  ASSUME NEW s, NEW t, NEW b \in Nat, NEW c \in Nat,
         \A j \in 1 .. c : s[b + j] = t[j]
  PROVE  SubSeq(s, b + 1, b + c) = SubSeq(t, 1, c)
<1> DEFINE All == {t[j] : j \in 1 .. c}
<1>1. \A m \in b + 1 .. b + c : s[m] \in All
  <2> SUFFICES ASSUME NEW m \in b + 1 .. b + c PROVE s[m] \in All
    OBVIOUS
  <2>1. m - b \in 1 .. c /\ b + (m - b) = m
    OBVIOUS
  <2>2. s[m] = t[m - b]
    BY <2>1
  <2>3. QED
    BY <2>1, <2>2
<1>2. \A m \in 1 .. c : t[m] \in All
  OBVIOUS
<1> HIDE DEF All
<1>3. /\ SubSeq(s, b + 1, b + c) \in Seq(All)
      /\ Len(SubSeq(s, b + 1, b + c)) = IF b + 1 <= b + c THEN b + c - (b + 1) + 1 ELSE 0
      /\ \A j \in 1 .. b + c - (b + 1) + 1 : SubSeq(s, b + 1, b + c)[j] = s[b + 1 + j - 1]
  BY <1>1, SubSeqProperties
<1>4. /\ SubSeq(t, 1, c) \in Seq(All)
      /\ Len(SubSeq(t, 1, c)) = IF 1 <= c THEN c - 1 + 1 ELSE 0
      /\ \A j \in 1 .. c - 1 + 1 : SubSeq(t, 1, c)[j] = t[1 + j - 1]
  BY <1>2, SubSeqProperties
<1>5. /\ Len(SubSeq(s, b + 1, b + c)) = c /\ Len(SubSeq(t, 1, c)) = c
  <2>1. CASE 1 <= c
    BY <1>3, <1>4, <2>1
  <2>2. CASE ~(1 <= c)
    <3>1. c = 0
      BY <2>2
    <3>2. QED
      BY <1>3, <1>4, <3>1
  <2>3. QED
    BY <2>1, <2>2
<1>6. ASSUME NEW j \in 1 .. c
      PROVE  SubSeq(s, b + 1, b + c)[j] = SubSeq(t, 1, c)[j]
  <2>1. /\ b + c - (b + 1) + 1 = c /\ c - 1 + 1 = c
        /\ b + 1 + j - 1 = b + j /\ 1 + j - 1 = j
    OBVIOUS
  <2>2. QED
    BY <1>3, <1>4, <2>1
<1>7. QED
  BY <1>3, <1>4, <1>5, <1>6, SeqEqual

\* A part of a sequence.
LEMMA Part ==
  ASSUME NEW S, NEW s \in Seq(S), NEW m \in Nat \ {0}, NEW n \in Int, n <= Len(s)
  PROVE  /\ SubSeq(s, m, n) \in Seq(S)
         /\ Len(SubSeq(s, m, n)) = IF m <= n THEN n - m + 1 ELSE 0
         /\ \A j \in 1 .. n - m + 1 : SubSeq(s, m, n)[j] = s[m + j - 1]
<1>1. \A j \in m .. n : s[j] \in S
  <2>1. Len(s) \in Nat
    BY LenProperties
  <2>2. SUFFICES ASSUME NEW j \in m .. n PROVE s[j] \in S
    OBVIOUS
  <2>3. j \in 1 .. Len(s)
    BY <2>1
  <2>4. QED
    BY <2>3, ElementOfSeq
<1>2. QED
  BY <1>1, SubSeqProperties

\* Concatenation, in the form the prover finds.
Associate(s, t, u) == (s \o t) \o u = s \o (t \o u)

LEMMA ConcatAssociates ==
  ASSUME NEW S, NEW s \in Seq(S), NEW t \in Seq(S), NEW u \in Seq(S)
  PROVE  Associate(s, t, u)
BY ConcatAssociative DEF Associate

\* The two parts of a concatenation.
LEMMA ConcatParts ==
  ASSUME NEW S, NEW s \in Seq(S), NEW t \in Seq(S)
  PROVE  /\ s \o t \in Seq(S) /\ Len(s \o t) = Len(s) + Len(t)
         /\ SubSeq(s \o t, 1, Len(s)) = s
         /\ \A j \in 1 .. Len(t) : (s \o t)[Len(s) + j] = t[j]
<1>1. Len(s) \in Nat /\ Len(t) \in Nat
  BY LenProperties
<1> DEFINE u == s \o t
<1>2. /\ u \in Seq(S) /\ Len(u) = Len(s) + Len(t)
      /\ \A j \in 1 .. Len(s) + Len(t) : u[j] = IF j <= Len(s) THEN s[j] ELSE t[j - Len(s)]
  BY ConcatProperties
<1> HIDE DEF u
<1>3. \A j \in 1 .. Len(s) : u[0 + j] = s[j]
  BY <1>1, <1>2
<1>4. SubSeq(u, 0 + 1, 0 + Len(s)) = SubSeq(s, 1, Len(s))
  BY <1>1, <1>3, SameParts
<1>5. SubSeq(u, 1, Len(s)) = s
  BY <1>1, <1>4, SubSeqFull
<1>6. \A j \in 1 .. Len(t) : u[Len(s) + j] = t[j]
  BY <1>1, <1>2
<1>7. QED
  BY <1>2, <1>5, <1>6 DEF u

\* The same with lengths that have names.
LEMMA Glued ==
  ASSUME NEW S, NEW s \in Seq(S), NEW t \in Seq(S), NEW k \in Nat, NEW l \in Nat,
         k = Len(s), l = Len(t), NEW u, u = s \o t
  PROVE  /\ u \in Seq(S) /\ Len(u) = k + l
         /\ \A i \in 1 .. k : u[i] = s[i]
         /\ \A j \in 1 .. l : u[k + j] = t[j]
BY ConcatParts, ConcatProperties

-----------------------------------------------------------------------------
(* Runs: a value that a function per step takes from one place to the next *)

Runs(R, n, b, st, f) ==
  f \in [0 .. n -> R] /\ f[0] = b /\ \A i \in 1 .. n : f[i] = st[i][f[i - 1]]

StaysIn(R, n, st) == \A i \in 1 .. n, x \in R : st[i][x] \in R

Outcome(R, n, b, st) == CHOOSE y : \E f : Runs(R, n, b, st, f) /\ y = f[n]

\* There is a run.
LEMMA RunExists ==
  ASSUME NEW R, NEW n \in Nat, NEW b \in R, NEW st, StaysIn(R, n, st)
  PROVE  \E f : Runs(R, n, b, st, f)
<1> DEFINE Bad == {m \in 0 .. n : ~\E f : Runs(R, m, b, st, f)}
<1>1. ASSUME NEW m \in Bad, \A i \in Bad : m <= i PROVE FALSE
  <2>1. m \in 0 .. n /\ ~\E f : Runs(R, m, b, st, f)
    OBVIOUS
  <2>2. CASE m = 0
    <3>1. Runs(R, 0, b, st, [i \in 0 .. 0 |-> b])
      BY DEF Runs
    <3>2. QED
      BY <2>1, <2>2, <3>1
  <2>3. CASE m # 0
    <3>1. m - 1 \in 0 .. n /\ ~(m <= m - 1)
      BY <2>1, <2>3
    <3>2. PICK g : Runs(R, m - 1, b, st, g)
      BY <1>1, <3>1
    <3>3. /\ g \in [0 .. m - 1 -> R] /\ g[0] = b
          /\ \A i \in 1 .. m - 1 : g[i] = st[i][g[i - 1]]
      BY <3>2 DEF Runs
    <3>4. st[m][g[m - 1]] \in R
      <4>1. m \in 1 .. n /\ m - 1 \in 0 .. m - 1
        BY <2>1, <2>3
      <4>2. QED
        BY <3>3, <4>1 DEF StaysIn
    <3> DEFINE f == [i \in 0 .. m |-> IF i = m THEN st[m][g[m - 1]] ELSE g[i]]
    <3>5. f \in [0 .. m -> R]
      <4>1. \A i \in 0 .. m : i = m \/ i \in 0 .. m - 1
        BY <2>1
      <4>2. QED
        BY <3>3, <3>4, <4>1
    <3>6. /\ 0 \in 0 .. m /\ 0 # m
          /\ \A i \in 1 .. m : i \in 0 .. m /\ i - 1 \in 0 .. m /\ i - 1 # m
          /\ \A i \in 1 .. m : i # m => i \in 1 .. m - 1
      BY <2>1, <2>3
    <3>7. f[0] = b
      BY <3>3, <3>6
    <3>8. ASSUME NEW i \in 1 .. m PROVE f[i] = st[i][f[i - 1]]
      <4>1. f[i - 1] = g[i - 1]
        BY <3>6
      <4>2. f[i] = IF i = m THEN st[m][g[m - 1]] ELSE g[i]
        BY <3>6
      <4>3. QED
        BY <3>3, <3>6, <4>1, <4>2
    <3> HIDE DEF f
    <3>9. Runs(R, m, b, st, f)
      BY <3>5, <3>7, <3>8 DEF Runs
    <3>10. QED
      BY <2>1, <3>9
  <2>4. QED
    BY <2>2, <2>3
<1>2. Bad = {}
  <2>1. Bad \in SUBSET Nat
    OBVIOUS
  <2>2. QED
    BY <1>1, <2>1, Least
<1>3. n \in 0 .. n
  OBVIOUS
<1>4. QED
  BY <1>2, <1>3

\* There is only one.
LEMMA RunUnique ==
  ASSUME NEW R, NEW n \in Nat, NEW b, NEW st, NEW f, NEW g,
         Runs(R, n, b, st, f), Runs(R, n, b, st, g)
  PROVE  f = g
<1> DEFINE Bad == {i \in 0 .. n : f[i] # g[i]}
<1>1. /\ f \in [0 .. n -> R] /\ g \in [0 .. n -> R] /\ f[0] = g[0]
      /\ \A i \in 1 .. n : f[i] = st[i][f[i - 1]] /\ g[i] = st[i][g[i - 1]]
  BY DEF Runs
<1>2. ASSUME NEW i \in Bad, \A j \in Bad : i <= j PROVE FALSE
  <2>1. i \in 0 .. n /\ f[i] # g[i]
    OBVIOUS
  <2>2. i # 0
    BY <1>1, <2>1
  <2>3. i \in 1 .. n /\ i - 1 \in 0 .. n /\ ~(i <= i - 1)
    BY <2>1, <2>2
  <2>4. f[i - 1] = g[i - 1]
    BY <1>2, <2>3
  <2>5. QED
    BY <1>1, <2>1, <2>3, <2>4
<1>3. Bad = {}
  <2>1. Bad \in SUBSET Nat
    OBVIOUS
  <2>2. QED
    BY <1>2, <2>1, Least
<1>4. QED
  BY <1>1, <1>3

\* Where a run ends.
LEMMA OutcomeIs ==
  ASSUME NEW R, NEW n \in Nat, NEW b, NEW st, NEW f, Runs(R, n, b, st, f)
  PROVE  Outcome(R, n, b, st) = f[n] /\ f[n] \in R
<1>1. \A y : (\E g : Runs(R, n, b, st, g) /\ y = g[n]) <=> y = f[n]
  BY RunUnique
<1>2. \E y : \E g : Runs(R, n, b, st, g) /\ y = g[n]
  OBVIOUS
<1>3. Outcome(R, n, b, st) = f[n]
  BY <1>1, <1>2 DEF Outcome
<1>4. f[n] \in R
  <2>1. n \in 0 .. n /\ f \in [0 .. n -> R]
    BY DEF Runs
  <2>2. QED
    BY <2>1
<1>5. QED
  BY <1>3, <1>4

LEMMA OutcomeIn ==
  ASSUME NEW R, NEW n \in Nat, NEW b \in R, NEW st, StaysIn(R, n, st)
  PROVE  Outcome(R, n, b, st) \in R
BY RunExists, OutcomeIs

\* No step, and one step.
LEMMA OutcomeShort ==
  ASSUME NEW R, NEW b \in R, NEW st
  PROVE  /\ Outcome(R, 0, b, st) = b
         /\ st[1][b] \in R => Outcome(R, 1, b, st) = st[1][b]
<1>1. Outcome(R, 0, b, st) = b
  <2>1. PICK f : f = [i \in 0 .. 0 |-> b]
    OBVIOUS
  <2>2. Runs(R, 0, b, st, f) /\ f[0] = b
    BY <2>1 DEF Runs
  <2>3. QED
    BY <2>2, OutcomeIs
<1>2. ASSUME st[1][b] \in R PROVE Outcome(R, 1, b, st) = st[1][b]
  <2>1. PICK f : f = [i \in 0 .. 1 |-> IF i = 0 THEN b ELSE st[1][b]]
    OBVIOUS
  <2>2. f[0] = b /\ f[1] = st[1][b] /\ f \in [0 .. 1 -> R]
    BY <1>2, <2>1
  <2>3. \A i \in 1 .. 1 : i = 1 /\ i - 1 = 0
    OBVIOUS
  <2>4. Runs(R, 1, b, st, f)
    BY <2>2, <2>3 DEF Runs
  <2>5. QED
    BY <2>2, <2>4, OutcomeIs
<1>3. QED
  BY <1>1, <1>2

\* One run behind another.
Joins(st, k, s1, l, s2) ==
  (\A i \in 1 .. k : st[i] = s1[i]) /\ (\A j \in 1 .. l : st[k + j] = s2[j])

LEMMA OutcomeConcat ==
  ASSUME NEW R, NEW k \in Nat, NEW l \in Nat, NEW n \in Nat, n = k + l,
         NEW b \in R, NEW st, NEW s1, NEW s2,
         StaysIn(R, k, s1), StaysIn(R, l, s2), Joins(st, k, s1, l, s2)
  PROVE  Outcome(R, n, b, st) = Outcome(R, l, Outcome(R, k, b, s1), s2)
<1>1. PICK f : Runs(R, k, b, s1, f)
  BY RunExists
<1>2. PICK c : c = Outcome(R, k, b, s1)
  OBVIOUS
<1>3. c = f[k] /\ c \in R
  BY <1>1, <1>2, OutcomeIs
<1>4. PICK g : Runs(R, l, c, s2, g)
  BY <1>3, RunExists
<1>5. Outcome(R, l, c, s2) = g[l]
  BY <1>4, OutcomeIs
<1>6. /\ f \in [0 .. k -> R] /\ f[0] = b
      /\ \A i \in 1 .. k : f[i] = s1[i][f[i - 1]]
      /\ g \in [0 .. l -> R] /\ g[0] = f[k]
      /\ \A i \in 1 .. l : g[i] = s2[i][g[i - 1]]
  BY <1>1, <1>3, <1>4 DEF Runs
<1>7. PICK h : h = [i \in 0 .. k + l |-> IF i <= k THEN f[i] ELSE g[i - k]]
  OBVIOUS
<1>8. /\ \A i \in 0 .. k : h[i] = f[i]
      /\ \A j \in 0 .. l : h[k + j] = g[j]
  <2>1. ASSUME NEW i \in 0 .. k PROVE h[i] = f[i]
    <3>1. i \in 0 .. k + l /\ i <= k
      OBVIOUS
    <3>2. QED
      BY <1>7, <3>1
  <2>2. ASSUME NEW j \in 0 .. l PROVE h[k + j] = g[j]
    <3>1. k + j \in 0 .. k + l /\ (k + j) - k = j /\ (k + j <= k <=> j = 0)
      OBVIOUS
    <3>2. CASE j = 0
      <4>1. k + j = k /\ k \in 0 .. k
        BY <3>2
      <4>2. QED
        BY <1>6, <2>1, <3>2, <4>1
    <3>3. CASE j # 0
      BY <1>7, <3>1, <3>3
    <3>4. QED
      BY <3>2, <3>3
  <2>3. QED
    BY <2>1, <2>2
<1>9. h \in [0 .. k + l -> R]
  <2>1. /\ \A i \in 0 .. k : f[i] \in R
        /\ \A j \in 0 .. l : g[j] \in R
    BY <1>6
  <2>2. ASSUME NEW i \in 0 .. k + l PROVE h[i] \in R
    <3>1. i \in 0 .. k \/ (i - k \in 0 .. l /\ k + (i - k) = i)
      OBVIOUS
    <3>2. PICK j : j = i - k
      OBVIOUS
    <3>3. i \in 0 .. k \/ (j \in 0 .. l /\ k + j = i)
      BY <3>1, <3>2
    <3>4. QED
      BY <1>8, <2>1, <3>3
  <2>3. QED
    BY <1>7, <2>2
<1>10. ASSUME NEW i \in 1 .. k + l PROVE h[i] = st[i][h[i - 1]]
  <2>1. CASE i <= k
    <3>1. i \in 1 .. k /\ i \in 0 .. k /\ i - 1 \in 0 .. k
      BY <2>1
    <3>2. st[i] = s1[i]
      BY <3>1 DEF Joins
    <3>3. QED
      BY <1>6, <1>8, <3>1, <3>2
  <2>2. CASE ~(i <= k)
    <3>1. PICK j \in 1 .. l : i = k + j /\ i - 1 = k + (j - 1) /\ j \in 0 .. l /\ j - 1 \in 0 .. l
      <4>1. i - k \in 1 .. l /\ i = k + (i - k) /\ i - 1 = k + ((i - k) - 1)
            /\ i - k \in 0 .. l /\ (i - k) - 1 \in 0 .. l
        BY <2>2
      <4>2. QED
        BY <4>1
    <3>2. h[i] = g[j] /\ h[i - 1] = g[j - 1]
      BY <1>8, <3>1
    <3>3. st[i] = s2[j]
      BY <3>1 DEF Joins
    <3>4. QED
      BY <1>6, <3>1, <3>2, <3>3
  <2>3. QED
    BY <2>1, <2>2
<1>11. Runs(R, k + l, b, st, h)
  <2>1. 0 \in 0 .. k
    OBVIOUS
  <2>2. h[0] = b
    BY <1>6, <1>8, <2>1
  <2>3. QED
    BY <1>9, <1>10, <2>2 DEF Runs
<1>12. h[k + l] = g[l]
  <2>1. l \in 0 .. l
    OBVIOUS
  <2>2. QED
    BY <1>8, <2>1
<1>13. Outcome(R, k + l, b, st) = h[k + l]
  <2>1. k + l \in Nat
    OBVIOUS
  <2>2. QED
    BY <1>11, <2>1, OutcomeIs
<1>14. QED
  BY <1>2, <1>5, <1>12, <1>13

\* What follows the steps as long as it stays inside is the run.
LEMMA RunIs ==
  ASSUME NEW R, NEW n \in Nat, NEW b \in R, NEW st, StaysIn(R, n, st), NEW g,
         g = [i \in 0 .. n |-> g[i]], g[0] = b,
         \A i \in 1 .. n : g[i - 1] \in R => g[i] = st[i][g[i - 1]]
  PROVE  Runs(R, n, b, st, g)
<1> DEFINE Bad == {i \in 0 .. n : g[i] \notin R}
<1>1. ASSUME NEW i \in Bad, \A j \in Bad : i <= j PROVE FALSE
  <2>1. i \in 0 .. n /\ g[i] \notin R
    OBVIOUS
  <2>2. i # 0
    BY <2>1
  <2>3. i \in 1 .. n /\ i - 1 \in 0 .. n /\ ~(i <= i - 1)
    BY <2>1, <2>2
  <2>4. g[i - 1] \in R
    BY <1>1, <2>3
  <2>5. g[i] = st[i][g[i - 1]]
    BY <2>3, <2>4
  <2>6. QED
    BY <2>1, <2>3, <2>4, <2>5 DEF StaysIn
<1>2. Bad = {}
  <2>1. Bad \in SUBSET Nat
    OBVIOUS
  <2>2. QED
    BY <1>1, <2>1, Least
<1>3. \A i \in 0 .. n : g[i] \in R
  BY <1>2
<1>4. g \in [0 .. n -> R]
  BY <1>3
<1>5. ASSUME NEW i \in 1 .. n PROVE g[i] = st[i][g[i - 1]]
  <2>1. i - 1 \in 0 .. n
    OBVIOUS
  <2>2. QED
    BY <1>3, <2>1
<1>6. QED
  BY <1>4, <1>5 DEF Runs
=============================================================================
