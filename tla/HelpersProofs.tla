----------------------------- MODULE HelpersProofs -----------------------------
(***************************************************************************)
(* Theorems about the helpers of MCHelpers: str_find returns the first     *)
(* occurrence and replace_all replaces every one, for strings of every     *)
(* length over any characters.                                             *)
(***************************************************************************)
EXTENDS MCHelpers, SeqLemmas, TLAPS

-----------------------------------------------------------------------------
(* str_find (StrLoops)                                                      *)

Arguments == [str : Seq(Char), sub : Seq(Char), to : Seq(Char), pos : Int]

\* So far the loop has passed no occurrence, and is where pos or a place
\* behind it is.
SearchedSoFar ==
  pc = "str_find" =>
    /\ str = given.str
    /\ at \in Int /\ at >= given.pos
    /\ \A p \in 0 .. at - 1 : p >= given.pos => ~OccursAt(given.str, p)

FindInv ==
  /\ given \in Arguments
  /\ pc \in {"str_find", "found", "replace_all", "replaced"}
  /\ SearchedSoFar
  /\ FindIsFirst

LEMMA StringsAreSequences == Strings \subseteq Seq(Char)
BY LoopAssumption DEF Strings

LEMMA FindInit == Init => FindInv
<1> SUFFICES ASSUME Init PROVE FindInv
  OBVIOUS
<1>1. given \in Arguments
  BY StringsAreSequences, LoopAssumption DEF Init, Arguments
<1>2. pc \in {"str_find", "replace_all"} /\ str = given.str
  BY DEF Init
<1>3. pc = "str_find" => at = given.pos
  BY DEF Init
<1> QED
  BY <1>1, <1>2, <1>3 DEF FindInv, Arguments, SearchedSoFar, FindIsFirst

\* A place that leaves too little of the string has no occurrence behind it,
\* but for one that ends the string.
LEMMA TooShortMeansNone ==
  ASSUME given \in Arguments, NEW i \in Nat, NEW p \in Nat, p >= i,
         Len(given.str) - i - 1 < Len(given.sub), OccursAt(given.str, p)
  PROVE  p + Len(given.sub) = Len(given.str)
<1>1. Len(given.str) \in Nat /\ Len(given.sub) \in Nat
  BY DEF Arguments
<1>2. p + Len(given.sub) <= Len(given.str)
  BY DEF OccursAt
<1> QED
  BY <1>1, <1>2

LEMMA FindStep == FindInv /\ [Next]_vars => FindInv'
<1> SUFFICES ASSUME FindInv, [Next]_vars PROVE FindInv'
  OBVIOUS
<1>1. given' = given
  BY DEF Next, str_find, OutOfRange, GiveUp, Found, NextPlace, Returns, replace_all,
     Replace, NoMore, Stopped, vars
<1>2. \A s : \A p : OccursAt(s, p)' <=> OccursAt(s, p)
  BY <1>1 DEF OccursAt
<1>3. Seen' = Seen
  BY <1>1 DEF Seen, OccursAt
<1>4. Len(given.str) \in Nat /\ Len(given.sub) \in Nat /\ given.pos \in Int
  BY DEF FindInv, Arguments
<1>5. CASE OutOfRange
  <2>1. given.pos < 0 \/ Seen = {}
    BY <1>4, <1>5 DEF OutOfRange, FindInv, SearchedSoFar, Seen
  <2> QED
    BY <1>1, <1>3, <1>4, <1>5, <2>1 DEF OutOfRange, Returns, FindInv, SearchedSoFar, FindIsFirst
<1>6. CASE GiveUp
  <2>1. at \in Nat /\ str = given.str /\ pc = "str_find"
    BY <1>4, <1>6 DEF GiveUp, Searching, FindInv, SearchedSoFar
  <2>2. \A p \in Seen : p >= at
    BY <2>1, <1>4 DEF Seen, FindInv, SearchedSoFar
  <2>3. \A p \in Seen : p + Len(given.sub) = Len(given.str)
    BY <1>6, <2>1, <2>2, <1>4, TooShortMeansNone DEF GiveUp, TooShort, Seen, FindInv
  <2> QED
    BY <1>1, <1>3, <1>6, <2>3 DEF GiveUp, Returns, FindInv, SearchedSoFar, FindIsFirst
<1>7. CASE Found
  <2>1. at \in Nat /\ str = given.str /\ at >= given.pos
    BY <1>4, <1>7 DEF Found, Searching, FindInv, SearchedSoFar
  <2>2. at \in Seen
    <3>1. at <= Len(given.str) - 1
      BY <1>4, <1>7, <2>1 DEF Found, TooShort
    <3> QED
      BY <1>4, <1>7, <2>1, <3>1 DEF Found, Matches, Seen
  <2>3. \A p \in Seen : at <= p
    BY <1>4, <1>7, <2>1 DEF Found, Searching, Seen, FindInv, SearchedSoFar
  <2> QED
    BY <1>1, <1>3, <1>7, <2>1, <2>2, <2>3 DEF Found, Returns, FindInv, SearchedSoFar,
       FindIsFirst
<1>8. CASE NextPlace
  <2>1. at \in Nat /\ str = given.str /\ at >= given.pos /\ ~OccursAt(given.str, at)
    BY <1>4, <1>8 DEF NextPlace, Searching, Matches, FindInv, SearchedSoFar
  <2>2. \A p \in 0 .. at : p >= given.pos => ~OccursAt(given.str, p)
    <3> TAKE p \in 0 .. at
    <3> QED
      BY <2>1, <1>8 DEF NextPlace, Searching, FindInv, SearchedSoFar
  <2>3. SearchedSoFar'
    BY <1>1, <1>2, <1>4, <1>8, <2>1, <2>2 DEF NextPlace, SearchedSoFar
  <2> QED
    BY <1>1, <1>8, <2>3 DEF NextPlace, Searching, FindInv, FindIsFirst
<1>9. CASE replace_all \/ Stopped \/ UNCHANGED vars
  BY <1>1, <1>2, <1>3, <1>9 DEF replace_all, Replace, NoMore, Stopped, vars, FindInv,
     SearchedSoFar, FindIsFirst
<1> QED
  BY <1>5, <1>6, <1>7, <1>8, <1>9 DEF Next, str_find

\* str_find returns the first occurrence from pos on, or misses one at the very
\* end only, for all strings and positions.
THEOREM FindsFirst == Spec => []FindIsFirst
<1>1. FindInv => FindIsFirst
  BY DEF FindInv
<1> QED
  BY <1>1, FindInit, FindStep, PTL DEF Spec

-----------------------------------------------------------------------------
(* replace_all (StrLoops)                                                   *)

\* The equation of Left, for a function f in its place.
LeftBody(f, p) ==
  IF p + Len(given.sub) > Len(given.str) THEN SubSeq(given.str, p + 1, Len(given.str))
  ELSE IF OccursAt(given.str, p) THEN given.to \o f[p + Len(given.sub)]
  ELSE <<given.str[p + 1]>> \o f[p + 1]

\* f solves the equation from place b on.
LeftFrom(f, b) ==
  /\ f = [p \in b .. Len(given.str) |-> f[p]]
  /\ \A p \in b .. Len(given.str) : f[p] = LeftBody(f, p)

\* Left is what its equation says: it looks at greater places only.
LEMMA LeftIsDefined ==
  ASSUME given \in Arguments, given.sub # <<>>
  PROVE  \A p \in 0 .. Len(given.str) : Left[p] = LeftBody(Left, p)
<1> DEFINE N == Len(given.str)
           Bad == {k \in 0 .. N : ~\E f : LeftFrom(f, N - k)}
<1>1. N \in Nat /\ Len(given.sub) \in Nat \ {0}
  BY EmptySeq DEF Arguments
<1>2. Bad = {}
  <2> SUFFICES ASSUME Bad # {} PROVE FALSE
    OBVIOUS
  <2>1. Bad \in SUBSET Nat
    BY <1>1
  <2>2. PICK k \in Bad : \A m \in Bad : k <= m
    BY <2>1, Least
  <2>3. k \in 0 .. N /\ ~\E f : LeftFrom(f, N - k)
    BY <2>2
  <2>4. CASE k = 0
    <3> DEFINE f == [p \in N .. N |-> SubSeq(given.str, p + 1, N)]
    <3>1. /\ f = [p \in N .. N |-> f[p]]
          /\ \A p \in N .. N : f[p] = SubSeq(given.str, p + 1, N)
      OBVIOUS
    <3>2. \A p \in N .. N : p + Len(given.sub) > N
      BY <1>1
    <3> HIDE DEF f
    <3>3. LeftFrom(f, N)
      BY <3>1, <3>2 DEF LeftFrom, LeftBody
    <3>4. N - k = N
      BY <1>1, <2>4
    <3>5. QED
      BY <2>3, <3>3, <3>4
  <2>5. CASE k # 0
    <3>1. k - 1 \in 0 .. N /\ k - 1 \notin Bad
      BY <1>1, <2>2, <2>3, <2>5
    <3>2. PICK g : LeftFrom(g, N - (k - 1))
      BY <3>1
    <3>3. PICK b \in 0 .. N : b = N - k /\ b + 1 = N - (k - 1)
      <4> HIDE DEF N, Bad
      <4>1. N - k \in 0 .. N /\ (N - k) + 1 = N - (k - 1)
        BY <1>1, <2>3
      <4>2. QED
        BY <4>1
    <3> DEFINE h == [p \in b .. N |-> IF p = b THEN LeftBody(g, b) ELSE g[p]]
    <3>4. ASSUME NEW p \in b .. N PROVE h[p] = LeftBody(h, p)
      <4>1. h[p] = LeftBody(g, p)
        BY <1>1, <3>2, <3>3 DEF LeftFrom
      <4>2. ASSUME p + Len(given.sub) <= N
            PROVE  h[p + Len(given.sub)] = g[p + Len(given.sub)] /\ h[p + 1] = g[p + 1]
        BY <1>1, <3>3, <4>2
      <4>3. LeftBody(g, p) = LeftBody(h, p)
        <5> HIDE DEF h
        <5>1. QED
          BY <1>1, <4>2 DEF LeftBody
      <4>4. QED
        BY <4>1, <4>3
    <3>5. LeftFrom(h, b)
      <4>1. h = [p \in b .. N |-> h[p]]
        OBVIOUS
      <4> HIDE DEF h
      <4>2. QED
        BY <3>4, <4>1 DEF LeftFrom
    <3>6. QED
      BY <2>3, <3>3, <3>5
  <2>6. QED
    BY <2>4, <2>5
<1>3. PICK f : LeftFrom(f, 0)
  <2>1. N \in 0 .. N /\ N - N = 0
    BY <1>1
  <2>2. QED
    BY <1>2, <2>1
<1>4. f = [p \in 0 .. N |-> LeftBody(f, p)]
  BY <1>3 DEF LeftFrom
<1>5. Left = [p \in 0 .. N |-> LeftBody(Left, p)]
  BY <1>4 DEF Left, LeftBody
<1>6. QED
  BY <1>5

LEMMA LeftIsASequence ==
  ASSUME given \in Arguments, given.sub # <<>>
  PROVE  \A p \in 0 .. Len(given.str) : Left[p] \in Seq(Char)
<1> DEFINE N == Len(given.str)
           Bad == {k \in 0 .. N : Left[N - k] \notin Seq(Char)}
<1>1. /\ N \in Nat /\ Len(given.sub) \in Nat \ {0}
      /\ given.str \in Seq(Char) /\ given.to \in Seq(Char)
  BY EmptySeq DEF Arguments
<1>2. ASSUME NEW k \in Bad, \A m \in Bad : k <= m PROVE FALSE
  <2>0. k \in 0 .. N
    OBVIOUS
  <2>1. PICK p \in 0 .. N : p = N - k /\ k \in 0 .. N
    <3> HIDE DEF N, Bad
    <3>1. N - k \in 0 .. N
      BY <1>1, <2>0
    <3>2. QED
      BY <2>0, <3>1
  <2>2. ASSUME NEW r \in p + 1 .. N PROVE Left[r] \in Seq(Char)
    <3>1. N - r \in 0 .. N /\ N - r < k /\ N - (N - r) = r
      BY <1>1, <2>1, <2>2
    <3>2. N - r \notin Bad
      <4> HIDE DEF Bad, N
      <4>1. QED
        BY <1>1, <1>2, <2>1, <3>1
    <3>3. QED
      BY <3>1, <3>2
  <2>3. Left[p] = LeftBody(Left, p)
    BY <2>1, LeftIsDefined
  <2>4. LeftBody(Left, p) \in Seq(Char)
    <3>1. CASE p + Len(given.sub) > N
      <4>1. SubSeq(given.str, p + 1, N) \in Seq(Char)
        BY <1>1, <2>1, Part
      <4>2. QED
        BY <3>1, <4>1 DEF LeftBody
    <3>2. CASE ~(p + Len(given.sub) > N)
      <4>1. /\ p + 1 \in p + 1 .. N /\ p + Len(given.sub) \in p + 1 .. N
            /\ p + 1 \in 1 .. N
        <5> HIDE DEF N
        <5>1. QED
          BY <1>1, <2>1, <3>2
      <4>2. given.str[p + 1] \in Char
        BY <1>1, <4>1, ElementOfSeq
      <4>3. /\ <<given.str[p + 1]>> \in Seq(Char)
            /\ Left[p + 1] \in Seq(Char) /\ Left[p + Len(given.sub)] \in Seq(Char)
        <5> HIDE DEF N
        <5>1. QED
          BY <2>2, <4>1, <4>2
      <4>4. /\ <<given.str[p + 1]>> \o Left[p + 1] \in Seq(Char)
            /\ given.to \o Left[p + Len(given.sub)] \in Seq(Char)
        BY <1>1, <4>3, ConcatProperties
      <4>5. QED
        BY <3>2, <4>4 DEF LeftBody
    <3>3. QED
      BY <3>1, <3>2
  <2>5. Left[N - k] \notin Seq(Char)
    OBVIOUS
  <2>6. QED
    BY <2>1, <2>3, <2>4, <2>5
<1>3. Bad = {}
  <2>1. Bad \in SUBSET Nat
    BY <1>1
  <2>2. QED
    BY <1>2, <2>1, Least
<1>4. SUFFICES ASSUME NEW p \in 0 .. N PROVE Left[p] \in Seq(Char)
  OBVIOUS
<1>5. N - p \in 0 .. N /\ N - (N - p) = p
  BY <1>1
<1>6. QED
  BY <1>3, <1>5

\* Places without an occurrence are what they were.
LEMMA PassesPlaces ==
  ASSUME given \in Arguments, given.sub # <<>>,
         NEW r \in 0 .. Len(given.str), NEW q \in 0 .. r,
         \A p \in q .. r - 1 : ~OccursAt(given.str, p)
  PROVE  Left[q] = SubSeq(given.str, q + 1, r) \o Left[r]
<1> DEFINE N == Len(given.str)
           Passed(p) == Left[p] = SubSeq(given.str, p + 1, r) \o Left[r]
           Bad == {k \in 0 .. r - q : ~Passed(r - k)}
<1>1. /\ N \in Nat /\ Len(given.sub) \in Nat \ {0}
      /\ given.str \in Seq(Char) /\ Left[r] \in Seq(Char)
  BY EmptySeq, LeftIsASequence DEF Arguments
<1>2. ASSUME NEW k \in Bad, \A m \in Bad : k <= m PROVE FALSE
  <2>1. PICK p \in q .. r : p = r - k
    BY <1>1
  <2>2. CASE k = 0
    <3>1. SubSeq(given.str, r + 1, r) = <<>>
      BY <1>1, SubSeqEmpty
    <3>2. <<>> \o Left[r] = Left[r]
      BY <1>1, ConcatEmptySeq
    <3>3. Passed(r) /\ r - k = r
      BY <1>1, <2>2, <3>1, <3>2
    <3>4. QED
      BY <3>3
  <2>3. CASE k # 0 /\ p + Len(given.sub) > N
    <3>1. p \in 0 .. N /\ r + Len(given.sub) > N
      BY <1>1, <2>1, <2>3
    <3>2. Left[p] = SubSeq(given.str, p + 1, N) /\ Left[r] = SubSeq(given.str, r + 1, N)
      BY <2>3, <3>1, LeftIsDefined DEF LeftBody
    <3>6. r \in 0 .. N /\ p <= r
      BY <1>1, <2>1
    <3>3. p + 1 \in 1 .. N + 1 /\ r \in (p + 1) - 1 .. N /\ N \in r .. N
      <4> HIDE DEF N, Bad
      <4>1. QED
        BY <1>1, <3>6, <3>1
    <3> HIDE DEF N
    <3>4. SubSeq(given.str, p + 1, r) \o SubSeq(given.str, r + 1, N)
            = SubSeq(given.str, p + 1, N)
      BY <1>1, <3>3, ConcatAdjacentSubSeq DEF N
    <3>5. QED
      BY <2>1, <3>2, <3>4
  <2>4. CASE k # 0 /\ ~(p + Len(given.sub) > N)
    <3>1. /\ p \in 0 .. N /\ p + 1 \in 1 .. N /\ r \in p + 1 .. N
          /\ p \in q .. r - 1
      BY <1>1, <2>1, <2>4
    <3>2. Left[p] = <<given.str[p + 1]>> \o Left[p + 1]
      BY <2>4, <3>1, LeftIsDefined DEF LeftBody
    <3>3. Passed(p + 1)
      <4>1. k - 1 \in 0 .. r - q /\ k - 1 < k /\ r - (k - 1) = p + 1
        BY <1>1, <2>1, <2>4
      <4>2. k - 1 \notin Bad
        <5>1. k \in Nat
          BY <1>1
        <5> HIDE DEF Bad
        <5>2. QED
          BY <1>2, <4>1, <5>1
      <4>3. QED
        BY <4>1, <4>2
    <3>4. SubSeq(given.str, p + 1, r)
            = <<given.str[p + 1]>> \o SubSeq(given.str, (p + 1) + 1, r)
      BY <1>1, <3>1, SubSeqRecursiveFirst
    <3>5. /\ <<given.str[p + 1]>> \in Seq(Char)
          /\ SubSeq(given.str, (p + 1) + 1, r) \in Seq(Char)
      BY <1>1, <3>1, ElementOfSeq, Part
    <3>6. Passed(p)
      <4> DEFINE c == <<given.str[p + 1]>>
                 u == SubSeq(given.str, (p + 1) + 1, r)
                 w == Left[r]
      <4>1. Left[p + 1] = u \o w
        BY <3>3
      <4>2. Left[p] = c \o (u \o w) /\ SubSeq(given.str, p + 1, r) = c \o u
        BY <3>2, <3>4, <4>1
      <4>3. c \in Seq(Char) /\ u \in Seq(Char) /\ w \in Seq(Char)
        BY <1>1, <3>5
      <4> HIDE DEF c, u, w
      <4>4. (c \o u) \o w = c \o (u \o w)
        BY <4>3, ConcatAssociative
      <4>5. QED
        BY <4>2, <4>4 DEF w
    <3>7. QED
      BY <2>1, <3>6
  <2>5. QED
    BY <2>2, <2>3, <2>4
<1>3. Bad = {}
  <2>1. Bad \in SUBSET Nat
    BY <1>1
  <2>2. QED
    BY <1>2, <2>1, Least
<1>4. r - q \in 0 .. r - q /\ r - (r - q) = q
  BY <1>1
<1>5. QED
  BY <1>3, <1>4

\* Of string s, what stands in front of position a is done, and what follows is
\* what follows place q of the given string.
InStep(s, a, q) ==
  /\ a + Len(given.str) - q = Len(s)
  /\ \A j \in 1 .. Len(given.str) - q : s[a + j] = given.str[q + j]
  /\ SubSeq(s, 1, a) \o Left[q] = Left[0]

\* The search finds the first occurrence.
LEMMA FirstIsLeast ==
  ASSUME given \in Arguments, str \in Seq(Char), at \in Nat, Occurrences # {}
  PROVE  First \in Occurrences /\ \A p \in Occurrences : First <= p
<1>1. Len(str) \in Nat /\ Len(given.sub) \in Nat
  BY LenProperties DEF Arguments
<1>2. Occurrences \in SUBSET Nat
  BY <1>1 DEF Occurrences
<1> HIDE DEF Occurrences
<1>3. \E p \in Occurrences : \A r \in Occurrences : p <= r
  BY <1>2, Least
<1>4. QED
  BY <1>3 DEF First

\* What follows place q of the given string and what follows at have the same
\* occurrences.
LEMMA SameOccurrences ==
  ASSUME given \in Arguments, str \in Seq(Char), at \in Nat,
         NEW q \in 0 .. Len(given.str), InStep(str, at, q),
         NEW m \in q .. Len(given.str)
  PROVE  OccursAt(given.str, m) <=> at + (m - q) \in Occurrences
<1>1. /\ Len(str) \in Nat /\ Len(given.sub) \in Nat /\ Len(given.str) \in Nat
      /\ at + Len(given.str) - q = Len(str)
  BY LenProperties DEF Arguments, InStep
<1>2. PICK a \in Nat : a = at + (m - q)
  BY <1>1
<1>3. a \in at .. Len(str) - Len(given.sub) <=> m + Len(given.sub) <= Len(given.str)
  BY <1>1, <1>2
<1>4. ASSUME m + Len(given.sub) <= Len(given.str), NEW j \in 1 .. Len(given.sub)
      PROVE  str[a + j] = given.str[m + j]
  <2>1. PICK i \in 1 .. Len(given.str) - q : i = (m - q) + j
    BY <1>1, <1>4
  <2>2. str[at + i] = given.str[q + i]
    BY <2>1 DEF InStep
  <2>3. at + i = a + j /\ q + i = m + j
    BY <1>1, <1>2, <2>1
  <2>4. QED
    BY <2>2, <2>3
<1>5. a + Len(given.sub) <= Len(str) <=> m + Len(given.sub) <= Len(given.str)
  <2>1. m \in Nat /\ q \in Nat /\ a \in Nat
    BY <1>1
  <2>2. PICK x \in Nat, y \in Nat, z \in Nat :
          x = Len(str) /\ y = Len(given.str) /\ z = Len(given.sub)
    BY <1>1
  <2>3. at + y - q = x /\ a = at + (m - q)
    BY <1>1, <1>2, <2>2
  <2>4. a + z <= x <=> m + z <= y
    BY <2>1, <2>3
  <2>5. QED
    BY <2>2, <2>4
<1>6. QED
  BY <1>2, <1>3, <1>4, <1>5 DEF Occurrences, OccursAt

\* The parts of the string an occurrence at p is replaced in.
LEMMA ReplacedParts ==
  ASSUME given \in Arguments, str \in Seq(Char), NEW p \in Nat,
         p + Len(given.sub) <= Len(str)
  PROVE  /\ Replaced(p) \in Seq(Char)
         /\ Len(Replaced(p)) = Len(str) - Len(given.sub) + Len(given.to)
         /\ SubSeq(Replaced(p), 1, p + Len(given.to)) = SubSeq(str, 1, p) \o given.to
         /\ \A j \in 1 .. Len(str) - (p + Len(given.sub)) :
              Replaced(p)[p + Len(given.to) + j] = str[p + Len(given.sub) + j]
<1>1. /\ Len(str) \in Nat /\ Len(given.sub) \in Nat /\ Len(given.to) \in Nat
      /\ given.to \in Seq(Char)
  BY LenProperties DEF Arguments
<1>0. PICK b \in Nat : b = p + Len(given.sub) /\ b <= Len(str)
  BY <1>1
<1> DEFINE front == SubSeq(str, 1, p)
           back == SubSeq(str, b + 1, Len(str))
<1>2. front \in Seq(Char) /\ Len(front) = p
  <2>1. /\ front \in Seq(Char)
        /\ Len(front) = IF 1 <= p THEN p - 1 + 1 ELSE 0
    BY <1>1, Part
  <2>2. QED
    BY <2>1
<1>3. /\ back \in Seq(Char) /\ Len(back) = Len(str) - b
      /\ \A j \in 1 .. Len(str) - b : back[j] = str[b + j]
  <2>1. /\ back \in Seq(Char)
        /\ Len(back) = IF b + 1 <= Len(str) THEN Len(str) - (b + 1) + 1 ELSE 0
        /\ \A j \in 1 .. Len(str) - (b + 1) + 1 : back[j] = str[b + 1 + j - 1]
    <3>1. b + 1 \in Nat \ {0} /\ Len(str) \in Int /\ Len(str) <= Len(str)
      BY <1>1
    <3>2. QED
      BY <3>1, Part
  <2> HIDE DEF back
  <2>2. Len(back) = Len(str) - b
    <3>1. CASE b = Len(str)
      BY <2>1, <3>1
    <3>2. CASE b # Len(str)
      <4>1. PICK x \in Nat : x = Len(str)
        BY <1>1
      <4>2. b + 1 <= x /\ x - (b + 1) + 1 = x - b
        BY <1>0, <3>2, <4>1
      <4>3. QED
        BY <2>1, <4>1, <4>2
    <3>3. QED
      BY <3>1, <3>2
  <2>3. SUFFICES ASSUME NEW j \in 1 .. Len(str) - b PROVE back[j] = str[b + j]
    BY <2>1, <2>2
  <2>4. j \in 1 .. Len(str) - (b + 1) + 1 /\ b + 1 + j - 1 = b + j
    BY <1>1
  <2>5. QED
    BY <2>1, <2>4
<1>4. Replaced(p) = (front \o given.to) \o back
  BY <1>0 DEF Replaced
<1> HIDE DEF front, back
<1>5. /\ front \o given.to \in Seq(Char)
      /\ Len(front \o given.to) = p + Len(given.to)
  BY <1>1, <1>2, ConcatParts
<1> DEFINE done == front \o given.to
<1>10. done \in Seq(Char)
  BY <1>5
<1> HIDE DEF done
<1>6. /\ done \o back \in Seq(Char) /\ Len(done \o back) = Len(done) + Len(back)
      /\ SubSeq(done \o back, 1, Len(done)) = done
      /\ \A j \in 1 .. Len(back) : (done \o back)[Len(done) + j] = back[j]
  <2>1. back \in Seq(Char)
    BY <1>3
  <2>2. QED
    BY <1>10, <2>1, ConcatParts
<1>7. Replaced(p) = done \o back /\ Len(done) = p + Len(given.to)
  BY <1>4, <1>5 DEF done
<1>8. Len(done) + Len(back) = Len(str) - Len(given.sub) + Len(given.to)
  BY <1>0, <1>1, <1>3, <1>7
<1>9. QED
  BY <1>0, <1>3, <1>6, <1>7, <1>8 DEF done, front

LEMMA GivenStretch ==
  ASSUME given \in Arguments, str \in Seq(Char), at \in Nat,
         NEW q \in Nat, NEW c \in Nat, q + c <= Len(given.str),
         \A j \in 1 .. c : str[at + j] = given.str[q + j]
  PROVE  SubSeq(str, at + 1, at + c) = SubSeq(given.str, q + 1, q + c)
<1> DEFINE u == SubSeq(given.str, q + 1, q + c)
<1>1. PICK g \in Seq(Char), k \in Nat \ {0}, l \in Nat :
        g = given.str /\ k = q + 1 /\ l = q + c /\ l <= Len(g)
  BY DEF Arguments
<1>0. /\ SubSeq(g, k, l) \in Seq(Char)
      /\ Len(SubSeq(g, k, l)) = IF k <= l THEN l - k + 1 ELSE 0
      /\ \A j \in 1 .. l - k + 1 : SubSeq(g, k, l)[j] = g[k + j - 1]
  BY <1>1, Part
<1>2. /\ u \in Seq(Char)
      /\ Len(u) = IF q + 1 <= q + c THEN q + c - (q + 1) + 1 ELSE 0
      /\ \A j \in 1 .. q + c - (q + 1) + 1 : u[j] = given.str[q + 1 + j - 1]
  BY <1>0, <1>1
<1> HIDE DEF u
<1>3. Len(u) = c
  <2>1. CASE c = 0
    BY <1>2, <2>1
  <2>2. CASE c # 0
    BY <1>2, <2>2
  <2>3. QED
    BY <2>1, <2>2
<1>4. \A j \in 1 .. c : str[at + j] = u[j]
  <2>1. SUFFICES ASSUME NEW j \in 1 .. c PROVE str[at + j] = u[j]
    OBVIOUS
  <2>2. j \in 1 .. q + c - (q + 1) + 1 /\ q + 1 + j - 1 = q + j
    OBVIOUS
  <2>3. QED
    BY <1>2, <2>2
<1>5. SubSeq(str, at + 1, at + c) = SubSeq(u, 1, c)
  BY <1>4, SameParts
<1>6. SubSeq(u, 1, c) = u
  BY <1>2, <1>3, SubSeqFull
<1>7. QED
  BY <1>5, <1>6 DEF u

\* What Replace makes of a string in step is in step, behind the occurrence.
LEMMA Replacing ==
  ASSUME given \in Arguments, given.sub # <<>>, str \in Seq(Char), at \in Nat,
         NEW q \in 0 .. Len(given.str), InStep(str, at, q), Occurrences # {}
  PROVE  \E k \in 0 .. Len(given.str) :
           InStep(Replaced(First), First + Len(given.to), k)
<1> DEFINE N == Len(given.str)
           S == Seq(Char)
<1>1. /\ N \in Nat /\ Len(given.sub) \in Nat \ {0} /\ Len(given.to) \in Nat
      /\ given.str \in S /\ given.to \in S /\ Len(str) \in Nat
      /\ at + N - q = Len(str)
  BY EmptySeq, LenProperties DEF Arguments, InStep
<1>2. PICK p \in Nat : /\ p = First /\ p \in Occurrences /\ at <= p
                       /\ p + Len(given.sub) <= Len(str)
                       /\ \A m \in Occurrences : p <= m
  <2>1. First \in Occurrences /\ \A m \in Occurrences : First <= m
    BY FirstIsLeast
  <2>2. First \in at .. Len(str) - Len(given.sub)
    BY <2>1 DEF Occurrences
  <2>3. QED
    BY <1>1, <2>1, <2>2
<1>3. PICK n \in Nat \ {0}, x \in Nat, y \in Nat, t \in Nat :
        /\ n = Len(given.sub) /\ x = Len(str) /\ y = N /\ t = Len(given.to)
        /\ at + y - q = x /\ q \in 0 .. y
  BY <1>1
<1>0. PICK aa \in Nat, qq \in 0 .. y : aa = at /\ qq = q
  BY <1>3
<1>4. PICK r \in q .. y : p = at + (r - q) /\ r + n <= y
  <2>1. q + (p - at) \in q .. y /\ q + (p - at) + n <= y
    <3>1. aa <= p /\ p + n <= x /\ aa + y - qq = x
      BY <1>0, <1>2, <1>3
    <3>2. qq + (p - aa) \in qq .. y /\ qq + (p - aa) + n <= y
      BY <3>1
    <3>3. QED
      BY <1>0, <3>2
  <2>2. p = at + ((q + (p - at)) - q)
    BY <1>2
  <2>3. QED
    BY <2>1, <2>2
<1>5. PICK k \in 0 .. y : k = r + n
  BY <1>3, <1>4
<1>6. Left[q] = SubSeq(given.str, q + 1, r) \o (given.to \o Left[k])
  <2>1. \A m \in q .. r - 1 : ~OccursAt(given.str, m)
    <3>1. SUFFICES ASSUME NEW m \in q .. r - 1 PROVE ~OccursAt(given.str, m)
      OBVIOUS
    <3>2. m \in q .. N /\ at + (m - q) < p
      BY <1>3, <1>4
    <3>3. at + (m - q) \notin Occurrences
      BY <1>2, <3>2
    <3>4. QED
      BY <3>2, <3>3, SameOccurrences
  <2>2. r \in 0 .. N /\ q \in 0 .. r /\ r \in q .. N
    BY <1>3, <1>4
  <2>3. Left[q] = SubSeq(given.str, q + 1, r) \o Left[r]
    BY <2>1, <2>2, PassesPlaces
  <2>4. OccursAt(given.str, r)
    BY <1>2, <1>4, <2>2, SameOccurrences
  <2>5. Left[r] = given.to \o Left[k]
    <3>1. r + Len(given.sub) = k /\ ~(r + Len(given.sub) > Len(given.str))
      BY <1>3, <1>4, <1>5
    <3>2. Left[r] = LeftBody(Left, r)
      BY <2>2, LeftIsDefined
    <3>3. QED
      BY <2>4, <3>1, <3>2 DEF LeftBody
  <2>6. QED
    BY <2>3, <2>5
<1>7. SubSeq(str, at + 1, p) = SubSeq(given.str, q + 1, r)
  <2>1. PICK c \in Nat : c = r - q /\ at + c = p /\ q + c = r
    BY <1>4
  <2>2. \A j \in 1 .. c : str[at + j] = given.str[q + j]
    <3>1. 1 .. c \subseteq 1 .. N - q
      BY <1>3, <1>4, <2>1
    <3>2. QED
      BY <3>1 DEF InStep
  <2>3. q + c <= Len(given.str) /\ q \in Nat
    BY <1>3, <1>4, <2>1
  <2>4. SubSeq(str, at + 1, at + c) = SubSeq(given.str, q + 1, q + c)
    BY <2>2, <2>3, GivenStretch
  <2>5. QED
    BY <2>1, <2>4
<1>8. SubSeq(str, 1, at) \o SubSeq(str, at + 1, p) = SubSeq(str, 1, p)
  <2>1. /\ 1 \in 1 .. Len(str) + 1 /\ at \in 1 - 1 .. Len(str)
        /\ p \in at .. Len(str)
    BY <1>1, <1>2, <1>3
  <2>2. QED
    BY <2>1, ConcatAdjacentSubSeq
<1>9. (SubSeq(str, 1, p) \o given.to) \o Left[k] = Left[0]
  <2> DEFINE a == SubSeq(str, 1, at)
             b == SubSeq(str, at + 1, p)
             d == given.to
             w == Left[k]
  <2>1. a \in S /\ b \in S /\ d \in S /\ w \in S
    <3>1. at <= Len(str) /\ p <= Len(str) /\ at + 1 \in Nat \ {0}
      BY <1>1, <1>2, <1>3
    <3>2. a \in S /\ b \in S
      BY <3>1, Part
    <3>3. w \in S
      BY <1>3, <1>5, LeftIsASequence
    <3>4. QED
      BY <1>1, <3>2, <3>3
  <2>2. a \o (b \o (d \o w)) = Left[0]
    BY <1>6, <1>7 DEF InStep
  <2> HIDE DEF a, b, d, w, S
  <2>3. d \o w \in S /\ a \o b \in S
    BY <2>1, ConcatParts DEF S
  <2>4. a \o (b \o (d \o w)) = (a \o b) \o (d \o w)
    <3> DEFINE e == d \o w
    <3>1. e \in S
      BY <2>3
    <3> HIDE DEF e
    <3>2. a \in Seq(Char) /\ b \in Seq(Char) /\ e \in Seq(Char)
      BY <2>1, <3>1 DEF S
    <3>4. (a \o b) \o e = a \o (b \o e)
      <4>1. Associate(a, b, e)
        BY <3>2, ConcatAssociates
      <4>2. QED
        BY <4>1 DEF Associate
    <3>3. QED
      BY <3>4 DEF e
  <2>5. (a \o b) \o (d \o w) = ((a \o b) \o d) \o w
    <3> DEFINE e == a \o b
    <3>1. e \in S
      BY <2>3
    <3> HIDE DEF e
    <3>2. e \in Seq(Char) /\ d \in Seq(Char) /\ w \in Seq(Char)
      BY <2>1, <3>1 DEF S
    <3>4. (e \o d) \o w = e \o (d \o w)
      <4>1. Associate(e, d, w)
        BY <3>2, ConcatAssociates
      <4>2. QED
        BY <4>1 DEF Associate
    <3>3. QED
      BY <3>4 DEF e
  <2>6. a \o b = SubSeq(str, 1, p)
    BY <1>8 DEF a, b
  <2>7. QED
    BY <2>2, <2>4, <2>5, <2>6 DEF d, w
<1> DEFINE new == Replaced(p)
<1>10. /\ new \in S /\ Len(new) = x - n + t
       /\ SubSeq(new, 1, p + t) = SubSeq(str, 1, p) \o given.to
       /\ \A j \in 1 .. x - (p + n) : new[p + t + j] = str[p + n + j]
  BY <1>2, <1>3, ReplacedParts
<1> HIDE DEF new
<1>11. p + t + y - k = Len(new)
  <2>1. aa + y - qq = x /\ p = aa + (r - qq) /\ k = r + n /\ r \in qq .. y
    BY <1>0, <1>3, <1>4, <1>5
  <2>2. p + t + y - k = x - n + t
    BY <2>1
  <2>3. QED
    BY <1>10, <2>2
<1>12. ASSUME NEW j \in 1 .. y - k
       PROVE  new[p + t + j] = given.str[k + j]
  <2>1. PICK i \in 1 .. y - q : i = (r - q) + n + j
    BY <1>4, <1>5
  <2>2. j \in 1 .. x - (p + n) /\ p + n + j = at + i /\ k + j = q + i
    <3>1. /\ aa + y - qq = x /\ p = aa + (r - qq) /\ k = r + n /\ r \in qq .. y
          /\ i = (r - qq) + n + j
      BY <1>0, <1>3, <1>4, <1>5, <2>1
    <3>2. j \in 1 .. x - (p + n) /\ p + n + j = aa + i /\ k + j = qq + i
      BY <3>1
    <3>3. QED
      BY <1>0, <3>2
  <2>3. str[at + i] = given.str[q + i]
    BY <1>3, <2>1 DEF InStep
  <2>4. QED
    BY <1>10, <2>2, <2>3
<1>13. InStep(new, p + t, k)
  BY <1>3, <1>9, <1>10, <1>11, <1>12 DEF InStep
<1>14. QED
  BY <1>2, <1>3, <1>5, <1>13 DEF new

\* A string in step without an occurrence left is the one to be returned.
LEMMA NothingLeft ==
  ASSUME given \in Arguments, given.sub # <<>>, str \in Seq(Char), at \in Nat,
         NEW q \in 0 .. Len(given.str), InStep(str, at, q), Occurrences = {}
  PROVE  str = Left[0]
<1> DEFINE N == Len(given.str)
<1>1. /\ N \in Nat /\ given.str \in Seq(Char) /\ Len(str) \in Nat
      /\ Len(given.sub) \in Nat \ {0} /\ at + N - q = Len(str)
  BY EmptySeq, LenProperties DEF Arguments, InStep
<1>2. \A m \in q .. N - 1 : ~OccursAt(given.str, m)
  <2>1. SUFFICES ASSUME NEW m \in q .. N - 1 PROVE ~OccursAt(given.str, m)
    OBVIOUS
  <2>2. m \in q .. N
    BY <1>1
  <2>3. QED
    BY <2>2, SameOccurrences
<1>3. N \in 0 .. N /\ q \in 0 .. N
  BY <1>1
<1>4. Left[q] = SubSeq(given.str, q + 1, N) \o Left[N]
  BY <1>2, <1>3, PassesPlaces
<1>5. Left[N] = <<>>
  <2>1. Left[N] = LeftBody(Left, N)
    BY <1>3, LeftIsDefined
  <2>2. N + Len(given.sub) > N
    <3> HIDE DEF N
    <3>1. QED
      BY <1>1
  <2>3. LeftBody(Left, N) = SubSeq(given.str, N + 1, N)
    BY <2>2 DEF LeftBody
  <2>4. SubSeq(given.str, N + 1, N) = <<>>
    BY <1>1, SubSeqEmpty
  <2>5. QED
    BY <2>1, <2>3, <2>4
<1>6. SubSeq(given.str, q + 1, N) = SubSeq(str, at + 1, Len(str))
  <2>1. PICK c \in Nat, x \in Nat, y \in Nat :
          /\ c = y - q /\ x = Len(str) /\ y = N /\ q \in 0 .. y
          /\ at + y - q = x
    <3>1. PICK y \in Nat : y = N
      BY <1>1
    <3>2. q \in 0 .. y
      BY <3>1
    <3>3. y - q \in Nat
      BY <3>2
    <3>4. QED
      BY <1>1, <3>1, <3>2, <3>3
  <2>5. q + c = y /\ at + c = x /\ q \in Nat
    BY <2>1
  <2>2. q + c = N /\ at + c = Len(str) /\ q \in Nat /\ q + c <= Len(given.str)
    BY <2>1, <2>5
  <2>3. \A j \in 1 .. c : str[at + j] = given.str[q + j]
    BY <2>1 DEF InStep
  <2>4. SubSeq(str, at + 1, at + c) = SubSeq(given.str, q + 1, q + c)
    BY <2>2, <2>3, GivenStretch
  <2>6. QED
    BY <2>2, <2>4
<1>7. SubSeq(str, at + 1, Len(str)) \in Seq(Char)
  <2>1. at + 1 \in Nat \ {0} /\ Len(str) \in Int /\ Len(str) <= Len(str)
    BY <1>1
  <2>2. QED
    BY <2>1, Part
<1>8. Left[q] = SubSeq(str, at + 1, Len(str))
  BY <1>4, <1>5, <1>6, <1>7, ConcatEmptySeq
<1>9. SubSeq(str, 1, at) \o SubSeq(str, at + 1, Len(str)) = SubSeq(str, 1, Len(str))
  <2>1. /\ 1 \in 1 .. Len(str) + 1 /\ at \in 1 - 1 .. Len(str)
        /\ Len(str) \in at .. Len(str)
    BY <1>1
  <2>2. QED
    BY <2>1, ConcatAdjacentSubSeq
<1>10. QED
  BY <1>8, <1>9, SubSeqFull DEF InStep

\* The string replace_all works on is in step with the given one until it is
\* returned.
ReplaceInv ==
  /\ str \in Seq(Char)
  /\ pc = "replace_all" =>
       /\ result = -1 /\ at \in 0 .. Len(str)
       /\ given.sub # <<>> => \E q \in 0 .. Len(given.str) : InStep(str, at, q)
  /\ at \in Int /\ (at <= Len(str) \/ at = given.pos)
  /\ result \in -1 .. Len(str) - 1 /\ rounds \in 0 .. MaxRounds
  /\ ReplacesGiven

LoopInv == FindInv /\ ReplaceInv

LEMMA LoopInit == Init => LoopInv
<1> SUFFICES ASSUME Init PROVE ReplaceInv
  BY FindInit DEF LoopInv
<1>1. given \in Arguments
  BY FindInit DEF FindInv
<1>2. /\ str = given.str /\ str \in Seq(Char) /\ Len(str) \in Nat
      /\ given.pos \in Int
  BY <1>1, LenProperties DEF Init, Arguments
<1>3. pc \in {"str_find", "replace_all"} /\ result = -1 /\ rounds = 0
  BY DEF Init
<1>4. (pc = "replace_all" /\ at = 0) \/ (pc = "str_find" /\ at = given.pos)
  BY DEF Init
<1>5. ASSUME given.sub # <<>> PROVE InStep(str, 0, 0)
  <2>1. Left[0] \in Seq(Char)
    BY <1>1, <1>2, <1>5, LeftIsASequence
  <2>2. SubSeq(str, 1, 0) = <<>>
    BY SubSeqEmpty
  <2>3. SubSeq(str, 1, 0) \o Left[0] = Left[0]
    BY <2>1, <2>2, ConcatEmptySeq
  <2>4. 0 + Len(given.str) - 0 = Len(str)
    BY <1>2
  <2>5. QED
    BY <1>2, <2>3, <2>4 DEF InStep
<1>6. 0 \in 0 .. Len(given.str) /\ 0 \in 0 .. Len(str) /\ -1 \in -1 .. Len(str) - 1
  BY <1>2
<1>7. ASSUME pc = "replace_all"
      PROVE  /\ result = -1 /\ at \in 0 .. Len(str)
             /\ given.sub # <<>> => \E q \in 0 .. Len(given.str) : InStep(str, at, q)
  BY <1>3, <1>4, <1>5, <1>6, <1>7
<1>8. at \in Int /\ (at <= Len(str) \/ at = given.pos)
  BY <1>2, <1>4
<1>9. rounds \in 0 .. MaxRounds
  BY <1>3, LoopAssumption
<1>10. QED
  BY <1>2, <1>3, <1>6, <1>7, <1>8, <1>9 DEF ReplaceInv, ReplacesGiven

LEMMA ReplaceStep ==
  ASSUME LoopInv, Replace
  PROVE  ReplaceInv'
<1>1. /\ given \in Arguments /\ str \in Seq(Char) /\ at \in Nat /\ at <= Len(str)
      /\ result = -1 /\ pc = "replace_all" /\ rounds \in 0 .. MaxRounds
      /\ Len(str) \in Nat /\ Len(given.sub) \in Nat /\ Len(given.to) \in Nat
  BY LenProperties DEF LoopInv, FindInv, ReplaceInv, Replace, Arguments
<1>2. /\ str' = Replaced(First) /\ at' = First + Len(given.to) /\ Occurrences # {}
      /\ rounds' = rounds + 1 /\ rounds < MaxRounds
      /\ pc' = pc /\ given' = given /\ result' = result
  BY DEF Replace
<1>3. First \in Nat /\ First + Len(given.sub) <= Len(str)
  <2>1. First \in Occurrences
    BY <1>1, <1>2, FirstIsLeast
  <2>2. First \in at .. Len(str) - Len(given.sub)
    BY <2>1 DEF Occurrences
  <2>3. QED
    BY <1>1, <2>2
<1>4. str' \in Seq(Char) /\ Len(str') = Len(str) - Len(given.sub) + Len(given.to)
  BY <1>1, <1>2, <1>3, ReplacedParts
<1>5. at' \in 0 .. Len(str') /\ at' \in Int /\ -1 \in -1 .. Len(str') - 1
  <2>1. PICK f \in Nat, l \in Nat, n \in Nat, t \in Nat :
          /\ f = First /\ l = Len(str) /\ n = Len(given.sub) /\ t = Len(given.to)
          /\ f + n <= l
    BY <1>1, <1>3
  <2>2. PICK w \in Nat : w = l - n + t /\ f + t <= w
    <3>1. PICK r \in Nat : r = l - n /\ f <= r
      BY <2>1
    <3>2. r + t \in Nat /\ f + t <= r + t
      BY <3>1
    <3>3. QED
      BY <3>1, <3>2
  <2>3. f + t \in 0 .. w /\ f + t \in Int /\ -1 \in -1 .. w - 1
    BY <2>2
  <2>4. Len(str') = w /\ at' = f + t
    BY <1>2, <1>4, <2>1, <2>2
  <2>5. QED
    BY <2>3, <2>4
<1>6. ASSUME given.sub # <<>>
      PROVE  \E k \in 0 .. Len(given.str) : InStep(str', at', k)
  <2>1. PICK q \in 0 .. Len(given.str) : InStep(str, at, q)
    BY <1>1, <1>6 DEF LoopInv, ReplaceInv
  <2>2. QED
    BY <1>1, <1>2, <1>6, <2>1, Replacing
<1>7. Left' = Left
  BY <1>2 DEF Left, OccursAt
<1>8. (given.sub # <<>> => \E k \in 0 .. Len(given.str) : InStep(str, at, k))'
  BY <1>2, <1>6, <1>7 DEF InStep
<1>9. rounds' \in 0 .. MaxRounds
  BY <1>1, <1>2, LoopAssumption
<1>10. ReplacesGiven'
  BY <1>1, <1>2 DEF ReplacesGiven
<1>11. at' <= Len(str') /\ result' = -1 /\ pc' = "replace_all"
  <2>1. Len(str') \in Nat
    BY <1>4, LenProperties
  <2>2. QED
    BY <1>1, <1>2, <1>5, <2>1
<1>12. QED
  BY <1>4, <1>5, <1>8, <1>9, <1>10, <1>11 DEF ReplaceInv

LEMMA NoMoreStep ==
  ASSUME LoopInv, NoMore
  PROVE  ReplaceInv'
<1>1. /\ given \in Arguments /\ str \in Seq(Char) /\ at \in Nat /\ at <= Len(str)
      /\ Len(str) \in Nat
  BY LenProperties DEF LoopInv, FindInv, ReplaceInv, NoMore
<1>2. /\ pc' = "replaced" /\ Occurrences = {}
      /\ given' = given /\ str' = str /\ at' = at /\ result' = result /\ rounds' = rounds
  BY DEF NoMore
<1>3. given.sub # <<>>
  <2>1. SUFFICES ASSUME given.sub = <<>> PROVE FALSE
    OBVIOUS
  <2>2. Len(given.sub) = 0
    BY <2>1, EmptySeq
  <2>3. at \in Occurrences
    BY <1>1, <2>2 DEF Occurrences, OccursAt
  <2>4. QED
    BY <1>2, <2>3
<1>4. PICK q \in 0 .. Len(given.str) : InStep(str, at, q)
  BY <1>3 DEF LoopInv, ReplaceInv, NoMore
<1>5. str = Left[0]
  BY <1>1, <1>2, <1>3, <1>4, NothingLeft
<1>6. Left' = Left
  BY <1>2 DEF Left, OccursAt
<1>7. ReplacesGiven'
  BY <1>2, <1>3, <1>5, <1>6 DEF ReplacesGiven, Substituted
<1>8. QED
  BY <1>2, <1>7 DEF LoopInv, ReplaceInv

LEMMA LoopStep == LoopInv /\ [Next]_vars => LoopInv'
<1> SUFFICES ASSUME LoopInv, [Next]_vars PROVE ReplaceInv'
  BY FindStep DEF LoopInv
<1>1. /\ given \in Arguments /\ str \in Seq(Char) /\ Len(str) \in Nat
      /\ given.pos \in Int
  BY LenProperties DEF LoopInv, FindInv, ReplaceInv, Arguments
<1>2. CASE Replace
  BY <1>2, ReplaceStep
<1>3. CASE NoMore
  BY <1>3, NoMoreStep
<1>4. CASE OutOfRange \/ GiveUp
  <2>1. pc' = "found" /\ result' = -1 /\ UNCHANGED <<given, str, at, rounds>>
    BY <1>4 DEF OutOfRange, GiveUp, Returns
  <2>2. QED
    BY <1>1, <2>1 DEF LoopInv, ReplaceInv, ReplacesGiven
<1>5. CASE Found
  <2>1. pc' = "found" /\ result' = at /\ UNCHANGED <<given, str, at, rounds>>
    BY <1>5 DEF Found, Returns
  <2>2. at \in Nat /\ at <= Len(str) - 1
    <3>1. at \in Int /\ at >= given.pos /\ given.pos >= 0
      BY <1>1, <1>5 DEF LoopInv, FindInv, SearchedSoFar, Found, Searching
    <3>2. Len(given.sub) \in Nat /\ ~(Len(str) - at - 1 < Len(given.sub))
      BY <1>1, <1>5, LenProperties DEF Found, TooShort, Arguments
    <3>3. QED
      BY <1>1, <3>1, <3>2
  <2>3. result' \in -1 .. Len(str) - 1
    BY <1>1, <2>1, <2>2
  <2>4. QED
    BY <2>1, <2>3 DEF LoopInv, ReplaceInv, ReplacesGiven
<1>6. CASE NextPlace
  <2>1. /\ pc = "str_find" /\ at' = at + 1 /\ at \in Int
        /\ UNCHANGED <<pc, given, str, result, rounds>>
    BY <1>6 DEF NextPlace, Searching, LoopInv, ReplaceInv
  <2>2. at + 1 <= Len(str)
    <3>1. Len(given.sub) \in Nat /\ ~(Len(str) - at - 1 < Len(given.sub))
      BY <1>1, <1>6, LenProperties DEF NextPlace, TooShort, Arguments
    <3>2. QED
      BY <1>1, <2>1, <3>1
  <2>3. at' \in Int /\ at' <= Len(str)
    BY <2>1, <2>2
  <2>4. QED
    BY <2>1, <2>3 DEF LoopInv, ReplaceInv, ReplacesGiven
<1>7. CASE UNCHANGED vars
  <2>1. Left' = Left
    BY <1>7 DEF vars, Left, OccursAt
  <2>2. ReplacesGiven' <=> ReplacesGiven
    BY <1>7, <2>1 DEF vars, ReplacesGiven, Substituted
  <2>3. (\E q \in 0 .. Len(given.str) : InStep(str, at, q))'
          <=> \E q \in 0 .. Len(given.str) : InStep(str, at, q)
    BY <1>7, <2>1 DEF vars, InStep
  <2>4. QED
    BY <1>7, <2>2, <2>3 DEF vars, LoopInv, ReplaceInv
<1>8. QED
  BY <1>2, <1>3, <1>4, <1>5, <1>6, <1>7 DEF Next, str_find, replace_all, Stopped

\* replace_all replaces every occurrence of from in what it was given and
\* nothing else, for all strings: also where to contains from, or makes up an
\* occurrence with what stands next to it.
THEOREM ReplacesAll == Spec => []ReplacesGiven
<1>1. LoopInv => ReplacesGiven
  BY DEF LoopInv, ReplaceInv
<1> QED
  BY <1>1, LoopInit, LoopStep, PTL DEF Spec

\* The loops stay inside of the string, however it grows or shrinks.
THEOREM LoopTypeCorrect == Spec => []LoopTypeOK
<1>1. LoopInv => LoopTypeOK
  BY DEF LoopInv, FindInv, Arguments, ReplaceInv, LoopTypeOK
<1> QED
  BY <1>1, LoopInit, LoopStep, PTL DEF Spec
-----------------------------------------------------------------------------
(* split_str (StrAlgo)                                                      *)
\* The least of a set of numbers, as Min finds it.
LEMMA MinIsLeast ==
  ASSUME NEW T \in SUBSET Nat, T # {}
  PROVE  Min(T) \in T /\ \A m \in T : Min(T) <= m
<1>1. \E n \in T : \A m \in T : n <= m
  BY Least
<1>2. QED
  BY <1>1 DEF Min

\* Places a to b of s hold other characters than c.
Without(s, c, a, b) == \A x \in a .. b : s[x] # c

\* q is the place the search for the character c finds from place b on.
FindsChar(s, c, b, q) ==
  \/ q = -1 /\ Without(s, c, b + 1, Len(s))
  \/ q \in b .. Len(s) - 1 /\ s[q + 1] = c /\ Without(s, c, b + 1, q)

\* The search for one character.
LEMMA FindChar ==
  ASSUME NEW C, NEW s \in Seq(C), NEW c, NEW b \in Nat,
         NEW key, NEW q, Len(key) = 1, key[1] = c, q = Find(s, key, b)
  PROVE  FindsChar(s, c, b, q)
<1> DEFINE T == {p \in b .. (Len(s) - Len(key)) : Occurs(s, key, p)}
<1>1. Len(s) \in Nat
  BY LenProperties
<1>2. T = {p \in b .. Len(s) - 1 : s[p + 1] = c}
  <2>1. ASSUME NEW p \in b .. Len(s) - 1
        PROVE  Occurs(s, key, p) <=> s[p + 1] = c
    BY <1>1, <2>1 DEF Occurs
  <2>2. QED
    BY <1>1, <2>1
<1>3. q = Lowest(T)
  BY DEF Find
<1> HIDE DEF T
<1>4. ASSUME NEW n \in 0 .. Len(s), \A r \in b .. n - 1 : r \notin T
      PROVE  Without(s, c, b + 1, n)
  <2>1. SUFFICES ASSUME NEW x \in b + 1 .. n PROVE s[x] # c
    BY DEF Without
  <2>2. x - 1 \in b .. n - 1 /\ x - 1 \in b .. Len(s) - 1 /\ (x - 1) + 1 = x
    BY <1>1
  <2>3. QED
    BY <1>2, <1>4, <2>2
<1>5. CASE T = {}
  <2>1. q = -1
    BY <1>3, <1>5 DEF Lowest
  <2>2. Len(s) \in 0 .. Len(s)
    BY <1>1
  <2>3. QED
    BY <1>4, <1>5, <2>1, <2>2 DEF FindsChar
<1>6. CASE T # {}
  <2>1. T \in SUBSET Nat
    BY <1>1, <1>2
  <2>2. q = Min(T)
    BY <1>3, <1>6 DEF Lowest
  <2>3. q \in T /\ \A m \in T : q <= m
    BY <1>6, <2>1, <2>2, MinIsLeast
  <2>4. q \in b .. Len(s) - 1 /\ s[q + 1] = c
    BY <1>2, <2>3
  <2>5. Without(s, c, b + 1, q)
    <3>1. q \in 0 .. Len(s) /\ \A r \in b .. q - 1 : r \notin T
      BY <1>1, <2>3, <2>4
    <3>2. QED
      BY <1>4, <3>1
  <2>6. QED
    BY <2>4, <2>5 DEF FindsChar
<1>7. QED
  BY <1>5, <1>6

\* Where the loop of split_str goes from the place p.
LEMMA FollowingChar ==
  ASSUME NEW C, NEW s \in Seq(C), NEW c, NEW p \in 0 .. Len(s),
         NEW key, NEW q, Len(key) = 1, key[1] = c, q = Following(s, key, p)
  PROVE  \/ q = -1 /\ Without(s, c, p + 2, Len(s))
         \/ q \in p + 1 .. Len(s) - 1 /\ s[q + 1] = c /\ Without(s, c, p + 2, q)
<1>1. Len(s) \in Nat
  BY LenProperties
<1>2. PICK b \in Nat : q = Find(s, key, b) /\ b = p + 1
  BY <1>1 DEF Following
<1>3. \/ q = -1 /\ Without(s, c, b + 1, Len(s))
      \/ q \in b .. Len(s) - 1 /\ s[q + 1] = c /\ Without(s, c, b + 1, q)
  <2>1. b \in Nat
    BY <1>1, <1>2
  <2>2. FindsChar(s, c, b, q)
    BY <1>2, <2>1, FindChar
  <2>3. QED
    BY <2>2 DEF FindsChar
<1>4. b + 1 = p + 2
  BY <1>2
<1>5. QED
  BY <1>2, <1>3, <1>4

-----------------------------------------------------------------------------
(* Lines of a text, by where they begin and end *)

\* ls are the pieces of s between the characters c from place beg[1] on.
CutAt(s, c, ls, beg, fin) ==
  /\ ls # <<>>
  /\ beg \in [1 .. Len(ls) -> 1 .. Len(s) + 1]
  /\ fin \in [1 .. Len(ls) -> 0 .. Len(s)]
  /\ fin[Len(ls)] = Len(s)
  /\ \A k \in 1 .. Len(ls) :
       /\ beg[k] <= fin[k] + 1
       /\ ls[k] = SubSeq(s, beg[k], fin[k])
       /\ Without(s, c, beg[k], fin[k])
  /\ \A k \in 1 .. Len(ls) - 1 : beg[k + 1] = fin[k] + 2 /\ s[fin[k] + 1] = c

\* The pieces are those from place a on.
IsCut(s, c, ls, a) == \E beg, fin : CutAt(s, c, ls, beg, fin) /\ beg[1] = a

LEMMA CutWhole ==
  ASSUME NEW C, NEW s \in Seq(C), NEW c, NEW a \in 1 .. Len(s) + 1, NEW ls,
         Without(s, c, a, Len(s)), ls = <<SubSeq(s, a, Len(s))>>
  PROVE  ls \in Seq(Seq(C)) /\ IsCut(s, c, ls, a)
<1> DEFINE beg == [k \in 1 .. 1 |-> a]
           fin == [k \in 1 .. 1 |-> Len(s)]
<1>1. Len(s) \in Nat
  BY LenProperties
<1>2. SubSeq(s, a, Len(s)) \in Seq(C)
  <2>1. a \in Nat \ {0} /\ Len(s) \in Int /\ Len(s) <= Len(s)
    BY <1>1
  <2>2. QED
    BY <2>1, Part
<1>3. ls \in Seq(Seq(C)) /\ ls # <<>> /\ Len(ls) = 1 /\ ls[1] = SubSeq(s, a, Len(s))
  BY <1>2
<1>4. /\ beg \in [1 .. 1 -> 1 .. Len(s) + 1] /\ fin \in [1 .. 1 -> 0 .. Len(s)]
      /\ beg[1] = a /\ fin[1] = Len(s)
  BY <1>1
<1> HIDE DEF beg, fin
<1>5. \A k \in 1 .. Len(ls) : k = 1
  BY <1>3
<1>6. \A k \in 1 .. Len(ls) - 1 : FALSE
  BY <1>3
<1>7. a <= Len(s) + 1
  BY <1>1
<1>8. CutAt(s, c, ls, beg, fin)
  BY <1>3, <1>4, <1>5, <1>6, <1>7 DEF CutAt
<1>9. QED
  BY <1>3, <1>4, <1>8 DEF IsCut

\* more is ls with the piece of s from a to q in front.
WithPiece(s, a, q, ls, more) == more = <<SubSeq(s, a, q)>> \o ls

\* A piece in front.
LEMMA CutMore ==
  ASSUME NEW C, NEW s \in Seq(C), NEW c, NEW ls \in Seq(Seq(C)),
         NEW a \in 1 .. Len(s) + 1, NEW q \in 0 .. Len(s), NEW n, NEW more,
         a <= q + 1, n = q + 2, IsCut(s, c, ls, n), s[q + 1] = c,
         Without(s, c, a, q), WithPiece(s, a, q, ls, more)
  PROVE  /\ more \in Seq(Seq(C)) /\ Len(more) = Len(ls) + 1
         /\ more[Len(more)] = ls[Len(ls)]
         /\ IsCut(s, c, more, a)
<1>16. PICK beg, fin : CutAt(s, c, ls, beg, fin) /\ beg[1] = q + 2
  BY DEF IsCut
<1>1. Len(s) \in Nat /\ Len(ls) \in Nat \ {0}
  BY <1>16, LenProperties, EmptySeq DEF CutAt
<1> DEFINE one == <<SubSeq(s, a, q)>>
<1>2. SubSeq(s, a, q) \in Seq(C)
  <2>1. a \in Nat \ {0} /\ q \in Int /\ q <= Len(s)
    BY <1>1
  <2>2. QED
    BY <2>1, Part
<1>3. one \in Seq(Seq(C)) /\ Len(one) = 1 /\ one[1] = SubSeq(s, a, q)
  BY <1>2
<1>0. more = one \o ls
  BY DEF WithPiece
<1> HIDE DEF one
<1>4. /\ more \in Seq(Seq(C)) /\ Len(more) = 1 + Len(ls)
      /\ \A k \in 1 .. 1 + Len(ls) : more[k] = IF k <= 1 THEN one[k] ELSE ls[k - 1]
  <2> DEFINE S == Seq(C)
  <2>1. one \in Seq(S) /\ ls \in Seq(S)
    BY <1>3
  <2> HIDE DEF S
  <2>2. /\ one \o ls \in Seq(S) /\ Len(one \o ls) = Len(one) + Len(ls)
        /\ \A k \in 1 .. Len(one) + Len(ls) :
              (one \o ls)[k] = IF k <= Len(one) THEN one[k] ELSE ls[k - Len(one)]
    BY <2>1, ConcatProperties
  <2>3. QED
    BY <1>0, <1>3, <2>2 DEF S
<1>5. PICK m \in Nat \ {0} : m = Len(ls) /\ Len(more) = m + 1
  BY <1>1, <1>4
<1> DEFINE b == [k \in 1 .. m + 1 |-> IF k = 1 THEN a ELSE beg[k - 1]]
           f == [k \in 1 .. m + 1 |-> IF k = 1 THEN q ELSE fin[k - 1]]
<1>6. /\ more[1] = SubSeq(s, a, q)
      /\ \A k \in 2 .. m + 1 : more[k] = ls[k - 1]
  <2>1. 1 + Len(ls) = m + 1 /\ 1 \in 1 .. m + 1
    BY <1>5
  <2>2. more[1] = one[1]
    BY <1>4, <2>1
  <2>3. ASSUME NEW k \in 2 .. m + 1 PROVE more[k] = ls[k - 1]
    <3>1. k \in 1 .. 1 + Len(ls) /\ ~(k <= 1)
      BY <2>1
    <3>2. more[k] = IF k <= 1 THEN one[k] ELSE ls[k - 1]
      BY <1>4, <3>1
    <3>3. QED
      BY <3>1, <3>2
  <2>4. QED
    BY <1>3, <2>2, <2>3
<1>7. /\ b \in [1 .. m + 1 -> 1 .. Len(s) + 1]
      /\ f \in [1 .. m + 1 -> 0 .. Len(s)]
  <2>1. SUFFICES ASSUME NEW k \in 1 .. m + 1
                 PROVE  b[k] \in 1 .. Len(s) + 1 /\ f[k] \in 0 .. Len(s)
    OBVIOUS
  <2>2. CASE k = 1
    BY <2>2
  <2>3. CASE k # 1
    <3>1. k - 1 \in 1 .. m
      BY <2>3
    <3>2. beg[k - 1] \in 1 .. Len(s) + 1 /\ fin[k - 1] \in 0 .. Len(s)
      BY <1>5, <1>16, <3>1 DEF CutAt
    <3>3. QED
      BY <2>3, <3>2
  <2>4. QED
    BY <2>2, <2>3
<1>8. /\ b[1] = a /\ f[1] = q
      /\ \A k \in 2 .. m + 1 : b[k] = beg[k - 1] /\ f[k] = fin[k - 1]
  OBVIOUS
<1> HIDE DEF b, f
<1>9. f[m + 1] = Len(s)
  <2>1. m + 1 \in 2 .. m + 1 /\ (m + 1) - 1 = m
    OBVIOUS
  <2>2. QED
    BY <1>5, <1>8, <1>16, <2>1 DEF CutAt
<1>10. ASSUME NEW k \in 1 .. m + 1
       PROVE  /\ b[k] <= f[k] + 1
              /\ more[k] = SubSeq(s, b[k], f[k])
              /\ Without(s, c, b[k], f[k])
  <2>1. CASE k = 1
    BY <1>6, <1>8, <2>1
  <2>2. CASE k # 1
    <3>1. k \in 2 .. m + 1 /\ k - 1 \in 1 .. m
      BY <2>2
    <3>2. QED
      BY <1>5, <1>6, <1>8, <1>16, <3>1 DEF CutAt
  <2>3. QED
    BY <2>1, <2>2
<1>11. ASSUME NEW k \in 1 .. m
       PROVE  b[k + 1] = f[k] + 2 /\ s[f[k] + 1] = c
  <2>1. CASE k = 1
    <3>1. 2 \in 2 .. m + 1 /\ k + 1 = 2 /\ 2 - 1 = 1
      BY <2>1
    <3>2. QED
      BY <1>8, <1>16, <2>1, <3>1
  <2>2. CASE k # 1
    <3>1. /\ k \in 2 .. m + 1 /\ k + 1 \in 2 .. m + 1 /\ (k + 1) - 1 = (k - 1) + 1
          /\ k - 1 \in 1 .. m - 1
      BY <2>2
    <3>2. beg[(k - 1) + 1] = fin[k - 1] + 2 /\ s[fin[k - 1] + 1] = c
      BY <1>5, <1>16, <3>1 DEF CutAt
    <3>3. b[k + 1] = beg[(k - 1) + 1] /\ f[k] = fin[k - 1]
      BY <1>8, <3>1
    <3>4. QED
      BY <3>2, <3>3
  <2>3. QED
    BY <2>1, <2>2
<1>12. more # <<>> /\ Len(more) - 1 = m
  BY <1>4, <1>5, EmptySeq
<1>13. CutAt(s, c, more, b, f)
  BY <1>5, <1>7, <1>9, <1>10, <1>11, <1>12 DEF CutAt
<1>14. more[Len(more)] = ls[Len(ls)]
  <2>1. m + 1 \in 2 .. m + 1 /\ (m + 1) - 1 = m
    OBVIOUS
  <2>2. QED
    BY <1>5, <1>6, <2>1
<1>15. QED
  BY <1>4, <1>5, <1>8, <1>13, <1>14 DEF IsCut

\* The equation of Rounds, for a function f in its place.
PieceBody(s, key, f, p) ==
  IF p < 0 THEN <<>>
  ELSE <<SubStr(s, p + Len(key),
                IF Following(s, key, p) < 0 THEN Len(s)
                ELSE Following(s, key, p) - p - Len(key))>> \o f[Following(s, key, p)]

PiecesFrom(s, key, f, b) ==
  /\ f = [p \in {-1} \cup (b .. Len(s)) |-> f[p]]
  /\ \A p \in {-1} \cup (b .. Len(s)) : f[p] = PieceBody(s, key, f, p)

LEMMA PiecesDefined ==
  ASSUME NEW C, NEW s \in Seq(C), NEW c, NEW key, Len(key) = 1, key[1] = c
  PROVE  \A p \in -1 .. Len(s) :
           Rounds(s, key)[p] = PieceBody(s, key, Rounds(s, key), p)
<1>1. PICK N \in Nat : N = Len(s)
  BY LenProperties
<1> DEFINE Bad == {k \in 0 .. N + 1 : ~\E f : PiecesFrom(s, key, f, N + 1 - k)}
<1>2. Bad = {}
  <2> SUFFICES ASSUME Bad # {} PROVE FALSE
    OBVIOUS
  <2>1. Bad \in SUBSET Nat
    OBVIOUS
  <2>2. PICK k \in Bad : \A m \in Bad : k <= m
    BY <2>1, Least
  <2>3. k \in 0 .. N + 1 /\ ~\E f : PiecesFrom(s, key, f, N + 1 - k)
    BY <2>2
  <2>4. CASE k = 0
    <3> DEFINE f == [p \in {-1} |-> PieceBody(s, key, <<>>, p)]
    <3>1. {-1} \cup (N + 1 .. N) = {-1}
      OBVIOUS
    <3>2. f = [p \in {-1} |-> f[p]] /\ f[-1] = PieceBody(s, key, <<>>, -1)
      OBVIOUS
    <3> HIDE DEF f
    <3>3. f[-1] = PieceBody(s, key, f, -1)
      BY <3>2 DEF PieceBody
    <3>4. PiecesFrom(s, key, f, N + 1)
      BY <1>1, <3>1, <3>2, <3>3 DEF PiecesFrom
    <3>5. N + 1 - k = N + 1
      BY <2>4
    <3>6. QED
      BY <2>3, <3>4, <3>5
  <2>5. CASE k # 0
    <3>1. k - 1 \in 0 .. N + 1 /\ k - 1 \notin Bad
      <4> HIDE DEF Bad
      <4>1. QED
        BY <2>2, <2>3, <2>5
    <3>2. PICK g : PiecesFrom(s, key, g, N + 1 - (k - 1))
      BY <3>1
    <3>3. PICK b \in 0 .. N : b = N + 1 - k /\ b + 1 = N + 1 - (k - 1)
      BY <2>3, <2>5
    <3> DEFINE D == {-1} \cup (b .. N)
               h == [p \in D |-> IF p = b THEN PieceBody(s, key, g, b) ELSE g[p]]
    <3>4. ASSUME NEW p \in D PROVE h[p] = PieceBody(s, key, h, p)
      <4>1. h[p] = PieceBody(s, key, g, p)
        <5>1. CASE p = b
          BY <5>1
        <5>2. CASE p # b
          <6>1. p \in {-1} \cup (b + 1 .. N)
            BY <5>2
          <6>2. QED
            BY <1>1, <3>2, <3>3, <5>2, <6>1 DEF PiecesFrom
        <5>3. QED
          BY <5>1, <5>2
      <4>2. CASE p < 0
        <5> HIDE DEF h
        <5>1. QED
          BY <4>1, <4>2 DEF PieceBody
      <4>3. CASE ~(p < 0)
        <5>1. p \in b .. N /\ p \in 0 .. Len(s)
          BY <1>1, <4>3
        <5>2. PICK q : q = Following(s, key, p)
          OBVIOUS
        <5>3. q = -1 \/ q \in p + 1 .. Len(s) - 1
          BY <5>1, <5>2, FollowingChar
        <5>4. q \in D /\ q # b
          BY <1>1, <5>1, <5>3
        <5>5. g[q] = h[q]
          BY <5>4
        <5> HIDE DEF h
        <5>6. QED
          BY <4>1, <4>3, <5>2, <5>5 DEF PieceBody
      <4>4. QED
        <5>1. p < 0 \/ ~(p < 0)
          OBVIOUS
        <5>2. QED
          BY <4>2, <4>3, <5>1
    <3>5. PiecesFrom(s, key, h, b)
      <4>1. h = [p \in D |-> h[p]]
        OBVIOUS
      <4> HIDE DEF h
      <4>2. QED
        BY <1>1, <3>4, <4>1 DEF PiecesFrom
    <3>6. QED
      BY <2>3, <3>3, <3>5
  <2>6. QED
    BY <2>4, <2>5
<1>3. PICK f : PiecesFrom(s, key, f, 0)
  <2>1. N + 1 \in 0 .. N + 1 /\ N + 1 - (N + 1) = 0
    OBVIOUS
  <2>2. QED
    BY <1>2, <2>1
<1>4. {-1} \cup (0 .. N) = -1 .. N
  OBVIOUS
<1>5. f = [p \in -1 .. N |-> PieceBody(s, key, f, p)]
  BY <1>1, <1>3, <1>4 DEF PiecesFrom
<1>6. Rounds(s, key) = [p \in -1 .. N |-> PieceBody(s, key, Rounds(s, key), p)]
  BY <1>1, <1>5 DEF Rounds, PieceBody
<1>7. QED
  BY <1>1, <1>6

\* The same for LastRound.
LastBody(s, key, f, p) ==
  IF p < 0 THEN -1
  ELSE IF Following(s, key, p) < 0 THEN p ELSE f[Following(s, key, p)]

LastFrom(s, key, f, b) ==
  /\ f = [p \in {-1} \cup (b .. Len(s)) |-> f[p]]
  /\ \A p \in {-1} \cup (b .. Len(s)) : f[p] = LastBody(s, key, f, p)

LEMMA LastDefined ==
  ASSUME NEW C, NEW s \in Seq(C), NEW c, NEW key, Len(key) = 1, key[1] = c
  PROVE  \A p \in -1 .. Len(s) :
           LastRound(s, key)[p] = LastBody(s, key, LastRound(s, key), p)
<1>1. PICK N \in Nat : N = Len(s)
  BY LenProperties
<1> DEFINE Bad == {k \in 0 .. N + 1 : ~\E f : LastFrom(s, key, f, N + 1 - k)}
<1>2. Bad = {}
  <2> SUFFICES ASSUME Bad # {} PROVE FALSE
    OBVIOUS
  <2>1. Bad \in SUBSET Nat
    OBVIOUS
  <2>2. PICK k \in Bad : \A m \in Bad : k <= m
    BY <2>1, Least
  <2>3. k \in 0 .. N + 1 /\ ~\E f : LastFrom(s, key, f, N + 1 - k)
    BY <2>2
  <2>4. CASE k = 0
    <3> DEFINE f == [p \in {-1} |-> LastBody(s, key, <<>>, p)]
    <3>1. {-1} \cup (N + 1 .. N) = {-1}
      OBVIOUS
    <3>2. f = [p \in {-1} |-> f[p]] /\ f[-1] = LastBody(s, key, <<>>, -1)
      OBVIOUS
    <3> HIDE DEF f
    <3>3. f[-1] = LastBody(s, key, f, -1)
      BY <3>2 DEF LastBody
    <3>4. LastFrom(s, key, f, N + 1)
      BY <1>1, <3>1, <3>2, <3>3 DEF LastFrom
    <3>5. N + 1 - k = N + 1
      BY <2>4
    <3>6. QED
      BY <2>3, <3>4, <3>5
  <2>5. CASE k # 0
    <3>1. k - 1 \in 0 .. N + 1 /\ k - 1 \notin Bad
      <4> HIDE DEF Bad
      <4>1. QED
        BY <2>2, <2>3, <2>5
    <3>2. PICK g : LastFrom(s, key, g, N + 1 - (k - 1))
      BY <3>1
    <3>3. PICK b \in 0 .. N : b = N + 1 - k /\ b + 1 = N + 1 - (k - 1)
      BY <2>3, <2>5
    <3> DEFINE D == {-1} \cup (b .. N)
               h == [p \in D |-> IF p = b THEN LastBody(s, key, g, b) ELSE g[p]]
    <3>4. ASSUME NEW p \in D PROVE h[p] = LastBody(s, key, h, p)
      <4>1. h[p] = LastBody(s, key, g, p)
        <5>1. CASE p = b
          BY <5>1
        <5>2. CASE p # b
          <6>1. p \in {-1} \cup (b + 1 .. N)
            BY <5>2
          <6>2. QED
            BY <1>1, <3>2, <3>3, <5>2, <6>1 DEF LastFrom
        <5>3. QED
          BY <5>1, <5>2
      <4>2. CASE p < 0
        <5> HIDE DEF h
        <5>1. QED
          BY <4>1, <4>2 DEF LastBody
      <4>3. CASE ~(p < 0)
        <5>1. p \in b .. N /\ p \in 0 .. Len(s)
          BY <1>1, <4>3
        <5>2. PICK q : q = Following(s, key, p)
          OBVIOUS
        <5>3. q = -1 \/ q \in p + 1 .. Len(s) - 1
          BY <5>1, <5>2, FollowingChar
        <5>4. q \in D /\ q # b
          BY <1>1, <5>1, <5>3
        <5>5. g[q] = h[q]
          BY <5>4
        <5> HIDE DEF h
        <5>6. QED
          BY <4>1, <4>3, <5>2, <5>5 DEF LastBody
      <4>4. QED
        <5>1. p < 0 \/ ~(p < 0)
          OBVIOUS
        <5>2. QED
          BY <4>2, <4>3, <5>1
    <3>5. LastFrom(s, key, h, b)
      <4>1. h = [p \in D |-> h[p]]
        OBVIOUS
      <4> HIDE DEF h
      <4>2. QED
        BY <1>1, <3>4, <4>1 DEF LastFrom
    <3>6. QED
      BY <2>3, <3>3, <3>5
  <2>6. QED
    BY <2>4, <2>5
<1>3. PICK f : LastFrom(s, key, f, 0)
  <2>1. N + 1 \in 0 .. N + 1 /\ N + 1 - (N + 1) = 0
    OBVIOUS
  <2>2. QED
    BY <1>2, <2>1
<1>4. {-1} \cup (0 .. N) = -1 .. N
  OBVIOUS
<1>5. f = [p \in -1 .. N |-> LastBody(s, key, f, p)]
  BY <1>1, <1>3, <1>4 DEF LastFrom
<1>6. LastRound(s, key) = [p \in -1 .. N |-> LastBody(s, key, LastRound(s, key), p)]
  BY <1>1, <1>5 DEF LastRound, LastBody
<1>7. QED
  BY <1>1, <1>6

\* What the rounds from p on find are the pieces behind p, and the loop stops
\* at the last character c.
RoundIsCut(C, s, c, key, p) ==
  LET ls == Rounds(s, key)[p]
      last == LastRound(s, key)[p]
  IN  /\ ls \in Seq(Seq(C))
      /\ IsCut(s, c, ls, p + 2)
      /\ last \in p .. Len(s) - 1
      /\ Len(ls[Len(ls)]) = Len(s) - last - 1

LEMMA RoundsCut ==
  ASSUME NEW C, NEW s \in Seq(C), NEW c, NEW key, Len(key) = 1, key[1] = c
  PROVE  \A p \in 0 .. Len(s) - 1 : RoundIsCut(C, s, c, key, p)
<1>1. PICK N \in Nat : N = Len(s)
  BY LenProperties
<1> DEFINE Bad == {k \in 1 .. N : ~RoundIsCut(C, s, c, key, N - k)}
<1>2. ASSUME NEW k \in Bad, \A m \in Bad : k <= m PROVE FALSE
  <2>0. k \in 1 .. N
    OBVIOUS
  <2>1. PICK p \in 0 .. N - 1 : p = N - k /\ k \in 1 .. N
    <3> HIDE DEF Bad
    <3>1. N - k \in 0 .. N - 1
      BY <2>0
    <3>2. QED
      BY <2>0, <3>1
  <2>2. ~RoundIsCut(C, s, c, key, p)
    BY <2>1
  <2>3. PICK q : q = Following(s, key, p)
    OBVIOUS
  <2>4. p \in 0 .. Len(s) /\ p \in -1 .. Len(s) /\ ~(p < 0) /\ Len(key) = 1
    BY <1>1, <2>1
  <2>5. \/ q = -1 /\ Without(s, c, p + 2, N)
        \/ q \in p + 1 .. N - 1 /\ s[q + 1] = c /\ Without(s, c, p + 2, q)
    <3>1. \/ q = -1 /\ Without(s, c, p + 2, Len(s))
          \/ /\ q \in p + 1 .. Len(s) - 1 /\ s[q + 1] = c
             /\ Without(s, c, p + 2, q)
      BY <2>3, <2>4, FollowingChar
    <3>2. QED
      BY <1>1, <3>1
  <2> DEFINE P == Rounds(s, key)
             L == LastRound(s, key)
  <2>6. /\ P[p] = PieceBody(s, key, P, p)
        /\ L[p] = LastBody(s, key, L, p)
    BY <2>4, PiecesDefined, LastDefined
  <2> HIDE DEF P, L
  <2>7. CASE q = -1
    <3>1. SubStr(s, p + 1, N) = SubSeq(s, p + 2, N)
      <4>1. p + 1 + N > N /\ (p + 1) + 1 = p + 2
        BY <2>1
      <4>2. QED
        BY <1>1, <4>1 DEF SubStr
    <3>2. P[-1] = <<>>
      <4>1. PICK m \in -1 .. Len(s) : m = -1
        BY <1>1
      <4>2. P[m] = PieceBody(s, key, P, m)
        BY PiecesDefined DEF P
      <4>3. QED
        BY <4>1, <4>2 DEF PieceBody
    <3>3. P[p] = <<SubSeq(s, p + 2, N)>> /\ L[p] = p
      <4>1. /\ P[p] = <<SubStr(s, p + 1, N)>> \o P[-1]
            /\ L[p] = p
        BY <1>1, <2>3, <2>4, <2>6, <2>7 DEF PieceBody, LastBody
      <4> DEFINE one == <<SubStr(s, p + 1, N)>>
                 S == {SubStr(s, p + 1, N)}
      <4>2. one \in Seq(S)
        OBVIOUS
      <4> HIDE DEF one, S
      <4>3. one \o <<>> = one
        BY <4>2, ConcatEmptySeq
      <4>4. QED
        BY <3>1, <3>2, <4>1, <4>3 DEF one
    <3>4. PICK a \in 1 .. Len(s) + 1 : a = p + 2
      <4>1. p + 2 \in 1 .. Len(s) + 1
        BY <1>1, <2>1
      <4>2. QED
        BY <4>1
    <3>5. P[p] \in Seq(Seq(C)) /\ IsCut(s, c, P[p], a)
      <4>1. P[p] = <<SubSeq(s, a, Len(s))>> /\ Without(s, c, a, Len(s))
        BY <1>1, <2>1, <2>5, <2>7, <3>3, <3>4
      <4>2. QED
        BY <4>1, CutWhole
    <3>6. Len(P[p][Len(P[p])]) = N - p - 1
      <4>1. Len(P[p]) = 1 /\ P[p][1] = SubSeq(s, p + 2, N)
        BY <3>3
      <4>2. Len(SubSeq(s, p + 2, N)) = IF p + 2 <= N THEN N - (p + 2) + 1 ELSE 0
        <5>1. p + 2 \in Nat \ {0} /\ N \in Int /\ N <= Len(s)
          BY <1>1, <2>1
        <5>2. QED
          BY <5>1, Part
      <4>3. QED
        BY <2>1, <4>1, <4>2
    <3>7. RoundIsCut(C, s, c, key, p)
      BY <1>1, <2>1, <3>3, <3>4, <3>5, <3>6 DEF RoundIsCut, P, L
    <3>8. QED
      BY <2>2, <3>7
  <2>8. CASE q # -1
    <3>1. /\ q \in p + 1 .. N - 1 /\ s[q + 1] = c /\ Without(s, c, p + 2, q)
          /\ q \in 0 .. N - 1
      BY <2>1, <2>5, <2>8
    <3>2. SubStr(s, p + 1, q - p - 1) = SubSeq(s, p + 2, q)
      <4>1. /\ ~(p + 1 + (q - p - 1) > N) /\ p + 1 + (q - p - 1) = q
            /\ (p + 1) + 1 = p + 2
        BY <2>1, <3>1
      <4>2. QED
        BY <1>1, <4>1 DEF SubStr
    <3>3. P[p] = <<SubSeq(s, p + 2, q)>> \o P[q] /\ L[p] = L[q]
      <4>1. ~(q < 0)
        BY <3>1
      <4>2. P[p] = <<SubStr(s, p + 1, q - p - 1)>> \o P[q] /\ L[p] = L[q]
        BY <2>3, <2>4, <2>6, <4>1 DEF PieceBody, LastBody
      <4>3. QED
        BY <3>2, <4>2
    <3>4. RoundIsCut(C, s, c, key, q)
      <4>1. N - q \in 1 .. N /\ N - q < k /\ N - (N - q) = q
        BY <2>1, <3>1
      <4>2. N - q \notin Bad
        <5> HIDE DEF Bad
        <5>1. QED
          BY <1>2, <2>1, <4>1
      <4>3. QED
        BY <4>1, <4>2
    <3>5. IsCut(s, c, P[q], q + 2)
      BY <3>4 DEF RoundIsCut, P
    <3>6. /\ P[q] \in Seq(Seq(C)) /\ L[q] \in q .. N - 1
          /\ Len(P[q][Len(P[q])]) = N - L[q] - 1
      BY <1>1, <3>4 DEF RoundIsCut, P, L
    <3>7. PICK a \in 1 .. Len(s) + 1 : a = p + 2 /\ a <= q + 1
      BY <1>1, <2>1, <3>1
    <3>8. q \in 0 .. Len(s)
      BY <1>1, <3>1
    <3>9. /\ P[p] \in Seq(Seq(C)) /\ P[p][Len(P[p])] = P[q][Len(P[q])]
          /\ IsCut(s, c, P[p], a)
      <4>1. PICK ls \in Seq(Seq(C)) : ls = P[q]
        BY <3>6
      <4>2. PICK more : more = <<SubSeq(s, a, q)>> \o ls /\ more = P[p]
        BY <3>3, <3>7, <4>1
      <4>3. IsCut(s, c, ls, q + 2) /\ Without(s, c, a, q)
        BY <3>1, <3>5, <3>7, <4>1
      <4>4. /\ more \in Seq(Seq(C)) /\ more[Len(more)] = ls[Len(ls)]
            /\ IsCut(s, c, more, a)
        <5>1. PICK n : n = q + 2 /\ IsCut(s, c, ls, n)
          BY <4>3
        <5>2. /\ WithPiece(s, a, q, ls, more) /\ IsCut(s, c, ls, n)
              /\ Without(s, c, a, q) /\ a \in 1 .. Len(s) + 1 /\ a <= q + 1
              /\ s[q + 1] = c /\ q \in 0 .. Len(s) /\ ls \in Seq(Seq(C))
              /\ n = q + 2
          BY <3>1, <3>7, <3>8, <4>2, <4>3, <5>1 DEF WithPiece
        <5>3. QED
          BY <5>2, CutMore
      <4>5. QED
        BY <4>1, <4>2, <4>4
    <3>10. L[p] \in p .. N - 1 /\ Len(P[p][Len(P[p])]) = N - L[p] - 1
      <4>1. L[p] \in q .. N - 1 /\ Len(P[p][Len(P[p])]) = N - L[p] - 1
        BY <3>3, <3>6, <3>9
      <4>2. QED
        BY <2>1, <3>1, <4>1
    <3>11. RoundIsCut(C, s, c, key, p)
      BY <1>1, <3>7, <3>9, <3>10 DEF RoundIsCut, P, L
    <3>12. QED
      BY <2>2, <3>11
  <2>9. QED
    BY <2>7, <2>8
<1>3. Bad = {}
  <2>1. Bad \in SUBSET Nat
    BY <1>1
  <2>2. QED
    BY <1>2, <2>1, Least
<1>4. SUFFICES ASSUME NEW p \in 0 .. N - 1 PROVE RoundIsCut(C, s, c, key, p)
  BY <1>1
<1>5. N - p \in 1 .. N /\ N - (N - p) = p
  BY <1>1
<1>6. QED
  BY <1>3, <1>5

\* split_str cuts a text at every character c, and drops an empty first piece.
LEMMA SplitIsCut ==
  ASSUME NEW C, NEW s \in Seq(C), NEW c, NEW key, NEW ls,
         s # <<>>, Len(key) = 1, key[1] = c, ls = split_str(s, key)
  PROVE  /\ ls \in Seq(Seq(C))
         /\ IsCut(s, c, ls, 1) \/ (IsCut(s, c, ls, 2) /\ s[1] = c)
<1>1. PICK N \in Nat \ {0} : N = Len(s)
  BY EmptySeq
<1>2. PICK q : q = Find(s, key, 0)
  OBVIOUS
<1>3. \/ q = -1 /\ Without(s, c, 1, N)
      \/ q \in 0 .. N - 1 /\ s[q + 1] = c /\ Without(s, c, 1, q)
  <2>1. \/ q = -1 /\ Without(s, c, 0 + 1, Len(s))
        \/ q \in 0 .. Len(s) - 1 /\ s[q + 1] = c /\ Without(s, c, 0 + 1, q)
    BY <1>2, FindChar DEF FindsChar
  <2>2. QED
    BY <1>1, <2>1
<1> DEFINE pieces == Leading(s, key) \o Rounds(s, key)[q]
<1>4. ls = pieces \o Trailing(s, key, pieces)
  BY <1>2 DEF split_str
<1>5. CASE q = -1
  <2>1. PICK m \in -1 .. Len(s) : m = -1
    BY <1>1
  <2>2. Rounds(s, key)[-1] = <<>> /\ LastRound(s, key)[-1] = -1
    <3>1. /\ Rounds(s, key)[m] = PieceBody(s, key, Rounds(s, key), m)
          /\ LastRound(s, key)[m] = LastBody(s, key, LastRound(s, key), m)
      BY PiecesDefined, LastDefined
    <3>2. QED
      BY <2>1, <3>1 DEF PieceBody, LastBody
  <2>3. pieces = <<>>
    <3>1. Leading(s, key) = <<>>
      BY <1>2, <1>5 DEF Leading
    <3>2. QED
      BY <1>5, <2>2, <3>1
  <2>4. Trailing(s, key, <<>>) = <<SubStr(s, 0, N)>>
    <3>1. -1 + 0 < Len(s) - 1 /\ -1 + Len(key) = 0
      BY <1>1
    <3>2. QED
      BY <1>1, <1>2, <1>5, <2>2, <3>1 DEF Trailing
  <2>5. SubStr(s, 0, N) = SubSeq(s, 1, N)
    BY <1>1 DEF SubStr
  <2>6. ls = <<SubSeq(s, 1, N)>>
    BY <1>4, <2>3, <2>4, <2>5
  <2>7. 1 \in 1 .. Len(s) + 1 /\ Without(s, c, 1, Len(s)) /\ ls = <<SubSeq(s, 1, Len(s))>>
    BY <1>1, <1>3, <1>5, <2>6
  <2>8. QED
    BY <2>7, CutWhole
<1>6. CASE q # -1
  <2>1. q \in 0 .. N - 1 /\ s[q + 1] = c /\ Without(s, c, 1, q)
    BY <1>3, <1>6
  <2>2. RoundIsCut(C, s, c, key, q)
    BY <1>1, <2>1, RoundsCut
  <2>3. PICK rest \in Seq(Seq(C)), last \in q .. N - 1 :
          /\ rest = Rounds(s, key)[q] /\ last = LastRound(s, key)[q]
          /\ IsCut(s, c, rest, q + 2)
          /\ Len(rest[Len(rest)]) = N - last - 1
    BY <1>1, <2>2 DEF RoundIsCut
  <2>4. /\ pieces \in Seq(Seq(C)) /\ pieces # <<>>
        /\ Len(pieces[Len(pieces)]) = N - last - 1
        /\ IsCut(s, c, pieces, 1) \/ (IsCut(s, c, pieces, 2) /\ s[1] = c)
    <3>1. CASE q = 0
      <4>1. Leading(s, key) = <<>>
        BY <1>2, <3>1 DEF Leading
      <4>2. pieces = rest
        <5> DEFINE S == Seq(C)
        <5>1. rest \in Seq(S)
          OBVIOUS
        <5> HIDE DEF S
        <5>2. <<>> \o rest = rest
          BY <5>1, ConcatEmptySeq
        <5>3. QED
          BY <2>3, <4>1, <5>2
      <4>3. rest # <<>>
        BY <2>3 DEF IsCut, CutAt
      <4>4. QED
        BY <2>1, <2>3, <3>1, <4>2, <4>3
    <3>2. CASE q # 0
      <4>1. q > 0 /\ q \in 0 .. Len(s) /\ 1 <= q + 1 /\ 1 \in 1 .. Len(s) + 1
        BY <1>1, <2>1, <3>2
      <4>2. Leading(s, key) = <<SubSeq(s, 1, q)>>
        <5>1. SubStr(s, 0, q) = SubSeq(s, 1, q)
          <6>1. ~(0 + q > Len(s)) /\ 0 + q = q /\ 0 + 1 = 1
            BY <1>1, <2>1
          <6>2. QED
            BY <6>1 DEF SubStr
        <5>2. QED
          BY <1>2, <4>1, <5>1 DEF Leading
      <4>3. IsCut(s, c, rest, q + 2)
        BY <2>3
      <4>4. PICK more : more = pieces /\ more = <<SubSeq(s, 1, q)>> \o rest
        BY <2>3, <4>2
      <4>5. /\ more \in Seq(Seq(C)) /\ more[Len(more)] = rest[Len(rest)]
            /\ IsCut(s, c, more, 1)
        <5>1. PICK a, n : a = 1 /\ n = q + 2
          OBVIOUS
        <5>2. /\ WithPiece(s, a, q, rest, more) /\ IsCut(s, c, rest, n)
              /\ Without(s, c, a, q) /\ a \in 1 .. Len(s) + 1 /\ a <= q + 1
              /\ s[q + 1] = c /\ q \in 0 .. Len(s) /\ rest \in Seq(Seq(C))
              /\ n = q + 2
          BY <2>1, <4>1, <4>3, <4>4, <5>1 DEF WithPiece
        <5>3. /\ more \in Seq(Seq(C)) /\ more[Len(more)] = rest[Len(rest)]
              /\ IsCut(s, c, more, a)
          BY <5>2, CutMore
        <5>4. QED
          BY <5>1, <5>3
      <4>6. more # <<>>
        BY <4>5 DEF IsCut, CutAt
      <4>7. QED
        BY <2>3, <4>4, <4>5, <4>6
    <3>3. QED
      BY <3>1, <3>2
  <2> HIDE DEF pieces
  <2>5. Trailing(s, key, pieces) = <<>>
    <3>1. ~(last + (N - last - 1) < N - 1)
      BY <2>1, <2>3
    <3>2. QED
      BY <1>1, <1>2, <2>3, <2>4, <3>1 DEF Trailing
  <2>6. ls = pieces
    <3> DEFINE S == Seq(C)
    <3>1. pieces \in Seq(S)
      BY <2>4
    <3> HIDE DEF S
    <3>2. pieces \o <<>> = pieces
      BY <3>1, ConcatEmptySeq
    <3>3. QED
      BY <1>4, <2>5, <3>2
  <2>7. QED
    BY <2>4, <2>6
<1>7. QED
  BY <1>5, <1>6
-----------------------------------------------------------------------------
(* ini_config (IniConfig): the types                                        *)

\* The greatest of a set of places, as Max finds it.
LEMMA MaxIsGreatest ==
  ASSUME NEW N \in Nat, NEW T \in SUBSET (1 .. N), T # {}
  PROVE  Max(T) \in T /\ \A m \in T : m <= Max(T)
<1> DEFINE U == {N - m : m \in T}
<1>1. U \in SUBSET Nat /\ U # {}
  <2>1. ASSUME NEW m \in T PROVE N - m \in Nat
    <3>1. m \in 1 .. N
      OBVIOUS
    <3>2. QED
      BY <3>1
  <2>2. QED
    BY <2>1
<1>2. PICK u \in U : \A v \in U : u <= v
  <2> HIDE DEF U
  <2>1. QED
    BY <1>1, Least
<1>3. PICK n \in T : u = N - n
  OBVIOUS
<1>4. ASSUME NEW m \in T PROVE m <= n
  <2>1. N - m \in U /\ m \in 1 .. N /\ n \in 1 .. N
    OBVIOUS
  <2>2. u <= N - m
    BY <1>2, <2>1
  <2>3. QED
    BY <1>3, <2>1, <2>2
<1>5. \E x \in T : \A m \in T : x >= m
  <2>1. \A m \in T : m \in Int
    OBVIOUS
  <2>2. QED
    BY <1>4, <2>1
<1>6. Max(T) \in T /\ \A m \in T : Max(T) >= m
  BY <1>5 DEF Max
<1>7. QED
  BY <1>6

\* trim cuts off the ends only.
LEMMA Trimmed ==
  ASSUME NEW C, NEW s \in Seq(C), NEW c
  PROVE  trim(s, c) \in Seq(C)
<1> DEFINE kept == {p \in 1 .. Len(s) : s[p] # c}
<1>1. PICK N \in Nat : N = Len(s)
  BY LenProperties
<1>2. CASE kept = {}
  <2>1. trim(s, c) = <<>>
    BY <1>2 DEF trim
  <2>2. QED
    BY <2>1
<1>3. CASE kept # {}
  <2>1. trim(s, c) = SubSeq(s, Min(kept), Max(kept))
    BY <1>3 DEF trim
  <2>2. kept \in SUBSET (1 .. N) /\ kept \in SUBSET Nat
    BY <1>1
  <2> HIDE DEF kept
  <2>3. PICK a \in kept, b \in kept : a = Min(kept) /\ b = Max(kept)
    BY <1>3, <2>2, MinIsLeast, MaxIsGreatest
  <2>4. a \in Nat \ {0} /\ b \in Int /\ b <= Len(s)
    BY <1>1, <2>2
  <2>5. SubSeq(s, a, b) \in Seq(C)
    BY <2>4, Part
  <2>6. QED
    BY <2>1, <2>3, <2>5
<1>4. QED
  BY <1>2, <1>3

\* substr is a part.
LEMMA SubStrPart ==
  ASSUME NEW C, NEW s \in Seq(C), NEW p \in Nat, NEW l \in Int
  PROVE  SubStr(s, p, l) \in Seq(C)
<1>1. PICK e \in Int : /\ e <= Len(s) /\ SubStr(s, p, l) = SubSeq(s, p + 1, e)
  <2>1. Len(s) \in Nat
    BY LenProperties
  <2>2. QED
    BY <2>1 DEF SubStr
<1>2. p + 1 \in Nat \ {0}
  OBVIOUS
<1>3. QED
  BY <1>1, <1>2, Part

\* The text of one character, as the parser writes it.
LEMMA OneChar ==
  ASSUME NEW c
  PROVE  Len(<<c>>) = 1 /\ <<c>>[1] = c
OBVIOUS

\* The lines of a text.
LEMMA LinesTyped ==
  ASSUME NEW C, NEW s \in Seq(C)
  PROVE  split_str(s, <<"\n">>) \in Seq(Seq(C))
<1>1. CASE s = <<>>
  BY <1>1 DEF split_str
<1>2. CASE s # <<>>
  <2>1. PICK key, ls : /\ key = <<"\n">> /\ Len(key) = 1 /\ key[1] = "\n"
                       /\ ls = split_str(s, key)
    BY OneChar
  <2>2. ls \in Seq(Seq(C))
    BY <1>2, <2>1, SplitIsCut
  <2>3. QED
    BY <2>1, <2>2
<1>3. QED
  BY <1>1, <1>2

\* What a line that is not ignored defines.
LEMMA DefinitionTyped ==
  ASSUME NEW C, NEW line \in Seq(C), ~Ignored(line)
  PROVE  Definition(line) \in [name : Seq(C), value : Seq(C)]
<1> DEFINE nline == trim(line, " ")
           pos == Find(nline, <<"=">>, 0)
<1>1. nline \in Seq(C)
  BY Trimmed
<1>2. Len(nline) \in Nat
  BY <1>1, LenProperties
<1>3. pos \in Nat
  <2>1. PICK t \in Seq(C) : t = nline
    BY <1>1
  <2>2. PICK key, q : /\ key = <<"=">> /\ Len(key) = 1 /\ key[1] = "="
                      /\ q = Find(t, key, 0)
    BY OneChar
  <2>3. q = -1 \/ q \in 0 .. Len(t) - 1
    BY <2>2, FindChar DEF FindsChar
  <2>4. ~(pos < 0)
    BY DEF Ignored
  <2>5. q = pos
    BY <2>1, <2>2
  <2> HIDE DEF nline, pos
  <2>6. QED
    BY <1>2, <2>1, <2>3, <2>4, <2>5
<1>4. /\ trim(SubStr(nline, 0, pos), " ") \in Seq(C)
      /\ trim(SubStr(nline, pos + 1, Len(nline)), " ") \in Seq(C)
  <2> HIDE DEF nline, pos
  <2>1. pos \in Int /\ pos + 1 \in Nat /\ Len(nline) \in Int /\ 0 \in Nat
    BY <1>2, <1>3
  <2>2. /\ SubStr(nline, 0, pos) \in Seq(C)
        /\ SubStr(nline, pos + 1, Len(nline)) \in Seq(C)
    BY <1>1, <2>1, SubStrPart
  <2>3. QED
    BY <2>2, Trimmed
<1>5. QED
  BY <1>4 DEF Definition

\* lines are those of content, once the file is read.
IniInv ==
  /\ IniTypeOK
  /\ stage \in {"parse", "ready"} => lines = split_str(content, <<"\n">>)
  /\ stage = "read" => lines = <<>>

LEMMA IniStarts == IniInit => IniInv
<1>1. \A f \in Files : f \in Seq(FileChar)
  BY IniAssumption, SeqDef DEF Files
<1>2. QED
  BY <1>1 DEF IniInit, IniInv, IniTypeOK

LEMMA IniStep == IniInv /\ [IniNext]_iniVars => IniInv'
<1> SUFFICES ASSUME IniInv, [IniNext]_iniVars PROVE IniInv'
  OBVIOUS
<1>1. IniTypeOK /\ Len(lines) \in Nat
  BY LenProperties DEF IniInv, IniTypeOK
<1>2. CASE OpenFails
  BY <1>2 DEF OpenFails, IniInv, IniTypeOK
<1>3. CASE Read
  <2>1. content' \in Seq(FileChar) /\ lines' = split_str(content', <<"\n">>)
    <3>1. /\ content' \in {content, <<>>} /\ content \in Seq(FileChar)
          /\ lines' = split_str(content', <<"\n">>)
      BY <1>1, <1>3 DEF Read, IniTypeOK
    <3>2. <<>> \in Seq(FileChar)
      OBVIOUS
    <3>3. content' = content \/ content' = <<>>
      BY <3>1
    <3>4. content' \in Seq(FileChar)
      BY <3>1, <3>2, <3>3
    <3>5. QED
      BY <3>1, <3>4
  <2>2. lines' \in Seq(Seq(FileChar))
    BY <2>1, LinesTyped
  <2>3. next' = 1 /\ map' = map /\ stage' = "parse"
    <3>1. next = 1
      <4>1. lines = <<>> /\ next \in 1 .. Len(lines) + 1
        BY <1>3 DEF Read, IniInv, IniTypeOK
      <4>2. QED
        BY <4>1
    <3>2. QED
      BY <1>3, <3>1 DEF Read
  <2>4. QED
    BY <1>1, <2>1, <2>2, <2>3 DEF IniInv, IniTypeOK
<1>4. CASE ParseLine
  <2>1. /\ stage = "parse" /\ next <= Len(lines) /\ next' = next + 1
        /\ UNCHANGED <<stage, content, lines>>
    BY <1>4 DEF ParseLine
  <2>2. map' \subseteq [name : Seq(FileChar) \ {<<>>}, value : Seq(FileChar) \ {<<>>}]
    <3>1. CASE Ignored(lines[next])
      BY <1>1, <1>4, <3>1 DEF ParseLine, IniTypeOK
    <3>2. CASE ~Ignored(lines[next])
      <4>1. next \in 1 .. Len(lines)
        BY <1>1, <2>1 DEF IniTypeOK
      <4>2. lines[next] \in Seq(FileChar)
        BY <1>1, <4>1, ElementOfSeq DEF IniTypeOK
      <4>3. PICK d \in [name : Seq(FileChar), value : Seq(FileChar)] :
              d = Definition(lines[next])
        BY <3>2, <4>2, DefinitionTyped
      <4>4. Store(d)
        BY <1>4, <3>2, <4>3 DEF ParseLine
      <4>5. QED
        BY <1>1, <4>4 DEF Store, IniTypeOK
    <3>3. QED
      BY <3>1, <3>2
  <2>3. next' \in 1 .. Len(lines) + 1
    BY <1>1, <2>1 DEF IniTypeOK
  <2>4. QED
    BY <1>1, <2>1, <2>2, <2>3 DEF IniInv, IniTypeOK
<1>5. CASE Finish
  BY <1>5 DEF Finish, IniInv, IniTypeOK
<1>6. CASE UNCHANGED iniVars
  BY <1>6 DEF iniVars, IniInv, IniTypeOK
<1>7. QED
  BY <1>2, <1>3, <1>4, <1>5, <1>6 DEF IniNext, IniOver
\* Both parts at once.
LEMMA PartsStart == MCInit => IniInv /\ LoopInv
<1>1. CASE work = "file" /\ LoopIdle /\ IniInit
  <2>1. IniInv
    BY <1>1, IniStarts
  <2>2. given \in Arguments /\ str \in Seq(Char) /\ Len(str) = 0
    BY <1>1 DEF LoopIdle, Arguments
  <2>3. FindIsFirst
    BY <1>1 DEF LoopIdle, FindIsFirst, OccursAt
  <2>4. QED
    BY <1>1, <2>1, <2>2, <2>3, LoopAssumption
    DEF LoopIdle, LoopInv, FindInv, ReplaceInv, SearchedSoFar, ReplacesGiven
<1>2. CASE work = "loop" /\ content = <<>> /\ IniInit /\ Init
  BY <1>2, IniStarts, LoopInit
<1>3. QED
  BY <1>1, <1>2 DEF MCInit

LEMMA PartsStep ==
  IniInv /\ LoopInv /\ [MCNext]_<<work, vars, iniVars>> => IniInv' /\ LoopInv'
<1>1. [MCNext]_<<work, vars, iniVars>> => [IniNext]_iniVars /\ [Next]_vars
  BY DEF MCNext
<1>2. QED
  BY <1>1, IniStep, LoopStep

\* Whatever the file and the string are, the parser's lines and definitions
\* are texts, names and values are never empty, and the loops stay inside of
\* the string.
THEOREM HelpersTypeCorrect == MCSpec => []HelpersTypeOK
<1>1. IniInv /\ LoopInv => HelpersTypeOK
  BY DEF IniInv, LoopInv, FindInv, Arguments, ReplaceInv, LoopTypeOK, HelpersTypeOK
<1>2. QED
  BY <1>1, PartsStart, PartsStep, PTL DEF MCSpec

-----------------------------------------------------------------------------
(* ini_config (IniConfig): the lines                                        *)

\* The equation of Joined, for a function f in its place.
JoinedBody(f, k) ==
  IF k = 1 THEN lines[1] ELSE f[k - 1] \o <<"\n">> \o lines[k]

JoinedTo(f, n) == f = [k \in 1 .. n |-> JoinedBody(f, k)]

LEMMA JoinedDefined ==
  ASSUME Len(lines) \in Nat
  PROVE  \A k \in 1 .. Len(lines) : Joined[k] = JoinedBody(Joined, k)
<1>1. PICK N \in Nat : N = Len(lines)
  OBVIOUS
<1> DEFINE Bad == {n \in 0 .. N : ~\E f : JoinedTo(f, n)}
<1>2. Bad = {}
  <2> SUFFICES ASSUME Bad # {} PROVE FALSE
    OBVIOUS
  <2>1. Bad \in SUBSET Nat
    OBVIOUS
  <2>2. PICK n \in Bad : \A m \in Bad : n <= m
    BY <2>1, Least
  <2>3. n \in 0 .. N /\ ~\E f : JoinedTo(f, n)
    BY <2>2
  <2>4. CASE n = 0
    <3> DEFINE f == [k \in 1 .. 0 |-> 0]
    <3>1. f = [k \in 1 .. 0 |-> JoinedBody(f, k)]
      <4> HIDE DEF JoinedBody
      <4>1. QED
        OBVIOUS
    <3>2. JoinedTo(f, n)
      BY <2>4, <3>1 DEF JoinedTo
    <3>3. QED
      BY <2>3, <3>2
  <2>5. CASE n # 0
    <3>1. n - 1 \in 0 .. N /\ n - 1 \notin Bad
      <4> HIDE DEF Bad
      <4>1. QED
        BY <2>2, <2>3, <2>5
    <3>2. PICK g : JoinedTo(g, n - 1)
      BY <3>1
    <3> DEFINE h == [k \in 1 .. n |-> IF k = n THEN JoinedBody(g, n) ELSE g[k]]
    <3>3. ASSUME NEW k \in 1 .. n PROVE h[k] = JoinedBody(h, k)
      <4>1. h[k] = JoinedBody(g, k)
        <5>1. CASE k = n
          BY <5>1
        <5>2. CASE k # n
          <6>1. k \in 1 .. n - 1
            BY <2>3, <5>2
          <6>2. g[k] = JoinedBody(g, k)
            BY <3>2, <6>1 DEF JoinedTo
          <6>3. QED
            BY <5>2, <6>2
        <5>3. QED
          BY <5>1, <5>2
      <4>2. k = 1 \/ h[k - 1] = g[k - 1]
        <5>1. k # 1 => k - 1 \in 1 .. n /\ k - 1 # n
          BY <2>3
        <5>2. QED
          BY <5>1
      <4> HIDE DEF h
      <4>3. QED
        BY <4>1, <4>2 DEF JoinedBody
    <3>4. JoinedTo(h, n)
      <4>1. h = [k \in 1 .. n |-> h[k]]
        OBVIOUS
      <4> HIDE DEF h
      <4>2. QED
        BY <3>3, <4>1 DEF JoinedTo
    <3>5. QED
      BY <2>3, <3>4
  <2>6. QED
    BY <2>4, <2>5
<1>3. PICK f : JoinedTo(f, N)
  <2>1. N \in 0 .. N
    OBVIOUS
  <2>2. QED
    BY <1>2, <2>1
<1>4. f = [k \in 1 .. N |-> JoinedBody(f, k)]
  BY <1>3 DEF JoinedTo
<1>5. Joined = [k \in 1 .. N |-> JoinedBody(Joined, k)]
  BY <1>1, <1>4 DEF Joined, JoinedBody
<1>6. QED
  BY <1>1, <1>5

\* The stretch from a to e, with the character c at place m + 1.
Bridged(s, c, a, m, e) ==
  SubSeq(s, a, m) \o <<c>> \o SubSeq(s, m + 2, e) = SubSeq(s, a, e)

\* A stretch before a character, the character, and the stretch behind it.
LEMMA Bridge ==
  ASSUME NEW C, NEW s \in Seq(C), NEW c \in C, NEW a \in 1 .. Len(s) + 1,
         NEW m, NEW e \in 0 .. Len(s), m \in a - 1 .. Len(s) - 1, m + 1 <= e,
         s[m + 1] = c
  PROVE  Bridged(s, c, a, m, e)
<1>1. PICK N \in Nat : N = Len(s)
  BY LenProperties
<1>2. m \in Nat /\ m + 1 \in 1 .. N /\ e \in m + 1 .. N /\ m \in 0 .. N
  BY <1>1
<1>3. SubSeq(s, m + 1, m + 1) = <<c>>
  <2>1. PICK k \in 1 .. Len(s) : k = m + 1
    BY <1>1, <1>2
  <2>2. SubSeq(s, k, k) \in Seq(C) /\ Len(SubSeq(s, k, k)) = 1 /\ SubSeq(s, k, k)[1] = s[k]
    <3>1. /\ k \in Nat \ {0} /\ k \in Int /\ k <= Len(s) /\ k <= k /\ k - k + 1 = 1
          /\ k + 1 - 1 = k /\ 1 \in 1 .. k - k + 1
      BY <1>1, <2>1
    <3>2. QED
      BY <3>1, Part
  <2>3. SubSeq(s, k, k) = <<c>>
    <3>1. PICK x, y : x = SubSeq(s, k, k) /\ y = <<c>>
      OBVIOUS
    <3>2. /\ x \in Seq(C) /\ y \in Seq(C) /\ Len(x) = Len(y)
          /\ \A i \in 1 .. Len(x) : x[i] = y[i]
      BY <2>1, <2>2, <3>1
    <3>3. x = y
      BY <3>2, SeqEqual
    <3>4. QED
      BY <3>1, <3>3
  <2>4. QED
    BY <2>1, <2>3
<1>4. SubSeq(s, a, m) \o SubSeq(s, m + 1, m + 1) = SubSeq(s, a, m + 1)
  <2>1. PICK k, n : k = m /\ n = m + 1 /\ k \in a - 1 .. Len(s) /\ n \in k .. Len(s)
    BY <1>1, <1>2
  <2>2. SubSeq(s, a, k) \o SubSeq(s, k + 1, n) = SubSeq(s, a, n)
    BY <2>1, ConcatAdjacentSubSeq
  <2>3. QED
    BY <2>1, <2>2
<1>5. SubSeq(s, a, m + 1) \o SubSeq(s, m + 2, e) = SubSeq(s, a, e)
  <2>1. PICK k : k = m + 1 /\ k + 1 = m + 2 /\ k \in a - 1 .. Len(s) /\ e \in k .. Len(s)
    BY <1>1, <1>2
  <2>2. SubSeq(s, a, k) \o SubSeq(s, k + 1, e) = SubSeq(s, a, e)
    BY <2>1, ConcatAdjacentSubSeq
  <2>3. QED
    BY <2>1, <2>2
<1>6. QED
  BY <1>3, <1>4, <1>5 DEF Bridged

\* The first k pieces make up the stretch from a to e.
JoinedIs(s, a, e, k) == Joined[k] = SubSeq(s, a, e) /\ a <= e + 1

\* Joined puts the pieces together again.
LEMMA JoinedIsStretch ==
  ASSUME NEW C, NEW s \in Seq(C), "\n" \in C, NEW beg, NEW fin,
         Len(lines) \in Nat, CutAt(s, "\n", lines, beg, fin)
  PROVE  \A k \in 1 .. Len(lines) : JoinedIs(s, beg[1], fin[k], k)
<1>1. PICK N \in Nat : N = Len(lines)
  OBVIOUS
<1>2. PICK M \in Nat : M = Len(s)
  BY LenProperties
<1> DEFINE Bad == {k \in 1 .. N : ~JoinedIs(s, beg[1], fin[k], k)}
<1>3. ASSUME NEW k \in Bad, \A m \in Bad : k <= m PROVE FALSE
  <2>1. k \in 1 .. N /\ ~JoinedIs(s, beg[1], fin[k], k)
    OBVIOUS
  <2>2. Joined[k] = JoinedBody(Joined, k)
    BY <1>1, <2>1, JoinedDefined
  <2>3. CASE k = 1
    <3>1. lines[1] = SubSeq(s, beg[1], fin[1]) /\ beg[1] <= fin[1] + 1
      BY <1>1, <2>1, <2>3 DEF CutAt
    <3>2. QED
      BY <2>1, <2>2, <2>3, <3>1 DEF JoinedBody, JoinedIs
  <2>4. CASE k # 1
    <3>1. PICK j \in 1 .. N - 1 : j = k - 1 /\ k = j + 1
      BY <2>1, <2>4
    <3>2. Joined[j] = SubSeq(s, beg[1], fin[j]) /\ beg[1] <= fin[j] + 1
      <4> HIDE DEF Bad
      <4>1. ~(k <= j) /\ j \in 1 .. N
        BY <2>1, <3>1
      <4>2. j \notin Bad
        BY <1>3, <4>1
      <4>3. QED
        BY <4>1, <4>2 DEF Bad, JoinedIs
    <3>3. /\ beg[k] = fin[j] + 2 /\ s[fin[j] + 1] = "\n"
          /\ lines[k] = SubSeq(s, beg[k], fin[k]) /\ beg[k] <= fin[k] + 1
          /\ beg[k] \in 1 .. M + 1 /\ fin[k] \in 0 .. M /\ fin[j] \in 0 .. M
      <4>1. j \in 1 .. Len(lines) - 1 /\ j \in 1 .. Len(lines) /\ k \in 1 .. Len(lines)
        BY <1>1, <2>1, <3>1
      <4>2. beg[j + 1] = fin[j] + 2 /\ s[fin[j] + 1] = "\n"
        BY <4>1 DEF CutAt
      <4>3. lines[k] = SubSeq(s, beg[k], fin[k]) /\ beg[k] <= fin[k] + 1
        BY <4>1 DEF CutAt
      <4>4. beg[k] \in 1 .. M + 1 /\ fin[k] \in 0 .. M /\ fin[j] \in 0 .. M
        BY <1>2, <4>1 DEF CutAt
      <4>5. QED
        BY <3>1, <4>2, <4>3, <4>4
    <3>4. beg[1] \in 1 .. M + 1 /\ beg[1] <= fin[j] + 1
      <4>1. 1 \in 1 .. N
        BY <3>1
      <4>2. QED
        BY <1>1, <1>2, <3>2, <4>1 DEF CutAt
    <3>5. PICK a, m, e : /\ a = beg[1] /\ m = fin[j] /\ e = fin[k]
                         /\ a \in 1 .. Len(s) + 1 /\ e \in 0 .. Len(s)
                         /\ m \in a - 1 .. Len(s) - 1 /\ m + 1 <= e
                         /\ s[m + 1] = "\n" /\ m + 2 = beg[k]
      <4>1. PICK a, m, e : a = beg[1] /\ m = fin[j] /\ e = fin[k]
        OBVIOUS
      <4>2. /\ a \in 1 .. M + 1 /\ e \in 0 .. M /\ m \in 0 .. M /\ a <= m + 1
            /\ beg[k] = m + 2 /\ m + 2 \in 1 .. M + 1 /\ m + 2 <= e + 1
        BY <3>3, <3>4, <4>1
      <4>3. m \in a - 1 .. M - 1 /\ m + 1 <= e
        BY <4>2
      <4>4. QED
        BY <1>2, <3>3, <4>1, <4>2, <4>3
    <3>6. Bridged(s, "\n", a, m, e)
      BY <3>5, Bridge
    <3>7. Joined[k] = Joined[j] \o <<"\n">> \o lines[k]
      BY <2>2, <2>4, <3>1 DEF JoinedBody
    <3>8. Joined[k] = SubSeq(s, beg[1], fin[k])
      BY <3>2, <3>3, <3>5, <3>6, <3>7 DEF Bridged
    <3>9. beg[1] <= fin[k] + 1
      <4>1. a <= e + 1
        <5>1. PICK L \in Nat : L = Len(s)
          BY <1>2
        <5>2. a \in 1 .. L + 1 /\ e \in 0 .. L /\ m \in a - 1 .. L - 1 /\ m + 1 <= e
          BY <3>5, <5>1
        <5>3. QED
          BY <5>2
      <4>2. QED
        BY <3>5, <4>1
    <3>10. QED
      BY <2>1, <3>8, <3>9 DEF JoinedIs
  <2>5. QED
    BY <2>3, <2>4
<1>4. QED
  <2>1. Bad \in SUBSET Nat
    OBVIOUS
  <2>2. Bad = {}
    BY <1>3, <2>1, Least
  <2>3. QED
    BY <1>1, <2>2
\* A text put together again is the text, but for an empty first piece.
LEMMA LinesMakeText ==
  ASSUME NEW C, NEW s \in Seq(C), "\n" \in C, s # <<>>,
         lines = split_str(s, <<"\n">>)
  PROVE  lines # <<>> /\ s \in {Joined[Len(lines)], <<"\n">> \o Joined[Len(lines)]}
<1>1. PICK key : key = <<"\n">> /\ Len(key) = 1 /\ key[1] = "\n"
  BY OneChar
<1>2. /\ lines \in Seq(Seq(C))
      /\ IsCut(s, "\n", lines, 1) \/ (IsCut(s, "\n", lines, 2) /\ s[1] = "\n")
  <2>1. PICK ls : ls = lines /\ ls = split_str(s, key)
    BY <1>1
  <2>2. /\ ls \in Seq(Seq(C))
        /\ IsCut(s, "\n", ls, 1) \/ (IsCut(s, "\n", ls, 2) /\ s[1] = "\n")
    BY <1>1, <2>1, SplitIsCut
  <2>3. QED
    BY <2>1, <2>2
<1>3. ASSUME NEW a, IsCut(s, "\n", lines, a)
      PROVE  lines # <<>> /\ Joined[Len(lines)] = SubSeq(s, a, Len(s))
  <2>1. PICK beg, fin : CutAt(s, "\n", lines, beg, fin) /\ beg[1] = a
    BY <1>3 DEF IsCut
  <2>2. lines # <<>> /\ fin[Len(lines)] = Len(s)
    BY <2>1 DEF CutAt
  <2>3. Len(lines) \in Nat /\ Len(lines) \in 1 .. Len(lines)
    BY <1>2, <2>2, EmptySeq
  <2>4. \A k \in 1 .. Len(lines) : JoinedIs(s, beg[1], fin[k], k)
    BY <2>1, <2>3, JoinedIsStretch
  <2>5. QED
    BY <2>1, <2>2, <2>3, <2>4 DEF JoinedIs
<1>4. CASE IsCut(s, "\n", lines, 1)
  BY <1>3, <1>4, SubSeqFull
<1>5. CASE IsCut(s, "\n", lines, 2) /\ s[1] = "\n"
  <2>1. Len(s) \in Nat \ {0}
    BY EmptySeq
  <2>2. PICK a, e : a = 1 /\ e = Len(s) /\ a \in 1 .. Len(s) /\ e \in a .. Len(s)
    BY <2>1
  <2>3. SubSeq(s, a, e) = <<s[a]>> \o SubSeq(s, a + 1, e)
    BY <2>2, SubSeqRecursiveFirst
  <2>4. s = <<"\n">> \o SubSeq(s, 2, Len(s))
    BY <1>5, <2>2, <2>3, SubSeqFull
  <2>5. QED
    BY <1>3, <1>5, <2>4
<1>6. QED
  BY <1>2, <1>4, <1>5

LEMMA InvKeepsText == IniInv => SplitKeepsText
<1>1. "\n" \in FileChar
  BY DEF FileChar
<1>2. SUFFICES ASSUME IniInv, stage \in {"parse", "ready"}
               PROVE  IF lines = <<>> THEN content = <<>>
                      ELSE content \in {Joined[Len(lines)], <<"\n">> \o Joined[Len(lines)]}
  BY DEF SplitKeepsText
<1>3. content \in Seq(FileChar) /\ lines = split_str(content, <<"\n">>)
  BY <1>2 DEF IniInv, IniTypeOK
<1>4. CASE content = <<>>
  <2>1. lines = <<>>
    BY <1>3, <1>4 DEF split_str
  <2>2. QED
    BY <1>4, <2>1
<1>5. CASE content # <<>>
  <2>1. lines # <<>> /\ content \in {Joined[Len(lines)], <<"\n">> \o Joined[Len(lines)]}
    BY <1>1, <1>3, <1>5, LinesMakeText
  <2>2. QED
    BY <2>1
<1>6. QED
  BY <1>4, <1>5

\* The lines the parser goes through are the file, cut at its newlines: for a
\* file of any length nothing of it is lost, doubled or moved into another
\* line (init, split_str).
THEOREM TextIsKept == IniSpec => []SplitKeepsText
<1>1. QED
  BY IniStarts, IniStep, InvKeepsText, PTL DEF IniSpec
-----------------------------------------------------------------------------
(* ini_config (IniConfig): the definitions                                  *)

\* The places of a stretch that hold another character than c.
Ink(s, c, a, b) == {p \in a .. b : s[p] # c}

\* trim of a stretch, by the places of the text it is a stretch of.
LEMMA TrimOfStretch ==
  ASSUME NEW C, NEW s \in Seq(C), NEW c, NEW a \in 1 .. Len(s) + 1, NEW b \in 0 .. Len(s)
  PROVE  trim(SubSeq(s, a, b), c) =
           IF Ink(s, c, a, b) = {} THEN <<>>
           ELSE SubSeq(s, Min(Ink(s, c, a, b)), Max(Ink(s, c, a, b)))
<1>1. PICK N \in Nat : N = Len(s)
  BY LenProperties
<1>2. PICK t \in Seq(C) :
        /\ t = SubSeq(s, a, b) /\ Len(t) = IF a <= b THEN b - a + 1 ELSE 0
        /\ \A j \in 1 .. b - a + 1 : t[j] = s[a + j - 1]
  <2>1. a \in Nat \ {0} /\ b \in Int /\ b <= Len(s)
    BY <1>1
  <2>2. /\ SubSeq(s, a, b) \in Seq(C)
        /\ Len(SubSeq(s, a, b)) = IF a <= b THEN b - a + 1 ELSE 0
        /\ \A j \in 1 .. b - a + 1 : SubSeq(s, a, b)[j] = s[a + j - 1]
    BY <2>1, Part
  <2>3. QED
    BY <2>2
<1> DEFINE I == Ink(s, c, a, b)
           K == {p \in 1 .. Len(t) : t[p] # c}
<1>3. a \in 1 .. N + 1 /\ b \in 0 .. N /\ a \in Nat /\ b \in Nat
  BY <1>1
<1>4. \A p : p \in K <=> p \in Int /\ a + p - 1 \in I
  <2>1. ASSUME NEW p \in Int PROVE p \in K <=> a + p - 1 \in I
    <3>1. p \in 1 .. Len(t) <=> a + p - 1 \in a .. b
      BY <1>2, <1>3
    <3>2. CASE p \in 1 .. Len(t)
      <4>1. t[p] = s[a + p - 1]
        BY <1>2, <1>3, <3>2
      <4>2. QED
        BY <3>1, <3>2, <4>1 DEF Ink
    <3>3. CASE p \notin 1 .. Len(t)
      BY <3>1, <3>3 DEF Ink
    <3>4. QED
      BY <3>2, <3>3
  <2>2. \A p \in K : p \in Int
    OBVIOUS
  <2>3. QED
    BY <2>1, <2>2
<1>5. I \subseteq 1 .. N /\ I \subseteq Nat /\ K \subseteq 1 .. Len(t) /\ K \subseteq Nat
  BY <1>3 DEF Ink
<1>6. Len(t) \in Nat
  BY LenProperties
<1> HIDE DEF I
<1>7. trim(t, c) = IF K = {} THEN <<>> ELSE SubSeq(t, Min(K), Max(K))
  BY DEF trim
<1> HIDE DEF K
<1>8. CASE I = {}
  <2>1. K = {}
    BY <1>4, <1>8
  <2>2. QED
    BY <1>2, <1>7, <1>8, <2>1 DEF I
<1>9. CASE I # {}
  <2>1. PICK x \in I, y \in I : /\ x = Min(I) /\ y = Max(I)
                                /\ \A p \in I : x <= p /\ p <= y
    BY <1>5, <1>9, MinIsLeast, MaxIsGreatest
  <2>2. x \in Int /\ y \in Int /\ x \in 1 .. N /\ y \in 1 .. N
    BY <1>5
  <2>3. x - a + 1 \in K /\ y - a + 1 \in K
    <3>1. a + (x - a + 1) - 1 = x /\ a + (y - a + 1) - 1 = y
      BY <1>3, <2>2
    <3>2. x - a + 1 \in Int /\ y - a + 1 \in Int
      BY <1>3, <2>2
    <3>3. QED
      BY <1>4, <3>1, <3>2
  <2>4. PICK u \in K, v \in K : /\ u = Min(K) /\ v = Max(K)
                                /\ \A p \in K : u <= p /\ p <= v
    BY <1>5, <1>6, <2>3, MinIsLeast, MaxIsGreatest
  <2>5. u \in 1 .. Len(t) /\ v \in 1 .. Len(t)
    BY <1>5
  <2>6. a + u - 1 \in I /\ a + v - 1 \in I
    BY <1>4
  <2>7. x <= a + u - 1 /\ a + v - 1 <= y /\ u <= x - a + 1 /\ y - a + 1 <= v
    BY <2>1, <2>3, <2>4, <2>6
  <2>8. a + u - 1 = x /\ a + v - 1 = y
    BY <1>3, <1>6, <2>2, <2>5, <2>7
  <2>9. SubSeq(t, u, v) = SubSeq(s, x, y)
    <3>1. a <= b /\ b - a + 1 = Len(t)
      BY <1>2, <1>3, <2>5
    <3>2. /\ a \in 1 .. Len(s) /\ b \in 1 .. Len(s)
          /\ u \in 1 .. b - a + 1 /\ v \in 1 .. b - a + 1
      BY <1>1, <1>3, <2>5, <3>1
    <3>3. SubSeq(SubSeq(s, a, b), u, v) = SubSeq(s, a + u - 1, a + v - 1)
      BY <1>2, <3>2, SubSeqOfSubSeq
    <3>4. QED
      BY <1>2, <2>8, <3>3
  <2>10. QED
    BY <1>2, <1>7, <1>9, <2>1, <2>3, <2>4, <2>9 DEF I
<1>10. QED
  BY <1>8, <1>9

\* Spaces around a stretch make no difference.
LEMMA SameTrim ==
  ASSUME NEW C, NEW s \in Seq(C), NEW c, NEW a \in 1 .. Len(s) + 1, NEW b \in 0 .. Len(s),
         NEW x \in 1 .. Len(s) + 1, NEW y \in 0 .. Len(s),
         Ink(s, c, a, b) = Ink(s, c, x, y)
  PROVE  trim(SubSeq(s, a, b), c) = trim(SubSeq(s, x, y), c)
BY TrimOfStretch

\* The same, for what the prover is to find.
SameInk(s, a, b, x, y) == Ink(s, " ", a, b) = Ink(s, " ", x, y)
TrimsAlike(s, a, b, x, y) == trim(SubSeq(s, a, b), " ") = trim(SubSeq(s, x, y), " ")

LEMMA SameInkTrims ==
  ASSUME NEW C, NEW s \in Seq(C), NEW a \in 1 .. Len(s) + 1, NEW b \in 0 .. Len(s),
         NEW x \in 1 .. Len(s) + 1, NEW y \in 0 .. Len(s), SameInk(s, a, b, x, y)
  PROVE  TrimsAlike(s, a, b, x, y)
BY SameTrim DEF SameInk, TrimsAlike

\* A stretch of a stretch, also an empty one.
LEMMA StretchOfStretch ==
  ASSUME NEW C, NEW s \in Seq(C), NEW x \in 1 .. Len(s), NEW y \in x .. Len(s),
         NEW m \in 1 .. y - x + 2, NEW n \in m - 1 .. y - x + 1
  PROVE  SubSeq(SubSeq(s, x, y), m, n) = SubSeq(s, x + m - 1, x + n - 1)
<1>1. Len(s) \in Nat /\ x \in Nat /\ y \in Nat /\ m \in Nat /\ n \in Int
  BY LenProperties
<1>2. CASE n = m - 1
  <2>1. n < m /\ x + n - 1 < x + m - 1 /\ x + m - 1 \in Int /\ x + n - 1 \in Int /\ m \in Int
    BY <1>1, <1>2
  <2>2. QED
    BY <1>1, <2>1, SubSeqEmpty
<1>3. CASE n # m - 1
  <2>1. m \in 1 .. y - x + 1 /\ n \in 1 .. y - x + 1 /\ y \in 1 .. Len(s)
    BY <1>1, <1>3
  <2>2. SubSeq(s, x, y) \in Seq(C)
    <3>1. x \in Nat \ {0} /\ y \in Int /\ y <= Len(s)
      BY <1>1
    <3>2. QED
      BY <3>1, Part
  <2>3. QED
    BY <2>1, <2>2, SubSeqOfSubSeq
<1>4. QED
  BY <1>2, <1>3

\* The places of a stretch that hold the character c.
Marks(s, c, x, y) == {p \in x .. y : s[p] = c}

\* t is a stretch of s that begins at x, and q the place in it of the first of
\* the places E of s.
StretchFrom(C, s, x, y, t, E, q) ==
  /\ t \in Seq(C) /\ Len(t) = y - x + 1 /\ t[1] = s[x]
  /\ E = {} => q = -1
  /\ E # {} => q = Min(E) - x

\* The first character c of a stretch, as find returns its place.
LEMMA FindInStretch ==
  ASSUME NEW C, NEW s \in Seq(C), NEW c, NEW x \in 1 .. Len(s), NEW y \in x .. Len(s),
         NEW key, NEW t, NEW q, NEW E,
         Len(key) = 1, key[1] = c, t = SubSeq(s, x, y), q = Find(t, key, 0),
         E = Marks(s, c, x, y)
  PROVE  StretchFrom(C, s, x, y, t, E, q)
<1>1. PICK N \in Nat : N = Len(s)
  BY LenProperties
<1>0. E = {p \in x .. y : s[p] = c}
  BY DEF Marks
<1>2. /\ t \in Seq(C) /\ Len(t) = y - x + 1
      /\ \A j \in 1 .. y - x + 1 : t[j] = s[x + j - 1]
  <2>1. x \in Nat \ {0} /\ y \in Int /\ y <= Len(s) /\ x <= y
    BY <1>1
  <2>2. /\ SubSeq(s, x, y) \in Seq(C)
        /\ Len(SubSeq(s, x, y)) = IF x <= y THEN y - x + 1 ELSE 0
        /\ \A j \in 1 .. y - x + 1 : SubSeq(s, x, y)[j] = s[x + j - 1]
    BY <2>1, Part
  <2>3. QED
    BY <2>1, <2>2
<1>3. t[1] = s[x]
  <2>1. 1 \in 1 .. y - x + 1 /\ x + 1 - 1 = x
    BY <1>1
  <2>2. QED
    BY <1>2, <2>1
<1>4. \/ q = -1 /\ Without(t, c, 0 + 1, Len(t))
      \/ q \in 0 .. Len(t) - 1 /\ t[q + 1] = c /\ Without(t, c, 0 + 1, q)
  <2>1. PICK b \in Nat : b = 0
    OBVIOUS
  <2>2. \/ q = -1 /\ Without(t, c, b + 1, Len(t))
        \/ q \in b .. Len(t) - 1 /\ t[q + 1] = c /\ Without(t, c, b + 1, q)
    <3>1. PICK u \in Seq(C) : u = t /\ q = Find(u, key, b)
      BY <1>2, <2>1
    <3>2. FindsChar(u, c, b, q)
      BY <3>1, FindChar
    <3>3. QED
      BY <3>1, <3>2 DEF FindsChar
  <2>3. QED
    BY <2>1, <2>2
<1>10. x \in Nat \ {0} /\ y \in Nat /\ x <= y
  BY <1>1
<1>5. ASSUME NEW p \in E PROVE p \in x .. y /\ p - x + 1 \in 1 .. Len(t) /\ t[p - x + 1] = c
  <2>1. p \in x .. y /\ s[p] = c
    BY <1>0
  <2>2. p - x + 1 \in 1 .. y - x + 1 /\ x + (p - x + 1) - 1 = p
    <3>1. p \in Int /\ x <= p /\ p <= y
      BY <1>10, <2>1
    <3>2. QED
      BY <1>10, <3>1
  <2>3. t[p - x + 1] = s[x + (p - x + 1) - 1]
    BY <1>2, <2>2
  <2>4. QED
    BY <1>2, <2>1, <2>2, <2>3
<1>6. ASSUME q # -1 PROVE q \in Nat /\ x + q \in E
  <2>1. q \in 0 .. y - x /\ t[q + 1] = c
    BY <1>2, <1>4, <1>6, <1>1
  <2>2. q + 1 \in 1 .. y - x + 1 /\ x + (q + 1) - 1 = x + q /\ x + q \in x .. y
    BY <1>1, <2>1
  <2>3. t[q + 1] = s[x + (q + 1) - 1]
    BY <1>2, <2>2
  <2>4. QED
    BY <1>0, <2>1, <2>2, <2>3
<1>7. CASE E = {}
  BY <1>2, <1>3, <1>6, <1>7 DEF StretchFrom
<1>8. CASE E # {}
  <2>1. E \in SUBSET Nat
    BY <1>0, <1>10
  <2>2. PICK e \in E : e = Min(E) /\ \A p \in E : e <= p
    BY <1>8, <2>1, MinIsLeast
  <2>3. e \in x .. y /\ e - x + 1 \in 1 .. Len(t) /\ t[e - x + 1] = c
    BY <1>5
  <2>4. q # -1
    <3>0. 0 + 1 = 1
      OBVIOUS
    <3>1. PICK j \in 0 + 1 .. Len(t) : t[j] = c
      BY <2>3, <3>0
    <3>2. ~Without(t, c, 0 + 1, Len(t))
      BY <3>1 DEF Without
    <3>3. QED
      BY <1>2, <1>4, <1>10, <3>2
  <2>5. q \in Nat /\ e <= x + q
    BY <1>6, <2>2, <2>4
  <2>6. ~(e < x + q)
    <3>1. SUFFICES ASSUME e < x + q PROVE FALSE
      OBVIOUS
    <3>2. e - x + 1 \in 0 + 1 .. q
      BY <1>1, <2>3, <2>5, <3>1
    <3>3. QED
      BY <1>4, <2>3, <2>4, <3>2 DEF Without
  <2>7. q = e - x
    BY <1>1, <2>3, <2>5, <2>6
  <2>8. QED
    BY <1>2, <1>3, <1>8, <2>2, <2>7 DEF StretchFrom
<1>9. QED
  BY <1>7, <1>8

\* What the stretch of the file from a to b defines.
NameIn(a, e) == trim(SubSeq(content, a, e - 1), " ")
ValueIn(e, b) == trim(SubSeq(content, e + 1, b), " ")

\* A line defines what FirstDefinitionWins reads off the stretch it is.
LEMMA LineDefines ==
  ASSUME content \in Seq(FileChar),
         NEW a \in 1 .. Len(content) + 1, NEW b \in 0 .. Len(content),
         NEW l, l[1] = a, l[2] = b, NEW line, line = SubSeq(content, a, b)
  PROVE  /\ Ignored(line) <=> (EqualSigns(l) = {} \/ content[Min(InkOf(l))] = "#")
         /\ ~Ignored(line) =>
              Definition(line) = [name |-> NameIn(a, Min(EqualSigns(l))),
                                  value |-> ValueIn(Min(EqualSigns(l)), b)]
<1>1. PICK N \in Nat : N = Len(content)
  BY LenProperties
<1> DEFINE I == InkOf(l)
           E == EqualSigns(l)
<1>2. I = Ink(content, " ", a, b) /\ I = {p \in a .. b : content[p] # " "}
      /\ E = {p \in a .. b : content[p] = "="}
  BY DEF InkOf, EqualSigns, Ink
<1> HIDE DEF I, E
<1>11. \A p \in a .. b : content[p] # " " => p \in I
  BY <1>2
<1>9. a \in 1 .. N + 1 /\ b \in 0 .. N /\ a \in Nat /\ b \in Nat
  BY <1>1
<1>3. E \subseteq I /\ I \subseteq 1 .. N /\ I \subseteq Nat /\ E \subseteq Nat
  <2>1. E \subseteq I
    BY <1>2
  <2>2. I \subseteq a .. b
    BY <1>2
  <2>3. a .. b \subseteq 1 .. N /\ a .. b \subseteq Nat
    BY <1>9
  <2>4. QED
    BY <2>1, <2>2, <2>3
<1>4. PICK t : t = trim(line, " ")
  OBVIOUS
<1>5. t = IF I = {} THEN <<>> ELSE SubSeq(content, Min(I), Max(I))
  <2>1. trim(SubSeq(content, a, b), " ") =
          IF Ink(content, " ", a, b) = {} THEN <<>>
          ELSE SubSeq(content, Min(Ink(content, " ", a, b)), Max(Ink(content, " ", a, b)))
    BY TrimOfStretch
  <2>2. QED
    BY <1>2, <1>4, <2>1
<1>6. CASE I = {}
  <2>1. t = <<>> /\ E = {}
    BY <1>3, <1>5, <1>6
  <2>2. Ignored(line)
    BY <1>4, <2>1 DEF Ignored
  <2>3. QED
    BY <2>1, <2>2 DEF E
<1>7. CASE I # {}
  <2>1. PICK x \in I, y \in I : /\ x = Min(I) /\ y = Max(I)
                                /\ \A p \in I : x <= p /\ p <= y
    BY <1>1, <1>3, <1>7, MinIsLeast, MaxIsGreatest
  <2>2. /\ x \in 1 .. Len(content) /\ y \in x .. Len(content) /\ x >= a /\ y <= b
        /\ x \in Nat /\ y \in Nat /\ a \in Nat /\ b \in Nat
    <3>1. x \in a .. b /\ y \in a .. b /\ x <= y
      BY <1>2, <2>1
    <3>2. QED
      BY <1>1, <1>9, <3>1
  <2>3. t = SubSeq(content, x, y)
    BY <1>5, <1>7, <2>1
  <2>4. PICK key, q : /\ key = <<"=">> /\ Len(key) = 1 /\ key[1] = "="
                      /\ q = Find(t, key, 0)
    BY OneChar
  <2>5. E = {p \in x .. y : content[p] = "="}
    <3>1. ASSUME NEW p \in E PROVE p \in x .. y
      <4>1. p \in I /\ p \in Nat
        BY <1>3
      <4>2. x <= p /\ p <= y
        BY <2>1, <4>1
      <4>3. QED
        BY <2>2, <4>1, <4>2
    <3>2. x .. y \subseteq a .. b
      BY <2>2
    <3>3. QED
      BY <1>2, <3>1, <3>2
  <2>6. /\ t \in Seq(FileChar) /\ Len(t) = y - x + 1 /\ t[1] = content[x]
        /\ E = {} => q = -1
        /\ E # {} => q = Min(E) - x
    <3>1. PICK c, s : c = "=" /\ s = content
      OBVIOUS
    <3>2. /\ s \in Seq(FileChar) /\ x \in 1 .. Len(s) /\ y \in x .. Len(s)
          /\ Len(key) = 1 /\ key[1] = c /\ t = SubSeq(s, x, y) /\ q = Find(t, key, 0)
          /\ E = Marks(s, c, x, y)
      BY <2>2, <2>3, <2>4, <2>5, <3>1 DEF Marks
    <3>3. StretchFrom(FileChar, s, x, y, t, E, q)
      BY <3>2, FindInStretch
    <3>4. QED
      BY <3>1, <3>3 DEF StretchFrom
  <2>7. t # <<>>
    BY <2>2, <2>6
  <2>8. Ignored(line) <=> (content[x] = "#" \/ q < 0)
    BY <1>4, <2>4, <2>6, <2>7 DEF Ignored
  <2>9. CASE E = {}
    <3>1. Ignored(line)
      BY <2>6, <2>8, <2>9
    <3>2. QED
      BY <2>9, <3>1 DEF E
  <2>10. CASE E # {}
    <3>1. PICK e \in E : e = Min(E) /\ \A p \in E : e <= p
      BY <1>3, <2>10, MinIsLeast
    <3>2. e \in x .. y /\ q = e - x /\ q \in Nat /\ ~(q < 0)
      <4>1. e \in x .. y /\ q = e - x
        BY <2>5, <2>6, <2>10, <3>1
      <4>2. QED
        BY <2>2, <4>1
    <3>3. SubStr(t, 0, q) = SubSeq(content, x, e - 1)
      <4>1. SubStr(t, 0, q) = SubSeq(t, 1, q)
        <5>1. ~(0 + q > Len(t)) /\ 0 + q = q /\ 0 + 1 = 1
          <6>1. PICK len \in Int : len = Len(t) /\ len = y - x + 1
            BY <2>2, <2>6
          <6>2. q <= len
            BY <2>2, <3>2, <6>1
          <6>3. QED
            BY <3>2, <6>1, <6>2
        <5>2. QED
          BY <5>1 DEF SubStr
      <4>2. PICK m : m = 1
        OBVIOUS
      <4>3. /\ m \in 1 .. y - x + 2 /\ q \in m - 1 .. y - x + 1
            /\ x + m - 1 = x /\ x + q - 1 = e - 1
        BY <2>2, <3>2, <4>2
      <4>4. SubSeq(SubSeq(content, x, y), m, q) = SubSeq(content, x + m - 1, x + q - 1)
        BY <2>2, <4>3, StretchOfStretch
      <4>5. QED
        BY <2>3, <4>1, <4>2, <4>3, <4>4
    <3>4. SubStr(t, q + 1, Len(t)) = SubSeq(content, e + 1, y)
      <4>1. PICK m, n : m = q + 2 /\ n = y - x + 1
        OBVIOUS
      <4>2. /\ m \in 1 .. y - x + 2 /\ n \in m - 1 .. y - x + 1
            /\ x + m - 1 = e + 1 /\ x + n - 1 = y /\ (q + 1) + 1 = m
            /\ n = Len(t) /\ (q + 1) + Len(t) > Len(t)
        BY <2>2, <2>6, <3>2, <4>1
      <4>3. SubStr(t, q + 1, Len(t)) = SubSeq(t, m, n)
        BY <4>2 DEF SubStr
      <4>4. SubSeq(SubSeq(content, x, y), m, n) = SubSeq(content, x + m - 1, x + n - 1)
        BY <2>2, <4>2, StretchOfStretch
      <4>5. QED
        BY <2>3, <4>2, <4>3, <4>4
    <3>5. trim(SubSeq(content, x, e - 1), " ") = NameIn(a, e)
      <4>1. Ink(content, " ", x, e - 1) = Ink(content, " ", a, e - 1)
        <5>1. ASSUME NEW p \in a .. e - 1, content[p] # " " PROVE p \in x .. e - 1
          <6>1. p \in I
            <7>1. e \in Int /\ e <= b /\ a <= e
              BY <2>2, <3>2
            <7>3. p \in Int /\ a <= p /\ p <= b
              BY <2>2, <7>1
            <7>2. QED
              <8>1. p \in a .. b
                BY <2>2, <7>3
              <8>2. QED
                BY <1>11, <5>1, <8>1
          <6>2. QED
            BY <2>1, <2>2, <6>1
        <5>2. x .. e - 1 \subseteq a .. e - 1
          BY <2>2
        <5>3. QED
          BY <5>1, <5>2 DEF Ink
      <4>2. /\ x \in 1 .. Len(content) + 1 /\ e - 1 \in 0 .. Len(content)
        BY <1>1, <2>2, <3>2
      <4>3. PICK f \in 0 .. Len(content) : f = e - 1
        BY <4>2
      <4>4. trim(SubSeq(content, x, f), " ") = trim(SubSeq(content, a, f), " ")
        <5>1. SameInk(content, x, f, a, f) /\ x \in 1 .. Len(content) + 1
          BY <4>1, <4>2, <4>3 DEF SameInk
        <5>2. TrimsAlike(content, x, f, a, f)
          BY <5>1, SameInkTrims
        <5>3. QED
          BY <5>2 DEF TrimsAlike
      <4>5. QED
        BY <4>3, <4>4 DEF NameIn
    <3>6. trim(SubSeq(content, e + 1, y), " ") = ValueIn(e, b)
      <4>1. Ink(content, " ", e + 1, y) = Ink(content, " ", e + 1, b)
        <5>1. ASSUME NEW p \in e + 1 .. b, content[p] # " " PROVE p \in e + 1 .. y
          <6>1. p \in I
            <7>1. e \in Int /\ e <= b /\ a <= e
              BY <2>2, <3>2
            <7>3. p \in Int /\ a <= p /\ p <= b
              BY <2>2, <7>1
            <7>2. QED
              <8>1. p \in a .. b
                BY <2>2, <7>3
              <8>2. QED
                BY <1>11, <5>1, <8>1
          <6>2. QED
            BY <2>1, <2>2, <3>2, <6>1
        <5>2. e + 1 .. y \subseteq e + 1 .. b
          BY <2>2, <3>2
        <5>3. QED
          BY <5>1, <5>2 DEF Ink
      <4>2. e + 1 \in 1 .. Len(content) + 1 /\ y \in 0 .. Len(content)
        BY <1>1, <2>2, <3>2
      <4>3. PICK f \in 1 .. Len(content) + 1 : f = e + 1
        BY <4>2
      <4>4. trim(SubSeq(content, f, y), " ") = trim(SubSeq(content, f, b), " ")
        <5>1. SameInk(content, f, y, f, b) /\ y \in 0 .. Len(content)
          BY <4>1, <4>2, <4>3 DEF SameInk
        <5>2. TrimsAlike(content, f, y, f, b)
          BY <5>1, SameInkTrims
        <5>3. QED
          BY <5>2 DEF TrimsAlike
      <4>5. QED
        BY <4>3, <4>4 DEF ValueIn
    <3>7. Definition(line) = [name |-> NameIn(a, e), value |-> ValueIn(e, b)]
      <4>1. Definition(line) = [name |-> trim(SubStr(t, 0, q), " "),
                                value |-> trim(SubStr(t, q + 1, Len(t)), " ")]
        BY <1>4, <2>4 DEF Definition
      <4>2. QED
        BY <3>3, <3>4, <3>5, <3>6, <4>1
    <3>8. Ignored(line) <=> content[x] = "#"
      BY <2>8, <3>2
    <3>9. QED
      BY <2>1, <2>10, <3>1, <3>7, <3>8 DEF E, I
  <2>11. QED
    BY <2>9, <2>10
<1>8. QED
  BY <1>6, <1>7
\* The pieces stand in s one behind the other.
LEMMA CutOrdered ==
  ASSUME NEW C, NEW s \in Seq(C), NEW c, NEW ls, NEW beg, NEW fin,
         Len(ls) \in Nat, CutAt(s, c, ls, beg, fin)
  PROVE  \A j, k \in 1 .. Len(ls) : j < k => fin[j] + 2 <= beg[k]
<1>1. PICK N \in Nat, M \in Nat : N = Len(ls) /\ M = Len(s)
  BY LenProperties
<1>2. /\ \A k \in 1 .. N : beg[k] \in 1 .. M + 1 /\ fin[k] \in 0 .. M /\ beg[k] <= fin[k] + 1
      /\ \A k \in 1 .. N - 1 : beg[k + 1] = fin[k] + 2
  BY <1>1 DEF CutAt
<1> SUFFICES ASSUME NEW j \in 1 .. N PROVE \A k \in 1 .. N : j < k => fin[j] + 2 <= beg[k]
  BY <1>1
<1> DEFINE Bad == {k \in 1 .. N : j < k /\ ~(fin[j] + 2 <= beg[k])}
<1>3. ASSUME NEW k \in Bad, \A m \in Bad : k <= m PROVE FALSE
  <2>1. k \in 1 .. N /\ j < k /\ ~(fin[j] + 2 <= beg[k])
    OBVIOUS
  <2>2. PICK i \in 1 .. N - 1 : k = i + 1 /\ j <= i
    <3> HIDE DEF Bad
    <3>1. k - 1 \in 1 .. N - 1 /\ k = (k - 1) + 1 /\ j <= k - 1
      BY <2>1
    <3>2. QED
      BY <3>1
  <2>3. beg[k] = fin[i] + 2
    BY <1>2, <2>2
  <2>4. CASE i = j
    BY <1>2, <2>1, <2>3, <2>4
  <2>5. CASE i # j
    <3>1. i \in 1 .. N /\ j < i /\ ~(k <= i)
      <4> HIDE DEF Bad
      <4>1. QED
        BY <2>1, <2>2, <2>5
    <3>2. i \notin Bad
      <4> HIDE DEF Bad
      <4>1. QED
        BY <1>3, <3>1
    <3>3. fin[j] + 2 <= beg[i]
      BY <3>1, <3>2
    <3>4. QED
      <4> HIDE DEF Bad
      <4>1. /\ beg[i] \in Int /\ fin[i] \in Int /\ fin[j] \in Int /\ beg[k] \in Int
            /\ beg[i] <= fin[i] + 1
        BY <1>2, <2>1, <3>1
      <4>2. QED
        BY <2>1, <2>3, <3>3, <4>1
  <2>6. QED
    BY <2>4, <2>5
<1>4. QED
  <2>1. Bad \in SUBSET Nat
    OBVIOUS
  <2>2. Bad = {}
    BY <1>3, <2>1, Least
  <2>3. QED
    BY <2>2

\* lines are content, cut at its newlines.
LinesCut(beg, fin) ==
  /\ content \in Seq(FileChar)
  /\ lines \in Seq(Seq(FileChar))
  /\ CutAt(content, "\n", lines, beg, fin)
  /\ beg[1] = 1 \/ (beg[1] = 2 /\ content[1] = "\n")

\* Every line that is not empty is a span of the file.
LEMMA LineIsSpan ==
  ASSUME NEW beg, NEW fin, LinesCut(beg, fin), NEW k \in 1 .. Len(lines), beg[k] <= fin[k]
  PROVE  <<beg[k], fin[k]>> \in LineSpans
<1>1. PICK N \in Nat, M \in Nat : N = Len(lines) /\ M = Len(content)
  BY LenProperties DEF LinesCut
<1>2. /\ \A i \in 1 .. N : beg[i] \in 1 .. M + 1 /\ fin[i] \in 0 .. M
      /\ \A p \in beg[k] .. fin[k] : content[p] # "\n"
      /\ fin[N] = M
      /\ \A i \in 1 .. N - 1 : beg[i + 1] = fin[i] + 2 /\ content[fin[i] + 1] = "\n"
      /\ beg[1] = 1 \/ (beg[1] = 2 /\ content[1] = "\n")
  BY <1>1 DEF LinesCut, CutAt, Without
<1>3. beg[k] \in 1 .. M /\ fin[k] \in 1 .. M
  BY <1>1, <1>2
<1>4. beg[k] = 1 \/ content[beg[k] - 1] = "\n"
  <2>1. CASE k = 1
    BY <1>2, <2>1
  <2>2. CASE k # 1
    <3>1. PICK i \in 1 .. N - 1 : k = i + 1
      <4>1. k - 1 \in 1 .. N - 1 /\ k = (k - 1) + 1
        BY <1>1, <2>2
      <4>2. QED
        BY <4>1
    <3>2. beg[k] = fin[i] + 2 /\ content[fin[i] + 1] = "\n" /\ fin[i] \in Int
      BY <1>2, <3>1
    <3>3. beg[k] - 1 = fin[i] + 1
      BY <3>2
    <3>4. QED
      BY <3>2, <3>3
  <2>3. QED
    BY <2>1, <2>2
<1>5. fin[k] = M \/ content[fin[k] + 1] = "\n"
  <2>1. CASE k = N
    BY <1>2, <2>1
  <2>2. CASE k # N
    <3>1. k \in 1 .. N - 1
      BY <1>1, <2>2
    <3>2. QED
      BY <1>2, <3>1
  <2>3. QED
    BY <2>1, <2>2
<1>6. PICK l \in (1 .. M) \X (1 .. M) :
        l = <<beg[k], fin[k]>> /\ l[1] = beg[k] /\ l[2] = fin[k]
  <2>1. <<beg[k], fin[k]>> \in (1 .. M) \X (1 .. M)
    BY <1>3
  <2>2. <<beg[k], fin[k]>>[1] = beg[k] /\ <<beg[k], fin[k]>>[2] = fin[k]
    OBVIOUS
  <2>3. QED
    BY <2>1, <2>2
<1>7. QED
  BY <1>1, <1>2, <1>4, <1>5, <1>6 DEF LineSpans

\* Every span of the file that is not empty is a line.
LEMMA SpanIsLine ==
  ASSUME NEW beg, NEW fin, LinesCut(beg, fin), NEW l \in LineSpans, l[1] <= l[2]
  PROVE  \E k \in 1 .. Len(lines) : beg[k] = l[1] /\ fin[k] = l[2]
<1>1. PICK N \in Nat, M \in Nat : N = Len(lines) /\ M = Len(content)
  BY LenProperties DEF LinesCut
<1>2. PICK a \in 1 .. M, e \in 1 .. M :
        /\ a = l[1] /\ e = l[2] /\ a <= e
        /\ a = 1 \/ content[a - 1] = "\n"
        /\ e = M \/ content[e + 1] = "\n"
        /\ \A p \in a .. e : content[p] # "\n"
  BY <1>1 DEF LineSpans
<1>3. /\ \A i \in 1 .. N : beg[i] \in 1 .. M + 1 /\ fin[i] \in 0 .. M /\ beg[i] <= fin[i] + 1
      /\ \A i \in 1 .. N : \A p \in beg[i] .. fin[i] : content[p] # "\n"
      /\ N # 0 /\ fin[N] = M
      /\ \A i \in 1 .. N - 1 : beg[i + 1] = fin[i] + 2 /\ content[fin[i] + 1] = "\n"
      /\ beg[1] = 1 \/ (beg[1] = 2 /\ content[1] = "\n")
  <2>1. CutAt(content, "\n", lines, beg, fin) /\ (beg[1] = 1 \/ (beg[1] = 2 /\ content[1] = "\n"))
    BY DEF LinesCut
  <2>2. N # 0
    <3>1. /\ fin \in [1 .. N -> 0 .. M] /\ beg \in [1 .. N -> 1 .. M + 1]
          /\ lines # <<>>
      BY <1>1, <2>1 DEF CutAt
    <3>2. lines \in Seq(Seq(FileChar))
      BY DEF LinesCut
    <3>3. QED
      BY <1>1, <3>1, <3>2, EmptySeq
  <2>3. QED
    BY <1>1, <2>1, <2>2 DEF CutAt, Without
<1> DEFINE Past == {k \in 1 .. N : fin[k] >= a}
<1>4. Past \in SUBSET Nat /\ Past # {}
  <2>1. N \in 1 .. N /\ fin[N] >= a
    BY <1>3
  <2>2. QED
    BY <2>1
<1>5. PICK k \in 1 .. N : fin[k] >= a /\ \A m \in 1 .. N : fin[m] >= a => k <= m
  <2>1. PICK k \in Past : \A m \in Past : k <= m
    <3> HIDE DEF Past
    <3>1. QED
      BY <1>4, Least
  <2>2. QED
    BY <2>1
<1> HIDE DEF Past
<1>6. beg[k] <= a
  <2>1. CASE k = 1
    <3>1. CASE beg[1] = 1
      BY <2>1, <3>1
    <3>2. CASE beg[1] = 2 /\ content[1] = "\n"
      <4>1. a # 1
        <5>1. a \in a .. e
          BY <1>2
        <5>2. QED
          BY <1>2, <3>2, <5>1
      <4>2. QED
        BY <2>1, <3>2, <4>1
    <3>3. QED
      BY <1>3, <3>1, <3>2
  <2>2. CASE k # 1
    <3>1. PICK i \in 1 .. N - 1 : k = i + 1 /\ i \in 1 .. N /\ ~(k <= i)
      <4>1. k - 1 \in 1 .. N - 1 /\ k = (k - 1) + 1 /\ k - 1 \in 1 .. N /\ ~(k <= k - 1)
        BY <2>2
      <4>2. QED
        BY <4>1
    <3>2. ~(fin[i] >= a)
      BY <1>5, <3>1
    <3>3. beg[k] = fin[i] + 2 /\ content[fin[i] + 1] = "\n" /\ fin[i] \in Int
      BY <1>3, <3>1
    <3>4. a # fin[i] + 1
      <4>1. a \in a .. e
        BY <1>2
      <4>2. QED
        BY <1>2, <3>3, <4>1
    <3>5. QED
      BY <3>2, <3>3, <3>4
  <2>3. QED
    BY <2>1, <2>2
<1>7. beg[k] \in Int /\ fin[k] \in Int /\ beg[k] >= 1 /\ fin[k] <= M
  BY <1>3
<1>8. beg[k] = a
  <2>1. SUFFICES ASSUME beg[k] # a PROVE FALSE
    OBVIOUS
  <2>2. a - 1 \in beg[k] .. fin[k] /\ a # 1
    BY <1>5, <1>6, <1>7, <2>1
  <2>3. QED
    BY <1>2, <1>3, <2>2
<1>9. e <= fin[k]
  <2>1. CASE k = N
    BY <1>3, <2>1
  <2>2. CASE k # N
    <3>1. content[fin[k] + 1] = "\n"
      BY <1>3, <2>2
    <3>2. SUFFICES ASSUME ~(e <= fin[k]) PROVE FALSE
      OBVIOUS
    <3>3. fin[k] + 1 \in a .. e
      BY <1>5, <1>7, <3>2
    <3>4. QED
      BY <1>2, <3>1, <3>3
  <2>3. QED
    BY <2>1, <2>2
<1>10. fin[k] = e
  <2>1. SUFFICES ASSUME fin[k] # e PROVE FALSE
    OBVIOUS
  <2>2. e + 1 \in beg[k] .. fin[k] /\ e # M
    BY <1>2, <1>6, <1>7, <1>9, <2>1
  <2>3. QED
    BY <1>2, <1>3, <2>2
<1>11. QED
  BY <1>1, <1>2, <1>8, <1>10
\* Line k defines a name, completely.
Defines(k) ==
  /\ ~Ignored(lines[k])
  /\ Definition(lines[k]).name # <<>> /\ Definition(lines[k]).value # <<>>

\* What FirstDefinitionWins reads off the place where line k is.
Reading(beg, k) ==
  [at |-> beg[k], name |-> Definition(lines[k]).name, value |-> Definition(lines[k]).value]

\* What FirstDefinitionWins reads off the stretch l.
Reads(l) ==
  [at |-> l[1], name |-> NameIn(l[1], Min(EqualSigns(l))),
   value |-> ValueIn(Min(EqualSigns(l)), l[2])]

\* What a line defines is what is read off the stretch it is.
LEMMA LineRead ==
  ASSUME NEW beg, NEW fin, LinesCut(beg, fin), NEW k \in 1 .. Len(lines),
         NEW l, l[1] = beg[k], l[2] = fin[k]
  PROVE  /\ Ignored(lines[k]) <=> (EqualSigns(l) = {} \/ content[Min(InkOf(l))] = "#")
         /\ ~Ignored(lines[k]) => Reading(beg, k) = Reads(l)
<1>1. /\ content \in Seq(FileChar)
      /\ beg[k] \in 1 .. Len(content) + 1 /\ fin[k] \in 0 .. Len(content)
      /\ lines[k] = SubSeq(content, beg[k], fin[k])
  BY DEF LinesCut, CutAt
<1>2. PICK a \in 1 .. Len(content) + 1, b \in 0 .. Len(content) :
        /\ a = beg[k] /\ b = fin[k] /\ l[1] = a /\ l[2] = b
  BY <1>1
<1>6. PICK line : line = lines[k] /\ line = SubSeq(content, a, b)
  BY <1>1, <1>2
<1>3. /\ Ignored(line) <=> (EqualSigns(l) = {} \/ content[Min(InkOf(l))] = "#")
      /\ ~Ignored(line) =>
           Definition(line) = [name |-> NameIn(a, Min(EqualSigns(l))),
                               value |-> ValueIn(Min(EqualSigns(l)), b)]
  <2>1. content \in Seq(FileChar) /\ l[1] = a /\ l[2] = b /\ line = SubSeq(content, a, b)
    BY <1>1, <1>2, <1>6
  <2>2. QED
    BY <2>1, LineDefines, Zenon
<1>4. ~Ignored(lines[k]) => Reading(beg, k) = Reads(l)
  BY <1>2, <1>3, <1>6 DEF Reading, Reads
<1>5. QED
  BY <1>2, <1>3, <1>4, <1>6

\* The complete definitions of the file are those of its lines.
LEMMA CompleteAreLines ==
  ASSUME NEW beg, NEW fin, LinesCut(beg, fin)
  PROVE  \A d : d \in Complete <=> \E k \in 1 .. Len(lines) : Defines(k) /\ d = Reading(beg, k)
<1>1. Definitions = {Reads(l) : l \in {j \in LineSpans : EqualSigns(j) # {}
                                                  /\ content[Min(InkOf(j))] # "#"}}
  BY DEF Definitions, Reads, NameIn, ValueIn
<1>2. ASSUME NEW d \in Complete
      PROVE  \E k \in 1 .. Len(lines) : Defines(k) /\ d = Reading(beg, k)
  <2>1. d \in Definitions /\ d.name # <<>> /\ d.value # <<>>
    BY DEF Complete
  <2>2. PICK l \in LineSpans : /\ d = Reads(l) /\ EqualSigns(l) # {}
                               /\ content[Min(InkOf(l))] # "#"
    BY <1>1, <2>1
  <2>3. l[1] <= l[2]
    <3>1. PICK p : p \in l[1] .. l[2]
      BY <2>2 DEF EqualSigns
    <3>2. Len(content) \in Nat
      BY LenProperties DEF LinesCut
    <3>3. l[1] \in 1 .. Len(content) /\ l[2] \in 1 .. Len(content)
      BY <2>2 DEF LineSpans
    <3>4. QED
      BY <3>1, <3>2, <3>3
  <2>4. PICK k \in 1 .. Len(lines) : beg[k] = l[1] /\ fin[k] = l[2]
    BY <2>2, <2>3, SpanIsLine
  <2>5. ~Ignored(lines[k]) /\ d = Reading(beg, k)
    BY <2>2, <2>4, LineRead
  <2>6. Defines(k)
    BY <2>1, <2>5 DEF Defines, Reading
  <2>7. QED
    BY <2>5, <2>6
<1>3. ASSUME NEW k \in 1 .. Len(lines), Defines(k)
      PROVE  Reading(beg, k) \in Complete
  <2>1. PICK l : l = <<beg[k], fin[k]>> /\ l[1] = beg[k] /\ l[2] = fin[k]
    <3>1. <<beg[k], fin[k]>>[1] = beg[k] /\ <<beg[k], fin[k]>>[2] = fin[k]
      OBVIOUS
    <3>2. QED
      BY <3>1
  <2>2. ~Ignored(lines[k])
    BY <1>3 DEF Defines
  <2>3. /\ EqualSigns(l) # {} /\ content[Min(InkOf(l))] # "#"
        /\ Reading(beg, k) = Reads(l)
    BY <2>1, <2>2, LineRead
  <2>4. beg[k] <= fin[k]
    <3>1. PICK p : p \in beg[k] .. fin[k]
      BY <2>1, <2>3 DEF EqualSigns
    <3>2. Len(content) \in Nat
      BY LenProperties DEF LinesCut
    <3>3. beg[k] \in 1 .. Len(content) + 1 /\ fin[k] \in 0 .. Len(content)
      BY DEF LinesCut, CutAt
    <3>4. QED
      BY <3>1, <3>2, <3>3
  <2>5. l \in LineSpans
    BY <2>1, <2>4, LineIsSpan
  <2>6. Reading(beg, k) \in Definitions
    BY <1>1, <2>3, <2>5
  <2>7. QED
    BY <1>3, <2>6 DEF Complete, Defines, Reading
<1>4. QED
  BY <1>2, <1>3

\* map_ holds the first complete definition of every name that the lines
\* parsed so far define.
MapOfLines(n) ==
  /\ \A e \in map :
       \E j \in 1 .. n :
         /\ Defines(j) /\ e = Definition(lines[j])
         /\ \A i \in 1 .. j - 1 : Defines(i) => Definition(lines[i]).name # e.name
  /\ \A j \in 1 .. n : Defines(j) => \E e \in map : e.name = Definition(lines[j]).name

\* get_str finds what the first complete definition says.
LEMMA LookedUp ==
  ASSUME NEW beg, NEW fin, LinesCut(beg, fin), MapOfLines(Len(lines)), NEW name
  PROVE  get_str(name) = Defined(name)
<1>1. PICK N \in Nat : N = Len(lines)
  BY LenProperties DEF LinesCut
<1>7. \A k \in 1 .. N : beg[k] \in Int /\ fin[k] \in Int /\ beg[k] <= fin[k] + 1
  <2>1. PICK M \in Nat : M = Len(content)
    BY LenProperties DEF LinesCut
  <2>2. \A k \in 1 .. N : beg[k] \in 1 .. M + 1 /\ fin[k] \in 0 .. M /\ beg[k] <= fin[k] + 1
    BY <1>1, <2>1 DEF LinesCut, CutAt
  <2>3. QED
    BY <2>2
<1> DEFINE of == {d \in Complete : d.name = name}
<1>2. \A d : d \in Complete <=> \E k \in 1 .. N : Defines(k) /\ d = Reading(beg, k)
  BY <1>1, CompleteAreLines
<1>3. \A k \in 1 .. N : /\ Reading(beg, k).at = beg[k]
                        /\ Reading(beg, k).name = Definition(lines[k]).name
                        /\ Reading(beg, k).value = Definition(lines[k]).value
  BY DEF Reading
<1>4. CASE ~\E e \in map : e.name = name
  <2>1. of = {}
    <3>1. SUFFICES ASSUME NEW d \in of PROVE FALSE
      OBVIOUS
    <3>2. PICK k \in 1 .. N : Defines(k) /\ d = Reading(beg, k) /\ d.name = name
      BY <1>2
    <3>3. QED
      BY <1>1, <1>3, <1>4, <3>2 DEF MapOfLines
  <2>2. QED
    BY <1>4, <2>1 DEF get_str, Defined
<1>5. CASE \E e \in map : e.name = name
  <2>1. PICK e : e = CHOOSE f \in map : f.name = name
    OBVIOUS
  <2>2. e \in map /\ e.name = name
    BY <1>5, <2>1
  <2>3. PICK j \in 1 .. N :
          /\ Defines(j) /\ e = Definition(lines[j])
          /\ \A i \in 1 .. j - 1 : Defines(i) => Definition(lines[i]).name # name
    BY <1>1, <2>2 DEF MapOfLines
  <2>4. ASSUME NEW d \in of
        PROVE  d.at \in Int /\ beg[j] <= d.at /\ (d.at <= beg[j] => d.value = e.value)
    <3>1. PICK k \in 1 .. N : Defines(k) /\ d = Reading(beg, k) /\ d.name = name
      BY <1>2
    <3>2. d.at = beg[k] /\ Definition(lines[k]).name = name
      BY <1>3, <3>1
    <3>3. ~(k < j)
      <4>1. SUFFICES ASSUME k < j PROVE FALSE
        OBVIOUS
      <4>2. k \in 1 .. j - 1
        BY <4>1
      <4>3. QED
        BY <2>3, <3>1, <3>2, <4>2
    <3>4. CASE k = j
      <4>1. beg[j] \in Int
        BY <1>7
      <4>2. QED
        BY <1>3, <2>3, <3>1, <3>2, <3>4, <4>1
    <3>5. CASE k # j
      <4>1. fin[j] + 2 <= beg[k]
        <5>1. j < k /\ Len(lines) \in Nat
          BY <1>1, <3>3, <3>5
        <5>2. content \in Seq(FileChar) /\ CutAt(content, "\n", lines, beg, fin)
          BY DEF LinesCut
        <5>3. QED
          BY <1>1, <5>1, <5>2, CutOrdered
      <4>2. /\ beg[j] \in Int /\ fin[j] \in Int /\ beg[k] \in Int
            /\ beg[j] <= fin[j] + 1
        BY <1>7
      <4>3. QED
        BY <3>2, <4>1, <4>2
    <3>6. QED
      BY <3>4, <3>5
  <2>5. Reading(beg, j) \in of /\ Reading(beg, j).at = beg[j]
    BY <1>2, <1>3, <2>2, <2>3
  <2> HIDE DEF of
  <2>6. PICK d : d = CHOOSE x \in of : \A y \in of : x.at <= y.at
    OBVIOUS
  <2>7. d \in of /\ \A y \in of : d.at <= y.at
    <3>1. \E x \in of : \A y \in of : x.at <= y.at
      BY <2>4, <2>5
    <3>2. QED
      BY <2>6, <3>1
  <2>8. d.value = e.value
    BY <2>4, <2>5, <2>7
  <2>9. get_str(name) = e.value
    BY <1>5, <2>1 DEF get_str
  <2>10. Defined(name) = d.value
    BY <2>5, <2>6 DEF Defined, of
  <2>11. QED
    BY <2>8, <2>9, <2>10
<1>6. QED
  BY <1>4, <1>5
LEMMA LinesAreCut ==
  ASSUME content \in Seq(FileChar), content # <<>>, lines = split_str(content, <<"\n">>)
  PROVE  \E beg, fin : LinesCut(beg, fin)
<1>1. PICK key, ls : /\ key = <<"\n">> /\ Len(key) = 1 /\ key[1] = "\n"
                     /\ ls = lines /\ ls = split_str(content, key)
  BY OneChar
<1>2. PICK s \in Seq(FileChar) : s = content
  OBVIOUS
<1>3. /\ ls \in Seq(Seq(FileChar))
      /\ IsCut(s, "\n", ls, 1) \/ (IsCut(s, "\n", ls, 2) /\ s[1] = "\n")
  <2>1. s # <<>> /\ ls = split_str(s, key)
    BY <1>1, <1>2
  <2>2. QED
    BY <1>1, <2>1, SplitIsCut
<1>4. QED
  BY <1>1, <1>2, <1>3 DEF IsCut, LinesCut

\* What map_ holds while the lines are gone through.
MapInv ==
  /\ stage = "read" => map = {}
  /\ stage \in {"parse", "ready"} => MapOfLines(next - 1)
  /\ stage = "ready" => next = Len(lines) + 1

LEMMA MapStarts == IniInit => MapInv
BY DEF IniInit, MapInv

\* The next line is gone through.
LEMMA ParsedOne ==
  ASSUME NEW n, n = next, IniInv, MapInv, ParseLine
  PROVE  MapOfLines(n)' /\ n \in Nat
<1>1. /\ Len(lines) \in Nat /\ n \in 1 .. Len(lines) /\ MapOfLines(n - 1)
      /\ lines' = lines /\ lines[n] \in Seq(FileChar)
  <2>1. lines \in Seq(Seq(FileChar)) /\ Len(lines) \in Nat /\ next \in 1 .. Len(lines) + 1
    BY LenProperties DEF IniInv, IniTypeOK
  <2>2. n \in 1 .. Len(lines)
    BY <2>1 DEF ParseLine
  <2>3. lines[n] \in Seq(FileChar)
    BY <2>1, <2>2, ElementOfSeq
  <2>4. QED
    BY <2>1, <2>2, <2>3 DEF MapInv, ParseLine
<1>2. /\ \A e \in map :
           \E j \in 1 .. n :
             /\ Defines(j) /\ e = Definition(lines[j])
             /\ \A i \in 1 .. j - 1 : Defines(i) => Definition(lines[i]).name # e.name
      /\ \A j \in 1 .. n - 1 : Defines(j) => \E e \in map : e.name = Definition(lines[j]).name
  <2>1. 1 .. n - 1 \subseteq 1 .. n
    BY <1>1
  <2>2. QED
    BY <1>1, <2>1 DEF MapOfLines
<1>3. \A j \in 1 .. n : j = n \/ j \in 1 .. n - 1
  BY <1>1
<1>4. /\ map \subseteq map'
      /\ \A e \in map' \ map :
           /\ Defines(n) /\ e = Definition(lines[n])
           /\ ~\E f \in map : f.name = e.name
      /\ Defines(n) => \E e \in map' : e.name = Definition(lines[n]).name
  <2>1. CASE Ignored(lines[n])
    BY <2>1 DEF ParseLine, Defines
  <2>2. CASE ~Ignored(lines[n])
    <3>1. PICK d : d = Definition(lines[n])
      OBVIOUS
    <3>2. map' = IF d.name = <<>> \/ d.value = <<>> \/ \E e \in map : e.name = d.name
                 THEN map ELSE map \cup {d}
      BY <2>2, <3>1 DEF ParseLine, Store
    <3>3. Defines(n) <=> d.name # <<>> /\ d.value # <<>>
      BY <2>2, <3>1 DEF Defines
    <3>4. QED
      BY <3>1, <3>2, <3>3
  <2>3. QED
    BY <2>1, <2>2
<1>5. ASSUME NEW e \in map'
      PROVE  \E j \in 1 .. n :
               /\ Defines(j) /\ e = Definition(lines[j])
               /\ \A i \in 1 .. j - 1 : Defines(i) => Definition(lines[i]).name # e.name
  <2>1. CASE e \in map
    BY <1>2, <2>1
  <2>2. CASE e \notin map
    <3>1. n \in 1 .. n
      BY <1>1
    <3>2. QED
      BY <1>2, <1>4, <2>2, <3>1
  <2>3. QED
    BY <2>1, <2>2
<1>6. ASSUME NEW j \in 1 .. n, Defines(j)
      PROVE  \E e \in map' : e.name = Definition(lines[j]).name
  BY <1>2, <1>3, <1>4, <1>6
<1>7. \A j : Defines(j)' <=> Defines(j)
  BY <1>1 DEF Defines
<1>8. MapOfLines(n)'
  BY <1>1, <1>5, <1>6, <1>7 DEF MapOfLines
<1>9. QED
  BY <1>1, <1>8

LEMMA MapStep == IniInv /\ MapInv /\ [IniNext]_iniVars => MapInv'
<1> SUFFICES ASSUME IniInv, MapInv, [IniNext]_iniVars PROVE MapInv'
  OBVIOUS
<1>1. CASE OpenFails
  BY <1>1 DEF OpenFails, MapInv
<1>2. CASE Read
  <2>1. map' = {} /\ stage' = "parse"
    BY <1>2 DEF Read, MapInv
  <2>2. next' = 1
    <3>1. lines = <<>> /\ next \in 1 .. Len(lines) + 1
      BY <1>2 DEF Read, IniInv, IniTypeOK
    <3>2. QED
      BY <1>2, <3>1 DEF Read
  <2>3. MapOfLines(0)' /\ next' - 1 = 0
    BY <2>1, <2>2 DEF MapOfLines
  <2>4. QED
    BY <2>1, <2>3 DEF MapInv
<1>3. CASE ParseLine
  <2>1. PICK n : n = next
    OBVIOUS
  <2>2. MapOfLines(n)' /\ n \in Nat
    BY <1>3, <2>1, ParsedOne
  <2>3. next' - 1 = n /\ stage' = "parse"
    BY <1>3, <2>1, <2>2 DEF ParseLine
  <2>4. QED
    BY <2>2, <2>3 DEF MapInv
<1>4. CASE Finish
  <2>1. next' = next /\ lines' = lines /\ map' = map /\ stage = "parse" /\ stage' = "ready"
    BY <1>4 DEF Finish
  <2>2. next = Len(lines) + 1
    BY <1>4, LenProperties DEF Finish, IniInv, IniTypeOK
  <2>3. MapOfLines(next - 1)' <=> MapOfLines(next - 1)
    BY <2>1 DEF MapOfLines, Defines
  <2>4. QED
    BY <2>1, <2>2, <2>3 DEF MapInv
<1>5. CASE UNCHANGED iniVars
  <2>1. UNCHANGED <<stage, next, lines, map>>
    BY <1>5 DEF iniVars
  <2>2. MapOfLines(next - 1)' <=> MapOfLines(next - 1)
    BY <2>1 DEF MapOfLines, Defines
  <2>3. QED
    BY <2>1, <2>2 DEF MapInv
<1>6. QED
  BY <1>1, <1>2, <1>3, <1>4, <1>5 DEF IniNext, IniOver

LEMMA InvFirstWins == IniInv /\ MapInv => FirstDefinitionWins
<1> SUFFICES ASSUME IniInv, MapInv, stage = "ready",
                    NEW name \in {d.name : d \in Complete \cup map}
             PROVE  get_str(name) = Defined(name)
  BY DEF FirstDefinitionWins
<1>1. /\ content \in Seq(FileChar) /\ lines = split_str(content, <<"\n">>)
      /\ Len(lines) \in Nat /\ MapOfLines(Len(lines))
  <2>1. lines \in Seq(Seq(FileChar)) /\ Len(lines) \in Nat
    BY LenProperties DEF IniInv, IniTypeOK
  <2>2. next - 1 = Len(lines)
    BY <2>1 DEF MapInv
  <2>3. QED
    BY <2>1, <2>2 DEF IniInv, IniTypeOK, MapInv
<1>2. CASE content = <<>>
  <2>1. Len(lines) = 0
    BY <1>1, <1>2 DEF split_str
  <2>2. map = {}
    BY <1>1, <2>1 DEF MapOfLines
  <2>3. Complete = {}
    BY <1>2 DEF Complete, Definitions, LineSpans
  <2>4. QED
    BY <2>2, <2>3
<1>3. CASE content # <<>>
  <2>1. PICK beg, fin : LinesCut(beg, fin)
    BY <1>1, <1>3, LinesAreCut
  <2>2. QED
    BY <1>1, <2>1, LookedUp
<1>4. QED
  BY <1>2, <1>3

\* After init(), whatever the file is, get_str returns for every name the value
\* the first complete definition in the file gives it, and nothing for a name
\* the file does not define completely (init, get_str, split_str, trim).
THEOREM FirstDefinitionIsKept == IniSpec => []FirstDefinitionWins
<1>1. QED
  BY IniStarts, IniStep, MapStarts, MapStep, InvFirstWins, PTL DEF IniSpec
-----------------------------------------------------------------------------
(* Numbers in decimal notation *)

LEMMA DivMod ==
  ASSUME NEW n \in Nat
  PROVE  /\ n \div 10 \in Nat /\ n % 10 \in 0 .. 9
         /\ n = 10 * (n \div 10) + (n % 10)
         /\ n >= 10 => n \div 10 \in 1 .. n - 1
  OBVIOUS

LEMMA DivModOf ==
  ASSUME NEW q \in Nat, NEW r \in 0 .. 9
  PROVE  (10 * q + r) \div 10 = q /\ (10 * q + r) % 10 = r /\ 10 * q + r \in Nat
  OBVIOUS

LEMMA DigitsDiffer ==
  /\ \A v, w \in 0 .. 9 : Digits[v + 1] = Digits[w + 1] => v = w
  /\ Digits[1] = "0"
  /\ \A v \in 0 .. 9 : Digits[v + 1] \notin {"-", "+"}
  BY DEF Digits

LEMMA DigitValues ==
  /\ \A v \in 0 .. 9 : IsDigit(Digits[v + 1]) /\ DigitValue(Digits[v + 1]) = v
  /\ \A c : IsDigit(c) => DigitValue(c) \in 0 .. 9 /\ Digits[DigitValue(c) + 1] = c
<1>1. ASSUME NEW c, IsDigit(c)
      PROVE  DigitValue(c) \in 0 .. 9 /\ Digits[DigitValue(c) + 1] = c
  BY <1>1 DEF IsDigit, DigitValue
<1>2. ASSUME NEW v \in 0 .. 9
      PROVE  IsDigit(Digits[v + 1]) /\ DigitValue(Digits[v + 1]) = v
  <2>1. IsDigit(Digits[v + 1])
    BY DEF IsDigit
  <2>2. PICK w : w = DigitValue(Digits[v + 1])
    OBVIOUS
  <2>3. w \in 0 .. 9 /\ Digits[w + 1] = Digits[v + 1]
    BY <1>1, <2>1, <2>2
  <2>4. QED
    BY <2>1, <2>2, <2>3, DigitsDiffer
<1>3. QED
  BY <1>1, <1>2

\* The equation of Numeral, for a function f in its place.
NumeralBody(f, n) ==
  (IF n < 10 THEN <<>> ELSE f[n \div 10]) \o <<Digits[(n % 10) + 1]>>

NumeralsUpTo(f, m) ==
  /\ f = [n \in 0 .. m |-> f[n]]
  /\ \A n \in 0 .. m : f[n] = NumeralBody(f, n)

LEMMA NumeralsExist ==
  ASSUME NEW m \in Nat
  PROVE  \E f : NumeralsUpTo(f, m)
<1> DEFINE Bad == {n \in Nat : ~\E f : NumeralsUpTo(f, n)}
<1>1. ASSUME NEW n \in Bad, \A k \in Bad : n <= k PROVE FALSE
  <2>1. n \in Nat /\ ~\E f : NumeralsUpTo(f, n)
    OBVIOUS
  <2>2. PICK g : n > 0 => NumeralsUpTo(g, n - 1)
    <3>1. CASE n = 0
      BY <3>1
    <3>2. CASE n # 0
      <4>1. n - 1 \in Nat /\ ~(n <= n - 1)
        BY <2>1, <3>2
      <4>2. n - 1 \notin Bad
        BY <1>1, <4>1
      <4>3. QED
        BY <4>1, <4>2
    <3>3. QED
      BY <3>1, <3>2
  <2> DEFINE f == [k \in 0 .. n |-> IF k = n THEN NumeralBody(g, n) ELSE g[k]]
  <2>3. ASSUME NEW k \in 0 .. n PROVE f[k] = NumeralBody(f, k)
    <3>1. f[k] = NumeralBody(g, k)
      <4>1. CASE k = n
        BY <4>1
      <4>2. CASE k # n
        <5>1. n > 0 /\ k \in 0 .. n - 1
          BY <2>1, <4>2
        <5>2. g[k] = NumeralBody(g, k)
          BY <2>2, <5>1 DEF NumeralsUpTo
        <5>3. QED
          BY <4>2, <5>2
      <4>3. QED
        BY <4>1, <4>2
    <3>2. CASE k < 10
      BY <3>1, <3>2 DEF NumeralBody
    <3>3. CASE ~(k < 10)
      <4>1. PICK q : q = k \div 10
        OBVIOUS
      <4>2. q \in 0 .. n /\ q # n
        BY <2>1, <3>3, <4>1, DivMod
      <4>3. f[q] = g[q]
        BY <4>2
      <4>4. QED
        BY <3>1, <4>1, <4>3 DEF NumeralBody
    <3>4. QED
      BY <3>2, <3>3
  <2>4. f = [k \in 0 .. n |-> f[k]]
    OBVIOUS
  <2> HIDE DEF f
  <2>5. NumeralsUpTo(f, n)
    BY <2>3, <2>4 DEF NumeralsUpTo
  <2>6. QED
    BY <2>1, <2>5
<1>2. Bad = {}
  <2>1. Bad \in SUBSET Nat
    OBVIOUS
  <2>2. QED
    BY <1>1, <2>1, Least
<1>3. QED
  BY <1>2

LEMMA NumeralsAgree ==
  ASSUME NEW m \in Nat, NEW f, NumeralsUpTo(f, m),
         NEW l \in Nat, NEW g, NumeralsUpTo(g, l),
         NEW n \in 0 .. m, n <= l
  PROVE  f[n] = g[n]
<1> DEFINE Bad == {k \in 0 .. n : f[k] # g[k]}
<1>1. ASSUME NEW k \in Bad, \A i \in Bad : k <= i PROVE FALSE
  <2>1. k \in Nat /\ k \in 0 .. n /\ k \in 0 .. m /\ k \in 0 .. l /\ f[k] # g[k]
    OBVIOUS
  <2>2. f[k] = NumeralBody(f, k) /\ g[k] = NumeralBody(g, k)
    BY <2>1 DEF NumeralsUpTo
  <2>3. CASE k < 10
    BY <2>1, <2>2, <2>3 DEF NumeralBody
  <2>4. CASE ~(k < 10)
    <3>1. PICK q : q = k \div 10
      OBVIOUS
    <3>2. q \in 0 .. n /\ ~(k <= q)
      BY <2>1, <2>4, <3>1, DivMod
    <3>3. f[q] = g[q]
      BY <1>1, <3>2
    <3>4. QED
      BY <2>1, <2>2, <3>1, <3>3 DEF NumeralBody
  <2>5. QED
    BY <2>3, <2>4
<1>2. Bad = {}
  <2>1. Bad \in SUBSET Nat
    OBVIOUS
  <2>2. QED
    BY <1>1, <2>1, Least
<1>3. QED
  BY <1>2

LEMMA NumeralDefined ==
  \A n \in Nat : Numeral[n] = NumeralBody(Numeral, n)
<1> DEFINE F == [n \in Nat |-> (CHOOSE f : NumeralsUpTo(f, n))[n]]
<1>1. ASSUME NEW n \in Nat PROVE F[n] = NumeralBody(F, n)
  <2>1. PICK f : f = CHOOSE g : NumeralsUpTo(g, n)
    OBVIOUS
  <2>2. NumeralsUpTo(f, n)
    BY <2>1, NumeralsExist
  <2>3. F[n] = f[n] /\ f[n] = NumeralBody(f, n)
    BY <2>1, <2>2 DEF NumeralsUpTo
  <2>4. CASE n < 10
    BY <2>3, <2>4 DEF NumeralBody
  <2>5. CASE ~(n < 10)
    <3>1. PICK q : q = n \div 10
      OBVIOUS
    <3>2. q \in Nat /\ q \in 0 .. n
      BY <2>5, <3>1, DivMod
    <3>3. PICK h : h = CHOOSE g : NumeralsUpTo(g, q)
      OBVIOUS
    <3>4. NumeralsUpTo(h, q) /\ F[q] = h[q]
      BY <3>2, <3>3, NumeralsExist
    <3>5. q \in 0 .. q /\ q <= n
      BY <3>2
    <3>6. h[q] = f[q]
      BY <2>2, <3>2, <3>4, <3>5, NumeralsAgree
    <3>7. QED
      BY <2>3, <3>1, <3>4, <3>6 DEF NumeralBody
  <2>6. QED
    BY <2>4, <2>5
<1>2. F = [n \in Nat |-> NumeralBody(F, n)]
  <2>1. F = [n \in Nat |-> F[n]]
    OBVIOUS
  <2> HIDE DEF F
  <2>2. QED
    BY <1>1, <2>1
<1>3. \E f : f = [n \in Nat |-> NumeralBody(f, n)]
  BY <1>2
<1>4. Numeral = [n \in Nat |-> NumeralBody(Numeral, n)]
  BY <1>3 DEF Numeral, NumeralBody
<1>5. QED
  BY <1>4

\* The equation of Prefixes10.
ValueBody(text, f, n) == IF n = 0 THEN 0 ELSE 10 * f[n - 1] + DigitValue(text[n])

ValuesUpTo(text, f, m) ==
  /\ f = [n \in 0 .. m |-> f[n]]
  /\ \A n \in 0 .. m : f[n] = ValueBody(text, f, n)

LEMMA PrefixesDefined ==
  ASSUME NEW text, Len(text) \in Nat
  PROVE  \A n \in 0 .. Len(text) :
           Prefixes10(text)[n] = ValueBody(text, Prefixes10(text), n)
<1> DEFINE Bad == {n \in Nat : ~\E f : ValuesUpTo(text, f, n)}
<1>1. ASSUME NEW n \in Bad, \A k \in Bad : n <= k PROVE FALSE
  <2>1. n \in Nat /\ ~\E f : ValuesUpTo(text, f, n)
    OBVIOUS
  <2>2. PICK g : n > 0 => ValuesUpTo(text, g, n - 1)
    <3>1. CASE n = 0
      BY <3>1
    <3>2. CASE n # 0
      <4>1. n - 1 \in Nat /\ ~(n <= n - 1)
        BY <2>1, <3>2
      <4>2. n - 1 \notin Bad
        BY <1>1, <4>1
      <4>3. QED
        BY <4>1, <4>2
    <3>3. QED
      BY <3>1, <3>2
  <2> DEFINE f == [k \in 0 .. n |-> IF k = n THEN ValueBody(text, g, n) ELSE g[k]]
  <2>3. ASSUME NEW k \in 0 .. n PROVE f[k] = ValueBody(text, f, k)
    <3>1. f[k] = ValueBody(text, g, k)
      <4>1. CASE k = n
        BY <4>1
      <4>2. CASE k # n
        <5>1. n > 0 /\ k \in 0 .. n - 1
          BY <2>1, <4>2
        <5>2. g[k] = ValueBody(text, g, k)
          BY <2>2, <5>1 DEF ValuesUpTo
        <5>3. QED
          BY <4>2, <5>2
      <4>3. QED
        BY <4>1, <4>2
    <3>2. CASE k = 0
      BY <3>1, <3>2 DEF ValueBody
    <3>3. CASE k # 0
      <4>1. k - 1 \in 0 .. n /\ k - 1 # n
        BY <2>1, <3>3
      <4>2. f[k - 1] = g[k - 1]
        BY <4>1
      <4>3. QED
        BY <3>1, <4>2 DEF ValueBody
    <3>4. QED
      BY <3>2, <3>3
  <2>4. f = [k \in 0 .. n |-> f[k]]
    OBVIOUS
  <2> HIDE DEF f
  <2>5. ValuesUpTo(text, f, n)
    BY <2>3, <2>4 DEF ValuesUpTo
  <2>6. QED
    BY <2>1, <2>5
<1>2. Bad = {}
  <2>1. Bad \in SUBSET Nat
    OBVIOUS
  <2>2. QED
    BY <1>1, <2>1, Least
<1>3. PICK f : ValuesUpTo(text, f, Len(text))
  BY <1>2
<1>4. f = [n \in 0 .. Len(text) |-> ValueBody(text, f, n)]
  <2>1. f = [n \in 0 .. Len(text) |-> f[n]]
    BY <1>3 DEF ValuesUpTo
  <2>2. \A n \in 0 .. Len(text) : f[n] = ValueBody(text, f, n)
    BY <1>3 DEF ValuesUpTo
  <2>3. QED
    BY <2>1, <2>2
<1>5. Prefixes10(text) = [n \in 0 .. Len(text) |-> ValueBody(text, Prefixes10(text), n)]
  <2>1. \E g : g = [n \in 0 .. Len(text) |-> ValueBody(text, g, n)]
    BY <1>4
  <2>2. QED
    BY <2>1 DEF Prefixes10, ValueBody
<1>6. QED
  BY <1>5

\* The digits a numeral is made of.
DigitChars == {Digits[v + 1] : v \in 0 .. 9}

\* A numeral, by its last digit and what is in front of it.
LEMMA NumeralParts ==
  ASSUME NEW n \in Nat
  PROVE  /\ Numeral[n] \in Seq(DigitChars) /\ Len(Numeral[n]) \in Nat \ {0}
         /\ n < 10 => Len(Numeral[n]) = 1 /\ Numeral[n][1] = Digits[n + 1]
         /\ ~(n < 10) =>
              /\ Len(Numeral[n]) = Len(Numeral[n \div 10]) + 1
              /\ \A j \in 1 .. Len(Numeral[n \div 10]) :
                   Numeral[n][j] = Numeral[n \div 10][j]
              /\ Numeral[n][Len(Numeral[n])] = Digits[(n % 10) + 1]
<1> DEFINE S == DigitChars
           LastDigit(k) == <<Digits[(k % 10) + 1]>>
           Bad == {k \in Nat : Numeral[k] \notin Seq(S)}
<1>1. ASSUME NEW k \in Nat
      PROVE  LastDigit(k) \in Seq(S) /\ Len(LastDigit(k)) = 1 /\ LastDigit(k)[1] = Digits[(k % 10) + 1]
  <2>1. Digits[(k % 10) + 1] \in S
    BY DivMod DEF DigitChars
  <2>2. QED
    BY <2>1
<1>2. ASSUME NEW k \in Nat, k < 10
      PROVE  Numeral[k] = LastDigit(k) /\ k % 10 = k
  <2>1. Numeral[k] = <<>> \o LastDigit(k)
    BY <1>2, NumeralDefined DEF NumeralBody
  <2>2. LastDigit(k) \in Seq(S)
    BY <1>1
  <2> HIDE DEF LastDigit, S
  <2>3. <<>> \o LastDigit(k) = LastDigit(k)
    BY <2>2, ConcatEmptySeq
  <2>4. k % 10 = k
    BY <1>2
  <2>5. QED
    BY <2>1, <2>3, <2>4
<1>3. ASSUME NEW k \in Nat, ~(k < 10)
      PROVE  Numeral[k] = Numeral[k \div 10] \o LastDigit(k)
  BY <1>3, NumeralDefined DEF NumeralBody
<1> HIDE DEF LastDigit, S
<1>4. ASSUME NEW k \in Bad, \A i \in Bad : k <= i PROVE FALSE
  <2>1. k \in Nat /\ Numeral[k] \notin Seq(S)
    OBVIOUS
  <2>2. CASE k < 10
    BY <1>1, <1>2, <2>1, <2>2
  <2>3. CASE ~(k < 10)
    <3>1. PICK q : q = k \div 10
      OBVIOUS
    <3>2. q \in Nat /\ ~(k <= q)
      BY <2>1, <2>3, <3>1, DivMod
    <3>3. Numeral[q] \in Seq(S)
      BY <1>4, <3>2
    <3>4. Numeral[q] \o LastDigit(k) \in Seq(S)
      BY <1>1, <2>1, <3>3, ConcatParts
    <3>5. QED
      BY <1>3, <2>1, <2>3, <3>1, <3>4
  <2>4. QED
    BY <2>2, <2>3
<1>5. Bad = {}
  <2>1. Bad \in SUBSET Nat
    OBVIOUS
  <2>2. QED
    BY <1>4, <2>1, Least
<1>6. \A k \in Nat : Numeral[k] \in Seq(S) /\ Len(Numeral[k]) \in Nat
  BY <1>5, LenProperties
<1>7. CASE n < 10
  <2>1. Numeral[n] = LastDigit(n) /\ n % 10 = n /\ Len(LastDigit(n)) = 1
        /\ LastDigit(n)[1] = Digits[n + 1]
    BY <1>1, <1>2, <1>7
  <2>2. QED
    BY <1>6, <1>7, <2>1 DEF S
<1>8. CASE ~(n < 10)
  <2>1. PICK q \in Nat : q = n \div 10
    BY DivMod
  <2>2. PICK a, d : a = Numeral[q] /\ d = LastDigit(n)
    OBVIOUS
  <2>3. a \in Seq(S) /\ d \in Seq(S) /\ Len(d) = 1 /\ d[1] = Digits[(n % 10) + 1]
    BY <1>1, <1>6, <2>2
  <2>4. PICK l \in Nat : l = Len(a)
    BY <1>6, <2>2
  <2>5. /\ Len(a \o d) = l + 1
        /\ \A j \in 1 .. l : (a \o d)[j] = a[j]
        /\ (a \o d)[l + 1] = d[1]
    <3>1. /\ Len(a \o d) = Len(a) + Len(d)
          /\ \A j \in 1 .. Len(a) + Len(d) :
               (a \o d)[j] = IF j <= Len(a) THEN a[j] ELSE d[j - Len(a)]
      BY <2>3, ConcatProperties
    <3>2. Len(a) + Len(d) = l + 1 /\ (l + 1) - l = 1 /\ ~(l + 1 <= l)
      BY <2>3, <2>4
    <3>3. \A j \in 1 .. l : j \in 1 .. l + 1 /\ j <= l
      OBVIOUS
    <3>4. QED
      BY <2>4, <3>1, <3>2, <3>3
  <2>6. Numeral[n] = a \o d
    BY <1>3, <1>8, <2>1, <2>2
  <2>7. l + 1 \in Nat \ {0}
    OBVIOUS
  <2>8. QED
    BY <1>6, <1>8, <2>1, <2>2, <2>3, <2>4, <2>5, <2>6, <2>7 DEF S
<1>9. QED
  BY <1>7, <1>8

\* Behind its first a characters the text has the numeral of n.
NumeralAt(text, a, n) ==
  /\ a + Len(Numeral[n]) <= Len(text)
  /\ \A j \in 1 .. Len(Numeral[n]) : text[a + j] = Numeral[n][j]

ZerosUpTo(text, a) == \A j \in 1 .. a : text[j] = "0"

DigitsUpTo(text, a) == \A j \in 1 .. a : IsDigit(text[j])

LEMMA ZerosAreNothing ==
  ASSUME NEW text, Len(text) \in Nat, NEW a \in 0 .. Len(text), ZerosUpTo(text, a)
  PROVE  Prefixes10(text)[a] = 0 /\ DigitsUpTo(text, a)
<1> DEFINE V == Prefixes10(text)
           Bad == {k \in 0 .. a : V[k] # 0}
<1>1. IsDigit("0") /\ DigitValue("0") = 0
  BY DigitValues, DigitsDiffer
<1>2. \A k \in 0 .. a : V[k] = ValueBody(text, V, k)
  BY PrefixesDefined
<1> HIDE DEF V
<1>3. ASSUME NEW k \in Bad, \A i \in Bad : k <= i PROVE FALSE
  <2>1. k \in 0 .. a /\ V[k] # 0
    OBVIOUS
  <2>2. k # 0
    BY <1>2, <2>1 DEF ValueBody
  <2>3. k - 1 \in 0 .. a /\ ~(k <= k - 1)
    BY <2>1, <2>2
  <2>4. V[k - 1] = 0
    BY <1>3, <2>3
  <2>5. text[k] = "0"
    BY <2>1, <2>2 DEF ZerosUpTo
  <2>6. V[k] = 10 * V[k - 1] + DigitValue(text[k])
    BY <1>2, <2>1, <2>2 DEF ValueBody
  <2>7. QED
    BY <1>1, <2>1, <2>4, <2>5, <2>6
<1>4. Bad = {}
  <2>1. Bad \in SUBSET Nat
    OBVIOUS
  <2>2. QED
    BY <1>3, <2>1, Least
<1>5. V[a] = 0
  BY <1>4
<1>6. QED
  BY <1>1, <1>5 DEF V, ZerosUpTo, DigitsUpTo

\* Zeros and a numeral are read as its number.
LEMMA NumeralIsRead ==
  ASSUME NEW text, Len(text) \in Nat, NEW a \in 0 .. Len(text), ZerosUpTo(text, a),
         NEW n \in Nat \ {0}, NumeralAt(text, a, n)
  PROVE  /\ Prefixes10(text)[a + Len(Numeral[n])] = n
         /\ DigitsUpTo(text, a + Len(Numeral[n]))
<1> DEFINE V == Prefixes10(text)
           Good(k) == V[a + Len(Numeral[k])] = k /\ DigitsUpTo(text, a + Len(Numeral[k]))
           Bad == {k \in Nat \ {0} : NumeralAt(text, a, k) /\ ~Good(k)}
<1>1. V[a] = 0 /\ DigitsUpTo(text, a)
  BY ZerosAreNothing
<1>2. \A k \in 0 .. Len(text) : V[k] = ValueBody(text, V, k)
  BY PrefixesDefined
<1> HIDE DEF V
<1>3. ASSUME NEW k \in Bad, \A i \in Bad : k <= i PROVE FALSE
  <2>1. k \in Nat \ {0} /\ NumeralAt(text, a, k) /\ ~Good(k)
    OBVIOUS
  <2>2. CASE k < 10
    <3>1. Len(Numeral[k]) = 1 /\ Numeral[k][1] = Digits[k + 1]
      BY <2>1, <2>2, NumeralParts
    <3>2. a + 1 \in 1 .. Len(text) /\ text[a + 1] = Digits[k + 1]
      BY <2>1, <3>1 DEF NumeralAt
    <3>3. k \in 0 .. 9
      BY <2>1, <2>2
    <3>4. IsDigit(text[a + 1]) /\ DigitValue(text[a + 1]) = k
      BY <3>2, <3>3, DigitValues
    <3>5. V[a + 1] = 10 * V[a] + DigitValue(text[a + 1])
      <4>1. a + 1 \in 0 .. Len(text) /\ a + 1 # 0 /\ (a + 1) - 1 = a
        BY <3>2
      <4>2. QED
        BY <1>2, <4>1 DEF ValueBody
    <3>6. V[a + 1] = k
      BY <1>1, <2>1, <3>4, <3>5
    <3>7. DigitsUpTo(text, a + 1)
      <4>1. \A j \in 1 .. a + 1 : j \in 1 .. a \/ j = a + 1
        OBVIOUS
      <4>2. QED
        BY <1>1, <3>4, <4>1 DEF DigitsUpTo
    <3>8. QED
      BY <2>1, <3>1, <3>6, <3>7
  <2>3. CASE ~(k < 10)
    <3>1. PICK q \in Nat, r \in 0 .. 9 :
            q = k \div 10 /\ r = k % 10 /\ k = 10 * q + r /\ q # 0 /\ ~(k <= q)
      BY <2>1, <2>3, DivMod
    <3>2. PICK l \in Nat \ {0} : l = Len(Numeral[q])
      BY <3>1, NumeralParts
    <3>3. /\ Len(Numeral[k]) = l + 1
          /\ \A j \in 1 .. l : Numeral[k][j] = Numeral[q][j]
          /\ Numeral[k][l + 1] = Digits[r + 1]
      BY <2>1, <2>3, <3>1, <3>2, NumeralParts
    <3>4. /\ a + (l + 1) <= Len(text) /\ text[a + (l + 1)] = Digits[r + 1]
          /\ \A j \in 1 .. l : text[a + j] = Numeral[q][j]
      <4>1. /\ a + (l + 1) <= Len(text)
            /\ \A j \in 1 .. l + 1 : text[a + j] = Numeral[k][j]
        BY <2>1, <3>3 DEF NumeralAt
      <4>2. l + 1 \in 1 .. l + 1 /\ 1 .. l \subseteq 1 .. l + 1
        OBVIOUS
      <4>3. QED
        BY <3>3, <4>1, <4>2
    <3>5. NumeralAt(text, a, q)
      <4>1. a + l <= Len(text)
        BY <3>2, <3>4
      <4>2. QED
        BY <3>2, <3>4, <4>1 DEF NumeralAt
    <3>6. Good(q)
      BY <1>3, <3>1, <3>5
    <3>7. PICK p \in Nat : p = a + l
      OBVIOUS
    <3>8. V[p] = q /\ DigitsUpTo(text, p) /\ text[p + 1] = Digits[r + 1]
          /\ p + 1 \in 0 .. Len(text) /\ p + 1 # 0 /\ (p + 1) - 1 = p
          /\ a + (l + 1) = p + 1
      BY <3>2, <3>4, <3>6, <3>7
    <3>9. IsDigit(text[p + 1]) /\ DigitValue(text[p + 1]) = r
      BY <3>8, DigitValues
    <3>10. V[p + 1] = 10 * V[p] + DigitValue(text[p + 1])
      BY <1>2, <3>8 DEF ValueBody
    <3>11. V[p + 1] = k
      BY <3>1, <3>8, <3>9, <3>10
    <3>12. DigitsUpTo(text, p + 1)
      <4>1. \A j \in 1 .. p + 1 : j \in 1 .. p \/ j = p + 1
        OBVIOUS
      <4>2. QED
        BY <3>8, <3>9, <4>1 DEF DigitsUpTo
    <3>13. QED
      BY <2>1, <3>3, <3>8, <3>11, <3>12
  <2>4. QED
    BY <2>2, <2>3
<1>4. Bad = {}
  <2>1. Bad \in SUBSET Nat
    OBVIOUS
  <2>2. QED
    BY <1>3, <2>1, Least
<1>5. QED
  BY <1>4 DEF V

\* The other way round, digits are zeros and the numeral of what they are
\* read as.
SpelledUpTo(text, k, n) ==
  /\ n \in Nat
  /\ n = 0 => ZerosUpTo(text, k)
  /\ n # 0 => \E a \in 0 .. k :
       ZerosUpTo(text, a) /\ NumeralAt(text, a, n) /\ a + Len(Numeral[n]) = k

LEMMA DigitsAreNumeral ==
  ASSUME NEW text, Len(text) \in Nat, NEW m \in 0 .. Len(text), DigitsUpTo(text, m)
  PROVE  SpelledUpTo(text, m, Prefixes10(text)[m])
<1> DEFINE V == Prefixes10(text)
           Bad == {k \in 0 .. m : ~SpelledUpTo(text, k, V[k])}
<1>1. \A k \in 0 .. Len(text) : V[k] = ValueBody(text, V, k)
  BY PrefixesDefined
<1> HIDE DEF V
<1>2. ASSUME NEW k \in Bad, \A i \in Bad : k <= i PROVE FALSE
  <2>1. k \in 0 .. m /\ k \in 0 .. Len(text) /\ ~SpelledUpTo(text, k, V[k])
    OBVIOUS
  <2>2. CASE k = 0
    <3>1. V[0] = 0
      BY <1>1, <2>1, <2>2 DEF ValueBody
    <3>2. ZerosUpTo(text, 0)
      BY DEF ZerosUpTo
    <3>3. QED
      BY <2>1, <2>2, <3>1, <3>2 DEF SpelledUpTo
  <2>3. CASE k # 0
    <3>1. PICK i \in Nat : i = k - 1 /\ i + 1 = k /\ i \in 0 .. m /\ ~(k <= i)
      BY <2>1, <2>3
    <3>2. PICK q : q = V[i]
      OBVIOUS
    <3>3. SpelledUpTo(text, i, q)
      BY <1>2, <3>1, <3>2
    <3>4. PICK r \in 0 .. 9 : r = DigitValue(text[k]) /\ text[k] = Digits[r + 1]
      <4>1. IsDigit(text[k])
        BY <2>1, <2>3 DEF DigitsUpTo
      <4>2. QED
        BY <4>1, DigitValues
    <3>5. q \in Nat
      BY <3>3 DEF SpelledUpTo
    <3>6. V[k] = 10 * q + r
      BY <1>1, <2>1, <2>3, <3>1, <3>2, <3>4 DEF ValueBody
    <3>7. PICK n \in Nat : n = 10 * q + r
      BY <3>5
    <3>8. CASE q = 0 /\ r = 0
      <4>1. ZerosUpTo(text, i) /\ text[k] = "0" /\ n = 0
        BY <3>3, <3>4, <3>7, <3>8, DigitsDiffer DEF SpelledUpTo
      <4>2. \A j \in 1 .. k : j \in 1 .. i \/ j = k
        BY <3>1
      <4>3. ZerosUpTo(text, k)
        BY <4>1, <4>2 DEF ZerosUpTo
      <4>4. QED
        BY <2>1, <3>6, <3>7, <4>1, <4>3 DEF SpelledUpTo
    <3>9. CASE q = 0 /\ r # 0
      <4>1. ZerosUpTo(text, i) /\ n = r /\ n # 0 /\ n < 10
        BY <3>3, <3>7, <3>9 DEF SpelledUpTo
      <4>2. Len(Numeral[n]) = 1 /\ Numeral[n][1] = Digits[n + 1]
        BY <4>1, NumeralParts
      <4>3. NumeralAt(text, i, n) /\ i + Len(Numeral[n]) = k
        <5>1. i + 1 <= Len(text)
          BY <2>1, <3>1
        <5>3. text[i + 1] = Digits[n + 1]
          BY <3>1, <3>4, <4>1
        <5>2. QED
          BY <3>1, <4>2, <5>1, <5>3 DEF NumeralAt
      <4>4. i \in 0 .. k
        BY <3>1
      <4>5. QED
        BY <2>1, <3>6, <3>7, <4>1, <4>3, <4>4 DEF SpelledUpTo
    <3>10. CASE q # 0
      <4>1. PICK a \in 0 .. i : /\ ZerosUpTo(text, a) /\ NumeralAt(text, a, q)
                                /\ a + Len(Numeral[q]) = i
        BY <3>3, <3>10 DEF SpelledUpTo
      <4>2. q = n \div 10 /\ r = n % 10 /\ n # 0 /\ ~(n < 10)
        BY <3>5, <3>7, <3>10, DivModOf
      <4>3. PICK l \in Nat \ {0} : l = Len(Numeral[q])
        BY <3>5, NumeralParts
      <4>4. /\ Len(Numeral[n]) = l + 1
            /\ \A j \in 1 .. l : Numeral[n][j] = Numeral[q][j]
            /\ Numeral[n][l + 1] = Digits[r + 1]
        BY <4>2, <4>3, NumeralParts
      <4>5. a + l = i /\ a + (l + 1) = k /\ k <= Len(text) /\ text[a + (l + 1)] = Digits[r + 1]
        <5>1. a + l = i /\ k <= Len(text)
          BY <2>1, <4>1, <4>3
        <5>2. a + (l + 1) = k
          BY <3>1, <5>1
        <5>3. QED
          BY <3>4, <5>1, <5>2
      <4>6. \A j \in 1 .. l : text[a + j] = Numeral[q][j]
        BY <4>1, <4>3 DEF NumeralAt
      <4>7. ASSUME NEW j \in 1 .. l + 1 PROVE text[a + j] = Numeral[n][j]
        <5>1. j \in 1 .. l \/ j = l + 1
          OBVIOUS
        <5>2. QED
          BY <4>4, <4>5, <4>6, <5>1
      <4>8. NumeralAt(text, a, n) /\ a + Len(Numeral[n]) = k /\ a \in 0 .. k
        BY <3>1, <4>4, <4>5, <4>7 DEF NumeralAt
      <4>9. QED
        BY <2>1, <3>6, <3>7, <4>1, <4>2, <4>8 DEF SpelledUpTo
    <3>11. QED
      BY <3>8, <3>9, <3>10
  <2>4. QED
    BY <2>2, <2>3
<1>3. Bad = {}
  <2>1. Bad \in SUBSET Nat
    OBVIOUS
  <2>2. QED
    BY <1>2, <2>1, Least
<1>4. m \in 0 .. m
  OBVIOUS
<1>5. QED
  BY <1>3, <1>4 DEF V

-----------------------------------------------------------------------------
(* What std::stoi reads *)

\* The digits a text begins with are the one stretch of digits at its front
\* that no digit follows.
EndsDigits(text, b) == b = Len(text) \/ ~IsDigit(text[b + 1])

LEMMA LeadingDigits ==
  ASSUME NEW text, Len(text) \in Nat
  PROVE  /\ Leading10(text) \in 0 .. Len(text)
         /\ DigitsUpTo(text, Leading10(text)) /\ EndsDigits(text, Leading10(text))
         /\ \A b \in 0 .. Len(text) :
              DigitsUpTo(text, b) /\ EndsDigits(text, b) => b = Leading10(text)
<1> DEFINE Ends == {n \in 0 .. Len(text) : n = Len(text) \/ ~IsDigit(text[n + 1])}
<1>1. Ends \in SUBSET Nat /\ Len(text) \in Ends
  OBVIOUS
<1>2. PICK m \in Ends : m = Leading10(text) /\ \A n \in Ends : m <= n
  <2>1. Leading10(text) = Min(Ends)
    BY DEF Leading10
  <2>2. QED
    BY <1>1, <2>1, MinIsLeast
<1>3. m \in 0 .. Len(text) /\ EndsDigits(text, m)
  BY DEF EndsDigits
<1>4. DigitsUpTo(text, m)
  <2> SUFFICES ASSUME NEW j \in 1 .. m PROVE IsDigit(text[j])
    BY DEF DigitsUpTo
  <2>1. j - 1 \in 0 .. Len(text) /\ (j - 1) + 1 = j /\ ~(m <= j - 1)
    BY <1>3
  <2>2. j - 1 \notin Ends
    BY <1>2, <2>1
  <2>3. QED
    BY <2>1, <2>2
<1>5. ASSUME NEW b \in 0 .. Len(text), DigitsUpTo(text, b), EndsDigits(text, b)
      PROVE  b = m
  <2>1. m <= b
    BY <1>2, <1>5 DEF EndsDigits
  <2>2. CASE m # b
    <3>1. m + 1 \in 1 .. b /\ m # Len(text)
      BY <1>3, <2>1, <2>2
    <3>2. IsDigit(text[m + 1]) /\ ~IsDigit(text[m + 1])
      BY <1>3, <1>5, <3>1 DEF DigitsUpTo, EndsDigits
    <3>3. QED
      BY <3>2
  <2>3. QED
    BY <2>2
<1>6. QED
  BY <1>2, <1>3, <1>4, <1>5

\* Zeros and a numeral behind a sign, position by position.
SpelledAt(text, o, l, m) ==
  /\ o + l + Len(Numeral[m]) <= Len(text)
  /\ \A j \in 1 .. l : text[o + j] = "0"
  /\ \A j \in 1 .. Len(Numeral[m]) : text[o + l + j] = Numeral[m][j]
  /\ EndsDigits(text, o + l + Len(Numeral[m]))

SignAt(text, sign) == \A j \in 1 .. Len(sign) : text[j] = sign[j]

Written(sign, l, m) == sign \o Zeros(l) \o Numeral[m]

Mark == {"-", "+"} \cup DigitChars

LEMMA WrittenParts ==
  ASSUME NEW sign \in Seq(Mark), NEW l \in Nat, NEW m \in Nat
  PROVE  /\ Written(sign, l, m) \in Seq(Mark)
         /\ Len(Written(sign, l, m)) = Len(sign) + l + Len(Numeral[m])
         /\ \A j \in 1 .. Len(sign) : Written(sign, l, m)[j] = sign[j]
         /\ \A j \in 1 .. l : Written(sign, l, m)[Len(sign) + j] = "0"
         /\ \A j \in 1 .. Len(Numeral[m]) :
              Written(sign, l, m)[Len(sign) + l + j] = Numeral[m][j]
<1>1. PICK z, d, s : z = Zeros(l) /\ d = Numeral[m] /\ s = sign
  OBVIOUS
<1>2. /\ z \in Seq(Mark) /\ Len(z) = l /\ \A j \in 1 .. l : z[j] = "0"
  <2>1. "0" \in Mark
    BY DigitsDiffer DEF Mark, DigitChars
  <2>2. z \in [1 .. l -> Mark]
    BY <1>1, <2>1 DEF Zeros
  <2>3. z \in Seq(Mark) /\ Len(z) = l
    BY <2>2, SeqDef, LenProperties
  <2>4. QED
    BY <1>1, <2>3 DEF Zeros
<1>3. d \in Seq(Mark) /\ Len(d) \in Nat
  BY <1>1, NumeralParts DEF Mark
<1>4. s \in Seq(Mark) /\ Len(s) \in Nat
  BY <1>1, LenProperties
<1>5. PICK e : e = s \o z
  OBVIOUS
<1> HIDE DEF Mark
<1>6. /\ e \in Seq(Mark) /\ Len(e) = Len(s) + l
      /\ \A j \in 1 .. Len(s) + l : e[j] = IF j <= Len(s) THEN s[j] ELSE z[j - Len(s)]
  <2>1. /\ s \o z \in Seq(Mark) /\ Len(s \o z) = Len(s) + Len(z)
        /\ \A j \in 1 .. Len(s) + Len(z) :
             (s \o z)[j] = IF j <= Len(s) THEN s[j] ELSE z[j - Len(s)]
    BY <1>2, <1>4, ConcatProperties
  <2>2. QED
    BY <1>2, <1>5, <2>1
<1>7. PICK w : w = e \o d
  OBVIOUS
<1>8. /\ w \in Seq(Mark) /\ Len(w) = Len(e) + Len(d)
      /\ \A j \in 1 .. Len(e) + Len(d) : w[j] = IF j <= Len(e) THEN e[j] ELSE d[j - Len(e)]
  <2>1. /\ e \o d \in Seq(Mark) /\ Len(e \o d) = Len(e) + Len(d)
        /\ \A j \in 1 .. Len(e) + Len(d) :
             (e \o d)[j] = IF j <= Len(e) THEN e[j] ELSE d[j - Len(e)]
    BY <1>3, <1>6, ConcatProperties
  <2>2. QED
    BY <1>7, <2>1
<1>9. PICK o \in Nat, t \in Nat : o = Len(s) /\ t = Len(d)
  BY <1>3, <1>4
<1>10. \A j \in 1 .. o : w[j] = s[j]
  <2> SUFFICES ASSUME NEW j \in 1 .. o PROVE w[j] = s[j]
    OBVIOUS
  <2>1. j \in 1 .. o + l /\ j \in 1 .. (o + l) + t /\ j <= o + l /\ j <= o
    OBVIOUS
  <2>2. QED
    BY <1>6, <1>8, <1>9, <2>1
<1>11. \A j \in 1 .. l : w[o + j] = "0"
  <2> SUFFICES ASSUME NEW j \in 1 .. l PROVE w[o + j] = "0"
    OBVIOUS
  <2>1. /\ o + j \in 1 .. o + l /\ o + j \in 1 .. (o + l) + t /\ o + j <= o + l
        /\ ~(o + j <= o) /\ (o + j) - o = j
    OBVIOUS
  <2>2. w[o + j] = e[o + j]
    BY <1>6, <1>8, <1>9, <2>1
  <2>3. e[o + j] = z[j]
    BY <1>6, <1>9, <2>1
  <2>4. QED
    BY <1>2, <2>2, <2>3
<1>12. \A j \in 1 .. t : w[o + l + j] = d[j]
  <2> SUFFICES ASSUME NEW j \in 1 .. t PROVE w[o + l + j] = d[j]
    OBVIOUS
  <2>1. /\ o + l + j \in 1 .. (o + l) + t /\ ~(o + l + j <= o + l)
        /\ (o + l + j) - (o + l) = j
    OBVIOUS
  <2>2. QED
    BY <1>6, <1>8, <1>9, <2>1
<1>13. w = Written(sign, l, m)
  BY <1>1, <1>5, <1>7 DEF Written
<1>14. QED
  BY <1>1, <1>6, <1>8, <1>9, <1>10, <1>11, <1>12, <1>13

LEMMA PrefixMeans ==
  ASSUME NEW C, NEW w \in Seq(C), NEW S, NEW text \in Seq(S)
  PROVE  IsPrefix(w, text) <=>
           Len(w) <= Len(text) /\ \A j \in 1 .. Len(w) : text[j] = w[j]
<1>1. PICK m \in Nat, n \in Nat : m = Len(w) /\ n = Len(text)
  BY LenProperties
<1>2. CASE ~(m <= n)
  BY <1>1, <1>2 DEF IsPrefix
<1>3. CASE m <= n
  <2>1. PICK one : one = 1
    OBVIOUS
  <2>2. /\ Len(SubSeq(w, one, m)) = m
        /\ \A j \in 1 .. m : SubSeq(w, one, m)[j] = w[one + j - 1]
    <3>1. one \in Nat \ {0} /\ m <= Len(w) /\ m - one + 1 = m
          /\ (IF one <= m THEN m - one + 1 ELSE 0) = m
      BY <1>1, <2>1
    <3>2. /\ Len(SubSeq(w, one, m)) = IF one <= m THEN m - one + 1 ELSE 0
          /\ \A j \in 1 .. m - one + 1 : SubSeq(w, one, m)[j] = w[one + j - 1]
      BY <3>1, Part
    <3>3. QED
      BY <3>1, <3>2
  <2>3. /\ Len(SubSeq(text, one, m)) = m
        /\ \A j \in 1 .. m : SubSeq(text, one, m)[j] = text[one + j - 1]
    <3>1. one \in Nat \ {0} /\ m <= Len(text) /\ m - one + 1 = m
          /\ (IF one <= m THEN m - one + 1 ELSE 0) = m
      BY <1>1, <1>3, <2>1
    <3>2. /\ Len(SubSeq(text, one, m)) = IF one <= m THEN m - one + 1 ELSE 0
          /\ \A j \in 1 .. m - one + 1 : SubSeq(text, one, m)[j] = text[one + j - 1]
      BY <3>1, Part
    <3>3. QED
      BY <3>1, <3>2
  <2>4. \A j \in 1 .. m : one + j - 1 = j
    BY <2>1
  <2>5. SubSeq(w, one, m) \in Seq(C) /\ SubSeq(text, one, m) \in Seq(S)
    <3>1. one \in Nat \ {0} /\ m \in Int /\ m <= Len(w) /\ m <= Len(text)
      BY <1>1, <1>3, <2>1
    <3>2. QED
      BY <3>1, Part
  <2>6. PICK u, v : u = SubSeq(w, one, m) /\ v = SubSeq(text, one, m)
    OBVIOUS
  <2>7. u = v <=> \A j \in 1 .. m : u[j] = v[j]
    <3>1. u \in Seq(C \cup S) /\ v \in Seq(C \cup S) /\ Len(u) = m /\ Len(v) = m
      <4>1. u \in Seq(C) /\ v \in Seq(S)
        BY <2>5, <2>6
      <4>2. u \in Seq(C \cup S) /\ v \in Seq(C \cup S)
        BY <4>1
      <4>3. QED
        BY <2>2, <2>3, <2>6, <4>2
    <3>2. QED
      BY <3>1, SeqEqual
  <2>8. u = v <=> \A j \in 1 .. m : w[j] = text[j]
    BY <2>2, <2>3, <2>4, <2>6, <2>7
  <2>9. IsPrefix(w, text) <=> (m <= n /\ u = v)
    BY <1>1, <2>1, <2>6 DEF IsPrefix
  <2>10. QED
    BY <1>1, <1>3, <2>8, <2>9
<1>4. QED
  BY <1>2, <1>3

Absolute(n) == IF n < 0 THEN -n ELSE n

LEMMA SignShape ==
  ASSUME NEW n, NEW sign \in Signs(n)
  PROVE  /\ sign \in Seq(Mark) /\ Len(sign) \in {0, 1}
         /\ Len(sign) = 1 => sign[1] = IF n < 0 THEN "-" ELSE "+"
         /\ n < 0 => Len(sign) = 1
<1>1. /\ <<"-">> \in Seq(Mark) /\ Len(<<"-">>) = 1 /\ <<"-">>[1] = "-"
      /\ <<"+">> \in Seq(Mark) /\ Len(<<"+">>) = 1 /\ <<"+">>[1] = "+"
      /\ <<>> \in Seq(Mark) /\ Len(<<>>) = 0
  <2>1. "-" \in Mark /\ "+" \in Mark
    BY DEF Mark
  <2>2. QED
    BY <2>1
<1>2. PICK minus, plus, none : minus = <<"-">> /\ plus = <<"+">> /\ none = <<>>
  OBVIOUS
<1>3. CASE n < 0
  <2>1. sign = minus
    BY <1>2, <1>3 DEF Signs
  <2>2. QED
    BY <1>1, <1>2, <1>3, <2>1
<1>4. CASE ~(n < 0)
  <2>1. sign \in {none, plus}
    BY <1>2, <1>4 DEF Signs
  <2>2. /\ plus \in Seq(Mark) /\ Len(plus) = 1 /\ plus[1] = "+"
        /\ none \in Seq(Mark) /\ Len(none) = 0
    BY <1>1, <1>2
  <2>3. CASE sign = plus
    BY <1>4, <2>2, <2>3
  <2>4. CASE sign = none
    BY <1>4, <2>2, <2>4
  <2>5. QED
    BY <2>1, <2>3, <2>4
<1>5. QED
  BY <1>3, <1>4

LEMMA BeginsWithSigned ==
  ASSUME NEW C, NEW text \in Seq(C), NEW n \in Int
  PROVE  BeginsWith(text, n) <=>
           \E sign \in Signs(n), l \in 0 .. Len(text) :
             SignAt(text, sign) /\ SpelledAt(text, Len(sign), l, Absolute(n))
<1>1. PICK m \in Nat : m = Absolute(n)
  BY DEF Absolute
<1>2. BeginsWith(text, n) <=>
        \E sign \in Signs(n), l \in 0 .. Len(text) :
          /\ IsPrefix(Written(sign, l, m), text)
          /\ EndsDigits(text, Len(Written(sign, l, m)))
  <2>1. \A b : (Len(text) = b \/ ~IsDigit(text[b + 1])) <=> EndsDigits(text, b)
    BY DEF EndsDigits
  <2>2. QED
    BY <1>1, <2>1 DEF BeginsWith, Written, Absolute
<1>3. ASSUME NEW sign \in Signs(n), NEW l \in 0 .. Len(text)
      PROVE  IsPrefix(Written(sign, l, m), text) /\ EndsDigits(text, Len(Written(sign, l, m)))
               <=> SignAt(text, sign) /\ SpelledAt(text, Len(sign), l, m)
  <2>1. PICK o \in {0, 1} : o = Len(sign)
    BY SignShape
  <2>2. PICK t \in Nat : t = Len(Numeral[m])
    BY NumeralParts
  <2>3. PICK w : w = Written(sign, l, m) /\ o = Len(sign) /\ t = Len(Numeral[m])
    BY <2>1, <2>2
  <2>4. l \in Nat /\ Len(text) \in Nat
    BY LenProperties
  <2>5. /\ w \in Seq(Mark) /\ Len(w) = o + l + t
        /\ \A j \in 1 .. o : w[j] = sign[j]
        /\ \A j \in 1 .. l : w[o + j] = "0"
        /\ \A j \in 1 .. t : w[o + l + j] = Numeral[m][j]
    <3>1. sign \in Seq(Mark)
      BY SignShape
    <3>2. /\ Written(sign, l, m) \in Seq(Mark)
          /\ Len(Written(sign, l, m)) = Len(sign) + l + Len(Numeral[m])
          /\ \A j \in 1 .. Len(sign) : Written(sign, l, m)[j] = sign[j]
          /\ \A j \in 1 .. l : Written(sign, l, m)[Len(sign) + j] = "0"
          /\ \A j \in 1 .. Len(Numeral[m]) :
               Written(sign, l, m)[Len(sign) + l + j] = Numeral[m][j]
      BY <2>4, <3>1, WrittenParts
    <3>3. QED
      BY <2>3, <3>2
  <2>6. IsPrefix(w, text) <=>
          o + l + t <= Len(text) /\ \A j \in 1 .. o + l + t : text[j] = w[j]
    <3>1. IsPrefix(w, text) <=>
            Len(w) <= Len(text) /\ \A j \in 1 .. Len(w) : text[j] = w[j]
      <4>1. w \in Seq(Mark)
        BY <2>5
      <4>2. QED
        BY <4>1, PrefixMeans
    <3>2. QED
      BY <2>5, <3>1
  <2>7. (\A j \in 1 .. o + l + t : text[j] = w[j]) <=>
          /\ \A j \in 1 .. o : text[j] = w[j]
          /\ \A j \in 1 .. l : text[o + j] = w[o + j]
          /\ \A j \in 1 .. t : text[o + l + j] = w[o + l + j]
    <3>1. ASSUME \A j \in 1 .. o + l + t : text[j] = w[j]
          PROVE  /\ \A j \in 1 .. o : text[j] = w[j]
                 /\ \A j \in 1 .. l : text[o + j] = w[o + j]
                 /\ \A j \in 1 .. t : text[o + l + j] = w[o + l + j]
      <4>1. /\ \A j \in 1 .. o : j \in 1 .. o + l + t
            /\ \A j \in 1 .. l : o + j \in 1 .. o + l + t
            /\ \A j \in 1 .. t : o + l + j \in 1 .. o + l + t
        BY <2>4
      <4>2. QED
        BY <3>1, <4>1
    <3>2. ASSUME \A j \in 1 .. o : text[j] = w[j],
                 \A j \in 1 .. l : text[o + j] = w[o + j],
                 \A j \in 1 .. t : text[o + l + j] = w[o + l + j],
                 NEW j \in 1 .. o + l + t
          PROVE  text[j] = w[j]
      <4>1. CASE j <= o
        BY <3>2, <4>1
      <4>2. CASE j > o /\ j <= o + l
        <5>1. j - o \in 1 .. l /\ o + (j - o) = j
          BY <2>4, <4>2
        <5>2. QED
          BY <3>2, <5>1
      <4>3. CASE j > o + l
        <5>1. j - (o + l) \in 1 .. t /\ o + l + (j - (o + l)) = j
          BY <2>4, <4>3
        <5>2. QED
          BY <3>2, <5>1
      <4>4. QED
        BY <2>4, <4>1, <4>2, <4>3
    <3>3. QED
      BY <3>1, <3>2
  <2>8. SignAt(text, sign) <=> \A j \in 1 .. o : text[j] = w[j]
    <3>1. SignAt(text, sign) <=> \A j \in 1 .. o : text[j] = sign[j]
      BY <2>3 DEF SignAt
    <3>2. \A j \in 1 .. o : w[j] = sign[j]
      BY <2>5
    <3>3. QED
      BY <3>1, <3>2
  <2>9. SpelledAt(text, Len(sign), l, m) <=>
          /\ o + l + t <= Len(text)
          /\ \A j \in 1 .. l : text[o + j] = w[o + j]
          /\ \A j \in 1 .. t : text[o + l + j] = w[o + l + j]
          /\ EndsDigits(text, o + l + t)
    <3>1. SpelledAt(text, Len(sign), l, m) <=>
            /\ o + l + t <= Len(text)
            /\ \A j \in 1 .. l : text[o + j] = "0"
            /\ \A j \in 1 .. t : text[o + l + j] = Numeral[m][j]
            /\ EndsDigits(text, o + l + t)
      BY <2>3 DEF SpelledAt
    <3>2. /\ \A j \in 1 .. l : w[o + j] = "0"
          /\ \A j \in 1 .. t : w[o + l + j] = Numeral[m][j]
      BY <2>5
    <3>3. (\A j \in 1 .. l : text[o + j] = "0") <=> \A j \in 1 .. l : text[o + j] = w[o + j]
      BY <3>2
    <3>4. (\A j \in 1 .. t : text[o + l + j] = Numeral[m][j]) <=>
            \A j \in 1 .. t : text[o + l + j] = w[o + l + j]
      BY <3>2
    <3>5. QED
      BY <3>1, <3>3, <3>4, Zenon
  <2>10. EndsDigits(text, Len(Written(sign, l, m))) <=> EndsDigits(text, o + l + t)
    BY <2>3, <2>5
  <2>11. IsPrefix(Written(sign, l, m), text) <=>
           /\ o + l + t <= Len(text)
           /\ \A j \in 1 .. o : text[j] = w[j]
           /\ \A j \in 1 .. l : text[o + j] = w[o + j]
           /\ \A j \in 1 .. t : text[o + l + j] = w[o + l + j]
    <3>1. IsPrefix(Written(sign, l, m), text) <=> IsPrefix(w, text)
      BY <2>3, Zenon
    <3>2. QED
      BY <2>6, <2>7, <3>1, Zenon
  <2>12. QED
    BY <2>8, <2>9, <2>10, <2>11, Zenon
<1>4. QED
  BY <1>1, <1>2, <1>3

\* The text behind its sign.
LEMMA UnsignedText ==
  ASSUME NEW C, NEW text \in Seq(C), NEW o \in {0, 1},
         o = IF text # <<>> /\ text[1] \in {"-", "+"} THEN 1 ELSE 0
  PROVE  /\ Len(Unsigned(text)) = Len(text) - o /\ Len(Unsigned(text)) \in Nat
         /\ \A j \in 1 .. Len(text) - o : Unsigned(text)[j] = text[o + j]
<1>1. Len(text) \in Nat
  BY LenProperties
<1>2. CASE o = 0
  <2>1. Unsigned(text) = text
    BY <1>2 DEF Unsigned
  <2>2. Len(text) - o = Len(text) /\ \A j \in 1 .. Len(text) : o + j = j
    BY <1>1, <1>2
  <2>3. QED
    BY <1>1, <2>1, <2>2
<1>3. CASE o = 1
  <2>1. text # <<>> /\ Unsigned(text) = Tail(text)
    BY <1>3 DEF Unsigned
  <2>2. Len(text) > 0
    BY <1>1, <2>1, EmptySeq
  <2>3. /\ Len(Tail(text)) = Len(text) - 1
        /\ \A j \in 1 .. Len(text) - 1 : Tail(text)[j] = text[j + 1]
    BY <2>1, HeadTailProperties
  <2>7. Len(text) - 1 \in Nat
    BY <1>1, <2>2
  <2>4. PICK n, t : n = Len(text) - 1 /\ t = Tail(text) /\ n \in Nat
    BY <2>7
  <2>5. Len(t) = n /\ \A j \in 1 .. n : t[j] = text[1 + j]
    BY <2>3, <2>4
  <2>6. QED
    BY <1>3, <2>1, <2>4, <2>5
<1>4. QED
  BY <1>2, <1>3

SignLength(text) == IF text # <<>> /\ text[1] \in {"-", "+"} THEN 1 ELSE 0

LEMMA NumeralOfText ==
  ASSUME NEW C, NEW text \in Seq(C)
  PROVE  /\ Magnitude(Unsigned(text)) \in Nat
         /\ \A m \in Nat \ {0} :
              (\E l \in 0 .. Len(text) : SpelledAt(text, SignLength(text), l, m))
                <=> Magnitude(Unsigned(text)) = m
         /\ Magnitude(Unsigned(text)) # 0 => Leading10(Unsigned(text)) # 0
<1>1. PICK u : u = Unsigned(text)
  OBVIOUS
<1>2. PICK o \in {0, 1} : o = SignLength(text)
  BY DEF SignLength
<1>3. PICK n \in Nat, x \in Nat : /\ n = Len(u) /\ x = Len(text) /\ n = x - o
                                  /\ \A j \in 1 .. n : u[j] = text[o + j]
  <2>1. /\ Len(u) = Len(text) - o /\ Len(u) \in Nat
        /\ \A j \in 1 .. Len(text) - o : u[j] = text[o + j]
    BY <1>1, <1>2, UnsignedText DEF SignLength
  <2>2. Len(text) \in Nat
    BY LenProperties
  <2>3. QED
    BY <2>1, <2>2
<1>4. PICK h \in 0 .. n : h = Leading10(u)
  BY <1>3, LeadingDigits
<1>5. /\ DigitsUpTo(u, h) /\ EndsDigits(u, h)
      /\ \A b \in 0 .. n : DigitsUpTo(u, b) /\ EndsDigits(u, b) => b = h
  BY <1>3, <1>4, LeadingDigits
<1>6. SpelledUpTo(u, h, Prefixes10(u)[h])
  BY <1>3, <1>5, DigitsAreNumeral
<1>7. PICK v : v = Magnitude(u) /\ v = Prefixes10(u)[h]
  BY <1>4 DEF Magnitude
<1>8. \A b \in 0 .. n : EndsDigits(u, b) <=> EndsDigits(text, o + b)
  <2> SUFFICES ASSUME NEW b \in 0 .. n PROVE EndsDigits(u, b) <=> EndsDigits(text, o + b)
    OBVIOUS
  <2>1. CASE b = n
    <3>1. o + b = x
      BY <1>3, <2>1
    <3>2. QED
      BY <1>3, <2>1, <3>1 DEF EndsDigits
  <2>2. CASE b # n
    <3>1. b + 1 \in 1 .. n /\ o + b # x /\ (o + b) + 1 = o + (b + 1)
      BY <1>3, <2>2
    <3>2. u[b + 1] = text[(o + b) + 1]
      BY <1>3, <3>1
    <3>3. QED
      BY <1>3, <2>2, <3>1, <3>2 DEF EndsDigits
  <2>3. QED
    BY <2>1, <2>2
<1>9. ASSUME NEW m \in Nat \ {0}, NEW l \in 0 .. x
      PROVE  SpelledAt(text, o, l, m) <=>
               /\ l <= n /\ ZerosUpTo(u, l) /\ NumeralAt(u, l, m)
               /\ EndsDigits(u, l + Len(Numeral[m]))
  <2>1. PICK t \in Nat \ {0} : t = Len(Numeral[m])
    BY NumeralParts
  <2>2. o + l + t <= x <=> l + t <= n
    BY <1>3
  <2>3. CASE ~(l + t <= n)
    BY <1>3, <2>1, <2>2, <2>3 DEF SpelledAt, NumeralAt
  <2>4. CASE l + t <= n
    <3>1. \A j \in 1 .. l : u[j] = text[o + j]
      <4>1. 1 .. l \subseteq 1 .. n
        BY <2>4
      <4>2. QED
        BY <1>3, <4>1
    <3>2. \A j \in 1 .. t : u[l + j] = text[o + l + j]
      <4> SUFFICES ASSUME NEW j \in 1 .. t PROVE u[l + j] = text[o + l + j]
        OBVIOUS
      <4>1. l + j \in 1 .. n /\ o + l + j = o + (l + j)
        BY <2>4
      <4>2. QED
        BY <1>3, <4>1
    <3>3. EndsDigits(u, l + t) <=> EndsDigits(text, o + l + t)
      <4>1. l + t \in 0 .. n /\ o + l + t = o + (l + t)
        BY <2>4
      <4>2. QED
        BY <1>8, <4>1
    <3>4. l <= n
      BY <2>4
    <3>5. QED
      BY <1>3, <2>1, <2>2, <2>4, <3>1, <3>2, <3>3, <3>4
         DEF SpelledAt, NumeralAt, ZerosUpTo
  <2>5. QED
    BY <2>3, <2>4
<1>10. ASSUME NEW m \in Nat \ {0}, NEW l \in 0 .. x, SpelledAt(text, o, l, m)
       PROVE  v = m
  <2>1. PICK t \in Nat \ {0} : t = Len(Numeral[m])
    BY NumeralParts
  <2>2. l \in 0 .. n /\ ZerosUpTo(u, l) /\ NumeralAt(u, l, m) /\ EndsDigits(u, l + t)
    BY <1>9, <1>10, <2>1
  <2>3. Prefixes10(u)[l + t] = m /\ DigitsUpTo(u, l + t)
    <3>1. /\ Len(u) \in Nat /\ l \in 0 .. Len(u)
          /\ ZerosUpTo(u, l) /\ NumeralAt(u, l, m)
      BY <1>3, <2>2
    <3>2. /\ Prefixes10(u)[l + Len(Numeral[m])] = m
          /\ DigitsUpTo(u, l + Len(Numeral[m]))
      BY <3>1, NumeralIsRead
    <3>3. QED
      BY <2>1, <3>2
  <2>4. l + t \in 0 .. n
    BY <1>3, <2>1, <2>2 DEF NumeralAt
  <2>5. l + t = h
    BY <1>5, <2>2, <2>3, <2>4
  <2>6. QED
    BY <1>7, <2>3, <2>5
<1>11. ASSUME v # 0
       PROVE  \E l \in 0 .. x : SpelledAt(text, o, l, v)
  <2>1. v \in Nat \ {0}
    BY <1>6, <1>7, <1>11 DEF SpelledUpTo
  <2>2. PICK l \in 0 .. h : ZerosUpTo(u, l) /\ NumeralAt(u, l, v) /\ l + Len(Numeral[v]) = h
    BY <1>6, <1>7, <1>11 DEF SpelledUpTo
  <2>3. l \in 0 .. x /\ l <= n
    BY <1>3
  <2>4. SpelledAt(text, o, l, v)
    BY <1>5, <1>9, <2>1, <2>2, <2>3
  <2>5. QED
    BY <2>3, <2>4
<1>12. v # 0 => h # 0
  <2>1. Prefixes10(u)[0] = 0
    BY <1>3, PrefixesDefined DEF ValueBody
  <2>2. QED
    BY <1>7, <2>1
<1>13. v \in Nat
  BY <1>6, <1>7 DEF SpelledUpTo
<1>14. QED
  BY <1>1, <1>2, <1>3, <1>4, <1>7, <1>10, <1>11, <1>12, <1>13

\* The sign a text that begins with a number has.
LEMMA SignOfText ==
  ASSUME NEW C, NEW text \in Seq(C), NEW n \in Int, NEW sign \in Signs(n),
         SignAt(text, sign), NEW l \in 0 .. Len(text), NEW m \in Nat,
         SpelledAt(text, Len(sign), l, m)
  PROVE  /\ Len(sign) = SignLength(text)
         /\ text # <<>> /\ (text[1] = "-" <=> n < 0)
<1>1. PICK x \in Nat, t \in Nat \ {0} : x = Len(text) /\ t = Len(Numeral[m])
  <2>1. Len(text) \in Nat /\ Len(Numeral[m]) \in Nat \ {0}
    BY LenProperties, NumeralParts
  <2>2. QED
    BY <2>1
<1>2. /\ Len(sign) \in {0, 1} /\ (n < 0 => Len(sign) = 1)
      /\ Len(sign) = 1 => sign[1] = IF n < 0 THEN "-" ELSE "+"
  BY SignShape
<1>3. x > 0 /\ text # <<>>
  <2>1. Len(sign) + l + t <= x
    BY <1>1 DEF SpelledAt
  <2>2. x > 0
    <3>1. PICK k \in {0, 1} : k = Len(sign)
      BY <1>2
    <3>2. PICK r \in Nat : r = l
      OBVIOUS
    <3>3. k + r + t <= x
      BY <1>1, <2>1, <3>1, <3>2
    <3>4. QED
      BY <3>3
  <2>3. QED
    BY <1>1, <2>2, EmptySeq
<1>4. CASE Len(sign) = 1
  <2>1. text[1] = IF n < 0 THEN "-" ELSE "+"
    BY <1>2, <1>4 DEF SignAt
  <2>2. QED
    BY <1>3, <1>4, <2>1 DEF SignLength
<1>5. CASE Len(sign) = 0
  <2>1. text[1] \in DigitChars
    <3>1. CASE l = 0
      <4>1. text[0 + 0 + 1] = Numeral[m][1] /\ 0 + 0 + 1 = 1
        BY <1>1, <1>5, <3>1 DEF SpelledAt
      <4>2. Numeral[m][1] \in DigitChars
        <5>1. Numeral[m] \in Seq(DigitChars) /\ 1 \in 1 .. Len(Numeral[m])
          BY <1>1, NumeralParts
        <5>2. QED
          BY <5>1, ElementOfSeq
      <4>3. QED
        BY <4>1, <4>2
    <3>2. CASE l # 0
      <4>1. text[0 + 1] = "0" /\ 0 + 1 = 1
        BY <1>1, <1>5, <3>2 DEF SpelledAt
      <4>2. QED
        BY <4>1, DigitsDiffer DEF DigitChars
    <3>3. QED
      BY <3>1, <3>2
  <2>2. text[1] \notin {"-", "+"}
    BY <2>1, DigitsDiffer DEF DigitChars
  <2>3. QED
    BY <1>2, <1>3, <1>5, <2>2 DEF SignLength
<1>6. QED
  BY <1>2, <1>4, <1>5

\* The ints but 0 a text begins with: what get_int() returns, or none.
IntsOf(text) == {n \in (-IntMax - 1 .. IntMax) \ {0} : BeginsWith(text, n)}

IntRead(text) == IF Throws(text) THEN 0 ELSE Spelled(text)

LEMMA ReadsInt ==
  ASSUME NEW C, NEW text \in Seq(C)
  PROVE  IntsOf(text) = IF IntRead(text) = 0 THEN {} ELSE {IntRead(text)}
<1>1. PICK v \in Nat : v = Magnitude(Unsigned(text))
  BY NumeralOfText
<1>2. PICK g : g = Spelled(text)
  OBVIOUS
<1>3. g = IF text # <<>> /\ text[1] = "-" THEN -v ELSE v
  BY <1>1, <1>2 DEF Spelled
<1>4. /\ \A m \in Nat \ {0} :
           (\E l \in 0 .. Len(text) : SpelledAt(text, SignLength(text), l, m)) <=> v = m
      /\ v # 0 => Leading10(Unsigned(text)) # 0
  BY <1>1, NumeralOfText
<1>5. ASSUME NEW n \in Int, n # 0, BeginsWith(text, n)
      PROVE  n = g /\ v # 0
  <2>1. PICK sign \in Signs(n), l \in 0 .. Len(text) :
          SignAt(text, sign) /\ SpelledAt(text, Len(sign), l, Absolute(n))
    BY <1>5, BeginsWithSigned
  <2>2. PICK m \in Nat \ {0} : m = Absolute(n) /\ (n < 0 => n = -m) /\ (~(n < 0) => n = m)
    BY <1>5 DEF Absolute
  <2>3. Len(sign) = SignLength(text) /\ text # <<>> /\ (text[1] = "-" <=> n < 0)
    BY <2>1, <2>2, SignOfText
  <2>4. v = m
    BY <1>4, <2>1, <2>2, <2>3
  <2>5. QED
    BY <1>3, <2>2, <2>3, <2>4
<1>6. ASSUME v # 0
      PROVE  BeginsWith(text, g) /\ g \in Int /\ g # 0
  <2>1. v \in Nat \ {0}
    BY <1>6
  <2>2. PICK l \in 0 .. Len(text) : SpelledAt(text, SignLength(text), l, v)
    BY <1>4, <2>1
  <2>3. g \in Int /\ g # 0 /\ Absolute(g) = v /\ (g < 0 <=> (text # <<>> /\ text[1] = "-"))
    BY <1>3, <2>1 DEF Absolute
  <2>4. \E sign \in Signs(g) : Len(sign) = SignLength(text) /\ SignAt(text, sign)
    <3>1. PICK none, minus, plus : none = <<>> /\ minus = <<"-">> /\ plus = <<"+">>
      OBVIOUS
    <3>2. /\ Len(none) = 0 /\ Len(minus) = 1 /\ Len(plus) = 1
          /\ minus[1] = "-" /\ plus[1] = "+"
      BY <3>1
    <3>3. CASE text # <<>> /\ text[1] = "-"
      <4>1. minus \in Signs(g) /\ SignLength(text) = 1
        BY <2>3, <3>1, <3>3 DEF Signs, SignLength
      <4>2. SignAt(text, minus)
        BY <3>2, <3>3 DEF SignAt
      <4>3. QED
        BY <3>2, <4>1, <4>2
    <3>4. CASE text # <<>> /\ text[1] = "+"
      <4>1. plus \in Signs(g) /\ SignLength(text) = 1
        BY <2>3, <3>1, <3>4 DEF Signs, SignLength
      <4>2. SignAt(text, plus)
        BY <3>2, <3>4 DEF SignAt
      <4>3. QED
        BY <3>2, <4>1, <4>2
    <3>5. CASE ~(text # <<>> /\ text[1] \in {"-", "+"})
      <4>1. none \in Signs(g) /\ SignLength(text) = 0
        BY <2>3, <3>1, <3>5 DEF Signs, SignLength
      <4>2. SignAt(text, none)
        BY <3>2 DEF SignAt
      <4>3. QED
        BY <3>2, <4>1, <4>2
    <3>6. QED
      BY <3>3, <3>4, <3>5
  <2>5. QED
    BY <2>2, <2>3, <2>4, BeginsWithSigned
<1>7. v = 0 => g = 0
  <2>1. g = -v \/ g = v
    BY <1>3, Zenon
  <2>2. -v = 0 - v
    OBVIOUS
  <2>3. v = 0 => 0 - v = 0
    OBVIOUS
  <2>4. QED
    BY <2>1, <2>2, <2>3, Zenon
<1>8. Throws(text) <=> Leading10(Unsigned(text)) = 0 \/ g \notin -IntMax - 1 .. IntMax
  BY <1>2 DEF Throws
<1>9. CASE v = 0
  <2>1. IntRead(text) = 0
    BY <1>2, <1>7, <1>9 DEF IntRead
  <2>2. \A n \in (-IntMax - 1 .. IntMax) \ {0} : ~BeginsWith(text, n)
    BY <1>5, <1>9
  <2>3. QED
    BY <2>1, <2>2 DEF IntsOf
<1>10. CASE v # 0 /\ g \in -IntMax - 1 .. IntMax
  <2>1. IntRead(text) = g /\ g # 0 /\ BeginsWith(text, g)
    BY <1>2, <1>4, <1>6, <1>8, <1>10 DEF IntRead
  <2>2. \A n \in (-IntMax - 1 .. IntMax) \ {0} : BeginsWith(text, n) <=> n = g
    BY <1>5, <1>10, <2>1
  <2>3. QED
    BY <1>10, <2>1, <2>2 DEF IntsOf
<1>11. CASE v # 0 /\ g \notin -IntMax - 1 .. IntMax
  <2>1. IntRead(text) = 0
    BY <1>8, <1>11 DEF IntRead
  <2>2. \A n \in (-IntMax - 1 .. IntMax) \ {0} : ~BeginsWith(text, n)
    BY <1>5, <1>11
  <2>3. QED
    BY <2>1, <2>2 DEF IntsOf
<1>12. QED
  BY <1>9, <1>10, <1>11

LEMMA InvPort == IniInv /\ FirstDefinitionWins => PortIsConfigured
<1> SUFFICES ASSUME IniInv, FirstDefinitionWins, stage = "ready", NEW e \in map
             PROVE  IntsOf(Defined(e.name)) =
                      IF get_int(e.name) = 0 THEN {} ELSE {get_int(e.name)}
  BY DEF PortIsConfigured, IntsOf
<1>1. get_str(e.name) = Defined(e.name)
  BY DEF FirstDefinitionWins
<1>2. get_str(e.name) \in Seq(FileChar)
  <2>1. PICK d : d \in map /\ d = CHOOSE x \in map : x.name = e.name
    OBVIOUS
  <2>2. get_str(e.name) = d.value
    BY <2>1 DEF get_str
  <2>3. d.value \in Seq(FileChar)
    BY <2>1 DEF IniInv, IniTypeOK
  <2>4. QED
    BY <2>2, <2>3
<1>3. get_int(e.name) = IntRead(get_str(e.name))
  BY DEF get_int, IntRead
<1>4. QED
  BY <1>1, <1>2, <1>3, ReadsInt

\* get_int() returns the int the first complete definition of a name begins
\* with, sign, leading zeros and all, and 0 when there is none or it is no int
\* (ini_config::init, get_int).
THEOREM PortIsRead == IniSpec => []PortIsConfigured
<1>1. FirstDefinitionWins /\ IniInv => PortIsConfigured
  BY InvPort
<1>2. QED
  BY <1>1, IniStarts, IniStep, FirstDefinitionIsKept, PTL DEF IniSpec
=============================================================================
