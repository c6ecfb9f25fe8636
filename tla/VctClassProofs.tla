--------------------------- MODULE VctClassProofs ---------------------------
(***************************************************************************)
(* Lemmas about the message classes of VctMessages, for every value of the *)
(* constants: what every class of generated code does with its fields.     *)
(* For a class X of VctClasses:                                            *)
(*   IsX            a message of XMessages, field by field                 *)
(*   XPut, XClear, XMerge, XCopy   a message of the class is left          *)
(*   XParse         so it is by whatever is read                           *)
(*   XSame, XAlike  two messages that show the same                        *)
(*   XMergeSame, XMergeNew         merging is of what messages show        *)
(*   XWrites, XSerialize           the tokens that are written             *)
(*   XByteSizeLong  the cached sizes are those of the tokens               *)
(* A lemma about a class rests on the same lemma about the classes of its  *)
(* fields, and loops over tokens, elements and sizes on the runs of        *)
(* SeqLemmas.                                                              *)
(***************************************************************************)
EXTENDS VctObjects, SeqLemmas

-----------------------------------------------------------------------------
(* Sizes *)

Adding(sizes) == [i \in 1 .. Len(sizes) |-> [x \in Nat |-> x + sizes[i]]]

\* Adding a size leaves a number.
LEMMA AddingStays ==
  ASSUME NEW sizes \in Seq(Nat)
  PROVE  /\ StaysIn(Nat, Len(sizes), Adding(sizes)) /\ Len(sizes) \in Nat
         /\ \A i \in 1 .. Len(sizes), x \in Nat : Adding(sizes)[i][x] = x + sizes[i]
<1>1. Len(sizes) \in Nat /\ \A i \in 1 .. Len(sizes) : sizes[i] \in Nat
  BY LenProperties, ElementOfSeq
<1>2. \A i \in 1 .. Len(sizes), x \in Nat : Adding(sizes)[i][x] = x + sizes[i]
  BY DEF Adding
<1>3. \A i \in 1 .. Len(sizes), x \in Nat : x + sizes[i] \in Nat
  BY <1>1
<1>4. QED
  BY <1>1, <1>2, <1>3 DEF StaysIn

\* Total() is the end of that run.
LEMMA TotalIs ==
  ASSUME NEW sizes \in Seq(Nat)
  PROVE  Total(sizes) = Outcome(Nat, Len(sizes), 0, Adding(sizes)) /\ Total(sizes) \in Nat
<1>1. PICK n \in Nat : n = Len(sizes)
  BY AddingStays
<1>2. PICK f : Runs(Nat, n, 0, Adding(sizes), f)
  BY <1>1, AddingStays, RunExists
<1>3. /\ f \in [0 .. n -> Nat] /\ f[0] = 0
      /\ \A i \in 1 .. n : f[i] = Adding(sizes)[i][f[i - 1]]
  BY <1>2 DEF Runs
<1>4. \A i \in 1 .. n : f[i] = f[i - 1] + sizes[i]
  <2>1. \A i \in 1 .. n : i - 1 \in 0 .. n /\ i \in 1 .. Len(sizes)
    BY <1>1
  <2>2. \A i \in 1 .. n : f[i - 1] \in Nat
    BY <1>3, <2>1
  <2>3. QED
    BY <1>3, <2>1, <2>2, AddingStays
<1>5. f = [i \in 0 .. n |-> IF i = 0 THEN 0 ELSE f[i - 1] + sizes[i]]
  <2>1. \A i \in 0 .. n : i = 0 \/ i \in 1 .. n
    OBVIOUS
  <2>2. QED
    BY <1>3, <1>4, <2>1
<1>6. PICK g : /\ g = [i \in 0 .. n |-> IF i = 0 THEN 0 ELSE g[i - 1] + sizes[i]]
               /\ Total(sizes) = g[n]
  BY <1>1, <1>5 DEF Total
<1>7. g = [i \in 0 .. n |-> g[i]] /\ g[0] = 0 /\ \A i \in 1 .. n : g[i] = g[i - 1] + sizes[i]
  BY <1>6
<1>8. Runs(Nat, n, 0, Adding(sizes), g)
  <2>1. \A i \in 1 .. n : g[i - 1] \in Nat => g[i] = Adding(sizes)[i][g[i - 1]]
    BY <1>1, <1>7, AddingStays
  <2>2. PICK N, z : N = Nat /\ z = 0
    OBVIOUS
  <2>3. StaysIn(N, n, Adding(sizes)) /\ z \in N
    BY <1>1, <2>2, AddingStays
  <2>4. Runs(N, n, z, Adding(sizes), g)
    BY <1>7, <2>1, <2>2, <2>3, RunIs
  <2>5. QED
    BY <2>2, <2>4
<1>9. QED
  BY <1>1, <1>6, <1>8, OutcomeIs

\* The total of two parts is the sum of their totals.
LEMMA TotalParts ==
  ASSUME NEW s \in Seq(Nat), NEW t \in Seq(Nat)
  PROVE  Total(s \o t) = Total(s) + Total(t)
<1>1. PICK k \in Nat, l \in Nat : k = Len(s) /\ l = Len(t)
  BY LenProperties
<1>2. PICK u : u = s \o t
  OBVIOUS
<1>3. /\ u \in Seq(Nat) /\ Len(u) = k + l
      /\ \A i \in 1 .. k : u[i] = s[i]
      /\ \A j \in 1 .. l : u[k + j] = t[j]
  BY <1>1, <1>2, ConcatParts, ConcatProperties
<1>4. PICK c \in Nat : c = Total(s)
  BY TotalIs
<1>5. PICK f : Runs(Nat, l, 0, Adding(t), f)
  BY <1>1, AddingStays, RunExists
<1>6. f[l] = Total(t) /\ f[l] \in Nat
  BY <1>1, <1>5, OutcomeIs, TotalIs
<1>7. /\ f \in [0 .. l -> Nat] /\ f[0] = 0
      /\ \A j \in 1 .. l : f[j] = Adding(t)[j][f[j - 1]]
  BY <1>5 DEF Runs
<1>8. PICK g : g = [j \in 0 .. l |-> c + f[j]]
  OBVIOUS
<1>9. Runs(Nat, l, c, Adding(t), g)
  <2>1. g \in [0 .. l -> Nat]
    BY <1>7, <1>8
  <2>2. g[0] = c
    <3>1. 0 \in 0 .. l
      OBVIOUS
    <3>2. QED
      BY <1>7, <1>8, <3>1
  <2>3. ASSUME NEW j \in 1 .. l PROVE g[j] = Adding(t)[j][g[j - 1]]
    <3>1. j \in 0 .. l /\ j - 1 \in 0 .. l
      OBVIOUS
    <3>2. PICK x \in Nat, y \in Nat : x = f[j - 1] /\ y = t[j]
      <4>1. f[j - 1] \in Nat /\ t[j] \in Nat
        BY <1>1, <1>7, <3>1, ElementOfSeq
      <4>2. QED
        BY <4>1
    <3>3. f[j] = x + y
      BY <1>1, <1>7, <3>2, AddingStays
    <3>4. g[j] = c + (x + y) /\ g[j - 1] = c + x /\ c + x \in Nat
      <4>1. g[j] = c + f[j] /\ g[j - 1] = c + f[j - 1]
        BY <1>8, <3>1
      <4>2. g[j] = c + (x + y)
        BY <3>3, <4>1
      <4>3. g[j - 1] = c + x
        BY <3>2, <4>1
      <4>4. c + x \in Nat
        OBVIOUS
      <4>5. QED
        BY <4>2, <4>3, <4>4
    <3>5. Adding(t)[j][c + x] = (c + x) + y
      BY <1>1, <3>2, <3>4, AddingStays
    <3>6. QED
      BY <3>4, <3>5
  <2>4. QED
    BY <2>1, <2>2, <2>3 DEF Runs
<1>10. Outcome(Nat, l, c, Adding(t)) = c + f[l]
  <2>1. l \in 0 .. l
    OBVIOUS
  <2>2. g[l] = c + f[l]
    BY <1>8, <2>1
  <2>3. QED
    BY <1>9, <2>2, OutcomeIs
<1>11. Total(u) = Outcome(Nat, k + l, 0, Adding(u)) /\ c = Outcome(Nat, k, 0, Adding(s))
  BY <1>1, <1>3, <1>4, TotalIs
<1>12. /\ \A i \in 1 .. k : Adding(u)[i] = Adding(s)[i]
       /\ \A j \in 1 .. l : Adding(u)[k + j] = Adding(t)[j]
  <2>1. ASSUME NEW i \in 1 .. k PROVE Adding(u)[i] = Adding(s)[i]
    <3>1. i \in 1 .. k + l /\ u[i] = s[i]
      BY <1>3
    <3>2. QED
      BY <1>1, <1>3, <3>1 DEF Adding
  <2>2. ASSUME NEW j \in 1 .. l PROVE Adding(u)[k + j] = Adding(t)[j]
    <3>1. k + j \in 1 .. k + l
      OBVIOUS
    <3>2. u[k + j] = t[j]
      BY <1>3
    <3>3. QED
      BY <1>1, <1>3, <3>1, <3>2 DEF Adding
  <2>3. QED
    BY <2>1, <2>2
<1>13. Joins(Adding(u), k, Adding(s), l, Adding(t))
  BY <1>12 DEF Joins
<1>14. Outcome(Nat, k + l, 0, Adding(u)) = Outcome(Nat, l, c, Adding(t))
  <2>1. PICK N, z, n : N = Nat /\ z = 0 /\ n = k + l /\ n \in Nat
    <3>1. k + l \in Nat
      OBVIOUS
    <3>2. QED
      BY <3>1
  <2>2. StaysIn(N, k, Adding(s)) /\ StaysIn(N, l, Adding(t)) /\ z \in N
    BY <1>1, <2>1, AddingStays
  <2>3. Outcome(N, n, z, Adding(u)) = Outcome(N, l, Outcome(N, k, z, Adding(s)), Adding(t))
    BY <1>13, <2>1, <2>2, OutcomeConcat
  <2>4. QED
    BY <1>11, <2>1, <2>3
<1>15. QED
  BY <1>2, <1>4, <1>6, <1>10, <1>11, <1>14

\* No size, and one.
LEMMA TotalShort ==
  /\ Total(<<>>) = 0
  /\ \A n \in Nat : Total(<<n>>) = n
<1>1. Total(<<>>) = 0
  <2>1. PICK s : s = <<>>
    OBVIOUS
  <2>2. s \in Seq(Nat) /\ Len(s) = 0
    BY <2>1, EmptySeq
  <2>3. Total(s) = Outcome(Nat, 0, 0, Adding(s))
    BY <2>2, TotalIs
  <2>4. Outcome(Nat, 0, 0, Adding(s)) = 0
    BY OutcomeShort
  <2>5. QED
    BY <2>1, <2>3, <2>4
<1>2. ASSUME NEW n \in Nat PROVE Total(<<n>>) = n
  <2>1. PICK s : s = <<n>>
    OBVIOUS
  <2>2. s \in Seq(Nat) /\ Len(s) = 1 /\ s[1] = n
    BY <2>1
  <2>3. Adding(s)[1][0] = n
    <3>1. 1 \in 1 .. Len(s) /\ 0 \in Nat /\ 0 + n = n
      BY <2>2
    <3>2. Adding(s)[1][0] = 0 + s[1]
      BY <2>2, <3>1, AddingStays
    <3>3. QED
      BY <2>2, <3>1, <3>2
  <2>4. Total(s) = Outcome(Nat, 1, 0, Adding(s))
    BY <2>2, TotalIs
  <2>5. PICK N, z : N = Nat /\ z = 0
    OBVIOUS
  <2>6. z \in N /\ Adding(s)[1][z] \in N
    BY <2>3, <2>5
  <2>7. Outcome(N, 1, z, Adding(s)) = Adding(s)[1][z]
    BY <2>6, OutcomeShort
  <2>8. QED
    BY <2>1, <2>3, <2>4, <2>5, <2>7
<1>3. QED
  BY <1>1, <1>2

-----------------------------------------------------------------------------
(* Reading a sequence of tokens *)

Results(messages) == [ok : BOOLEAN, msg : messages]

\* A parser, as a function: what its switch makes of each message and token.
ParseSteps(G, F, w) ==
  [i \in 1 .. Len(w) |-> [r \in Results(G) |-> IF r.ok THEN F[r.msg][w[i]] ELSE r]]

ParseOf(G, F, m, w) == Outcome(Results(G), Len(w), Read(m), ParseSteps(G, F, w))

Parser(G, W, F) == \A m \in G, t \in W : F[m][t] \in Results(G)

\* What a parse of messages of a class returns.
LEMMA ReadIs ==
  ASSUME NEW G, NEW m \in G
  PROVE  /\ Read(m) \in Results(G) /\ Read(m).ok /\ Read(m).msg = m
         /\ Failed(m) \in Results(G) /\ ~Failed(m).ok /\ Failed(m).msg = m
BY DEF Read, Failed, Results

\* Every step of a parser leaves a result.
LEMMA ParseStays ==
  ASSUME NEW G, NEW W, NEW F, Parser(G, W, F), NEW w \in Seq(W)
  PROVE  /\ StaysIn(Results(G), Len(w), ParseSteps(G, F, w)) /\ Len(w) \in Nat
         /\ \A i \in 1 .. Len(w), r \in Results(G) :
              ParseSteps(G, F, w)[i][r] = IF r.ok THEN F[r.msg][w[i]] ELSE r
<1>1. Len(w) \in Nat /\ \A i \in 1 .. Len(w) : w[i] \in W
  BY LenProperties, ElementOfSeq
<1>2. \A i \in 1 .. Len(w), r \in Results(G) :
        ParseSteps(G, F, w)[i][r] = IF r.ok THEN F[r.msg][w[i]] ELSE r
  BY DEF ParseSteps
<1>3. \A r \in Results(G) : r.msg \in G
  BY DEF Results
<1>4. \A i \in 1 .. Len(w), r \in Results(G) : ParseSteps(G, F, w)[i][r] \in Results(G)
  BY <1>1, <1>2, <1>3 DEF Parser
<1>5. QED
  BY <1>1, <1>2, <1>4 DEF StaysIn

\* So does the whole parse.
LEMMA ParseIn ==
  ASSUME NEW G, NEW W, NEW F, Parser(G, W, F), NEW m \in G, NEW w \in Seq(W)
  PROVE  ParseOf(G, F, m, w) \in Results(G)
BY ParseStays, ReadIs, OutcomeIn DEF ParseOf

\* No token, and one.
LEMMA ParseShort ==
  ASSUME NEW G, NEW W, NEW F, Parser(G, W, F), NEW m \in G
  PROVE  /\ ParseOf(G, F, m, <<>>) = Read(m)
         /\ \A t \in W : ParseOf(G, F, m, <<t>>) = F[m][t]
<1>1. PICK R, r : R = Results(G) /\ r = Read(m) /\ r \in R /\ r.ok /\ r.msg = m
  BY ReadIs
<1>2. ParseOf(G, F, m, <<>>) = Read(m)
  <2>1. PICK w : w = <<>>
    OBVIOUS
  <2>2. Len(w) = 0
    BY <2>1
  <2>3. Outcome(R, 0, r, ParseSteps(G, F, w)) = r
    BY <1>1, OutcomeShort
  <2>4. QED
    BY <1>1, <2>1, <2>2, <2>3 DEF ParseOf
<1>3. ASSUME NEW t \in W PROVE ParseOf(G, F, m, <<t>>) = F[m][t]
  <2>1. PICK w : w = <<t>>
    OBVIOUS
  <2>2. w \in Seq(W) /\ Len(w) = 1 /\ w[1] = t /\ 1 \in 1 .. Len(w)
    BY <2>1
  <2>3. ParseSteps(G, F, w)[1][r] = IF r.ok THEN F[r.msg][w[1]] ELSE r
    <3>1. PICK i \in 1 .. Len(w) : i = 1
      BY <2>2
    <3>2. ParseSteps(G, F, w)[i][r] = IF r.ok THEN F[r.msg][w[i]] ELSE r
      <4>1. r \in Results(G) /\ w \in Seq(W)
        BY <1>1, <2>2
      <4>2. QED
        BY <4>1, ParseStays
    <3>3. QED
      BY <3>1, <3>2
  <2>4. F[m][t] \in R
    BY <1>1 DEF Parser
  <2>5. Outcome(R, 1, r, ParseSteps(G, F, w)) = F[m][t]
    BY <1>1, <2>2, <2>3, <2>4, OutcomeShort
  <2>6. QED
    BY <1>1, <2>1, <2>2, <2>5 DEF ParseOf
<1>4. QED
  BY <1>2, <1>3

\* A parse that has failed is over.
LEMMA ParseOver ==
  ASSUME NEW G, NEW W, NEW F, Parser(G, W, F), NEW r \in Results(G), ~r.ok,
         NEW w \in Seq(W)
  PROVE  Outcome(Results(G), Len(w), r, ParseSteps(G, F, w)) = r
<1>1. PICK n \in Nat : n = Len(w)
  BY LenProperties
<1>2. PICK f : f = [i \in 0 .. n |-> r]
  OBVIOUS
<1>3. f \in [0 .. n -> Results(G)] /\ f[0] = r /\ f[n] = r
  BY <1>2
<1>4. \A i \in 1 .. n : f[i] = ParseSteps(G, F, w)[i][f[i - 1]]
  <2>1. \A i \in 1 .. n : f[i] = r /\ f[i - 1] = r
    BY <1>2
  <2>2. \A i \in 1 .. n : ParseSteps(G, F, w)[i][r] = r
    BY <1>1, ParseStays
  <2>3. QED
    BY <2>1, <2>2
<1>5. Runs(Results(G), n, r, ParseSteps(G, F, w), f)
  BY <1>3, <1>4 DEF Runs
<1>6. QED
  BY <1>1, <1>3, <1>5, OutcomeIs

\* One input behind another.
LEMMA ParseParts ==
  ASSUME NEW G, NEW W, NEW F, Parser(G, W, F), NEW m \in G,
         NEW v \in Seq(W), NEW w \in Seq(W), NEW r, r = ParseOf(G, F, m, v)
  PROVE  ParseOf(G, F, m, v \o w) = IF r.ok THEN ParseOf(G, F, r.msg, w) ELSE r
<1>1. PICK k \in Nat, l \in Nat : k = Len(v) /\ l = Len(w)
  BY LenProperties
<1>2. PICK u : u = v \o w
  OBVIOUS
<1>3. /\ u \in Seq(W) /\ Len(u) = k + l
      /\ \A i \in 1 .. k : u[i] = v[i]
      /\ \A j \in 1 .. l : u[k + j] = w[j]
  BY <1>1, <1>2, ConcatParts, ConcatProperties
<1>4. Joins(ParseSteps(G, F, u), k, ParseSteps(G, F, v), l, ParseSteps(G, F, w))
  <2>1. ASSUME NEW i \in 1 .. k PROVE ParseSteps(G, F, u)[i] = ParseSteps(G, F, v)[i]
    <3>1. i \in 1 .. k + l /\ u[i] = v[i]
      BY <1>3
    <3>2. QED
      BY <1>1, <1>3, <3>1 DEF ParseSteps
  <2>2. ASSUME NEW j \in 1 .. l PROVE ParseSteps(G, F, u)[k + j] = ParseSteps(G, F, w)[j]
    <3>1. k + j \in 1 .. k + l /\ u[k + j] = w[j]
      BY <1>3
    <3>2. QED
      BY <1>1, <1>3, <3>1 DEF ParseSteps
  <2>3. QED
    BY <2>1, <2>2 DEF Joins
<1>5. PICK R, b, n : R = Results(G) /\ b = Read(m) /\ b \in R /\ n = k + l /\ n \in Nat
  <2>1. k + l \in Nat
    OBVIOUS
  <2>2. QED
    BY <2>1, ReadIs
<1>6. StaysIn(R, k, ParseSteps(G, F, v)) /\ StaysIn(R, l, ParseSteps(G, F, w))
  BY <1>1, <1>5, ParseStays
<1>7. Outcome(R, n, b, ParseSteps(G, F, u)) =
        Outcome(R, l, Outcome(R, k, b, ParseSteps(G, F, v)), ParseSteps(G, F, w))
  BY <1>4, <1>5, <1>6, OutcomeConcat
<1>8. ParseOf(G, F, m, u) = Outcome(R, l, r, ParseSteps(G, F, w)) /\ r \in R
  BY <1>1, <1>3, <1>5, <1>7, ParseIn DEF ParseOf
<1>9. CASE r.ok
  <2>1. r = Read(r.msg)
    BY <1>5, <1>8, <1>9 DEF Results, Read
  <2>2. QED
    BY <1>1, <1>2, <1>5, <1>8, <1>9, <2>1 DEF ParseOf
<1>10. CASE ~r.ok
  BY <1>1, <1>2, <1>5, <1>8, <1>10, ParseOver
<1>11. QED
  BY <1>9, <1>10

\* A parse of which every step is known.
Steps(G, F, w, n, s) ==
  s \in [0 .. n -> G] /\ \A i \in 1 .. n : F[s[i - 1]][w[i]] = Read(s[i])

\* It ends in the last of its messages.
LEMMA ParseRun ==
  ASSUME NEW G, NEW W, NEW F, Parser(G, W, F), NEW w \in Seq(W), NEW n \in Nat,
         n = Len(w), NEW s, Steps(G, F, w, n, s), NEW a, a = s[0]
  PROVE  ParseOf(G, F, a, w) = Read(s[n])
<1>0. s \in [0 .. n -> G] /\ \A i \in 1 .. n : F[s[i - 1]][w[i]] = Read(s[i])
  BY DEF Steps
<1>1. PICK f : f = [i \in 0 .. n |-> Read(s[i])]
  OBVIOUS
<1>2. \A i \in 0 .. n : s[i] \in G
  BY <1>0
<1>3. f \in [0 .. n -> Results(G)]
  BY <1>1, <1>2, ReadIs
<1>4. f[0] = Read(s[0]) /\ f[n] = Read(s[n])
  BY <1>1
<1>5. ASSUME NEW i \in 1 .. n PROVE f[i] = ParseSteps(G, F, w)[i][f[i - 1]]
  <2>1. i \in 0 .. n /\ i - 1 \in 0 .. n
    OBVIOUS
  <2>2. f[i] = Read(s[i]) /\ f[i - 1] = Read(s[i - 1]) /\ f[i - 1] \in Results(G)
    BY <1>1, <1>3, <2>1
  <2>3. f[i - 1].ok /\ f[i - 1].msg = s[i - 1]
    BY <1>2, <2>1, <2>2, ReadIs
  <2>4. QED
    BY <1>0, <2>2, <2>3, ParseStays
<1>6. Runs(Results(G), n, Read(s[0]), ParseSteps(G, F, w), f)
  BY <1>3, <1>4, <1>5 DEF Runs
<1>7. QED
  BY <1>4, <1>6, OutcomeIs DEF ParseOf

-----------------------------------------------------------------------------
(* Tokens in a sequence *)

TokensOf(w) == {w[i] : i \in 1 .. Len(w)}

\* The tokens of two parts are those of each.
LEMMA TokensParts ==
  ASSUME NEW W, NEW v \in Seq(W), NEW w \in Seq(W)
  PROVE  v \o w \in Seq(W) /\ TokensOf(v \o w) = TokensOf(v) \cup TokensOf(w)
<1>1. PICK k \in Nat, l \in Nat : k = Len(v) /\ l = Len(w)
  BY LenProperties
<1>2. PICK u : u = v \o w
  OBVIOUS
<1>3. /\ u \in Seq(W) /\ Len(u) = k + l
      /\ \A i \in 1 .. k : u[i] = v[i]
      /\ \A j \in 1 .. l : u[k + j] = w[j]
  BY <1>1, <1>2, Glued
<1>4. ASSUME NEW i \in 1 .. k + l PROVE u[i] \in TokensOf(v) \cup TokensOf(w)
  <2>1. CASE i <= k
    <3>1. i \in 1 .. k
      BY <2>1
    <3>2. QED
      BY <1>1, <1>3, <3>1 DEF TokensOf
  <2>2. CASE ~(i <= k)
    <3>1. PICK j : j = i - k
      OBVIOUS
    <3>2. j \in 1 .. l /\ k + j = i
      BY <2>2, <3>1
    <3>3. u[i] = w[j]
      BY <1>3, <3>2
    <3>4. QED
      BY <1>1, <3>2, <3>3 DEF TokensOf
  <2>3. QED
    BY <2>1, <2>2
<1>5. \A i \in 1 .. k : v[i] \in TokensOf(u)
  <2>1. \A i \in 1 .. k : i \in 1 .. k + l
    OBVIOUS
  <2>2. QED
    BY <1>3, <2>1 DEF TokensOf
<1>6. ASSUME NEW j \in 1 .. l PROVE w[j] \in TokensOf(u)
  <2>1. k + j \in 1 .. k + l
    OBVIOUS
  <2>2. u[k + j] = w[j]
    BY <1>3
  <2>3. QED
    BY <1>3, <2>1, <2>2 DEF TokensOf
<1>7. TokensOf(u) \subseteq TokensOf(v) \cup TokensOf(w)
  BY <1>3, <1>4 DEF TokensOf
<1>8. TokensOf(v) \subseteq TokensOf(u) /\ TokensOf(w) \subseteq TokensOf(u)
  BY <1>1, <1>5, <1>6 DEF TokensOf
<1>9. QED
  BY <1>2, <1>3, <1>7, <1>8

\* No token, one, and any.
LEMMA TokensShort ==
  /\ TokensOf(<<>>) = {}
  /\ \A t : TokensOf(<<t>>) = {t}
  /\ \A W : \A w \in Seq(W) : TokensOf(w) \subseteq W
<1>1. TokensOf(<<>>) = {}
  BY DEF TokensOf
<1>2. \A t : TokensOf(<<t>>) = {t}
  BY DEF TokensOf
<1>3. \A W : \A w \in Seq(W) : TokensOf(w) \subseteq W
  BY ElementOfSeq DEF TokensOf
<1>4. QED
  BY <1>1, <1>2, <1>3

\* A field that is written only when its bit is set.
LEMMA TokenIs ==
  ASSUME NEW W, NEW m, NEW bit, NEW t, bit \in m.has => t \in W
  PROVE  /\ Token(m, bit, t) \in Seq(W)
         /\ TokensOf(Token(m, bit, t)) = IF bit \in m.has THEN {t} ELSE {}
<1>1. \A s \in W : <<s>> \in Seq(W)
  OBVIOUS
<1>2. QED
  BY <1>1, EmptySeq, TokensShort DEF Token

-----------------------------------------------------------------------------
(* A function of every element *)

Mapped(F, s) == [i \in 1 .. Len(s) |-> F[s[i]]]

Maps(F, S, V) == F \in [S -> V]

\* A function of every element keeps the length.
LEMMA MappedIs ==
  ASSUME NEW S, NEW V, NEW F, Maps(F, S, V), NEW s \in Seq(S)
  PROVE  Mapped(F, s) \in Seq(V) /\ Len(Mapped(F, s)) = Len(s)
<1>1. PICK k \in Nat : k = Len(s)
  BY LenProperties
<1>2. \A i \in 1 .. k : s[i] \in S
  BY <1>1, ElementOfSeq
<1>3. \A i \in 1 .. k : F[s[i]] \in V
  BY <1>2 DEF Maps
<1>4. PICK a : a = [i \in 1 .. k |-> F[s[i]]]
  OBVIOUS
<1>5. a \in Seq(V) /\ Len(a) = k
  BY <1>3, <1>4
<1>6. QED
  BY <1>1, <1>4, <1>5 DEF Mapped

MapsJoined(F, st, s, t) == Mapped(F, st) = Mapped(F, s) \o Mapped(F, t)

\* It does not matter whether the parts are mapped or the whole.
LEMMA MappedParts ==
  ASSUME NEW S, NEW V, NEW F, Maps(F, S, V), NEW s \in Seq(S), NEW t \in Seq(S),
         NEW st, st = s \o t
  PROVE  MapsJoined(F, st, s, t)
<1>1. PICK k \in Nat, l \in Nat : k = Len(s) /\ l = Len(t)
  BY LenProperties
<1>2. PICK u : u = s \o t
  OBVIOUS
<1>3. /\ u \in Seq(S) /\ Len(u) = k + l
      /\ \A i \in 1 .. k : u[i] = s[i]
      /\ \A j \in 1 .. l : u[k + j] = t[j]
  BY <1>1, <1>2, Glued
<1>4. PICK a, b, c : /\ a = [i \in 1 .. k |-> F[s[i]]]
                     /\ b = [i \in 1 .. l |-> F[t[i]]]
                     /\ c = [i \in 1 .. k + l |-> F[u[i]]]
  OBVIOUS
<1>5. Mapped(F, s) = a /\ Mapped(F, t) = b /\ Mapped(F, u) = c
  BY <1>1, <1>3, <1>4 DEF Mapped
<1>6. a \in Seq(V) /\ Len(a) = k
  BY <1>1, <1>5, MappedIs
<1>7. b \in Seq(V) /\ Len(b) = l
  BY <1>1, <1>5, MappedIs
<1>8. c = a \o b
  <2>1. PICK d : d = a \o b
    OBVIOUS
  <2>2. /\ d \in Seq(V) /\ Len(d) = k + l
        /\ \A i \in 1 .. k : d[i] = a[i]
        /\ \A j \in 1 .. l : d[k + j] = b[j]
    <3>1. a \in Seq(V) /\ b \in Seq(V) /\ k = Len(a) /\ l = Len(b)
      BY <1>6, <1>7
    <3>2. QED
      BY <2>1, <3>1, Glued
  <2>3. ASSUME NEW i \in 1 .. k + l PROVE c[i] = d[i]
    <3>1. CASE i <= k
      <4>1. i \in 1 .. k
        BY <3>1
      <4>2. QED
        BY <1>3, <1>4, <2>2, <4>1
    <3>2. CASE ~(i <= k)
      <4>1. PICK j : j = i - k
        OBVIOUS
      <4>2. j \in 1 .. l /\ k + j = i
        BY <3>2, <4>1
      <4>3. c[i] = F[u[i]] /\ u[i] = t[j]
        BY <1>3, <1>4, <4>2
      <4>4. d[i] = b[j] /\ b[j] = F[t[j]]
        BY <1>4, <2>2, <4>2
      <4>5. QED
        BY <4>3, <4>4
    <3>3. QED
      BY <3>1, <3>2
  <2>4. d = [i \in 1 .. k + l |-> d[i]]
    BY <2>2
  <2>5. c = [i \in 1 .. k + l |-> c[i]]
    BY <1>4
  <2>6. QED
    BY <2>1, <2>3, <2>4, <2>5
<1>9. QED
  BY <1>2, <1>5, <1>8 DEF MapsJoined

\* The empty sequence.
LEMMA MappedNone == \A F : Mapped(F, <<>>) = <<>>
BY DEF Mapped

-----------------------------------------------------------------------------
(* The space tokens take *)

Measured(W) == \A t \in W : t.bytes \in Nat

\* Space adds up.
LEMMA BytesParts ==
  ASSUME NEW W, Measured(W), NEW v \in Seq(W), NEW w \in Seq(W)
  PROVE  /\ TotalBytes(v) \in Nat
         /\ TotalBytes(v \o w) = TotalBytes(v) + TotalBytes(w)
<1>1. PICK F, N : F = [t \in W |-> t.bytes] /\ N = Nat
  OBVIOUS
<1>2. Maps(F, W, N)
  BY <1>1 DEF Measured, Maps
<1>3. ASSUME NEW x \in Seq(W)
      PROVE  TotalBytes(x) = Total(Mapped(F, x)) /\ Mapped(F, x) \in Seq(Nat)
  <2>1. \A i \in 1 .. Len(x) : F[x[i]] = x[i].bytes
    BY <1>1, ElementOfSeq
  <2>2. Mapped(F, x) = [i \in 1 .. Len(x) |-> x[i].bytes]
    BY <2>1 DEF Mapped
  <2>3. Mapped(F, x) \in Seq(N)
    BY <1>2, MappedIs
  <2>4. QED
    BY <1>1, <2>2, <2>3 DEF TotalBytes
<1>4. v \o w \in Seq(W) /\ Mapped(F, v \o w) = Mapped(F, v) \o Mapped(F, w)
  <2>1. v \o w \in Seq(W)
    BY ConcatProperties
  <2>2. Mapped(F, v \o w) = Mapped(F, v) \o Mapped(F, w)
    <3>1. PICK u : u = v \o w
      OBVIOUS
    <3>2. MapsJoined(F, u, v, w)
      BY <1>2, <3>1, MappedParts
    <3>3. QED
      BY <3>1, <3>2 DEF MapsJoined
  <2>3. QED
    BY <2>1, <2>2
<1>5. TotalBytes(v \o w) = Total(Mapped(F, v) \o Mapped(F, w))
  BY <1>3, <1>4
<1>6. QED
  BY <1>3, <1>5, TotalIs, TotalParts

\* No token, and one.
LEMMA BytesShort ==
  /\ TotalBytes(<<>>) = 0
  /\ \A t : t.bytes \in Nat => TotalBytes(<<t>>) = t.bytes
<1>1. TotalBytes(<<>>) = 0
  <2>1. [i \in 1 .. Len(<<>>) |-> <<>>[i].bytes] = <<>>
    OBVIOUS
  <2>2. QED
    BY <2>1, TotalShort DEF TotalBytes
<1>2. ASSUME NEW t, t.bytes \in Nat PROVE TotalBytes(<<t>>) = t.bytes
  <2>1. [i \in 1 .. Len(<<t>>) |-> <<t>>[i].bytes] = <<t.bytes>>
    OBVIOUS
  <2>2. QED
    BY <1>2, <2>1, TotalShort DEF TotalBytes
<1>3. QED
  BY <1>1, <1>2

\* A field that is not there takes no space.
LEMMA TokenBytes ==
  ASSUME NEW m, NEW bit, NEW t, bit \in m.has => t.bytes \in Nat
  PROVE  TotalBytes(Token(m, bit, t)) = Space(m, bit, t.bytes)
BY BytesShort DEF Token, Space

-----------------------------------------------------------------------------
(* What the occurrences of a field amount to *)

Bodies(W, B) == \A t \in W : t.body \in Seq(B)

Gathering(B, w, num) ==
  [i \in 1 .. Len(w) |->
     [b \in Seq(B) |-> IF Tag(w[i], num, "len") THEN b \o w[i].body ELSE b]]

NoTag(w, num) == \A t \in TokensOf(w) : ~Tag(t, num, "len")

\* Gathering bodies leaves a sequence of tokens.
LEMMA GatheringStays ==
  ASSUME NEW W, NEW B, Bodies(W, B), NEW w \in Seq(W), NEW num
  PROVE  /\ StaysIn(Seq(B), Len(w), Gathering(B, w, num)) /\ Len(w) \in Nat
         /\ \A i \in 1 .. Len(w), b \in Seq(B) :
              Gathering(B, w, num)[i][b] =
                IF Tag(w[i], num, "len") THEN b \o w[i].body ELSE b
<1>1. Len(w) \in Nat /\ \A i \in 1 .. Len(w) : w[i] \in W /\ w[i].body \in Seq(B)
  BY LenProperties, ElementOfSeq DEF Bodies
<1>2. \A i \in 1 .. Len(w), b \in Seq(B) :
        Gathering(B, w, num)[i][b] = IF Tag(w[i], num, "len") THEN b \o w[i].body ELSE b
  BY DEF Gathering
<1>3. \A b \in Seq(B), c \in Seq(B) : b \o c \in Seq(B)
  BY ConcatProperties
<1>4. \A i \in 1 .. Len(w), b \in Seq(B) : Gathering(B, w, num)[i][b] \in Seq(B)
  BY <1>1, <1>2, <1>3
<1>5. QED
  BY <1>1, <1>2, <1>4 DEF StaysIn

\* Merged() is the end of that run.
LEMMA MergedIs ==
  ASSUME NEW W, NEW B, Bodies(W, B), NEW w \in Seq(W), NEW num
  PROVE  Merged(w, num) = Outcome(Seq(B), Len(w), <<>>, Gathering(B, w, num))
<1>1. PICK n \in Nat : n = Len(w)
  BY GatheringStays
<1>2. PICK S, e : S = Seq(B) /\ e = <<>> /\ e \in S
  BY EmptySeq
<1>3. StaysIn(S, n, Gathering(B, w, num))
  BY <1>1, <1>2, GatheringStays
<1>4. PICK f : Runs(S, n, e, Gathering(B, w, num), f)
  BY <1>2, <1>3, RunExists
<1>5. /\ f \in [0 .. n -> S] /\ f[0] = e
      /\ \A i \in 1 .. n : f[i] = Gathering(B, w, num)[i][f[i - 1]]
  BY <1>4 DEF Runs
<1>6. \A i \in 1 .. n :
        f[i] = IF Tag(w[i], num, "len") THEN f[i - 1] \o w[i].body ELSE f[i - 1]
  <2>1. \A i \in 1 .. n : i - 1 \in 0 .. n /\ i \in 1 .. Len(w)
    BY <1>1
  <2>2. \A i \in 1 .. n : f[i - 1] \in Seq(B)
    BY <1>2, <1>5, <2>1
  <2>3. QED
    BY <1>5, <2>1, <2>2, GatheringStays
<1>7. f = [i \in 0 .. n |->
             IF i = 0 THEN <<>>
             ELSE IF Tag(w[i], num, "len") THEN f[i - 1] \o w[i].body ELSE f[i - 1]]
  <2>1. \A i \in 0 .. n : i = 0 \/ i \in 1 .. n
    OBVIOUS
  <2>2. QED
    BY <1>2, <1>5, <1>6, <2>1
<1>8. PICK g : /\ g = [i \in 0 .. n |->
                         IF i = 0 THEN <<>>
                         ELSE IF Tag(w[i], num, "len") THEN g[i - 1] \o w[i].body
                              ELSE g[i - 1]]
               /\ Merged(w, num) = g[n]
  BY <1>1, <1>7 DEF Merged
<1>9. /\ g = [i \in 0 .. n |-> g[i]] /\ g[0] = e
      /\ \A i \in 1 .. n :
           g[i] = IF Tag(w[i], num, "len") THEN g[i - 1] \o w[i].body ELSE g[i - 1]
  BY <1>2, <1>8
<1>10. Runs(S, n, e, Gathering(B, w, num), g)
  <2>1. \A i \in 1 .. n, b \in S :
          Gathering(B, w, num)[i][b] = IF Tag(w[i], num, "len") THEN b \o w[i].body ELSE b
    BY <1>1, <1>2, GatheringStays
  <2>2. \A i \in 1 .. n : g[i - 1] \in S => g[i] = Gathering(B, w, num)[i][g[i - 1]]
    BY <1>9, <2>1
  <2>3. QED
    BY <1>2, <1>3, <1>9, <2>2, RunIs
<1>11. QED
  BY <1>1, <1>2, <1>8, <1>10, OutcomeIs

\* Input without the field changes nothing.
LEMMA GatherNone ==
  ASSUME NEW W, NEW B, Bodies(W, B), NEW w \in Seq(W), NEW num, NoTag(w, num),
         NEW c \in Seq(B)
  PROVE  Outcome(Seq(B), Len(w), c, Gathering(B, w, num)) = c
<1>1. PICK n \in Nat : n = Len(w)
  BY LenProperties
<1>2. PICK f : f = [i \in 0 .. n |-> c]
  OBVIOUS
<1>3. f \in [0 .. n -> Seq(B)] /\ f[0] = c /\ f[n] = c
  BY <1>2
<1>4. \A i \in 1 .. n : f[i] = Gathering(B, w, num)[i][f[i - 1]]
  <2>1. \A i \in 1 .. n : f[i] = c /\ f[i - 1] = c
    BY <1>2
  <2>2. \A i \in 1 .. n : ~Tag(w[i], num, "len")
    BY <1>1 DEF NoTag, TokensOf
  <2>3. \A i \in 1 .. n : Gathering(B, w, num)[i][c] = c
    BY <1>1, <2>2, GatheringStays
  <2>4. QED
    BY <2>1, <2>3
<1>5. Runs(Seq(B), n, c, Gathering(B, w, num), f)
  BY <1>3, <1>4 DEF Runs
<1>6. QED
  BY <1>1, <1>3, <1>5, OutcomeIs

\* Input without the field adds nothing before or behind the rest.
LEMMA MergedParts ==
  ASSUME NEW W, NEW B, Bodies(W, B), NEW v \in Seq(W), NEW w \in Seq(W), NEW num
  PROVE  /\ Merged(v, num) \in Seq(B)
         /\ NoTag(v, num) => Merged(v, num) = <<>> /\ Merged(v \o w, num) = Merged(w, num)
         /\ NoTag(w, num) => Merged(v \o w, num) = Merged(v, num)
<1>1. PICK k \in Nat, l \in Nat : k = Len(v) /\ l = Len(w)
  BY LenProperties
<1>2. PICK u : u = v \o w
  OBVIOUS
<1>3. /\ u \in Seq(W) /\ Len(u) = k + l
      /\ \A i \in 1 .. k : u[i] = v[i]
      /\ \A j \in 1 .. l : u[k + j] = w[j]
  BY <1>1, <1>2, Glued
<1>4. Joins(Gathering(B, u, num), k, Gathering(B, v, num), l, Gathering(B, w, num))
  <2>1. ASSUME NEW i \in 1 .. k PROVE Gathering(B, u, num)[i] = Gathering(B, v, num)[i]
    <3>1. i \in 1 .. k + l /\ u[i] = v[i]
      BY <1>3
    <3>2. QED
      BY <1>1, <1>3, <3>1 DEF Gathering
  <2>2. ASSUME NEW j \in 1 .. l PROVE Gathering(B, u, num)[k + j] = Gathering(B, w, num)[j]
    <3>1. k + j \in 1 .. k + l /\ u[k + j] = w[j]
      BY <1>3
    <3>2. QED
      BY <1>1, <1>3, <3>1 DEF Gathering
  <2>3. QED
    BY <2>1, <2>2 DEF Joins
<1>5. PICK S, e, n : S = Seq(B) /\ e = <<>> /\ e \in S /\ n = k + l /\ n \in Nat
  <2>1. k + l \in Nat
    OBVIOUS
  <2>2. QED
    BY <2>1, EmptySeq
<1>6. StaysIn(S, k, Gathering(B, v, num)) /\ StaysIn(S, l, Gathering(B, w, num))
  BY <1>1, <1>5, GatheringStays
<1>7. PICK c : c = Outcome(S, k, e, Gathering(B, v, num))
  OBVIOUS
<1>8. /\ c \in S /\ Merged(v, num) = c
      /\ Merged(w, num) = Outcome(S, l, e, Gathering(B, w, num))
  <2>1. c \in S
    BY <1>5, <1>6, <1>7, OutcomeIn
  <2>2. Merged(v, num) = c
    BY <1>1, <1>5, <1>7, MergedIs
  <2>3. Merged(w, num) = Outcome(S, l, e, Gathering(B, w, num))
    BY <1>1, <1>5, MergedIs
  <2>4. QED
    BY <2>1, <2>2, <2>3
<1>9. Merged(u, num) = Outcome(S, l, c, Gathering(B, w, num))
  <2>1. Merged(u, num) = Outcome(S, n, e, Gathering(B, u, num))
    BY <1>3, <1>5, MergedIs
  <2>2. Outcome(S, n, e, Gathering(B, u, num)) = Outcome(S, l, c, Gathering(B, w, num))
    <3>1. e \in S /\ n = k + l /\ n \in Nat
      BY <1>5
    <3>2. QED
      BY <1>4, <1>6, <1>7, <3>1, OutcomeConcat
  <2>3. QED
    BY <2>1, <2>2
<1>10. NoTag(v, num) => c = e
  BY <1>1, <1>5, <1>7, GatherNone
<1>11. NoTag(w, num) => Outcome(S, l, c, Gathering(B, w, num)) = c
  BY <1>1, <1>5, <1>8, GatherNone
<1>12. QED
  BY <1>2, <1>5, <1>8, <1>9, <1>10, <1>11

\* One occurrence is its body.
LEMMA MergedOne ==
  ASSUME NEW W, NEW B, Bodies(W, B), NEW t \in W, NEW num, Tag(t, num, "len")
  PROVE  Merged(<<t>>, num) = t.body
<1>1. PICK w : w = <<t>>
  OBVIOUS
<1>2. w \in Seq(W) /\ Len(w) = 1 /\ w[1] = t
  BY <1>1
<1>3. PICK S, e, b : S = Seq(B) /\ e = <<>> /\ e \in S /\ b = t.body /\ b \in S
  BY EmptySeq DEF Bodies
<1>4. Gathering(B, w, num)[1][e] = b
  <2>1. PICK i \in 1 .. Len(w) : i = 1
    BY <1>2
  <2>2. w \in Seq(W) /\ e \in Seq(B) /\ Tag(w[i], num, "len")
    BY <1>2, <1>3, <2>1
  <2>3. Gathering(B, w, num)[i][e] = e \o w[i].body
    <3>1. \A j \in 1 .. Len(w), c \in Seq(B) :
            Gathering(B, w, num)[j][c] = IF Tag(w[j], num, "len") THEN c \o w[j].body ELSE c
      BY <2>2, GatheringStays
    <3>2. QED
      BY <2>2, <3>1
  <2>4. \A s \in Seq(B) : <<>> \o s = s
    BY ConcatEmptySeq
  <2>5. QED
    BY <1>2, <1>3, <2>1, <2>3, <2>4
<1>5. Outcome(S, 1, e, Gathering(B, w, num)) = b
  <2>1. e \in S /\ Gathering(B, w, num)[1][e] \in S
    BY <1>3, <1>4
  <2>2. QED
    BY <1>4, <2>1, OutcomeShort
<1>6. QED
  BY <1>1, <1>2, <1>3, <1>5, MergedIs

-----------------------------------------------------------------------------
(* Messages as functions of their fields                                    *)

HasFields(m, D) == m = [f \in D |-> m[f]]

\* A field that does not point anywhere: what it may hold beside its has bit.
IntCell(has, bit, v) == v \in Int /\ (bit \notin has => v = 0)

BoolCell(has, bit, v) == v \in BOOLEAN /\ (bit \notin has => v = FALSE)

StringCell(has, bit, v) ==
  IF bit \in has THEN v \in Strings ELSE v \in {Shared, Empty}

\* The text of a string field, whether it owns the string or not.
LEMMA TextIs ==
  /\ Empty \in Strings /\ Shared \notin Strings
  /\ \A has, bit, v : StringCell(has, bit, v) => v \in Strings \cup {Shared}
  /\ \A v \in Strings : Text(v) = v /\ v # Shared
  /\ \A v \in Strings \cup {Shared} : Text(v) \in Strings /\ Emptied(v) \in {Shared, Empty}
  /\ Text(Shared) = Empty
BY WireAssumption DEF StringCell, Text, Emptied

-----------------------------------------------------------------------------
(* Tokens                                                                   *)

\* Plain tokens, as the writers make them.
LEMMA Written ==
  ASSUME NEW num \in Nat, NEW strings, NEW messages, NEW bodies, <<>> \in bodies
  PROVE  /\ \A v \in Int : WriteInt64(num, v) \in Tokens(strings, messages, bodies)
         /\ \A v \in BOOLEAN : WriteBool(num, v) \in Tokens(strings, messages, bodies)
         /\ \A v \in Strings : WriteString(num, v) \in Tokens(strings, messages, bodies)
<1>1. \A v \in Int : VarintSize(v) \in Nat /\ 1 + VarintSize(v) \in Nat
  BY DEF VarintSize
<1>2. ASSUME NEW v \in Int
      PROVE  WriteInt64(num, v) \in Tokens(strings, messages, bodies)
  BY <1>1, <1>2 DEF WriteInt64, Tokens
<1>3. \A s : StringLength(s) \in Nat /\ 1 + StringSize(s) \in Nat
  BY DEF StringLength, StringSize, LengthDelimitedSize, VarintSize
<1>4. ASSUME NEW v \in Strings
      PROVE  WriteString(num, v) \in Tokens(strings, messages, bodies)
  BY <1>3, <1>4 DEF WriteString, Tokens
<1>5. \A v \in BOOLEAN : WriteBool(num, v) \in Tokens(strings, messages, bodies)
  BY <1>2 DEF WriteBool
<1>6. QED
  BY <1>2, <1>4, <1>5

\* A nested message.
LEMMA WrittenMessage ==
  ASSUME NEW num \in Nat, NEW strings, NEW messages, NEW bodies, NEW m, m.size \in Nat,
         NEW w \in bodies, TotalBytes(w) \in Nat, num \in messages, num \notin strings
  PROVE  WriteMessage(num, m, w) \in Tokens(strings, messages, bodies)
<1>1. PICK n, b : /\ n = m.size /\ n \in Nat
                  /\ b = 1 + VarintSize(m.size) + TotalBytes(w) /\ b \in Nat
  <2>1. 1 + VarintSize(m.size) + TotalBytes(w) \in Nat
    BY DEF VarintSize
  <2>2. QED
    BY <2>1
<1>2. WriteMessage(num, m, w) =
        [num |-> num, wire |-> "len", val |-> Null, len |-> n, body |-> w,
         bytes |-> b, cut |-> FALSE]
  BY <1>1 DEF WriteMessage
<1>3. QED
  BY <1>1, <1>2 DEF Tokens

\* What is not known can be read again, wherever it is not known.
LEMMA UnknownTokens ==
  ASSUME NEW varints, NEW lens, NEW strings \in SUBSET lens, NEW messages, NEW bodies,
         <<>> \in bodies, NEW t \in Unknown(varints, lens)
  PROVE  /\ t \in Tokens(strings, messages, bodies) /\ ~t.cut /\ t.body = <<>>
         /\ \A num \in varints : ~Tag(t, num, "varint")
         /\ \A num \in lens : ~Tag(t, num, "len")
BY DEF Unknown, Tokens, Tag

\* No field of the class is among what is not known.
LEMMA UnknownTags ==
  ASSUME NEW varints, NEW lens, NEW t \in Unknown(varints, lens)
  PROVE  /\ ~t.cut /\ t.body = <<>>
         /\ \A num \in varints : ~Tag(t, num, "varint")
         /\ \A num \in lens : ~Tag(t, num, "len")
BY DEF Unknown, Tokens, Tag

\* What no case of the switch takes is not known.
LEMMA NotKnown ==
  ASSUME NEW varints, NEW lens, NEW strings, NEW messages, NEW bodies,
         NEW t \in Tokens(strings, messages, bodies), ~t.cut, messages \subseteq lens,
         \A num \in varints : ~Tag(t, num, "varint"),
         \A num \in lens : ~Tag(t, num, "len")
  PROVE  t \in Unknown(varints, lens)
<1>1. t.wire \in {"varint", "len"} /\ (t.body # <<>> => t.wire = "len" /\ t.num \in messages)
  BY DEF Tokens
<1>2. /\ t.wire = "varint" => t.num \notin varints
      /\ t.wire = "len" => t.num \notin lens
  BY DEF Tag
<1>3. t.body = <<>>
  BY <1>1, <1>2
<1>4. QED
  BY <1>1, <1>2, <1>3 DEF Tokens, Unknown

\* What a token holds.
LEMMA TokenParts ==
  ASSUME NEW strings, NEW messages, NEW bodies, NEW t \in Tokens(strings, messages, bodies)
  PROVE  /\ t.bytes \in Nat /\ t.body \in bodies /\ t.cut \in BOOLEAN
         /\ \A num : Tag(t, num, "varint") => t.val \in Int
         /\ \A num \in strings : Tag(t, num, "len") => t.val \in Strings
BY DEF Tokens, Tag

-----------------------------------------------------------------------------
(* The classes in memory: messages as functions of their fields              *)

-----------------------------------------------------------------------------
(* vct_pos                                                                   *)

PosFields == {"has", "unk", "size", "posm_", "poss_"}
PosUnknown == Unknown({1, 2}, {})

IsPos(m) ==
  /\ HasFields(m, PosFields)
  /\ m.has \in SUBSET (0 .. 1) /\ m.unk \in Seq(PosUnknown) /\ m.size \in Nat
  /\ IntCell(m.has, 0, m.posm_)
  /\ IntCell(m.has, 1, m.poss_)

\* The class, field by field.
LEMMA PosIs ==
  ASSUME NEW m
  PROVE  m \in PosMessages <=> IsPos(m)
<1>1. m.posm_ \in Int /\ SoundPlain(m, 0, "posm_", 0) <=> IntCell(m.has, 0, m.posm_)
  BY DEF SoundPlain, IntCell
<1>2. m.poss_ \in Int /\ SoundPlain(m, 1, "poss_", 0) <=> IntCell(m.has, 1, m.poss_)
  BY DEF SoundPlain, IntCell
<1>3. m \in PosMessages <=>
        /\ m \in [has : SUBSET (0 .. 1), unk : Seq(PosUnknown), size : Nat,
                posm_ : Int, poss_ : Int] /\ SoundPos(m)
  BY DEF PosMessages, PosUnknown
<1>4. m \in [has : SUBSET (0 .. 1), unk : Seq(PosUnknown), size : Nat,
                posm_ : Int, poss_ : Int] <=>
        /\ HasFields(m, PosFields)
        /\ m.has \in SUBSET (0 .. 1) /\ m.unk \in Seq(PosUnknown) /\ m.size \in Nat
        /\ m.posm_ \in Int
        /\ m.poss_ \in Int
  BY DEF HasFields, PosFields
<1>5. QED
  BY <1>1, <1>2, <1>3, <1>4 DEF IsPos, SoundPos

\* A default message.
LEMMA PosNew == vct_pos_New \in PosMessages
<1>1. PICK m : m = vct_pos_New
  OBVIOUS
<1>2. /\ HasFields(m, PosFields) /\ m.has = {} /\ m.unk = <<>> /\ m.size = 0
      /\ m.posm_ = 0 /\ m.poss_ = 0
  BY <1>1 DEF vct_pos_New, HasFields, PosFields
<1>3. m.has \in SUBSET (0 .. 1) /\ m.unk \in Seq(PosUnknown) /\ m.size \in Nat
  BY <1>2, EmptySeq
<1>4. IntCell(m.has, 0, m.posm_)
  BY <1>2 DEF IntCell
<1>5. IntCell(m.has, 1, m.poss_)
  BY <1>2 DEF IntCell
<1>6. QED
  BY <1>1, <1>2, <1>3, <1>4, <1>5, PosIs DEF IsPos

\* A field that points to such a message, and what the field shows.
PosOwned(x) == IF x = Null THEN vct_pos_New ELSE x

PosShown(x) == vct_pos_View(PosOwned(x))

PosCell(has, bit, v) ==
  /\ v \in PosMessages \cup {Null}
  /\ bit \in has => v \in PosMessages
  /\ bit \notin has => PosShown(v) = vct_pos_View(vct_pos_New)

\* How such a field may change with its bit.
LEMMA PosCells ==
  ASSUME NEW has, NEW bit, NEW v
  PROVE  /\ PosCell(has, bit, v) =>
              \A h : (bit \in h <=> bit \in has) => PosCell(h, bit, v)
         /\ v \in PosMessages /\ bit \in has => PosCell(has, bit, v)
         /\ bit \notin has => PosCell(has, bit, Null)
         /\ v \in PosMessages /\ bit \notin has /\
              vct_pos_View(v) = vct_pos_View(vct_pos_New) => PosCell(has, bit, v)
<1>1. Null \notin PosMessages
  BY ClassesAssumption
<1>2. QED
  BY <1>1, PosNew DEF PosCell, PosShown, PosOwned

\* The message such a field stands for.
LEMMA PosIsOwned ==
  ASSUME NEW has, NEW bit, NEW v, PosCell(has, bit, v)
  PROVE  /\ PosOwned(v) \in PosMessages
         /\ v # Null => v \in PosMessages /\ PosOwned(v) = v
         /\ bit \in has => v \in PosMessages /\ v # Null /\ PosOwned(v) = v
<1>1. Null \notin PosMessages
  BY ClassesAssumption
<1>2. QED
  BY <1>1, PosNew DEF PosCell, PosOwned

\* Setting and clearing a field.
LEMMA PosPut ==
  ASSUME NEW m \in PosMessages
  PROVE  /\ \A n \in Nat : [m EXCEPT !["size"] = n] \in PosMessages
         /\ \A u \in Seq(PosUnknown) : [m EXCEPT !["unk"] = m.unk \o u] \in PosMessages
         /\ \A v \in Int : Put(m, 0, "posm_", v) \in PosMessages
         /\ Unset(m, 0, "posm_", 0) \in PosMessages
         /\ \A v \in Int : Put(m, 1, "poss_", v) \in PosMessages
         /\ Unset(m, 1, "poss_", 0) \in PosMessages
<1>1. IsPos(m)
  BY PosIs
<1>2. ASSUME NEW v \in Nat, NEW p, p = [m EXCEPT !["size"] = v]
      PROVE  p \in PosMessages
  <2>1. /\ HasFields(p, PosFields) /\ p.size = v
        /\ p.has = m.has /\ p.unk = m.unk /\ p.posm_ = m.posm_ /\ p.poss_ = m.poss_
    BY <1>1, <1>2 DEF HasFields, IsPos, PosFields
  <2>2. QED
    BY <1>1, <2>1, PosIs DEF IsPos
<1>3. ASSUME NEW v \in Seq(PosUnknown), NEW p, p = [m EXCEPT !["unk"] = m.unk \o v]
      PROVE  p \in PosMessages
  <2>1. /\ HasFields(p, PosFields) /\ p.unk = m.unk \o v
        /\ p.has = m.has /\ p.size = m.size /\ p.posm_ = m.posm_ /\ p.poss_ = m.poss_
    BY <1>1, <1>3 DEF HasFields, IsPos, PosFields
  <2>2. p.unk \in Seq(PosUnknown)
    BY <1>1, <2>1, ConcatProperties DEF IsPos
  <2>3. QED
    BY <1>1, <2>1, <2>2, PosIs DEF IsPos
<1>4. ASSUME NEW v \in Int, NEW p, p = Put(m, 0, "posm_", v)
      PROVE  p \in PosMessages
  <2>1. /\ HasFields(p, PosFields) /\ p.has = m.has \cup {0} /\ p.posm_ = v
        /\ p.unk = m.unk /\ p.size = m.size /\ p.poss_ = m.poss_
    BY <1>1, <1>4 DEF Put, HasFields, IsPos, PosFields
  <2>2. p.has \in SUBSET (0 .. 1) /\ 0 \in p.has
        /\ \A b \in 0 .. 1 : b # 0 => (b \in p.has <=> b \in m.has)
    BY <1>1, <2>1 DEF IsPos
  <2>3. IntCell(p.has, 0, p.posm_)
    BY <1>4, <2>1, <2>2 DEF IntCell
  <2>4. /\ IntCell(p.has, 1, p.poss_)
    BY <1>1, <2>1, <2>2 DEF IsPos, IntCell
  <2>5. QED
    BY <1>1, <2>1, <2>2, <2>3, <2>4, PosIs DEF IsPos
<1>5. ASSUME NEW v, v = 0, NEW p, p = Unset(m, 0, "posm_", v)
      PROVE  p \in PosMessages
  <2>1. /\ HasFields(p, PosFields) /\ p.has = m.has \ {0} /\ p.posm_ = v
        /\ p.unk = m.unk /\ p.size = m.size /\ p.poss_ = m.poss_
    BY <1>1, <1>5 DEF Unset, HasFields, IsPos, PosFields
  <2>2. p.has \in SUBSET (0 .. 1) /\ 0 \notin p.has
        /\ \A b \in 0 .. 1 : b # 0 => (b \in p.has <=> b \in m.has)
    BY <1>1, <2>1 DEF IsPos
  <2>3. IntCell(p.has, 0, p.posm_)
    BY <1>5, <2>1, <2>2 DEF IntCell
  <2>4. /\ IntCell(p.has, 1, p.poss_)
    BY <1>1, <2>1, <2>2 DEF IsPos, IntCell
  <2>5. QED
    BY <1>1, <2>1, <2>2, <2>3, <2>4, PosIs DEF IsPos
<1>6. ASSUME NEW v \in Int, NEW p, p = Put(m, 1, "poss_", v)
      PROVE  p \in PosMessages
  <2>1. /\ HasFields(p, PosFields) /\ p.has = m.has \cup {1} /\ p.poss_ = v
        /\ p.unk = m.unk /\ p.size = m.size /\ p.posm_ = m.posm_
    BY <1>1, <1>6 DEF Put, HasFields, IsPos, PosFields
  <2>2. p.has \in SUBSET (0 .. 1) /\ 1 \in p.has
        /\ \A b \in 0 .. 1 : b # 1 => (b \in p.has <=> b \in m.has)
    BY <1>1, <2>1 DEF IsPos
  <2>3. IntCell(p.has, 1, p.poss_)
    BY <1>6, <2>1, <2>2 DEF IntCell
  <2>4. /\ IntCell(p.has, 0, p.posm_)
    BY <1>1, <2>1, <2>2 DEF IsPos, IntCell
  <2>5. QED
    BY <1>1, <2>1, <2>2, <2>3, <2>4, PosIs DEF IsPos
<1>7. ASSUME NEW v, v = 0, NEW p, p = Unset(m, 1, "poss_", v)
      PROVE  p \in PosMessages
  <2>1. /\ HasFields(p, PosFields) /\ p.has = m.has \ {1} /\ p.poss_ = v
        /\ p.unk = m.unk /\ p.size = m.size /\ p.posm_ = m.posm_
    BY <1>1, <1>7 DEF Unset, HasFields, IsPos, PosFields
  <2>2. p.has \in SUBSET (0 .. 1) /\ 1 \notin p.has
        /\ \A b \in 0 .. 1 : b # 1 => (b \in p.has <=> b \in m.has)
    BY <1>1, <2>1 DEF IsPos
  <2>3. IntCell(p.has, 1, p.poss_)
    BY <1>7, <2>1, <2>2 DEF IntCell
  <2>4. /\ IntCell(p.has, 0, p.posm_)
    BY <1>1, <2>1, <2>2 DEF IsPos, IntCell
  <2>5. QED
    BY <1>1, <2>1, <2>2, <2>3, <2>4, PosIs DEF IsPos
<1>8. QED
  BY <1>2, <1>3, <1>4, <1>5, <1>6, <1>7

-----------------------------------------------------------------------------
(* vct_value_n                                                               *)

ValueNFields == {"has", "unk", "size", "pos_", "a_", "b_", "commit_"}
ValueNUnknown == Unknown({2, 3, 5}, {1})

IsValueN(m) ==
  /\ HasFields(m, ValueNFields)
  /\ m.has \in SUBSET (0 .. 3) /\ m.unk \in Seq(ValueNUnknown) /\ m.size \in Nat
  /\ PosCell(m.has, 0, m.pos_)
  /\ IntCell(m.has, 1, m.a_)
  /\ IntCell(m.has, 2, m.b_)
  /\ BoolCell(m.has, 3, m.commit_)

\* The class, field by field.
LEMMA ValueNIs ==
  ASSUME NEW m
  PROVE  m \in ValueNMessages <=> IsValueN(m)
<1>1. /\ Null \notin PosMessages
      /\ \A x \in PosMessages : SoundPos(x)
  BY ClassesAssumption DEF PosMessages
<1>2. m.pos_ \in PosMessages \cup {Null} /\
        SoundMessage(m, 0, "pos_", SoundPos, vct_pos_View, vct_pos_New) <=>
            PosCell(m.has, 0, m.pos_)
  BY <1>1 DEF SoundMessage, PosCell, PosShown, PosOwned
<1>3. m.a_ \in Int /\ SoundPlain(m, 1, "a_", 0) <=> IntCell(m.has, 1, m.a_)
  BY DEF SoundPlain, IntCell
<1>4. m.b_ \in Int /\ SoundPlain(m, 2, "b_", 0) <=> IntCell(m.has, 2, m.b_)
  BY DEF SoundPlain, IntCell
<1>5. m.commit_ \in BOOLEAN /\ SoundPlain(m, 3, "commit_", FALSE) <=>
        BoolCell(m.has, 3, m.commit_)
  BY DEF SoundPlain, BoolCell
<1>6. m \in ValueNMessages <=>
        /\ m \in [has : SUBSET (0 .. 3), unk : Seq(ValueNUnknown), size : Nat,
                pos_ : PosMessages \cup {Null}, a_ : Int, b_ : Int, commit_ : BOOLEAN] /\
                    SoundValueN(m)
  BY DEF ValueNMessages, ValueNUnknown
<1>7. m \in [has : SUBSET (0 .. 3), unk : Seq(ValueNUnknown), size : Nat,
                pos_ : PosMessages \cup {Null}, a_ : Int, b_ : Int, commit_ : BOOLEAN] <=>
        /\ HasFields(m, ValueNFields)
        /\ m.has \in SUBSET (0 .. 3) /\ m.unk \in Seq(ValueNUnknown) /\ m.size \in Nat
        /\ m.pos_ \in PosMessages \cup {Null}
        /\ m.a_ \in Int
        /\ m.b_ \in Int
        /\ m.commit_ \in BOOLEAN
  BY DEF HasFields, ValueNFields
<1>8. QED
  BY <1>2, <1>3, <1>4, <1>5, <1>6, <1>7 DEF IsValueN, SoundValueN

\* A default message.
LEMMA ValueNNew == vct_value_n_New \in ValueNMessages
<1>1. PICK m : m = vct_value_n_New
  OBVIOUS
<1>2. /\ HasFields(m, ValueNFields) /\ m.has = {} /\ m.unk = <<>> /\ m.size = 0
      /\ m.pos_ = Null /\ m.a_ = 0 /\ m.b_ = 0 /\ m.commit_ = FALSE
  BY <1>1 DEF vct_value_n_New, HasFields, ValueNFields
<1>3. m.has \in SUBSET (0 .. 3) /\ m.unk \in Seq(ValueNUnknown) /\ m.size \in Nat
  BY <1>2, EmptySeq
<1>4. PosCell(m.has, 0, m.pos_)
  BY <1>2 DEF PosCell, PosShown, PosOwned
<1>5. IntCell(m.has, 1, m.a_)
  BY <1>2 DEF IntCell
<1>6. IntCell(m.has, 2, m.b_)
  BY <1>2 DEF IntCell
<1>7. BoolCell(m.has, 3, m.commit_)
  BY <1>2 DEF BoolCell
<1>8. QED
  BY <1>1, <1>2, <1>3, <1>4, <1>5, <1>6, <1>7, ValueNIs DEF IsValueN

\* A field that points to such a message, and what the field shows.
ValueNOwned(x) == IF x = Null THEN vct_value_n_New ELSE x

ValueNShown(x) == vct_value_n_View(ValueNOwned(x))

ValueNCell(has, bit, v) ==
  /\ v \in ValueNMessages \cup {Null}
  /\ bit \in has => v \in ValueNMessages
  /\ bit \notin has => ValueNShown(v) = vct_value_n_View(vct_value_n_New)

\* How such a field may change with its bit.
LEMMA ValueNCells ==
  ASSUME NEW has, NEW bit, NEW v
  PROVE  /\ ValueNCell(has, bit, v) =>
              \A h : (bit \in h <=> bit \in has) => ValueNCell(h, bit, v)
         /\ v \in ValueNMessages /\ bit \in has => ValueNCell(has, bit, v)
         /\ bit \notin has => ValueNCell(has, bit, Null)
         /\ v \in ValueNMessages /\ bit \notin has /\
              vct_value_n_View(v) = vct_value_n_View(vct_value_n_New) => ValueNCell(has, bit, v)
<1>1. Null \notin ValueNMessages
  BY ClassesAssumption
<1>2. QED
  BY <1>1, ValueNNew DEF ValueNCell, ValueNShown, ValueNOwned

\* The message such a field stands for.
LEMMA ValueNIsOwned ==
  ASSUME NEW has, NEW bit, NEW v, ValueNCell(has, bit, v)
  PROVE  /\ ValueNOwned(v) \in ValueNMessages
         /\ v # Null => v \in ValueNMessages /\ ValueNOwned(v) = v
         /\ bit \in has => v \in ValueNMessages /\ v # Null /\ ValueNOwned(v) = v
<1>1. Null \notin ValueNMessages
  BY ClassesAssumption
<1>2. QED
  BY <1>1, ValueNNew DEF ValueNCell, ValueNOwned

\* Setting and clearing a field.
LEMMA ValueNPut ==
  ASSUME NEW m \in ValueNMessages
  PROVE  /\ \A n \in Nat : [m EXCEPT !["size"] = n] \in ValueNMessages
         /\ \A u \in Seq(ValueNUnknown) : [m EXCEPT !["unk"] = m.unk \o u] \in ValueNMessages
         /\ \A v \in PosMessages : Put(m, 0, "pos_", v) \in ValueNMessages
         /\ \A v : PosCell({}, 0, v) => Unset(m, 0, "pos_", v) \in ValueNMessages
         /\ \A v \in Int : Put(m, 1, "a_", v) \in ValueNMessages
         /\ Unset(m, 1, "a_", 0) \in ValueNMessages
         /\ \A v \in Int : Put(m, 2, "b_", v) \in ValueNMessages
         /\ Unset(m, 2, "b_", 0) \in ValueNMessages
         /\ \A v \in BOOLEAN : Put(m, 3, "commit_", v) \in ValueNMessages
         /\ Unset(m, 3, "commit_", FALSE) \in ValueNMessages
<1>1. IsValueN(m)
  BY ValueNIs
<1>2. ASSUME NEW v \in Nat, NEW p, p = [m EXCEPT !["size"] = v]
      PROVE  p \in ValueNMessages
  <2>1. /\ HasFields(p, ValueNFields) /\ p.size = v
        /\ p.has = m.has /\ p.unk = m.unk /\ p.pos_ = m.pos_ /\ p.a_ = m.a_
        /\ p.b_ = m.b_ /\ p.commit_ = m.commit_
    BY <1>1, <1>2 DEF HasFields, IsValueN, ValueNFields
  <2>2. QED
    BY <1>1, <2>1, ValueNIs DEF IsValueN
<1>3. ASSUME NEW v \in Seq(ValueNUnknown), NEW p, p = [m EXCEPT !["unk"] = m.unk \o v]
      PROVE  p \in ValueNMessages
  <2>1. /\ HasFields(p, ValueNFields) /\ p.unk = m.unk \o v
        /\ p.has = m.has /\ p.size = m.size /\ p.pos_ = m.pos_ /\ p.a_ = m.a_
        /\ p.b_ = m.b_ /\ p.commit_ = m.commit_
    BY <1>1, <1>3 DEF HasFields, IsValueN, ValueNFields
  <2>2. p.unk \in Seq(ValueNUnknown)
    BY <1>1, <2>1, ConcatProperties DEF IsValueN
  <2>3. QED
    BY <1>1, <2>1, <2>2, ValueNIs DEF IsValueN
<1>4. ASSUME NEW v \in PosMessages, NEW p, p = Put(m, 0, "pos_", v)
      PROVE  p \in ValueNMessages
  <2>1. /\ HasFields(p, ValueNFields) /\ p.has = m.has \cup {0} /\ p.pos_ = v
        /\ p.unk = m.unk /\ p.size = m.size /\ p.a_ = m.a_ /\ p.b_ = m.b_
        /\ p.commit_ = m.commit_
    BY <1>1, <1>4 DEF Put, HasFields, IsValueN, ValueNFields
  <2>2. p.has \in SUBSET (0 .. 3) /\ 0 \in p.has
        /\ \A b \in 0 .. 3 : b # 0 => (b \in p.has <=> b \in m.has)
    BY <1>1, <2>1 DEF IsValueN
  <2>3. PosCell(p.has, 0, p.pos_)
    BY <1>4, <2>1, <2>2, PosCells
  <2>4. /\ IntCell(p.has, 1, p.a_)
        /\ IntCell(p.has, 2, p.b_)
        /\ BoolCell(p.has, 3, p.commit_)
    BY <1>1, <2>1, <2>2, PosCells DEF IsValueN, IntCell, BoolCell
  <2>5. QED
    BY <1>1, <2>1, <2>2, <2>3, <2>4, ValueNIs DEF IsValueN
<1>5. ASSUME NEW v, PosCell({}, 0, v), NEW p, p = Unset(m, 0, "pos_", v)
      PROVE  p \in ValueNMessages
  <2>1. /\ HasFields(p, ValueNFields) /\ p.has = m.has \ {0} /\ p.pos_ = v
        /\ p.unk = m.unk /\ p.size = m.size /\ p.a_ = m.a_ /\ p.b_ = m.b_
        /\ p.commit_ = m.commit_
    BY <1>1, <1>5 DEF Unset, HasFields, IsValueN, ValueNFields
  <2>2. p.has \in SUBSET (0 .. 3) /\ 0 \notin p.has
        /\ \A b \in 0 .. 3 : b # 0 => (b \in p.has <=> b \in m.has)
    BY <1>1, <2>1 DEF IsValueN
  <2>3. PosCell(p.has, 0, p.pos_)
    BY <1>5, <2>1, <2>2, PosCells
  <2>4. /\ IntCell(p.has, 1, p.a_)
        /\ IntCell(p.has, 2, p.b_)
        /\ BoolCell(p.has, 3, p.commit_)
    BY <1>1, <2>1, <2>2, PosCells DEF IsValueN, IntCell, BoolCell
  <2>5. QED
    BY <1>1, <2>1, <2>2, <2>3, <2>4, ValueNIs DEF IsValueN
<1>6. ASSUME NEW v \in Int, NEW p, p = Put(m, 1, "a_", v)
      PROVE  p \in ValueNMessages
  <2>1. /\ HasFields(p, ValueNFields) /\ p.has = m.has \cup {1} /\ p.a_ = v
        /\ p.unk = m.unk /\ p.size = m.size /\ p.pos_ = m.pos_ /\ p.b_ = m.b_
        /\ p.commit_ = m.commit_
    BY <1>1, <1>6 DEF Put, HasFields, IsValueN, ValueNFields
  <2>2. p.has \in SUBSET (0 .. 3) /\ 1 \in p.has
        /\ \A b \in 0 .. 3 : b # 1 => (b \in p.has <=> b \in m.has)
    BY <1>1, <2>1 DEF IsValueN
  <2>3. IntCell(p.has, 1, p.a_)
    BY <1>6, <2>1, <2>2 DEF IntCell
  <2>4. /\ PosCell(p.has, 0, p.pos_)
        /\ IntCell(p.has, 2, p.b_)
        /\ BoolCell(p.has, 3, p.commit_)
    BY <1>1, <2>1, <2>2, PosCells DEF IsValueN, IntCell, BoolCell
  <2>5. QED
    BY <1>1, <2>1, <2>2, <2>3, <2>4, ValueNIs DEF IsValueN
<1>7. ASSUME NEW v, v = 0, NEW p, p = Unset(m, 1, "a_", v)
      PROVE  p \in ValueNMessages
  <2>1. /\ HasFields(p, ValueNFields) /\ p.has = m.has \ {1} /\ p.a_ = v
        /\ p.unk = m.unk /\ p.size = m.size /\ p.pos_ = m.pos_ /\ p.b_ = m.b_
        /\ p.commit_ = m.commit_
    BY <1>1, <1>7 DEF Unset, HasFields, IsValueN, ValueNFields
  <2>2. p.has \in SUBSET (0 .. 3) /\ 1 \notin p.has
        /\ \A b \in 0 .. 3 : b # 1 => (b \in p.has <=> b \in m.has)
    BY <1>1, <2>1 DEF IsValueN
  <2>3. IntCell(p.has, 1, p.a_)
    BY <1>7, <2>1, <2>2 DEF IntCell
  <2>4. /\ PosCell(p.has, 0, p.pos_)
        /\ IntCell(p.has, 2, p.b_)
        /\ BoolCell(p.has, 3, p.commit_)
    BY <1>1, <2>1, <2>2, PosCells DEF IsValueN, IntCell, BoolCell
  <2>5. QED
    BY <1>1, <2>1, <2>2, <2>3, <2>4, ValueNIs DEF IsValueN
<1>8. ASSUME NEW v \in Int, NEW p, p = Put(m, 2, "b_", v)
      PROVE  p \in ValueNMessages
  <2>1. /\ HasFields(p, ValueNFields) /\ p.has = m.has \cup {2} /\ p.b_ = v
        /\ p.unk = m.unk /\ p.size = m.size /\ p.pos_ = m.pos_ /\ p.a_ = m.a_
        /\ p.commit_ = m.commit_
    BY <1>1, <1>8 DEF Put, HasFields, IsValueN, ValueNFields
  <2>2. p.has \in SUBSET (0 .. 3) /\ 2 \in p.has
        /\ \A b \in 0 .. 3 : b # 2 => (b \in p.has <=> b \in m.has)
    BY <1>1, <2>1 DEF IsValueN
  <2>3. IntCell(p.has, 2, p.b_)
    BY <1>8, <2>1, <2>2 DEF IntCell
  <2>4. /\ PosCell(p.has, 0, p.pos_)
        /\ IntCell(p.has, 1, p.a_)
        /\ BoolCell(p.has, 3, p.commit_)
    BY <1>1, <2>1, <2>2, PosCells DEF IsValueN, IntCell, BoolCell
  <2>5. QED
    BY <1>1, <2>1, <2>2, <2>3, <2>4, ValueNIs DEF IsValueN
<1>9. ASSUME NEW v, v = 0, NEW p, p = Unset(m, 2, "b_", v)
      PROVE  p \in ValueNMessages
  <2>1. /\ HasFields(p, ValueNFields) /\ p.has = m.has \ {2} /\ p.b_ = v
        /\ p.unk = m.unk /\ p.size = m.size /\ p.pos_ = m.pos_ /\ p.a_ = m.a_
        /\ p.commit_ = m.commit_
    BY <1>1, <1>9 DEF Unset, HasFields, IsValueN, ValueNFields
  <2>2. p.has \in SUBSET (0 .. 3) /\ 2 \notin p.has
        /\ \A b \in 0 .. 3 : b # 2 => (b \in p.has <=> b \in m.has)
    BY <1>1, <2>1 DEF IsValueN
  <2>3. IntCell(p.has, 2, p.b_)
    BY <1>9, <2>1, <2>2 DEF IntCell
  <2>4. /\ PosCell(p.has, 0, p.pos_)
        /\ IntCell(p.has, 1, p.a_)
        /\ BoolCell(p.has, 3, p.commit_)
    BY <1>1, <2>1, <2>2, PosCells DEF IsValueN, IntCell, BoolCell
  <2>5. QED
    BY <1>1, <2>1, <2>2, <2>3, <2>4, ValueNIs DEF IsValueN
<1>10. ASSUME NEW v \in BOOLEAN, NEW p, p = Put(m, 3, "commit_", v)
      PROVE  p \in ValueNMessages
  <2>1. /\ HasFields(p, ValueNFields) /\ p.has = m.has \cup {3} /\ p.commit_ = v
        /\ p.unk = m.unk /\ p.size = m.size /\ p.pos_ = m.pos_ /\ p.a_ = m.a_
        /\ p.b_ = m.b_
    BY <1>1, <1>10 DEF Put, HasFields, IsValueN, ValueNFields
  <2>2. p.has \in SUBSET (0 .. 3) /\ 3 \in p.has
        /\ \A b \in 0 .. 3 : b # 3 => (b \in p.has <=> b \in m.has)
    BY <1>1, <2>1 DEF IsValueN
  <2>3. BoolCell(p.has, 3, p.commit_)
    BY <1>10, <2>1, <2>2 DEF BoolCell
  <2>4. /\ PosCell(p.has, 0, p.pos_)
        /\ IntCell(p.has, 1, p.a_)
        /\ IntCell(p.has, 2, p.b_)
    BY <1>1, <2>1, <2>2, PosCells DEF IsValueN, IntCell, BoolCell
  <2>5. QED
    BY <1>1, <2>1, <2>2, <2>3, <2>4, ValueNIs DEF IsValueN
<1>11. ASSUME NEW v, v = FALSE, NEW p, p = Unset(m, 3, "commit_", v)
      PROVE  p \in ValueNMessages
  <2>1. /\ HasFields(p, ValueNFields) /\ p.has = m.has \ {3} /\ p.commit_ = v
        /\ p.unk = m.unk /\ p.size = m.size /\ p.pos_ = m.pos_ /\ p.a_ = m.a_
        /\ p.b_ = m.b_
    BY <1>1, <1>11 DEF Unset, HasFields, IsValueN, ValueNFields
  <2>2. p.has \in SUBSET (0 .. 3) /\ 3 \notin p.has
        /\ \A b \in 0 .. 3 : b # 3 => (b \in p.has <=> b \in m.has)
    BY <1>1, <2>1 DEF IsValueN
  <2>3. BoolCell(p.has, 3, p.commit_)
    BY <1>11, <2>1, <2>2 DEF BoolCell
  <2>4. /\ PosCell(p.has, 0, p.pos_)
        /\ IntCell(p.has, 1, p.a_)
        /\ IntCell(p.has, 2, p.b_)
    BY <1>1, <2>1, <2>2, PosCells DEF IsValueN, IntCell, BoolCell
  <2>5. QED
    BY <1>1, <2>1, <2>2, <2>3, <2>4, ValueNIs DEF IsValueN
<1>12. QED
  BY <1>2, <1>3, <1>4, <1>5, <1>6, <1>7, <1>8, <1>9, <1>10, <1>11

-----------------------------------------------------------------------------
(* vct_value                                                                 *)

ValueFields == {"has", "unk", "size", "key_", "main_", "his_", "commit_count_"}
ValueUnknown == Unknown({4}, {1, 2, 3})

IsValue(m) ==
  /\ HasFields(m, ValueFields)
  /\ m.has \in SUBSET (0 .. 2) /\ m.unk \in Seq(ValueUnknown) /\ m.size \in Nat
  /\ StringCell(m.has, 0, m.key_)
  /\ ValueNCell(m.has, 1, m.main_)
  /\ m.his_ \in Seq(ValueNMessages)
  /\ IntCell(m.has, 2, m.commit_count_)

\* The class, field by field.
LEMMA ValueIs ==
  ASSUME NEW m
  PROVE  m \in ValueMessages <=> IsValue(m)
<1>1. m.key_ \in Strings \cup {Shared} /\ SoundString(m, 0, "key_") <=>
        StringCell(m.has, 0, m.key_)
  BY TextIs DEF SoundString, StringCell
<1>2. /\ Null \notin ValueNMessages
      /\ \A x \in ValueNMessages : SoundValueN(x)
  BY ClassesAssumption DEF ValueNMessages
<1>3. m.main_ \in ValueNMessages \cup {Null} /\
        SoundMessage(m, 1, "main_", SoundValueN, vct_value_n_View, vct_value_n_New) <=>
            ValueNCell(m.has, 1, m.main_)
  BY <1>2 DEF SoundMessage, ValueNCell, ValueNShown, ValueNOwned
<1>4. \A s \in Seq(ValueNMessages) : \A i \in 1 .. Len(s) : SoundValueN(s[i])
  BY ElementOfSeq DEF ValueNMessages
<1>5. m.commit_count_ \in Int /\ SoundPlain(m, 2, "commit_count_", 0) <=>
        IntCell(m.has, 2, m.commit_count_)
  BY DEF SoundPlain, IntCell
<1>6. m \in ValueMessages <=>
        /\ m \in [has : SUBSET (0 .. 2), unk : Seq(ValueUnknown), size : Nat,
                key_ : Strings \cup {Shared}, main_ : ValueNMessages \cup
                    {Null}, his_ : Seq(ValueNMessages), commit_count_ : Int] /\ SoundValue(m)
  BY DEF ValueMessages, ValueUnknown
<1>7. m \in [has : SUBSET (0 .. 2), unk : Seq(ValueUnknown), size : Nat,
                key_ : Strings \cup {Shared}, main_ : ValueNMessages \cup
                    {Null}, his_ : Seq(ValueNMessages), commit_count_ : Int] <=>
        /\ HasFields(m, ValueFields)
        /\ m.has \in SUBSET (0 .. 2) /\ m.unk \in Seq(ValueUnknown) /\ m.size \in Nat
        /\ m.key_ \in Strings \cup {Shared}
        /\ m.main_ \in ValueNMessages \cup {Null}
        /\ m.his_ \in Seq(ValueNMessages)
        /\ m.commit_count_ \in Int
  BY DEF HasFields, ValueFields
<1>8. QED
  BY <1>1, <1>3, <1>4, <1>5, <1>6, <1>7 DEF IsValue, SoundValue

\* A default message.
LEMMA ValueNew == vct_value_New \in ValueMessages
<1>1. PICK m : m = vct_value_New
  OBVIOUS
<1>2. /\ HasFields(m, ValueFields) /\ m.has = {} /\ m.unk = <<>> /\ m.size = 0
      /\ m.key_ = Shared /\ m.main_ = Null /\ m.his_ = <<>> /\ m.commit_count_ = 0
  BY <1>1 DEF vct_value_New, HasFields, ValueFields
<1>3. m.has \in SUBSET (0 .. 2) /\ m.unk \in Seq(ValueUnknown) /\ m.size \in Nat
  BY <1>2, EmptySeq
<1>4. StringCell(m.has, 0, m.key_)
  BY <1>2 DEF StringCell
<1>5. ValueNCell(m.has, 1, m.main_)
  BY <1>2 DEF ValueNCell, ValueNShown, ValueNOwned
<1>6. m.his_ \in Seq(ValueNMessages)
  BY <1>2, EmptySeq
<1>7. IntCell(m.has, 2, m.commit_count_)
  BY <1>2 DEF IntCell
<1>8. QED
  BY <1>1, <1>2, <1>3, <1>4, <1>5, <1>6, <1>7, ValueIs DEF IsValue

\* Setting and clearing a field.
LEMMA ValuePut ==
  ASSUME NEW m \in ValueMessages
  PROVE  /\ \A n \in Nat : [m EXCEPT !["size"] = n] \in ValueMessages
         /\ \A u \in Seq(ValueUnknown) : [m EXCEPT !["unk"] = m.unk \o u] \in ValueMessages
         /\ \A v \in Strings : Put(m, 0, "key_", v) \in ValueMessages
         /\ \A v \in {Shared, Empty} : Unset(m, 0, "key_", v) \in ValueMessages
         /\ \A v \in ValueNMessages : Put(m, 1, "main_", v) \in ValueMessages
         /\ \A v : ValueNCell({}, 1, v) => Unset(m, 1, "main_", v) \in ValueMessages
         /\ \A h \in Seq(ValueNMessages) : [m EXCEPT !["his_"] = h] \in ValueMessages
         /\ \A v \in Int : Put(m, 2, "commit_count_", v) \in ValueMessages
         /\ Unset(m, 2, "commit_count_", 0) \in ValueMessages
<1>1. IsValue(m)
  BY ValueIs
<1>2. ASSUME NEW v \in Nat, NEW p, p = [m EXCEPT !["size"] = v]
      PROVE  p \in ValueMessages
  <2>1. /\ HasFields(p, ValueFields) /\ p.size = v
        /\ p.has = m.has /\ p.unk = m.unk /\ p.key_ = m.key_ /\ p.main_ = m.main_
        /\ p.his_ = m.his_ /\ p.commit_count_ = m.commit_count_
    BY <1>1, <1>2 DEF HasFields, IsValue, ValueFields
  <2>2. QED
    BY <1>1, <2>1, ValueIs DEF IsValue
<1>3. ASSUME NEW v \in Seq(ValueUnknown), NEW p, p = [m EXCEPT !["unk"] = m.unk \o v]
      PROVE  p \in ValueMessages
  <2>1. /\ HasFields(p, ValueFields) /\ p.unk = m.unk \o v
        /\ p.has = m.has /\ p.size = m.size /\ p.key_ = m.key_ /\ p.main_ = m.main_
        /\ p.his_ = m.his_ /\ p.commit_count_ = m.commit_count_
    BY <1>1, <1>3 DEF HasFields, IsValue, ValueFields
  <2>2. p.unk \in Seq(ValueUnknown)
    BY <1>1, <2>1, ConcatProperties DEF IsValue
  <2>3. QED
    BY <1>1, <2>1, <2>2, ValueIs DEF IsValue
<1>4. ASSUME NEW v \in Strings, NEW p, p = Put(m, 0, "key_", v)
      PROVE  p \in ValueMessages
  <2>1. /\ HasFields(p, ValueFields) /\ p.has = m.has \cup {0} /\ p.key_ = v
        /\ p.unk = m.unk /\ p.size = m.size /\ p.main_ = m.main_ /\ p.his_ = m.his_
        /\ p.commit_count_ = m.commit_count_
    BY <1>1, <1>4 DEF Put, HasFields, IsValue, ValueFields
  <2>2. p.has \in SUBSET (0 .. 2) /\ 0 \in p.has
        /\ \A b \in 0 .. 2 : b # 0 => (b \in p.has <=> b \in m.has)
    BY <1>1, <2>1 DEF IsValue
  <2>3. StringCell(p.has, 0, p.key_)
    BY <1>4, <2>1, <2>2 DEF StringCell
  <2>4. /\ ValueNCell(p.has, 1, p.main_)
        /\ p.his_ \in Seq(ValueNMessages)
        /\ IntCell(p.has, 2, p.commit_count_)
    BY <1>1, <2>1, <2>2, ValueNCells DEF IsValue, StringCell, IntCell
  <2>5. QED
    BY <1>1, <2>1, <2>2, <2>3, <2>4, ValueIs DEF IsValue
<1>5. ASSUME NEW v \in {Shared, Empty}, NEW p, p = Unset(m, 0, "key_", v)
      PROVE  p \in ValueMessages
  <2>1. /\ HasFields(p, ValueFields) /\ p.has = m.has \ {0} /\ p.key_ = v
        /\ p.unk = m.unk /\ p.size = m.size /\ p.main_ = m.main_ /\ p.his_ = m.his_
        /\ p.commit_count_ = m.commit_count_
    BY <1>1, <1>5 DEF Unset, HasFields, IsValue, ValueFields
  <2>2. p.has \in SUBSET (0 .. 2) /\ 0 \notin p.has
        /\ \A b \in 0 .. 2 : b # 0 => (b \in p.has <=> b \in m.has)
    BY <1>1, <2>1 DEF IsValue
  <2>3. StringCell(p.has, 0, p.key_)
    BY <1>5, <2>1, <2>2 DEF StringCell
  <2>4. /\ ValueNCell(p.has, 1, p.main_)
        /\ p.his_ \in Seq(ValueNMessages)
        /\ IntCell(p.has, 2, p.commit_count_)
    BY <1>1, <2>1, <2>2, ValueNCells DEF IsValue, StringCell, IntCell
  <2>5. QED
    BY <1>1, <2>1, <2>2, <2>3, <2>4, ValueIs DEF IsValue
<1>6. ASSUME NEW v \in ValueNMessages, NEW p, p = Put(m, 1, "main_", v)
      PROVE  p \in ValueMessages
  <2>1. /\ HasFields(p, ValueFields) /\ p.has = m.has \cup {1} /\ p.main_ = v
        /\ p.unk = m.unk /\ p.size = m.size /\ p.key_ = m.key_ /\ p.his_ = m.his_
        /\ p.commit_count_ = m.commit_count_
    BY <1>1, <1>6 DEF Put, HasFields, IsValue, ValueFields
  <2>2. p.has \in SUBSET (0 .. 2) /\ 1 \in p.has
        /\ \A b \in 0 .. 2 : b # 1 => (b \in p.has <=> b \in m.has)
    BY <1>1, <2>1 DEF IsValue
  <2>3. ValueNCell(p.has, 1, p.main_)
    BY <1>6, <2>1, <2>2, ValueNCells
  <2>4. /\ StringCell(p.has, 0, p.key_)
        /\ p.his_ \in Seq(ValueNMessages)
        /\ IntCell(p.has, 2, p.commit_count_)
    BY <1>1, <2>1, <2>2, ValueNCells DEF IsValue, StringCell, IntCell
  <2>5. QED
    BY <1>1, <2>1, <2>2, <2>3, <2>4, ValueIs DEF IsValue
<1>7. ASSUME NEW v, ValueNCell({}, 1, v), NEW p, p = Unset(m, 1, "main_", v)
      PROVE  p \in ValueMessages
  <2>1. /\ HasFields(p, ValueFields) /\ p.has = m.has \ {1} /\ p.main_ = v
        /\ p.unk = m.unk /\ p.size = m.size /\ p.key_ = m.key_ /\ p.his_ = m.his_
        /\ p.commit_count_ = m.commit_count_
    BY <1>1, <1>7 DEF Unset, HasFields, IsValue, ValueFields
  <2>2. p.has \in SUBSET (0 .. 2) /\ 1 \notin p.has
        /\ \A b \in 0 .. 2 : b # 1 => (b \in p.has <=> b \in m.has)
    BY <1>1, <2>1 DEF IsValue
  <2>3. ValueNCell(p.has, 1, p.main_)
    BY <1>7, <2>1, <2>2, ValueNCells
  <2>4. /\ StringCell(p.has, 0, p.key_)
        /\ p.his_ \in Seq(ValueNMessages)
        /\ IntCell(p.has, 2, p.commit_count_)
    BY <1>1, <2>1, <2>2, ValueNCells DEF IsValue, StringCell, IntCell
  <2>5. QED
    BY <1>1, <2>1, <2>2, <2>3, <2>4, ValueIs DEF IsValue
<1>8. ASSUME NEW v \in Seq(ValueNMessages), NEW p, p = [m EXCEPT !["his_"] = v]
      PROVE  p \in ValueMessages
  <2>1. /\ HasFields(p, ValueFields) /\ p.his_ = v
        /\ p.has = m.has /\ p.unk = m.unk /\ p.size = m.size /\ p.key_ = m.key_
        /\ p.main_ = m.main_ /\ p.commit_count_ = m.commit_count_
    BY <1>1, <1>8 DEF HasFields, IsValue, ValueFields
  <2>2. QED
    BY <1>1, <2>1, ValueIs DEF IsValue
<1>9. ASSUME NEW v \in Int, NEW p, p = Put(m, 2, "commit_count_", v)
      PROVE  p \in ValueMessages
  <2>1. /\ HasFields(p, ValueFields) /\ p.has = m.has \cup {2} /\ p.commit_count_ = v
        /\ p.unk = m.unk /\ p.size = m.size /\ p.key_ = m.key_ /\ p.main_ = m.main_
        /\ p.his_ = m.his_
    BY <1>1, <1>9 DEF Put, HasFields, IsValue, ValueFields
  <2>2. p.has \in SUBSET (0 .. 2) /\ 2 \in p.has
        /\ \A b \in 0 .. 2 : b # 2 => (b \in p.has <=> b \in m.has)
    BY <1>1, <2>1 DEF IsValue
  <2>3. IntCell(p.has, 2, p.commit_count_)
    BY <1>9, <2>1, <2>2 DEF IntCell
  <2>4. /\ StringCell(p.has, 0, p.key_)
        /\ ValueNCell(p.has, 1, p.main_)
        /\ p.his_ \in Seq(ValueNMessages)
    BY <1>1, <2>1, <2>2, ValueNCells DEF IsValue, StringCell, IntCell
  <2>5. QED
    BY <1>1, <2>1, <2>2, <2>3, <2>4, ValueIs DEF IsValue
<1>10. ASSUME NEW v, v = 0, NEW p, p = Unset(m, 2, "commit_count_", v)
      PROVE  p \in ValueMessages
  <2>1. /\ HasFields(p, ValueFields) /\ p.has = m.has \ {2} /\ p.commit_count_ = v
        /\ p.unk = m.unk /\ p.size = m.size /\ p.key_ = m.key_ /\ p.main_ = m.main_
        /\ p.his_ = m.his_
    BY <1>1, <1>10 DEF Unset, HasFields, IsValue, ValueFields
  <2>2. p.has \in SUBSET (0 .. 2) /\ 2 \notin p.has
        /\ \A b \in 0 .. 2 : b # 2 => (b \in p.has <=> b \in m.has)
    BY <1>1, <2>1 DEF IsValue
  <2>3. IntCell(p.has, 2, p.commit_count_)
    BY <1>10, <2>1, <2>2 DEF IntCell
  <2>4. /\ StringCell(p.has, 0, p.key_)
        /\ ValueNCell(p.has, 1, p.main_)
        /\ p.his_ \in Seq(ValueNMessages)
    BY <1>1, <2>1, <2>2, ValueNCells DEF IsValue, StringCell, IntCell
  <2>5. QED
    BY <1>1, <2>1, <2>2, <2>3, <2>4, ValueIs DEF IsValue
<1>11. QED
  BY <1>2, <1>3, <1>4, <1>5, <1>6, <1>7, <1>8, <1>9, <1>10

-----------------------------------------------------------------------------
(* keytable_value                                                            *)

KeytableFields == {"has", "unk", "size", "field_", "route_table_", "route_table_field_"}
KeytableUnknown == Unknown({}, {1, 2, 3})

IsKeytable(m) ==
  /\ HasFields(m, KeytableFields)
  /\ m.has \in SUBSET (0 .. 2) /\ m.unk \in Seq(KeytableUnknown) /\ m.size \in Nat
  /\ StringCell(m.has, 0, m.field_)
  /\ StringCell(m.has, 1, m.route_table_)
  /\ StringCell(m.has, 2, m.route_table_field_)

\* The class, field by field.
LEMMA KeytableIs ==
  ASSUME NEW m
  PROVE  m \in KeytableMessages <=> IsKeytable(m)
<1>1. m.field_ \in Strings \cup {Shared} /\ SoundString(m, 0, "field_") <=>
        StringCell(m.has, 0, m.field_)
  BY TextIs DEF SoundString, StringCell
<1>2. m.route_table_ \in Strings \cup {Shared} /\ SoundString(m, 1, "route_table_") <=>
        StringCell(m.has, 1, m.route_table_)
  BY TextIs DEF SoundString, StringCell
<1>3. m.route_table_field_ \in Strings \cup {Shared} /\
        SoundString(m, 2, "route_table_field_") <=> StringCell(m.has, 2, m.route_table_field_)
  BY TextIs DEF SoundString, StringCell
<1>4. m \in KeytableMessages <=>
        /\ m \in [has : SUBSET (0 .. 2), unk : Seq(KeytableUnknown), size : Nat,
                field_ : Strings \cup {Shared}, route_table_ : Strings \cup
                    {Shared}, route_table_field_ : Strings \cup {Shared}] /\ SoundKeytable(m)
  BY DEF KeytableMessages, KeytableUnknown
<1>5. m \in [has : SUBSET (0 .. 2), unk : Seq(KeytableUnknown), size : Nat,
                field_ : Strings \cup {Shared}, route_table_ : Strings \cup
                    {Shared}, route_table_field_ : Strings \cup {Shared}] <=>
        /\ HasFields(m, KeytableFields)
        /\ m.has \in SUBSET (0 .. 2) /\ m.unk \in Seq(KeytableUnknown) /\ m.size \in Nat
        /\ m.field_ \in Strings \cup {Shared}
        /\ m.route_table_ \in Strings \cup {Shared}
        /\ m.route_table_field_ \in Strings \cup {Shared}
  BY DEF HasFields, KeytableFields
<1>6. QED
  BY <1>1, <1>2, <1>3, <1>4, <1>5 DEF IsKeytable, SoundKeytable

\* A default message.
LEMMA KeytableNew == keytable_value_New \in KeytableMessages
<1>1. PICK m : m = keytable_value_New
  OBVIOUS
<1>2. /\ HasFields(m, KeytableFields) /\ m.has = {} /\ m.unk = <<>> /\ m.size = 0
      /\ m.field_ = Shared /\ m.route_table_ = Shared /\ m.route_table_field_ = Shared
  BY <1>1 DEF keytable_value_New, HasFields, KeytableFields
<1>3. m.has \in SUBSET (0 .. 2) /\ m.unk \in Seq(KeytableUnknown) /\ m.size \in Nat
  BY <1>2, EmptySeq
<1>4. StringCell(m.has, 0, m.field_)
  BY <1>2 DEF StringCell
<1>5. StringCell(m.has, 1, m.route_table_)
  BY <1>2 DEF StringCell
<1>6. StringCell(m.has, 2, m.route_table_field_)
  BY <1>2 DEF StringCell
<1>7. QED
  BY <1>1, <1>2, <1>3, <1>4, <1>5, <1>6, KeytableIs DEF IsKeytable

\* Setting and clearing a field.
LEMMA KeytablePut ==
  ASSUME NEW m \in KeytableMessages
  PROVE  /\ \A n \in Nat : [m EXCEPT !["size"] = n] \in KeytableMessages
         /\ \A u \in Seq(KeytableUnknown) :
              [m EXCEPT !["unk"] = m.unk \o u] \in KeytableMessages
         /\ \A v \in Strings : Put(m, 0, "field_", v) \in KeytableMessages
         /\ \A v \in {Shared, Empty} : Unset(m, 0, "field_", v) \in KeytableMessages
         /\ \A v \in Strings : Put(m, 1, "route_table_", v) \in KeytableMessages
         /\ \A v \in {Shared, Empty} : Unset(m, 1, "route_table_", v) \in KeytableMessages
         /\ \A v \in Strings : Put(m, 2, "route_table_field_", v) \in KeytableMessages
         /\ \A v \in {Shared, Empty} : Unset(m, 2, "route_table_field_", v) \in KeytableMessages
<1>1. IsKeytable(m)
  BY KeytableIs
<1>2. ASSUME NEW v \in Nat, NEW p, p = [m EXCEPT !["size"] = v]
      PROVE  p \in KeytableMessages
  <2>1. /\ HasFields(p, KeytableFields) /\ p.size = v
        /\ p.has = m.has /\ p.unk = m.unk /\ p.field_ = m.field_ /\
             p.route_table_ = m.route_table_
        /\ p.route_table_field_ = m.route_table_field_
    BY <1>1, <1>2 DEF HasFields, IsKeytable, KeytableFields
  <2>2. QED
    BY <1>1, <2>1, KeytableIs DEF IsKeytable
<1>3. ASSUME NEW v \in Seq(KeytableUnknown), NEW p, p = [m EXCEPT !["unk"] = m.unk \o v]
      PROVE  p \in KeytableMessages
  <2>1. /\ HasFields(p, KeytableFields) /\ p.unk = m.unk \o v
        /\ p.has = m.has /\ p.size = m.size /\ p.field_ = m.field_ /\
             p.route_table_ = m.route_table_
        /\ p.route_table_field_ = m.route_table_field_
    BY <1>1, <1>3 DEF HasFields, IsKeytable, KeytableFields
  <2>2. p.unk \in Seq(KeytableUnknown)
    BY <1>1, <2>1, ConcatProperties DEF IsKeytable
  <2>3. QED
    BY <1>1, <2>1, <2>2, KeytableIs DEF IsKeytable
<1>4. ASSUME NEW v \in Strings, NEW p, p = Put(m, 0, "field_", v)
      PROVE  p \in KeytableMessages
  <2>1. /\ HasFields(p, KeytableFields) /\ p.has = m.has \cup {0} /\ p.field_ = v
        /\ p.unk = m.unk /\ p.size = m.size /\ p.route_table_ = m.route_table_ /\
             p.route_table_field_ = m.route_table_field_
    BY <1>1, <1>4 DEF Put, HasFields, IsKeytable, KeytableFields
  <2>2. p.has \in SUBSET (0 .. 2) /\ 0 \in p.has
        /\ \A b \in 0 .. 2 : b # 0 => (b \in p.has <=> b \in m.has)
    BY <1>1, <2>1 DEF IsKeytable
  <2>3. StringCell(p.has, 0, p.field_)
    BY <1>4, <2>1, <2>2 DEF StringCell
  <2>4. /\ StringCell(p.has, 1, p.route_table_)
        /\ StringCell(p.has, 2, p.route_table_field_)
    BY <1>1, <2>1, <2>2 DEF IsKeytable, StringCell
  <2>5. QED
    BY <1>1, <2>1, <2>2, <2>3, <2>4, KeytableIs DEF IsKeytable
<1>5. ASSUME NEW v \in {Shared, Empty}, NEW p, p = Unset(m, 0, "field_", v)
      PROVE  p \in KeytableMessages
  <2>1. /\ HasFields(p, KeytableFields) /\ p.has = m.has \ {0} /\ p.field_ = v
        /\ p.unk = m.unk /\ p.size = m.size /\ p.route_table_ = m.route_table_ /\
             p.route_table_field_ = m.route_table_field_
    BY <1>1, <1>5 DEF Unset, HasFields, IsKeytable, KeytableFields
  <2>2. p.has \in SUBSET (0 .. 2) /\ 0 \notin p.has
        /\ \A b \in 0 .. 2 : b # 0 => (b \in p.has <=> b \in m.has)
    BY <1>1, <2>1 DEF IsKeytable
  <2>3. StringCell(p.has, 0, p.field_)
    BY <1>5, <2>1, <2>2 DEF StringCell
  <2>4. /\ StringCell(p.has, 1, p.route_table_)
        /\ StringCell(p.has, 2, p.route_table_field_)
    BY <1>1, <2>1, <2>2 DEF IsKeytable, StringCell
  <2>5. QED
    BY <1>1, <2>1, <2>2, <2>3, <2>4, KeytableIs DEF IsKeytable
<1>6. ASSUME NEW v \in Strings, NEW p, p = Put(m, 1, "route_table_", v)
      PROVE  p \in KeytableMessages
  <2>1. /\ HasFields(p, KeytableFields) /\ p.has = m.has \cup {1} /\ p.route_table_ = v
        /\ p.unk = m.unk /\ p.size = m.size /\ p.field_ = m.field_ /\
             p.route_table_field_ = m.route_table_field_
    BY <1>1, <1>6 DEF Put, HasFields, IsKeytable, KeytableFields
  <2>2. p.has \in SUBSET (0 .. 2) /\ 1 \in p.has
        /\ \A b \in 0 .. 2 : b # 1 => (b \in p.has <=> b \in m.has)
    BY <1>1, <2>1 DEF IsKeytable
  <2>3. StringCell(p.has, 1, p.route_table_)
    BY <1>6, <2>1, <2>2 DEF StringCell
  <2>4. /\ StringCell(p.has, 0, p.field_)
        /\ StringCell(p.has, 2, p.route_table_field_)
    BY <1>1, <2>1, <2>2 DEF IsKeytable, StringCell
  <2>5. QED
    BY <1>1, <2>1, <2>2, <2>3, <2>4, KeytableIs DEF IsKeytable
<1>7. ASSUME NEW v \in {Shared, Empty}, NEW p, p = Unset(m, 1, "route_table_", v)
      PROVE  p \in KeytableMessages
  <2>1. /\ HasFields(p, KeytableFields) /\ p.has = m.has \ {1} /\ p.route_table_ = v
        /\ p.unk = m.unk /\ p.size = m.size /\ p.field_ = m.field_ /\
             p.route_table_field_ = m.route_table_field_
    BY <1>1, <1>7 DEF Unset, HasFields, IsKeytable, KeytableFields
  <2>2. p.has \in SUBSET (0 .. 2) /\ 1 \notin p.has
        /\ \A b \in 0 .. 2 : b # 1 => (b \in p.has <=> b \in m.has)
    BY <1>1, <2>1 DEF IsKeytable
  <2>3. StringCell(p.has, 1, p.route_table_)
    BY <1>7, <2>1, <2>2 DEF StringCell
  <2>4. /\ StringCell(p.has, 0, p.field_)
        /\ StringCell(p.has, 2, p.route_table_field_)
    BY <1>1, <2>1, <2>2 DEF IsKeytable, StringCell
  <2>5. QED
    BY <1>1, <2>1, <2>2, <2>3, <2>4, KeytableIs DEF IsKeytable
<1>8. ASSUME NEW v \in Strings, NEW p, p = Put(m, 2, "route_table_field_", v)
      PROVE  p \in KeytableMessages
  <2>1. /\ HasFields(p, KeytableFields) /\ p.has = m.has \cup {2} /\ p.route_table_field_ = v
        /\ p.unk = m.unk /\ p.size = m.size /\ p.field_ = m.field_ /\
             p.route_table_ = m.route_table_
    BY <1>1, <1>8 DEF Put, HasFields, IsKeytable, KeytableFields
  <2>2. p.has \in SUBSET (0 .. 2) /\ 2 \in p.has
        /\ \A b \in 0 .. 2 : b # 2 => (b \in p.has <=> b \in m.has)
    BY <1>1, <2>1 DEF IsKeytable
  <2>3. StringCell(p.has, 2, p.route_table_field_)
    BY <1>8, <2>1, <2>2 DEF StringCell
  <2>4. /\ StringCell(p.has, 0, p.field_)
        /\ StringCell(p.has, 1, p.route_table_)
    BY <1>1, <2>1, <2>2 DEF IsKeytable, StringCell
  <2>5. QED
    BY <1>1, <2>1, <2>2, <2>3, <2>4, KeytableIs DEF IsKeytable
<1>9. ASSUME NEW v \in {Shared, Empty}, NEW p, p = Unset(m, 2, "route_table_field_", v)
      PROVE  p \in KeytableMessages
  <2>1. /\ HasFields(p, KeytableFields) /\ p.has = m.has \ {2} /\ p.route_table_field_ = v
        /\ p.unk = m.unk /\ p.size = m.size /\ p.field_ = m.field_ /\
             p.route_table_ = m.route_table_
    BY <1>1, <1>9 DEF Unset, HasFields, IsKeytable, KeytableFields
  <2>2. p.has \in SUBSET (0 .. 2) /\ 2 \notin p.has
        /\ \A b \in 0 .. 2 : b # 2 => (b \in p.has <=> b \in m.has)
    BY <1>1, <2>1 DEF IsKeytable
  <2>3. StringCell(p.has, 2, p.route_table_field_)
    BY <1>9, <2>1, <2>2 DEF StringCell
  <2>4. /\ StringCell(p.has, 0, p.field_)
        /\ StringCell(p.has, 1, p.route_table_)
    BY <1>1, <2>1, <2>2 DEF IsKeytable, StringCell
  <2>5. QED
    BY <1>1, <2>1, <2>2, <2>3, <2>4, KeytableIs DEF IsKeytable
<1>10. QED
  BY <1>2, <1>3, <1>4, <1>5, <1>6, <1>7, <1>8, <1>9

-----------------------------------------------------------------------------
(* route_value_col                                                           *)

ColFields == {"has", "unk", "size", "name_", "value_"}
ColUnknown == Unknown({}, {1, 2})

IsCol(m) ==
  /\ HasFields(m, ColFields)
  /\ m.has \in SUBSET (0 .. 1) /\ m.unk \in Seq(ColUnknown) /\ m.size \in Nat
  /\ StringCell(m.has, 0, m.name_)
  /\ StringCell(m.has, 1, m.value_)

\* The class, field by field.
LEMMA ColIs ==
  ASSUME NEW m
  PROVE  m \in ColMessages <=> IsCol(m)
<1>1. m.name_ \in Strings \cup {Shared} /\ SoundString(m, 0, "name_") <=>
        StringCell(m.has, 0, m.name_)
  BY TextIs DEF SoundString, StringCell
<1>2. m.value_ \in Strings \cup {Shared} /\ SoundString(m, 1, "value_") <=>
        StringCell(m.has, 1, m.value_)
  BY TextIs DEF SoundString, StringCell
<1>3. m \in ColMessages <=>
        /\ m \in [has : SUBSET (0 .. 1), unk : Seq(ColUnknown), size : Nat,
                name_ : Strings \cup {Shared}, value_ : Strings \cup {Shared}] /\ SoundCol(m)
  BY DEF ColMessages, ColUnknown
<1>4. m \in [has : SUBSET (0 .. 1), unk : Seq(ColUnknown), size : Nat,
                name_ : Strings \cup {Shared}, value_ : Strings \cup {Shared}] <=>
        /\ HasFields(m, ColFields)
        /\ m.has \in SUBSET (0 .. 1) /\ m.unk \in Seq(ColUnknown) /\ m.size \in Nat
        /\ m.name_ \in Strings \cup {Shared}
        /\ m.value_ \in Strings \cup {Shared}
  BY DEF HasFields, ColFields
<1>5. QED
  BY <1>1, <1>2, <1>3, <1>4 DEF IsCol, SoundCol

\* A default message.
LEMMA ColNew == route_value_col_New \in ColMessages
<1>1. PICK m : m = route_value_col_New
  OBVIOUS
<1>2. /\ HasFields(m, ColFields) /\ m.has = {} /\ m.unk = <<>> /\ m.size = 0
      /\ m.name_ = Shared /\ m.value_ = Shared
  BY <1>1 DEF route_value_col_New, HasFields, ColFields
<1>3. m.has \in SUBSET (0 .. 1) /\ m.unk \in Seq(ColUnknown) /\ m.size \in Nat
  BY <1>2, EmptySeq
<1>4. StringCell(m.has, 0, m.name_)
  BY <1>2 DEF StringCell
<1>5. StringCell(m.has, 1, m.value_)
  BY <1>2 DEF StringCell
<1>6. QED
  BY <1>1, <1>2, <1>3, <1>4, <1>5, ColIs DEF IsCol

\* Setting and clearing a field.
LEMMA ColPut ==
  ASSUME NEW m \in ColMessages
  PROVE  /\ \A n \in Nat : [m EXCEPT !["size"] = n] \in ColMessages
         /\ \A u \in Seq(ColUnknown) : [m EXCEPT !["unk"] = m.unk \o u] \in ColMessages
         /\ \A v \in Strings : Put(m, 0, "name_", v) \in ColMessages
         /\ \A v \in {Shared, Empty} : Unset(m, 0, "name_", v) \in ColMessages
         /\ \A v \in Strings : Put(m, 1, "value_", v) \in ColMessages
         /\ \A v \in {Shared, Empty} : Unset(m, 1, "value_", v) \in ColMessages
<1>1. IsCol(m)
  BY ColIs
<1>2. ASSUME NEW v \in Nat, NEW p, p = [m EXCEPT !["size"] = v]
      PROVE  p \in ColMessages
  <2>1. /\ HasFields(p, ColFields) /\ p.size = v
        /\ p.has = m.has /\ p.unk = m.unk /\ p.name_ = m.name_ /\ p.value_ = m.value_
    BY <1>1, <1>2 DEF HasFields, IsCol, ColFields
  <2>2. QED
    BY <1>1, <2>1, ColIs DEF IsCol
<1>3. ASSUME NEW v \in Seq(ColUnknown), NEW p, p = [m EXCEPT !["unk"] = m.unk \o v]
      PROVE  p \in ColMessages
  <2>1. /\ HasFields(p, ColFields) /\ p.unk = m.unk \o v
        /\ p.has = m.has /\ p.size = m.size /\ p.name_ = m.name_ /\ p.value_ = m.value_
    BY <1>1, <1>3 DEF HasFields, IsCol, ColFields
  <2>2. p.unk \in Seq(ColUnknown)
    BY <1>1, <2>1, ConcatProperties DEF IsCol
  <2>3. QED
    BY <1>1, <2>1, <2>2, ColIs DEF IsCol
<1>4. ASSUME NEW v \in Strings, NEW p, p = Put(m, 0, "name_", v)
      PROVE  p \in ColMessages
  <2>1. /\ HasFields(p, ColFields) /\ p.has = m.has \cup {0} /\ p.name_ = v
        /\ p.unk = m.unk /\ p.size = m.size /\ p.value_ = m.value_
    BY <1>1, <1>4 DEF Put, HasFields, IsCol, ColFields
  <2>2. p.has \in SUBSET (0 .. 1) /\ 0 \in p.has
        /\ \A b \in 0 .. 1 : b # 0 => (b \in p.has <=> b \in m.has)
    BY <1>1, <2>1 DEF IsCol
  <2>3. StringCell(p.has, 0, p.name_)
    BY <1>4, <2>1, <2>2 DEF StringCell
  <2>4. /\ StringCell(p.has, 1, p.value_)
    BY <1>1, <2>1, <2>2 DEF IsCol, StringCell
  <2>5. QED
    BY <1>1, <2>1, <2>2, <2>3, <2>4, ColIs DEF IsCol
<1>5. ASSUME NEW v \in {Shared, Empty}, NEW p, p = Unset(m, 0, "name_", v)
      PROVE  p \in ColMessages
  <2>1. /\ HasFields(p, ColFields) /\ p.has = m.has \ {0} /\ p.name_ = v
        /\ p.unk = m.unk /\ p.size = m.size /\ p.value_ = m.value_
    BY <1>1, <1>5 DEF Unset, HasFields, IsCol, ColFields
  <2>2. p.has \in SUBSET (0 .. 1) /\ 0 \notin p.has
        /\ \A b \in 0 .. 1 : b # 0 => (b \in p.has <=> b \in m.has)
    BY <1>1, <2>1 DEF IsCol
  <2>3. StringCell(p.has, 0, p.name_)
    BY <1>5, <2>1, <2>2 DEF StringCell
  <2>4. /\ StringCell(p.has, 1, p.value_)
    BY <1>1, <2>1, <2>2 DEF IsCol, StringCell
  <2>5. QED
    BY <1>1, <2>1, <2>2, <2>3, <2>4, ColIs DEF IsCol
<1>6. ASSUME NEW v \in Strings, NEW p, p = Put(m, 1, "value_", v)
      PROVE  p \in ColMessages
  <2>1. /\ HasFields(p, ColFields) /\ p.has = m.has \cup {1} /\ p.value_ = v
        /\ p.unk = m.unk /\ p.size = m.size /\ p.name_ = m.name_
    BY <1>1, <1>6 DEF Put, HasFields, IsCol, ColFields
  <2>2. p.has \in SUBSET (0 .. 1) /\ 1 \in p.has
        /\ \A b \in 0 .. 1 : b # 1 => (b \in p.has <=> b \in m.has)
    BY <1>1, <2>1 DEF IsCol
  <2>3. StringCell(p.has, 1, p.value_)
    BY <1>6, <2>1, <2>2 DEF StringCell
  <2>4. /\ StringCell(p.has, 0, p.name_)
    BY <1>1, <2>1, <2>2 DEF IsCol, StringCell
  <2>5. QED
    BY <1>1, <2>1, <2>2, <2>3, <2>4, ColIs DEF IsCol
<1>7. ASSUME NEW v \in {Shared, Empty}, NEW p, p = Unset(m, 1, "value_", v)
      PROVE  p \in ColMessages
  <2>1. /\ HasFields(p, ColFields) /\ p.has = m.has \ {1} /\ p.value_ = v
        /\ p.unk = m.unk /\ p.size = m.size /\ p.name_ = m.name_
    BY <1>1, <1>7 DEF Unset, HasFields, IsCol, ColFields
  <2>2. p.has \in SUBSET (0 .. 1) /\ 1 \notin p.has
        /\ \A b \in 0 .. 1 : b # 1 => (b \in p.has <=> b \in m.has)
    BY <1>1, <2>1 DEF IsCol
  <2>3. StringCell(p.has, 1, p.value_)
    BY <1>7, <2>1, <2>2 DEF StringCell
  <2>4. /\ StringCell(p.has, 0, p.name_)
    BY <1>1, <2>1, <2>2 DEF IsCol, StringCell
  <2>5. QED
    BY <1>1, <2>1, <2>2, <2>3, <2>4, ColIs DEF IsCol
<1>8. QED
  BY <1>2, <1>3, <1>4, <1>5, <1>6, <1>7

-----------------------------------------------------------------------------
(* route_value                                                               *)

RouteFields == {"has", "unk", "size", "region_", "area_", "col_"}
RouteUnknown == Unknown({}, {1, 2, 3})

IsRoute(m) ==
  /\ HasFields(m, RouteFields)
  /\ m.has \in SUBSET (0 .. 1) /\ m.unk \in Seq(RouteUnknown) /\ m.size \in Nat
  /\ StringCell(m.has, 0, m.region_)
  /\ StringCell(m.has, 1, m.area_)
  /\ m.col_ \in Seq(ColMessages)

\* The class, field by field.
LEMMA RouteIs ==
  ASSUME NEW m
  PROVE  m \in RouteMessages <=> IsRoute(m)
<1>1. m.region_ \in Strings \cup {Shared} /\ SoundString(m, 0, "region_") <=>
        StringCell(m.has, 0, m.region_)
  BY TextIs DEF SoundString, StringCell
<1>2. m.area_ \in Strings \cup {Shared} /\ SoundString(m, 1, "area_") <=>
        StringCell(m.has, 1, m.area_)
  BY TextIs DEF SoundString, StringCell
<1>3. \A s \in Seq(ColMessages) : \A i \in 1 .. Len(s) : SoundCol(s[i])
  BY ElementOfSeq DEF ColMessages
<1>4. m \in RouteMessages <=>
        /\ m \in [has : SUBSET (0 .. 1), unk : Seq(RouteUnknown), size : Nat,
                region_ : Strings \cup {Shared}, area_ : Strings \cup
                    {Shared}, col_ : Seq(ColMessages)] /\ SoundRoute(m)
  BY DEF RouteMessages, RouteUnknown
<1>5. m \in [has : SUBSET (0 .. 1), unk : Seq(RouteUnknown), size : Nat,
                region_ : Strings \cup {Shared}, area_ : Strings \cup
                    {Shared}, col_ : Seq(ColMessages)] <=>
        /\ HasFields(m, RouteFields)
        /\ m.has \in SUBSET (0 .. 1) /\ m.unk \in Seq(RouteUnknown) /\ m.size \in Nat
        /\ m.region_ \in Strings \cup {Shared}
        /\ m.area_ \in Strings \cup {Shared}
        /\ m.col_ \in Seq(ColMessages)
  BY DEF HasFields, RouteFields
<1>6. QED
  BY <1>1, <1>2, <1>3, <1>4, <1>5 DEF IsRoute, SoundRoute

\* A default message.
LEMMA RouteNew == route_value_New \in RouteMessages
<1>1. PICK m : m = route_value_New
  OBVIOUS
<1>2. /\ HasFields(m, RouteFields) /\ m.has = {} /\ m.unk = <<>> /\ m.size = 0
      /\ m.region_ = Shared /\ m.area_ = Shared /\ m.col_ = <<>>
  BY <1>1 DEF route_value_New, HasFields, RouteFields
<1>3. m.has \in SUBSET (0 .. 1) /\ m.unk \in Seq(RouteUnknown) /\ m.size \in Nat
  BY <1>2, EmptySeq
<1>4. StringCell(m.has, 0, m.region_)
  BY <1>2 DEF StringCell
<1>5. StringCell(m.has, 1, m.area_)
  BY <1>2 DEF StringCell
<1>6. m.col_ \in Seq(ColMessages)
  BY <1>2, EmptySeq
<1>7. QED
  BY <1>1, <1>2, <1>3, <1>4, <1>5, <1>6, RouteIs DEF IsRoute

\* Setting and clearing a field.
LEMMA RoutePut ==
  ASSUME NEW m \in RouteMessages
  PROVE  /\ \A n \in Nat : [m EXCEPT !["size"] = n] \in RouteMessages
         /\ \A u \in Seq(RouteUnknown) : [m EXCEPT !["unk"] = m.unk \o u] \in RouteMessages
         /\ \A v \in Strings : Put(m, 0, "region_", v) \in RouteMessages
         /\ \A v \in {Shared, Empty} : Unset(m, 0, "region_", v) \in RouteMessages
         /\ \A v \in Strings : Put(m, 1, "area_", v) \in RouteMessages
         /\ \A v \in {Shared, Empty} : Unset(m, 1, "area_", v) \in RouteMessages
         /\ \A h \in Seq(ColMessages) : [m EXCEPT !["col_"] = h] \in RouteMessages
<1>1. IsRoute(m)
  BY RouteIs
<1>2. ASSUME NEW v \in Nat, NEW p, p = [m EXCEPT !["size"] = v]
      PROVE  p \in RouteMessages
  <2>1. /\ HasFields(p, RouteFields) /\ p.size = v
        /\ p.has = m.has /\ p.unk = m.unk /\ p.region_ = m.region_ /\ p.area_ = m.area_
        /\ p.col_ = m.col_
    BY <1>1, <1>2 DEF HasFields, IsRoute, RouteFields
  <2>2. QED
    BY <1>1, <2>1, RouteIs DEF IsRoute
<1>3. ASSUME NEW v \in Seq(RouteUnknown), NEW p, p = [m EXCEPT !["unk"] = m.unk \o v]
      PROVE  p \in RouteMessages
  <2>1. /\ HasFields(p, RouteFields) /\ p.unk = m.unk \o v
        /\ p.has = m.has /\ p.size = m.size /\ p.region_ = m.region_ /\ p.area_ = m.area_
        /\ p.col_ = m.col_
    BY <1>1, <1>3 DEF HasFields, IsRoute, RouteFields
  <2>2. p.unk \in Seq(RouteUnknown)
    BY <1>1, <2>1, ConcatProperties DEF IsRoute
  <2>3. QED
    BY <1>1, <2>1, <2>2, RouteIs DEF IsRoute
<1>4. ASSUME NEW v \in Strings, NEW p, p = Put(m, 0, "region_", v)
      PROVE  p \in RouteMessages
  <2>1. /\ HasFields(p, RouteFields) /\ p.has = m.has \cup {0} /\ p.region_ = v
        /\ p.unk = m.unk /\ p.size = m.size /\ p.area_ = m.area_ /\ p.col_ = m.col_
    BY <1>1, <1>4 DEF Put, HasFields, IsRoute, RouteFields
  <2>2. p.has \in SUBSET (0 .. 1) /\ 0 \in p.has
        /\ \A b \in 0 .. 1 : b # 0 => (b \in p.has <=> b \in m.has)
    BY <1>1, <2>1 DEF IsRoute
  <2>3. StringCell(p.has, 0, p.region_)
    BY <1>4, <2>1, <2>2 DEF StringCell
  <2>4. /\ StringCell(p.has, 1, p.area_)
        /\ p.col_ \in Seq(ColMessages)
    BY <1>1, <2>1, <2>2 DEF IsRoute, StringCell
  <2>5. QED
    BY <1>1, <2>1, <2>2, <2>3, <2>4, RouteIs DEF IsRoute
<1>5. ASSUME NEW v \in {Shared, Empty}, NEW p, p = Unset(m, 0, "region_", v)
      PROVE  p \in RouteMessages
  <2>1. /\ HasFields(p, RouteFields) /\ p.has = m.has \ {0} /\ p.region_ = v
        /\ p.unk = m.unk /\ p.size = m.size /\ p.area_ = m.area_ /\ p.col_ = m.col_
    BY <1>1, <1>5 DEF Unset, HasFields, IsRoute, RouteFields
  <2>2. p.has \in SUBSET (0 .. 1) /\ 0 \notin p.has
        /\ \A b \in 0 .. 1 : b # 0 => (b \in p.has <=> b \in m.has)
    BY <1>1, <2>1 DEF IsRoute
  <2>3. StringCell(p.has, 0, p.region_)
    BY <1>5, <2>1, <2>2 DEF StringCell
  <2>4. /\ StringCell(p.has, 1, p.area_)
        /\ p.col_ \in Seq(ColMessages)
    BY <1>1, <2>1, <2>2 DEF IsRoute, StringCell
  <2>5. QED
    BY <1>1, <2>1, <2>2, <2>3, <2>4, RouteIs DEF IsRoute
<1>6. ASSUME NEW v \in Strings, NEW p, p = Put(m, 1, "area_", v)
      PROVE  p \in RouteMessages
  <2>1. /\ HasFields(p, RouteFields) /\ p.has = m.has \cup {1} /\ p.area_ = v
        /\ p.unk = m.unk /\ p.size = m.size /\ p.region_ = m.region_ /\ p.col_ = m.col_
    BY <1>1, <1>6 DEF Put, HasFields, IsRoute, RouteFields
  <2>2. p.has \in SUBSET (0 .. 1) /\ 1 \in p.has
        /\ \A b \in 0 .. 1 : b # 1 => (b \in p.has <=> b \in m.has)
    BY <1>1, <2>1 DEF IsRoute
  <2>3. StringCell(p.has, 1, p.area_)
    BY <1>6, <2>1, <2>2 DEF StringCell
  <2>4. /\ StringCell(p.has, 0, p.region_)
        /\ p.col_ \in Seq(ColMessages)
    BY <1>1, <2>1, <2>2 DEF IsRoute, StringCell
  <2>5. QED
    BY <1>1, <2>1, <2>2, <2>3, <2>4, RouteIs DEF IsRoute
<1>7. ASSUME NEW v \in {Shared, Empty}, NEW p, p = Unset(m, 1, "area_", v)
      PROVE  p \in RouteMessages
  <2>1. /\ HasFields(p, RouteFields) /\ p.has = m.has \ {1} /\ p.area_ = v
        /\ p.unk = m.unk /\ p.size = m.size /\ p.region_ = m.region_ /\ p.col_ = m.col_
    BY <1>1, <1>7 DEF Unset, HasFields, IsRoute, RouteFields
  <2>2. p.has \in SUBSET (0 .. 1) /\ 1 \notin p.has
        /\ \A b \in 0 .. 1 : b # 1 => (b \in p.has <=> b \in m.has)
    BY <1>1, <2>1 DEF IsRoute
  <2>3. StringCell(p.has, 1, p.area_)
    BY <1>7, <2>1, <2>2 DEF StringCell
  <2>4. /\ StringCell(p.has, 0, p.region_)
        /\ p.col_ \in Seq(ColMessages)
    BY <1>1, <2>1, <2>2 DEF IsRoute, StringCell
  <2>5. QED
    BY <1>1, <2>1, <2>2, <2>3, <2>4, RouteIs DEF IsRoute
<1>8. ASSUME NEW v \in Seq(ColMessages), NEW p, p = [m EXCEPT !["col_"] = v]
      PROVE  p \in RouteMessages
  <2>1. /\ HasFields(p, RouteFields) /\ p.col_ = v
        /\ p.has = m.has /\ p.unk = m.unk /\ p.size = m.size /\ p.region_ = m.region_
        /\ p.area_ = m.area_
    BY <1>1, <1>8 DEF HasFields, IsRoute, RouteFields
  <2>2. QED
    BY <1>1, <2>1, RouteIs DEF IsRoute
<1>9. QED
  BY <1>2, <1>3, <1>4, <1>5, <1>6, <1>7, <1>8

-----------------------------------------------------------------------------
(* Reading: MergePartialFromCodedStream of each class                        *)

\* No field of the class.
NotOfPos(t) ==
  /\ ~Tag(t, 1, "varint")
  /\ ~Tag(t, 2, "varint")

\* The cases of the switch, one for each tag.
LEMMA PosSwitch ==
  ASSUME NEW m, NEW t
  PROVE  /\ Tag(t, 1, "varint") =>
              vct_pos_Field(m, t) =
                ReadInt64(m, 0, "posm_", t)
         /\ Tag(t, 2, "varint") =>
              vct_pos_Field(m, t) =
                ReadInt64(m, 1, "poss_", t)
         /\ NotOfPos(t) => vct_pos_Field(m, t) = SkipField(m, t)
BY DEF vct_pos_Field, Tag, NotOfPos

\* Every token leaves a message of the class.
LEMMA PosField ==
  ASSUME NEW m \in PosMessages, NEW t \in PosTokens
  PROVE  vct_pos_Field(m, t) \in Results(PosMessages)
<1>1. IsPos(m)
  BY PosIs
<1>2. /\ t.body \in {<<>>}
      /\ t.cut \in BOOLEAN
      /\ \A num : Tag(t, num, "varint") => t.val \in Int
  BY TokenParts DEF PosTokens
<1>3. CASE Tag(t, 1, "varint")
  <2>1. vct_pos_Field(m, t) = ReadInt64(m, 0, "posm_", t)
    BY <1>3, PosSwitch
  <2>2. m.posm_ \in Int /\ t.val \in Int
    BY <1>1, <1>2, <1>3 DEF IsPos, IntCell
  <2>3. Put(m, 0, "posm_", m["posm_"]) \in PosMessages /\
          Put(m, 0, "posm_", t.val) \in PosMessages
    BY <2>2, PosPut
  <2>4. QED
    BY <2>1, <2>3, ReadIs DEF ReadInt64
<1>4. CASE Tag(t, 2, "varint")
  <2>1. vct_pos_Field(m, t) = ReadInt64(m, 1, "poss_", t)
    BY <1>4, PosSwitch
  <2>2. m.poss_ \in Int /\ t.val \in Int
    BY <1>1, <1>2, <1>4 DEF IsPos, IntCell
  <2>3. Put(m, 1, "poss_", m["poss_"]) \in PosMessages /\
          Put(m, 1, "poss_", t.val) \in PosMessages
    BY <2>2, PosPut
  <2>4. QED
    BY <2>1, <2>3, ReadIs DEF ReadInt64
<1>5. CASE NotOfPos(t)
  <2>1. vct_pos_Field(m, t) = SkipField(m, t)
    BY <1>5, PosSwitch
  <2>2. CASE t.cut
    BY <2>1, <2>2, ReadIs DEF SkipField
  <2>3. CASE ~t.cut
    <3>1. t \in PosUnknown
      <4>1. t \in Tokens({}, {}, {<<>>}) /\ {} \subseteq {}
        BY DEF PosTokens
      <4>2. /\ \A num \in {1, 2} : ~Tag(t, num, "varint")
            /\ \A num \in {} : ~Tag(t, num, "len")
        BY <1>5 DEF NotOfPos
      <4>3. QED
        BY <2>3, <4>1, <4>2, NotKnown DEF PosUnknown
    <3>2. <<t>> \in Seq(PosUnknown) /\ Append(m.unk, t) = m.unk \o <<t>>
      BY <1>1, <3>1, AppendIsConcat DEF IsPos
    <3>3. [m EXCEPT !["unk"] = m.unk \o <<t>>] \in PosMessages
      BY <3>2, PosPut
    <3>4. QED
      BY <2>1, <2>3, <3>2, <3>3, ReadIs DEF SkipField
  <2>4. QED
    BY <1>2, <2>2, <2>3
<1>6. QED
  BY <1>3, <1>4, <1>5 DEF NotOfPos

PosReads == [m \in PosMessages |-> [t \in PosTokens |-> vct_pos_Field(m, t)]]

\* Reading an input.
LEMMA PosParse ==
  /\ Parser(PosMessages, PosTokens, PosReads)
  /\ \A m \in PosMessages, t \in PosTokens : PosReads[m][t] = vct_pos_Field(m, t)
  /\ \A m \in PosMessages : \A w \in Seq(PosTokens) :
       /\ vct_pos_MergePartial(m, w) = ParseOf(PosMessages, PosReads, m, w)
       /\ vct_pos_MergePartial(m, w) \in Results(PosMessages)
<1>1. \A m \in PosMessages, t \in PosTokens : PosReads[m][t] = vct_pos_Field(m, t)
  BY DEF PosReads
<1>2. Parser(PosMessages, PosTokens, PosReads)
  BY <1>1, PosField DEF Parser
<1>3. ASSUME NEW m \in PosMessages, NEW w \in Seq(PosTokens)
      PROVE  vct_pos_MergePartial(m, w) = ParseOf(PosMessages, PosReads, m, w)
  <2>1. PICK n \in Nat : n = Len(w)
    BY LenProperties
  <2>2. PICK R, b, st : /\ R = Results(PosMessages) /\ b = Read(m) /\ b \in R
                        /\ st = ParseSteps(PosMessages, PosReads, w)
    BY ReadIs
  <2>3. /\ StaysIn(R, n, st)
        /\ \A i \in 1 .. n, r \in R : st[i][r] = IF r.ok THEN PosReads[r.msg][w[i]] ELSE r
    BY <1>2, <2>1, <2>2, ParseStays
  <2>4. \A i \in 1 .. n, r \in R : st[i][r] = IF r.ok THEN vct_pos_Field(r.msg, w[i]) ELSE r
    <3>1. \A r \in R : r.msg \in PosMessages
      BY <2>2 DEF Results
    <3>2. \A i \in 1 .. n : w[i] \in PosTokens
      BY <2>1, ElementOfSeq
    <3>3. QED
      BY <1>1, <2>3, <3>1, <3>2
  <2>5. PICK f : Runs(R, n, b, st, f)
    BY <2>2, <2>3, RunExists
  <2>6. f = [i \in 0 .. n |->
               IF i = 0 THEN Read(m)
               ELSE LET r == f[i - 1] IN IF r.ok THEN vct_pos_Field(r.msg, w[i]) ELSE r]
    <3>1. /\ f \in [0 .. n -> R] /\ f[0] = b
          /\ \A i \in 1 .. n : f[i] = st[i][f[i - 1]]
      BY <2>5 DEF Runs
    <3>2. \A i \in 1 .. n : i - 1 \in 0 .. n
      OBVIOUS
    <3>3. \A i \in 1 .. n : f[i - 1] \in R
      BY <3>1, <3>2
    <3>4. \A i \in 0 .. n : i = 0 \/ i \in 1 .. n
      OBVIOUS
    <3>5. \A i \in 1 .. n : f[i] = IF f[i - 1].ok THEN vct_pos_Field(f[i - 1].msg, w[i])
                                 ELSE f[i - 1]
      BY <2>4, <3>1, <3>3
    <3>6. f[0] = Read(m) /\ f = [i \in 0 .. n |-> f[i]]
      BY <2>2, <3>1
    <3>7. QED
      BY <3>4, <3>5, <3>6
  <2>7. PICK g : /\ g = [i \in 0 .. n |->
                          IF i = 0 THEN Read(m)
                          ELSE LET r == g[i - 1]
                               IN IF r.ok THEN vct_pos_Field(r.msg, w[i]) ELSE r]
                 /\ vct_pos_MergePartial(m, w) = g[n]
    BY <2>1, <2>6 DEF vct_pos_MergePartial, Loop
  <2>8. /\ g = [i \in 0 .. n |-> g[i]] /\ g[0] = b
        /\ \A i \in 1 .. n :
             g[i] = IF g[i - 1].ok THEN vct_pos_Field(g[i - 1].msg, w[i]) ELSE g[i - 1]
    BY <2>2, <2>7
  <2>9. \A i \in 1 .. n : g[i - 1] \in R => g[i] = st[i][g[i - 1]]
    BY <2>4, <2>8
  <2>10. Runs(R, n, b, st, g)
    BY <2>2, <2>3, <2>8, <2>9, RunIs
  <2>11. QED
    BY <2>1, <2>2, <2>7, <2>10, OutcomeIs DEF ParseOf
<1>4. QED
  BY <1>1, <1>2, <1>3, ParseIn

\* No field of the class.
NotOfValueN(t) ==
  /\ ~Tag(t, 1, "len")
  /\ ~Tag(t, 2, "varint")
  /\ ~Tag(t, 3, "varint")
  /\ ~Tag(t, 5, "varint")

\* The cases of the switch, one for each tag.
LEMMA ValueNSwitch ==
  ASSUME NEW m, NEW t
  PROVE  /\ Tag(t, 1, "len") =>
              vct_value_n_Field(m, t) =
                ReadMessage(m, 0, "pos_", vct_pos_New, vct_pos_MergePartial, t)
         /\ Tag(t, 2, "varint") =>
              vct_value_n_Field(m, t) =
                ReadInt64(m, 1, "a_", t)
         /\ Tag(t, 3, "varint") =>
              vct_value_n_Field(m, t) =
                ReadInt64(m, 2, "b_", t)
         /\ Tag(t, 5, "varint") =>
              vct_value_n_Field(m, t) =
                ReadBool(m, 3, "commit_", t)
         /\ NotOfValueN(t) => vct_value_n_Field(m, t) = SkipField(m, t)
BY DEF vct_value_n_Field, Tag, NotOfValueN

\* Reading a nested message puts what its parser makes of the one there.
LEMMA ValueNReads_pos ==
  ASSUME NEW m, HasFields(m, ValueNFields), NEW t, NEW r,
         r = vct_pos_MergePartial(PosOwned(m.pos_), IF t.cut THEN <<>> ELSE t.body)
  PROVE  ReadMessage(m, 0, "pos_", vct_pos_New, vct_pos_MergePartial, t) =
           [ok |-> r.ok /\ ~t.cut, msg |-> Put(m, 0, "pos_", r.msg)]
<1>1. PICK v : v = PosOwned(m.pos_)
  OBVIOUS
<1>2. PICK p : p = Put(m, 0, "pos_", v)
  OBVIOUS
<1>3. Mutable(m, 0, "pos_", vct_pos_New) = p
  BY <1>1, <1>2 DEF Mutable, PosOwned
<1>4. p["pos_"] = v /\ [p EXCEPT !["pos_"] = r.msg] = Put(m, 0, "pos_", r.msg)
  BY <1>2 DEF Put, HasFields, ValueNFields
<1>5. QED
  BY <1>1, <1>3, <1>4 DEF ReadMessage

\* Every token leaves a message of the class.
LEMMA ValueNField ==
  ASSUME NEW m \in ValueNMessages, NEW t \in ValueNTokens
  PROVE  vct_value_n_Field(m, t) \in Results(ValueNMessages)
<1>1. IsValueN(m)
  BY ValueNIs
<1>2. /\ t.body \in Seq(PosTokens)
      /\ t.cut \in BOOLEAN
      /\ \A num : Tag(t, num, "varint") => t.val \in Int
  BY TokenParts DEF ValueNTokens
<1>3. CASE Tag(t, 1, "len")
  <2>1. PosOwned(m.pos_) \in PosMessages
    <3>1. PosCell(m.has, 0, m.pos_)
      BY <1>1 DEF IsValueN
    <3>2. QED
      BY <3>1, PosIsOwned
  <2>2. PICK w : w = IF t.cut THEN <<>> ELSE t.body
    OBVIOUS
  <2>3. w \in Seq(PosTokens)
    BY <1>2, <2>2, EmptySeq
  <2>4. PICK r : r = vct_pos_MergePartial(PosOwned(m.pos_), w)
    OBVIOUS
  <2>5. r \in Results(PosMessages) /\ r.msg \in PosMessages
    BY <2>1, <2>3, <2>4, PosParse DEF Results
  <2>6. Put(m, 0, "pos_", r.msg) \in ValueNMessages
    BY <2>5, ValueNPut
  <2>7. vct_value_n_Field(m, t) = [ok |-> r.ok /\ ~t.cut, msg |-> Put(m, 0, "pos_", r.msg)]
    <3>1. HasFields(m, ValueNFields) /\ r =
            vct_pos_MergePartial(PosOwned(m.pos_), IF t.cut THEN <<>> ELSE t.body)
      BY <1>1, <2>2, <2>4 DEF IsValueN
    <3>2. ReadMessage(m, 0, "pos_", vct_pos_New, vct_pos_MergePartial, t) =
            [ok |-> r.ok /\ ~t.cut, msg |-> Put(m, 0, "pos_", r.msg)]
      BY <3>1, ValueNReads_pos
    <3>3. QED
      BY <1>3, <3>2, ValueNSwitch
  <2>8. QED
    BY <2>6, <2>7 DEF Results
<1>4. CASE Tag(t, 2, "varint")
  <2>1. vct_value_n_Field(m, t) = ReadInt64(m, 1, "a_", t)
    BY <1>4, ValueNSwitch
  <2>2. m.a_ \in Int /\ t.val \in Int
    BY <1>1, <1>2, <1>4 DEF IsValueN, IntCell
  <2>3. Put(m, 1, "a_", m["a_"]) \in ValueNMessages /\ Put(m, 1, "a_", t.val) \in ValueNMessages
    BY <2>2, ValueNPut
  <2>4. QED
    BY <2>1, <2>3, ReadIs DEF ReadInt64
<1>5. CASE Tag(t, 3, "varint")
  <2>1. vct_value_n_Field(m, t) = ReadInt64(m, 2, "b_", t)
    BY <1>5, ValueNSwitch
  <2>2. m.b_ \in Int /\ t.val \in Int
    BY <1>1, <1>2, <1>5 DEF IsValueN, IntCell
  <2>3. Put(m, 2, "b_", m["b_"]) \in ValueNMessages /\ Put(m, 2, "b_", t.val) \in ValueNMessages
    BY <2>2, ValueNPut
  <2>4. QED
    BY <2>1, <2>3, ReadIs DEF ReadInt64
<1>6. CASE Tag(t, 5, "varint")
  <2>1. vct_value_n_Field(m, t) = ReadBool(m, 3, "commit_", t)
    BY <1>6, ValueNSwitch
  <2>2. m.commit_ \in BOOLEAN /\ (t.val # 0) \in BOOLEAN
    BY <1>1, <1>2, <1>6 DEF IsValueN, BoolCell
  <2>3. Put(m, 3, "commit_", m["commit_"]) \in ValueNMessages /\
          Put(m, 3, "commit_", t.val # 0) \in ValueNMessages
    BY <2>2, ValueNPut
  <2>4. QED
    BY <2>1, <2>3, ReadIs DEF ReadBool
<1>7. CASE NotOfValueN(t)
  <2>1. vct_value_n_Field(m, t) = SkipField(m, t)
    BY <1>7, ValueNSwitch
  <2>2. CASE t.cut
    BY <2>1, <2>2, ReadIs DEF SkipField
  <2>3. CASE ~t.cut
    <3>1. t \in ValueNUnknown
      <4>1. t \in Tokens({}, {1}, Seq(PosTokens)) /\ {1} \subseteq {1}
        BY DEF ValueNTokens
      <4>2. /\ \A num \in {2, 3, 5} : ~Tag(t, num, "varint")
            /\ \A num \in {1} : ~Tag(t, num, "len")
        BY <1>7 DEF NotOfValueN
      <4>3. QED
        BY <2>3, <4>1, <4>2, NotKnown DEF ValueNUnknown
    <3>2. <<t>> \in Seq(ValueNUnknown) /\ Append(m.unk, t) = m.unk \o <<t>>
      BY <1>1, <3>1, AppendIsConcat DEF IsValueN
    <3>3. [m EXCEPT !["unk"] = m.unk \o <<t>>] \in ValueNMessages
      BY <3>2, ValueNPut
    <3>4. QED
      BY <2>1, <2>3, <3>2, <3>3, ReadIs DEF SkipField
  <2>4. QED
    BY <1>2, <2>2, <2>3
<1>8. QED
  BY <1>3, <1>4, <1>5, <1>6, <1>7 DEF NotOfValueN

ValueNReads == [m \in ValueNMessages |-> [t \in ValueNTokens |-> vct_value_n_Field(m, t)]]

\* Reading an input.
LEMMA ValueNParse ==
  /\ Parser(ValueNMessages, ValueNTokens, ValueNReads)
  /\ \A m \in ValueNMessages, t \in ValueNTokens : ValueNReads[m][t] = vct_value_n_Field(m, t)
  /\ \A m \in ValueNMessages : \A w \in Seq(ValueNTokens) :
       /\ vct_value_n_MergePartial(m, w) = ParseOf(ValueNMessages, ValueNReads, m, w)
       /\ vct_value_n_MergePartial(m, w) \in Results(ValueNMessages)
<1>1. \A m \in ValueNMessages, t \in ValueNTokens : ValueNReads[m][t] = vct_value_n_Field(m, t)
  BY DEF ValueNReads
<1>2. Parser(ValueNMessages, ValueNTokens, ValueNReads)
  BY <1>1, ValueNField DEF Parser
<1>3. ASSUME NEW m \in ValueNMessages, NEW w \in Seq(ValueNTokens)
      PROVE  vct_value_n_MergePartial(m, w) = ParseOf(ValueNMessages, ValueNReads, m, w)
  <2>1. PICK n \in Nat : n = Len(w)
    BY LenProperties
  <2>2. PICK R, b, st : /\ R = Results(ValueNMessages) /\ b = Read(m) /\ b \in R
                        /\ st = ParseSteps(ValueNMessages, ValueNReads, w)
    BY ReadIs
  <2>3. /\ StaysIn(R, n, st)
        /\ \A i \in 1 .. n, r \in R : st[i][r] = IF r.ok THEN ValueNReads[r.msg][w[i]] ELSE r
    BY <1>2, <2>1, <2>2, ParseStays
  <2>4. \A i \in 1 .. n, r \in R : st[i][r] = IF r.ok THEN vct_value_n_Field(r.msg, w[i]) ELSE r
    <3>1. \A r \in R : r.msg \in ValueNMessages
      BY <2>2 DEF Results
    <3>2. \A i \in 1 .. n : w[i] \in ValueNTokens
      BY <2>1, ElementOfSeq
    <3>3. QED
      BY <1>1, <2>3, <3>1, <3>2
  <2>5. PICK f : Runs(R, n, b, st, f)
    BY <2>2, <2>3, RunExists
  <2>6. f = [i \in 0 .. n |->
               IF i = 0 THEN Read(m)
               ELSE LET r == f[i - 1] IN IF r.ok THEN vct_value_n_Field(r.msg, w[i]) ELSE r]
    <3>1. /\ f \in [0 .. n -> R] /\ f[0] = b
          /\ \A i \in 1 .. n : f[i] = st[i][f[i - 1]]
      BY <2>5 DEF Runs
    <3>2. \A i \in 1 .. n : i - 1 \in 0 .. n
      OBVIOUS
    <3>3. \A i \in 1 .. n : f[i - 1] \in R
      BY <3>1, <3>2
    <3>4. \A i \in 0 .. n : i = 0 \/ i \in 1 .. n
      OBVIOUS
    <3>5. \A i \in 1 .. n : f[i] = IF f[i - 1].ok THEN vct_value_n_Field(f[i - 1].msg, w[i])
                                 ELSE f[i - 1]
      BY <2>4, <3>1, <3>3
    <3>6. f[0] = Read(m) /\ f = [i \in 0 .. n |-> f[i]]
      BY <2>2, <3>1
    <3>7. QED
      BY <3>4, <3>5, <3>6
  <2>7. PICK g : /\ g = [i \in 0 .. n |->
                          IF i = 0 THEN Read(m)
                          ELSE LET r == g[i - 1]
                               IN IF r.ok THEN vct_value_n_Field(r.msg, w[i]) ELSE r]
                 /\ vct_value_n_MergePartial(m, w) = g[n]
    BY <2>1, <2>6 DEF vct_value_n_MergePartial, Loop
  <2>8. /\ g = [i \in 0 .. n |-> g[i]] /\ g[0] = b
        /\ \A i \in 1 .. n :
             g[i] = IF g[i - 1].ok THEN vct_value_n_Field(g[i - 1].msg, w[i]) ELSE g[i - 1]
    BY <2>2, <2>7
  <2>9. \A i \in 1 .. n : g[i - 1] \in R => g[i] = st[i][g[i - 1]]
    BY <2>4, <2>8
  <2>10. Runs(R, n, b, st, g)
    BY <2>2, <2>3, <2>8, <2>9, RunIs
  <2>11. QED
    BY <2>1, <2>2, <2>7, <2>10, OutcomeIs DEF ParseOf
<1>4. QED
  BY <1>1, <1>2, <1>3, ParseIn

\* No field of the class.
NotOfValue(t) ==
  /\ ~Tag(t, 1, "len")
  /\ ~Tag(t, 2, "len")
  /\ ~Tag(t, 3, "len")
  /\ ~Tag(t, 4, "varint")

\* The cases of the switch, one for each tag.
LEMMA ValueSwitch ==
  ASSUME NEW m, NEW t
  PROVE  /\ Tag(t, 1, "len") =>
              vct_value_Field(m, t) =
                ReadString(m, 0, "key_", t)
         /\ Tag(t, 2, "len") =>
              vct_value_Field(m, t) =
                ReadMessage(m, 1, "main_", vct_value_n_New, vct_value_n_MergePartial, t)
         /\ Tag(t, 3, "len") =>
              vct_value_Field(m, t) =
                ReadElement(m, "his_", vct_value_n_New, vct_value_n_MergePartial, t)
         /\ Tag(t, 4, "varint") =>
              vct_value_Field(m, t) =
                ReadInt64(m, 2, "commit_count_", t)
         /\ NotOfValue(t) => vct_value_Field(m, t) = SkipField(m, t)
BY DEF vct_value_Field, Tag, NotOfValue

\* Reading a nested message puts what its parser makes of the one there.
LEMMA ValueReads_main ==
  ASSUME NEW m, HasFields(m, ValueFields), NEW t, NEW r,
         r = vct_value_n_MergePartial(ValueNOwned(m.main_), IF t.cut THEN <<>> ELSE t.body)
  PROVE  ReadMessage(m, 1, "main_", vct_value_n_New, vct_value_n_MergePartial, t) =
           [ok |-> r.ok /\ ~t.cut, msg |-> Put(m, 1, "main_", r.msg)]
<1>1. PICK v : v = ValueNOwned(m.main_)
  OBVIOUS
<1>2. PICK p : p = Put(m, 1, "main_", v)
  OBVIOUS
<1>3. Mutable(m, 1, "main_", vct_value_n_New) = p
  BY <1>1, <1>2 DEF Mutable, ValueNOwned
<1>4. p["main_"] = v /\ [p EXCEPT !["main_"] = r.msg] = Put(m, 1, "main_", r.msg)
  BY <1>2 DEF Put, HasFields, ValueFields
<1>5. QED
  BY <1>1, <1>3, <1>4 DEF ReadMessage

\* Every token leaves a message of the class.
LEMMA ValueField ==
  ASSUME NEW m \in ValueMessages, NEW t \in ValueTokens
  PROVE  vct_value_Field(m, t) \in Results(ValueMessages)
<1>1. IsValue(m)
  BY ValueIs
<1>2. /\ t.body \in Seq(ValueNTokens)
      /\ t.cut \in BOOLEAN
      /\ \A num : Tag(t, num, "varint") => t.val \in Int
      /\ \A num \in {1} : Tag(t, num, "len") => t.val \in Strings
  BY TokenParts DEF ValueTokens
<1>3. CASE Tag(t, 1, "len")
  <2>1. vct_value_Field(m, t) = ReadString(m, 0, "key_", t)
    BY <1>3, ValueSwitch
  <2>2. Text(m.key_) \in Strings /\ t.val \in Strings
    BY <1>1, <1>2, <1>3, TextIs DEF IsValue, StringCell
  <2>3. Put(m, 0, "key_", Text(m["key_"])) \in ValueMessages /\
          Put(m, 0, "key_", t.val) \in ValueMessages
    BY <2>2, ValuePut
  <2>4. QED
    BY <2>1, <2>3, ReadIs DEF ReadString
<1>4. CASE Tag(t, 2, "len")
  <2>1. ValueNOwned(m.main_) \in ValueNMessages
    <3>1. ValueNCell(m.has, 1, m.main_)
      BY <1>1 DEF IsValue
    <3>2. QED
      BY <3>1, ValueNIsOwned
  <2>2. PICK w : w = IF t.cut THEN <<>> ELSE t.body
    OBVIOUS
  <2>3. w \in Seq(ValueNTokens)
    BY <1>2, <2>2, EmptySeq
  <2>4. PICK r : r = vct_value_n_MergePartial(ValueNOwned(m.main_), w)
    OBVIOUS
  <2>5. r \in Results(ValueNMessages) /\ r.msg \in ValueNMessages
    BY <2>1, <2>3, <2>4, ValueNParse DEF Results
  <2>6. Put(m, 1, "main_", r.msg) \in ValueMessages
    BY <2>5, ValuePut
  <2>7. vct_value_Field(m, t) = [ok |-> r.ok /\ ~t.cut, msg |-> Put(m, 1, "main_", r.msg)]
    <3>1. HasFields(m, ValueFields) /\ r =
            vct_value_n_MergePartial(ValueNOwned(m.main_), IF t.cut THEN <<>> ELSE t.body)
      BY <1>1, <2>2, <2>4 DEF IsValue
    <3>2. ReadMessage(m, 1, "main_", vct_value_n_New, vct_value_n_MergePartial, t) =
            [ok |-> r.ok /\ ~t.cut, msg |-> Put(m, 1, "main_", r.msg)]
      BY <3>1, ValueReads_main
    <3>3. QED
      BY <1>4, <3>2, ValueSwitch
  <2>8. QED
    BY <2>6, <2>7 DEF Results
<1>5. CASE Tag(t, 3, "len")
  <2>1. PICK w : w = IF t.cut THEN <<>> ELSE t.body
    OBVIOUS
  <2>2. w \in Seq(ValueNTokens)
    BY <1>2, <2>1, EmptySeq
  <2>3. PICK r : r = vct_value_n_MergePartial(vct_value_n_New, w)
    OBVIOUS
  <2>4. r \in Results(ValueNMessages) /\ r.msg \in ValueNMessages
    BY <2>2, <2>3, ValueNNew, ValueNParse DEF Results
  <2>5. PICK h : h = Append(m.his_, r.msg)
    OBVIOUS
  <2>6. h \in Seq(ValueNMessages)
    BY <1>1, <2>4, <2>5, AppendProperties DEF IsValue
  <2>7. [m EXCEPT !["his_"] = h] \in ValueMessages
    BY <2>6, ValuePut
  <2>8. vct_value_Field(m, t) = [ok |-> r.ok /\ ~t.cut, msg |-> [m EXCEPT !["his_"] = h]]
    BY <1>5, <2>1, <2>3, <2>5, ValueSwitch DEF ReadElement
  <2>9. QED
    BY <2>7, <2>8 DEF Results
<1>6. CASE Tag(t, 4, "varint")
  <2>1. vct_value_Field(m, t) = ReadInt64(m, 2, "commit_count_", t)
    BY <1>6, ValueSwitch
  <2>2. m.commit_count_ \in Int /\ t.val \in Int
    BY <1>1, <1>2, <1>6 DEF IsValue, IntCell
  <2>3. Put(m, 2, "commit_count_", m["commit_count_"]) \in ValueMessages /\
          Put(m, 2, "commit_count_", t.val) \in ValueMessages
    BY <2>2, ValuePut
  <2>4. QED
    BY <2>1, <2>3, ReadIs DEF ReadInt64
<1>7. CASE NotOfValue(t)
  <2>1. vct_value_Field(m, t) = SkipField(m, t)
    BY <1>7, ValueSwitch
  <2>2. CASE t.cut
    BY <2>1, <2>2, ReadIs DEF SkipField
  <2>3. CASE ~t.cut
    <3>1. t \in ValueUnknown
      <4>1. t \in Tokens({1}, {2, 3}, Seq(ValueNTokens)) /\ {2, 3} \subseteq {1, 2, 3}
        BY DEF ValueTokens
      <4>2. /\ \A num \in {4} : ~Tag(t, num, "varint")
            /\ \A num \in {1, 2, 3} : ~Tag(t, num, "len")
        BY <1>7 DEF NotOfValue
      <4>3. QED
        BY <2>3, <4>1, <4>2, NotKnown DEF ValueUnknown
    <3>2. <<t>> \in Seq(ValueUnknown) /\ Append(m.unk, t) = m.unk \o <<t>>
      BY <1>1, <3>1, AppendIsConcat DEF IsValue
    <3>3. [m EXCEPT !["unk"] = m.unk \o <<t>>] \in ValueMessages
      BY <3>2, ValuePut
    <3>4. QED
      BY <2>1, <2>3, <3>2, <3>3, ReadIs DEF SkipField
  <2>4. QED
    BY <1>2, <2>2, <2>3
<1>8. QED
  BY <1>3, <1>4, <1>5, <1>6, <1>7 DEF NotOfValue

ValueReads == [m \in ValueMessages |-> [t \in ValueTokens |-> vct_value_Field(m, t)]]

\* Reading an input.
LEMMA ValueParse ==
  /\ Parser(ValueMessages, ValueTokens, ValueReads)
  /\ \A m \in ValueMessages, t \in ValueTokens : ValueReads[m][t] = vct_value_Field(m, t)
  /\ \A m \in ValueMessages : \A w \in Seq(ValueTokens) :
       /\ vct_value_MergePartial(m, w) = ParseOf(ValueMessages, ValueReads, m, w)
       /\ vct_value_MergePartial(m, w) \in Results(ValueMessages)
<1>1. \A m \in ValueMessages, t \in ValueTokens : ValueReads[m][t] = vct_value_Field(m, t)
  BY DEF ValueReads
<1>2. Parser(ValueMessages, ValueTokens, ValueReads)
  BY <1>1, ValueField DEF Parser
<1>3. ASSUME NEW m \in ValueMessages, NEW w \in Seq(ValueTokens)
      PROVE  vct_value_MergePartial(m, w) = ParseOf(ValueMessages, ValueReads, m, w)
  <2>1. PICK n \in Nat : n = Len(w)
    BY LenProperties
  <2>2. PICK R, b, st : /\ R = Results(ValueMessages) /\ b = Read(m) /\ b \in R
                        /\ st = ParseSteps(ValueMessages, ValueReads, w)
    BY ReadIs
  <2>3. /\ StaysIn(R, n, st)
        /\ \A i \in 1 .. n, r \in R : st[i][r] = IF r.ok THEN ValueReads[r.msg][w[i]] ELSE r
    BY <1>2, <2>1, <2>2, ParseStays
  <2>4. \A i \in 1 .. n, r \in R : st[i][r] = IF r.ok THEN vct_value_Field(r.msg, w[i]) ELSE r
    <3>1. \A r \in R : r.msg \in ValueMessages
      BY <2>2 DEF Results
    <3>2. \A i \in 1 .. n : w[i] \in ValueTokens
      BY <2>1, ElementOfSeq
    <3>3. QED
      BY <1>1, <2>3, <3>1, <3>2
  <2>5. PICK f : Runs(R, n, b, st, f)
    BY <2>2, <2>3, RunExists
  <2>6. f = [i \in 0 .. n |->
               IF i = 0 THEN Read(m)
               ELSE LET r == f[i - 1] IN IF r.ok THEN vct_value_Field(r.msg, w[i]) ELSE r]
    <3>1. /\ f \in [0 .. n -> R] /\ f[0] = b
          /\ \A i \in 1 .. n : f[i] = st[i][f[i - 1]]
      BY <2>5 DEF Runs
    <3>2. \A i \in 1 .. n : i - 1 \in 0 .. n
      OBVIOUS
    <3>3. \A i \in 1 .. n : f[i - 1] \in R
      BY <3>1, <3>2
    <3>4. \A i \in 0 .. n : i = 0 \/ i \in 1 .. n
      OBVIOUS
    <3>5. \A i \in 1 .. n : f[i] = IF f[i - 1].ok THEN vct_value_Field(f[i - 1].msg, w[i])
                                 ELSE f[i - 1]
      BY <2>4, <3>1, <3>3
    <3>6. f[0] = Read(m) /\ f = [i \in 0 .. n |-> f[i]]
      BY <2>2, <3>1
    <3>7. QED
      BY <3>4, <3>5, <3>6
  <2>7. PICK g : /\ g = [i \in 0 .. n |->
                          IF i = 0 THEN Read(m)
                          ELSE LET r == g[i - 1]
                               IN IF r.ok THEN vct_value_Field(r.msg, w[i]) ELSE r]
                 /\ vct_value_MergePartial(m, w) = g[n]
    BY <2>1, <2>6 DEF vct_value_MergePartial, Loop
  <2>8. /\ g = [i \in 0 .. n |-> g[i]] /\ g[0] = b
        /\ \A i \in 1 .. n :
             g[i] = IF g[i - 1].ok THEN vct_value_Field(g[i - 1].msg, w[i]) ELSE g[i - 1]
    BY <2>2, <2>7
  <2>9. \A i \in 1 .. n : g[i - 1] \in R => g[i] = st[i][g[i - 1]]
    BY <2>4, <2>8
  <2>10. Runs(R, n, b, st, g)
    BY <2>2, <2>3, <2>8, <2>9, RunIs
  <2>11. QED
    BY <2>1, <2>2, <2>7, <2>10, OutcomeIs DEF ParseOf
<1>4. QED
  BY <1>1, <1>2, <1>3, ParseIn

\* No field of the class.
NotOfKeytable(t) ==
  /\ ~Tag(t, 1, "len")
  /\ ~Tag(t, 2, "len")
  /\ ~Tag(t, 3, "len")

\* The cases of the switch, one for each tag.
LEMMA KeytableSwitch ==
  ASSUME NEW m, NEW t
  PROVE  /\ Tag(t, 1, "len") =>
              keytable_value_Field(m, t) =
                ReadString(m, 0, "field_", t)
         /\ Tag(t, 2, "len") =>
              keytable_value_Field(m, t) =
                ReadString(m, 1, "route_table_", t)
         /\ Tag(t, 3, "len") =>
              keytable_value_Field(m, t) =
                ReadString(m, 2, "route_table_field_", t)
         /\ NotOfKeytable(t) => keytable_value_Field(m, t) = SkipField(m, t)
BY DEF keytable_value_Field, Tag, NotOfKeytable

\* Every token leaves a message of the class.
LEMMA KeytableField ==
  ASSUME NEW m \in KeytableMessages, NEW t \in KeytableTokens
  PROVE  keytable_value_Field(m, t) \in Results(KeytableMessages)
<1>1. IsKeytable(m)
  BY KeytableIs
<1>2. /\ t.body \in {<<>>}
      /\ t.cut \in BOOLEAN
      /\ \A num \in {1, 2, 3} : Tag(t, num, "len") => t.val \in Strings
  BY TokenParts DEF KeytableTokens
<1>3. CASE Tag(t, 1, "len")
  <2>1. keytable_value_Field(m, t) = ReadString(m, 0, "field_", t)
    BY <1>3, KeytableSwitch
  <2>2. Text(m.field_) \in Strings /\ t.val \in Strings
    BY <1>1, <1>2, <1>3, TextIs DEF IsKeytable, StringCell
  <2>3. Put(m, 0, "field_", Text(m["field_"])) \in KeytableMessages /\
          Put(m, 0, "field_", t.val) \in KeytableMessages
    BY <2>2, KeytablePut
  <2>4. QED
    BY <2>1, <2>3, ReadIs DEF ReadString
<1>4. CASE Tag(t, 2, "len")
  <2>1. keytable_value_Field(m, t) = ReadString(m, 1, "route_table_", t)
    BY <1>4, KeytableSwitch
  <2>2. Text(m.route_table_) \in Strings /\ t.val \in Strings
    BY <1>1, <1>2, <1>4, TextIs DEF IsKeytable, StringCell
  <2>3. Put(m, 1, "route_table_", Text(m["route_table_"])) \in KeytableMessages /\
          Put(m, 1, "route_table_", t.val) \in KeytableMessages
    BY <2>2, KeytablePut
  <2>4. QED
    BY <2>1, <2>3, ReadIs DEF ReadString
<1>5. CASE Tag(t, 3, "len")
  <2>1. keytable_value_Field(m, t) = ReadString(m, 2, "route_table_field_", t)
    BY <1>5, KeytableSwitch
  <2>2. Text(m.route_table_field_) \in Strings /\ t.val \in Strings
    BY <1>1, <1>2, <1>5, TextIs DEF IsKeytable, StringCell
  <2>3. Put(m, 2, "route_table_field_", Text(m["route_table_field_"])) \in KeytableMessages /\
          Put(m, 2, "route_table_field_", t.val) \in KeytableMessages
    BY <2>2, KeytablePut
  <2>4. QED
    BY <2>1, <2>3, ReadIs DEF ReadString
<1>6. CASE NotOfKeytable(t)
  <2>1. keytable_value_Field(m, t) = SkipField(m, t)
    BY <1>6, KeytableSwitch
  <2>2. CASE t.cut
    BY <2>1, <2>2, ReadIs DEF SkipField
  <2>3. CASE ~t.cut
    <3>1. t \in KeytableUnknown
      <4>1. t \in Tokens({1, 2, 3}, {}, {<<>>}) /\ {} \subseteq {1, 2, 3}
        BY DEF KeytableTokens
      <4>2. /\ \A num \in {} : ~Tag(t, num, "varint")
            /\ \A num \in {1, 2, 3} : ~Tag(t, num, "len")
        BY <1>6 DEF NotOfKeytable
      <4>3. QED
        BY <2>3, <4>1, <4>2, NotKnown DEF KeytableUnknown
    <3>2. <<t>> \in Seq(KeytableUnknown) /\ Append(m.unk, t) = m.unk \o <<t>>
      BY <1>1, <3>1, AppendIsConcat DEF IsKeytable
    <3>3. [m EXCEPT !["unk"] = m.unk \o <<t>>] \in KeytableMessages
      BY <3>2, KeytablePut
    <3>4. QED
      BY <2>1, <2>3, <3>2, <3>3, ReadIs DEF SkipField
  <2>4. QED
    BY <1>2, <2>2, <2>3
<1>7. QED
  BY <1>3, <1>4, <1>5, <1>6 DEF NotOfKeytable

KeytableReads == [m \in KeytableMessages |-> [t \in KeytableTokens |-> keytable_value_Field(m,
    t)]]

\* Reading an input.
LEMMA KeytableParse ==
  /\ Parser(KeytableMessages, KeytableTokens, KeytableReads)
  /\ \A m \in KeytableMessages, t \in KeytableTokens :
       KeytableReads[m][t] = keytable_value_Field(m, t)
  /\ \A m \in KeytableMessages : \A w \in Seq(KeytableTokens) :
       /\ keytable_value_MergePartial(m, w) = ParseOf(KeytableMessages, KeytableReads, m, w)
       /\ keytable_value_MergePartial(m, w) \in Results(KeytableMessages)
<1>1. \A m \in KeytableMessages, t \in KeytableTokens :
        KeytableReads[m][t] = keytable_value_Field(m, t)
  BY DEF KeytableReads
<1>2. Parser(KeytableMessages, KeytableTokens, KeytableReads)
  BY <1>1, KeytableField DEF Parser
<1>3. ASSUME NEW m \in KeytableMessages, NEW w \in Seq(KeytableTokens)
      PROVE  keytable_value_MergePartial(m, w) = ParseOf(KeytableMessages, KeytableReads, m, w)
  <2>1. PICK n \in Nat : n = Len(w)
    BY LenProperties
  <2>2. PICK R, b, st : /\ R = Results(KeytableMessages) /\ b = Read(m) /\ b \in R
                        /\ st = ParseSteps(KeytableMessages, KeytableReads, w)
    BY ReadIs
  <2>3. /\ StaysIn(R, n, st)
        /\ \A i \in 1 .. n, r \in R : st[i][r] = IF r.ok THEN KeytableReads[r.msg][w[i]] ELSE r
    BY <1>2, <2>1, <2>2, ParseStays
  <2>4. \A i \in 1 .. n, r \in R : st[i][r] = IF r.ok THEN
          keytable_value_Field(r.msg, w[i]) ELSE r
    <3>1. \A r \in R : r.msg \in KeytableMessages
      BY <2>2 DEF Results
    <3>2. \A i \in 1 .. n : w[i] \in KeytableTokens
      BY <2>1, ElementOfSeq
    <3>3. QED
      BY <1>1, <2>3, <3>1, <3>2
  <2>5. PICK f : Runs(R, n, b, st, f)
    BY <2>2, <2>3, RunExists
  <2>6. f = [i \in 0 .. n |->
               IF i = 0 THEN Read(m)
               ELSE LET r == f[i - 1] IN IF r.ok THEN keytable_value_Field(r.msg, w[i]) ELSE r]
    <3>1. /\ f \in [0 .. n -> R] /\ f[0] = b
          /\ \A i \in 1 .. n : f[i] = st[i][f[i - 1]]
      BY <2>5 DEF Runs
    <3>2. \A i \in 1 .. n : i - 1 \in 0 .. n
      OBVIOUS
    <3>3. \A i \in 1 .. n : f[i - 1] \in R
      BY <3>1, <3>2
    <3>4. \A i \in 0 .. n : i = 0 \/ i \in 1 .. n
      OBVIOUS
    <3>5. \A i \in 1 .. n : f[i] = IF f[i - 1].ok THEN keytable_value_Field(f[i - 1].msg, w[i])
                                 ELSE f[i - 1]
      BY <2>4, <3>1, <3>3
    <3>6. f[0] = Read(m) /\ f = [i \in 0 .. n |-> f[i]]
      BY <2>2, <3>1
    <3>7. QED
      BY <3>4, <3>5, <3>6
  <2>7. PICK g : /\ g = [i \in 0 .. n |->
                          IF i = 0 THEN Read(m)
                          ELSE LET r == g[i - 1]
                               IN IF r.ok THEN keytable_value_Field(r.msg, w[i]) ELSE r]
                 /\ keytable_value_MergePartial(m, w) = g[n]
    BY <2>1, <2>6 DEF keytable_value_MergePartial, Loop
  <2>8. /\ g = [i \in 0 .. n |-> g[i]] /\ g[0] = b
        /\ \A i \in 1 .. n :
             g[i] = IF g[i - 1].ok THEN keytable_value_Field(g[i - 1].msg, w[i]) ELSE g[i - 1]
    BY <2>2, <2>7
  <2>9. \A i \in 1 .. n : g[i - 1] \in R => g[i] = st[i][g[i - 1]]
    BY <2>4, <2>8
  <2>10. Runs(R, n, b, st, g)
    BY <2>2, <2>3, <2>8, <2>9, RunIs
  <2>11. QED
    BY <2>1, <2>2, <2>7, <2>10, OutcomeIs DEF ParseOf
<1>4. QED
  BY <1>1, <1>2, <1>3, ParseIn

\* No field of the class.
NotOfCol(t) ==
  /\ ~Tag(t, 1, "len")
  /\ ~Tag(t, 2, "len")

\* The cases of the switch, one for each tag.
LEMMA ColSwitch ==
  ASSUME NEW m, NEW t
  PROVE  /\ Tag(t, 1, "len") =>
              route_value_col_Field(m, t) =
                ReadString(m, 0, "name_", t)
         /\ Tag(t, 2, "len") =>
              route_value_col_Field(m, t) =
                ReadString(m, 1, "value_", t)
         /\ NotOfCol(t) => route_value_col_Field(m, t) = SkipField(m, t)
BY DEF route_value_col_Field, Tag, NotOfCol

\* Every token leaves a message of the class.
LEMMA ColField ==
  ASSUME NEW m \in ColMessages, NEW t \in ColTokens
  PROVE  route_value_col_Field(m, t) \in Results(ColMessages)
<1>1. IsCol(m)
  BY ColIs
<1>2. /\ t.body \in {<<>>}
      /\ t.cut \in BOOLEAN
      /\ \A num \in {1, 2} : Tag(t, num, "len") => t.val \in Strings
  BY TokenParts DEF ColTokens
<1>3. CASE Tag(t, 1, "len")
  <2>1. route_value_col_Field(m, t) = ReadString(m, 0, "name_", t)
    BY <1>3, ColSwitch
  <2>2. Text(m.name_) \in Strings /\ t.val \in Strings
    BY <1>1, <1>2, <1>3, TextIs DEF IsCol, StringCell
  <2>3. Put(m, 0, "name_", Text(m["name_"])) \in ColMessages /\
          Put(m, 0, "name_", t.val) \in ColMessages
    BY <2>2, ColPut
  <2>4. QED
    BY <2>1, <2>3, ReadIs DEF ReadString
<1>4. CASE Tag(t, 2, "len")
  <2>1. route_value_col_Field(m, t) = ReadString(m, 1, "value_", t)
    BY <1>4, ColSwitch
  <2>2. Text(m.value_) \in Strings /\ t.val \in Strings
    BY <1>1, <1>2, <1>4, TextIs DEF IsCol, StringCell
  <2>3. Put(m, 1, "value_", Text(m["value_"])) \in ColMessages /\
          Put(m, 1, "value_", t.val) \in ColMessages
    BY <2>2, ColPut
  <2>4. QED
    BY <2>1, <2>3, ReadIs DEF ReadString
<1>5. CASE NotOfCol(t)
  <2>1. route_value_col_Field(m, t) = SkipField(m, t)
    BY <1>5, ColSwitch
  <2>2. CASE t.cut
    BY <2>1, <2>2, ReadIs DEF SkipField
  <2>3. CASE ~t.cut
    <3>1. t \in ColUnknown
      <4>1. t \in Tokens({1, 2}, {}, {<<>>}) /\ {} \subseteq {1, 2}
        BY DEF ColTokens
      <4>2. /\ \A num \in {} : ~Tag(t, num, "varint")
            /\ \A num \in {1, 2} : ~Tag(t, num, "len")
        BY <1>5 DEF NotOfCol
      <4>3. QED
        BY <2>3, <4>1, <4>2, NotKnown DEF ColUnknown
    <3>2. <<t>> \in Seq(ColUnknown) /\ Append(m.unk, t) = m.unk \o <<t>>
      BY <1>1, <3>1, AppendIsConcat DEF IsCol
    <3>3. [m EXCEPT !["unk"] = m.unk \o <<t>>] \in ColMessages
      BY <3>2, ColPut
    <3>4. QED
      BY <2>1, <2>3, <3>2, <3>3, ReadIs DEF SkipField
  <2>4. QED
    BY <1>2, <2>2, <2>3
<1>6. QED
  BY <1>3, <1>4, <1>5 DEF NotOfCol

ColReads == [m \in ColMessages |-> [t \in ColTokens |-> route_value_col_Field(m, t)]]

\* Reading an input.
LEMMA ColParse ==
  /\ Parser(ColMessages, ColTokens, ColReads)
  /\ \A m \in ColMessages, t \in ColTokens : ColReads[m][t] = route_value_col_Field(m, t)
  /\ \A m \in ColMessages : \A w \in Seq(ColTokens) :
       /\ route_value_col_MergePartial(m, w) = ParseOf(ColMessages, ColReads, m, w)
       /\ route_value_col_MergePartial(m, w) \in Results(ColMessages)
<1>1. \A m \in ColMessages, t \in ColTokens : ColReads[m][t] = route_value_col_Field(m, t)
  BY DEF ColReads
<1>2. Parser(ColMessages, ColTokens, ColReads)
  BY <1>1, ColField DEF Parser
<1>3. ASSUME NEW m \in ColMessages, NEW w \in Seq(ColTokens)
      PROVE  route_value_col_MergePartial(m, w) = ParseOf(ColMessages, ColReads, m, w)
  <2>1. PICK n \in Nat : n = Len(w)
    BY LenProperties
  <2>2. PICK R, b, st : /\ R = Results(ColMessages) /\ b = Read(m) /\ b \in R
                        /\ st = ParseSteps(ColMessages, ColReads, w)
    BY ReadIs
  <2>3. /\ StaysIn(R, n, st)
        /\ \A i \in 1 .. n, r \in R : st[i][r] = IF r.ok THEN ColReads[r.msg][w[i]] ELSE r
    BY <1>2, <2>1, <2>2, ParseStays
  <2>4. \A i \in 1 .. n, r \in R : st[i][r] = IF r.ok THEN
          route_value_col_Field(r.msg, w[i]) ELSE r
    <3>1. \A r \in R : r.msg \in ColMessages
      BY <2>2 DEF Results
    <3>2. \A i \in 1 .. n : w[i] \in ColTokens
      BY <2>1, ElementOfSeq
    <3>3. QED
      BY <1>1, <2>3, <3>1, <3>2
  <2>5. PICK f : Runs(R, n, b, st, f)
    BY <2>2, <2>3, RunExists
  <2>6. f = [i \in 0 .. n |->
               IF i = 0 THEN Read(m)
               ELSE LET r == f[i - 1] IN IF r.ok THEN route_value_col_Field(r.msg, w[i]) ELSE r]
    <3>1. /\ f \in [0 .. n -> R] /\ f[0] = b
          /\ \A i \in 1 .. n : f[i] = st[i][f[i - 1]]
      BY <2>5 DEF Runs
    <3>2. \A i \in 1 .. n : i - 1 \in 0 .. n
      OBVIOUS
    <3>3. \A i \in 1 .. n : f[i - 1] \in R
      BY <3>1, <3>2
    <3>4. \A i \in 0 .. n : i = 0 \/ i \in 1 .. n
      OBVIOUS
    <3>5. \A i \in 1 .. n : f[i] = IF f[i - 1].ok THEN route_value_col_Field(f[i - 1].msg, w[i])
                                 ELSE f[i - 1]
      BY <2>4, <3>1, <3>3
    <3>6. f[0] = Read(m) /\ f = [i \in 0 .. n |-> f[i]]
      BY <2>2, <3>1
    <3>7. QED
      BY <3>4, <3>5, <3>6
  <2>7. PICK g : /\ g = [i \in 0 .. n |->
                          IF i = 0 THEN Read(m)
                          ELSE LET r == g[i - 1]
                               IN IF r.ok THEN route_value_col_Field(r.msg, w[i]) ELSE r]
                 /\ route_value_col_MergePartial(m, w) = g[n]
    BY <2>1, <2>6 DEF route_value_col_MergePartial, Loop
  <2>8. /\ g = [i \in 0 .. n |-> g[i]] /\ g[0] = b
        /\ \A i \in 1 .. n :
             g[i] = IF g[i - 1].ok THEN route_value_col_Field(g[i - 1].msg, w[i]) ELSE g[i - 1]
    BY <2>2, <2>7
  <2>9. \A i \in 1 .. n : g[i - 1] \in R => g[i] = st[i][g[i - 1]]
    BY <2>4, <2>8
  <2>10. Runs(R, n, b, st, g)
    BY <2>2, <2>3, <2>8, <2>9, RunIs
  <2>11. QED
    BY <2>1, <2>2, <2>7, <2>10, OutcomeIs DEF ParseOf
<1>4. QED
  BY <1>1, <1>2, <1>3, ParseIn

\* No field of the class.
NotOfRoute(t) ==
  /\ ~Tag(t, 1, "len")
  /\ ~Tag(t, 2, "len")
  /\ ~Tag(t, 3, "len")

\* The cases of the switch, one for each tag.
LEMMA RouteSwitch ==
  ASSUME NEW m, NEW t
  PROVE  /\ Tag(t, 1, "len") =>
              route_value_Field(m, t) =
                ReadString(m, 0, "region_", t)
         /\ Tag(t, 2, "len") =>
              route_value_Field(m, t) =
                ReadString(m, 1, "area_", t)
         /\ Tag(t, 3, "len") =>
              route_value_Field(m, t) =
                ReadElement(m, "col_", route_value_col_New, route_value_col_MergePartial, t)
         /\ NotOfRoute(t) => route_value_Field(m, t) = SkipField(m, t)
BY DEF route_value_Field, Tag, NotOfRoute

\* Every token leaves a message of the class.
LEMMA RouteField ==
  ASSUME NEW m \in RouteMessages, NEW t \in RouteTokens
  PROVE  route_value_Field(m, t) \in Results(RouteMessages)
<1>1. IsRoute(m)
  BY RouteIs
<1>2. /\ t.body \in Seq(ColTokens)
      /\ t.cut \in BOOLEAN
      /\ \A num \in {1, 2} : Tag(t, num, "len") => t.val \in Strings
  BY TokenParts DEF RouteTokens
<1>3. CASE Tag(t, 1, "len")
  <2>1. route_value_Field(m, t) = ReadString(m, 0, "region_", t)
    BY <1>3, RouteSwitch
  <2>2. Text(m.region_) \in Strings /\ t.val \in Strings
    BY <1>1, <1>2, <1>3, TextIs DEF IsRoute, StringCell
  <2>3. Put(m, 0, "region_", Text(m["region_"])) \in RouteMessages /\
          Put(m, 0, "region_", t.val) \in RouteMessages
    BY <2>2, RoutePut
  <2>4. QED
    BY <2>1, <2>3, ReadIs DEF ReadString
<1>4. CASE Tag(t, 2, "len")
  <2>1. route_value_Field(m, t) = ReadString(m, 1, "area_", t)
    BY <1>4, RouteSwitch
  <2>2. Text(m.area_) \in Strings /\ t.val \in Strings
    BY <1>1, <1>2, <1>4, TextIs DEF IsRoute, StringCell
  <2>3. Put(m, 1, "area_", Text(m["area_"])) \in RouteMessages /\
          Put(m, 1, "area_", t.val) \in RouteMessages
    BY <2>2, RoutePut
  <2>4. QED
    BY <2>1, <2>3, ReadIs DEF ReadString
<1>5. CASE Tag(t, 3, "len")
  <2>1. PICK w : w = IF t.cut THEN <<>> ELSE t.body
    OBVIOUS
  <2>2. w \in Seq(ColTokens)
    BY <1>2, <2>1, EmptySeq
  <2>3. PICK r : r = route_value_col_MergePartial(route_value_col_New, w)
    OBVIOUS
  <2>4. r \in Results(ColMessages) /\ r.msg \in ColMessages
    BY <2>2, <2>3, ColNew, ColParse DEF Results
  <2>5. PICK h : h = Append(m.col_, r.msg)
    OBVIOUS
  <2>6. h \in Seq(ColMessages)
    BY <1>1, <2>4, <2>5, AppendProperties DEF IsRoute
  <2>7. [m EXCEPT !["col_"] = h] \in RouteMessages
    BY <2>6, RoutePut
  <2>8. route_value_Field(m, t) = [ok |-> r.ok /\ ~t.cut, msg |-> [m EXCEPT !["col_"] = h]]
    BY <1>5, <2>1, <2>3, <2>5, RouteSwitch DEF ReadElement
  <2>9. QED
    BY <2>7, <2>8 DEF Results
<1>6. CASE NotOfRoute(t)
  <2>1. route_value_Field(m, t) = SkipField(m, t)
    BY <1>6, RouteSwitch
  <2>2. CASE t.cut
    BY <2>1, <2>2, ReadIs DEF SkipField
  <2>3. CASE ~t.cut
    <3>1. t \in RouteUnknown
      <4>1. t \in Tokens({1, 2}, {3}, Seq(ColTokens)) /\ {3} \subseteq {1, 2, 3}
        BY DEF RouteTokens
      <4>2. /\ \A num \in {} : ~Tag(t, num, "varint")
            /\ \A num \in {1, 2, 3} : ~Tag(t, num, "len")
        BY <1>6 DEF NotOfRoute
      <4>3. QED
        BY <2>3, <4>1, <4>2, NotKnown DEF RouteUnknown
    <3>2. <<t>> \in Seq(RouteUnknown) /\ Append(m.unk, t) = m.unk \o <<t>>
      BY <1>1, <3>1, AppendIsConcat DEF IsRoute
    <3>3. [m EXCEPT !["unk"] = m.unk \o <<t>>] \in RouteMessages
      BY <3>2, RoutePut
    <3>4. QED
      BY <2>1, <2>3, <3>2, <3>3, ReadIs DEF SkipField
  <2>4. QED
    BY <1>2, <2>2, <2>3
<1>7. QED
  BY <1>3, <1>4, <1>5, <1>6 DEF NotOfRoute

RouteReads == [m \in RouteMessages |-> [t \in RouteTokens |-> route_value_Field(m, t)]]

\* Reading an input.
LEMMA RouteParse ==
  /\ Parser(RouteMessages, RouteTokens, RouteReads)
  /\ \A m \in RouteMessages, t \in RouteTokens : RouteReads[m][t] = route_value_Field(m, t)
  /\ \A m \in RouteMessages : \A w \in Seq(RouteTokens) :
       /\ route_value_MergePartial(m, w) = ParseOf(RouteMessages, RouteReads, m, w)
       /\ route_value_MergePartial(m, w) \in Results(RouteMessages)
<1>1. \A m \in RouteMessages, t \in RouteTokens : RouteReads[m][t] = route_value_Field(m, t)
  BY DEF RouteReads
<1>2. Parser(RouteMessages, RouteTokens, RouteReads)
  BY <1>1, RouteField DEF Parser
<1>3. ASSUME NEW m \in RouteMessages, NEW w \in Seq(RouteTokens)
      PROVE  route_value_MergePartial(m, w) = ParseOf(RouteMessages, RouteReads, m, w)
  <2>1. PICK n \in Nat : n = Len(w)
    BY LenProperties
  <2>2. PICK R, b, st : /\ R = Results(RouteMessages) /\ b = Read(m) /\ b \in R
                        /\ st = ParseSteps(RouteMessages, RouteReads, w)
    BY ReadIs
  <2>3. /\ StaysIn(R, n, st)
        /\ \A i \in 1 .. n, r \in R : st[i][r] = IF r.ok THEN RouteReads[r.msg][w[i]] ELSE r
    BY <1>2, <2>1, <2>2, ParseStays
  <2>4. \A i \in 1 .. n, r \in R : st[i][r] = IF r.ok THEN route_value_Field(r.msg, w[i]) ELSE r
    <3>1. \A r \in R : r.msg \in RouteMessages
      BY <2>2 DEF Results
    <3>2. \A i \in 1 .. n : w[i] \in RouteTokens
      BY <2>1, ElementOfSeq
    <3>3. QED
      BY <1>1, <2>3, <3>1, <3>2
  <2>5. PICK f : Runs(R, n, b, st, f)
    BY <2>2, <2>3, RunExists
  <2>6. f = [i \in 0 .. n |->
               IF i = 0 THEN Read(m)
               ELSE LET r == f[i - 1] IN IF r.ok THEN route_value_Field(r.msg, w[i]) ELSE r]
    <3>1. /\ f \in [0 .. n -> R] /\ f[0] = b
          /\ \A i \in 1 .. n : f[i] = st[i][f[i - 1]]
      BY <2>5 DEF Runs
    <3>2. \A i \in 1 .. n : i - 1 \in 0 .. n
      OBVIOUS
    <3>3. \A i \in 1 .. n : f[i - 1] \in R
      BY <3>1, <3>2
    <3>4. \A i \in 0 .. n : i = 0 \/ i \in 1 .. n
      OBVIOUS
    <3>5. \A i \in 1 .. n : f[i] = IF f[i - 1].ok THEN route_value_Field(f[i - 1].msg, w[i])
                                 ELSE f[i - 1]
      BY <2>4, <3>1, <3>3
    <3>6. f[0] = Read(m) /\ f = [i \in 0 .. n |-> f[i]]
      BY <2>2, <3>1
    <3>7. QED
      BY <3>4, <3>5, <3>6
  <2>7. PICK g : /\ g = [i \in 0 .. n |->
                          IF i = 0 THEN Read(m)
                          ELSE LET r == g[i - 1]
                               IN IF r.ok THEN route_value_Field(r.msg, w[i]) ELSE r]
                 /\ route_value_MergePartial(m, w) = g[n]
    BY <2>1, <2>6 DEF route_value_MergePartial, Loop
  <2>8. /\ g = [i \in 0 .. n |-> g[i]] /\ g[0] = b
        /\ \A i \in 1 .. n :
             g[i] = IF g[i - 1].ok THEN route_value_Field(g[i - 1].msg, w[i]) ELSE g[i - 1]
    BY <2>2, <2>7
  <2>9. \A i \in 1 .. n : g[i - 1] \in R => g[i] = st[i][g[i - 1]]
    BY <2>4, <2>8
  <2>10. Runs(R, n, b, st, g)
    BY <2>2, <2>3, <2>8, <2>9, RunIs
  <2>11. QED
    BY <2>1, <2>2, <2>7, <2>10, OutcomeIs DEF ParseOf
<1>4. QED
  BY <1>1, <1>2, <1>3, ParseIn

-----------------------------------------------------------------------------
(* What a message shows, and clearing it                                     *)

\* Two messages that show the same.
PosAlike(m, n) ==
  /\ m.has = n.has
  /\ m.unk = n.unk
  /\ m.posm_ = n.posm_
  /\ m.poss_ = n.poss_

\* The view is that, and no more.
LEMMA PosSame ==
  ASSUME NEW m, NEW n
  PROVE  vct_pos_View(m) = vct_pos_View(n) <=> PosAlike(m, n)
BY DEF vct_pos_View, PosAlike

\* A cleared message shows what a new one does.
LEMMA PosClear ==
  ASSUME NEW m \in PosMessages, NEW p, p = vct_pos_Clear(m)
  PROVE  p \in PosMessages /\ vct_pos_View(p) = vct_pos_View(vct_pos_New)
<1>1. IsPos(m) /\ HasFields(m, PosFields) /\ m.size \in Nat
  BY PosIs DEF IsPos
<1>2. /\ HasFields(p, PosFields) /\ p.has = {} /\ p.unk = <<>> /\ p.size = m.size
      /\ p.posm_ = IF m.has \cap {0, 1} # {} THEN 0 ELSE m.posm_
      /\ p.poss_ = IF m.has \cap {0, 1} # {} THEN 0 ELSE m.poss_
  BY <1>1 DEF vct_pos_Clear, HasFields, PosFields
<1>3. p.posm_ = 0
  BY <1>1, <1>2 DEF IsPos, IntCell
<1>4. p.poss_ = 0
  BY <1>1, <1>2 DEF IsPos, IntCell
<1>5. p \in PosMessages
  <2>1. p.has \in SUBSET (0 .. 1) /\ p.unk \in Seq(PosUnknown) /\ p.size \in Nat
    BY <1>1, <1>2, EmptySeq
  <2>2. IntCell(p.has, 0, p.posm_)
    BY <1>2, <1>3, <1>4 DEF IntCell
  <2>3. IntCell(p.has, 1, p.poss_)
    BY <1>2, <1>3, <1>4 DEF IntCell
  <2>4. QED
    BY <1>2, <2>1, <2>2, <2>3, PosIs DEF IsPos
<1>6. vct_pos_View(p) = vct_pos_View(vct_pos_New)
  <2>1. PICK n : n = vct_pos_New
    OBVIOUS
  <2>2. /\ n.has = {} /\ n.unk = <<>> /\ n.posm_ = 0 /\ n.poss_ = 0
    BY <2>1 DEF vct_pos_New
  <2>3. /\ p.posm_ = n.posm_
        /\ p.poss_ = n.poss_
    BY <1>2, <1>3, <1>4, <2>2, TextIs
  <2>4. PosAlike(p, n)
    BY <1>2, <2>2, <2>3 DEF PosAlike
  <2>5. QED
    BY <2>1, <2>4, PosSame
<1>7. QED
  BY <1>5, <1>6

\* What the elements of a repeated field show.
ValueNViews(s) == ForEach(s, vct_value_n_View)

ValueNViewsJoined(s, t, u) == ValueNViews(u) = ValueNViews(s) \o ValueNViews(t)

\* The views of two parts.
LEMMA ValueNViewsIs ==
  ASSUME NEW s \in Seq(ValueNMessages), NEW t \in Seq(ValueNMessages), NEW u, u = s \o t
  PROVE  ValueNViewsJoined(s, t, u) /\ ValueNViews(<<>>) = <<>>
<1>1. PICK F, V : F = [x \in ValueNMessages |-> vct_value_n_View(x)] /\
        V = {vct_value_n_View(x) : x \in ValueNMessages}
  OBVIOUS
<1>2. Maps(F, ValueNMessages, V)
  BY <1>1 DEF Maps
<1>3. \A x \in Seq(ValueNMessages) : Mapped(F, x) = ValueNViews(x)
  <2>1. ASSUME NEW x \in Seq(ValueNMessages) PROVE Mapped(F, x) = ValueNViews(x)
    <3>1. \A i \in 1 .. Len(x) : F[x[i]] = vct_value_n_View(x[i])
      BY <1>1, ElementOfSeq
    <3>2. QED
      BY <3>1 DEF Mapped, ValueNViews, ForEach
  <2>2. QED
    BY <2>1
<1>4. MapsJoined(F, u, s, t)
  BY <1>2, MappedParts
<1>5. u \in Seq(ValueNMessages)
  BY ConcatProperties
<1>6. ValueNViewsJoined(s, t, u)
  BY <1>3, <1>4, <1>5 DEF MapsJoined, ValueNViewsJoined
<1>7. ValueNViews(<<>>) = <<>>
  BY DEF ValueNViews, ForEach
<1>8. QED
  BY <1>6, <1>7

\* Element by element.
LEMMA ValueNViewsSame ==
  ASSUME NEW s \in Seq(ValueNMessages), NEW t \in Seq(ValueNMessages), Len(s) = Len(t),
         \A i \in 1 .. Len(s) : vct_value_n_View(s[i]) = vct_value_n_View(t[i])
  PROVE  ValueNViews(s) = ValueNViews(t)
BY DEF ValueNViews, ForEach

\* Two messages that show the same.
ValueNAlike(m, n) ==
  /\ m.has = n.has
  /\ m.unk = n.unk
  /\ PosShown(m.pos_) = PosShown(n.pos_)
  /\ m.a_ = n.a_
  /\ m.b_ = n.b_
  /\ m.commit_ = n.commit_

\* The view is that, and no more.
LEMMA ValueNSame ==
  ASSUME NEW m, NEW n
  PROVE  vct_value_n_View(m) = vct_value_n_View(n) <=> ValueNAlike(m, n)
BY DEF vct_value_n_View, ValueNAlike, PosShown, PosOwned

\* A cleared message shows what a new one does.
LEMMA ValueNClear ==
  ASSUME NEW m \in ValueNMessages, NEW p, p = vct_value_n_Clear(m)
  PROVE  p \in ValueNMessages /\ vct_value_n_View(p) = vct_value_n_View(vct_value_n_New)
<1>1. IsValueN(m) /\ HasFields(m, ValueNFields) /\ m.size \in Nat
  BY ValueNIs DEF IsValueN
<1>2. /\ HasFields(p, ValueNFields) /\ p.has = {} /\ p.unk = <<>> /\ p.size = m.size
      /\ p.a_ = IF m.has \cap {1, 2, 3} # {} THEN 0 ELSE m.a_
      /\ p.b_ = IF m.has \cap {1, 2, 3} # {} THEN 0 ELSE m.b_
      /\ p.commit_ = IF m.has \cap {1, 2, 3} # {} THEN FALSE ELSE m.commit_
      /\ p.pos_ = IF 0 \in m.has THEN vct_pos_Clear(m.pos_) ELSE m.pos_
  BY <1>1 DEF vct_value_n_Clear, HasFields, ValueNFields
<1>3. p.a_ = 0
  BY <1>1, <1>2 DEF IsValueN, IntCell
<1>4. p.b_ = 0
  BY <1>1, <1>2 DEF IsValueN, IntCell
<1>5. p.commit_ = FALSE
  BY <1>1, <1>2 DEF IsValueN, BoolCell
<1>6. p.pos_ \in PosMessages \cup {Null} /\ PosShown(p.pos_) = vct_pos_View(vct_pos_New)
  <2>1. PosCell(m.has, 0, m.pos_)
    BY <1>1 DEF IsValueN
  <2>2. CASE 0 \in m.has
    <3>1. m.pos_ \in PosMessages /\ p.pos_ = vct_pos_Clear(m.pos_)
      BY <1>2, <2>1, <2>2, PosIsOwned
    <3>2. p.pos_ \in PosMessages /\ vct_pos_View(p.pos_) = vct_pos_View(vct_pos_New)
      BY <3>1, PosClear
    <3>3. QED
      BY <3>2, ClassesAssumption DEF PosShown, PosOwned
  <2>3. CASE 0 \notin m.has
    BY <1>2, <2>1, <2>3 DEF PosCell
  <2>4. QED
    BY <2>2, <2>3
<1>7. p \in ValueNMessages
  <2>1. p.has \in SUBSET (0 .. 3) /\ p.unk \in Seq(ValueNUnknown) /\ p.size \in Nat
    BY <1>1, <1>2, EmptySeq
  <2>2. PosCell(p.has, 0, p.pos_)
    BY <1>2, <1>3, <1>4, <1>5, <1>6 DEF PosCell
  <2>3. IntCell(p.has, 1, p.a_)
    BY <1>2, <1>3, <1>4, <1>5, <1>6 DEF IntCell
  <2>4. IntCell(p.has, 2, p.b_)
    BY <1>2, <1>3, <1>4, <1>5, <1>6 DEF IntCell
  <2>5. BoolCell(p.has, 3, p.commit_)
    BY <1>2, <1>3, <1>4, <1>5, <1>6 DEF BoolCell
  <2>6. QED
    BY <1>2, <2>1, <2>2, <2>3, <2>4, <2>5, ValueNIs DEF IsValueN
<1>8. vct_value_n_View(p) = vct_value_n_View(vct_value_n_New)
  <2>1. PICK n : n = vct_value_n_New
    OBVIOUS
  <2>2. /\ n.has = {} /\ n.unk = <<>> /\ n.pos_ = Null /\ n.a_ = 0
        /\ n.b_ = 0 /\ n.commit_ = FALSE
    BY <2>1 DEF vct_value_n_New
  <2>3. /\ PosShown(p.pos_) = PosShown(n.pos_)
        /\ p.a_ = n.a_
        /\ p.b_ = n.b_
        /\ p.commit_ = n.commit_
    BY <1>2, <1>3, <1>4, <1>5, <1>6, <2>2, TextIs DEF PosShown, PosOwned
  <2>4. ValueNAlike(p, n)
    BY <1>2, <2>2, <2>3 DEF ValueNAlike
  <2>5. QED
    BY <2>1, <2>4, ValueNSame
<1>9. QED
  BY <1>7, <1>8

\* Two messages that show the same.
ValueAlike(m, n) ==
  /\ m.has = n.has
  /\ m.unk = n.unk
  /\ Text(m.key_) = Text(n.key_)
  /\ ValueNShown(m.main_) = ValueNShown(n.main_)
  /\ ValueNViews(m.his_) = ValueNViews(n.his_)
  /\ m.commit_count_ = n.commit_count_

\* The view is that, and no more.
LEMMA ValueSame ==
  ASSUME NEW m, NEW n
  PROVE  vct_value_View(m) = vct_value_View(n) <=> ValueAlike(m, n)
BY DEF vct_value_View, ValueAlike, ValueNShown, ValueNOwned, ValueNViews

\* A cleared message shows what a new one does.
LEMMA ValueClear ==
  ASSUME NEW m \in ValueMessages, NEW p, p = vct_value_Clear(m)
  PROVE  p \in ValueMessages /\ vct_value_View(p) = vct_value_View(vct_value_New)
<1>1. IsValue(m) /\ HasFields(m, ValueFields) /\ m.size \in Nat
  BY ValueIs DEF IsValue
<1>2. /\ HasFields(p, ValueFields) /\ p.has = {} /\ p.unk = <<>> /\ p.size = m.size
      /\ p.key_ = IF 0 \in m.has THEN Emptied(m.key_) ELSE m.key_
      /\ p.main_ = IF 1 \in m.has THEN vct_value_n_Clear(m.main_) ELSE m.main_
      /\ p.his_ = <<>>
      /\ p.commit_count_ = 0
  BY <1>1 DEF vct_value_Clear, HasFields, ValueFields
<1>3. p.key_ \in {Shared, Empty}
  BY <1>1, <1>2, TextIs DEF IsValue, StringCell
<1>4. p.main_ \in ValueNMessages \cup {Null} /\
        ValueNShown(p.main_) = vct_value_n_View(vct_value_n_New)
  <2>1. ValueNCell(m.has, 1, m.main_)
    BY <1>1 DEF IsValue
  <2>2. CASE 1 \in m.has
    <3>1. m.main_ \in ValueNMessages /\ p.main_ = vct_value_n_Clear(m.main_)
      BY <1>2, <2>1, <2>2, ValueNIsOwned
    <3>2. p.main_ \in ValueNMessages /\ vct_value_n_View(p.main_) =
            vct_value_n_View(vct_value_n_New)
      BY <3>1, ValueNClear
    <3>3. QED
      BY <3>2, ClassesAssumption DEF ValueNShown, ValueNOwned
  <2>3. CASE 1 \notin m.has
    BY <1>2, <2>1, <2>3 DEF ValueNCell
  <2>4. QED
    BY <2>2, <2>3
<1>5. p \in ValueMessages
  <2>1. p.has \in SUBSET (0 .. 2) /\ p.unk \in Seq(ValueUnknown) /\ p.size \in Nat
    BY <1>1, <1>2, EmptySeq
  <2>2. StringCell(p.has, 0, p.key_)
    BY <1>2, <1>3, <1>4 DEF StringCell
  <2>3. ValueNCell(p.has, 1, p.main_)
    BY <1>2, <1>3, <1>4 DEF ValueNCell
  <2>4. p.his_ \in Seq(ValueNMessages)
    BY <1>2, <1>3, <1>4, EmptySeq
  <2>5. IntCell(p.has, 2, p.commit_count_)
    BY <1>2, <1>3, <1>4 DEF IntCell
  <2>6. QED
    BY <1>2, <2>1, <2>2, <2>3, <2>4, <2>5, ValueIs DEF IsValue
<1>6. vct_value_View(p) = vct_value_View(vct_value_New)
  <2>1. PICK n : n = vct_value_New
    OBVIOUS
  <2>2. /\ n.has = {} /\ n.unk = <<>> /\ n.key_ = Shared /\ n.main_ = Null
        /\ n.his_ = <<>> /\ n.commit_count_ = 0
    BY <2>1 DEF vct_value_New
  <2>3. /\ Text(p.key_) = Text(n.key_)
        /\ ValueNShown(p.main_) = ValueNShown(n.main_)
        /\ ValueNViews(p.his_) = ValueNViews(n.his_)
        /\ p.commit_count_ = n.commit_count_
    BY <1>2, <1>3, <1>4, <2>2, TextIs DEF Text, ValueNShown, ValueNOwned
  <2>4. ValueAlike(p, n)
    BY <1>2, <2>2, <2>3 DEF ValueAlike
  <2>5. QED
    BY <2>1, <2>4, ValueSame
<1>7. QED
  BY <1>5, <1>6

\* Two messages that show the same.
KeytableAlike(m, n) ==
  /\ m.has = n.has
  /\ m.unk = n.unk
  /\ Text(m.field_) = Text(n.field_)
  /\ Text(m.route_table_) = Text(n.route_table_)
  /\ Text(m.route_table_field_) = Text(n.route_table_field_)

\* The view is that, and no more.
LEMMA KeytableSame ==
  ASSUME NEW m, NEW n
  PROVE  keytable_value_View(m) = keytable_value_View(n) <=> KeytableAlike(m, n)
BY DEF keytable_value_View, KeytableAlike

\* A cleared message shows what a new one does.
LEMMA KeytableClear ==
  ASSUME NEW m \in KeytableMessages, NEW p, p = keytable_value_Clear(m)
  PROVE  p \in KeytableMessages /\ keytable_value_View(p) =
           keytable_value_View(keytable_value_New)
<1>1. IsKeytable(m) /\ HasFields(m, KeytableFields) /\ m.size \in Nat
  BY KeytableIs DEF IsKeytable
<1>2. /\ HasFields(p, KeytableFields) /\ p.has = {} /\ p.unk = <<>> /\ p.size = m.size
      /\ p.field_ = IF 0 \in m.has THEN Emptied(m.field_) ELSE m.field_
      /\ p.route_table_ = IF 1 \in m.has THEN Emptied(m.route_table_) ELSE m.route_table_
      /\ p.route_table_field_ = IF 2 \in m.has THEN
           Emptied(m.route_table_field_) ELSE m.route_table_field_
  BY <1>1 DEF keytable_value_Clear, HasFields, KeytableFields
<1>3. p.field_ \in {Shared, Empty}
  BY <1>1, <1>2, TextIs DEF IsKeytable, StringCell
<1>4. p.route_table_ \in {Shared, Empty}
  BY <1>1, <1>2, TextIs DEF IsKeytable, StringCell
<1>5. p.route_table_field_ \in {Shared, Empty}
  BY <1>1, <1>2, TextIs DEF IsKeytable, StringCell
<1>6. p \in KeytableMessages
  <2>1. p.has \in SUBSET (0 .. 2) /\ p.unk \in Seq(KeytableUnknown) /\ p.size \in Nat
    BY <1>1, <1>2, EmptySeq
  <2>2. StringCell(p.has, 0, p.field_)
    BY <1>2, <1>3, <1>4, <1>5 DEF StringCell
  <2>3. StringCell(p.has, 1, p.route_table_)
    BY <1>2, <1>3, <1>4, <1>5 DEF StringCell
  <2>4. StringCell(p.has, 2, p.route_table_field_)
    BY <1>2, <1>3, <1>4, <1>5 DEF StringCell
  <2>5. QED
    BY <1>2, <2>1, <2>2, <2>3, <2>4, KeytableIs DEF IsKeytable
<1>7. keytable_value_View(p) = keytable_value_View(keytable_value_New)
  <2>1. PICK n : n = keytable_value_New
    OBVIOUS
  <2>2. /\ n.has = {} /\ n.unk = <<>> /\ n.field_ = Shared /\ n.route_table_ = Shared
        /\ n.route_table_field_ = Shared
    BY <2>1 DEF keytable_value_New
  <2>3. /\ Text(p.field_) = Text(n.field_)
        /\ Text(p.route_table_) = Text(n.route_table_)
        /\ Text(p.route_table_field_) = Text(n.route_table_field_)
    BY <1>2, <1>3, <1>4, <1>5, <2>2, TextIs DEF Text
  <2>4. KeytableAlike(p, n)
    BY <1>2, <2>2, <2>3 DEF KeytableAlike
  <2>5. QED
    BY <2>1, <2>4, KeytableSame
<1>8. QED
  BY <1>6, <1>7

\* What the elements of a repeated field show.
ColViews(s) == ForEach(s, route_value_col_View)

ColViewsJoined(s, t, u) == ColViews(u) = ColViews(s) \o ColViews(t)

\* The views of two parts.
LEMMA ColViewsIs ==
  ASSUME NEW s \in Seq(ColMessages), NEW t \in Seq(ColMessages), NEW u, u = s \o t
  PROVE  ColViewsJoined(s, t, u) /\ ColViews(<<>>) = <<>>
<1>1. PICK F, V : F = [x \in ColMessages |-> route_value_col_View(x)] /\
        V = {route_value_col_View(x) : x \in ColMessages}
  OBVIOUS
<1>2. Maps(F, ColMessages, V)
  BY <1>1 DEF Maps
<1>3. \A x \in Seq(ColMessages) : Mapped(F, x) = ColViews(x)
  <2>1. ASSUME NEW x \in Seq(ColMessages) PROVE Mapped(F, x) = ColViews(x)
    <3>1. \A i \in 1 .. Len(x) : F[x[i]] = route_value_col_View(x[i])
      BY <1>1, ElementOfSeq
    <3>2. QED
      BY <3>1 DEF Mapped, ColViews, ForEach
  <2>2. QED
    BY <2>1
<1>4. MapsJoined(F, u, s, t)
  BY <1>2, MappedParts
<1>5. u \in Seq(ColMessages)
  BY ConcatProperties
<1>6. ColViewsJoined(s, t, u)
  BY <1>3, <1>4, <1>5 DEF MapsJoined, ColViewsJoined
<1>7. ColViews(<<>>) = <<>>
  BY DEF ColViews, ForEach
<1>8. QED
  BY <1>6, <1>7

\* Element by element.
LEMMA ColViewsSame ==
  ASSUME NEW s \in Seq(ColMessages), NEW t \in Seq(ColMessages), Len(s) = Len(t),
         \A i \in 1 .. Len(s) : route_value_col_View(s[i]) = route_value_col_View(t[i])
  PROVE  ColViews(s) = ColViews(t)
BY DEF ColViews, ForEach

\* Two messages that show the same.
ColAlike(m, n) ==
  /\ m.has = n.has
  /\ m.unk = n.unk
  /\ Text(m.name_) = Text(n.name_)
  /\ Text(m.value_) = Text(n.value_)

\* The view is that, and no more.
LEMMA ColSame ==
  ASSUME NEW m, NEW n
  PROVE  route_value_col_View(m) = route_value_col_View(n) <=> ColAlike(m, n)
BY DEF route_value_col_View, ColAlike

\* A cleared message shows what a new one does.
LEMMA ColClear ==
  ASSUME NEW m \in ColMessages, NEW p, p = route_value_col_Clear(m)
  PROVE  p \in ColMessages /\ route_value_col_View(p) =
           route_value_col_View(route_value_col_New)
<1>1. IsCol(m) /\ HasFields(m, ColFields) /\ m.size \in Nat
  BY ColIs DEF IsCol
<1>2. /\ HasFields(p, ColFields) /\ p.has = {} /\ p.unk = <<>> /\ p.size = m.size
      /\ p.name_ = IF 0 \in m.has THEN Emptied(m.name_) ELSE m.name_
      /\ p.value_ = IF 1 \in m.has THEN Emptied(m.value_) ELSE m.value_
  BY <1>1 DEF route_value_col_Clear, HasFields, ColFields
<1>3. p.name_ \in {Shared, Empty}
  BY <1>1, <1>2, TextIs DEF IsCol, StringCell
<1>4. p.value_ \in {Shared, Empty}
  BY <1>1, <1>2, TextIs DEF IsCol, StringCell
<1>5. p \in ColMessages
  <2>1. p.has \in SUBSET (0 .. 1) /\ p.unk \in Seq(ColUnknown) /\ p.size \in Nat
    BY <1>1, <1>2, EmptySeq
  <2>2. StringCell(p.has, 0, p.name_)
    BY <1>2, <1>3, <1>4 DEF StringCell
  <2>3. StringCell(p.has, 1, p.value_)
    BY <1>2, <1>3, <1>4 DEF StringCell
  <2>4. QED
    BY <1>2, <2>1, <2>2, <2>3, ColIs DEF IsCol
<1>6. route_value_col_View(p) = route_value_col_View(route_value_col_New)
  <2>1. PICK n : n = route_value_col_New
    OBVIOUS
  <2>2. /\ n.has = {} /\ n.unk = <<>> /\ n.name_ = Shared /\ n.value_ = Shared
    BY <2>1 DEF route_value_col_New
  <2>3. /\ Text(p.name_) = Text(n.name_)
        /\ Text(p.value_) = Text(n.value_)
    BY <1>2, <1>3, <1>4, <2>2, TextIs DEF Text
  <2>4. ColAlike(p, n)
    BY <1>2, <2>2, <2>3 DEF ColAlike
  <2>5. QED
    BY <2>1, <2>4, ColSame
<1>7. QED
  BY <1>5, <1>6

\* Two messages that show the same.
RouteAlike(m, n) ==
  /\ m.has = n.has
  /\ m.unk = n.unk
  /\ Text(m.region_) = Text(n.region_)
  /\ Text(m.area_) = Text(n.area_)
  /\ ColViews(m.col_) = ColViews(n.col_)

\* The view is that, and no more.
LEMMA RouteSame ==
  ASSUME NEW m, NEW n
  PROVE  route_value_View(m) = route_value_View(n) <=> RouteAlike(m, n)
BY DEF route_value_View, RouteAlike, ColViews

\* A cleared message shows what a new one does.
LEMMA RouteClear ==
  ASSUME NEW m \in RouteMessages, NEW p, p = route_value_Clear(m)
  PROVE  p \in RouteMessages /\ route_value_View(p) = route_value_View(route_value_New)
<1>1. IsRoute(m) /\ HasFields(m, RouteFields) /\ m.size \in Nat
  BY RouteIs DEF IsRoute
<1>2. /\ HasFields(p, RouteFields) /\ p.has = {} /\ p.unk = <<>> /\ p.size = m.size
      /\ p.region_ = IF 0 \in m.has THEN Emptied(m.region_) ELSE m.region_
      /\ p.area_ = IF 1 \in m.has THEN Emptied(m.area_) ELSE m.area_
      /\ p.col_ = <<>>
  BY <1>1 DEF route_value_Clear, HasFields, RouteFields
<1>3. p.region_ \in {Shared, Empty}
  BY <1>1, <1>2, TextIs DEF IsRoute, StringCell
<1>4. p.area_ \in {Shared, Empty}
  BY <1>1, <1>2, TextIs DEF IsRoute, StringCell
<1>5. p \in RouteMessages
  <2>1. p.has \in SUBSET (0 .. 1) /\ p.unk \in Seq(RouteUnknown) /\ p.size \in Nat
    BY <1>1, <1>2, EmptySeq
  <2>2. StringCell(p.has, 0, p.region_)
    BY <1>2, <1>3, <1>4 DEF StringCell
  <2>3. StringCell(p.has, 1, p.area_)
    BY <1>2, <1>3, <1>4 DEF StringCell
  <2>4. p.col_ \in Seq(ColMessages)
    BY <1>2, <1>3, <1>4, EmptySeq
  <2>5. QED
    BY <1>2, <2>1, <2>2, <2>3, <2>4, RouteIs DEF IsRoute
<1>6. route_value_View(p) = route_value_View(route_value_New)
  <2>1. PICK n : n = route_value_New
    OBVIOUS
  <2>2. /\ n.has = {} /\ n.unk = <<>> /\ n.region_ = Shared /\ n.area_ = Shared
        /\ n.col_ = <<>>
    BY <2>1 DEF route_value_New
  <2>3. /\ Text(p.region_) = Text(n.region_)
        /\ Text(p.area_) = Text(n.area_)
        /\ ColViews(p.col_) = ColViews(n.col_)
    BY <1>2, <1>3, <1>4, <2>2, TextIs DEF Text
  <2>4. RouteAlike(p, n)
    BY <1>2, <2>2, <2>3 DEF RouteAlike
  <2>5. QED
    BY <2>1, <2>4, RouteSame
<1>7. QED
  BY <1>5, <1>6

-----------------------------------------------------------------------------
(* Merging                                                                   *)

\* Merging, field by field.
PosMerged(p, m, n) ==
  /\ HasFields(p, PosFields)
  /\ p.has = m.has \cup n.has /\ p.unk = m.unk \o n.unk /\ p.size = m.size
  /\ p.posm_ = IF 0 \in n.has THEN n.posm_ ELSE m.posm_
  /\ p.poss_ = IF 1 \in n.has THEN n.poss_ ELSE m.poss_

\* The class, field by field.
LEMMA PosMergeIs ==
  ASSUME NEW m \in PosMessages, NEW n \in PosMessages
  PROVE  PosMerged(vct_pos_MergeFrom(m, n), m, n)
<1>1. IsPos(m) /\ IsPos(n) /\ HasFields(m, PosFields)
  BY PosIs DEF IsPos
<1>2. PICK p : p = vct_pos_MergeFrom(m, n)
  OBVIOUS
<1>3. /\ HasFields(p, PosFields)
      /\ p.has = m.has \cup n.has /\ p.unk = m.unk \o n.unk /\ p.size = m.size
      /\ p.posm_ = Taken(m, n, 0, "posm_")
      /\ p.poss_ = Taken(m, n, 1, "poss_")
  BY <1>1, <1>2 DEF vct_pos_MergeFrom, HasFields, PosFields
<1>4. /\ p.posm_ = IF 0 \in n.has THEN n.posm_ ELSE m.posm_
      /\ p.poss_ = IF 1 \in n.has THEN n.poss_ ELSE m.poss_
  BY <1>3 DEF Taken
<1>5. QED
  BY <1>2, <1>3, <1>4 DEF PosMerged

\* What a merged message shows.
PosMergeShows(p, m, n) ==
  /\ p.has = m.has \cup n.has
  /\ p.unk = m.unk \o n.unk
  /\ p.posm_ = IF 0 \in n.has THEN n.posm_ ELSE m.posm_
  /\ p.poss_ = IF 1 \in n.has THEN n.poss_ ELSE m.poss_

\* The merged message is one of the class.
LEMMA PosMerge ==
  ASSUME NEW m \in PosMessages, NEW n \in PosMessages, NEW p, p = vct_pos_MergeFrom(m, n)
  PROVE  p \in PosMessages /\ PosMergeShows(p, m, n)
<1>1. IsPos(m) /\ IsPos(n) /\ PosMerged(p, m, n)
  BY PosIs, PosMergeIs
<1>2. /\ HasFields(p, PosFields)
      /\ p.has = m.has \cup n.has /\ p.unk = m.unk \o n.unk /\ p.size = m.size
      /\ p.posm_ = IF 0 \in n.has THEN n.posm_ ELSE m.posm_
      /\ p.poss_ = IF 1 \in n.has THEN n.poss_ ELSE m.poss_
  BY <1>1 DEF PosMerged
<1>3. p.has \in SUBSET (0 .. 1) /\ p.unk \in Seq(PosUnknown) /\ p.size \in Nat
  BY <1>1, <1>2, ConcatProperties DEF IsPos
<1>4. IntCell(p.has, 0, p.posm_)
  BY <1>1, <1>2 DEF IsPos, IntCell
<1>5. IntCell(p.has, 1, p.poss_)
  BY <1>1, <1>2 DEF IsPos, IntCell
<1>6. p \in PosMessages
  BY <1>2, <1>3, <1>4, <1>5, PosIs DEF IsPos
<1>7. QED
  BY <1>2, <1>6 DEF PosMergeShows

\* What is merged into what decides what it shows.
LEMMA PosMergeSame ==
  ASSUME NEW m \in PosMessages, NEW n \in PosMessages, NEW x \in PosMessages,
           NEW y \in PosMessages,
         vct_pos_View(m) = vct_pos_View(x), vct_pos_View(n) = vct_pos_View(y)
  PROVE  vct_pos_View(vct_pos_MergeFrom(m, n)) = vct_pos_View(vct_pos_MergeFrom(x, y))
<1>1. PICK a, b : a = vct_pos_MergeFrom(m, n) /\ b = vct_pos_MergeFrom(x, y)
  OBVIOUS
<1>2. PosMergeShows(a, m, n) /\ PosMergeShows(b, x, y)
  BY <1>1, PosMerge
<1>3. PosAlike(m, x) /\ PosAlike(n, y)
  BY PosSame
<1>4. a.has = b.has /\ a.unk = b.unk
  BY <1>2, <1>3 DEF PosMergeShows, PosAlike
<1>5. a.posm_ = b.posm_
  BY <1>2, <1>3 DEF PosMergeShows, PosAlike
<1>6. a.poss_ = b.poss_
  BY <1>2, <1>3 DEF PosMergeShows, PosAlike
<1>7. PosAlike(a, b)
  BY <1>4, <1>5, <1>6 DEF PosAlike
<1>8. QED
  BY <1>1, <1>7, PosSame

\* Merging into a new message makes the message again.
LEMMA PosMergeNew ==
  ASSUME NEW n \in PosMessages
  PROVE  vct_pos_View(vct_pos_MergeFrom(vct_pos_New, n)) = vct_pos_View(n)
<1>1. PICK m, a : m = vct_pos_New /\ a = vct_pos_MergeFrom(m, n)
  OBVIOUS
<1>2. IsPos(n) /\ PosMergeShows(a, m, n)
  BY <1>1, PosNew, PosIs, PosMerge
<1>3. /\ m.has = {} /\ m.unk = <<>> /\ m.posm_ = 0 /\ m.poss_ = 0
  BY <1>1 DEF vct_pos_New
<1>4. a.has = n.has /\ a.unk = n.unk
  BY <1>2, <1>3, ConcatEmptySeq DEF PosMergeShows, IsPos
<1>5. a.posm_ = n.posm_
  BY <1>2, <1>3 DEF PosMergeShows, IsPos, IntCell
<1>6. a.poss_ = n.poss_
  BY <1>2, <1>3 DEF PosMergeShows, IsPos, IntCell
<1>7. PosAlike(a, n)
  BY <1>4, <1>5, <1>6 DEF PosAlike
<1>8. QED
  BY <1>1, <1>7, PosSame

\* Merging, field by field.
ValueNMerged(p, m, n) ==
  /\ HasFields(p, ValueNFields)
  /\ p.has = m.has \cup n.has /\ p.unk = m.unk \o n.unk /\ p.size = m.size
  /\ p.pos_ = IF 0 \in n.has THEN vct_pos_MergeFrom(PosOwned(m.pos_), n.pos_) ELSE m.pos_
  /\ p.a_ = IF 1 \in n.has THEN n.a_ ELSE m.a_
  /\ p.b_ = IF 2 \in n.has THEN n.b_ ELSE m.b_
  /\ p.commit_ = IF 3 \in n.has THEN n.commit_ ELSE m.commit_

\* The class, field by field.
LEMMA ValueNMergeIs ==
  ASSUME NEW m \in ValueNMessages, NEW n \in ValueNMessages
  PROVE  ValueNMerged(vct_value_n_MergeFrom(m, n), m, n)
<1>1. IsValueN(m) /\ IsValueN(n) /\ HasFields(m, ValueNFields)
  BY ValueNIs DEF IsValueN
<1>2. PICK p : p = vct_value_n_MergeFrom(m, n)
  OBVIOUS
<1>3. /\ HasFields(p, ValueNFields)
      /\ p.has = m.has \cup n.has /\ p.unk = m.unk \o n.unk /\ p.size = m.size
      /\ p.pos_ = IF 0 \in n.has
                   THEN vct_pos_MergeFrom(Mutable(m, 0, "pos_", vct_pos_New).pos_,
                       n.pos_) ELSE m.pos_
      /\ p.a_ = Taken(m, n, 1, "a_")
      /\ p.b_ = Taken(m, n, 2, "b_")
      /\ p.commit_ = Taken(m, n, 3, "commit_")
  BY <1>1, <1>2 DEF vct_value_n_MergeFrom, HasFields, ValueNFields
<1>4. /\ p.a_ = IF 1 \in n.has THEN n.a_ ELSE m.a_
      /\ p.b_ = IF 2 \in n.has THEN n.b_ ELSE m.b_
      /\ p.commit_ = IF 3 \in n.has THEN n.commit_ ELSE m.commit_
  BY <1>3 DEF Taken
<1>5. Mutable(m, 0, "pos_", vct_pos_New).pos_ = PosOwned(m.pos_)
  BY <1>1 DEF Mutable, Put, HasFields, ValueNFields, PosOwned
<1>6. QED
  BY <1>2, <1>3, <1>4, <1>5 DEF ValueNMerged

\* What a merged message shows.
ValueNMergeShows(p, m, n) ==
  /\ p.has = m.has \cup n.has
  /\ p.unk = m.unk \o n.unk
  /\ PosShown(p.pos_) = IF 0 \in n.has THEN
       vct_pos_View(vct_pos_MergeFrom(PosOwned(m.pos_), n.pos_))
       ELSE PosShown(m.pos_)
  /\ p.a_ = IF 1 \in n.has THEN n.a_ ELSE m.a_
  /\ p.b_ = IF 2 \in n.has THEN n.b_ ELSE m.b_
  /\ p.commit_ = IF 3 \in n.has THEN n.commit_ ELSE m.commit_

\* The merged message is one of the class.
LEMMA ValueNMerge ==
  ASSUME NEW m \in ValueNMessages, NEW n \in ValueNMessages, NEW p, p =
           vct_value_n_MergeFrom(m, n)
  PROVE  p \in ValueNMessages /\ ValueNMergeShows(p, m, n)
<1>1. IsValueN(m) /\ IsValueN(n) /\ ValueNMerged(p, m, n)
  BY ValueNIs, ValueNMergeIs
<1>2. /\ HasFields(p, ValueNFields)
      /\ p.has = m.has \cup n.has /\ p.unk = m.unk \o n.unk /\ p.size = m.size
      /\ p.pos_ = IF 0 \in n.has THEN vct_pos_MergeFrom(PosOwned(m.pos_), n.pos_) ELSE m.pos_
      /\ p.a_ = IF 1 \in n.has THEN n.a_ ELSE m.a_
      /\ p.b_ = IF 2 \in n.has THEN n.b_ ELSE m.b_
      /\ p.commit_ = IF 3 \in n.has THEN n.commit_ ELSE m.commit_
  BY <1>1 DEF ValueNMerged
<1>3. p.has \in SUBSET (0 .. 3) /\ p.unk \in Seq(ValueNUnknown) /\ p.size \in Nat
  BY <1>1, <1>2, ConcatProperties DEF IsValueN
<1>4. /\ PosCell(p.has, 0, p.pos_)
      /\ 0 \in n.has => p.pos_ \in PosMessages /\ PosShown(p.pos_) = vct_pos_View(p.pos_)
  <2>1. PosCell(m.has, 0, m.pos_) /\ PosCell(n.has, 0, n.pos_)
    BY <1>1 DEF IsValueN
  <2>2. CASE 0 \in n.has
    <3>1. PosOwned(m.pos_) \in PosMessages /\ n.pos_ \in PosMessages
      BY <2>1, <2>2, PosIsOwned
    <3>2. p.pos_ \in PosMessages
      BY <1>2, <2>2, <3>1, PosMerge
    <3>3. 0 \in p.has
      BY <1>2, <2>2
    <3>4. PosCell(p.has, 0, p.pos_)
      BY <3>2, <3>3, PosCells
    <3>5. QED
      BY <3>2, <3>4, ClassesAssumption DEF PosShown, PosOwned
  <2>3. CASE 0 \notin n.has
    <3>1. p.pos_ = m.pos_ /\ (0 \in p.has <=> 0 \in m.has)
      BY <1>2, <2>3
    <3>2. QED
      BY <2>1, <2>3, <3>1, PosCells
  <2>4. QED
    BY <2>2, <2>3
<1>5. IntCell(p.has, 1, p.a_)
  BY <1>1, <1>2 DEF IsValueN, IntCell
<1>6. IntCell(p.has, 2, p.b_)
  BY <1>1, <1>2 DEF IsValueN, IntCell
<1>7. BoolCell(p.has, 3, p.commit_)
  BY <1>1, <1>2 DEF IsValueN, BoolCell
<1>8. p \in ValueNMessages
  BY <1>2, <1>3, <1>4, <1>5, <1>6, <1>7, ValueNIs DEF IsValueN
<1>9. QED
  BY <1>2, <1>8, <1>4 DEF ValueNMergeShows

\* What is merged into what decides what it shows.
LEMMA ValueNMergeSame ==
  ASSUME NEW m \in ValueNMessages, NEW n \in ValueNMessages, NEW x \in ValueNMessages,
           NEW y \in ValueNMessages,
         vct_value_n_View(m) = vct_value_n_View(x), vct_value_n_View(n) = vct_value_n_View(y)
  PROVE  vct_value_n_View(vct_value_n_MergeFrom(m, n)) =
           vct_value_n_View(vct_value_n_MergeFrom(x, y))
<1>1. PICK a, b : a = vct_value_n_MergeFrom(m, n) /\ b = vct_value_n_MergeFrom(x, y)
  OBVIOUS
<1>2. ValueNMergeShows(a, m, n) /\ ValueNMergeShows(b, x, y)
  BY <1>1, ValueNMerge
<1>3. ValueNAlike(m, x) /\ ValueNAlike(n, y)
  BY ValueNSame
<1>4. a.has = b.has /\ a.unk = b.unk
  BY <1>2, <1>3 DEF ValueNMergeShows, ValueNAlike
<1>5. PosShown(a.pos_) = PosShown(b.pos_)
  <2>1. /\ PosCell(m.has, 0, m.pos_) /\ PosCell(n.has, 0, n.pos_)
        /\ PosCell(x.has, 0, x.pos_) /\ PosCell(y.has, 0, y.pos_)
    BY ValueNIs DEF IsValueN
  <2>2. /\ n.has = y.has /\ PosShown(m.pos_) = PosShown(x.pos_)
        /\ PosShown(n.pos_) = PosShown(y.pos_)
    BY <1>3 DEF ValueNAlike
  <2>3. CASE 0 \in n.has
    <3>1. PICK i, j, u, v : i = PosOwned(m.pos_) /\ u = n.pos_ /\ j = PosOwned(x.pos_) /\
            v = y.pos_
      OBVIOUS
    <3>2. /\ i \in PosMessages /\ u \in PosMessages /\ j \in PosMessages /\ v \in PosMessages
          /\ PosOwned(u) = u /\ PosOwned(v) = v
      BY <2>1, <2>2, <2>3, <3>1, PosIsOwned
    <3>3. vct_pos_View(i) = vct_pos_View(j) /\ vct_pos_View(u) = vct_pos_View(v)
      BY <2>2, <3>1, <3>2 DEF PosShown
    <3>4. vct_pos_View(vct_pos_MergeFrom(i, u)) = vct_pos_View(vct_pos_MergeFrom(j, v))
      BY <3>2, <3>3, PosMergeSame
    <3>5. QED
      BY <1>2, <2>2, <2>3, <3>1, <3>4 DEF ValueNMergeShows
  <2>4. CASE 0 \notin n.has
    BY <1>2, <2>2, <2>4 DEF ValueNMergeShows
  <2>5. QED
    BY <2>3, <2>4
<1>6. a.a_ = b.a_
  BY <1>2, <1>3 DEF ValueNMergeShows, ValueNAlike
<1>7. a.b_ = b.b_
  BY <1>2, <1>3 DEF ValueNMergeShows, ValueNAlike
<1>8. a.commit_ = b.commit_
  BY <1>2, <1>3 DEF ValueNMergeShows, ValueNAlike
<1>9. ValueNAlike(a, b)
  BY <1>4, <1>5, <1>6, <1>7, <1>8 DEF ValueNAlike
<1>10. QED
  BY <1>1, <1>9, ValueNSame

\* Merging into a new message makes the message again.
LEMMA ValueNMergeNew ==
  ASSUME NEW n \in ValueNMessages
  PROVE  vct_value_n_View(vct_value_n_MergeFrom(vct_value_n_New, n)) = vct_value_n_View(n)
<1>1. PICK m, a : m = vct_value_n_New /\ a = vct_value_n_MergeFrom(m, n)
  OBVIOUS
<1>2. IsValueN(n) /\ ValueNMergeShows(a, m, n)
  BY <1>1, ValueNNew, ValueNIs, ValueNMerge
<1>3. /\ m.has = {} /\ m.unk = <<>> /\ m.pos_ = Null /\ m.a_ = 0
      /\ m.b_ = 0 /\ m.commit_ = FALSE
  BY <1>1 DEF vct_value_n_New
<1>4. a.has = n.has /\ a.unk = n.unk
  BY <1>2, <1>3, ConcatEmptySeq DEF ValueNMergeShows, IsValueN
<1>5. PosShown(a.pos_) = PosShown(n.pos_)
  <2>1. PosCell(n.has, 0, n.pos_)
    BY <1>2 DEF IsValueN
  <2>2. CASE 0 \in n.has
    <3>1. n.pos_ \in PosMessages /\ PosOwned(n.pos_) = n.pos_ /\ PosOwned(m.pos_) = vct_pos_New
      BY <1>3, <2>1, <2>2, PosIsOwned DEF PosOwned
    <3>2. vct_pos_View(vct_pos_MergeFrom(PosOwned(m.pos_), n.pos_)) = vct_pos_View(n.pos_)
      BY <3>1, PosMergeNew
    <3>3. QED
      BY <1>2, <2>2, <3>1, <3>2 DEF ValueNMergeShows, PosShown
  <2>3. CASE 0 \notin n.has
    <3>1. PosShown(m.pos_) = vct_pos_View(vct_pos_New)
      BY <1>3 DEF PosShown, PosOwned
    <3>2. QED
      BY <1>2, <2>1, <2>3, <3>1 DEF ValueNMergeShows, PosCell
  <2>4. QED
    BY <2>2, <2>3
<1>6. a.a_ = n.a_
  BY <1>2, <1>3 DEF ValueNMergeShows, IsValueN, IntCell
<1>7. a.b_ = n.b_
  BY <1>2, <1>3 DEF ValueNMergeShows, IsValueN, IntCell
<1>8. a.commit_ = n.commit_
  BY <1>2, <1>3 DEF ValueNMergeShows, IsValueN, BoolCell
<1>9. ValueNAlike(a, n)
  BY <1>4, <1>5, <1>6, <1>7, <1>8 DEF ValueNAlike
<1>10. QED
  BY <1>1, <1>9, ValueNSame

\* Copied elements show the same.
LEMMA ElementsAre ==
  ASSUME NEW h \in Seq(ValueNMessages)
  PROVE  Elements(h) \in Seq(ValueNMessages) /\ ValueNViews(Elements(h)) = ValueNViews(h)
<1>1. PICK k \in Nat : k = Len(h)
  BY LenProperties
<1>2. \A i \in 1 .. k : h[i] \in ValueNMessages
  BY <1>1, ElementOfSeq
<1>3. PICK e : e = [i \in 1 .. k |-> vct_value_n_MergeFrom(vct_value_n_New, h[i])]
  OBVIOUS
<1>4. \A i \in 1 .. k : e[i] \in ValueNMessages /\
        vct_value_n_View(e[i]) = vct_value_n_View(h[i])
  BY <1>2, <1>3, ValueNNew, ValueNMerge, ValueNMergeNew
<1>5. e \in Seq(ValueNMessages) /\ Len(e) = k
  BY <1>3, <1>4
<1>6. Elements(h) = e
  BY <1>1, <1>3 DEF Elements, ForEach
<1>7. ValueNViews(e) = ValueNViews(h)
  BY <1>1, <1>4, <1>5, ValueNViewsSame
<1>8. QED
  BY <1>5, <1>6, <1>7

\* Merging, field by field.
ValueMerged(p, m, n) ==
  /\ HasFields(p, ValueFields)
  /\ p.has = m.has \cup n.has /\ p.unk = m.unk \o n.unk /\ p.size = m.size
  /\ p.key_ = IF 0 \in n.has THEN n.key_ ELSE m.key_
  /\ p.main_ = IF 1 \in n.has THEN
       vct_value_n_MergeFrom(ValueNOwned(m.main_), n.main_) ELSE m.main_
  /\ p.his_ = m.his_ \o Elements(n.his_)
  /\ p.commit_count_ = IF 2 \in n.has THEN n.commit_count_ ELSE m.commit_count_

\* The class, field by field.
LEMMA ValueMergeIs ==
  ASSUME NEW m \in ValueMessages, NEW n \in ValueMessages
  PROVE  ValueMerged(vct_value_MergeFrom(m, n), m, n)
<1>1. IsValue(m) /\ IsValue(n) /\ HasFields(m, ValueFields)
  BY ValueIs DEF IsValue
<1>2. PICK p : p = vct_value_MergeFrom(m, n)
  OBVIOUS
<1>3. /\ HasFields(p, ValueFields)
      /\ p.has = m.has \cup n.has /\ p.unk = m.unk \o n.unk /\ p.size = m.size
      /\ p.key_ = TakenString(m, n, 0, "key_")
      /\ p.main_ = IF 1 \in n.has
                   THEN vct_value_n_MergeFrom(Mutable(m, 1, "main_", vct_value_n_New).main_,
                       n.main_) ELSE m.main_
      /\ p.his_ = m.his_ \o Elements(n.his_)
      /\ p.commit_count_ = Taken(m, n, 2, "commit_count_")
  BY <1>1, <1>2 DEF vct_value_MergeFrom, HasFields, ValueFields
<1>4. /\ p.commit_count_ = IF 2 \in n.has THEN n.commit_count_ ELSE m.commit_count_
  BY <1>3 DEF Taken
<1>5. p.key_ = IF 0 \in n.has THEN n.key_ ELSE m.key_
  <2>1. 0 \in n.has => n.key_ \in Strings
    BY <1>1 DEF IsValue, StringCell
  <2>2. QED
    BY <1>3, <2>1, TextIs DEF TakenString
<1>6. Mutable(m, 1, "main_", vct_value_n_New).main_ = ValueNOwned(m.main_)
  BY <1>1 DEF Mutable, Put, HasFields, ValueFields, ValueNOwned
<1>7. QED
  BY <1>2, <1>3, <1>4, <1>5, <1>6 DEF ValueMerged

\* What a merged message shows.
ValueMergeShows(p, m, n) ==
  /\ p.has = m.has \cup n.has
  /\ p.unk = m.unk \o n.unk
  /\ Text(p.key_) = IF 0 \in n.has THEN Text(n.key_) ELSE Text(m.key_)
  /\ ValueNShown(p.main_) = IF 1 \in n.has THEN
       vct_value_n_View(vct_value_n_MergeFrom(ValueNOwned(m.main_), n.main_))
       ELSE ValueNShown(m.main_)
  /\ ValueNViews(p.his_) = ValueNViews(m.his_) \o ValueNViews(n.his_)
  /\ p.commit_count_ = IF 2 \in n.has THEN n.commit_count_ ELSE m.commit_count_

\* The merged message is one of the class.
LEMMA ValueMerge ==
  ASSUME NEW m \in ValueMessages, NEW n \in ValueMessages, NEW p, p = vct_value_MergeFrom(m, n)
  PROVE  p \in ValueMessages /\ ValueMergeShows(p, m, n)
<1>1. IsValue(m) /\ IsValue(n) /\ ValueMerged(p, m, n)
  BY ValueIs, ValueMergeIs
<1>2. /\ HasFields(p, ValueFields)
      /\ p.has = m.has \cup n.has /\ p.unk = m.unk \o n.unk /\ p.size = m.size
      /\ p.key_ = IF 0 \in n.has THEN n.key_ ELSE m.key_
      /\ p.main_ = IF 1 \in n.has THEN
           vct_value_n_MergeFrom(ValueNOwned(m.main_), n.main_) ELSE m.main_
      /\ p.his_ = m.his_ \o Elements(n.his_)
      /\ p.commit_count_ = IF 2 \in n.has THEN n.commit_count_ ELSE m.commit_count_
  BY <1>1 DEF ValueMerged
<1>3. p.has \in SUBSET (0 .. 2) /\ p.unk \in Seq(ValueUnknown) /\ p.size \in Nat
  BY <1>1, <1>2, ConcatProperties DEF IsValue
<1>4. StringCell(p.has, 0, p.key_)
  BY <1>1, <1>2 DEF IsValue, StringCell
<1>5. /\ ValueNCell(p.has, 1, p.main_)
      /\ 1 \in n.has => p.main_ \in ValueNMessages /\
           ValueNShown(p.main_) = vct_value_n_View(p.main_)
  <2>1. ValueNCell(m.has, 1, m.main_) /\ ValueNCell(n.has, 1, n.main_)
    BY <1>1 DEF IsValue
  <2>2. CASE 1 \in n.has
    <3>1. ValueNOwned(m.main_) \in ValueNMessages /\ n.main_ \in ValueNMessages
      BY <2>1, <2>2, ValueNIsOwned
    <3>2. p.main_ \in ValueNMessages
      BY <1>2, <2>2, <3>1, ValueNMerge
    <3>3. 1 \in p.has
      BY <1>2, <2>2
    <3>4. ValueNCell(p.has, 1, p.main_)
      BY <3>2, <3>3, ValueNCells
    <3>5. QED
      BY <3>2, <3>4, ClassesAssumption DEF ValueNShown, ValueNOwned
  <2>3. CASE 1 \notin n.has
    <3>1. p.main_ = m.main_ /\ (1 \in p.has <=> 1 \in m.has)
      BY <1>2, <2>3
    <3>2. QED
      BY <2>1, <2>3, <3>1, ValueNCells
  <2>4. QED
    BY <2>2, <2>3
<1>6. p.his_ \in Seq(ValueNMessages) /\ ValueNViews(p.his_) = ValueNViews(m.his_) \o
        ValueNViews(n.his_)
  <2>1. m.his_ \in Seq(ValueNMessages) /\ n.his_ \in Seq(ValueNMessages)
    BY <1>1 DEF IsValue
  <2>2. PICK e : e = Elements(n.his_)
    OBVIOUS
  <2>3. e \in Seq(ValueNMessages) /\ ValueNViews(e) = ValueNViews(n.his_)
    BY <2>1, <2>2, ElementsAre
  <2>4. p.his_ = m.his_ \o e
    BY <1>2, <2>2
  <2>5. ValueNViewsJoined(m.his_, e, p.his_)
    BY <2>1, <2>3, <2>4, ValueNViewsIs
  <2>6. p.his_ \in Seq(ValueNMessages)
    BY <2>1, <2>3, <2>4, ConcatProperties
  <2>7. QED
    BY <2>3, <2>5, <2>6 DEF ValueNViewsJoined
<1>7. IntCell(p.has, 2, p.commit_count_)
  BY <1>1, <1>2 DEF IsValue, IntCell
<1>8. p \in ValueMessages
  BY <1>2, <1>3, <1>4, <1>5, <1>6, <1>7, ValueIs DEF IsValue
<1>9. QED
  BY <1>2, <1>8, <1>5, <1>6 DEF ValueMergeShows

\* What is merged into what decides what it shows.
LEMMA ValueMergeSame ==
  ASSUME NEW m \in ValueMessages, NEW n \in ValueMessages, NEW x \in ValueMessages,
           NEW y \in ValueMessages,
         vct_value_View(m) = vct_value_View(x), vct_value_View(n) = vct_value_View(y)
  PROVE  vct_value_View(vct_value_MergeFrom(m, n)) = vct_value_View(vct_value_MergeFrom(x, y))
<1>1. PICK a, b : a = vct_value_MergeFrom(m, n) /\ b = vct_value_MergeFrom(x, y)
  OBVIOUS
<1>2. ValueMergeShows(a, m, n) /\ ValueMergeShows(b, x, y)
  BY <1>1, ValueMerge
<1>3. ValueAlike(m, x) /\ ValueAlike(n, y)
  BY ValueSame
<1>4. a.has = b.has /\ a.unk = b.unk
  BY <1>2, <1>3 DEF ValueMergeShows, ValueAlike
<1>5. Text(a.key_) = Text(b.key_)
  BY <1>2, <1>3 DEF ValueMergeShows, ValueAlike
<1>6. ValueNShown(a.main_) = ValueNShown(b.main_)
  <2>1. /\ ValueNCell(m.has, 1, m.main_) /\ ValueNCell(n.has, 1, n.main_)
        /\ ValueNCell(x.has, 1, x.main_) /\ ValueNCell(y.has, 1, y.main_)
    BY ValueIs DEF IsValue
  <2>2. /\ n.has = y.has /\ ValueNShown(m.main_) = ValueNShown(x.main_)
        /\ ValueNShown(n.main_) = ValueNShown(y.main_)
    BY <1>3 DEF ValueAlike
  <2>3. CASE 1 \in n.has
    <3>1. PICK i, j, u, v : i = ValueNOwned(m.main_) /\ u = n.main_ /\
            j = ValueNOwned(x.main_) /\ v = y.main_
      OBVIOUS
    <3>2. /\ i \in ValueNMessages /\ u \in ValueNMessages /\ j \in ValueNMessages /\
               v \in ValueNMessages
          /\ ValueNOwned(u) = u /\ ValueNOwned(v) = v
      BY <2>1, <2>2, <2>3, <3>1, ValueNIsOwned
    <3>3. vct_value_n_View(i) = vct_value_n_View(j) /\ vct_value_n_View(u) = vct_value_n_View(v)
      BY <2>2, <3>1, <3>2 DEF ValueNShown
    <3>4. vct_value_n_View(vct_value_n_MergeFrom(i, u)) =
            vct_value_n_View(vct_value_n_MergeFrom(j, v))
      BY <3>2, <3>3, ValueNMergeSame
    <3>5. QED
      BY <1>2, <2>2, <2>3, <3>1, <3>4 DEF ValueMergeShows
  <2>4. CASE 1 \notin n.has
    BY <1>2, <2>2, <2>4 DEF ValueMergeShows
  <2>5. QED
    BY <2>3, <2>4
<1>7. ValueNViews(a.his_) = ValueNViews(b.his_)
  BY <1>2, <1>3 DEF ValueMergeShows, ValueAlike
<1>8. a.commit_count_ = b.commit_count_
  BY <1>2, <1>3 DEF ValueMergeShows, ValueAlike
<1>9. ValueAlike(a, b)
  BY <1>4, <1>5, <1>6, <1>7, <1>8 DEF ValueAlike
<1>10. QED
  BY <1>1, <1>9, ValueSame

\* Merging into a new message makes the message again.
LEMMA ValueMergeNew ==
  ASSUME NEW n \in ValueMessages
  PROVE  vct_value_View(vct_value_MergeFrom(vct_value_New, n)) = vct_value_View(n)
<1>1. PICK m, a : m = vct_value_New /\ a = vct_value_MergeFrom(m, n)
  OBVIOUS
<1>2. IsValue(n) /\ ValueMergeShows(a, m, n)
  BY <1>1, ValueNew, ValueIs, ValueMerge
<1>3. /\ m.has = {} /\ m.unk = <<>> /\ m.key_ = Shared /\ m.main_ = Null
      /\ m.his_ = <<>> /\ m.commit_count_ = 0
  BY <1>1 DEF vct_value_New
<1>4. a.has = n.has /\ a.unk = n.unk
  BY <1>2, <1>3, ConcatEmptySeq DEF ValueMergeShows, IsValue
<1>5. Text(a.key_) = Text(n.key_)
  BY <1>2, <1>3, TextIs DEF ValueMergeShows, IsValue, StringCell, Text
<1>6. ValueNShown(a.main_) = ValueNShown(n.main_)
  <2>1. ValueNCell(n.has, 1, n.main_)
    BY <1>2 DEF IsValue
  <2>2. CASE 1 \in n.has
    <3>1. n.main_ \in ValueNMessages /\ ValueNOwned(n.main_) = n.main_ /\
            ValueNOwned(m.main_) = vct_value_n_New
      BY <1>3, <2>1, <2>2, ValueNIsOwned DEF ValueNOwned
    <3>2. vct_value_n_View(vct_value_n_MergeFrom(ValueNOwned(m.main_), n.main_)) =
            vct_value_n_View(n.main_)
      BY <3>1, ValueNMergeNew
    <3>3. QED
      BY <1>2, <2>2, <3>1, <3>2 DEF ValueMergeShows, ValueNShown
  <2>3. CASE 1 \notin n.has
    <3>1. ValueNShown(m.main_) = vct_value_n_View(vct_value_n_New)
      BY <1>3 DEF ValueNShown, ValueNOwned
    <3>2. QED
      BY <1>2, <2>1, <2>3, <3>1 DEF ValueMergeShows, ValueNCell
  <2>4. QED
    BY <2>2, <2>3
<1>7. ValueNViews(a.his_) = ValueNViews(n.his_)
  <2>1. n.his_ \in Seq(ValueNMessages) /\ m.his_ \in Seq(ValueNMessages) /\
          n.his_ = m.his_ \o n.his_
    BY <1>2, <1>3, EmptySeq, ConcatEmptySeq DEF IsValue
  <2>2. ValueNViewsJoined(m.his_, n.his_, n.his_)
    BY <2>1, ValueNViewsIs
  <2>3. QED
    BY <1>2, <2>2 DEF ValueMergeShows, ValueNViewsJoined
<1>8. a.commit_count_ = n.commit_count_
  BY <1>2, <1>3 DEF ValueMergeShows, IsValue, IntCell
<1>9. ValueAlike(a, n)
  BY <1>4, <1>5, <1>6, <1>7, <1>8 DEF ValueAlike
<1>10. QED
  BY <1>1, <1>9, ValueSame

\* Merging, field by field.
KeytableMerged(p, m, n) ==
  /\ HasFields(p, KeytableFields)
  /\ p.has = m.has \cup n.has /\ p.unk = m.unk \o n.unk /\ p.size = m.size
  /\ p.field_ = IF 0 \in n.has THEN n.field_ ELSE m.field_
  /\ p.route_table_ = IF 1 \in n.has THEN n.route_table_ ELSE m.route_table_
  /\ p.route_table_field_ = IF 2 \in n.has THEN n.route_table_field_ ELSE m.route_table_field_

\* The class, field by field.
LEMMA KeytableMergeIs ==
  ASSUME NEW m \in KeytableMessages, NEW n \in KeytableMessages
  PROVE  KeytableMerged(keytable_value_MergeFrom(m, n), m, n)
<1>1. IsKeytable(m) /\ IsKeytable(n) /\ HasFields(m, KeytableFields)
  BY KeytableIs DEF IsKeytable
<1>2. PICK p : p = keytable_value_MergeFrom(m, n)
  OBVIOUS
<1>3. /\ HasFields(p, KeytableFields)
      /\ p.has = m.has \cup n.has /\ p.unk = m.unk \o n.unk /\ p.size = m.size
      /\ p.field_ = TakenString(m, n, 0, "field_")
      /\ p.route_table_ = TakenString(m, n, 1, "route_table_")
      /\ p.route_table_field_ = TakenString(m, n, 2, "route_table_field_")
  BY <1>1, <1>2 DEF keytable_value_MergeFrom, HasFields, KeytableFields
<1>4. p.field_ = IF 0 \in n.has THEN n.field_ ELSE m.field_
  <2>1. 0 \in n.has => n.field_ \in Strings
    BY <1>1 DEF IsKeytable, StringCell
  <2>2. QED
    BY <1>3, <2>1, TextIs DEF TakenString
<1>5. p.route_table_ = IF 1 \in n.has THEN n.route_table_ ELSE m.route_table_
  <2>1. 1 \in n.has => n.route_table_ \in Strings
    BY <1>1 DEF IsKeytable, StringCell
  <2>2. QED
    BY <1>3, <2>1, TextIs DEF TakenString
<1>6. p.route_table_field_ = IF 2 \in n.has THEN n.route_table_field_ ELSE m.route_table_field_
  <2>1. 2 \in n.has => n.route_table_field_ \in Strings
    BY <1>1 DEF IsKeytable, StringCell
  <2>2. QED
    BY <1>3, <2>1, TextIs DEF TakenString
<1>7. QED
  BY <1>2, <1>3, <1>4, <1>5, <1>6 DEF KeytableMerged

\* What a merged message shows.
KeytableMergeShows(p, m, n) ==
  /\ p.has = m.has \cup n.has
  /\ p.unk = m.unk \o n.unk
  /\ Text(p.field_) = IF 0 \in n.has THEN Text(n.field_) ELSE Text(m.field_)
  /\ Text(p.route_table_) = IF 1 \in n.has THEN Text(n.route_table_) ELSE Text(m.route_table_)
  /\ Text(p.route_table_field_) = IF 2 \in n.has THEN
       Text(n.route_table_field_) ELSE Text(m.route_table_field_)

\* The merged message is one of the class.
LEMMA KeytableMerge ==
  ASSUME NEW m \in KeytableMessages, NEW n \in KeytableMessages, NEW p, p =
           keytable_value_MergeFrom(m, n)
  PROVE  p \in KeytableMessages /\ KeytableMergeShows(p, m, n)
<1>1. IsKeytable(m) /\ IsKeytable(n) /\ KeytableMerged(p, m, n)
  BY KeytableIs, KeytableMergeIs
<1>2. /\ HasFields(p, KeytableFields)
      /\ p.has = m.has \cup n.has /\ p.unk = m.unk \o n.unk /\ p.size = m.size
      /\ p.field_ = IF 0 \in n.has THEN n.field_ ELSE m.field_
      /\ p.route_table_ = IF 1 \in n.has THEN n.route_table_ ELSE m.route_table_
      /\ p.route_table_field_ = IF 2 \in n.has THEN
           n.route_table_field_ ELSE m.route_table_field_
  BY <1>1 DEF KeytableMerged
<1>3. p.has \in SUBSET (0 .. 2) /\ p.unk \in Seq(KeytableUnknown) /\ p.size \in Nat
  BY <1>1, <1>2, ConcatProperties DEF IsKeytable
<1>4. StringCell(p.has, 0, p.field_)
  BY <1>1, <1>2 DEF IsKeytable, StringCell
<1>5. StringCell(p.has, 1, p.route_table_)
  BY <1>1, <1>2 DEF IsKeytable, StringCell
<1>6. StringCell(p.has, 2, p.route_table_field_)
  BY <1>1, <1>2 DEF IsKeytable, StringCell
<1>7. p \in KeytableMessages
  BY <1>2, <1>3, <1>4, <1>5, <1>6, KeytableIs DEF IsKeytable
<1>8. QED
  BY <1>2, <1>7 DEF KeytableMergeShows

\* What is merged into what decides what it shows.
LEMMA KeytableMergeSame ==
  ASSUME NEW m \in KeytableMessages, NEW n \in KeytableMessages, NEW x \in KeytableMessages,
           NEW y \in KeytableMessages,
         keytable_value_View(m) = keytable_value_View(x), keytable_value_View(n) =
             keytable_value_View(y)
  PROVE  keytable_value_View(keytable_value_MergeFrom(m, n)) =
           keytable_value_View(keytable_value_MergeFrom(x, y))
<1>1. PICK a, b : a = keytable_value_MergeFrom(m, n) /\ b = keytable_value_MergeFrom(x, y)
  OBVIOUS
<1>2. KeytableMergeShows(a, m, n) /\ KeytableMergeShows(b, x, y)
  BY <1>1, KeytableMerge
<1>3. KeytableAlike(m, x) /\ KeytableAlike(n, y)
  BY KeytableSame
<1>4. a.has = b.has /\ a.unk = b.unk
  BY <1>2, <1>3 DEF KeytableMergeShows, KeytableAlike
<1>5. Text(a.field_) = Text(b.field_)
  BY <1>2, <1>3 DEF KeytableMergeShows, KeytableAlike
<1>6. Text(a.route_table_) = Text(b.route_table_)
  BY <1>2, <1>3 DEF KeytableMergeShows, KeytableAlike
<1>7. Text(a.route_table_field_) = Text(b.route_table_field_)
  BY <1>2, <1>3 DEF KeytableMergeShows, KeytableAlike
<1>8. KeytableAlike(a, b)
  BY <1>4, <1>5, <1>6, <1>7 DEF KeytableAlike
<1>9. QED
  BY <1>1, <1>8, KeytableSame

\* Merging into a new message makes the message again.
LEMMA KeytableMergeNew ==
  ASSUME NEW n \in KeytableMessages
  PROVE  keytable_value_View(keytable_value_MergeFrom(keytable_value_New, n)) =
           keytable_value_View(n)
<1>1. PICK m, a : m = keytable_value_New /\ a = keytable_value_MergeFrom(m, n)
  OBVIOUS
<1>2. IsKeytable(n) /\ KeytableMergeShows(a, m, n)
  BY <1>1, KeytableNew, KeytableIs, KeytableMerge
<1>3. /\ m.has = {} /\ m.unk = <<>> /\ m.field_ = Shared /\ m.route_table_ = Shared
      /\ m.route_table_field_ = Shared
  BY <1>1 DEF keytable_value_New
<1>4. a.has = n.has /\ a.unk = n.unk
  BY <1>2, <1>3, ConcatEmptySeq DEF KeytableMergeShows, IsKeytable
<1>5. Text(a.field_) = Text(n.field_)
  BY <1>2, <1>3, TextIs DEF KeytableMergeShows, IsKeytable, StringCell, Text
<1>6. Text(a.route_table_) = Text(n.route_table_)
  BY <1>2, <1>3, TextIs DEF KeytableMergeShows, IsKeytable, StringCell, Text
<1>7. Text(a.route_table_field_) = Text(n.route_table_field_)
  BY <1>2, <1>3, TextIs DEF KeytableMergeShows, IsKeytable, StringCell, Text
<1>8. KeytableAlike(a, n)
  BY <1>4, <1>5, <1>6, <1>7 DEF KeytableAlike
<1>9. QED
  BY <1>1, <1>8, KeytableSame

\* Merging, field by field.
ColMerged(p, m, n) ==
  /\ HasFields(p, ColFields)
  /\ p.has = m.has \cup n.has /\ p.unk = m.unk \o n.unk /\ p.size = m.size
  /\ p.name_ = IF 0 \in n.has THEN n.name_ ELSE m.name_
  /\ p.value_ = IF 1 \in n.has THEN n.value_ ELSE m.value_

\* The class, field by field.
LEMMA ColMergeIs ==
  ASSUME NEW m \in ColMessages, NEW n \in ColMessages
  PROVE  ColMerged(route_value_col_MergeFrom(m, n), m, n)
<1>1. IsCol(m) /\ IsCol(n) /\ HasFields(m, ColFields)
  BY ColIs DEF IsCol
<1>2. PICK p : p = route_value_col_MergeFrom(m, n)
  OBVIOUS
<1>3. /\ HasFields(p, ColFields)
      /\ p.has = m.has \cup n.has /\ p.unk = m.unk \o n.unk /\ p.size = m.size
      /\ p.name_ = TakenString(m, n, 0, "name_")
      /\ p.value_ = TakenString(m, n, 1, "value_")
  BY <1>1, <1>2 DEF route_value_col_MergeFrom, HasFields, ColFields
<1>4. p.name_ = IF 0 \in n.has THEN n.name_ ELSE m.name_
  <2>1. 0 \in n.has => n.name_ \in Strings
    BY <1>1 DEF IsCol, StringCell
  <2>2. QED
    BY <1>3, <2>1, TextIs DEF TakenString
<1>5. p.value_ = IF 1 \in n.has THEN n.value_ ELSE m.value_
  <2>1. 1 \in n.has => n.value_ \in Strings
    BY <1>1 DEF IsCol, StringCell
  <2>2. QED
    BY <1>3, <2>1, TextIs DEF TakenString
<1>6. QED
  BY <1>2, <1>3, <1>4, <1>5 DEF ColMerged

\* What a merged message shows.
ColMergeShows(p, m, n) ==
  /\ p.has = m.has \cup n.has
  /\ p.unk = m.unk \o n.unk
  /\ Text(p.name_) = IF 0 \in n.has THEN Text(n.name_) ELSE Text(m.name_)
  /\ Text(p.value_) = IF 1 \in n.has THEN Text(n.value_) ELSE Text(m.value_)

\* The merged message is one of the class.
LEMMA ColMerge ==
  ASSUME NEW m \in ColMessages, NEW n \in ColMessages, NEW p, p =
           route_value_col_MergeFrom(m, n)
  PROVE  p \in ColMessages /\ ColMergeShows(p, m, n)
<1>1. IsCol(m) /\ IsCol(n) /\ ColMerged(p, m, n)
  BY ColIs, ColMergeIs
<1>2. /\ HasFields(p, ColFields)
      /\ p.has = m.has \cup n.has /\ p.unk = m.unk \o n.unk /\ p.size = m.size
      /\ p.name_ = IF 0 \in n.has THEN n.name_ ELSE m.name_
      /\ p.value_ = IF 1 \in n.has THEN n.value_ ELSE m.value_
  BY <1>1 DEF ColMerged
<1>3. p.has \in SUBSET (0 .. 1) /\ p.unk \in Seq(ColUnknown) /\ p.size \in Nat
  BY <1>1, <1>2, ConcatProperties DEF IsCol
<1>4. StringCell(p.has, 0, p.name_)
  BY <1>1, <1>2 DEF IsCol, StringCell
<1>5. StringCell(p.has, 1, p.value_)
  BY <1>1, <1>2 DEF IsCol, StringCell
<1>6. p \in ColMessages
  BY <1>2, <1>3, <1>4, <1>5, ColIs DEF IsCol
<1>7. QED
  BY <1>2, <1>6 DEF ColMergeShows

\* What is merged into what decides what it shows.
LEMMA ColMergeSame ==
  ASSUME NEW m \in ColMessages, NEW n \in ColMessages, NEW x \in ColMessages,
           NEW y \in ColMessages,
         route_value_col_View(m) = route_value_col_View(x), route_value_col_View(n) =
             route_value_col_View(y)
  PROVE  route_value_col_View(route_value_col_MergeFrom(m, n)) =
           route_value_col_View(route_value_col_MergeFrom(x, y))
<1>1. PICK a, b : a = route_value_col_MergeFrom(m, n) /\ b = route_value_col_MergeFrom(x, y)
  OBVIOUS
<1>2. ColMergeShows(a, m, n) /\ ColMergeShows(b, x, y)
  BY <1>1, ColMerge
<1>3. ColAlike(m, x) /\ ColAlike(n, y)
  BY ColSame
<1>4. a.has = b.has /\ a.unk = b.unk
  BY <1>2, <1>3 DEF ColMergeShows, ColAlike
<1>5. Text(a.name_) = Text(b.name_)
  BY <1>2, <1>3 DEF ColMergeShows, ColAlike
<1>6. Text(a.value_) = Text(b.value_)
  BY <1>2, <1>3 DEF ColMergeShows, ColAlike
<1>7. ColAlike(a, b)
  BY <1>4, <1>5, <1>6 DEF ColAlike
<1>8. QED
  BY <1>1, <1>7, ColSame

\* Merging into a new message makes the message again.
LEMMA ColMergeNew ==
  ASSUME NEW n \in ColMessages
  PROVE  route_value_col_View(route_value_col_MergeFrom(route_value_col_New, n)) =
           route_value_col_View(n)
<1>1. PICK m, a : m = route_value_col_New /\ a = route_value_col_MergeFrom(m, n)
  OBVIOUS
<1>2. IsCol(n) /\ ColMergeShows(a, m, n)
  BY <1>1, ColNew, ColIs, ColMerge
<1>3. /\ m.has = {} /\ m.unk = <<>> /\ m.name_ = Shared /\ m.value_ = Shared
  BY <1>1 DEF route_value_col_New
<1>4. a.has = n.has /\ a.unk = n.unk
  BY <1>2, <1>3, ConcatEmptySeq DEF ColMergeShows, IsCol
<1>5. Text(a.name_) = Text(n.name_)
  BY <1>2, <1>3, TextIs DEF ColMergeShows, IsCol, StringCell, Text
<1>6. Text(a.value_) = Text(n.value_)
  BY <1>2, <1>3, TextIs DEF ColMergeShows, IsCol, StringCell, Text
<1>7. ColAlike(a, n)
  BY <1>4, <1>5, <1>6 DEF ColAlike
<1>8. QED
  BY <1>1, <1>7, ColSame

\* Copied elements show the same.
LEMMA ColumnsAre ==
  ASSUME NEW h \in Seq(ColMessages)
  PROVE  Columns(h) \in Seq(ColMessages) /\ ColViews(Columns(h)) = ColViews(h)
<1>1. PICK k \in Nat : k = Len(h)
  BY LenProperties
<1>2. \A i \in 1 .. k : h[i] \in ColMessages
  BY <1>1, ElementOfSeq
<1>3. PICK e : e = [i \in 1 .. k |-> route_value_col_MergeFrom(route_value_col_New, h[i])]
  OBVIOUS
<1>4. \A i \in 1 .. k : e[i] \in ColMessages /\
        route_value_col_View(e[i]) = route_value_col_View(h[i])
  BY <1>2, <1>3, ColNew, ColMerge, ColMergeNew
<1>5. e \in Seq(ColMessages) /\ Len(e) = k
  BY <1>3, <1>4
<1>6. Columns(h) = e
  BY <1>1, <1>3 DEF Columns, ForEach
<1>7. ColViews(e) = ColViews(h)
  BY <1>1, <1>4, <1>5, ColViewsSame
<1>8. QED
  BY <1>5, <1>6, <1>7

\* Merging, field by field.
RouteMerged(p, m, n) ==
  /\ HasFields(p, RouteFields)
  /\ p.has = m.has \cup n.has /\ p.unk = m.unk \o n.unk /\ p.size = m.size
  /\ p.region_ = IF 0 \in n.has THEN n.region_ ELSE m.region_
  /\ p.area_ = IF 1 \in n.has THEN n.area_ ELSE m.area_
  /\ p.col_ = m.col_ \o Columns(n.col_)

\* The class, field by field.
LEMMA RouteMergeIs ==
  ASSUME NEW m \in RouteMessages, NEW n \in RouteMessages
  PROVE  RouteMerged(route_value_MergeFrom(m, n), m, n)
<1>1. IsRoute(m) /\ IsRoute(n) /\ HasFields(m, RouteFields)
  BY RouteIs DEF IsRoute
<1>2. PICK p : p = route_value_MergeFrom(m, n)
  OBVIOUS
<1>3. /\ HasFields(p, RouteFields)
      /\ p.has = m.has \cup n.has /\ p.unk = m.unk \o n.unk /\ p.size = m.size
      /\ p.region_ = TakenString(m, n, 0, "region_")
      /\ p.area_ = TakenString(m, n, 1, "area_")
      /\ p.col_ = m.col_ \o Columns(n.col_)
  BY <1>1, <1>2 DEF route_value_MergeFrom, HasFields, RouteFields
<1>4. p.region_ = IF 0 \in n.has THEN n.region_ ELSE m.region_
  <2>1. 0 \in n.has => n.region_ \in Strings
    BY <1>1 DEF IsRoute, StringCell
  <2>2. QED
    BY <1>3, <2>1, TextIs DEF TakenString
<1>5. p.area_ = IF 1 \in n.has THEN n.area_ ELSE m.area_
  <2>1. 1 \in n.has => n.area_ \in Strings
    BY <1>1 DEF IsRoute, StringCell
  <2>2. QED
    BY <1>3, <2>1, TextIs DEF TakenString
<1>6. QED
  BY <1>2, <1>3, <1>4, <1>5 DEF RouteMerged

\* What a merged message shows.
RouteMergeShows(p, m, n) ==
  /\ p.has = m.has \cup n.has
  /\ p.unk = m.unk \o n.unk
  /\ Text(p.region_) = IF 0 \in n.has THEN Text(n.region_) ELSE Text(m.region_)
  /\ Text(p.area_) = IF 1 \in n.has THEN Text(n.area_) ELSE Text(m.area_)
  /\ ColViews(p.col_) = ColViews(m.col_) \o ColViews(n.col_)

\* The merged message is one of the class.
LEMMA RouteMerge ==
  ASSUME NEW m \in RouteMessages, NEW n \in RouteMessages, NEW p, p =
           route_value_MergeFrom(m, n)
  PROVE  p \in RouteMessages /\ RouteMergeShows(p, m, n)
<1>1. IsRoute(m) /\ IsRoute(n) /\ RouteMerged(p, m, n)
  BY RouteIs, RouteMergeIs
<1>2. /\ HasFields(p, RouteFields)
      /\ p.has = m.has \cup n.has /\ p.unk = m.unk \o n.unk /\ p.size = m.size
      /\ p.region_ = IF 0 \in n.has THEN n.region_ ELSE m.region_
      /\ p.area_ = IF 1 \in n.has THEN n.area_ ELSE m.area_
      /\ p.col_ = m.col_ \o Columns(n.col_)
  BY <1>1 DEF RouteMerged
<1>3. p.has \in SUBSET (0 .. 1) /\ p.unk \in Seq(RouteUnknown) /\ p.size \in Nat
  BY <1>1, <1>2, ConcatProperties DEF IsRoute
<1>4. StringCell(p.has, 0, p.region_)
  BY <1>1, <1>2 DEF IsRoute, StringCell
<1>5. StringCell(p.has, 1, p.area_)
  BY <1>1, <1>2 DEF IsRoute, StringCell
<1>6. p.col_ \in Seq(ColMessages) /\ ColViews(p.col_) = ColViews(m.col_) \o ColViews(n.col_)
  <2>1. m.col_ \in Seq(ColMessages) /\ n.col_ \in Seq(ColMessages)
    BY <1>1 DEF IsRoute
  <2>2. PICK e : e = Columns(n.col_)
    OBVIOUS
  <2>3. e \in Seq(ColMessages) /\ ColViews(e) = ColViews(n.col_)
    BY <2>1, <2>2, ColumnsAre
  <2>4. p.col_ = m.col_ \o e
    BY <1>2, <2>2
  <2>5. ColViewsJoined(m.col_, e, p.col_)
    BY <2>1, <2>3, <2>4, ColViewsIs
  <2>6. p.col_ \in Seq(ColMessages)
    BY <2>1, <2>3, <2>4, ConcatProperties
  <2>7. QED
    BY <2>3, <2>5, <2>6 DEF ColViewsJoined
<1>7. p \in RouteMessages
  BY <1>2, <1>3, <1>4, <1>5, <1>6, RouteIs DEF IsRoute
<1>8. QED
  BY <1>2, <1>7, <1>6 DEF RouteMergeShows

\* What is merged into what decides what it shows.
LEMMA RouteMergeSame ==
  ASSUME NEW m \in RouteMessages, NEW n \in RouteMessages, NEW x \in RouteMessages,
           NEW y \in RouteMessages,
         route_value_View(m) = route_value_View(x), route_value_View(n) = route_value_View(y)
  PROVE  route_value_View(route_value_MergeFrom(m, n)) =
           route_value_View(route_value_MergeFrom(x, y))
<1>1. PICK a, b : a = route_value_MergeFrom(m, n) /\ b = route_value_MergeFrom(x, y)
  OBVIOUS
<1>2. RouteMergeShows(a, m, n) /\ RouteMergeShows(b, x, y)
  BY <1>1, RouteMerge
<1>3. RouteAlike(m, x) /\ RouteAlike(n, y)
  BY RouteSame
<1>4. a.has = b.has /\ a.unk = b.unk
  BY <1>2, <1>3 DEF RouteMergeShows, RouteAlike
<1>5. Text(a.region_) = Text(b.region_)
  BY <1>2, <1>3 DEF RouteMergeShows, RouteAlike
<1>6. Text(a.area_) = Text(b.area_)
  BY <1>2, <1>3 DEF RouteMergeShows, RouteAlike
<1>7. ColViews(a.col_) = ColViews(b.col_)
  BY <1>2, <1>3 DEF RouteMergeShows, RouteAlike
<1>8. RouteAlike(a, b)
  BY <1>4, <1>5, <1>6, <1>7 DEF RouteAlike
<1>9. QED
  BY <1>1, <1>8, RouteSame

\* Merging into a new message makes the message again.
LEMMA RouteMergeNew ==
  ASSUME NEW n \in RouteMessages
  PROVE  route_value_View(route_value_MergeFrom(route_value_New, n)) = route_value_View(n)
<1>1. PICK m, a : m = route_value_New /\ a = route_value_MergeFrom(m, n)
  OBVIOUS
<1>2. IsRoute(n) /\ RouteMergeShows(a, m, n)
  BY <1>1, RouteNew, RouteIs, RouteMerge
<1>3. /\ m.has = {} /\ m.unk = <<>> /\ m.region_ = Shared /\ m.area_ = Shared
      /\ m.col_ = <<>>
  BY <1>1 DEF route_value_New
<1>4. a.has = n.has /\ a.unk = n.unk
  BY <1>2, <1>3, ConcatEmptySeq DEF RouteMergeShows, IsRoute
<1>5. Text(a.region_) = Text(n.region_)
  BY <1>2, <1>3, TextIs DEF RouteMergeShows, IsRoute, StringCell, Text
<1>6. Text(a.area_) = Text(n.area_)
  BY <1>2, <1>3, TextIs DEF RouteMergeShows, IsRoute, StringCell, Text
<1>7. ColViews(a.col_) = ColViews(n.col_)
  <2>1. n.col_ \in Seq(ColMessages) /\ m.col_ \in Seq(ColMessages) /\ n.col_ = m.col_ \o n.col_
    BY <1>2, <1>3, EmptySeq, ConcatEmptySeq DEF IsRoute
  <2>2. ColViewsJoined(m.col_, n.col_, n.col_)
    BY <2>1, ColViewsIs
  <2>3. QED
    BY <1>2, <2>2 DEF RouteMergeShows, ColViewsJoined
<1>8. RouteAlike(a, n)
  BY <1>4, <1>5, <1>6, <1>7 DEF RouteAlike
<1>9. QED
  BY <1>1, <1>8, RouteSame

-----------------------------------------------------------------------------
(* Copying, and writing                                                      *)

\* A copy.
LEMMA PosCopy ==
  ASSUME NEW m \in PosMessages, NEW p, p = vct_pos_Copy(m)
  PROVE  p \in PosMessages /\ vct_pos_View(p) = vct_pos_View(m)
<1>1. IsPos(m) /\ HasFields(m, PosFields)
  BY PosIs DEF IsPos
<1>2. /\ HasFields(p, PosFields) /\ p.has = m.has /\ p.unk = m.unk /\ p.size = 0
      /\ p.posm_ = m.posm_
      /\ p.poss_ = m.poss_
  BY <1>1 DEF vct_pos_Copy, HasFields, PosFields
<1>3. p.has \in SUBSET (0 .. 1) /\ p.unk \in Seq(PosUnknown) /\ p.size \in Nat
  BY <1>1, <1>2 DEF IsPos
<1>4. IntCell(p.has, 0, p.posm_) /\ p.posm_ = m.posm_
  BY <1>1, <1>2 DEF IsPos, IntCell
<1>5. IntCell(p.has, 1, p.poss_) /\ p.poss_ = m.poss_
  BY <1>1, <1>2 DEF IsPos, IntCell
<1>6. p \in PosMessages
  BY <1>2, <1>3, <1>4, <1>5, PosIs DEF IsPos
<1>7. PosAlike(p, m)
  BY <1>2, <1>4, <1>5 DEF PosAlike
<1>8. QED
  BY <1>6, <1>7, PosSame

\* What a message writes for each field.
PosWire_posm(m) == Token(m, 0, WriteInt64(1, m.posm_))
PosWire_poss(m) == Token(m, 1, WriteInt64(2, m.poss_))

\* Every part is made of tokens of the class.
LEMMA PosWrites ==
  ASSUME NEW m \in PosMessages
  PROVE  /\ PosWire_posm(m) \in Seq(PosTokens)
         /\ TokensOf(PosWire_posm(m)) = IF 0 \in m.has THEN {WriteInt64(1, m.posm_)} ELSE {}
         /\ 0 \in m.has => WriteInt64(1, m.posm_) \in PosTokens
         /\ PosWire_poss(m) \in Seq(PosTokens)
         /\ TokensOf(PosWire_poss(m)) = IF 1 \in m.has THEN {WriteInt64(2, m.poss_)} ELSE {}
         /\ 1 \in m.has => WriteInt64(2, m.poss_) \in PosTokens
         /\ m.unk \in Seq(PosTokens)
<1>1. IsPos(m)
  BY PosIs
<1>2. PICK bodies : bodies = {<<>>} /\ <<>> \in bodies /\ PosTokens = Tokens({}, {}, bodies)
  BY EmptySeq DEF PosTokens
<1>3. 0 \in m.has => WriteInt64(1, m.posm_) \in PosTokens
  <2>1. 0 \in m.has => m.posm_ \in Int
    BY <1>1 DEF IsPos, IntCell
  <2>2. QED
    BY <1>2, <2>1, Written
<1>4. /\ PosWire_posm(m) \in Seq(PosTokens)
      /\ TokensOf(PosWire_posm(m)) = IF 0 \in m.has THEN {WriteInt64(1, m.posm_)} ELSE {}
  <2>1. PICK t : t = WriteInt64(1, m.posm_)
    OBVIOUS
  <2>2. 0 \in m.has => t \in PosTokens
    BY <1>3, <2>1
  <2>3. QED
    BY <2>1, <2>2, TokenIs DEF PosWire_posm
<1>5. 1 \in m.has => WriteInt64(2, m.poss_) \in PosTokens
  <2>1. 1 \in m.has => m.poss_ \in Int
    BY <1>1 DEF IsPos, IntCell
  <2>2. QED
    BY <1>2, <2>1, Written
<1>6. /\ PosWire_poss(m) \in Seq(PosTokens)
      /\ TokensOf(PosWire_poss(m)) = IF 1 \in m.has THEN {WriteInt64(2, m.poss_)} ELSE {}
  <2>1. PICK t : t = WriteInt64(2, m.poss_)
    OBVIOUS
  <2>2. 1 \in m.has => t \in PosTokens
    BY <1>5, <2>1
  <2>3. QED
    BY <2>1, <2>2, TokenIs DEF PosWire_poss
<1>7. m.unk \in Seq(PosTokens)
  <2>1. \A t \in PosUnknown : t \in PosTokens
    BY <1>2, UnknownTokens DEF PosUnknown
  <2>2. Seq(PosUnknown) \subseteq Seq(PosTokens)
    BY <2>1
  <2>3. QED
    BY <1>1, <2>2 DEF IsPos
<1>8. QED
  BY <1>3, <1>4, <1>5, <1>6, <1>7

\* The parts make up what is written.
LEMMA PosSerialize ==
  ASSUME NEW m \in PosMessages
  PROVE  /\ vct_pos_Serialize(m) = PosWire_posm(m) \o PosWire_poss(m) \o m.unk
         /\ vct_pos_Serialize(m) \in Seq(PosTokens) /\ TotalBytes(vct_pos_Serialize(m)) \in Nat
         /\ TokensOf(vct_pos_Serialize(m)) =
              TokensOf(PosWire_posm(m)) \cup TokensOf(PosWire_poss(m)) \cup TokensOf(m.unk)
         /\ TotalBytes(vct_pos_Serialize(m)) =
              TotalBytes(PosWire_posm(m)) + TotalBytes(PosWire_poss(m)) + TotalBytes(m.unk)
<1>1. PICK a, b, c : a = PosWire_posm(m) /\ b = PosWire_poss(m) /\ c = m.unk
  OBVIOUS
<1>2. a \in Seq(PosTokens) /\ b \in Seq(PosTokens) /\ c \in Seq(PosTokens)
  BY <1>1, PosWrites
<1>3. vct_pos_Serialize(m) = a \o b \o c
  BY <1>1 DEF vct_pos_Serialize, PosWire_posm, PosWire_poss
<1>4. Measured(PosTokens)
  BY TokenParts DEF Measured, PosTokens
<1>5. PICK s1 : s1 = a \o b
  OBVIOUS
<1>6. /\ s1 \in Seq(PosTokens) /\ TotalBytes(s1) = TotalBytes(a) + TotalBytes(b)
      /\ TokensOf(s1) = TokensOf(a) \cup TokensOf(b)
  <2>1. a \in Seq(PosTokens) /\ b \in Seq(PosTokens)
    BY <1>2
  <2>2. QED
    BY <1>4, <1>5, <2>1, TokensParts, BytesParts
<1>7. PICK s2 : s2 = s1 \o c
  OBVIOUS
<1>8. /\ s2 \in Seq(PosTokens) /\ TotalBytes(s2) = TotalBytes(s1) + TotalBytes(c)
      /\ TokensOf(s2) = TokensOf(s1) \cup TokensOf(c)
  <2>1. s1 \in Seq(PosTokens) /\ c \in Seq(PosTokens)
    BY <1>2, <1>6
  <2>2. QED
    BY <1>4, <1>7, <2>1, TokensParts, BytesParts
<1>9. vct_pos_Serialize(m) = s2
  BY <1>3, <1>5, <1>7
<1>10. TotalBytes(s2) = TotalBytes(a) + TotalBytes(b) + TotalBytes(c)
  BY <1>6, <1>8
<1>11. TokensOf(s2) = TokensOf(a) \cup TokensOf(b) \cup TokensOf(c)
  BY <1>6, <1>8
<1>12. TotalBytes(s2) \in Nat
  BY <1>4, <1>8, BytesParts
<1>13. QED
  BY <1>1, <1>3, <1>9, <1>8, <1>10, <1>11, <1>12

\* A copy.
LEMMA ValueNCopy ==
  ASSUME NEW m \in ValueNMessages, NEW p, p = vct_value_n_Copy(m)
  PROVE  p \in ValueNMessages /\ vct_value_n_View(p) = vct_value_n_View(m)
<1>1. IsValueN(m) /\ HasFields(m, ValueNFields)
  BY ValueNIs DEF IsValueN
<1>2. /\ HasFields(p, ValueNFields) /\ p.has = m.has /\ p.unk = m.unk /\ p.size = 0
      /\ p.pos_ = IF 0 \in m.has THEN vct_pos_Copy(m.pos_) ELSE Null
      /\ p.a_ = m.a_
      /\ p.b_ = m.b_
      /\ p.commit_ = m.commit_
  BY <1>1 DEF vct_value_n_Copy, HasFields, ValueNFields
<1>3. p.has \in SUBSET (0 .. 3) /\ p.unk \in Seq(ValueNUnknown) /\ p.size \in Nat
  BY <1>1, <1>2 DEF IsValueN
<1>4. PosCell(p.has, 0, p.pos_) /\ PosShown(p.pos_) = PosShown(m.pos_)
  <2>1. PosCell(m.has, 0, m.pos_)
    BY <1>1 DEF IsValueN
  <2>2. CASE 0 \in m.has
    <3>1. m.pos_ \in PosMessages /\ p.pos_ = vct_pos_Copy(m.pos_)
      BY <1>2, <2>1, <2>2, PosIsOwned
    <3>2. p.pos_ \in PosMessages /\ vct_pos_View(p.pos_) = vct_pos_View(m.pos_)
      BY <3>1, PosCopy
    <3>3. 0 \in p.has
      BY <1>2, <2>2
    <3>4. PosCell(p.has, 0, p.pos_)
      BY <3>2, <3>3, PosCells
    <3>5. QED
      BY <3>1, <3>2, <3>4, ClassesAssumption DEF PosShown, PosOwned
  <2>3. CASE 0 \notin m.has
    <3>1. p.pos_ = Null /\ 0 \notin p.has
      BY <1>2, <2>3
    <3>2. PosCell(p.has, 0, p.pos_)
      BY <3>1, PosCells
    <3>3. QED
      BY <2>1, <2>3, <3>1, <3>2 DEF PosCell
  <2>4. QED
    BY <2>2, <2>3
<1>5. IntCell(p.has, 1, p.a_) /\ p.a_ = m.a_
  BY <1>1, <1>2 DEF IsValueN, IntCell
<1>6. IntCell(p.has, 2, p.b_) /\ p.b_ = m.b_
  BY <1>1, <1>2 DEF IsValueN, IntCell
<1>7. BoolCell(p.has, 3, p.commit_) /\ p.commit_ = m.commit_
  BY <1>1, <1>2 DEF IsValueN, BoolCell
<1>8. p \in ValueNMessages
  BY <1>2, <1>3, <1>4, <1>5, <1>6, <1>7, ValueNIs DEF IsValueN
<1>9. ValueNAlike(p, m)
  BY <1>2, <1>4, <1>5, <1>6, <1>7 DEF ValueNAlike
<1>10. QED
  BY <1>8, <1>9, ValueNSame

\* What a message writes for each field.
ValueNWire_pos(m) == Token(m, 0, WriteMessage(1, m.pos_, vct_pos_Serialize(m.pos_)))
ValueNWire_a(m) == Token(m, 1, WriteInt64(2, m.a_))
ValueNWire_b(m) == Token(m, 2, WriteInt64(3, m.b_))
ValueNWire_commit(m) == Token(m, 3, WriteBool(5, m.commit_))

\* Every part is made of tokens of the class.
LEMMA ValueNWrites ==
  ASSUME NEW m \in ValueNMessages
  PROVE  /\ ValueNWire_pos(m) \in Seq(ValueNTokens)
         /\ TokensOf(ValueNWire_pos(m)) = IF 0 \in m.has THEN
              {WriteMessage(1, m.pos_, vct_pos_Serialize(m.pos_))} ELSE {}
         /\ 0 \in m.has => WriteMessage(1, m.pos_, vct_pos_Serialize(m.pos_)) \in ValueNTokens
         /\ ValueNWire_a(m) \in Seq(ValueNTokens)
         /\ TokensOf(ValueNWire_a(m)) = IF 1 \in m.has THEN {WriteInt64(2, m.a_)} ELSE {}
         /\ 1 \in m.has => WriteInt64(2, m.a_) \in ValueNTokens
         /\ ValueNWire_b(m) \in Seq(ValueNTokens)
         /\ TokensOf(ValueNWire_b(m)) = IF 2 \in m.has THEN {WriteInt64(3, m.b_)} ELSE {}
         /\ 2 \in m.has => WriteInt64(3, m.b_) \in ValueNTokens
         /\ ValueNWire_commit(m) \in Seq(ValueNTokens)
         /\ TokensOf(ValueNWire_commit(m)) = IF 3 \in m.has THEN
              {WriteBool(5, m.commit_)} ELSE {}
         /\ 3 \in m.has => WriteBool(5, m.commit_) \in ValueNTokens
         /\ m.unk \in Seq(ValueNTokens)
<1>1. IsValueN(m)
  BY ValueNIs
<1>2. PICK bodies : bodies = Seq(PosTokens) /\ <<>> \in bodies /\
        ValueNTokens = Tokens({}, {1}, bodies)
  BY EmptySeq DEF ValueNTokens
<1>3. ASSUME 0 \in m.has PROVE WriteMessage(1, m.pos_,
        vct_pos_Serialize(m.pos_)) \in ValueNTokens
  <2>1. PosCell(m.has, 0, m.pos_)
    BY <1>1 DEF IsValueN
  <2>2. m.pos_ \in PosMessages
    BY <1>3, <2>1, PosIsOwned
  <2>3. PICK w : w = vct_pos_Serialize(m.pos_)
    OBVIOUS
  <2>4. w \in bodies /\ TotalBytes(w) \in Nat /\ m.pos_.size \in Nat
    BY <1>2, <2>2, <2>3, PosSerialize, PosIs DEF IsPos
  <2>5. WriteMessage(1, m.pos_, w) \in Tokens({}, {1}, bodies)
    BY <2>4, WrittenMessage
  <2>6. QED
    BY <1>2, <2>3, <2>5
<1>4. /\ ValueNWire_pos(m) \in Seq(ValueNTokens)
      /\ TokensOf(ValueNWire_pos(m)) = IF 0 \in m.has THEN
           {WriteMessage(1, m.pos_, vct_pos_Serialize(m.pos_))} ELSE {}
  <2>1. PICK t : t = WriteMessage(1, m.pos_, vct_pos_Serialize(m.pos_))
    OBVIOUS
  <2>2. 0 \in m.has => t \in ValueNTokens
    BY <1>3, <2>1
  <2>3. QED
    BY <2>1, <2>2, TokenIs DEF ValueNWire_pos
<1>5. 1 \in m.has => WriteInt64(2, m.a_) \in ValueNTokens
  <2>1. 1 \in m.has => m.a_ \in Int
    BY <1>1 DEF IsValueN, IntCell
  <2>2. QED
    BY <1>2, <2>1, Written
<1>6. /\ ValueNWire_a(m) \in Seq(ValueNTokens)
      /\ TokensOf(ValueNWire_a(m)) = IF 1 \in m.has THEN {WriteInt64(2, m.a_)} ELSE {}
  <2>1. PICK t : t = WriteInt64(2, m.a_)
    OBVIOUS
  <2>2. 1 \in m.has => t \in ValueNTokens
    BY <1>5, <2>1
  <2>3. QED
    BY <2>1, <2>2, TokenIs DEF ValueNWire_a
<1>7. 2 \in m.has => WriteInt64(3, m.b_) \in ValueNTokens
  <2>1. 2 \in m.has => m.b_ \in Int
    BY <1>1 DEF IsValueN, IntCell
  <2>2. QED
    BY <1>2, <2>1, Written
<1>8. /\ ValueNWire_b(m) \in Seq(ValueNTokens)
      /\ TokensOf(ValueNWire_b(m)) = IF 2 \in m.has THEN {WriteInt64(3, m.b_)} ELSE {}
  <2>1. PICK t : t = WriteInt64(3, m.b_)
    OBVIOUS
  <2>2. 2 \in m.has => t \in ValueNTokens
    BY <1>7, <2>1
  <2>3. QED
    BY <2>1, <2>2, TokenIs DEF ValueNWire_b
<1>9. 3 \in m.has => WriteBool(5, m.commit_) \in ValueNTokens
  <2>1. 3 \in m.has => m.commit_ \in BOOLEAN
    BY <1>1 DEF IsValueN, BoolCell
  <2>2. QED
    BY <1>2, <2>1, Written
<1>10. /\ ValueNWire_commit(m) \in Seq(ValueNTokens)
      /\ TokensOf(ValueNWire_commit(m)) = IF 3 \in m.has THEN {WriteBool(5, m.commit_)} ELSE {}
  <2>1. PICK t : t = WriteBool(5, m.commit_)
    OBVIOUS
  <2>2. 3 \in m.has => t \in ValueNTokens
    BY <1>9, <2>1
  <2>3. QED
    BY <2>1, <2>2, TokenIs DEF ValueNWire_commit
<1>11. m.unk \in Seq(ValueNTokens)
  <2>1. \A t \in ValueNUnknown : t \in ValueNTokens
    BY <1>2, UnknownTokens DEF ValueNUnknown
  <2>2. Seq(ValueNUnknown) \subseteq Seq(ValueNTokens)
    BY <2>1
  <2>3. QED
    BY <1>1, <2>2 DEF IsValueN
<1>12. QED
  BY <1>3, <1>4, <1>5, <1>6, <1>7, <1>8, <1>9, <1>10, <1>11

\* The parts make up what is written.
LEMMA ValueNSerialize ==
  ASSUME NEW m \in ValueNMessages
  PROVE  /\ vct_value_n_Serialize(m) = ValueNWire_pos(m) \o ValueNWire_a(m) \o
              ValueNWire_b(m) \o ValueNWire_commit(m) \o m.unk
         /\ vct_value_n_Serialize(m) \in Seq(ValueNTokens) /\
              TotalBytes(vct_value_n_Serialize(m)) \in Nat
         /\ TokensOf(vct_value_n_Serialize(m)) =
              TokensOf(ValueNWire_pos(m)) \cup TokensOf(ValueNWire_a(m)) \cup
                  TokensOf(ValueNWire_b(m)) \cup TokensOf(ValueNWire_commit(m)) \cup
                  TokensOf(m.unk)
         /\ TotalBytes(vct_value_n_Serialize(m)) =
              TotalBytes(ValueNWire_pos(m)) + TotalBytes(ValueNWire_a(m)) +
                  TotalBytes(ValueNWire_b(m)) + TotalBytes(ValueNWire_commit(m)) +
                  TotalBytes(m.unk)
<1>1. PICK a, b, c, d, e : a = ValueNWire_pos(m) /\ b = ValueNWire_a(m) /\
        c = ValueNWire_b(m) /\ d = ValueNWire_commit(m) /\ e = m.unk
  OBVIOUS
<1>2. a \in Seq(ValueNTokens) /\ b \in Seq(ValueNTokens) /\ c \in Seq(ValueNTokens) /\
        d \in Seq(ValueNTokens) /\ e \in Seq(ValueNTokens)
  BY <1>1, ValueNWrites
<1>3. vct_value_n_Serialize(m) = a \o b \o c \o d \o e
  BY <1>1 DEF vct_value_n_Serialize, ValueNWire_pos, ValueNWire_a, ValueNWire_b,
      ValueNWire_commit
<1>4. Measured(ValueNTokens)
  BY TokenParts DEF Measured, ValueNTokens
<1>5. PICK s1 : s1 = a \o b
  OBVIOUS
<1>6. /\ s1 \in Seq(ValueNTokens) /\ TotalBytes(s1) = TotalBytes(a) + TotalBytes(b)
      /\ TokensOf(s1) = TokensOf(a) \cup TokensOf(b)
  <2>1. a \in Seq(ValueNTokens) /\ b \in Seq(ValueNTokens)
    BY <1>2
  <2>2. QED
    BY <1>4, <1>5, <2>1, TokensParts, BytesParts
<1>7. PICK s2 : s2 = s1 \o c
  OBVIOUS
<1>8. /\ s2 \in Seq(ValueNTokens) /\ TotalBytes(s2) = TotalBytes(s1) + TotalBytes(c)
      /\ TokensOf(s2) = TokensOf(s1) \cup TokensOf(c)
  <2>1. s1 \in Seq(ValueNTokens) /\ c \in Seq(ValueNTokens)
    BY <1>2, <1>6
  <2>2. QED
    BY <1>4, <1>7, <2>1, TokensParts, BytesParts
<1>9. PICK s3 : s3 = s2 \o d
  OBVIOUS
<1>10. /\ s3 \in Seq(ValueNTokens) /\ TotalBytes(s3) = TotalBytes(s2) + TotalBytes(d)
      /\ TokensOf(s3) = TokensOf(s2) \cup TokensOf(d)
  <2>1. s2 \in Seq(ValueNTokens) /\ d \in Seq(ValueNTokens)
    BY <1>2, <1>8
  <2>2. QED
    BY <1>4, <1>9, <2>1, TokensParts, BytesParts
<1>11. PICK s4 : s4 = s3 \o e
  OBVIOUS
<1>12. /\ s4 \in Seq(ValueNTokens) /\ TotalBytes(s4) = TotalBytes(s3) + TotalBytes(e)
      /\ TokensOf(s4) = TokensOf(s3) \cup TokensOf(e)
  <2>1. s3 \in Seq(ValueNTokens) /\ e \in Seq(ValueNTokens)
    BY <1>2, <1>10
  <2>2. QED
    BY <1>4, <1>11, <2>1, TokensParts, BytesParts
<1>13. vct_value_n_Serialize(m) = s4
  BY <1>3, <1>5, <1>7, <1>9, <1>11
<1>14. TotalBytes(s4) = TotalBytes(a) + TotalBytes(b) + TotalBytes(c) + TotalBytes(d) +
        TotalBytes(e)
  BY <1>6, <1>8, <1>10, <1>12
<1>15. TokensOf(s4) = TokensOf(a) \cup TokensOf(b) \cup TokensOf(c) \cup TokensOf(d) \cup
        TokensOf(e)
  BY <1>6, <1>8, <1>10, <1>12
<1>16. TotalBytes(s4) \in Nat
  BY <1>4, <1>12, BytesParts
<1>17. QED
  BY <1>1, <1>3, <1>13, <1>12, <1>14, <1>15, <1>16

\* A copy.
LEMMA ValueCopy ==
  ASSUME NEW m \in ValueMessages, NEW p, p = vct_value_Copy(m)
  PROVE  p \in ValueMessages /\ vct_value_View(p) = vct_value_View(m)
<1>1. IsValue(m) /\ HasFields(m, ValueFields)
  BY ValueIs DEF IsValue
<1>2. /\ HasFields(p, ValueFields) /\ p.has = m.has /\ p.unk = m.unk /\ p.size = 0
      /\ p.key_ = IF 0 \in m.has THEN m.key_ ELSE Shared
      /\ p.main_ = IF 1 \in m.has THEN vct_value_n_Copy(m.main_) ELSE Null
      /\ p.his_ = Elements(m.his_)
      /\ p.commit_count_ = m.commit_count_
  BY <1>1 DEF vct_value_Copy, HasFields, ValueFields
<1>3. p.has \in SUBSET (0 .. 2) /\ p.unk \in Seq(ValueUnknown) /\ p.size \in Nat
  BY <1>1, <1>2 DEF IsValue
<1>4. StringCell(p.has, 0, p.key_) /\ Text(p.key_) = Text(m.key_)
  BY <1>1, <1>2, TextIs DEF IsValue, StringCell, Text
<1>5. ValueNCell(p.has, 1, p.main_) /\ ValueNShown(p.main_) = ValueNShown(m.main_)
  <2>1. ValueNCell(m.has, 1, m.main_)
    BY <1>1 DEF IsValue
  <2>2. CASE 1 \in m.has
    <3>1. m.main_ \in ValueNMessages /\ p.main_ = vct_value_n_Copy(m.main_)
      BY <1>2, <2>1, <2>2, ValueNIsOwned
    <3>2. p.main_ \in ValueNMessages /\ vct_value_n_View(p.main_) = vct_value_n_View(m.main_)
      BY <3>1, ValueNCopy
    <3>3. 1 \in p.has
      BY <1>2, <2>2
    <3>4. ValueNCell(p.has, 1, p.main_)
      BY <3>2, <3>3, ValueNCells
    <3>5. QED
      BY <3>1, <3>2, <3>4, ClassesAssumption DEF ValueNShown, ValueNOwned
  <2>3. CASE 1 \notin m.has
    <3>1. p.main_ = Null /\ 1 \notin p.has
      BY <1>2, <2>3
    <3>2. ValueNCell(p.has, 1, p.main_)
      BY <3>1, ValueNCells
    <3>3. QED
      BY <2>1, <2>3, <3>1, <3>2 DEF ValueNCell
  <2>4. QED
    BY <2>2, <2>3
<1>6. p.his_ \in Seq(ValueNMessages) /\ ValueNViews(p.his_) = ValueNViews(m.his_)
  BY <1>1, <1>2, ElementsAre DEF IsValue
<1>7. IntCell(p.has, 2, p.commit_count_) /\ p.commit_count_ = m.commit_count_
  BY <1>1, <1>2 DEF IsValue, IntCell
<1>8. p \in ValueMessages
  BY <1>2, <1>3, <1>4, <1>5, <1>6, <1>7, ValueIs DEF IsValue
<1>9. ValueAlike(p, m)
  BY <1>2, <1>4, <1>5, <1>6, <1>7 DEF ValueAlike
<1>10. QED
  BY <1>8, <1>9, ValueSame

\* What a message writes for each field.
ValueWire_key(m) == Token(m, 0, WriteString(1, m.key_))
ValueWire_main(m) == Token(m, 1, WriteMessage(2, m.main_, vct_value_n_Serialize(m.main_)))
ValueWire_his(m) == WriteRepeated(3, m.his_, vct_value_n_Serialize)
ValueWire_commit_count(m) == Token(m, 2, WriteInt64(4, m.commit_count_))

\* Every part is made of tokens of the class.
LEMMA ValueWrites ==
  ASSUME NEW m \in ValueMessages
  PROVE  /\ ValueWire_key(m) \in Seq(ValueTokens)
         /\ TokensOf(ValueWire_key(m)) = IF 0 \in m.has THEN {WriteString(1, m.key_)} ELSE {}
         /\ 0 \in m.has => WriteString(1, m.key_) \in ValueTokens
         /\ ValueWire_main(m) \in Seq(ValueTokens)
         /\ TokensOf(ValueWire_main(m)) = IF 1 \in m.has THEN
              {WriteMessage(2, m.main_, vct_value_n_Serialize(m.main_))} ELSE {}
         /\ 1 \in m.has =>
              WriteMessage(2, m.main_, vct_value_n_Serialize(m.main_)) \in ValueTokens
         /\ ValueWire_his(m) \in Seq(ValueTokens) /\ Len(ValueWire_his(m)) = Len(m.his_)
         /\ ValueWire_commit_count(m) \in Seq(ValueTokens)
         /\ TokensOf(ValueWire_commit_count(m)) = IF 2 \in m.has THEN
              {WriteInt64(4, m.commit_count_)} ELSE {}
         /\ 2 \in m.has => WriteInt64(4, m.commit_count_) \in ValueTokens
         /\ m.unk \in Seq(ValueTokens)
<1>1. IsValue(m)
  BY ValueIs
<1>2. PICK bodies : bodies = Seq(ValueNTokens) /\ <<>> \in bodies /\
        ValueTokens = Tokens({1}, {2, 3}, bodies)
  BY EmptySeq DEF ValueTokens
<1>3. 0 \in m.has => WriteString(1, m.key_) \in ValueTokens
  <2>1. 0 \in m.has => m.key_ \in Strings
    BY <1>1 DEF IsValue, StringCell
  <2>2. QED
    BY <1>2, <2>1, Written
<1>4. /\ ValueWire_key(m) \in Seq(ValueTokens)
      /\ TokensOf(ValueWire_key(m)) = IF 0 \in m.has THEN {WriteString(1, m.key_)} ELSE {}
  <2>1. PICK t : t = WriteString(1, m.key_)
    OBVIOUS
  <2>2. 0 \in m.has => t \in ValueTokens
    BY <1>3, <2>1
  <2>3. QED
    BY <2>1, <2>2, TokenIs DEF ValueWire_key
<1>5. ASSUME 1 \in m.has PROVE WriteMessage(2, m.main_,
        vct_value_n_Serialize(m.main_)) \in ValueTokens
  <2>1. ValueNCell(m.has, 1, m.main_)
    BY <1>1 DEF IsValue
  <2>2. m.main_ \in ValueNMessages
    BY <1>5, <2>1, ValueNIsOwned
  <2>3. PICK w : w = vct_value_n_Serialize(m.main_)
    OBVIOUS
  <2>4. w \in bodies /\ TotalBytes(w) \in Nat /\ m.main_.size \in Nat
    BY <1>2, <2>2, <2>3, ValueNSerialize, ValueNIs DEF IsValueN
  <2>5. WriteMessage(2, m.main_, w) \in Tokens({1}, {2, 3}, bodies)
    BY <2>4, WrittenMessage
  <2>6. QED
    BY <1>2, <2>3, <2>5
<1>6. /\ ValueWire_main(m) \in Seq(ValueTokens)
      /\ TokensOf(ValueWire_main(m)) = IF 1 \in m.has THEN
           {WriteMessage(2, m.main_, vct_value_n_Serialize(m.main_))} ELSE {}
  <2>1. PICK t : t = WriteMessage(2, m.main_, vct_value_n_Serialize(m.main_))
    OBVIOUS
  <2>2. 1 \in m.has => t \in ValueTokens
    BY <1>5, <2>1
  <2>3. QED
    BY <2>1, <2>2, TokenIs DEF ValueWire_main
<1>7. ValueWire_his(m) \in Seq(ValueTokens) /\ Len(ValueWire_his(m)) = Len(m.his_)
  <2>1. PICK k \in Nat, h \in Seq(ValueNMessages) : h = m.his_ /\ k = Len(h)
    BY <1>1, LenProperties DEF IsValue
  <2>2. PICK a : a = [i \in 1 .. k |-> WriteMessage(3, h[i], vct_value_n_Serialize(h[i]))]
    OBVIOUS
  <2>3. ASSUME NEW i \in 1 .. k PROVE a[i] \in ValueTokens
    <3>1. PICK e, w : e = h[i] /\ w = vct_value_n_Serialize(e) /\ e \in ValueNMessages
      BY <2>1, ElementOfSeq
    <3>2. w \in bodies /\ TotalBytes(w) \in Nat /\ e.size \in Nat
      BY <1>2, <3>1, ValueNSerialize, ValueNIs DEF IsValueN
    <3>3. WriteMessage(3, e, w) \in Tokens({1}, {2, 3}, bodies)
      BY <3>2, WrittenMessage
    <3>4. QED
      BY <1>2, <2>2, <3>1, <3>3
  <2>4. a \in Seq(ValueTokens) /\ Len(a) = k
    BY <2>2, <2>3
  <2>5. ValueWire_his(m) = a
    BY <2>1, <2>2 DEF ValueWire_his, WriteRepeated
  <2>6. QED
    BY <2>1, <2>4, <2>5
<1>8. 2 \in m.has => WriteInt64(4, m.commit_count_) \in ValueTokens
  <2>1. 2 \in m.has => m.commit_count_ \in Int
    BY <1>1 DEF IsValue, IntCell
  <2>2. QED
    BY <1>2, <2>1, Written
<1>9. /\ ValueWire_commit_count(m) \in Seq(ValueTokens)
      /\ TokensOf(ValueWire_commit_count(m)) = IF 2 \in m.has THEN
           {WriteInt64(4, m.commit_count_)} ELSE {}
  <2>1. PICK t : t = WriteInt64(4, m.commit_count_)
    OBVIOUS
  <2>2. 2 \in m.has => t \in ValueTokens
    BY <1>8, <2>1
  <2>3. QED
    BY <2>1, <2>2, TokenIs DEF ValueWire_commit_count
<1>10. m.unk \in Seq(ValueTokens)
  <2>1. \A t \in ValueUnknown : t \in ValueTokens
    BY <1>2, UnknownTokens DEF ValueUnknown
  <2>2. Seq(ValueUnknown) \subseteq Seq(ValueTokens)
    BY <2>1
  <2>3. QED
    BY <1>1, <2>2 DEF IsValue
<1>11. QED
  BY <1>3, <1>4, <1>5, <1>6, <1>7, <1>8, <1>9, <1>10

\* The parts make up what is written.
LEMMA ValueSerialize ==
  ASSUME NEW m \in ValueMessages
  PROVE  /\ vct_value_Serialize(m) = ValueWire_key(m) \o ValueWire_main(m) \o
              ValueWire_his(m) \o ValueWire_commit_count(m) \o m.unk
         /\ vct_value_Serialize(m) \in Seq(ValueTokens) /\
              TotalBytes(vct_value_Serialize(m)) \in Nat
         /\ TokensOf(vct_value_Serialize(m)) =
              TokensOf(ValueWire_key(m)) \cup TokensOf(ValueWire_main(m)) \cup
                  TokensOf(ValueWire_his(m)) \cup TokensOf(ValueWire_commit_count(m)) \cup
                  TokensOf(m.unk)
         /\ TotalBytes(vct_value_Serialize(m)) =
              TotalBytes(ValueWire_key(m)) + TotalBytes(ValueWire_main(m)) +
                  TotalBytes(ValueWire_his(m)) + TotalBytes(ValueWire_commit_count(m)) +
                  TotalBytes(m.unk)
<1>1. PICK a, b, c, d, e : a = ValueWire_key(m) /\ b = ValueWire_main(m) /\
        c = ValueWire_his(m) /\ d = ValueWire_commit_count(m) /\ e = m.unk
  OBVIOUS
<1>2. a \in Seq(ValueTokens) /\ b \in Seq(ValueTokens) /\ c \in Seq(ValueTokens) /\
        d \in Seq(ValueTokens) /\ e \in Seq(ValueTokens)
  BY <1>1, ValueWrites
<1>3. vct_value_Serialize(m) = a \o b \o c \o d \o e
  BY <1>1 DEF vct_value_Serialize, ValueWire_key, ValueWire_main, ValueWire_his,
      ValueWire_commit_count
<1>4. Measured(ValueTokens)
  BY TokenParts DEF Measured, ValueTokens
<1>5. PICK s1 : s1 = a \o b
  OBVIOUS
<1>6. /\ s1 \in Seq(ValueTokens) /\ TotalBytes(s1) = TotalBytes(a) + TotalBytes(b)
      /\ TokensOf(s1) = TokensOf(a) \cup TokensOf(b)
  <2>1. a \in Seq(ValueTokens) /\ b \in Seq(ValueTokens)
    BY <1>2
  <2>2. QED
    BY <1>4, <1>5, <2>1, TokensParts, BytesParts
<1>7. PICK s2 : s2 = s1 \o c
  OBVIOUS
<1>8. /\ s2 \in Seq(ValueTokens) /\ TotalBytes(s2) = TotalBytes(s1) + TotalBytes(c)
      /\ TokensOf(s2) = TokensOf(s1) \cup TokensOf(c)
  <2>1. s1 \in Seq(ValueTokens) /\ c \in Seq(ValueTokens)
    BY <1>2, <1>6
  <2>2. QED
    BY <1>4, <1>7, <2>1, TokensParts, BytesParts
<1>9. PICK s3 : s3 = s2 \o d
  OBVIOUS
<1>10. /\ s3 \in Seq(ValueTokens) /\ TotalBytes(s3) = TotalBytes(s2) + TotalBytes(d)
      /\ TokensOf(s3) = TokensOf(s2) \cup TokensOf(d)
  <2>1. s2 \in Seq(ValueTokens) /\ d \in Seq(ValueTokens)
    BY <1>2, <1>8
  <2>2. QED
    BY <1>4, <1>9, <2>1, TokensParts, BytesParts
<1>11. PICK s4 : s4 = s3 \o e
  OBVIOUS
<1>12. /\ s4 \in Seq(ValueTokens) /\ TotalBytes(s4) = TotalBytes(s3) + TotalBytes(e)
      /\ TokensOf(s4) = TokensOf(s3) \cup TokensOf(e)
  <2>1. s3 \in Seq(ValueTokens) /\ e \in Seq(ValueTokens)
    BY <1>2, <1>10
  <2>2. QED
    BY <1>4, <1>11, <2>1, TokensParts, BytesParts
<1>13. vct_value_Serialize(m) = s4
  BY <1>3, <1>5, <1>7, <1>9, <1>11
<1>14. TotalBytes(s4) = TotalBytes(a) + TotalBytes(b) + TotalBytes(c) + TotalBytes(d) +
        TotalBytes(e)
  BY <1>6, <1>8, <1>10, <1>12
<1>15. TokensOf(s4) = TokensOf(a) \cup TokensOf(b) \cup TokensOf(c) \cup TokensOf(d) \cup
        TokensOf(e)
  BY <1>6, <1>8, <1>10, <1>12
<1>16. TotalBytes(s4) \in Nat
  BY <1>4, <1>12, BytesParts
<1>17. QED
  BY <1>1, <1>3, <1>13, <1>12, <1>14, <1>15, <1>16

\* A copy.
LEMMA KeytableCopy ==
  ASSUME NEW m \in KeytableMessages, NEW p, p = keytable_value_Copy(m)
  PROVE  p \in KeytableMessages /\ keytable_value_View(p) = keytable_value_View(m)
<1>1. IsKeytable(m) /\ HasFields(m, KeytableFields)
  BY KeytableIs DEF IsKeytable
<1>2. /\ HasFields(p, KeytableFields) /\ p.has = m.has /\ p.unk = m.unk /\ p.size = 0
      /\ p.field_ = IF 0 \in m.has THEN m.field_ ELSE Shared
      /\ p.route_table_ = IF 1 \in m.has THEN m.route_table_ ELSE Shared
      /\ p.route_table_field_ = IF 2 \in m.has THEN m.route_table_field_ ELSE Shared
  BY <1>1 DEF keytable_value_Copy, HasFields, KeytableFields
<1>3. p.has \in SUBSET (0 .. 2) /\ p.unk \in Seq(KeytableUnknown) /\ p.size \in Nat
  BY <1>1, <1>2 DEF IsKeytable
<1>4. StringCell(p.has, 0, p.field_) /\ Text(p.field_) = Text(m.field_)
  BY <1>1, <1>2, TextIs DEF IsKeytable, StringCell, Text
<1>5. StringCell(p.has, 1, p.route_table_) /\ Text(p.route_table_) = Text(m.route_table_)
  BY <1>1, <1>2, TextIs DEF IsKeytable, StringCell, Text
<1>6. StringCell(p.has, 2, p.route_table_field_) /\
        Text(p.route_table_field_) = Text(m.route_table_field_)
  BY <1>1, <1>2, TextIs DEF IsKeytable, StringCell, Text
<1>7. p \in KeytableMessages
  BY <1>2, <1>3, <1>4, <1>5, <1>6, KeytableIs DEF IsKeytable
<1>8. KeytableAlike(p, m)
  BY <1>2, <1>4, <1>5, <1>6 DEF KeytableAlike
<1>9. QED
  BY <1>7, <1>8, KeytableSame

\* What a message writes for each field.
KeytableWire_field(m) == Token(m, 0, WriteString(1, m.field_))
KeytableWire_route_table(m) == Token(m, 1, WriteString(2, m.route_table_))
KeytableWire_route_table_field(m) == Token(m, 2, WriteString(3, m.route_table_field_))

\* Every part is made of tokens of the class.
LEMMA KeytableWrites ==
  ASSUME NEW m \in KeytableMessages
  PROVE  /\ KeytableWire_field(m) \in Seq(KeytableTokens)
         /\ TokensOf(KeytableWire_field(m)) = IF 0 \in m.has THEN
              {WriteString(1, m.field_)} ELSE {}
         /\ 0 \in m.has => WriteString(1, m.field_) \in KeytableTokens
         /\ KeytableWire_route_table(m) \in Seq(KeytableTokens)
         /\ TokensOf(KeytableWire_route_table(m)) = IF 1 \in m.has THEN
              {WriteString(2, m.route_table_)} ELSE {}
         /\ 1 \in m.has => WriteString(2, m.route_table_) \in KeytableTokens
         /\ KeytableWire_route_table_field(m) \in Seq(KeytableTokens)
         /\ TokensOf(KeytableWire_route_table_field(m)) = IF 2 \in m.has THEN
              {WriteString(3, m.route_table_field_)} ELSE {}
         /\ 2 \in m.has => WriteString(3, m.route_table_field_) \in KeytableTokens
         /\ m.unk \in Seq(KeytableTokens)
<1>1. IsKeytable(m)
  BY KeytableIs
<1>2. PICK bodies : bodies = {<<>>} /\ <<>> \in bodies /\
        KeytableTokens = Tokens({1, 2, 3}, {}, bodies)
  BY EmptySeq DEF KeytableTokens
<1>3. 0 \in m.has => WriteString(1, m.field_) \in KeytableTokens
  <2>1. 0 \in m.has => m.field_ \in Strings
    BY <1>1 DEF IsKeytable, StringCell
  <2>2. QED
    BY <1>2, <2>1, Written
<1>4. /\ KeytableWire_field(m) \in Seq(KeytableTokens)
      /\ TokensOf(KeytableWire_field(m)) = IF 0 \in m.has THEN
           {WriteString(1, m.field_)} ELSE {}
  <2>1. PICK t : t = WriteString(1, m.field_)
    OBVIOUS
  <2>2. 0 \in m.has => t \in KeytableTokens
    BY <1>3, <2>1
  <2>3. QED
    BY <2>1, <2>2, TokenIs DEF KeytableWire_field
<1>5. 1 \in m.has => WriteString(2, m.route_table_) \in KeytableTokens
  <2>1. 1 \in m.has => m.route_table_ \in Strings
    BY <1>1 DEF IsKeytable, StringCell
  <2>2. QED
    BY <1>2, <2>1, Written
<1>6. /\ KeytableWire_route_table(m) \in Seq(KeytableTokens)
      /\ TokensOf(KeytableWire_route_table(m)) = IF 1 \in m.has THEN
           {WriteString(2, m.route_table_)} ELSE {}
  <2>1. PICK t : t = WriteString(2, m.route_table_)
    OBVIOUS
  <2>2. 1 \in m.has => t \in KeytableTokens
    BY <1>5, <2>1
  <2>3. QED
    BY <2>1, <2>2, TokenIs DEF KeytableWire_route_table
<1>7. 2 \in m.has => WriteString(3, m.route_table_field_) \in KeytableTokens
  <2>1. 2 \in m.has => m.route_table_field_ \in Strings
    BY <1>1 DEF IsKeytable, StringCell
  <2>2. QED
    BY <1>2, <2>1, Written
<1>8. /\ KeytableWire_route_table_field(m) \in Seq(KeytableTokens)
      /\ TokensOf(KeytableWire_route_table_field(m)) = IF 2 \in m.has THEN
           {WriteString(3, m.route_table_field_)} ELSE {}
  <2>1. PICK t : t = WriteString(3, m.route_table_field_)
    OBVIOUS
  <2>2. 2 \in m.has => t \in KeytableTokens
    BY <1>7, <2>1
  <2>3. QED
    BY <2>1, <2>2, TokenIs DEF KeytableWire_route_table_field
<1>9. m.unk \in Seq(KeytableTokens)
  <2>1. \A t \in KeytableUnknown : t \in KeytableTokens
    BY <1>2, UnknownTokens DEF KeytableUnknown
  <2>2. Seq(KeytableUnknown) \subseteq Seq(KeytableTokens)
    BY <2>1
  <2>3. QED
    BY <1>1, <2>2 DEF IsKeytable
<1>10. QED
  BY <1>3, <1>4, <1>5, <1>6, <1>7, <1>8, <1>9

\* The parts make up what is written.
LEMMA KeytableSerialize ==
  ASSUME NEW m \in KeytableMessages
  PROVE  /\ keytable_value_Serialize(m) = KeytableWire_field(m) \o
              KeytableWire_route_table(m) \o KeytableWire_route_table_field(m) \o m.unk
         /\ keytable_value_Serialize(m) \in Seq(KeytableTokens) /\
              TotalBytes(keytable_value_Serialize(m)) \in Nat
         /\ TokensOf(keytable_value_Serialize(m)) =
              TokensOf(KeytableWire_field(m)) \cup TokensOf(KeytableWire_route_table(m)) \cup
                  TokensOf(KeytableWire_route_table_field(m)) \cup TokensOf(m.unk)
         /\ TotalBytes(keytable_value_Serialize(m)) =
              TotalBytes(KeytableWire_field(m)) + TotalBytes(KeytableWire_route_table(m)) +
                  TotalBytes(KeytableWire_route_table_field(m)) + TotalBytes(m.unk)
<1>1. PICK a, b, c, d : a = KeytableWire_field(m) /\ b = KeytableWire_route_table(m) /\
        c = KeytableWire_route_table_field(m) /\ d = m.unk
  OBVIOUS
<1>2. a \in Seq(KeytableTokens) /\ b \in Seq(KeytableTokens) /\ c \in Seq(KeytableTokens) /\
        d \in Seq(KeytableTokens)
  BY <1>1, KeytableWrites
<1>3. keytable_value_Serialize(m) = a \o b \o c \o d
  BY <1>1 DEF keytable_value_Serialize, KeytableWire_field, KeytableWire_route_table,
      KeytableWire_route_table_field
<1>4. Measured(KeytableTokens)
  BY TokenParts DEF Measured, KeytableTokens
<1>5. PICK s1 : s1 = a \o b
  OBVIOUS
<1>6. /\ s1 \in Seq(KeytableTokens) /\ TotalBytes(s1) = TotalBytes(a) + TotalBytes(b)
      /\ TokensOf(s1) = TokensOf(a) \cup TokensOf(b)
  <2>1. a \in Seq(KeytableTokens) /\ b \in Seq(KeytableTokens)
    BY <1>2
  <2>2. QED
    BY <1>4, <1>5, <2>1, TokensParts, BytesParts
<1>7. PICK s2 : s2 = s1 \o c
  OBVIOUS
<1>8. /\ s2 \in Seq(KeytableTokens) /\ TotalBytes(s2) = TotalBytes(s1) + TotalBytes(c)
      /\ TokensOf(s2) = TokensOf(s1) \cup TokensOf(c)
  <2>1. s1 \in Seq(KeytableTokens) /\ c \in Seq(KeytableTokens)
    BY <1>2, <1>6
  <2>2. QED
    BY <1>4, <1>7, <2>1, TokensParts, BytesParts
<1>9. PICK s3 : s3 = s2 \o d
  OBVIOUS
<1>10. /\ s3 \in Seq(KeytableTokens) /\ TotalBytes(s3) = TotalBytes(s2) + TotalBytes(d)
      /\ TokensOf(s3) = TokensOf(s2) \cup TokensOf(d)
  <2>1. s2 \in Seq(KeytableTokens) /\ d \in Seq(KeytableTokens)
    BY <1>2, <1>8
  <2>2. QED
    BY <1>4, <1>9, <2>1, TokensParts, BytesParts
<1>11. keytable_value_Serialize(m) = s3
  BY <1>3, <1>5, <1>7, <1>9
<1>12. TotalBytes(s3) = TotalBytes(a) + TotalBytes(b) + TotalBytes(c) + TotalBytes(d)
  BY <1>6, <1>8, <1>10
<1>13. TokensOf(s3) = TokensOf(a) \cup TokensOf(b) \cup TokensOf(c) \cup TokensOf(d)
  BY <1>6, <1>8, <1>10
<1>14. TotalBytes(s3) \in Nat
  BY <1>4, <1>10, BytesParts
<1>15. QED
  BY <1>1, <1>3, <1>11, <1>10, <1>12, <1>13, <1>14

\* What a message writes for each field.
ColWire_name(m) == Token(m, 0, WriteString(1, m.name_))
ColWire_value(m) == Token(m, 1, WriteString(2, m.value_))

\* Every part is made of tokens of the class.
LEMMA ColWrites ==
  ASSUME NEW m \in ColMessages
  PROVE  /\ ColWire_name(m) \in Seq(ColTokens)
         /\ TokensOf(ColWire_name(m)) = IF 0 \in m.has THEN {WriteString(1, m.name_)} ELSE {}
         /\ 0 \in m.has => WriteString(1, m.name_) \in ColTokens
         /\ ColWire_value(m) \in Seq(ColTokens)
         /\ TokensOf(ColWire_value(m)) = IF 1 \in m.has THEN {WriteString(2, m.value_)} ELSE {}
         /\ 1 \in m.has => WriteString(2, m.value_) \in ColTokens
         /\ m.unk \in Seq(ColTokens)
<1>1. IsCol(m)
  BY ColIs
<1>2. PICK bodies : bodies = {<<>>} /\ <<>> \in bodies /\ ColTokens = Tokens({1, 2}, {}, bodies)
  BY EmptySeq DEF ColTokens
<1>3. 0 \in m.has => WriteString(1, m.name_) \in ColTokens
  <2>1. 0 \in m.has => m.name_ \in Strings
    BY <1>1 DEF IsCol, StringCell
  <2>2. QED
    BY <1>2, <2>1, Written
<1>4. /\ ColWire_name(m) \in Seq(ColTokens)
      /\ TokensOf(ColWire_name(m)) = IF 0 \in m.has THEN {WriteString(1, m.name_)} ELSE {}
  <2>1. PICK t : t = WriteString(1, m.name_)
    OBVIOUS
  <2>2. 0 \in m.has => t \in ColTokens
    BY <1>3, <2>1
  <2>3. QED
    BY <2>1, <2>2, TokenIs DEF ColWire_name
<1>5. 1 \in m.has => WriteString(2, m.value_) \in ColTokens
  <2>1. 1 \in m.has => m.value_ \in Strings
    BY <1>1 DEF IsCol, StringCell
  <2>2. QED
    BY <1>2, <2>1, Written
<1>6. /\ ColWire_value(m) \in Seq(ColTokens)
      /\ TokensOf(ColWire_value(m)) = IF 1 \in m.has THEN {WriteString(2, m.value_)} ELSE {}
  <2>1. PICK t : t = WriteString(2, m.value_)
    OBVIOUS
  <2>2. 1 \in m.has => t \in ColTokens
    BY <1>5, <2>1
  <2>3. QED
    BY <2>1, <2>2, TokenIs DEF ColWire_value
<1>7. m.unk \in Seq(ColTokens)
  <2>1. \A t \in ColUnknown : t \in ColTokens
    BY <1>2, UnknownTokens DEF ColUnknown
  <2>2. Seq(ColUnknown) \subseteq Seq(ColTokens)
    BY <2>1
  <2>3. QED
    BY <1>1, <2>2 DEF IsCol
<1>8. QED
  BY <1>3, <1>4, <1>5, <1>6, <1>7

\* The parts make up what is written.
LEMMA ColSerialize ==
  ASSUME NEW m \in ColMessages
  PROVE  /\ route_value_col_Serialize(m) = ColWire_name(m) \o ColWire_value(m) \o m.unk
         /\ route_value_col_Serialize(m) \in Seq(ColTokens) /\
              TotalBytes(route_value_col_Serialize(m)) \in Nat
         /\ TokensOf(route_value_col_Serialize(m)) =
              TokensOf(ColWire_name(m)) \cup TokensOf(ColWire_value(m)) \cup TokensOf(m.unk)
         /\ TotalBytes(route_value_col_Serialize(m)) =
              TotalBytes(ColWire_name(m)) + TotalBytes(ColWire_value(m)) + TotalBytes(m.unk)
<1>1. PICK a, b, c : a = ColWire_name(m) /\ b = ColWire_value(m) /\ c = m.unk
  OBVIOUS
<1>2. a \in Seq(ColTokens) /\ b \in Seq(ColTokens) /\ c \in Seq(ColTokens)
  BY <1>1, ColWrites
<1>3. route_value_col_Serialize(m) = a \o b \o c
  BY <1>1 DEF route_value_col_Serialize, ColWire_name, ColWire_value
<1>4. Measured(ColTokens)
  BY TokenParts DEF Measured, ColTokens
<1>5. PICK s1 : s1 = a \o b
  OBVIOUS
<1>6. /\ s1 \in Seq(ColTokens) /\ TotalBytes(s1) = TotalBytes(a) + TotalBytes(b)
      /\ TokensOf(s1) = TokensOf(a) \cup TokensOf(b)
  <2>1. a \in Seq(ColTokens) /\ b \in Seq(ColTokens)
    BY <1>2
  <2>2. QED
    BY <1>4, <1>5, <2>1, TokensParts, BytesParts
<1>7. PICK s2 : s2 = s1 \o c
  OBVIOUS
<1>8. /\ s2 \in Seq(ColTokens) /\ TotalBytes(s2) = TotalBytes(s1) + TotalBytes(c)
      /\ TokensOf(s2) = TokensOf(s1) \cup TokensOf(c)
  <2>1. s1 \in Seq(ColTokens) /\ c \in Seq(ColTokens)
    BY <1>2, <1>6
  <2>2. QED
    BY <1>4, <1>7, <2>1, TokensParts, BytesParts
<1>9. route_value_col_Serialize(m) = s2
  BY <1>3, <1>5, <1>7
<1>10. TotalBytes(s2) = TotalBytes(a) + TotalBytes(b) + TotalBytes(c)
  BY <1>6, <1>8
<1>11. TokensOf(s2) = TokensOf(a) \cup TokensOf(b) \cup TokensOf(c)
  BY <1>6, <1>8
<1>12. TotalBytes(s2) \in Nat
  BY <1>4, <1>8, BytesParts
<1>13. QED
  BY <1>1, <1>3, <1>9, <1>8, <1>10, <1>11, <1>12

\* A copy.
LEMMA RouteCopy ==
  ASSUME NEW m \in RouteMessages, NEW p, p = route_value_Copy(m)
  PROVE  p \in RouteMessages /\ route_value_View(p) = route_value_View(m)
<1>1. IsRoute(m) /\ HasFields(m, RouteFields)
  BY RouteIs DEF IsRoute
<1>2. /\ HasFields(p, RouteFields) /\ p.has = m.has /\ p.unk = m.unk /\ p.size = 0
      /\ p.region_ = IF 0 \in m.has THEN m.region_ ELSE Shared
      /\ p.area_ = IF 1 \in m.has THEN m.area_ ELSE Shared
      /\ p.col_ = Columns(m.col_)
  BY <1>1 DEF route_value_Copy, HasFields, RouteFields
<1>3. p.has \in SUBSET (0 .. 1) /\ p.unk \in Seq(RouteUnknown) /\ p.size \in Nat
  BY <1>1, <1>2 DEF IsRoute
<1>4. StringCell(p.has, 0, p.region_) /\ Text(p.region_) = Text(m.region_)
  BY <1>1, <1>2, TextIs DEF IsRoute, StringCell, Text
<1>5. StringCell(p.has, 1, p.area_) /\ Text(p.area_) = Text(m.area_)
  BY <1>1, <1>2, TextIs DEF IsRoute, StringCell, Text
<1>6. p.col_ \in Seq(ColMessages) /\ ColViews(p.col_) = ColViews(m.col_)
  BY <1>1, <1>2, ColumnsAre DEF IsRoute
<1>7. p \in RouteMessages
  BY <1>2, <1>3, <1>4, <1>5, <1>6, RouteIs DEF IsRoute
<1>8. RouteAlike(p, m)
  BY <1>2, <1>4, <1>5, <1>6 DEF RouteAlike
<1>9. QED
  BY <1>7, <1>8, RouteSame

\* What a message writes for each field.
RouteWire_region(m) == Token(m, 0, WriteString(1, m.region_))
RouteWire_area(m) == Token(m, 1, WriteString(2, m.area_))
RouteWire_col(m) == WriteRepeated(3, m.col_, route_value_col_Serialize)

\* Every part is made of tokens of the class.
LEMMA RouteWrites ==
  ASSUME NEW m \in RouteMessages
  PROVE  /\ RouteWire_region(m) \in Seq(RouteTokens)
         /\ TokensOf(RouteWire_region(m)) = IF 0 \in m.has THEN
              {WriteString(1, m.region_)} ELSE {}
         /\ 0 \in m.has => WriteString(1, m.region_) \in RouteTokens
         /\ RouteWire_area(m) \in Seq(RouteTokens)
         /\ TokensOf(RouteWire_area(m)) = IF 1 \in m.has THEN {WriteString(2, m.area_)} ELSE {}
         /\ 1 \in m.has => WriteString(2, m.area_) \in RouteTokens
         /\ RouteWire_col(m) \in Seq(RouteTokens) /\ Len(RouteWire_col(m)) = Len(m.col_)
         /\ m.unk \in Seq(RouteTokens)
<1>1. IsRoute(m)
  BY RouteIs
<1>2. PICK bodies : bodies = Seq(ColTokens) /\ <<>> \in bodies /\
        RouteTokens = Tokens({1, 2}, {3}, bodies)
  BY EmptySeq DEF RouteTokens
<1>3. 0 \in m.has => WriteString(1, m.region_) \in RouteTokens
  <2>1. 0 \in m.has => m.region_ \in Strings
    BY <1>1 DEF IsRoute, StringCell
  <2>2. QED
    BY <1>2, <2>1, Written
<1>4. /\ RouteWire_region(m) \in Seq(RouteTokens)
      /\ TokensOf(RouteWire_region(m)) = IF 0 \in m.has THEN {WriteString(1, m.region_)} ELSE {}
  <2>1. PICK t : t = WriteString(1, m.region_)
    OBVIOUS
  <2>2. 0 \in m.has => t \in RouteTokens
    BY <1>3, <2>1
  <2>3. QED
    BY <2>1, <2>2, TokenIs DEF RouteWire_region
<1>5. 1 \in m.has => WriteString(2, m.area_) \in RouteTokens
  <2>1. 1 \in m.has => m.area_ \in Strings
    BY <1>1 DEF IsRoute, StringCell
  <2>2. QED
    BY <1>2, <2>1, Written
<1>6. /\ RouteWire_area(m) \in Seq(RouteTokens)
      /\ TokensOf(RouteWire_area(m)) = IF 1 \in m.has THEN {WriteString(2, m.area_)} ELSE {}
  <2>1. PICK t : t = WriteString(2, m.area_)
    OBVIOUS
  <2>2. 1 \in m.has => t \in RouteTokens
    BY <1>5, <2>1
  <2>3. QED
    BY <2>1, <2>2, TokenIs DEF RouteWire_area
<1>7. RouteWire_col(m) \in Seq(RouteTokens) /\ Len(RouteWire_col(m)) = Len(m.col_)
  <2>1. PICK k \in Nat, h \in Seq(ColMessages) : h = m.col_ /\ k = Len(h)
    BY <1>1, LenProperties DEF IsRoute
  <2>2. PICK a : a = [i \in 1 .. k |-> WriteMessage(3, h[i], route_value_col_Serialize(h[i]))]
    OBVIOUS
  <2>3. ASSUME NEW i \in 1 .. k PROVE a[i] \in RouteTokens
    <3>1. PICK e, w : e = h[i] /\ w = route_value_col_Serialize(e) /\ e \in ColMessages
      BY <2>1, ElementOfSeq
    <3>2. w \in bodies /\ TotalBytes(w) \in Nat /\ e.size \in Nat
      BY <1>2, <3>1, ColSerialize, ColIs DEF IsCol
    <3>3. WriteMessage(3, e, w) \in Tokens({1, 2}, {3}, bodies)
      BY <3>2, WrittenMessage
    <3>4. QED
      BY <1>2, <2>2, <3>1, <3>3
  <2>4. a \in Seq(RouteTokens) /\ Len(a) = k
    BY <2>2, <2>3
  <2>5. RouteWire_col(m) = a
    BY <2>1, <2>2 DEF RouteWire_col, WriteRepeated
  <2>6. QED
    BY <2>1, <2>4, <2>5
<1>8. m.unk \in Seq(RouteTokens)
  <2>1. \A t \in RouteUnknown : t \in RouteTokens
    BY <1>2, UnknownTokens DEF RouteUnknown
  <2>2. Seq(RouteUnknown) \subseteq Seq(RouteTokens)
    BY <2>1
  <2>3. QED
    BY <1>1, <2>2 DEF IsRoute
<1>9. QED
  BY <1>3, <1>4, <1>5, <1>6, <1>7, <1>8

\* The parts make up what is written.
LEMMA RouteSerialize ==
  ASSUME NEW m \in RouteMessages
  PROVE  /\ route_value_Serialize(m) = RouteWire_region(m) \o RouteWire_area(m) \o
              RouteWire_col(m) \o m.unk
         /\ route_value_Serialize(m) \in Seq(RouteTokens) /\
              TotalBytes(route_value_Serialize(m)) \in Nat
         /\ TokensOf(route_value_Serialize(m)) =
              TokensOf(RouteWire_region(m)) \cup TokensOf(RouteWire_area(m)) \cup
                  TokensOf(RouteWire_col(m)) \cup TokensOf(m.unk)
         /\ TotalBytes(route_value_Serialize(m)) =
              TotalBytes(RouteWire_region(m)) + TotalBytes(RouteWire_area(m)) +
                  TotalBytes(RouteWire_col(m)) + TotalBytes(m.unk)
<1>1. PICK a, b, c, d : a = RouteWire_region(m) /\ b = RouteWire_area(m) /\
        c = RouteWire_col(m) /\ d = m.unk
  OBVIOUS
<1>2. a \in Seq(RouteTokens) /\ b \in Seq(RouteTokens) /\ c \in Seq(RouteTokens) /\
        d \in Seq(RouteTokens)
  BY <1>1, RouteWrites
<1>3. route_value_Serialize(m) = a \o b \o c \o d
  BY <1>1 DEF route_value_Serialize, RouteWire_region, RouteWire_area, RouteWire_col
<1>4. Measured(RouteTokens)
  BY TokenParts DEF Measured, RouteTokens
<1>5. PICK s1 : s1 = a \o b
  OBVIOUS
<1>6. /\ s1 \in Seq(RouteTokens) /\ TotalBytes(s1) = TotalBytes(a) + TotalBytes(b)
      /\ TokensOf(s1) = TokensOf(a) \cup TokensOf(b)
  <2>1. a \in Seq(RouteTokens) /\ b \in Seq(RouteTokens)
    BY <1>2
  <2>2. QED
    BY <1>4, <1>5, <2>1, TokensParts, BytesParts
<1>7. PICK s2 : s2 = s1 \o c
  OBVIOUS
<1>8. /\ s2 \in Seq(RouteTokens) /\ TotalBytes(s2) = TotalBytes(s1) + TotalBytes(c)
      /\ TokensOf(s2) = TokensOf(s1) \cup TokensOf(c)
  <2>1. s1 \in Seq(RouteTokens) /\ c \in Seq(RouteTokens)
    BY <1>2, <1>6
  <2>2. QED
    BY <1>4, <1>7, <2>1, TokensParts, BytesParts
<1>9. PICK s3 : s3 = s2 \o d
  OBVIOUS
<1>10. /\ s3 \in Seq(RouteTokens) /\ TotalBytes(s3) = TotalBytes(s2) + TotalBytes(d)
      /\ TokensOf(s3) = TokensOf(s2) \cup TokensOf(d)
  <2>1. s2 \in Seq(RouteTokens) /\ d \in Seq(RouteTokens)
    BY <1>2, <1>8
  <2>2. QED
    BY <1>4, <1>9, <2>1, TokensParts, BytesParts
<1>11. route_value_Serialize(m) = s3
  BY <1>3, <1>5, <1>7, <1>9
<1>12. TotalBytes(s3) = TotalBytes(a) + TotalBytes(b) + TotalBytes(c) + TotalBytes(d)
  BY <1>6, <1>8, <1>10
<1>13. TokensOf(s3) = TokensOf(a) \cup TokensOf(b) \cup TokensOf(c) \cup TokensOf(d)
  BY <1>6, <1>8, <1>10
<1>14. TotalBytes(s3) \in Nat
  BY <1>4, <1>10, BytesParts
<1>15. QED
  BY <1>1, <1>3, <1>11, <1>10, <1>12, <1>13, <1>14

-----------------------------------------------------------------------------
(* Sizes                                                                     *)

\* The cached sizes are those of what is written.
PosSized(m) ==
  /\ m.size = TotalBytes(vct_pos_Serialize(m))

\* The space each field takes.
LEMMA PosBytes ==
  ASSUME NEW m \in PosMessages
  PROVE  /\ TotalBytes(PosWire_posm(m)) = Space(m, 0, 1 + Int64Size(m.posm_)) /\
              (0 \in m.has => Int64Size(m.posm_) \in Nat)
         /\ TotalBytes(PosWire_poss(m)) = Space(m, 1, 1 + Int64Size(m.poss_)) /\
              (1 \in m.has => Int64Size(m.poss_) \in Nat)
<1>1. IsPos(m)
  BY PosIs
<1>2. TotalBytes(PosWire_posm(m)) = Space(m, 0, 1 + Int64Size(m.posm_)) /\
        (0 \in m.has => Int64Size(m.posm_) \in Nat)
  <2>1. PICK t, e : t = WriteInt64(1, m.posm_) /\ e = Int64Size(m.posm_)
    OBVIOUS
  <2>2. 0 \in m.has => t.bytes = 1 + e /\ e \in Nat
    BY <1>1, <2>1 DEF IsPos, IntCell, WriteInt64, Int64Size, VarintSize
  <2>3. TotalBytes(Token(m, 0, t)) = Space(m, 0, t.bytes)
    BY <2>2, TokenBytes
  <2>4. QED
    BY <2>1, <2>2, <2>3 DEF Space, PosWire_posm
<1>3. TotalBytes(PosWire_poss(m)) = Space(m, 1, 1 + Int64Size(m.poss_)) /\
        (1 \in m.has => Int64Size(m.poss_) \in Nat)
  <2>1. PICK t, e : t = WriteInt64(2, m.poss_) /\ e = Int64Size(m.poss_)
    OBVIOUS
  <2>2. 1 \in m.has => t.bytes = 1 + e /\ e \in Nat
    BY <1>1, <2>1 DEF IsPos, IntCell, WriteInt64, Int64Size, VarintSize
  <2>3. TotalBytes(Token(m, 1, t)) = Space(m, 1, t.bytes)
    BY <2>2, TokenBytes
  <2>4. QED
    BY <2>1, <2>2, <2>3 DEF Space, PosWire_poss
<1>4. QED
  BY <1>2, <1>3

\* ByteSizeLong() sets them, and nothing else.
LEMMA PosByteSizeLong ==
  ASSUME NEW m \in PosMessages, NEW p, p = vct_pos_ByteSizeLong(m)
  PROVE  p \in PosMessages /\ vct_pos_View(p) = vct_pos_View(m) /\ PosSized(p)
<1>1. IsPos(m) /\ HasFields(m, PosFields)
  BY PosIs DEF IsPos
<1>2. /\ HasFields(p, PosFields) /\ p.has = m.has /\ p.unk = m.unk
      /\ p.posm_ = m.posm_
      /\ p.poss_ = m.poss_
  BY <1>1 DEF vct_pos_ByteSizeLong, HasFields, PosFields
<1>3. p.size =
        TotalBytes(p.unk) +
        IF {0, 1} \subseteq p.has
        THEN 1 + Int64Size(p.posm_) + 1 + Int64Size(p.poss_)
        ELSE Space(p, 0, 1 + Int64Size(p.posm_)) + Space(p, 1, 1 + Int64Size(p.poss_))
  BY <1>1, <1>2 DEF vct_pos_ByteSizeLong, vct_pos_RequiredSize, Space, HasFields, PosFields
<1>4. IntCell(p.has, 0, p.posm_)
  BY <1>1, <1>2 DEF IsPos, IntCell
<1>5. IntCell(p.has, 1, p.poss_)
  BY <1>1, <1>2 DEF IsPos, IntCell
<1>6. PICK q : q = [p EXCEPT !.size = 0]
  OBVIOUS
<1>7. HasFields(q, PosFields) /\ q.size = 0
      /\ q.has = p.has /\ q.unk = p.unk /\ q.posm_ = p.posm_ /\ q.poss_ = p.poss_
  BY <1>2, <1>6 DEF HasFields, PosFields
<1>8. q.has \in SUBSET (0 .. 1) /\ q.unk \in Seq(PosUnknown) /\ q.size \in Nat
  BY <1>1, <1>2, <1>7 DEF IsPos
<1>9. q \in PosMessages
  <2>1. IsPos(q)
    BY <1>7, <1>8, <1>4, <1>5 DEF IsPos
  <2>2. QED
    BY <2>1, PosIs
<1>10. vct_pos_Serialize(q) = vct_pos_Serialize(p)
  BY <1>7 DEF vct_pos_Serialize, Token
<1>11. /\ p.size = TotalBytes(vct_pos_Serialize(p)) /\ p.size \in Nat
  <2>1. PICK u, a, b :
          /\ u = TotalBytes(q.unk)
          /\ a = TotalBytes(PosWire_posm(q))
          /\ b = TotalBytes(PosWire_poss(q))
    OBVIOUS
  <2>2. TotalBytes(vct_pos_Serialize(q)) = a + b + u /\ TotalBytes(vct_pos_Serialize(q)) \in Nat
    BY <1>9, <2>1, PosSerialize
  <2>3. /\ a = Space(p, 0, 1 + Int64Size(p.posm_)) /\
             (0 \in p.has => Int64Size(p.posm_) \in Nat)
        /\ b = Space(p, 1, 1 + Int64Size(p.poss_)) /\
             (1 \in p.has => Int64Size(p.poss_) \in Nat)
    <3>1. /\ TotalBytes(PosWire_posm(q)) = Space(q, 0, 1 + Int64Size(q.posm_)) /\
               (0 \in q.has => Int64Size(q.posm_) \in Nat)
            /\ TotalBytes(PosWire_poss(q)) = Space(q, 1, 1 + Int64Size(q.poss_)) /\
                 (1 \in q.has => Int64Size(q.poss_) \in Nat)
      BY <1>9, PosBytes
    <3>2. QED
      BY <2>1, <3>1, <1>7 DEF Space
  <2>4. u \in Nat /\ a \in Nat /\ b \in Nat
    <3>1. Measured(PosTokens)
      BY TokenParts DEF Measured, PosTokens
    <3>2. /\ q.unk \in Seq(PosTokens)
          /\ PosWire_posm(q) \in Seq(PosTokens) /\ PosWire_poss(q) \in Seq(PosTokens)
      BY <1>9, PosWrites
    <3>3. QED
      BY <2>1, <3>1, <3>2, BytesParts
  <2>5. p.size = u + (a + b)
    <3>1. /\ u = TotalBytes(p.unk)
          /\ {0, 1} \subseteq p.has => a = 1 + Int64Size(p.posm_) /\ b = 1 + Int64Size(p.poss_)
      BY <1>7, <2>1, <2>3 DEF Space
    <3>2. CASE {0, 1} \subseteq p.has
      <4>1. p.size = u + (1 + Int64Size(p.posm_) + 1 + Int64Size(p.poss_))
        BY <1>3, <3>1, <3>2
      <4>2. PICK e0, e1 : e0 = Int64Size(p.posm_) /\ e1 = Int64Size(p.poss_)
        OBVIOUS
      <4>3. p.size = u + (1 + e0 + 1 + e1)
        BY <4>1, <4>2
      <4>4. a = 1 + e0 /\ b = 1 + e1
        BY <3>1, <3>2, <4>2
      <4>5. e0 \in Int /\ e1 \in Int
        BY <2>3, <3>2, <4>2
      <4>6. QED
        BY <2>4, <4>3, <4>4, <4>5
    <3>3. CASE ~({0, 1} \subseteq p.has)
      BY <1>3, <2>3, <2>4, <3>1, <3>3
    <3>4. QED
      BY <3>2, <3>3
  <2>6. QED
    BY <1>10, <2>2, <2>4, <2>5
<1>12. p \in PosMessages
  <2>1. p.has \in SUBSET (0 .. 1) /\ p.unk \in Seq(PosUnknown) /\ p.size \in Nat
    BY <1>8, <1>7, <1>11
  <2>2. QED
    BY <1>2, <2>1, <1>4, <1>5, PosIs DEF IsPos
<1>13. PosAlike(p, m)
  BY <1>2 DEF PosAlike
<1>14. PosSized(p)
  BY <1>11 DEF PosSized
<1>15. QED
  BY <1>12, <1>13, <1>14, PosSame

\* The cached sizes are those of what is written.
ValueNSized(m) ==
  /\ m.size = TotalBytes(vct_value_n_Serialize(m))
  /\ 0 \in m.has => PosSized(m.pos_)

\* The space each field takes.
LEMMA ValueNBytes ==
  ASSUME NEW m \in ValueNMessages,
         0 \in m.has => PosSized(m.pos_)
  PROVE  /\ TotalBytes(ValueNWire_pos(m)) = Space(m, 0, 1 + LengthDelimitedSize(m.pos_.size)) /\
              (0 \in m.has => LengthDelimitedSize(m.pos_.size) \in Nat)
         /\ TotalBytes(ValueNWire_a(m)) = Space(m, 1, 1 + Int64Size(m.a_)) /\
              (1 \in m.has => Int64Size(m.a_) \in Nat)
         /\ TotalBytes(ValueNWire_b(m)) = Space(m, 2, 1 + Int64Size(m.b_)) /\
              (2 \in m.has => Int64Size(m.b_) \in Nat)
         /\ TotalBytes(ValueNWire_commit(m)) = Space(m, 3, 1 + 1) /\ (3 \in m.has => 1 \in Nat)
<1>1. IsValueN(m)
  BY ValueNIs
<1>2. TotalBytes(ValueNWire_pos(m)) = Space(m, 0, 1 + LengthDelimitedSize(m.pos_.size)) /\
        (0 \in m.has => LengthDelimitedSize(m.pos_.size) \in Nat)
  <2>1. PICK t, e : t = WriteMessage(1, m.pos_, vct_pos_Serialize(m.pos_)) /\
          e = LengthDelimitedSize(m.pos_.size)
    OBVIOUS
  <2>2. ASSUME 0 \in m.has PROVE t.bytes = 1 + e /\ e \in Nat
    <3>1. PosCell(m.has, 0, m.pos_)
      BY <1>1 DEF IsValueN
    <3>2. m.pos_ \in PosMessages
      BY <2>2, <3>1, PosIsOwned
    <3>3. PICK n, w : n = m.pos_.size /\ w = vct_pos_Serialize(m.pos_)
      OBVIOUS
    <3>4. n = TotalBytes(w) /\ n \in Nat /\ VarintSize(n) \in Nat
      BY <2>2, <3>2, <3>3, PosSerialize DEF PosSized, VarintSize
    <3>5. t.bytes = 1 + VarintSize(n) + TotalBytes(w) /\ e = VarintSize(n) + n
      BY <2>1, <3>3 DEF WriteMessage, LengthDelimitedSize
    <3>6. QED
      BY <3>4, <3>5
  <2>3. TotalBytes(Token(m, 0, t)) = Space(m, 0, t.bytes)
    BY <2>2, TokenBytes
  <2>4. QED
    BY <2>1, <2>2, <2>3 DEF Space, ValueNWire_pos
<1>3. TotalBytes(ValueNWire_a(m)) = Space(m, 1, 1 + Int64Size(m.a_)) /\
        (1 \in m.has => Int64Size(m.a_) \in Nat)
  <2>1. PICK t, e : t = WriteInt64(2, m.a_) /\ e = Int64Size(m.a_)
    OBVIOUS
  <2>2. 1 \in m.has => t.bytes = 1 + e /\ e \in Nat
    BY <1>1, <2>1 DEF IsValueN, IntCell, WriteInt64, Int64Size, VarintSize
  <2>3. TotalBytes(Token(m, 1, t)) = Space(m, 1, t.bytes)
    BY <2>2, TokenBytes
  <2>4. QED
    BY <2>1, <2>2, <2>3 DEF Space, ValueNWire_a
<1>4. TotalBytes(ValueNWire_b(m)) = Space(m, 2, 1 + Int64Size(m.b_)) /\
        (2 \in m.has => Int64Size(m.b_) \in Nat)
  <2>1. PICK t, e : t = WriteInt64(3, m.b_) /\ e = Int64Size(m.b_)
    OBVIOUS
  <2>2. 2 \in m.has => t.bytes = 1 + e /\ e \in Nat
    BY <1>1, <2>1 DEF IsValueN, IntCell, WriteInt64, Int64Size, VarintSize
  <2>3. TotalBytes(Token(m, 2, t)) = Space(m, 2, t.bytes)
    BY <2>2, TokenBytes
  <2>4. QED
    BY <2>1, <2>2, <2>3 DEF Space, ValueNWire_b
<1>5. TotalBytes(ValueNWire_commit(m)) = Space(m, 3, 1 + 1) /\ (3 \in m.has => 1 \in Nat)
  <2>1. PICK t, e : t = WriteBool(5, m.commit_) /\ e = 1
    OBVIOUS
  <2>2. 3 \in m.has => t.bytes = 1 + e /\ e \in Nat
    BY <1>1, <2>1 DEF IsValueN, BoolCell, WriteBool, WriteInt64, VarintSize
  <2>3. TotalBytes(Token(m, 3, t)) = Space(m, 3, t.bytes)
    BY <2>2, TokenBytes
  <2>4. QED
    BY <2>1, <2>2, <2>3 DEF Space, ValueNWire_commit
<1>6. QED
  BY <1>2, <1>3, <1>4, <1>5

\* ByteSizeLong() sets them, and nothing else.
LEMMA ValueNByteSizeLong ==
  ASSUME NEW m \in ValueNMessages, NEW p, p = vct_value_n_ByteSizeLong(m)
  PROVE  p \in ValueNMessages /\ vct_value_n_View(p) = vct_value_n_View(m) /\ ValueNSized(p)
<1>1. IsValueN(m) /\ HasFields(m, ValueNFields)
  BY ValueNIs DEF IsValueN
<1>2. /\ HasFields(p, ValueNFields) /\ p.has = m.has /\ p.unk = m.unk
      /\ p.pos_ = IF 0 \in m.has THEN vct_pos_ByteSizeLong(m.pos_) ELSE m.pos_
      /\ p.a_ = m.a_
      /\ p.b_ = m.b_
      /\ p.commit_ = m.commit_
  BY <1>1 DEF vct_value_n_ByteSizeLong, HasFields, ValueNFields
<1>3. p.size =
        TotalBytes(p.unk) +
        IF {0, 1, 2, 3} \subseteq p.has
        THEN 1 + LengthDelimitedSize(p.pos_.size) + 1 + Int64Size(p.a_) + 1 + Int64Size(p.b_) +
            1 + 1
        ELSE Space(p, 0, 1 + LengthDelimitedSize(p.pos_.size)) +
            Space(p, 1, 1 + Int64Size(p.a_)) + Space(p, 2, 1 + Int64Size(p.b_)) +
            Space(p, 3, 1 + 1)
  BY <1>1, <1>2 DEF vct_value_n_ByteSizeLong, vct_value_n_RequiredSize, Space, HasFields,
      ValueNFields
<1>4. /\ PosCell(p.has, 0, p.pos_) /\ PosShown(p.pos_) = PosShown(m.pos_)
      /\ 0 \in p.has => PosSized(p.pos_)
  <2>1. PosCell(m.has, 0, m.pos_)
    BY <1>1 DEF IsValueN
  <2>2. CASE 0 \in m.has
    <3>1. m.pos_ \in PosMessages /\ p.pos_ = vct_pos_ByteSizeLong(m.pos_)
      BY <1>2, <2>1, <2>2, PosIsOwned
    <3>2. p.pos_ \in PosMessages /\ vct_pos_View(p.pos_) = vct_pos_View(m.pos_) /\
            PosSized(p.pos_)
      BY <3>1, PosByteSizeLong
    <3>3. 0 \in p.has
      BY <1>2, <2>2
    <3>4. PosCell(p.has, 0, p.pos_)
      BY <3>2, <3>3, PosCells
    <3>5. QED
      BY <3>1, <3>2, <3>4, ClassesAssumption DEF PosShown, PosOwned
  <2>3. CASE 0 \notin m.has
    <3>1. p.pos_ = m.pos_ /\ p.has = m.has
      BY <1>2, <2>3
    <3>2. QED
      BY <2>1, <2>3, <3>1
  <2>4. QED
    BY <2>2, <2>3
<1>5. IntCell(p.has, 1, p.a_)
  BY <1>1, <1>2 DEF IsValueN, IntCell
<1>6. IntCell(p.has, 2, p.b_)
  BY <1>1, <1>2 DEF IsValueN, IntCell
<1>7. BoolCell(p.has, 3, p.commit_)
  BY <1>1, <1>2 DEF IsValueN, BoolCell
<1>8. PICK q : q = [p EXCEPT !.size = 0]
  OBVIOUS
<1>9. HasFields(q, ValueNFields) /\ q.size = 0
      /\ q.has = p.has /\ q.unk = p.unk /\ q.pos_ = p.pos_ /\ q.a_ = p.a_ /\ q.b_ = p.b_ /\
           q.commit_ = p.commit_
  BY <1>2, <1>8 DEF HasFields, ValueNFields
<1>10. q.has \in SUBSET (0 .. 3) /\ q.unk \in Seq(ValueNUnknown) /\ q.size \in Nat
  BY <1>1, <1>2, <1>9 DEF IsValueN
<1>11. q \in ValueNMessages
  <2>1. IsValueN(q)
    BY <1>9, <1>10, <1>4, <1>5, <1>6, <1>7 DEF IsValueN
  <2>2. QED
    BY <2>1, ValueNIs
<1>12. vct_value_n_Serialize(q) = vct_value_n_Serialize(p)
  BY <1>9 DEF vct_value_n_Serialize, Token
<1>13. /\ 0 \in q.has => PosSized(q.pos_)
  BY <1>9, <1>4
<1>14. /\ p.size = TotalBytes(vct_value_n_Serialize(p)) /\ p.size \in Nat
  <2>1. PICK u, a, b, c, d :
          /\ u = TotalBytes(q.unk)
          /\ a = TotalBytes(ValueNWire_pos(q))
          /\ b = TotalBytes(ValueNWire_a(q))
          /\ c = TotalBytes(ValueNWire_b(q))
          /\ d = TotalBytes(ValueNWire_commit(q))
    OBVIOUS
  <2>2. TotalBytes(vct_value_n_Serialize(q)) = a + b + c + d + u /\
          TotalBytes(vct_value_n_Serialize(q)) \in Nat
    BY <1>11, <2>1, ValueNSerialize
  <2>3. /\ a = Space(p, 0, 1 + LengthDelimitedSize(p.pos_.size)) /\
             (0 \in p.has => LengthDelimitedSize(p.pos_.size) \in Nat)
        /\ b = Space(p, 1, 1 + Int64Size(p.a_)) /\ (1 \in p.has => Int64Size(p.a_) \in Nat)
        /\ c = Space(p, 2, 1 + Int64Size(p.b_)) /\ (2 \in p.has => Int64Size(p.b_) \in Nat)
        /\ d = Space(p, 3, 1 + 1) /\ (3 \in p.has => 1 \in Nat)
    <3>1. /\ TotalBytes(ValueNWire_pos(q)) =
               Space(q, 0, 1 + LengthDelimitedSize(q.pos_.size)) /\
               (0 \in q.has => LengthDelimitedSize(q.pos_.size) \in Nat)
            /\ TotalBytes(ValueNWire_a(q)) = Space(q, 1, 1 + Int64Size(q.a_)) /\
                 (1 \in q.has => Int64Size(q.a_) \in Nat)
            /\ TotalBytes(ValueNWire_b(q)) = Space(q, 2, 1 + Int64Size(q.b_)) /\
                 (2 \in q.has => Int64Size(q.b_) \in Nat)
            /\ TotalBytes(ValueNWire_commit(q)) = Space(q, 3, 1 + 1) /\
                 (3 \in q.has => 1 \in Nat)
      BY <1>11, ValueNBytes, <1>13
    <3>2. QED
      BY <2>1, <3>1, <1>9 DEF Space
  <2>4. u \in Nat /\ a \in Nat /\ b \in Nat /\ c \in Nat /\ d \in Nat
    <3>1. Measured(ValueNTokens)
      BY TokenParts DEF Measured, ValueNTokens
    <3>2. /\ q.unk \in Seq(ValueNTokens)
          /\ ValueNWire_pos(q) \in Seq(ValueNTokens) /\ ValueNWire_a(q) \in Seq(ValueNTokens) /\
               ValueNWire_b(q) \in Seq(ValueNTokens) /\
               ValueNWire_commit(q) \in Seq(ValueNTokens)
      BY <1>11, ValueNWrites
    <3>3. QED
      BY <2>1, <3>1, <3>2, BytesParts
  <2>5. p.size = u + (a + b + c + d)
    <3>1. /\ u = TotalBytes(p.unk)
          /\ {0, 1, 2, 3} \subseteq p.has => a = 1 + LengthDelimitedSize(p.pos_.size) /\
               b = 1 + Int64Size(p.a_) /\ c = 1 + Int64Size(p.b_) /\ d = 1 + 1
      BY <1>9, <2>1, <2>3 DEF Space
    <3>2. CASE {0, 1, 2, 3} \subseteq p.has
      <4>1. p.size = u +
              (1 + LengthDelimitedSize(p.pos_.size) + 1 + Int64Size(p.a_) + 1 +
              Int64Size(p.b_) + 1 + 1)
        BY <1>3, <3>1, <3>2
      <4>2. PICK e0, e1, e2, e3 : e0 = LengthDelimitedSize(p.pos_.size) /\
              e1 = Int64Size(p.a_) /\ e2 = Int64Size(p.b_) /\ e3 = 1
        OBVIOUS
      <4>3. p.size = u + (1 + e0 + 1 + e1 + 1 + e2 + 1 + e3)
        BY <4>1, <4>2
      <4>4. a = 1 + e0 /\ b = 1 + e1 /\ c = 1 + e2 /\ d = 1 + e3
        BY <3>1, <3>2, <4>2
      <4>5. e0 \in Int /\ e1 \in Int /\ e2 \in Int /\ e3 \in Int
        BY <2>3, <3>2, <4>2
      <4>6. QED
        BY <2>4, <4>3, <4>4, <4>5
    <3>3. CASE ~({0, 1, 2, 3} \subseteq p.has)
      BY <1>3, <2>3, <2>4, <3>1, <3>3
    <3>4. QED
      BY <3>2, <3>3
  <2>6. QED
    BY <1>12, <2>2, <2>4, <2>5
<1>15. p \in ValueNMessages
  <2>1. p.has \in SUBSET (0 .. 3) /\ p.unk \in Seq(ValueNUnknown) /\ p.size \in Nat
    BY <1>10, <1>9, <1>14
  <2>2. QED
    BY <1>2, <2>1, <1>4, <1>5, <1>6, <1>7, ValueNIs DEF IsValueN
<1>16. ValueNAlike(p, m)
  BY <1>2, <1>4 DEF ValueNAlike
<1>17. ValueNSized(p)
  BY <1>14, <1>4 DEF ValueNSized
<1>18. QED
  BY <1>15, <1>16, <1>17, ValueNSame

\* The cached sizes are those of what is written.
ValueSized(m) ==
  /\ m.size = TotalBytes(vct_value_Serialize(m))
  /\ 1 \in m.has => ValueNSized(m.main_)
  /\ \A i \in 1 .. Len(m.his_) : ValueNSized(m.his_[i])

\* The space each field takes.
LEMMA ValueBytes ==
  ASSUME NEW m \in ValueMessages,
         1 \in m.has => ValueNSized(m.main_),
         \A i \in 1 .. Len(m.his_) : ValueNSized(m.his_[i])
  PROVE  /\ TotalBytes(ValueWire_key(m)) = Space(m, 0, 1 + StringSize(m.key_)) /\
              (0 \in m.has => StringSize(m.key_) \in Nat)
         /\ TotalBytes(ValueWire_main(m)) =
              Space(m, 1, 1 + LengthDelimitedSize(m.main_.size)) /\
              (1 \in m.has => LengthDelimitedSize(m.main_.size) \in Nat)
         /\ TotalBytes(ValueWire_his(m)) = RepeatedSize(m.his_)
         /\ TotalBytes(ValueWire_commit_count(m)) =
              Space(m, 2, 1 + Int64Size(m.commit_count_)) /\
              (2 \in m.has => Int64Size(m.commit_count_) \in Nat)
<1>1. IsValue(m)
  BY ValueIs
<1>2. TotalBytes(ValueWire_key(m)) = Space(m, 0, 1 + StringSize(m.key_)) /\
        (0 \in m.has => StringSize(m.key_) \in Nat)
  <2>1. PICK t, e : t = WriteString(1, m.key_) /\ e = StringSize(m.key_)
    OBVIOUS
  <2>2. 0 \in m.has => t.bytes = 1 + e /\ e \in Nat
    BY <1>1, <2>1 DEF IsValue, StringCell, WriteString, StringSize, LengthDelimitedSize,
        VarintSize, StringLength
  <2>3. TotalBytes(Token(m, 0, t)) = Space(m, 0, t.bytes)
    BY <2>2, TokenBytes
  <2>4. QED
    BY <2>1, <2>2, <2>3 DEF Space, ValueWire_key
<1>3. TotalBytes(ValueWire_main(m)) = Space(m, 1, 1 + LengthDelimitedSize(m.main_.size)) /\
        (1 \in m.has => LengthDelimitedSize(m.main_.size) \in Nat)
  <2>1. PICK t, e : t = WriteMessage(2, m.main_, vct_value_n_Serialize(m.main_)) /\
          e = LengthDelimitedSize(m.main_.size)
    OBVIOUS
  <2>2. ASSUME 1 \in m.has PROVE t.bytes = 1 + e /\ e \in Nat
    <3>1. ValueNCell(m.has, 1, m.main_)
      BY <1>1 DEF IsValue
    <3>2. m.main_ \in ValueNMessages
      BY <2>2, <3>1, ValueNIsOwned
    <3>3. PICK n, w : n = m.main_.size /\ w = vct_value_n_Serialize(m.main_)
      OBVIOUS
    <3>4. n = TotalBytes(w) /\ n \in Nat /\ VarintSize(n) \in Nat
      BY <2>2, <3>2, <3>3, ValueNSerialize DEF ValueNSized, VarintSize
    <3>5. t.bytes = 1 + VarintSize(n) + TotalBytes(w) /\ e = VarintSize(n) + n
      BY <2>1, <3>3 DEF WriteMessage, LengthDelimitedSize
    <3>6. QED
      BY <3>4, <3>5
  <2>3. TotalBytes(Token(m, 1, t)) = Space(m, 1, t.bytes)
    BY <2>2, TokenBytes
  <2>4. QED
    BY <2>1, <2>2, <2>3 DEF Space, ValueWire_main
<1>4. TotalBytes(ValueWire_his(m)) = RepeatedSize(m.his_)
  <2>1. PICK k \in Nat, h \in Seq(ValueNMessages) : h = m.his_ /\ k = Len(h)
    BY <1>1, LenProperties DEF IsValue
  <2>2. PICK a : a = [i \in 1 .. k |-> WriteMessage(3, h[i], vct_value_n_Serialize(h[i]))]
    OBVIOUS
  <2>3. ASSUME NEW i \in 1 .. k PROVE a[i].bytes = 1 + LengthDelimitedSize(h[i].size)
    <3>1. PICK e, n, w : e = h[i] /\ n = e.size /\ w = vct_value_n_Serialize(e) /\
            e \in ValueNMessages
      BY <2>1, ElementOfSeq
    <3>2. n = TotalBytes(w) /\ n \in Nat /\ VarintSize(n) \in Nat
      BY <2>1, <3>1, ValueNSerialize DEF ValueNSized, VarintSize
    <3>3. a[i].bytes = 1 + VarintSize(n) + TotalBytes(w)
      BY <2>2, <3>1 DEF WriteMessage
    <3>4. 1 + LengthDelimitedSize(h[i].size) = 1 + (VarintSize(n) + n)
      BY <3>1 DEF LengthDelimitedSize
    <3>5. QED
      BY <3>2, <3>3, <3>4
  <2>4. ValueWire_his(m) = a /\ Len(a) = k
    BY <2>1, <2>2 DEF ValueWire_his, WriteRepeated
  <2>5. [i \in 1 .. Len(a) |-> a[i].bytes] =
          [i \in 1 .. k |-> 1 + LengthDelimitedSize(h[i].size)]
    BY <2>3, <2>4
  <2>6. QED
    BY <2>1, <2>4, <2>5 DEF TotalBytes, RepeatedSize
<1>5. TotalBytes(ValueWire_commit_count(m)) = Space(m, 2, 1 + Int64Size(m.commit_count_)) /\
        (2 \in m.has => Int64Size(m.commit_count_) \in Nat)
  <2>1. PICK t, e : t = WriteInt64(4, m.commit_count_) /\ e = Int64Size(m.commit_count_)
    OBVIOUS
  <2>2. 2 \in m.has => t.bytes = 1 + e /\ e \in Nat
    BY <1>1, <2>1 DEF IsValue, IntCell, WriteInt64, Int64Size, VarintSize
  <2>3. TotalBytes(Token(m, 2, t)) = Space(m, 2, t.bytes)
    BY <2>2, TokenBytes
  <2>4. QED
    BY <2>1, <2>2, <2>3 DEF Space, ValueWire_commit_count
<1>6. QED
  BY <1>2, <1>3, <1>4, <1>5

\* ByteSizeLong() sets them, and nothing else.
LEMMA ValueByteSizeLong ==
  ASSUME NEW m \in ValueMessages, NEW p, p = vct_value_ByteSizeLong(m)
  PROVE  p \in ValueMessages /\ vct_value_View(p) = vct_value_View(m) /\ ValueSized(p)
<1>1. IsValue(m) /\ HasFields(m, ValueFields)
  BY ValueIs DEF IsValue
<1>2. /\ HasFields(p, ValueFields) /\ p.has = m.has /\ p.unk = m.unk
      /\ p.key_ = m.key_
      /\ p.main_ = IF 1 \in m.has THEN vct_value_n_ByteSizeLong(m.main_) ELSE m.main_
      /\ p.his_ = ForEach(m.his_, vct_value_n_ByteSizeLong)
      /\ p.commit_count_ = m.commit_count_
  BY <1>1 DEF vct_value_ByteSizeLong, HasFields, ValueFields
<1>3. p.size =
        TotalBytes(p.unk) + RepeatedSize(p.his_) +
        IF {0, 1, 2} \subseteq p.has
        THEN 1 + StringSize(p.key_) + 1 + LengthDelimitedSize(p.main_.size) + 1 +
            Int64Size(p.commit_count_)
        ELSE Space(p, 0, 1 + StringSize(p.key_)) +
            Space(p, 1, 1 + LengthDelimitedSize(p.main_.size)) +
            Space(p, 2, 1 + Int64Size(p.commit_count_))
  BY <1>1, <1>2 DEF vct_value_ByteSizeLong, vct_value_RequiredSize, Space, HasFields,
      ValueFields
<1>4. StringCell(p.has, 0, p.key_)
  BY <1>1, <1>2 DEF IsValue, StringCell
<1>5. /\ ValueNCell(p.has, 1, p.main_) /\ ValueNShown(p.main_) = ValueNShown(m.main_)
      /\ 1 \in p.has => ValueNSized(p.main_)
  <2>1. ValueNCell(m.has, 1, m.main_)
    BY <1>1 DEF IsValue
  <2>2. CASE 1 \in m.has
    <3>1. m.main_ \in ValueNMessages /\ p.main_ = vct_value_n_ByteSizeLong(m.main_)
      BY <1>2, <2>1, <2>2, ValueNIsOwned
    <3>2. p.main_ \in ValueNMessages /\ vct_value_n_View(p.main_) = vct_value_n_View(m.main_) /\
            ValueNSized(p.main_)
      BY <3>1, ValueNByteSizeLong
    <3>3. 1 \in p.has
      BY <1>2, <2>2
    <3>4. ValueNCell(p.has, 1, p.main_)
      BY <3>2, <3>3, ValueNCells
    <3>5. QED
      BY <3>1, <3>2, <3>4, ClassesAssumption DEF ValueNShown, ValueNOwned
  <2>3. CASE 1 \notin m.has
    <3>1. p.main_ = m.main_ /\ p.has = m.has
      BY <1>2, <2>3
    <3>2. QED
      BY <2>1, <2>3, <3>1
  <2>4. QED
    BY <2>2, <2>3
<1>6. /\ p.his_ \in Seq(ValueNMessages) /\ ValueNViews(p.his_) = ValueNViews(m.his_)
      /\ \A i \in 1 .. Len(p.his_) : ValueNSized(p.his_[i])
  <2>1. PICK k \in Nat, h \in Seq(ValueNMessages) : h = m.his_ /\ k = Len(h)
    BY <1>1, LenProperties DEF IsValue
  <2>2. PICK e : e = [i \in 1 .. k |-> vct_value_n_ByteSizeLong(h[i])]
    OBVIOUS
  <2>3. \A i \in 1 .. k : h[i] \in ValueNMessages
    BY <2>1, ElementOfSeq
  <2>4. \A i \in 1 .. k : e[i] \in ValueNMessages /\
          vct_value_n_View(e[i]) = vct_value_n_View(h[i]) /\ ValueNSized(e[i])
    BY <2>2, <2>3, ValueNByteSizeLong
  <2>5. e \in Seq(ValueNMessages) /\ Len(e) = k
    BY <2>2, <2>4
  <2>6. ValueNViews(e) = ValueNViews(h)
    BY <2>1, <2>4, <2>5, ValueNViewsSame
  <2>7. p.his_ = e
    BY <1>2, <2>1, <2>2 DEF ForEach
  <2>8. QED
    BY <2>1, <2>4, <2>5, <2>6, <2>7
<1>7. IntCell(p.has, 2, p.commit_count_)
  BY <1>1, <1>2 DEF IsValue, IntCell
<1>8. PICK q : q = [p EXCEPT !.size = 0]
  OBVIOUS
<1>9. HasFields(q, ValueFields) /\ q.size = 0
      /\ q.has = p.has /\ q.unk = p.unk /\ q.key_ = p.key_ /\ q.main_ = p.main_ /\
           q.his_ = p.his_ /\ q.commit_count_ = p.commit_count_
  BY <1>2, <1>8 DEF HasFields, ValueFields
<1>10. q.has \in SUBSET (0 .. 2) /\ q.unk \in Seq(ValueUnknown) /\ q.size \in Nat
  BY <1>1, <1>2, <1>9 DEF IsValue
<1>11. q \in ValueMessages
  <2>1. IsValue(q)
    BY <1>9, <1>10, <1>4, <1>5, <1>6, <1>7 DEF IsValue
  <2>2. QED
    BY <2>1, ValueIs
<1>12. vct_value_Serialize(q) = vct_value_Serialize(p)
  BY <1>9 DEF vct_value_Serialize, Token
<1>13. /\ 1 \in q.has => ValueNSized(q.main_)
      /\ \A i \in 1 .. Len(q.his_) : ValueNSized(q.his_[i])
  BY <1>9, <1>5, <1>6
<1>14. /\ p.size = TotalBytes(vct_value_Serialize(p)) /\ p.size \in Nat
  <2>1. PICK u, a, b, c, d :
          /\ u = TotalBytes(q.unk)
          /\ a = TotalBytes(ValueWire_key(q))
          /\ b = TotalBytes(ValueWire_main(q))
          /\ c = TotalBytes(ValueWire_his(q))
          /\ d = TotalBytes(ValueWire_commit_count(q))
    OBVIOUS
  <2>2. TotalBytes(vct_value_Serialize(q)) = a + b + c + d + u /\
          TotalBytes(vct_value_Serialize(q)) \in Nat
    BY <1>11, <2>1, ValueSerialize
  <2>3. /\ a = Space(p, 0, 1 + StringSize(p.key_)) /\
             (0 \in p.has => StringSize(p.key_) \in Nat)
        /\ b = Space(p, 1, 1 + LengthDelimitedSize(p.main_.size)) /\
             (1 \in p.has => LengthDelimitedSize(p.main_.size) \in Nat)
        /\ c = RepeatedSize(p.his_)
        /\ d = Space(p, 2, 1 + Int64Size(p.commit_count_)) /\
             (2 \in p.has => Int64Size(p.commit_count_) \in Nat)
    <3>1. /\ TotalBytes(ValueWire_key(q)) = Space(q, 0, 1 + StringSize(q.key_)) /\
               (0 \in q.has => StringSize(q.key_) \in Nat)
            /\ TotalBytes(ValueWire_main(q)) =
                 Space(q, 1, 1 + LengthDelimitedSize(q.main_.size)) /\
                 (1 \in q.has => LengthDelimitedSize(q.main_.size) \in Nat)
            /\ TotalBytes(ValueWire_his(q)) = RepeatedSize(q.his_)
            /\ TotalBytes(ValueWire_commit_count(q)) =
                 Space(q, 2, 1 + Int64Size(q.commit_count_)) /\
                 (2 \in q.has => Int64Size(q.commit_count_) \in Nat)
      BY <1>11, ValueBytes, <1>13
    <3>2. QED
      BY <2>1, <3>1, <1>9 DEF Space
  <2>4. u \in Nat /\ a \in Nat /\ b \in Nat /\ c \in Nat /\ d \in Nat
    <3>1. Measured(ValueTokens)
      BY TokenParts DEF Measured, ValueTokens
    <3>2. /\ q.unk \in Seq(ValueTokens)
          /\ ValueWire_key(q) \in Seq(ValueTokens) /\ ValueWire_main(q) \in Seq(ValueTokens) /\
               ValueWire_his(q) \in Seq(ValueTokens) /\
               ValueWire_commit_count(q) \in Seq(ValueTokens)
      BY <1>11, ValueWrites
    <3>3. QED
      BY <2>1, <3>1, <3>2, BytesParts
  <2>5. p.size = u + c + (a + b + d)
    <3>1. /\ u = TotalBytes(p.unk) /\ c = RepeatedSize(p.his_)
          /\ {0, 1, 2} \subseteq p.has => a = 1 + StringSize(p.key_) /\
               b = 1 + LengthDelimitedSize(p.main_.size) /\ d = 1 + Int64Size(p.commit_count_)
      BY <1>9, <2>1, <2>3 DEF Space
    <3>2. CASE {0, 1, 2} \subseteq p.has
      <4>1. p.size = u + c +
              (1 + StringSize(p.key_) + 1 + LengthDelimitedSize(p.main_.size) + 1 +
              Int64Size(p.commit_count_))
        BY <1>3, <3>1, <3>2
      <4>2. PICK e0, e1, e2 : e0 = StringSize(p.key_) /\
              e1 = LengthDelimitedSize(p.main_.size) /\ e2 = Int64Size(p.commit_count_)
        OBVIOUS
      <4>3. p.size = u + c + (1 + e0 + 1 + e1 + 1 + e2)
        BY <4>1, <4>2
      <4>4. a = 1 + e0 /\ b = 1 + e1 /\ d = 1 + e2
        BY <3>1, <3>2, <4>2
      <4>5. e0 \in Int /\ e1 \in Int /\ e2 \in Int
        BY <2>3, <3>2, <4>2
      <4>6. QED
        BY <2>4, <4>3, <4>4, <4>5
    <3>3. CASE ~({0, 1, 2} \subseteq p.has)
      BY <1>3, <2>3, <2>4, <3>1, <3>3
    <3>4. QED
      BY <3>2, <3>3
  <2>6. QED
    BY <1>12, <2>2, <2>4, <2>5
<1>15. p \in ValueMessages
  <2>1. p.has \in SUBSET (0 .. 2) /\ p.unk \in Seq(ValueUnknown) /\ p.size \in Nat
    BY <1>10, <1>9, <1>14
  <2>2. QED
    BY <1>2, <2>1, <1>4, <1>5, <1>6, <1>7, ValueIs DEF IsValue
<1>16. ValueAlike(p, m)
  BY <1>2, <1>5, <1>6 DEF ValueAlike
<1>17. ValueSized(p)
  BY <1>14, <1>5, <1>6 DEF ValueSized
<1>18. QED
  BY <1>15, <1>16, <1>17, ValueSame

\* The cached sizes are those of what is written.
KeytableSized(m) ==
  /\ m.size = TotalBytes(keytable_value_Serialize(m))

\* The space each field takes.
LEMMA KeytableBytes ==
  ASSUME NEW m \in KeytableMessages
  PROVE  /\ TotalBytes(KeytableWire_field(m)) = Space(m, 0, 1 + StringSize(m.field_)) /\
              (0 \in m.has => StringSize(m.field_) \in Nat)
         /\ TotalBytes(KeytableWire_route_table(m)) =
              Space(m, 1, 1 + StringSize(m.route_table_)) /\
              (1 \in m.has => StringSize(m.route_table_) \in Nat)
         /\ TotalBytes(KeytableWire_route_table_field(m)) =
              Space(m, 2, 1 + StringSize(m.route_table_field_)) /\
              (2 \in m.has => StringSize(m.route_table_field_) \in Nat)
<1>1. IsKeytable(m)
  BY KeytableIs
<1>2. TotalBytes(KeytableWire_field(m)) = Space(m, 0, 1 + StringSize(m.field_)) /\
        (0 \in m.has => StringSize(m.field_) \in Nat)
  <2>1. PICK t, e : t = WriteString(1, m.field_) /\ e = StringSize(m.field_)
    OBVIOUS
  <2>2. 0 \in m.has => t.bytes = 1 + e /\ e \in Nat
    BY <1>1, <2>1 DEF IsKeytable, StringCell, WriteString, StringSize, LengthDelimitedSize,
        VarintSize, StringLength
  <2>3. TotalBytes(Token(m, 0, t)) = Space(m, 0, t.bytes)
    BY <2>2, TokenBytes
  <2>4. QED
    BY <2>1, <2>2, <2>3 DEF Space, KeytableWire_field
<1>3. TotalBytes(KeytableWire_route_table(m)) = Space(m, 1, 1 + StringSize(m.route_table_)) /\
        (1 \in m.has => StringSize(m.route_table_) \in Nat)
  <2>1. PICK t, e : t = WriteString(2, m.route_table_) /\ e = StringSize(m.route_table_)
    OBVIOUS
  <2>2. 1 \in m.has => t.bytes = 1 + e /\ e \in Nat
    BY <1>1, <2>1 DEF IsKeytable, StringCell, WriteString, StringSize, LengthDelimitedSize,
        VarintSize, StringLength
  <2>3. TotalBytes(Token(m, 1, t)) = Space(m, 1, t.bytes)
    BY <2>2, TokenBytes
  <2>4. QED
    BY <2>1, <2>2, <2>3 DEF Space, KeytableWire_route_table
<1>4. TotalBytes(KeytableWire_route_table_field(m)) =
        Space(m, 2, 1 + StringSize(m.route_table_field_)) /\
        (2 \in m.has => StringSize(m.route_table_field_) \in Nat)
  <2>1. PICK t, e : t = WriteString(3, m.route_table_field_) /\
          e = StringSize(m.route_table_field_)
    OBVIOUS
  <2>2. 2 \in m.has => t.bytes = 1 + e /\ e \in Nat
    BY <1>1, <2>1 DEF IsKeytable, StringCell, WriteString, StringSize, LengthDelimitedSize,
        VarintSize, StringLength
  <2>3. TotalBytes(Token(m, 2, t)) = Space(m, 2, t.bytes)
    BY <2>2, TokenBytes
  <2>4. QED
    BY <2>1, <2>2, <2>3 DEF Space, KeytableWire_route_table_field
<1>5. QED
  BY <1>2, <1>3, <1>4

\* ByteSizeLong() sets them, and nothing else.
LEMMA KeytableByteSizeLong ==
  ASSUME NEW m \in KeytableMessages, NEW p, p = keytable_value_ByteSizeLong(m)
  PROVE  p \in KeytableMessages /\ keytable_value_View(p) = keytable_value_View(m) /\
           KeytableSized(p)
<1>1. IsKeytable(m) /\ HasFields(m, KeytableFields)
  BY KeytableIs DEF IsKeytable
<1>2. /\ HasFields(p, KeytableFields) /\ p.has = m.has /\ p.unk = m.unk
      /\ p.field_ = m.field_
      /\ p.route_table_ = m.route_table_
      /\ p.route_table_field_ = m.route_table_field_
  BY <1>1 DEF keytable_value_ByteSizeLong, HasFields, KeytableFields
<1>3. p.size =
        TotalBytes(p.unk) +
        IF {0, 1, 2} \subseteq p.has
        THEN 1 + StringSize(p.field_) + 1 + StringSize(p.route_table_) + 1 +
            StringSize(p.route_table_field_)
        ELSE Space(p, 0, 1 + StringSize(p.field_)) +
            Space(p, 1, 1 + StringSize(p.route_table_)) +
            Space(p, 2, 1 + StringSize(p.route_table_field_))
  BY <1>1, <1>2 DEF keytable_value_ByteSizeLong, keytable_value_RequiredSize, Space, HasFields,
      KeytableFields
<1>4. StringCell(p.has, 0, p.field_)
  BY <1>1, <1>2 DEF IsKeytable, StringCell
<1>5. StringCell(p.has, 1, p.route_table_)
  BY <1>1, <1>2 DEF IsKeytable, StringCell
<1>6. StringCell(p.has, 2, p.route_table_field_)
  BY <1>1, <1>2 DEF IsKeytable, StringCell
<1>7. PICK q : q = [p EXCEPT !.size = 0]
  OBVIOUS
<1>8. HasFields(q, KeytableFields) /\ q.size = 0
      /\ q.has = p.has /\ q.unk = p.unk /\ q.field_ = p.field_ /\
           q.route_table_ = p.route_table_ /\ q.route_table_field_ = p.route_table_field_
  BY <1>2, <1>7 DEF HasFields, KeytableFields
<1>9. q.has \in SUBSET (0 .. 2) /\ q.unk \in Seq(KeytableUnknown) /\ q.size \in Nat
  BY <1>1, <1>2, <1>8 DEF IsKeytable
<1>10. q \in KeytableMessages
  <2>1. IsKeytable(q)
    BY <1>8, <1>9, <1>4, <1>5, <1>6 DEF IsKeytable
  <2>2. QED
    BY <2>1, KeytableIs
<1>11. keytable_value_Serialize(q) = keytable_value_Serialize(p)
  BY <1>8 DEF keytable_value_Serialize, Token
<1>12. /\ p.size = TotalBytes(keytable_value_Serialize(p)) /\ p.size \in Nat
  <2>1. PICK u, a, b, c :
          /\ u = TotalBytes(q.unk)
          /\ a = TotalBytes(KeytableWire_field(q))
          /\ b = TotalBytes(KeytableWire_route_table(q))
          /\ c = TotalBytes(KeytableWire_route_table_field(q))
    OBVIOUS
  <2>2. TotalBytes(keytable_value_Serialize(q)) = a + b + c + u /\
          TotalBytes(keytable_value_Serialize(q)) \in Nat
    BY <1>10, <2>1, KeytableSerialize
  <2>3. /\ a = Space(p, 0, 1 + StringSize(p.field_)) /\
             (0 \in p.has => StringSize(p.field_) \in Nat)
        /\ b = Space(p, 1, 1 + StringSize(p.route_table_)) /\
             (1 \in p.has => StringSize(p.route_table_) \in Nat)
        /\ c = Space(p, 2, 1 + StringSize(p.route_table_field_)) /\
             (2 \in p.has => StringSize(p.route_table_field_) \in Nat)
    <3>1. /\ TotalBytes(KeytableWire_field(q)) = Space(q, 0, 1 + StringSize(q.field_)) /\
               (0 \in q.has => StringSize(q.field_) \in Nat)
            /\ TotalBytes(KeytableWire_route_table(q)) =
                 Space(q, 1, 1 + StringSize(q.route_table_)) /\
                 (1 \in q.has => StringSize(q.route_table_) \in Nat)
            /\ TotalBytes(KeytableWire_route_table_field(q)) =
                 Space(q, 2, 1 + StringSize(q.route_table_field_)) /\
                 (2 \in q.has => StringSize(q.route_table_field_) \in Nat)
      BY <1>10, KeytableBytes
    <3>2. QED
      BY <2>1, <3>1, <1>8 DEF Space
  <2>4. u \in Nat /\ a \in Nat /\ b \in Nat /\ c \in Nat
    <3>1. Measured(KeytableTokens)
      BY TokenParts DEF Measured, KeytableTokens
    <3>2. /\ q.unk \in Seq(KeytableTokens)
          /\ KeytableWire_field(q) \in Seq(KeytableTokens) /\
               KeytableWire_route_table(q) \in Seq(KeytableTokens) /\
               KeytableWire_route_table_field(q) \in Seq(KeytableTokens)
      BY <1>10, KeytableWrites
    <3>3. QED
      BY <2>1, <3>1, <3>2, BytesParts
  <2>5. p.size = u + (a + b + c)
    <3>1. /\ u = TotalBytes(p.unk)
          /\ {0, 1, 2} \subseteq p.has => a = 1 + StringSize(p.field_) /\
               b = 1 + StringSize(p.route_table_) /\ c = 1 + StringSize(p.route_table_field_)
      BY <1>8, <2>1, <2>3 DEF Space
    <3>2. CASE {0, 1, 2} \subseteq p.has
      <4>1. p.size = u +
              (1 + StringSize(p.field_) + 1 + StringSize(p.route_table_) + 1 +
              StringSize(p.route_table_field_))
        BY <1>3, <3>1, <3>2
      <4>2. PICK e0, e1, e2 : e0 = StringSize(p.field_) /\ e1 = StringSize(p.route_table_) /\
              e2 = StringSize(p.route_table_field_)
        OBVIOUS
      <4>3. p.size = u + (1 + e0 + 1 + e1 + 1 + e2)
        BY <4>1, <4>2
      <4>4. a = 1 + e0 /\ b = 1 + e1 /\ c = 1 + e2
        BY <3>1, <3>2, <4>2
      <4>5. e0 \in Int /\ e1 \in Int /\ e2 \in Int
        BY <2>3, <3>2, <4>2
      <4>6. QED
        BY <2>4, <4>3, <4>4, <4>5
    <3>3. CASE ~({0, 1, 2} \subseteq p.has)
      BY <1>3, <2>3, <2>4, <3>1, <3>3
    <3>4. QED
      BY <3>2, <3>3
  <2>6. QED
    BY <1>11, <2>2, <2>4, <2>5
<1>13. p \in KeytableMessages
  <2>1. p.has \in SUBSET (0 .. 2) /\ p.unk \in Seq(KeytableUnknown) /\ p.size \in Nat
    BY <1>9, <1>8, <1>12
  <2>2. QED
    BY <1>2, <2>1, <1>4, <1>5, <1>6, KeytableIs DEF IsKeytable
<1>14. KeytableAlike(p, m)
  BY <1>2 DEF KeytableAlike
<1>15. KeytableSized(p)
  BY <1>12 DEF KeytableSized
<1>16. QED
  BY <1>13, <1>14, <1>15, KeytableSame

\* The cached sizes are those of what is written.
ColSized(m) ==
  /\ m.size = TotalBytes(route_value_col_Serialize(m))

\* The space each field takes.
LEMMA ColBytes ==
  ASSUME NEW m \in ColMessages
  PROVE  /\ TotalBytes(ColWire_name(m)) = Space(m, 0, 1 + StringSize(m.name_)) /\
              (0 \in m.has => StringSize(m.name_) \in Nat)
         /\ TotalBytes(ColWire_value(m)) = Space(m, 1, 1 + StringSize(m.value_)) /\
              (1 \in m.has => StringSize(m.value_) \in Nat)
<1>1. IsCol(m)
  BY ColIs
<1>2. TotalBytes(ColWire_name(m)) = Space(m, 0, 1 + StringSize(m.name_)) /\
        (0 \in m.has => StringSize(m.name_) \in Nat)
  <2>1. PICK t, e : t = WriteString(1, m.name_) /\ e = StringSize(m.name_)
    OBVIOUS
  <2>2. 0 \in m.has => t.bytes = 1 + e /\ e \in Nat
    BY <1>1, <2>1 DEF IsCol, StringCell, WriteString, StringSize, LengthDelimitedSize,
        VarintSize, StringLength
  <2>3. TotalBytes(Token(m, 0, t)) = Space(m, 0, t.bytes)
    BY <2>2, TokenBytes
  <2>4. QED
    BY <2>1, <2>2, <2>3 DEF Space, ColWire_name
<1>3. TotalBytes(ColWire_value(m)) = Space(m, 1, 1 + StringSize(m.value_)) /\
        (1 \in m.has => StringSize(m.value_) \in Nat)
  <2>1. PICK t, e : t = WriteString(2, m.value_) /\ e = StringSize(m.value_)
    OBVIOUS
  <2>2. 1 \in m.has => t.bytes = 1 + e /\ e \in Nat
    BY <1>1, <2>1 DEF IsCol, StringCell, WriteString, StringSize, LengthDelimitedSize,
        VarintSize, StringLength
  <2>3. TotalBytes(Token(m, 1, t)) = Space(m, 1, t.bytes)
    BY <2>2, TokenBytes
  <2>4. QED
    BY <2>1, <2>2, <2>3 DEF Space, ColWire_value
<1>4. QED
  BY <1>2, <1>3

\* ByteSizeLong() sets them, and nothing else.
LEMMA ColByteSizeLong ==
  ASSUME NEW m \in ColMessages, NEW p, p = route_value_col_ByteSizeLong(m)
  PROVE  p \in ColMessages /\ route_value_col_View(p) = route_value_col_View(m) /\ ColSized(p)
<1>1. IsCol(m) /\ HasFields(m, ColFields)
  BY ColIs DEF IsCol
<1>2. /\ HasFields(p, ColFields) /\ p.has = m.has /\ p.unk = m.unk
      /\ p.name_ = m.name_
      /\ p.value_ = m.value_
  BY <1>1 DEF route_value_col_ByteSizeLong, HasFields, ColFields
<1>3. p.size =
        TotalBytes(p.unk) +
        IF {0, 1} \subseteq p.has
        THEN 1 + StringSize(p.name_) + 1 + StringSize(p.value_)
        ELSE Space(p, 0, 1 + StringSize(p.name_)) + Space(p, 1, 1 + StringSize(p.value_))
  BY <1>1, <1>2 DEF route_value_col_ByteSizeLong, route_value_col_RequiredSize, Space,
      HasFields, ColFields
<1>4. StringCell(p.has, 0, p.name_)
  BY <1>1, <1>2 DEF IsCol, StringCell
<1>5. StringCell(p.has, 1, p.value_)
  BY <1>1, <1>2 DEF IsCol, StringCell
<1>6. PICK q : q = [p EXCEPT !.size = 0]
  OBVIOUS
<1>7. HasFields(q, ColFields) /\ q.size = 0
      /\ q.has = p.has /\ q.unk = p.unk /\ q.name_ = p.name_ /\ q.value_ = p.value_
  BY <1>2, <1>6 DEF HasFields, ColFields
<1>8. q.has \in SUBSET (0 .. 1) /\ q.unk \in Seq(ColUnknown) /\ q.size \in Nat
  BY <1>1, <1>2, <1>7 DEF IsCol
<1>9. q \in ColMessages
  <2>1. IsCol(q)
    BY <1>7, <1>8, <1>4, <1>5 DEF IsCol
  <2>2. QED
    BY <2>1, ColIs
<1>10. route_value_col_Serialize(q) = route_value_col_Serialize(p)
  BY <1>7 DEF route_value_col_Serialize, Token
<1>11. /\ p.size = TotalBytes(route_value_col_Serialize(p)) /\ p.size \in Nat
  <2>1. PICK u, a, b :
          /\ u = TotalBytes(q.unk)
          /\ a = TotalBytes(ColWire_name(q))
          /\ b = TotalBytes(ColWire_value(q))
    OBVIOUS
  <2>2. TotalBytes(route_value_col_Serialize(q)) = a + b + u /\
          TotalBytes(route_value_col_Serialize(q)) \in Nat
    BY <1>9, <2>1, ColSerialize
  <2>3. /\ a = Space(p, 0, 1 + StringSize(p.name_)) /\
             (0 \in p.has => StringSize(p.name_) \in Nat)
        /\ b = Space(p, 1, 1 + StringSize(p.value_)) /\
             (1 \in p.has => StringSize(p.value_) \in Nat)
    <3>1. /\ TotalBytes(ColWire_name(q)) = Space(q, 0, 1 + StringSize(q.name_)) /\
               (0 \in q.has => StringSize(q.name_) \in Nat)
            /\ TotalBytes(ColWire_value(q)) = Space(q, 1, 1 + StringSize(q.value_)) /\
                 (1 \in q.has => StringSize(q.value_) \in Nat)
      BY <1>9, ColBytes
    <3>2. QED
      BY <2>1, <3>1, <1>7 DEF Space
  <2>4. u \in Nat /\ a \in Nat /\ b \in Nat
    <3>1. Measured(ColTokens)
      BY TokenParts DEF Measured, ColTokens
    <3>2. /\ q.unk \in Seq(ColTokens)
          /\ ColWire_name(q) \in Seq(ColTokens) /\ ColWire_value(q) \in Seq(ColTokens)
      BY <1>9, ColWrites
    <3>3. QED
      BY <2>1, <3>1, <3>2, BytesParts
  <2>5. p.size = u + (a + b)
    <3>1. /\ u = TotalBytes(p.unk)
          /\ {0, 1} \subseteq p.has => a = 1 + StringSize(p.name_) /\
               b = 1 + StringSize(p.value_)
      BY <1>7, <2>1, <2>3 DEF Space
    <3>2. CASE {0, 1} \subseteq p.has
      <4>1. p.size = u + (1 + StringSize(p.name_) + 1 + StringSize(p.value_))
        BY <1>3, <3>1, <3>2
      <4>2. PICK e0, e1 : e0 = StringSize(p.name_) /\ e1 = StringSize(p.value_)
        OBVIOUS
      <4>3. p.size = u + (1 + e0 + 1 + e1)
        BY <4>1, <4>2
      <4>4. a = 1 + e0 /\ b = 1 + e1
        BY <3>1, <3>2, <4>2
      <4>5. e0 \in Int /\ e1 \in Int
        BY <2>3, <3>2, <4>2
      <4>6. QED
        BY <2>4, <4>3, <4>4, <4>5
    <3>3. CASE ~({0, 1} \subseteq p.has)
      BY <1>3, <2>3, <2>4, <3>1, <3>3
    <3>4. QED
      BY <3>2, <3>3
  <2>6. QED
    BY <1>10, <2>2, <2>4, <2>5
<1>12. p \in ColMessages
  <2>1. p.has \in SUBSET (0 .. 1) /\ p.unk \in Seq(ColUnknown) /\ p.size \in Nat
    BY <1>8, <1>7, <1>11
  <2>2. QED
    BY <1>2, <2>1, <1>4, <1>5, ColIs DEF IsCol
<1>13. ColAlike(p, m)
  BY <1>2 DEF ColAlike
<1>14. ColSized(p)
  BY <1>11 DEF ColSized
<1>15. QED
  BY <1>12, <1>13, <1>14, ColSame

\* The cached sizes are those of what is written.
RouteSized(m) ==
  /\ m.size = TotalBytes(route_value_Serialize(m))
  /\ \A i \in 1 .. Len(m.col_) : ColSized(m.col_[i])

\* The space each field takes.
LEMMA RouteBytes ==
  ASSUME NEW m \in RouteMessages,
         \A i \in 1 .. Len(m.col_) : ColSized(m.col_[i])
  PROVE  /\ TotalBytes(RouteWire_region(m)) = Space(m, 0, 1 + StringSize(m.region_)) /\
              (0 \in m.has => StringSize(m.region_) \in Nat)
         /\ TotalBytes(RouteWire_area(m)) = Space(m, 1, 1 + StringSize(m.area_)) /\
              (1 \in m.has => StringSize(m.area_) \in Nat)
         /\ TotalBytes(RouteWire_col(m)) = RepeatedSize(m.col_)
<1>1. IsRoute(m)
  BY RouteIs
<1>2. TotalBytes(RouteWire_region(m)) = Space(m, 0, 1 + StringSize(m.region_)) /\
        (0 \in m.has => StringSize(m.region_) \in Nat)
  <2>1. PICK t, e : t = WriteString(1, m.region_) /\ e = StringSize(m.region_)
    OBVIOUS
  <2>2. 0 \in m.has => t.bytes = 1 + e /\ e \in Nat
    BY <1>1, <2>1 DEF IsRoute, StringCell, WriteString, StringSize, LengthDelimitedSize,
        VarintSize, StringLength
  <2>3. TotalBytes(Token(m, 0, t)) = Space(m, 0, t.bytes)
    BY <2>2, TokenBytes
  <2>4. QED
    BY <2>1, <2>2, <2>3 DEF Space, RouteWire_region
<1>3. TotalBytes(RouteWire_area(m)) = Space(m, 1, 1 + StringSize(m.area_)) /\
        (1 \in m.has => StringSize(m.area_) \in Nat)
  <2>1. PICK t, e : t = WriteString(2, m.area_) /\ e = StringSize(m.area_)
    OBVIOUS
  <2>2. 1 \in m.has => t.bytes = 1 + e /\ e \in Nat
    BY <1>1, <2>1 DEF IsRoute, StringCell, WriteString, StringSize, LengthDelimitedSize,
        VarintSize, StringLength
  <2>3. TotalBytes(Token(m, 1, t)) = Space(m, 1, t.bytes)
    BY <2>2, TokenBytes
  <2>4. QED
    BY <2>1, <2>2, <2>3 DEF Space, RouteWire_area
<1>4. TotalBytes(RouteWire_col(m)) = RepeatedSize(m.col_)
  <2>1. PICK k \in Nat, h \in Seq(ColMessages) : h = m.col_ /\ k = Len(h)
    BY <1>1, LenProperties DEF IsRoute
  <2>2. PICK a : a = [i \in 1 .. k |-> WriteMessage(3, h[i], route_value_col_Serialize(h[i]))]
    OBVIOUS
  <2>3. ASSUME NEW i \in 1 .. k PROVE a[i].bytes = 1 + LengthDelimitedSize(h[i].size)
    <3>1. PICK e, n, w : e = h[i] /\ n = e.size /\ w = route_value_col_Serialize(e) /\
            e \in ColMessages
      BY <2>1, ElementOfSeq
    <3>2. n = TotalBytes(w) /\ n \in Nat /\ VarintSize(n) \in Nat
      BY <2>1, <3>1, ColSerialize DEF ColSized, VarintSize
    <3>3. a[i].bytes = 1 + VarintSize(n) + TotalBytes(w)
      BY <2>2, <3>1 DEF WriteMessage
    <3>4. 1 + LengthDelimitedSize(h[i].size) = 1 + (VarintSize(n) + n)
      BY <3>1 DEF LengthDelimitedSize
    <3>5. QED
      BY <3>2, <3>3, <3>4
  <2>4. RouteWire_col(m) = a /\ Len(a) = k
    BY <2>1, <2>2 DEF RouteWire_col, WriteRepeated
  <2>5. [i \in 1 .. Len(a) |-> a[i].bytes] =
          [i \in 1 .. k |-> 1 + LengthDelimitedSize(h[i].size)]
    BY <2>3, <2>4
  <2>6. QED
    BY <2>1, <2>4, <2>5 DEF TotalBytes, RepeatedSize
<1>5. QED
  BY <1>2, <1>3, <1>4

\* ByteSizeLong() sets them, and nothing else.
LEMMA RouteByteSizeLong ==
  ASSUME NEW m \in RouteMessages, NEW p, p = route_value_ByteSizeLong(m)
  PROVE  p \in RouteMessages /\ route_value_View(p) = route_value_View(m) /\ RouteSized(p)
<1>1. IsRoute(m) /\ HasFields(m, RouteFields)
  BY RouteIs DEF IsRoute
<1>2. /\ HasFields(p, RouteFields) /\ p.has = m.has /\ p.unk = m.unk
      /\ p.region_ = m.region_
      /\ p.area_ = m.area_
      /\ p.col_ = ForEach(m.col_, route_value_col_ByteSizeLong)
  BY <1>1 DEF route_value_ByteSizeLong, HasFields, RouteFields
<1>3. p.size =
        TotalBytes(p.unk) + RepeatedSize(p.col_) +
        IF {0, 1} \subseteq p.has
        THEN 1 + StringSize(p.region_) + 1 + StringSize(p.area_)
        ELSE Space(p, 0, 1 + StringSize(p.region_)) + Space(p, 1, 1 + StringSize(p.area_))
  BY <1>1, <1>2 DEF route_value_ByteSizeLong, route_value_RequiredSize, Space, HasFields,
      RouteFields
<1>4. StringCell(p.has, 0, p.region_)
  BY <1>1, <1>2 DEF IsRoute, StringCell
<1>5. StringCell(p.has, 1, p.area_)
  BY <1>1, <1>2 DEF IsRoute, StringCell
<1>6. /\ p.col_ \in Seq(ColMessages) /\ ColViews(p.col_) = ColViews(m.col_)
      /\ \A i \in 1 .. Len(p.col_) : ColSized(p.col_[i])
  <2>1. PICK k \in Nat, h \in Seq(ColMessages) : h = m.col_ /\ k = Len(h)
    BY <1>1, LenProperties DEF IsRoute
  <2>2. PICK e : e = [i \in 1 .. k |-> route_value_col_ByteSizeLong(h[i])]
    OBVIOUS
  <2>3. \A i \in 1 .. k : h[i] \in ColMessages
    BY <2>1, ElementOfSeq
  <2>4. \A i \in 1 .. k : e[i] \in ColMessages /\
          route_value_col_View(e[i]) = route_value_col_View(h[i]) /\ ColSized(e[i])
    BY <2>2, <2>3, ColByteSizeLong
  <2>5. e \in Seq(ColMessages) /\ Len(e) = k
    BY <2>2, <2>4
  <2>6. ColViews(e) = ColViews(h)
    BY <2>1, <2>4, <2>5, ColViewsSame
  <2>7. p.col_ = e
    BY <1>2, <2>1, <2>2 DEF ForEach
  <2>8. QED
    BY <2>1, <2>4, <2>5, <2>6, <2>7
<1>7. PICK q : q = [p EXCEPT !.size = 0]
  OBVIOUS
<1>8. HasFields(q, RouteFields) /\ q.size = 0
      /\ q.has = p.has /\ q.unk = p.unk /\ q.region_ = p.region_ /\ q.area_ = p.area_ /\
           q.col_ = p.col_
  BY <1>2, <1>7 DEF HasFields, RouteFields
<1>9. q.has \in SUBSET (0 .. 1) /\ q.unk \in Seq(RouteUnknown) /\ q.size \in Nat
  BY <1>1, <1>2, <1>8 DEF IsRoute
<1>10. q \in RouteMessages
  <2>1. IsRoute(q)
    BY <1>8, <1>9, <1>4, <1>5, <1>6 DEF IsRoute
  <2>2. QED
    BY <2>1, RouteIs
<1>11. route_value_Serialize(q) = route_value_Serialize(p)
  BY <1>8 DEF route_value_Serialize, Token
<1>12. /\ \A i \in 1 .. Len(q.col_) : ColSized(q.col_[i])
  BY <1>8, <1>6
<1>13. /\ p.size = TotalBytes(route_value_Serialize(p)) /\ p.size \in Nat
  <2>1. PICK u, a, b, c :
          /\ u = TotalBytes(q.unk)
          /\ a = TotalBytes(RouteWire_region(q))
          /\ b = TotalBytes(RouteWire_area(q))
          /\ c = TotalBytes(RouteWire_col(q))
    OBVIOUS
  <2>2. TotalBytes(route_value_Serialize(q)) = a + b + c + u /\
          TotalBytes(route_value_Serialize(q)) \in Nat
    BY <1>10, <2>1, RouteSerialize
  <2>3. /\ a = Space(p, 0, 1 + StringSize(p.region_)) /\
             (0 \in p.has => StringSize(p.region_) \in Nat)
        /\ b = Space(p, 1, 1 + StringSize(p.area_)) /\
             (1 \in p.has => StringSize(p.area_) \in Nat)
        /\ c = RepeatedSize(p.col_)
    <3>1. /\ TotalBytes(RouteWire_region(q)) = Space(q, 0, 1 + StringSize(q.region_)) /\
               (0 \in q.has => StringSize(q.region_) \in Nat)
            /\ TotalBytes(RouteWire_area(q)) = Space(q, 1, 1 + StringSize(q.area_)) /\
                 (1 \in q.has => StringSize(q.area_) \in Nat)
            /\ TotalBytes(RouteWire_col(q)) = RepeatedSize(q.col_)
      BY <1>10, RouteBytes, <1>12
    <3>2. QED
      BY <2>1, <3>1, <1>8 DEF Space
  <2>4. u \in Nat /\ a \in Nat /\ b \in Nat /\ c \in Nat
    <3>1. Measured(RouteTokens)
      BY TokenParts DEF Measured, RouteTokens
    <3>2. /\ q.unk \in Seq(RouteTokens)
          /\ RouteWire_region(q) \in Seq(RouteTokens) /\
               RouteWire_area(q) \in Seq(RouteTokens) /\ RouteWire_col(q) \in Seq(RouteTokens)
      BY <1>10, RouteWrites
    <3>3. QED
      BY <2>1, <3>1, <3>2, BytesParts
  <2>5. p.size = u + c + (a + b)
    <3>1. /\ u = TotalBytes(p.unk) /\ c = RepeatedSize(p.col_)
          /\ {0, 1} \subseteq p.has => a = 1 + StringSize(p.region_) /\
               b = 1 + StringSize(p.area_)
      BY <1>8, <2>1, <2>3 DEF Space
    <3>2. CASE {0, 1} \subseteq p.has
      <4>1. p.size = u + c + (1 + StringSize(p.region_) + 1 + StringSize(p.area_))
        BY <1>3, <3>1, <3>2
      <4>2. PICK e0, e1 : e0 = StringSize(p.region_) /\ e1 = StringSize(p.area_)
        OBVIOUS
      <4>3. p.size = u + c + (1 + e0 + 1 + e1)
        BY <4>1, <4>2
      <4>4. a = 1 + e0 /\ b = 1 + e1
        BY <3>1, <3>2, <4>2
      <4>5. e0 \in Int /\ e1 \in Int
        BY <2>3, <3>2, <4>2
      <4>6. QED
        BY <2>4, <4>3, <4>4, <4>5
    <3>3. CASE ~({0, 1} \subseteq p.has)
      BY <1>3, <2>3, <2>4, <3>1, <3>3
    <3>4. QED
      BY <3>2, <3>3
  <2>6. QED
    BY <1>11, <2>2, <2>4, <2>5
<1>14. p \in RouteMessages
  <2>1. p.has \in SUBSET (0 .. 1) /\ p.unk \in Seq(RouteUnknown) /\ p.size \in Nat
    BY <1>9, <1>8, <1>13
  <2>2. QED
    BY <1>2, <2>1, <1>4, <1>5, <1>6, RouteIs DEF IsRoute
<1>15. RouteAlike(p, m)
  BY <1>2, <1>6 DEF RouteAlike
<1>16. RouteSized(p)
  BY <1>13, <1>6 DEF RouteSized
<1>17. QED
  BY <1>14, <1>15, <1>16, RouteSame
=============================================================================
