----------------------------- MODULE VctProofs ------------------------------
(***************************************************************************)
(* The properties of VctObjects, for every value of its constants.         *)
(*                                                                         *)
(* The inductive invariant says that all objects are messages of one       *)
(* class, as VctClasses describes it in memory, and that what a parse      *)
(* accepted is complete.  Every property follows from it by what the       *)
(* functions of that class do with any of its messages: reading back what  *)
(* one wrote is merging (XReadBack), its lengths are true (XLengths), it   *)
(* is complete when its required fields are written (XWhole).              *)
(***************************************************************************)
EXTENDS VctClassProofs

-----------------------------------------------------------------------------
(* Reading what was written                                                  *)

\* A sequence that grows by the elements of another.
Grows(g, h, e, k) ==
  /\ g[0] = h /\ g[k] = h \o e
  /\ \A i \in 1 .. k : g[i] = Append(g[i - 1], e[i])

Prefixed(g, h, V, k) ==
  \A i \in 0 .. k : g[i] \in Seq(V) /\ \E u \in Seq(V) : g[i] = h \o u

\* Taking in a sequence one by one.
LEMMA Growing ==
  ASSUME NEW V, NEW h \in Seq(V), NEW e \in Seq(V), NEW k \in Nat, k = Len(e)
  PROVE  \E g : Grows(g, h, e, k) /\ Prefixed(g, h, V, k)
<1>1. PICK u : u = [i \in 0 .. k |-> SubSeq(e, 1, i)]
  OBVIOUS
<1>2. ASSUME NEW i \in 0 .. k
      PROVE  /\ u[i] \in Seq(V) /\ Len(u[i]) = i
             /\ \A j \in 1 .. i : u[i][j] = e[j]
  <2>1. 1 \in Nat \ {0} /\ i \in Int /\ i <= Len(e)
    OBVIOUS
  <2>2. /\ SubSeq(e, 1, i) \in Seq(V)
        /\ Len(SubSeq(e, 1, i)) = IF 1 <= i THEN i - 1 + 1 ELSE 0
        /\ \A j \in 1 .. i - 1 + 1 : SubSeq(e, 1, i)[j] = e[1 + j - 1]
    BY <2>1, Part
  <2>3. \A j \in 1 .. i : j \in 1 .. i - 1 + 1 /\ 1 + j - 1 = j
    OBVIOUS
  <2>4. u[i] = SubSeq(e, 1, i)
    BY <1>1
  <2>5. QED
    BY <2>2, <2>3, <2>4
<1>3. u[0] = <<>> /\ u[k] = e
  <2>1. 0 \in 0 .. k /\ k \in 0 .. k
    OBVIOUS
  <2>2. u[0] = <<>>
    BY <1>2, <2>1, EmptySeq
  <2>3. u[k] = SubSeq(e, 1, k)
    BY <1>1, <2>1
  <2>4. QED
    BY <2>2, <2>3, SubSeqFull
<1>4. \A i \in 1 .. k : e[i] \in V /\ i \in 0 .. k /\ i - 1 \in 0 .. k
  BY ElementOfSeq
<1>5. ASSUME NEW i \in 1 .. k PROVE u[i] = Append(u[i - 1], e[i])
  <2>1. PICK v : v = u[i - 1]
    OBVIOUS
  <2>2. v \in Seq(V) /\ Len(v) = i - 1 /\ \A j \in 1 .. i - 1 : v[j] = e[j]
    BY <1>2, <1>4, <2>1
  <2>3. PICK a : a = Append(v, e[i])
    OBVIOUS
  <2>4. a \in Seq(V) /\ Len(a) = i /\ \A j \in 1 .. i : a[j] = e[j]
    <3>1. /\ a \in Seq(V) /\ Len(a) = Len(v) + 1
          /\ \A j \in 1 .. Len(v) : a[j] = v[j]
          /\ a[Len(v) + 1] = e[i]
      BY <1>4, <2>2, <2>3, AppendProperties
    <3>2. Len(v) + 1 = i /\ \A j \in 1 .. i : j = i \/ j \in 1 .. i - 1
      BY <2>2
    <3>3. QED
      BY <2>2, <3>1, <3>2
  <2>5. u[i] \in Seq(V) /\ Len(u[i]) = i /\ \A j \in 1 .. i : u[i][j] = e[j]
    BY <1>2, <1>4
  <2>6. u[i] = a
    <3>1. PICK b : b = u[i]
      OBVIOUS
    <3>2. /\ a \in Seq(V) /\ b \in Seq(V) /\ Len(a) = Len(b)
          /\ \A j \in 1 .. Len(a) : a[j] = b[j]
      BY <2>4, <2>5, <3>1
    <3>3. a = b
      BY <3>2, SeqEqual
    <3>4. QED
      BY <3>1, <3>3
  <2>7. QED
    BY <2>1, <2>3, <2>6
<1>6. PICK g : g = [i \in 0 .. k |-> h \o u[i]]
  OBVIOUS
<1>7. \A i \in 0 .. k : g[i] = h \o u[i] /\ u[i] \in Seq(V) /\ g[i] \in Seq(V)
  BY <1>2, <1>6, ConcatProperties
<1>8. g[0] = h /\ g[k] = h \o e
  <2>1. 0 \in 0 .. k /\ k \in 0 .. k /\ h \o <<>> = h
    BY ConcatEmptySeq
  <2>2. QED
    BY <1>3, <1>7, <2>1
<1>9. ASSUME NEW i \in 1 .. k PROVE g[i] = Append(g[i - 1], e[i])
  <2>1. PICK v, x : v = u[i - 1] /\ x = <<e[i]>> /\ v \in Seq(V) /\ x \in Seq(V)
    <3>1. u[i - 1] \in Seq(V)
      BY <1>2, <1>4
    <3>2. <<e[i]>> \in Seq(V)
      BY <1>4
    <3>3. QED
      BY <3>1, <3>2
  <2>2. Associate(h, v, x)
    BY <2>1, ConcatAssociates
  <2>3. u[i] = v \o x
    BY <1>4, <1>5, <2>1, AppendIsConcat
  <2>4. g[i - 1] = h \o v /\ g[i - 1] \in Seq(V) /\ g[i] = h \o u[i]
    BY <1>4, <1>7, <2>1
  <2>5. Append(g[i - 1], e[i]) = g[i - 1] \o x
    BY <1>4, <2>1, <2>4, AppendIsConcat
  <2>6. QED
    BY <2>2, <2>3, <2>4, <2>5 DEF Associate
<1>10. QED
  BY <1>7, <1>8, <1>9 DEF Grows, Prefixed

PosGot_posm(q, p, n) ==
  /\ q \in PosMessages
  /\ q.has = IF 0 \in n.has THEN p.has \cup {0} ELSE p.has
  /\ q.posm_ = IF 0 \in n.has THEN n.posm_ ELSE p.posm_
  /\ q.unk = p.unk /\ q.poss_ = p.poss_

\* Reading that part back.
LEMMA PosGets_posm ==
  ASSUME NEW p \in PosMessages, NEW n \in PosMessages
  PROVE  \E q : ParseOf(PosMessages, PosReads, p, PosWire_posm(n)) = Read(q) /\
           PosGot_posm(q, p, n)
<1>1. IsPos(p) /\ IsPos(n) /\ HasFields(p, PosFields)
  BY PosIs DEF IsPos
<1>2. Parser(PosMessages, PosTokens, PosReads)
  BY PosParse
<1>3. CASE 0 \in n.has
  <2>1. PICK t : t = WriteInt64(1, n.posm_)
    OBVIOUS
  <2>2. t \in PosTokens /\ PosWire_posm(n) = <<t>>
    BY <1>3, <2>1, PosWrites DEF PosWire_posm, Token
  <2>3. ParseOf(PosMessages, PosReads, p, <<t>>) = vct_pos_Field(p, t)
    BY <1>2, <2>2, ParseShort, PosParse
  <2>4. n.posm_ \in Int
    BY <1>1, <1>3 DEF IsPos, IntCell
  <2>5. Tag(t, 1, "varint") /\ ~t.cut /\ t.val = n.posm_
    BY <2>1 DEF WriteInt64, Tag
  <2>6. vct_pos_Field(p, t) = ReadInt64(p, 0, "posm_", t)
    BY <2>5, PosSwitch
  <2>7. PICK q : q = Put(p, 0, "posm_", n.posm_)
    OBVIOUS
  <2>8. vct_pos_Field(p, t) = Read(q)
    BY <2>5, <2>6, <2>7 DEF ReadInt64
  <2>9. PosGot_posm(q, p, n)
    <3>1. q \in PosMessages
      BY <2>4, <2>7, PosPut
    <3>2. QED
      BY <1>1, <1>3, <2>7, <3>1 DEF PosGot_posm, Put, HasFields, PosFields
  <2>10. QED
    BY <2>2, <2>3, <2>8, <2>9
<1>4. CASE 0 \notin n.has
  <2>1. PosWire_posm(n) = <<>>
    BY <1>4 DEF PosWire_posm, Token
  <2>2. ParseOf(PosMessages, PosReads, p, <<>>) = Read(p)
    BY <1>2, ParseShort
  <2>3. PosGot_posm(p, p, n)
    BY <1>4 DEF PosGot_posm
  <2>4. QED
    BY <2>1, <2>2, <2>3
<1>5. QED
  BY <1>3, <1>4

PosGot_poss(q, p, n) ==
  /\ q \in PosMessages
  /\ q.has = IF 1 \in n.has THEN p.has \cup {1} ELSE p.has
  /\ q.poss_ = IF 1 \in n.has THEN n.poss_ ELSE p.poss_
  /\ q.unk = p.unk /\ q.posm_ = p.posm_

\* Reading that part back.
LEMMA PosGets_poss ==
  ASSUME NEW p \in PosMessages, NEW n \in PosMessages
  PROVE  \E q : ParseOf(PosMessages, PosReads, p, PosWire_poss(n)) = Read(q) /\
           PosGot_poss(q, p, n)
<1>1. IsPos(p) /\ IsPos(n) /\ HasFields(p, PosFields)
  BY PosIs DEF IsPos
<1>2. Parser(PosMessages, PosTokens, PosReads)
  BY PosParse
<1>3. CASE 1 \in n.has
  <2>1. PICK t : t = WriteInt64(2, n.poss_)
    OBVIOUS
  <2>2. t \in PosTokens /\ PosWire_poss(n) = <<t>>
    BY <1>3, <2>1, PosWrites DEF PosWire_poss, Token
  <2>3. ParseOf(PosMessages, PosReads, p, <<t>>) = vct_pos_Field(p, t)
    BY <1>2, <2>2, ParseShort, PosParse
  <2>4. n.poss_ \in Int
    BY <1>1, <1>3 DEF IsPos, IntCell
  <2>5. Tag(t, 2, "varint") /\ ~t.cut /\ t.val = n.poss_
    BY <2>1 DEF WriteInt64, Tag
  <2>6. vct_pos_Field(p, t) = ReadInt64(p, 1, "poss_", t)
    BY <2>5, PosSwitch
  <2>7. PICK q : q = Put(p, 1, "poss_", n.poss_)
    OBVIOUS
  <2>8. vct_pos_Field(p, t) = Read(q)
    BY <2>5, <2>6, <2>7 DEF ReadInt64
  <2>9. PosGot_poss(q, p, n)
    <3>1. q \in PosMessages
      BY <2>4, <2>7, PosPut
    <3>2. QED
      BY <1>1, <1>3, <2>7, <3>1 DEF PosGot_poss, Put, HasFields, PosFields
  <2>10. QED
    BY <2>2, <2>3, <2>8, <2>9
<1>4. CASE 1 \notin n.has
  <2>1. PosWire_poss(n) = <<>>
    BY <1>4 DEF PosWire_poss, Token
  <2>2. ParseOf(PosMessages, PosReads, p, <<>>) = Read(p)
    BY <1>2, ParseShort
  <2>3. PosGot_poss(p, p, n)
    BY <1>4 DEF PosGot_poss
  <2>4. QED
    BY <2>1, <2>2, <2>3
<1>5. QED
  BY <1>3, <1>4

PosGot_unk(q, p, n) ==
  /\ q \in PosMessages /\ q.has = p.has /\ q.unk = p.unk \o n.unk
  /\ q.posm_ = p.posm_ /\ q.poss_ = p.poss_

\* Reading that part back.
LEMMA PosGets_unk ==
  ASSUME NEW p \in PosMessages, NEW n \in PosMessages
  PROVE  \E q : ParseOf(PosMessages, PosReads, p, n.unk) = Read(q) /\ PosGot_unk(q, p, n)
<1>1. IsPos(p) /\ IsPos(n) /\ HasFields(p, PosFields)
  BY PosIs DEF IsPos
<1>2. Parser(PosMessages, PosTokens, PosReads)
  BY PosParse
<1>3. PICK k \in Nat, w \in Seq(PosUnknown) : w = n.unk /\ k = Len(w)
  BY <1>1, LenProperties DEF IsPos
<1>4. w \in Seq(PosTokens) /\ p.unk \in Seq(PosUnknown)
  BY <1>1, <1>3, PosWrites DEF IsPos
<1>5. PICK g : /\ Grows(g, p.unk, w, k)
               /\ \A i \in 0 .. k : \E u \in Seq(PosUnknown) : g[i] = p.unk \o u
  <2>1. p.unk \in Seq(PosUnknown) /\ w \in Seq(PosUnknown) /\ k = Len(w)
    BY <1>3, <1>4
  <2>2. \E g : Grows(g, p.unk, w, k) /\ Prefixed(g, p.unk, PosUnknown, k)
    BY <2>1, Growing
  <2>3. QED
    BY <2>2 DEF Prefixed
<1>6. PICK s : s = [i \in 0 .. k |-> [p EXCEPT !["unk"] = g[i]]]
  OBVIOUS
<1>7. /\ \A i \in 0 .. k : s[i] \in PosMessages
      /\ s \in [0 .. k -> PosMessages]
  <2>1. \A i \in 0 .. k : [p EXCEPT !["unk"] = g[i]] \in PosMessages
    BY <1>5, PosPut
  <2>2. QED
    BY <1>6, <2>1
<1>8. s[0] = p /\ s[k] = [p EXCEPT !["unk"] = p.unk \o w]
  <2>1. g[0] = p.unk /\ g[k] = p.unk \o w /\ 0 \in 0 .. k /\ k \in 0 .. k
    BY <1>5 DEF Grows
  <2>2. s[0] = [p EXCEPT !["unk"] = p.unk] /\ s[k] = [p EXCEPT !["unk"] = p.unk \o w]
    BY <1>6, <2>1
  <2>3. [p EXCEPT !["unk"] = p.unk] = p
    BY <1>1 DEF HasFields, PosFields
  <2>4. QED
    BY <2>2, <2>3
<1>9. ASSUME NEW i \in 1 .. k PROVE PosReads[s[i - 1]][w[i]] = Read(s[i])
  <2>1. i \in 0 .. k /\ i - 1 \in 0 .. k
    OBVIOUS
  <2>2. PICK t, a : /\ t = w[i] /\ a = s[i - 1]
                    /\ t \in PosUnknown /\ t \in PosTokens /\ a \in PosMessages
    <3>1. w[i] \in PosUnknown
      BY <1>3, ElementOfSeq
    <3>2. w[i] \in PosTokens
      BY <1>3, <1>4, ElementOfSeq
    <3>3. s[i - 1] \in PosMessages
      BY <1>7, <2>1
    <3>4. QED
      BY <3>1, <3>2, <3>3
  <2>3. ~t.cut /\ NotOfPos(t)
    BY <2>2, UnknownTags DEF PosUnknown, NotOfPos
  <2>4. /\ a = [p EXCEPT !["unk"] = g[i - 1]] /\ s[i] = [p EXCEPT !["unk"] = g[i]]
        /\ g[i] = Append(g[i - 1], t)
    BY <1>5, <1>6, <2>1, <2>2 DEF Grows
  <2>5. [a EXCEPT !.unk = Append(@, t)] = s[i]
    BY <1>1, <2>4 DEF HasFields, PosFields
  <2>6. vct_pos_Field(a, t) = Read(s[i])
    BY <2>3, <2>5, PosSwitch DEF SkipField
  <2>7. QED
    BY <2>2, <2>6, PosParse
<1>10. ParseOf(PosMessages, PosReads, p, w) = Read(s[k])
  <2>1. Steps(PosMessages, PosReads, w, k, s)
    BY <1>7, <1>9 DEF Steps
  <2>2. w \in Seq(PosTokens) /\ k = Len(w) /\ p = s[0]
    BY <1>3, <1>4, <1>8
  <2>3. QED
    BY <1>2, <2>1, <2>2, ParseRun
<1>11. PosGot_unk(s[k], p, n)
  <2>1. PICK q : q = s[k]
    OBVIOUS
  <2>2. q \in PosMessages
    BY <1>7, <2>1
  <2>3. QED
    BY <1>1, <1>3, <1>8, <2>1, <2>2 DEF PosGot_unk, HasFields, PosFields
<1>12. QED
  BY <1>3, <1>10, <1>11

\* Reading what a message has written merges it.
LEMMA PosReadBack ==
  ASSUME NEW m \in PosMessages, NEW n \in PosMessages, NEW r, r =
           vct_pos_MergePartial(m, vct_pos_Serialize(n))
  PROVE  r.ok /\ r.msg \in PosMessages /\ vct_pos_View(r.msg) =
           vct_pos_View(vct_pos_MergeFrom(m, n))
<1>1. PICK a, b, c : /\ a = PosWire_posm(n) /\ b = PosWire_poss(n) /\ c = n.unk
  OBVIOUS
<1>2. a \in Seq(PosTokens) /\ b \in Seq(PosTokens) /\ c \in Seq(PosTokens)
  BY <1>1, PosWrites
<1>3. Parser(PosMessages, PosTokens, PosReads)
  BY PosParse
<1>4. PICK q1 : ParseOf(PosMessages, PosReads, m, a) = Read(q1) /\ PosGot_posm(q1, m, n)
  BY <1>1, PosGets_posm
<1>5. PICK q2 : ParseOf(PosMessages, PosReads, q1, b) = Read(q2) /\ PosGot_poss(q2, q1, n)
  <2>1. q1 \in PosMessages
    BY <1>4 DEF PosGot_posm
  <2>2. QED
    BY <1>1, <2>1, PosGets_poss
<1>6. PICK s1 : s1 = a \o b
  OBVIOUS
<1>7. s1 \in Seq(PosTokens) /\ ParseOf(PosMessages, PosReads, m, s1) = Read(q2)
  <2>1. a \in Seq(PosTokens) /\ b \in Seq(PosTokens)
    BY <1>2, <1>2
  <2>2. PICK y : y = Read(q1)
    OBVIOUS
  <2>3. y = ParseOf(PosMessages, PosReads, m, a) /\ y.ok /\ y.msg = q1
    BY <1>4, <2>2 DEF Read
  <2>4. ParseOf(PosMessages, PosReads, m, a \o b) = IF y.ok THEN
          ParseOf(PosMessages, PosReads, y.msg, b) ELSE y
    BY <1>3, <2>1, <2>3, ParseParts
  <2>5. a \o b \in Seq(PosTokens)
    BY <2>1, ConcatProperties
  <2>6. QED
    BY <1>5, <1>6, <2>3, <2>4, <2>5
<1>8. PICK q3 : ParseOf(PosMessages, PosReads, q2, c) = Read(q3) /\ PosGot_unk(q3, q2, n)
  <2>1. q2 \in PosMessages
    BY <1>5 DEF PosGot_poss
  <2>2. QED
    BY <1>1, <2>1, PosGets_unk
<1>9. PICK s2 : s2 = s1 \o c
  OBVIOUS
<1>10. s2 \in Seq(PosTokens) /\ ParseOf(PosMessages, PosReads, m, s2) = Read(q3)
  <2>1. s1 \in Seq(PosTokens) /\ c \in Seq(PosTokens)
    BY <1>2, <1>7
  <2>2. PICK y : y = Read(q2)
    OBVIOUS
  <2>3. y = ParseOf(PosMessages, PosReads, m, s1) /\ y.ok /\ y.msg = q2
    BY <1>7, <2>2 DEF Read
  <2>4. ParseOf(PosMessages, PosReads, m, s1 \o c) = IF y.ok THEN
          ParseOf(PosMessages, PosReads, y.msg, c) ELSE y
    BY <1>3, <2>1, <2>3, ParseParts
  <2>5. s1 \o c \in Seq(PosTokens)
    BY <2>1, ConcatProperties
  <2>6. QED
    BY <1>8, <1>9, <2>3, <2>4, <2>5
<1>11. vct_pos_Serialize(n) = s2
  BY <1>1, <1>6, <1>9, PosSerialize
<1>12. r = Read(q3)
  BY <1>10, <1>11, PosParse
<1>13. PICK x : x = vct_pos_MergeFrom(m, n)
  OBVIOUS
<1>14. PosMergeShows(x, m, n)
  BY <1>13, PosMerge
<1>15. q3.has = x.has /\ q3.unk = x.unk
  <2>1. n.has \in SUBSET (0 .. 1)
    BY PosIs DEF IsPos
  <2>2. QED
    BY <1>14, <2>1, <1>4, <1>5, <1>8 DEF PosMergeShows, PosGot_posm, PosGot_poss, PosGot_unk
<1>16. q3.posm_ = x.posm_
  BY <1>14, <1>4, <1>5, <1>8 DEF PosMergeShows, PosGot_posm, PosGot_poss, PosGot_unk
<1>17. q3.poss_ = x.poss_
  BY <1>14, <1>4, <1>5, <1>8 DEF PosMergeShows, PosGot_posm, PosGot_poss, PosGot_unk
<1>18. PosAlike(q3, x)
  BY <1>15, <1>16, <1>17 DEF PosAlike
<1>19. q3 \in PosMessages
  BY <1>8 DEF PosGot_unk
<1>20. QED
  BY <1>12, <1>13, <1>18, <1>19, PosSame, ReadIs

ValueNGot_pos(q, p, n) ==
  /\ q \in ValueNMessages
  /\ q.has = IF 0 \in n.has THEN p.has \cup {0} ELSE p.has
  /\ PosShown(q.pos_) = IF 0 \in n.has THEN
       vct_pos_View(vct_pos_MergeFrom(PosOwned(p.pos_), n.pos_))
                  ELSE PosShown(p.pos_)
  /\ q.unk = p.unk /\ q.a_ = p.a_ /\ q.b_ = p.b_ /\ q.commit_ = p.commit_

\* Reading that part back.
LEMMA ValueNGets_pos ==
  ASSUME NEW p \in ValueNMessages, NEW n \in ValueNMessages
  PROVE  \E q : ParseOf(ValueNMessages, ValueNReads, p, ValueNWire_pos(n)) = Read(q) /\
           ValueNGot_pos(q, p, n)
<1>1. IsValueN(p) /\ IsValueN(n) /\ HasFields(p, ValueNFields)
  BY ValueNIs DEF IsValueN
<1>2. Parser(ValueNMessages, ValueNTokens, ValueNReads)
  BY ValueNParse
<1>3. CASE 0 \in n.has
  <2>1. PICK t : t = WriteMessage(1, n.pos_, vct_pos_Serialize(n.pos_))
    OBVIOUS
  <2>2. t \in ValueNTokens /\ ValueNWire_pos(n) = <<t>>
    BY <1>3, <2>1, ValueNWrites DEF ValueNWire_pos, Token
  <2>3. ParseOf(ValueNMessages, ValueNReads, p, <<t>>) = vct_value_n_Field(p, t)
    BY <1>2, <2>2, ParseShort, ValueNParse
  <2>4. n.pos_ \in PosMessages /\ PosOwned(p.pos_) \in PosMessages
    <3>1. PosCell(n.has, 0, n.pos_) /\ PosCell(p.has, 0, p.pos_)
      BY <1>1 DEF IsValueN
    <3>2. QED
      BY <1>3, <3>1, PosIsOwned
  <2>5. Tag(t, 1, "len") /\ ~t.cut /\ t.body = vct_pos_Serialize(n.pos_)
    BY <2>1 DEF WriteMessage, Tag
  <2>6. PICK r : r = vct_pos_MergePartial(PosOwned(p.pos_), vct_pos_Serialize(n.pos_))
    OBVIOUS
  <2>7. /\ r.ok /\ r.msg \in PosMessages
        /\ vct_pos_View(r.msg) = vct_pos_View(vct_pos_MergeFrom(PosOwned(p.pos_), n.pos_))
    BY <2>4, <2>6, PosReadBack
  <2>8. ReadMessage(p, 0, "pos_", vct_pos_New, vct_pos_MergePartial, t) =
          [ok |-> r.ok /\ ~t.cut, msg |-> Put(p, 0, "pos_", r.msg)]
    <3>1. r = vct_pos_MergePartial(PosOwned(p.pos_), IF t.cut THEN <<>> ELSE t.body)
      BY <2>5, <2>6
    <3>2. QED
      BY <1>1, <3>1, ValueNReads_pos
  <2>9. PICK q : q = Put(p, 0, "pos_", r.msg)
    OBVIOUS
  <2>10. vct_value_n_Field(p, t) = Read(q)
    BY <2>5, <2>7, <2>8, <2>9, ValueNSwitch DEF Read
  <2>11. ValueNGot_pos(q, p, n)
    <3>1. q \in ValueNMessages
      BY <2>7, <2>9, ValueNPut
    <3>2. q.has = p.has \cup {0} /\ q.pos_ = r.msg
          /\ q.unk = p.unk /\ q.a_ = p.a_ /\ q.b_ = p.b_ /\ q.commit_ = p.commit_
      BY <1>1, <2>9 DEF Put, HasFields, ValueNFields
    <3>3. PosShown(q.pos_) = vct_pos_View(r.msg)
      BY <2>7, <3>2, ClassesAssumption DEF PosShown, PosOwned
    <3>4. QED
      BY <1>3, <2>7, <3>1, <3>2, <3>3 DEF ValueNGot_pos
  <2>12. QED
    BY <2>2, <2>3, <2>10, <2>11
<1>4. CASE 0 \notin n.has
  <2>1. ValueNWire_pos(n) = <<>>
    BY <1>4 DEF ValueNWire_pos, Token
  <2>2. ParseOf(ValueNMessages, ValueNReads, p, <<>>) = Read(p)
    BY <1>2, ParseShort
  <2>3. ValueNGot_pos(p, p, n)
    BY <1>4 DEF ValueNGot_pos
  <2>4. QED
    BY <2>1, <2>2, <2>3
<1>5. QED
  BY <1>3, <1>4

ValueNGot_a(q, p, n) ==
  /\ q \in ValueNMessages
  /\ q.has = IF 1 \in n.has THEN p.has \cup {1} ELSE p.has
  /\ q.a_ = IF 1 \in n.has THEN n.a_ ELSE p.a_
  /\ q.unk = p.unk /\ q.pos_ = p.pos_ /\ q.b_ = p.b_ /\ q.commit_ = p.commit_

\* Reading that part back.
LEMMA ValueNGets_a ==
  ASSUME NEW p \in ValueNMessages, NEW n \in ValueNMessages
  PROVE  \E q : ParseOf(ValueNMessages, ValueNReads, p, ValueNWire_a(n)) = Read(q) /\
           ValueNGot_a(q, p, n)
<1>1. IsValueN(p) /\ IsValueN(n) /\ HasFields(p, ValueNFields)
  BY ValueNIs DEF IsValueN
<1>2. Parser(ValueNMessages, ValueNTokens, ValueNReads)
  BY ValueNParse
<1>3. CASE 1 \in n.has
  <2>1. PICK t : t = WriteInt64(2, n.a_)
    OBVIOUS
  <2>2. t \in ValueNTokens /\ ValueNWire_a(n) = <<t>>
    BY <1>3, <2>1, ValueNWrites DEF ValueNWire_a, Token
  <2>3. ParseOf(ValueNMessages, ValueNReads, p, <<t>>) = vct_value_n_Field(p, t)
    BY <1>2, <2>2, ParseShort, ValueNParse
  <2>4. n.a_ \in Int
    BY <1>1, <1>3 DEF IsValueN, IntCell
  <2>5. Tag(t, 2, "varint") /\ ~t.cut /\ t.val = n.a_
    BY <2>1 DEF WriteInt64, Tag
  <2>6. vct_value_n_Field(p, t) = ReadInt64(p, 1, "a_", t)
    BY <2>5, ValueNSwitch
  <2>7. PICK q : q = Put(p, 1, "a_", n.a_)
    OBVIOUS
  <2>8. vct_value_n_Field(p, t) = Read(q)
    BY <2>5, <2>6, <2>7 DEF ReadInt64
  <2>9. ValueNGot_a(q, p, n)
    <3>1. q \in ValueNMessages
      BY <2>4, <2>7, ValueNPut
    <3>2. QED
      BY <1>1, <1>3, <2>7, <3>1 DEF ValueNGot_a, Put, HasFields, ValueNFields
  <2>10. QED
    BY <2>2, <2>3, <2>8, <2>9
<1>4. CASE 1 \notin n.has
  <2>1. ValueNWire_a(n) = <<>>
    BY <1>4 DEF ValueNWire_a, Token
  <2>2. ParseOf(ValueNMessages, ValueNReads, p, <<>>) = Read(p)
    BY <1>2, ParseShort
  <2>3. ValueNGot_a(p, p, n)
    BY <1>4 DEF ValueNGot_a
  <2>4. QED
    BY <2>1, <2>2, <2>3
<1>5. QED
  BY <1>3, <1>4

ValueNGot_b(q, p, n) ==
  /\ q \in ValueNMessages
  /\ q.has = IF 2 \in n.has THEN p.has \cup {2} ELSE p.has
  /\ q.b_ = IF 2 \in n.has THEN n.b_ ELSE p.b_
  /\ q.unk = p.unk /\ q.pos_ = p.pos_ /\ q.a_ = p.a_ /\ q.commit_ = p.commit_

\* Reading that part back.
LEMMA ValueNGets_b ==
  ASSUME NEW p \in ValueNMessages, NEW n \in ValueNMessages
  PROVE  \E q : ParseOf(ValueNMessages, ValueNReads, p, ValueNWire_b(n)) = Read(q) /\
           ValueNGot_b(q, p, n)
<1>1. IsValueN(p) /\ IsValueN(n) /\ HasFields(p, ValueNFields)
  BY ValueNIs DEF IsValueN
<1>2. Parser(ValueNMessages, ValueNTokens, ValueNReads)
  BY ValueNParse
<1>3. CASE 2 \in n.has
  <2>1. PICK t : t = WriteInt64(3, n.b_)
    OBVIOUS
  <2>2. t \in ValueNTokens /\ ValueNWire_b(n) = <<t>>
    BY <1>3, <2>1, ValueNWrites DEF ValueNWire_b, Token
  <2>3. ParseOf(ValueNMessages, ValueNReads, p, <<t>>) = vct_value_n_Field(p, t)
    BY <1>2, <2>2, ParseShort, ValueNParse
  <2>4. n.b_ \in Int
    BY <1>1, <1>3 DEF IsValueN, IntCell
  <2>5. Tag(t, 3, "varint") /\ ~t.cut /\ t.val = n.b_
    BY <2>1 DEF WriteInt64, Tag
  <2>6. vct_value_n_Field(p, t) = ReadInt64(p, 2, "b_", t)
    BY <2>5, ValueNSwitch
  <2>7. PICK q : q = Put(p, 2, "b_", n.b_)
    OBVIOUS
  <2>8. vct_value_n_Field(p, t) = Read(q)
    BY <2>5, <2>6, <2>7 DEF ReadInt64
  <2>9. ValueNGot_b(q, p, n)
    <3>1. q \in ValueNMessages
      BY <2>4, <2>7, ValueNPut
    <3>2. QED
      BY <1>1, <1>3, <2>7, <3>1 DEF ValueNGot_b, Put, HasFields, ValueNFields
  <2>10. QED
    BY <2>2, <2>3, <2>8, <2>9
<1>4. CASE 2 \notin n.has
  <2>1. ValueNWire_b(n) = <<>>
    BY <1>4 DEF ValueNWire_b, Token
  <2>2. ParseOf(ValueNMessages, ValueNReads, p, <<>>) = Read(p)
    BY <1>2, ParseShort
  <2>3. ValueNGot_b(p, p, n)
    BY <1>4 DEF ValueNGot_b
  <2>4. QED
    BY <2>1, <2>2, <2>3
<1>5. QED
  BY <1>3, <1>4

ValueNGot_commit(q, p, n) ==
  /\ q \in ValueNMessages
  /\ q.has = IF 3 \in n.has THEN p.has \cup {3} ELSE p.has
  /\ q.commit_ = IF 3 \in n.has THEN n.commit_ ELSE p.commit_
  /\ q.unk = p.unk /\ q.pos_ = p.pos_ /\ q.a_ = p.a_ /\ q.b_ = p.b_

\* Reading that part back.
LEMMA ValueNGets_commit ==
  ASSUME NEW p \in ValueNMessages, NEW n \in ValueNMessages
  PROVE  \E q : ParseOf(ValueNMessages, ValueNReads, p, ValueNWire_commit(n)) = Read(q) /\
           ValueNGot_commit(q, p, n)
<1>1. IsValueN(p) /\ IsValueN(n) /\ HasFields(p, ValueNFields)
  BY ValueNIs DEF IsValueN
<1>2. Parser(ValueNMessages, ValueNTokens, ValueNReads)
  BY ValueNParse
<1>3. CASE 3 \in n.has
  <2>1. PICK t : t = WriteBool(5, n.commit_)
    OBVIOUS
  <2>2. t \in ValueNTokens /\ ValueNWire_commit(n) = <<t>>
    BY <1>3, <2>1, ValueNWrites DEF ValueNWire_commit, Token
  <2>3. ParseOf(ValueNMessages, ValueNReads, p, <<t>>) = vct_value_n_Field(p, t)
    BY <1>2, <2>2, ParseShort, ValueNParse
  <2>4. n.commit_ \in BOOLEAN
    BY <1>1, <1>3 DEF IsValueN, BoolCell
  <2>5. Tag(t, 5, "varint") /\ ~t.cut /\ (t.val # 0) = n.commit_
    BY <2>1, <2>4 DEF WriteBool, WriteInt64, Tag
  <2>6. vct_value_n_Field(p, t) = ReadBool(p, 3, "commit_", t)
    BY <2>5, ValueNSwitch
  <2>7. PICK q : q = Put(p, 3, "commit_", n.commit_)
    OBVIOUS
  <2>8. vct_value_n_Field(p, t) = Read(q)
    BY <2>5, <2>6, <2>7 DEF ReadBool
  <2>9. ValueNGot_commit(q, p, n)
    <3>1. q \in ValueNMessages
      BY <2>4, <2>7, ValueNPut
    <3>2. QED
      BY <1>1, <1>3, <2>7, <3>1 DEF ValueNGot_commit, Put, HasFields, ValueNFields
  <2>10. QED
    BY <2>2, <2>3, <2>8, <2>9
<1>4. CASE 3 \notin n.has
  <2>1. ValueNWire_commit(n) = <<>>
    BY <1>4 DEF ValueNWire_commit, Token
  <2>2. ParseOf(ValueNMessages, ValueNReads, p, <<>>) = Read(p)
    BY <1>2, ParseShort
  <2>3. ValueNGot_commit(p, p, n)
    BY <1>4 DEF ValueNGot_commit
  <2>4. QED
    BY <2>1, <2>2, <2>3
<1>5. QED
  BY <1>3, <1>4

ValueNGot_unk(q, p, n) ==
  /\ q \in ValueNMessages /\ q.has = p.has /\ q.unk = p.unk \o n.unk
  /\ q.pos_ = p.pos_ /\ q.a_ = p.a_ /\ q.b_ = p.b_ /\ q.commit_ = p.commit_

\* Reading that part back.
LEMMA ValueNGets_unk ==
  ASSUME NEW p \in ValueNMessages, NEW n \in ValueNMessages
  PROVE  \E q : ParseOf(ValueNMessages, ValueNReads, p, n.unk) = Read(q) /\
           ValueNGot_unk(q, p, n)
<1>1. IsValueN(p) /\ IsValueN(n) /\ HasFields(p, ValueNFields)
  BY ValueNIs DEF IsValueN
<1>2. Parser(ValueNMessages, ValueNTokens, ValueNReads)
  BY ValueNParse
<1>3. PICK k \in Nat, w \in Seq(ValueNUnknown) : w = n.unk /\ k = Len(w)
  BY <1>1, LenProperties DEF IsValueN
<1>4. w \in Seq(ValueNTokens) /\ p.unk \in Seq(ValueNUnknown)
  BY <1>1, <1>3, ValueNWrites DEF IsValueN
<1>5. PICK g : /\ Grows(g, p.unk, w, k)
               /\ \A i \in 0 .. k : \E u \in Seq(ValueNUnknown) : g[i] = p.unk \o u
  <2>1. p.unk \in Seq(ValueNUnknown) /\ w \in Seq(ValueNUnknown) /\ k = Len(w)
    BY <1>3, <1>4
  <2>2. \E g : Grows(g, p.unk, w, k) /\ Prefixed(g, p.unk, ValueNUnknown, k)
    BY <2>1, Growing
  <2>3. QED
    BY <2>2 DEF Prefixed
<1>6. PICK s : s = [i \in 0 .. k |-> [p EXCEPT !["unk"] = g[i]]]
  OBVIOUS
<1>7. /\ \A i \in 0 .. k : s[i] \in ValueNMessages
      /\ s \in [0 .. k -> ValueNMessages]
  <2>1. \A i \in 0 .. k : [p EXCEPT !["unk"] = g[i]] \in ValueNMessages
    BY <1>5, ValueNPut
  <2>2. QED
    BY <1>6, <2>1
<1>8. s[0] = p /\ s[k] = [p EXCEPT !["unk"] = p.unk \o w]
  <2>1. g[0] = p.unk /\ g[k] = p.unk \o w /\ 0 \in 0 .. k /\ k \in 0 .. k
    BY <1>5 DEF Grows
  <2>2. s[0] = [p EXCEPT !["unk"] = p.unk] /\ s[k] = [p EXCEPT !["unk"] = p.unk \o w]
    BY <1>6, <2>1
  <2>3. [p EXCEPT !["unk"] = p.unk] = p
    BY <1>1 DEF HasFields, ValueNFields
  <2>4. QED
    BY <2>2, <2>3
<1>9. ASSUME NEW i \in 1 .. k PROVE ValueNReads[s[i - 1]][w[i]] = Read(s[i])
  <2>1. i \in 0 .. k /\ i - 1 \in 0 .. k
    OBVIOUS
  <2>2. PICK t, a : /\ t = w[i] /\ a = s[i - 1]
                    /\ t \in ValueNUnknown /\ t \in ValueNTokens /\ a \in ValueNMessages
    <3>1. w[i] \in ValueNUnknown
      BY <1>3, ElementOfSeq
    <3>2. w[i] \in ValueNTokens
      BY <1>3, <1>4, ElementOfSeq
    <3>3. s[i - 1] \in ValueNMessages
      BY <1>7, <2>1
    <3>4. QED
      BY <3>1, <3>2, <3>3
  <2>3. ~t.cut /\ NotOfValueN(t)
    BY <2>2, UnknownTags DEF ValueNUnknown, NotOfValueN
  <2>4. /\ a = [p EXCEPT !["unk"] = g[i - 1]] /\ s[i] = [p EXCEPT !["unk"] = g[i]]
        /\ g[i] = Append(g[i - 1], t)
    BY <1>5, <1>6, <2>1, <2>2 DEF Grows
  <2>5. [a EXCEPT !.unk = Append(@, t)] = s[i]
    BY <1>1, <2>4 DEF HasFields, ValueNFields
  <2>6. vct_value_n_Field(a, t) = Read(s[i])
    BY <2>3, <2>5, ValueNSwitch DEF SkipField
  <2>7. QED
    BY <2>2, <2>6, ValueNParse
<1>10. ParseOf(ValueNMessages, ValueNReads, p, w) = Read(s[k])
  <2>1. Steps(ValueNMessages, ValueNReads, w, k, s)
    BY <1>7, <1>9 DEF Steps
  <2>2. w \in Seq(ValueNTokens) /\ k = Len(w) /\ p = s[0]
    BY <1>3, <1>4, <1>8
  <2>3. QED
    BY <1>2, <2>1, <2>2, ParseRun
<1>11. ValueNGot_unk(s[k], p, n)
  <2>1. PICK q : q = s[k]
    OBVIOUS
  <2>2. q \in ValueNMessages
    BY <1>7, <2>1
  <2>3. QED
    BY <1>1, <1>3, <1>8, <2>1, <2>2 DEF ValueNGot_unk, HasFields, ValueNFields
<1>12. QED
  BY <1>3, <1>10, <1>11

\* Reading what a message has written merges it.
LEMMA ValueNReadBack ==
  ASSUME NEW m \in ValueNMessages, NEW n \in ValueNMessages, NEW r, r =
           vct_value_n_MergePartial(m, vct_value_n_Serialize(n))
  PROVE  r.ok /\ r.msg \in ValueNMessages /\
           vct_value_n_View(r.msg) = vct_value_n_View(vct_value_n_MergeFrom(m, n))
<1>1. PICK a, b, c, d, e : /\ a = ValueNWire_pos(n) /\ b = ValueNWire_a(n) /\
                                c = ValueNWire_b(n) /\ d = ValueNWire_commit(n) /\ e = n.unk
  OBVIOUS
<1>2. a \in Seq(ValueNTokens) /\ b \in Seq(ValueNTokens) /\ c \in Seq(ValueNTokens) /\
        d \in Seq(ValueNTokens) /\ e \in Seq(ValueNTokens)
  BY <1>1, ValueNWrites
<1>3. Parser(ValueNMessages, ValueNTokens, ValueNReads)
  BY ValueNParse
<1>4. PICK q1 : ParseOf(ValueNMessages, ValueNReads, m, a) = Read(q1) /\ ValueNGot_pos(q1, m, n)
  BY <1>1, ValueNGets_pos
<1>5. PICK q2 : ParseOf(ValueNMessages, ValueNReads, q1, b) = Read(q2) /\ ValueNGot_a(q2, q1, n)
  <2>1. q1 \in ValueNMessages
    BY <1>4 DEF ValueNGot_pos
  <2>2. QED
    BY <1>1, <2>1, ValueNGets_a
<1>6. PICK s1 : s1 = a \o b
  OBVIOUS
<1>7. s1 \in Seq(ValueNTokens) /\ ParseOf(ValueNMessages, ValueNReads, m, s1) = Read(q2)
  <2>1. a \in Seq(ValueNTokens) /\ b \in Seq(ValueNTokens)
    BY <1>2, <1>2
  <2>2. PICK y : y = Read(q1)
    OBVIOUS
  <2>3. y = ParseOf(ValueNMessages, ValueNReads, m, a) /\ y.ok /\ y.msg = q1
    BY <1>4, <2>2 DEF Read
  <2>4. ParseOf(ValueNMessages, ValueNReads, m, a \o b) = IF y.ok THEN
          ParseOf(ValueNMessages, ValueNReads, y.msg, b) ELSE y
    BY <1>3, <2>1, <2>3, ParseParts
  <2>5. a \o b \in Seq(ValueNTokens)
    BY <2>1, ConcatProperties
  <2>6. QED
    BY <1>5, <1>6, <2>3, <2>4, <2>5
<1>8. PICK q3 : ParseOf(ValueNMessages, ValueNReads, q2, c) = Read(q3) /\ ValueNGot_b(q3, q2, n)
  <2>1. q2 \in ValueNMessages
    BY <1>5 DEF ValueNGot_a
  <2>2. QED
    BY <1>1, <2>1, ValueNGets_b
<1>9. PICK s2 : s2 = s1 \o c
  OBVIOUS
<1>10. s2 \in Seq(ValueNTokens) /\ ParseOf(ValueNMessages, ValueNReads, m, s2) = Read(q3)
  <2>1. s1 \in Seq(ValueNTokens) /\ c \in Seq(ValueNTokens)
    BY <1>2, <1>7
  <2>2. PICK y : y = Read(q2)
    OBVIOUS
  <2>3. y = ParseOf(ValueNMessages, ValueNReads, m, s1) /\ y.ok /\ y.msg = q2
    BY <1>7, <2>2 DEF Read
  <2>4. ParseOf(ValueNMessages, ValueNReads, m, s1 \o c) = IF y.ok THEN
          ParseOf(ValueNMessages, ValueNReads, y.msg, c) ELSE y
    BY <1>3, <2>1, <2>3, ParseParts
  <2>5. s1 \o c \in Seq(ValueNTokens)
    BY <2>1, ConcatProperties
  <2>6. QED
    BY <1>8, <1>9, <2>3, <2>4, <2>5
<1>11. PICK q4 : ParseOf(ValueNMessages, ValueNReads, q3, d) = Read(q4) /\
        ValueNGot_commit(q4, q3, n)
  <2>1. q3 \in ValueNMessages
    BY <1>8 DEF ValueNGot_b
  <2>2. QED
    BY <1>1, <2>1, ValueNGets_commit
<1>12. PICK s3 : s3 = s2 \o d
  OBVIOUS
<1>13. s3 \in Seq(ValueNTokens) /\ ParseOf(ValueNMessages, ValueNReads, m, s3) = Read(q4)
  <2>1. s2 \in Seq(ValueNTokens) /\ d \in Seq(ValueNTokens)
    BY <1>2, <1>10
  <2>2. PICK y : y = Read(q3)
    OBVIOUS
  <2>3. y = ParseOf(ValueNMessages, ValueNReads, m, s2) /\ y.ok /\ y.msg = q3
    BY <1>10, <2>2 DEF Read
  <2>4. ParseOf(ValueNMessages, ValueNReads, m, s2 \o d) = IF y.ok THEN
          ParseOf(ValueNMessages, ValueNReads, y.msg, d) ELSE y
    BY <1>3, <2>1, <2>3, ParseParts
  <2>5. s2 \o d \in Seq(ValueNTokens)
    BY <2>1, ConcatProperties
  <2>6. QED
    BY <1>11, <1>12, <2>3, <2>4, <2>5
<1>14. PICK q5 : ParseOf(ValueNMessages, ValueNReads, q4, e) = Read(q5) /\
        ValueNGot_unk(q5, q4, n)
  <2>1. q4 \in ValueNMessages
    BY <1>11 DEF ValueNGot_commit
  <2>2. QED
    BY <1>1, <2>1, ValueNGets_unk
<1>15. PICK s4 : s4 = s3 \o e
  OBVIOUS
<1>16. s4 \in Seq(ValueNTokens) /\ ParseOf(ValueNMessages, ValueNReads, m, s4) = Read(q5)
  <2>1. s3 \in Seq(ValueNTokens) /\ e \in Seq(ValueNTokens)
    BY <1>2, <1>13
  <2>2. PICK y : y = Read(q4)
    OBVIOUS
  <2>3. y = ParseOf(ValueNMessages, ValueNReads, m, s3) /\ y.ok /\ y.msg = q4
    BY <1>13, <2>2 DEF Read
  <2>4. ParseOf(ValueNMessages, ValueNReads, m, s3 \o e) = IF y.ok THEN
          ParseOf(ValueNMessages, ValueNReads, y.msg, e) ELSE y
    BY <1>3, <2>1, <2>3, ParseParts
  <2>5. s3 \o e \in Seq(ValueNTokens)
    BY <2>1, ConcatProperties
  <2>6. QED
    BY <1>14, <1>15, <2>3, <2>4, <2>5
<1>17. vct_value_n_Serialize(n) = s4
  BY <1>1, <1>6, <1>9, <1>12, <1>15, ValueNSerialize
<1>18. r = Read(q5)
  BY <1>16, <1>17, ValueNParse
<1>19. PICK x : x = vct_value_n_MergeFrom(m, n)
  OBVIOUS
<1>20. ValueNMergeShows(x, m, n)
  BY <1>19, ValueNMerge
<1>21. q5.has = x.has /\ q5.unk = x.unk
  <2>1. n.has \in SUBSET (0 .. 3)
    BY ValueNIs DEF IsValueN
  <2>2. QED
    BY <1>20, <2>1, <1>4, <1>5, <1>8, <1>11, <1>14 DEF ValueNMergeShows, ValueNGot_pos,
        ValueNGot_a, ValueNGot_b, ValueNGot_commit, ValueNGot_unk
<1>22. PosShown(q5.pos_) = PosShown(x.pos_)
  BY <1>20, <1>4, <1>5, <1>8, <1>11, <1>14 DEF ValueNMergeShows, ValueNGot_pos, ValueNGot_a,
      ValueNGot_b, ValueNGot_commit, ValueNGot_unk
<1>23. q5.a_ = x.a_
  BY <1>20, <1>4, <1>5, <1>8, <1>11, <1>14 DEF ValueNMergeShows, ValueNGot_pos, ValueNGot_a,
      ValueNGot_b, ValueNGot_commit, ValueNGot_unk
<1>24. q5.b_ = x.b_
  BY <1>20, <1>4, <1>5, <1>8, <1>11, <1>14 DEF ValueNMergeShows, ValueNGot_pos, ValueNGot_a,
      ValueNGot_b, ValueNGot_commit, ValueNGot_unk
<1>25. q5.commit_ = x.commit_
  BY <1>20, <1>4, <1>5, <1>8, <1>11, <1>14 DEF ValueNMergeShows, ValueNGot_pos, ValueNGot_a,
      ValueNGot_b, ValueNGot_commit, ValueNGot_unk
<1>26. ValueNAlike(q5, x)
  BY <1>21, <1>22, <1>23, <1>24, <1>25 DEF ValueNAlike
<1>27. q5 \in ValueNMessages
  BY <1>14 DEF ValueNGot_unk
<1>28. QED
  BY <1>18, <1>19, <1>26, <1>27, ValueNSame, ReadIs

ValueGot_key(q, p, n) ==
  /\ q \in ValueMessages
  /\ q.has = IF 0 \in n.has THEN p.has \cup {0} ELSE p.has
  /\ q.key_ = IF 0 \in n.has THEN n.key_ ELSE p.key_
  /\ q.unk = p.unk /\ q.main_ = p.main_ /\ q.his_ = p.his_ /\ q.commit_count_ = p.commit_count_

\* Reading that part back.
LEMMA ValueGets_key ==
  ASSUME NEW p \in ValueMessages, NEW n \in ValueMessages
  PROVE  \E q : ParseOf(ValueMessages, ValueReads, p, ValueWire_key(n)) = Read(q) /\
           ValueGot_key(q, p, n)
<1>1. IsValue(p) /\ IsValue(n) /\ HasFields(p, ValueFields)
  BY ValueIs DEF IsValue
<1>2. Parser(ValueMessages, ValueTokens, ValueReads)
  BY ValueParse
<1>3. CASE 0 \in n.has
  <2>1. PICK t : t = WriteString(1, n.key_)
    OBVIOUS
  <2>2. t \in ValueTokens /\ ValueWire_key(n) = <<t>>
    BY <1>3, <2>1, ValueWrites DEF ValueWire_key, Token
  <2>3. ParseOf(ValueMessages, ValueReads, p, <<t>>) = vct_value_Field(p, t)
    BY <1>2, <2>2, ParseShort, ValueParse
  <2>4. n.key_ \in Strings
    BY <1>1, <1>3 DEF IsValue, StringCell
  <2>5. Tag(t, 1, "len") /\ ~t.cut /\ t.val = n.key_
    BY <2>1 DEF WriteString, Tag
  <2>6. vct_value_Field(p, t) = ReadString(p, 0, "key_", t)
    BY <2>5, ValueSwitch
  <2>7. PICK q : q = Put(p, 0, "key_", n.key_)
    OBVIOUS
  <2>8. vct_value_Field(p, t) = Read(q)
    BY <2>5, <2>6, <2>7 DEF ReadString
  <2>9. ValueGot_key(q, p, n)
    <3>1. q \in ValueMessages
      BY <2>4, <2>7, ValuePut
    <3>2. QED
      BY <1>1, <1>3, <2>7, <3>1 DEF ValueGot_key, Put, HasFields, ValueFields
  <2>10. QED
    BY <2>2, <2>3, <2>8, <2>9
<1>4. CASE 0 \notin n.has
  <2>1. ValueWire_key(n) = <<>>
    BY <1>4 DEF ValueWire_key, Token
  <2>2. ParseOf(ValueMessages, ValueReads, p, <<>>) = Read(p)
    BY <1>2, ParseShort
  <2>3. ValueGot_key(p, p, n)
    BY <1>4 DEF ValueGot_key
  <2>4. QED
    BY <2>1, <2>2, <2>3
<1>5. QED
  BY <1>3, <1>4

ValueGot_main(q, p, n) ==
  /\ q \in ValueMessages
  /\ q.has = IF 1 \in n.has THEN p.has \cup {1} ELSE p.has
  /\ ValueNShown(q.main_) = IF 1 \in n.has THEN
       vct_value_n_View(vct_value_n_MergeFrom(ValueNOwned(p.main_), n.main_))
                  ELSE ValueNShown(p.main_)
  /\ q.unk = p.unk /\ q.key_ = p.key_ /\ q.his_ = p.his_ /\ q.commit_count_ = p.commit_count_

\* Reading that part back.
LEMMA ValueGets_main ==
  ASSUME NEW p \in ValueMessages, NEW n \in ValueMessages
  PROVE  \E q : ParseOf(ValueMessages, ValueReads, p, ValueWire_main(n)) = Read(q) /\
           ValueGot_main(q, p, n)
<1>1. IsValue(p) /\ IsValue(n) /\ HasFields(p, ValueFields)
  BY ValueIs DEF IsValue
<1>2. Parser(ValueMessages, ValueTokens, ValueReads)
  BY ValueParse
<1>3. CASE 1 \in n.has
  <2>1. PICK t : t = WriteMessage(2, n.main_, vct_value_n_Serialize(n.main_))
    OBVIOUS
  <2>2. t \in ValueTokens /\ ValueWire_main(n) = <<t>>
    BY <1>3, <2>1, ValueWrites DEF ValueWire_main, Token
  <2>3. ParseOf(ValueMessages, ValueReads, p, <<t>>) = vct_value_Field(p, t)
    BY <1>2, <2>2, ParseShort, ValueParse
  <2>4. n.main_ \in ValueNMessages /\ ValueNOwned(p.main_) \in ValueNMessages
    <3>1. ValueNCell(n.has, 1, n.main_) /\ ValueNCell(p.has, 1, p.main_)
      BY <1>1 DEF IsValue
    <3>2. QED
      BY <1>3, <3>1, ValueNIsOwned
  <2>5. Tag(t, 2, "len") /\ ~t.cut /\ t.body = vct_value_n_Serialize(n.main_)
    BY <2>1 DEF WriteMessage, Tag
  <2>6. PICK r : r = vct_value_n_MergePartial(ValueNOwned(p.main_),
          vct_value_n_Serialize(n.main_))
    OBVIOUS
  <2>7. /\ r.ok /\ r.msg \in ValueNMessages
        /\ vct_value_n_View(r.msg) =
             vct_value_n_View(vct_value_n_MergeFrom(ValueNOwned(p.main_), n.main_))
    BY <2>4, <2>6, ValueNReadBack
  <2>8. ReadMessage(p, 1, "main_", vct_value_n_New, vct_value_n_MergePartial, t) =
          [ok |-> r.ok /\ ~t.cut, msg |-> Put(p, 1, "main_", r.msg)]
    <3>1. r = vct_value_n_MergePartial(ValueNOwned(p.main_), IF t.cut THEN <<>> ELSE t.body)
      BY <2>5, <2>6
    <3>2. QED
      BY <1>1, <3>1, ValueReads_main
  <2>9. PICK q : q = Put(p, 1, "main_", r.msg)
    OBVIOUS
  <2>10. vct_value_Field(p, t) = Read(q)
    BY <2>5, <2>7, <2>8, <2>9, ValueSwitch DEF Read
  <2>11. ValueGot_main(q, p, n)
    <3>1. q \in ValueMessages
      BY <2>7, <2>9, ValuePut
    <3>2. q.has = p.has \cup {1} /\ q.main_ = r.msg
          /\ q.unk = p.unk /\ q.key_ = p.key_ /\ q.his_ = p.his_ /\
               q.commit_count_ = p.commit_count_
      BY <1>1, <2>9 DEF Put, HasFields, ValueFields
    <3>3. ValueNShown(q.main_) = vct_value_n_View(r.msg)
      BY <2>7, <3>2, ClassesAssumption DEF ValueNShown, ValueNOwned
    <3>4. QED
      BY <1>3, <2>7, <3>1, <3>2, <3>3 DEF ValueGot_main
  <2>12. QED
    BY <2>2, <2>3, <2>10, <2>11
<1>4. CASE 1 \notin n.has
  <2>1. ValueWire_main(n) = <<>>
    BY <1>4 DEF ValueWire_main, Token
  <2>2. ParseOf(ValueMessages, ValueReads, p, <<>>) = Read(p)
    BY <1>2, ParseShort
  <2>3. ValueGot_main(p, p, n)
    BY <1>4 DEF ValueGot_main
  <2>4. QED
    BY <2>1, <2>2, <2>3
<1>5. QED
  BY <1>3, <1>4

ValueGot_his(q, p, n) ==
  /\ q \in ValueMessages
  /\ q.has = p.has /\ ValueNViews(q.his_) = ValueNViews(p.his_) \o ValueNViews(n.his_)
  /\ q.unk = p.unk /\ q.key_ = p.key_ /\ q.main_ = p.main_ /\ q.commit_count_ = p.commit_count_

\* Reading that part back.
LEMMA ValueGets_his ==
  ASSUME NEW p \in ValueMessages, NEW n \in ValueMessages
  PROVE  \E q : ParseOf(ValueMessages, ValueReads, p, ValueWire_his(n)) = Read(q) /\
           ValueGot_his(q, p, n)
<1>1. IsValue(p) /\ IsValue(n) /\ HasFields(p, ValueFields)
  BY ValueIs DEF IsValue
<1>2. Parser(ValueMessages, ValueTokens, ValueReads)
  BY ValueParse
<1>3. PICK k \in Nat, h \in Seq(ValueNMessages) : h = n.his_ /\ k = Len(h)
  BY <1>1, LenProperties DEF IsValue
<1>4. \A i \in 1 .. k : h[i] \in ValueNMessages
  BY <1>3, ElementOfSeq
<1>5. PICK w : w = ValueWire_his(n)
  OBVIOUS
<1>6. /\ w \in Seq(ValueTokens) /\ Len(w) = k
      /\ \A i \in 1 .. k : w[i] = WriteMessage(3, h[i], vct_value_n_Serialize(h[i]))
  BY <1>3, <1>5, ValueWrites DEF ValueWire_his, WriteRepeated
<1>7. PICK e : e = [i \in 1 .. k |-> vct_value_n_MergePartial(vct_value_n_New,
        vct_value_n_Serialize(h[i])).msg]
  OBVIOUS
<1>8. ASSUME NEW i \in 1 .. k
      PROVE  /\ vct_value_n_MergePartial(vct_value_n_New, vct_value_n_Serialize(h[i])).ok
             /\ e[i] \in ValueNMessages /\ vct_value_n_View(e[i]) = vct_value_n_View(h[i])
  <2>1. PICK r : r = vct_value_n_MergePartial(vct_value_n_New, vct_value_n_Serialize(h[i]))
    OBVIOUS
  <2>2. h[i] \in ValueNMessages /\ e[i] = r.msg
    BY <1>4, <1>7, <2>1
  <2>3. r.ok /\ r.msg \in ValueNMessages /\ vct_value_n_View(r.msg) =
          vct_value_n_View(vct_value_n_MergeFrom(vct_value_n_New, h[i]))
    BY <2>1, <2>2, ValueNNew, ValueNReadBack
  <2>4. QED
    BY <2>1, <2>2, <2>3, ValueNMergeNew
<1>9. e \in Seq(ValueNMessages) /\ Len(e) = k
  BY <1>7, <1>8
<1>10. p.his_ \in Seq(ValueNMessages)
  BY <1>1 DEF IsValue
<1>11. PICK g : /\ Grows(g, p.his_, e, k)
                /\ \A i \in 0 .. k : g[i] \in Seq(ValueNMessages)
  BY <1>9, <1>10, Growing DEF Prefixed
<1>12. PICK s : s = [i \in 0 .. k |-> [p EXCEPT !["his_"] = g[i]]]
  OBVIOUS
<1>13. /\ \A i \in 0 .. k : s[i] \in ValueMessages
       /\ s \in [0 .. k -> ValueMessages]
  <2>1. \A i \in 0 .. k : [p EXCEPT !["his_"] = g[i]] \in ValueMessages
    BY <1>11, ValuePut
  <2>2. QED
    BY <1>12, <2>1
<1>14. s[0] = p /\ s[k] = [p EXCEPT !["his_"] = p.his_ \o e]
  <2>1. g[0] = p.his_ /\ g[k] = p.his_ \o e /\ 0 \in 0 .. k /\ k \in 0 .. k
    BY <1>11 DEF Grows
  <2>2. s[0] = [p EXCEPT !["his_"] = p.his_] /\ s[k] = [p EXCEPT !["his_"] = p.his_ \o e]
    BY <1>12, <2>1
  <2>3. [p EXCEPT !["his_"] = p.his_] = p
    BY <1>1 DEF HasFields, ValueFields
  <2>4. QED
    BY <2>2, <2>3
<1>15. ASSUME NEW i \in 1 .. k PROVE ValueReads[s[i - 1]][w[i]] = Read(s[i])
  <2>1. i \in 0 .. k /\ i - 1 \in 0 .. k
    OBVIOUS
  <2>2. PICK t, a : t = w[i] /\ a = s[i - 1] /\ t \in ValueTokens /\ a \in ValueMessages
    <3>1. w[i] \in ValueTokens
      BY <1>6, ElementOfSeq
    <3>2. s[i - 1] \in ValueMessages
      BY <1>13, <2>1
    <3>3. QED
      BY <3>1, <3>2
  <2>3. Tag(t, 3, "len") /\ ~t.cut /\ t.body = vct_value_n_Serialize(h[i])
    BY <1>6, <2>2 DEF WriteMessage, Tag
  <2>4. a = [p EXCEPT !["his_"] = g[i - 1]] /\ s[i] = [p EXCEPT !["his_"] = g[i]]
        /\ g[i] = Append(g[i - 1], e[i])
    BY <1>11, <1>12, <2>1, <2>2 DEF Grows
  <2>5. [a EXCEPT !["his_"] = Append(@, e[i])] = s[i]
    BY <1>1, <2>4 DEF HasFields, ValueFields
  <2>6. vct_value_Field(a, t) =
          ReadElement(a, "his_", vct_value_n_New, vct_value_n_MergePartial, t)
    BY <2>3, ValueSwitch
  <2>7. ReadElement(a, "his_", vct_value_n_New, vct_value_n_MergePartial, t) = Read(s[i])
    BY <1>7, <1>8, <2>3, <2>5 DEF ReadElement, Read
  <2>8. QED
    BY <2>2, <2>6, <2>7, ValueParse
<1>16. ParseOf(ValueMessages, ValueReads, p, w) = Read(s[k])
  <2>1. Steps(ValueMessages, ValueReads, w, k, s)
    BY <1>13, <1>15 DEF Steps
  <2>2. k = Len(w) /\ p = s[0]
    BY <1>6, <1>14
  <2>3. QED
    BY <1>2, <1>6, <2>1, <2>2, ParseRun
<1>17. ValueGot_his(s[k], p, n)
  <2>1. PICK q : q = s[k]
    OBVIOUS
  <2>2. q \in ValueMessages
    BY <1>13, <2>1
  <2>3. q.has = p.has /\ q.his_ = p.his_ \o e
        /\ q.unk = p.unk /\ q.key_ = p.key_ /\ q.main_ = p.main_ /\
             q.commit_count_ = p.commit_count_
    BY <1>1, <1>14, <2>1 DEF HasFields, ValueFields
  <2>4. ValueNViewsJoined(p.his_, e, q.his_)
    BY <1>9, <1>10, <2>3, ValueNViewsIs
  <2>5. ValueNViews(e) = ValueNViews(h)
    BY <1>3, <1>8, <1>9, ValueNViewsSame
  <2>6. QED
    BY <1>3, <2>1, <2>2, <2>3, <2>4, <2>5 DEF ValueGot_his, ValueNViewsJoined
<1>18. QED
  BY <1>5, <1>16, <1>17

ValueGot_commit_count(q, p, n) ==
  /\ q \in ValueMessages
  /\ q.has = IF 2 \in n.has THEN p.has \cup {2} ELSE p.has
  /\ q.commit_count_ = IF 2 \in n.has THEN n.commit_count_ ELSE p.commit_count_
  /\ q.unk = p.unk /\ q.key_ = p.key_ /\ q.main_ = p.main_ /\ q.his_ = p.his_

\* Reading that part back.
LEMMA ValueGets_commit_count ==
  ASSUME NEW p \in ValueMessages, NEW n \in ValueMessages
  PROVE  \E q : ParseOf(ValueMessages, ValueReads, p, ValueWire_commit_count(n)) = Read(q) /\
           ValueGot_commit_count(q, p, n)
<1>1. IsValue(p) /\ IsValue(n) /\ HasFields(p, ValueFields)
  BY ValueIs DEF IsValue
<1>2. Parser(ValueMessages, ValueTokens, ValueReads)
  BY ValueParse
<1>3. CASE 2 \in n.has
  <2>1. PICK t : t = WriteInt64(4, n.commit_count_)
    OBVIOUS
  <2>2. t \in ValueTokens /\ ValueWire_commit_count(n) = <<t>>
    BY <1>3, <2>1, ValueWrites DEF ValueWire_commit_count, Token
  <2>3. ParseOf(ValueMessages, ValueReads, p, <<t>>) = vct_value_Field(p, t)
    BY <1>2, <2>2, ParseShort, ValueParse
  <2>4. n.commit_count_ \in Int
    BY <1>1, <1>3 DEF IsValue, IntCell
  <2>5. Tag(t, 4, "varint") /\ ~t.cut /\ t.val = n.commit_count_
    BY <2>1 DEF WriteInt64, Tag
  <2>6. vct_value_Field(p, t) = ReadInt64(p, 2, "commit_count_", t)
    BY <2>5, ValueSwitch
  <2>7. PICK q : q = Put(p, 2, "commit_count_", n.commit_count_)
    OBVIOUS
  <2>8. vct_value_Field(p, t) = Read(q)
    BY <2>5, <2>6, <2>7 DEF ReadInt64
  <2>9. ValueGot_commit_count(q, p, n)
    <3>1. q \in ValueMessages
      BY <2>4, <2>7, ValuePut
    <3>2. QED
      BY <1>1, <1>3, <2>7, <3>1 DEF ValueGot_commit_count, Put, HasFields, ValueFields
  <2>10. QED
    BY <2>2, <2>3, <2>8, <2>9
<1>4. CASE 2 \notin n.has
  <2>1. ValueWire_commit_count(n) = <<>>
    BY <1>4 DEF ValueWire_commit_count, Token
  <2>2. ParseOf(ValueMessages, ValueReads, p, <<>>) = Read(p)
    BY <1>2, ParseShort
  <2>3. ValueGot_commit_count(p, p, n)
    BY <1>4 DEF ValueGot_commit_count
  <2>4. QED
    BY <2>1, <2>2, <2>3
<1>5. QED
  BY <1>3, <1>4

ValueGot_unk(q, p, n) ==
  /\ q \in ValueMessages /\ q.has = p.has /\ q.unk = p.unk \o n.unk
  /\ q.key_ = p.key_ /\ q.main_ = p.main_ /\ q.his_ = p.his_ /\
       q.commit_count_ = p.commit_count_

\* Reading that part back.
LEMMA ValueGets_unk ==
  ASSUME NEW p \in ValueMessages, NEW n \in ValueMessages
  PROVE  \E q : ParseOf(ValueMessages, ValueReads, p, n.unk) = Read(q) /\ ValueGot_unk(q, p, n)
<1>1. IsValue(p) /\ IsValue(n) /\ HasFields(p, ValueFields)
  BY ValueIs DEF IsValue
<1>2. Parser(ValueMessages, ValueTokens, ValueReads)
  BY ValueParse
<1>3. PICK k \in Nat, w \in Seq(ValueUnknown) : w = n.unk /\ k = Len(w)
  BY <1>1, LenProperties DEF IsValue
<1>4. w \in Seq(ValueTokens) /\ p.unk \in Seq(ValueUnknown)
  BY <1>1, <1>3, ValueWrites DEF IsValue
<1>5. PICK g : /\ Grows(g, p.unk, w, k)
               /\ \A i \in 0 .. k : \E u \in Seq(ValueUnknown) : g[i] = p.unk \o u
  <2>1. p.unk \in Seq(ValueUnknown) /\ w \in Seq(ValueUnknown) /\ k = Len(w)
    BY <1>3, <1>4
  <2>2. \E g : Grows(g, p.unk, w, k) /\ Prefixed(g, p.unk, ValueUnknown, k)
    BY <2>1, Growing
  <2>3. QED
    BY <2>2 DEF Prefixed
<1>6. PICK s : s = [i \in 0 .. k |-> [p EXCEPT !["unk"] = g[i]]]
  OBVIOUS
<1>7. /\ \A i \in 0 .. k : s[i] \in ValueMessages
      /\ s \in [0 .. k -> ValueMessages]
  <2>1. \A i \in 0 .. k : [p EXCEPT !["unk"] = g[i]] \in ValueMessages
    BY <1>5, ValuePut
  <2>2. QED
    BY <1>6, <2>1
<1>8. s[0] = p /\ s[k] = [p EXCEPT !["unk"] = p.unk \o w]
  <2>1. g[0] = p.unk /\ g[k] = p.unk \o w /\ 0 \in 0 .. k /\ k \in 0 .. k
    BY <1>5 DEF Grows
  <2>2. s[0] = [p EXCEPT !["unk"] = p.unk] /\ s[k] = [p EXCEPT !["unk"] = p.unk \o w]
    BY <1>6, <2>1
  <2>3. [p EXCEPT !["unk"] = p.unk] = p
    BY <1>1 DEF HasFields, ValueFields
  <2>4. QED
    BY <2>2, <2>3
<1>9. ASSUME NEW i \in 1 .. k PROVE ValueReads[s[i - 1]][w[i]] = Read(s[i])
  <2>1. i \in 0 .. k /\ i - 1 \in 0 .. k
    OBVIOUS
  <2>2. PICK t, a : /\ t = w[i] /\ a = s[i - 1]
                    /\ t \in ValueUnknown /\ t \in ValueTokens /\ a \in ValueMessages
    <3>1. w[i] \in ValueUnknown
      BY <1>3, ElementOfSeq
    <3>2. w[i] \in ValueTokens
      BY <1>3, <1>4, ElementOfSeq
    <3>3. s[i - 1] \in ValueMessages
      BY <1>7, <2>1
    <3>4. QED
      BY <3>1, <3>2, <3>3
  <2>3. ~t.cut /\ NotOfValue(t)
    BY <2>2, UnknownTags DEF ValueUnknown, NotOfValue
  <2>4. /\ a = [p EXCEPT !["unk"] = g[i - 1]] /\ s[i] = [p EXCEPT !["unk"] = g[i]]
        /\ g[i] = Append(g[i - 1], t)
    BY <1>5, <1>6, <2>1, <2>2 DEF Grows
  <2>5. [a EXCEPT !.unk = Append(@, t)] = s[i]
    BY <1>1, <2>4 DEF HasFields, ValueFields
  <2>6. vct_value_Field(a, t) = Read(s[i])
    BY <2>3, <2>5, ValueSwitch DEF SkipField
  <2>7. QED
    BY <2>2, <2>6, ValueParse
<1>10. ParseOf(ValueMessages, ValueReads, p, w) = Read(s[k])
  <2>1. Steps(ValueMessages, ValueReads, w, k, s)
    BY <1>7, <1>9 DEF Steps
  <2>2. w \in Seq(ValueTokens) /\ k = Len(w) /\ p = s[0]
    BY <1>3, <1>4, <1>8
  <2>3. QED
    BY <1>2, <2>1, <2>2, ParseRun
<1>11. ValueGot_unk(s[k], p, n)
  <2>1. PICK q : q = s[k]
    OBVIOUS
  <2>2. q \in ValueMessages
    BY <1>7, <2>1
  <2>3. QED
    BY <1>1, <1>3, <1>8, <2>1, <2>2 DEF ValueGot_unk, HasFields, ValueFields
<1>12. QED
  BY <1>3, <1>10, <1>11

\* Reading what a message has written merges it.
LEMMA ValueReadBack ==
  ASSUME NEW m \in ValueMessages, NEW n \in ValueMessages, NEW r, r =
           vct_value_MergePartial(m, vct_value_Serialize(n))
  PROVE  r.ok /\ r.msg \in ValueMessages /\ vct_value_View(r.msg) =
           vct_value_View(vct_value_MergeFrom(m, n))
<1>1. PICK a, b, c, d, e : /\ a = ValueWire_key(n) /\ b = ValueWire_main(n) /\
                                c = ValueWire_his(n) /\ d = ValueWire_commit_count(n) /\
                                e = n.unk
  OBVIOUS
<1>2. a \in Seq(ValueTokens) /\ b \in Seq(ValueTokens) /\ c \in Seq(ValueTokens) /\
        d \in Seq(ValueTokens) /\ e \in Seq(ValueTokens)
  BY <1>1, ValueWrites
<1>3. Parser(ValueMessages, ValueTokens, ValueReads)
  BY ValueParse
<1>4. PICK q1 : ParseOf(ValueMessages, ValueReads, m, a) = Read(q1) /\ ValueGot_key(q1, m, n)
  BY <1>1, ValueGets_key
<1>5. PICK q2 : ParseOf(ValueMessages, ValueReads, q1, b) = Read(q2) /\ ValueGot_main(q2, q1, n)
  <2>1. q1 \in ValueMessages
    BY <1>4 DEF ValueGot_key
  <2>2. QED
    BY <1>1, <2>1, ValueGets_main
<1>6. PICK s1 : s1 = a \o b
  OBVIOUS
<1>7. s1 \in Seq(ValueTokens) /\ ParseOf(ValueMessages, ValueReads, m, s1) = Read(q2)
  <2>1. a \in Seq(ValueTokens) /\ b \in Seq(ValueTokens)
    BY <1>2, <1>2
  <2>2. PICK y : y = Read(q1)
    OBVIOUS
  <2>3. y = ParseOf(ValueMessages, ValueReads, m, a) /\ y.ok /\ y.msg = q1
    BY <1>4, <2>2 DEF Read
  <2>4. ParseOf(ValueMessages, ValueReads, m, a \o b) = IF y.ok THEN
          ParseOf(ValueMessages, ValueReads, y.msg, b) ELSE y
    BY <1>3, <2>1, <2>3, ParseParts
  <2>5. a \o b \in Seq(ValueTokens)
    BY <2>1, ConcatProperties
  <2>6. QED
    BY <1>5, <1>6, <2>3, <2>4, <2>5
<1>8. PICK q3 : ParseOf(ValueMessages, ValueReads, q2, c) = Read(q3) /\ ValueGot_his(q3, q2, n)
  <2>1. q2 \in ValueMessages
    BY <1>5 DEF ValueGot_main
  <2>2. QED
    BY <1>1, <2>1, ValueGets_his
<1>9. PICK s2 : s2 = s1 \o c
  OBVIOUS
<1>10. s2 \in Seq(ValueTokens) /\ ParseOf(ValueMessages, ValueReads, m, s2) = Read(q3)
  <2>1. s1 \in Seq(ValueTokens) /\ c \in Seq(ValueTokens)
    BY <1>2, <1>7
  <2>2. PICK y : y = Read(q2)
    OBVIOUS
  <2>3. y = ParseOf(ValueMessages, ValueReads, m, s1) /\ y.ok /\ y.msg = q2
    BY <1>7, <2>2 DEF Read
  <2>4. ParseOf(ValueMessages, ValueReads, m, s1 \o c) = IF y.ok THEN
          ParseOf(ValueMessages, ValueReads, y.msg, c) ELSE y
    BY <1>3, <2>1, <2>3, ParseParts
  <2>5. s1 \o c \in Seq(ValueTokens)
    BY <2>1, ConcatProperties
  <2>6. QED
    BY <1>8, <1>9, <2>3, <2>4, <2>5
<1>11. PICK q4 : ParseOf(ValueMessages, ValueReads, q3, d) = Read(q4) /\
        ValueGot_commit_count(q4, q3, n)
  <2>1. q3 \in ValueMessages
    BY <1>8 DEF ValueGot_his
  <2>2. QED
    BY <1>1, <2>1, ValueGets_commit_count
<1>12. PICK s3 : s3 = s2 \o d
  OBVIOUS
<1>13. s3 \in Seq(ValueTokens) /\ ParseOf(ValueMessages, ValueReads, m, s3) = Read(q4)
  <2>1. s2 \in Seq(ValueTokens) /\ d \in Seq(ValueTokens)
    BY <1>2, <1>10
  <2>2. PICK y : y = Read(q3)
    OBVIOUS
  <2>3. y = ParseOf(ValueMessages, ValueReads, m, s2) /\ y.ok /\ y.msg = q3
    BY <1>10, <2>2 DEF Read
  <2>4. ParseOf(ValueMessages, ValueReads, m, s2 \o d) = IF y.ok THEN
          ParseOf(ValueMessages, ValueReads, y.msg, d) ELSE y
    BY <1>3, <2>1, <2>3, ParseParts
  <2>5. s2 \o d \in Seq(ValueTokens)
    BY <2>1, ConcatProperties
  <2>6. QED
    BY <1>11, <1>12, <2>3, <2>4, <2>5
<1>14. PICK q5 : ParseOf(ValueMessages, ValueReads, q4, e) = Read(q5) /\ ValueGot_unk(q5, q4, n)
  <2>1. q4 \in ValueMessages
    BY <1>11 DEF ValueGot_commit_count
  <2>2. QED
    BY <1>1, <2>1, ValueGets_unk
<1>15. PICK s4 : s4 = s3 \o e
  OBVIOUS
<1>16. s4 \in Seq(ValueTokens) /\ ParseOf(ValueMessages, ValueReads, m, s4) = Read(q5)
  <2>1. s3 \in Seq(ValueTokens) /\ e \in Seq(ValueTokens)
    BY <1>2, <1>13
  <2>2. PICK y : y = Read(q4)
    OBVIOUS
  <2>3. y = ParseOf(ValueMessages, ValueReads, m, s3) /\ y.ok /\ y.msg = q4
    BY <1>13, <2>2 DEF Read
  <2>4. ParseOf(ValueMessages, ValueReads, m, s3 \o e) = IF y.ok THEN
          ParseOf(ValueMessages, ValueReads, y.msg, e) ELSE y
    BY <1>3, <2>1, <2>3, ParseParts
  <2>5. s3 \o e \in Seq(ValueTokens)
    BY <2>1, ConcatProperties
  <2>6. QED
    BY <1>14, <1>15, <2>3, <2>4, <2>5
<1>17. vct_value_Serialize(n) = s4
  BY <1>1, <1>6, <1>9, <1>12, <1>15, ValueSerialize
<1>18. r = Read(q5)
  BY <1>16, <1>17, ValueParse
<1>19. PICK x : x = vct_value_MergeFrom(m, n)
  OBVIOUS
<1>20. ValueMergeShows(x, m, n)
  BY <1>19, ValueMerge
<1>21. q5.has = x.has /\ q5.unk = x.unk
  <2>1. n.has \in SUBSET (0 .. 2)
    BY ValueIs DEF IsValue
  <2>2. QED
    BY <1>20, <2>1, <1>4, <1>5, <1>8, <1>11, <1>14 DEF ValueMergeShows, ValueGot_key,
        ValueGot_main, ValueGot_his, ValueGot_commit_count, ValueGot_unk
<1>22. Text(q5.key_) = Text(x.key_)
  BY <1>20, <1>4, <1>5, <1>8, <1>11, <1>14 DEF ValueMergeShows, ValueGot_key, ValueGot_main,
      ValueGot_his, ValueGot_commit_count, ValueGot_unk
<1>23. ValueNShown(q5.main_) = ValueNShown(x.main_)
  BY <1>20, <1>4, <1>5, <1>8, <1>11, <1>14 DEF ValueMergeShows, ValueGot_key, ValueGot_main,
      ValueGot_his, ValueGot_commit_count, ValueGot_unk
<1>24. ValueNViews(q5.his_) = ValueNViews(x.his_)
  BY <1>20, <1>4, <1>5, <1>8, <1>11, <1>14 DEF ValueMergeShows, ValueGot_key, ValueGot_main,
      ValueGot_his, ValueGot_commit_count, ValueGot_unk
<1>25. q5.commit_count_ = x.commit_count_
  BY <1>20, <1>4, <1>5, <1>8, <1>11, <1>14 DEF ValueMergeShows, ValueGot_key, ValueGot_main,
      ValueGot_his, ValueGot_commit_count, ValueGot_unk
<1>26. ValueAlike(q5, x)
  BY <1>21, <1>22, <1>23, <1>24, <1>25 DEF ValueAlike
<1>27. q5 \in ValueMessages
  BY <1>14 DEF ValueGot_unk
<1>28. QED
  BY <1>18, <1>19, <1>26, <1>27, ValueSame, ReadIs

KeytableGot_field(q, p, n) ==
  /\ q \in KeytableMessages
  /\ q.has = IF 0 \in n.has THEN p.has \cup {0} ELSE p.has
  /\ q.field_ = IF 0 \in n.has THEN n.field_ ELSE p.field_
  /\ q.unk = p.unk /\ q.route_table_ = p.route_table_ /\
       q.route_table_field_ = p.route_table_field_

\* Reading that part back.
LEMMA KeytableGets_field ==
  ASSUME NEW p \in KeytableMessages, NEW n \in KeytableMessages
  PROVE  \E q : ParseOf(KeytableMessages, KeytableReads, p, KeytableWire_field(n)) = Read(q) /\
           KeytableGot_field(q, p, n)
<1>1. IsKeytable(p) /\ IsKeytable(n) /\ HasFields(p, KeytableFields)
  BY KeytableIs DEF IsKeytable
<1>2. Parser(KeytableMessages, KeytableTokens, KeytableReads)
  BY KeytableParse
<1>3. CASE 0 \in n.has
  <2>1. PICK t : t = WriteString(1, n.field_)
    OBVIOUS
  <2>2. t \in KeytableTokens /\ KeytableWire_field(n) = <<t>>
    BY <1>3, <2>1, KeytableWrites DEF KeytableWire_field, Token
  <2>3. ParseOf(KeytableMessages, KeytableReads, p, <<t>>) = keytable_value_Field(p, t)
    BY <1>2, <2>2, ParseShort, KeytableParse
  <2>4. n.field_ \in Strings
    BY <1>1, <1>3 DEF IsKeytable, StringCell
  <2>5. Tag(t, 1, "len") /\ ~t.cut /\ t.val = n.field_
    BY <2>1 DEF WriteString, Tag
  <2>6. keytable_value_Field(p, t) = ReadString(p, 0, "field_", t)
    BY <2>5, KeytableSwitch
  <2>7. PICK q : q = Put(p, 0, "field_", n.field_)
    OBVIOUS
  <2>8. keytable_value_Field(p, t) = Read(q)
    BY <2>5, <2>6, <2>7 DEF ReadString
  <2>9. KeytableGot_field(q, p, n)
    <3>1. q \in KeytableMessages
      BY <2>4, <2>7, KeytablePut
    <3>2. QED
      BY <1>1, <1>3, <2>7, <3>1 DEF KeytableGot_field, Put, HasFields, KeytableFields
  <2>10. QED
    BY <2>2, <2>3, <2>8, <2>9
<1>4. CASE 0 \notin n.has
  <2>1. KeytableWire_field(n) = <<>>
    BY <1>4 DEF KeytableWire_field, Token
  <2>2. ParseOf(KeytableMessages, KeytableReads, p, <<>>) = Read(p)
    BY <1>2, ParseShort
  <2>3. KeytableGot_field(p, p, n)
    BY <1>4 DEF KeytableGot_field
  <2>4. QED
    BY <2>1, <2>2, <2>3
<1>5. QED
  BY <1>3, <1>4

KeytableGot_route_table(q, p, n) ==
  /\ q \in KeytableMessages
  /\ q.has = IF 1 \in n.has THEN p.has \cup {1} ELSE p.has
  /\ q.route_table_ = IF 1 \in n.has THEN n.route_table_ ELSE p.route_table_
  /\ q.unk = p.unk /\ q.field_ = p.field_ /\ q.route_table_field_ = p.route_table_field_

\* Reading that part back.
LEMMA KeytableGets_route_table ==
  ASSUME NEW p \in KeytableMessages, NEW n \in KeytableMessages
  PROVE  \E q : ParseOf(KeytableMessages, KeytableReads, p, KeytableWire_route_table(n)) =
           Read(q) /\ KeytableGot_route_table(q, p, n)
<1>1. IsKeytable(p) /\ IsKeytable(n) /\ HasFields(p, KeytableFields)
  BY KeytableIs DEF IsKeytable
<1>2. Parser(KeytableMessages, KeytableTokens, KeytableReads)
  BY KeytableParse
<1>3. CASE 1 \in n.has
  <2>1. PICK t : t = WriteString(2, n.route_table_)
    OBVIOUS
  <2>2. t \in KeytableTokens /\ KeytableWire_route_table(n) = <<t>>
    BY <1>3, <2>1, KeytableWrites DEF KeytableWire_route_table, Token
  <2>3. ParseOf(KeytableMessages, KeytableReads, p, <<t>>) = keytable_value_Field(p, t)
    BY <1>2, <2>2, ParseShort, KeytableParse
  <2>4. n.route_table_ \in Strings
    BY <1>1, <1>3 DEF IsKeytable, StringCell
  <2>5. Tag(t, 2, "len") /\ ~t.cut /\ t.val = n.route_table_
    BY <2>1 DEF WriteString, Tag
  <2>6. keytable_value_Field(p, t) = ReadString(p, 1, "route_table_", t)
    BY <2>5, KeytableSwitch
  <2>7. PICK q : q = Put(p, 1, "route_table_", n.route_table_)
    OBVIOUS
  <2>8. keytable_value_Field(p, t) = Read(q)
    BY <2>5, <2>6, <2>7 DEF ReadString
  <2>9. KeytableGot_route_table(q, p, n)
    <3>1. q \in KeytableMessages
      BY <2>4, <2>7, KeytablePut
    <3>2. QED
      BY <1>1, <1>3, <2>7, <3>1 DEF KeytableGot_route_table, Put, HasFields, KeytableFields
  <2>10. QED
    BY <2>2, <2>3, <2>8, <2>9
<1>4. CASE 1 \notin n.has
  <2>1. KeytableWire_route_table(n) = <<>>
    BY <1>4 DEF KeytableWire_route_table, Token
  <2>2. ParseOf(KeytableMessages, KeytableReads, p, <<>>) = Read(p)
    BY <1>2, ParseShort
  <2>3. KeytableGot_route_table(p, p, n)
    BY <1>4 DEF KeytableGot_route_table
  <2>4. QED
    BY <2>1, <2>2, <2>3
<1>5. QED
  BY <1>3, <1>4

KeytableGot_route_table_field(q, p, n) ==
  /\ q \in KeytableMessages
  /\ q.has = IF 2 \in n.has THEN p.has \cup {2} ELSE p.has
  /\ q.route_table_field_ = IF 2 \in n.has THEN n.route_table_field_ ELSE p.route_table_field_
  /\ q.unk = p.unk /\ q.field_ = p.field_ /\ q.route_table_ = p.route_table_

\* Reading that part back.
LEMMA KeytableGets_route_table_field ==
  ASSUME NEW p \in KeytableMessages, NEW n \in KeytableMessages
  PROVE  \E q : ParseOf(KeytableMessages, KeytableReads, p, KeytableWire_route_table_field(n)) =
           Read(q) /\ KeytableGot_route_table_field(q, p, n)
<1>1. IsKeytable(p) /\ IsKeytable(n) /\ HasFields(p, KeytableFields)
  BY KeytableIs DEF IsKeytable
<1>2. Parser(KeytableMessages, KeytableTokens, KeytableReads)
  BY KeytableParse
<1>3. CASE 2 \in n.has
  <2>1. PICK t : t = WriteString(3, n.route_table_field_)
    OBVIOUS
  <2>2. t \in KeytableTokens /\ KeytableWire_route_table_field(n) = <<t>>
    BY <1>3, <2>1, KeytableWrites DEF KeytableWire_route_table_field, Token
  <2>3. ParseOf(KeytableMessages, KeytableReads, p, <<t>>) = keytable_value_Field(p, t)
    BY <1>2, <2>2, ParseShort, KeytableParse
  <2>4. n.route_table_field_ \in Strings
    BY <1>1, <1>3 DEF IsKeytable, StringCell
  <2>5. Tag(t, 3, "len") /\ ~t.cut /\ t.val = n.route_table_field_
    BY <2>1 DEF WriteString, Tag
  <2>6. keytable_value_Field(p, t) = ReadString(p, 2, "route_table_field_", t)
    BY <2>5, KeytableSwitch
  <2>7. PICK q : q = Put(p, 2, "route_table_field_", n.route_table_field_)
    OBVIOUS
  <2>8. keytable_value_Field(p, t) = Read(q)
    BY <2>5, <2>6, <2>7 DEF ReadString
  <2>9. KeytableGot_route_table_field(q, p, n)
    <3>1. q \in KeytableMessages
      BY <2>4, <2>7, KeytablePut
    <3>2. QED
      BY <1>1, <1>3, <2>7, <3>1 DEF KeytableGot_route_table_field, Put, HasFields,
          KeytableFields
  <2>10. QED
    BY <2>2, <2>3, <2>8, <2>9
<1>4. CASE 2 \notin n.has
  <2>1. KeytableWire_route_table_field(n) = <<>>
    BY <1>4 DEF KeytableWire_route_table_field, Token
  <2>2. ParseOf(KeytableMessages, KeytableReads, p, <<>>) = Read(p)
    BY <1>2, ParseShort
  <2>3. KeytableGot_route_table_field(p, p, n)
    BY <1>4 DEF KeytableGot_route_table_field
  <2>4. QED
    BY <2>1, <2>2, <2>3
<1>5. QED
  BY <1>3, <1>4

KeytableGot_unk(q, p, n) ==
  /\ q \in KeytableMessages /\ q.has = p.has /\ q.unk = p.unk \o n.unk
  /\ q.field_ = p.field_ /\ q.route_table_ = p.route_table_ /\
       q.route_table_field_ = p.route_table_field_

\* Reading that part back.
LEMMA KeytableGets_unk ==
  ASSUME NEW p \in KeytableMessages, NEW n \in KeytableMessages
  PROVE  \E q : ParseOf(KeytableMessages, KeytableReads, p, n.unk) = Read(q) /\
           KeytableGot_unk(q, p, n)
<1>1. IsKeytable(p) /\ IsKeytable(n) /\ HasFields(p, KeytableFields)
  BY KeytableIs DEF IsKeytable
<1>2. Parser(KeytableMessages, KeytableTokens, KeytableReads)
  BY KeytableParse
<1>3. PICK k \in Nat, w \in Seq(KeytableUnknown) : w = n.unk /\ k = Len(w)
  BY <1>1, LenProperties DEF IsKeytable
<1>4. w \in Seq(KeytableTokens) /\ p.unk \in Seq(KeytableUnknown)
  BY <1>1, <1>3, KeytableWrites DEF IsKeytable
<1>5. PICK g : /\ Grows(g, p.unk, w, k)
               /\ \A i \in 0 .. k : \E u \in Seq(KeytableUnknown) : g[i] = p.unk \o u
  <2>1. p.unk \in Seq(KeytableUnknown) /\ w \in Seq(KeytableUnknown) /\ k = Len(w)
    BY <1>3, <1>4
  <2>2. \E g : Grows(g, p.unk, w, k) /\ Prefixed(g, p.unk, KeytableUnknown, k)
    BY <2>1, Growing
  <2>3. QED
    BY <2>2 DEF Prefixed
<1>6. PICK s : s = [i \in 0 .. k |-> [p EXCEPT !["unk"] = g[i]]]
  OBVIOUS
<1>7. /\ \A i \in 0 .. k : s[i] \in KeytableMessages
      /\ s \in [0 .. k -> KeytableMessages]
  <2>1. \A i \in 0 .. k : [p EXCEPT !["unk"] = g[i]] \in KeytableMessages
    BY <1>5, KeytablePut
  <2>2. QED
    BY <1>6, <2>1
<1>8. s[0] = p /\ s[k] = [p EXCEPT !["unk"] = p.unk \o w]
  <2>1. g[0] = p.unk /\ g[k] = p.unk \o w /\ 0 \in 0 .. k /\ k \in 0 .. k
    BY <1>5 DEF Grows
  <2>2. s[0] = [p EXCEPT !["unk"] = p.unk] /\ s[k] = [p EXCEPT !["unk"] = p.unk \o w]
    BY <1>6, <2>1
  <2>3. [p EXCEPT !["unk"] = p.unk] = p
    BY <1>1 DEF HasFields, KeytableFields
  <2>4. QED
    BY <2>2, <2>3
<1>9. ASSUME NEW i \in 1 .. k PROVE KeytableReads[s[i - 1]][w[i]] = Read(s[i])
  <2>1. i \in 0 .. k /\ i - 1 \in 0 .. k
    OBVIOUS
  <2>2. PICK t, a : /\ t = w[i] /\ a = s[i - 1]
                    /\ t \in KeytableUnknown /\ t \in KeytableTokens /\ a \in KeytableMessages
    <3>1. w[i] \in KeytableUnknown
      BY <1>3, ElementOfSeq
    <3>2. w[i] \in KeytableTokens
      BY <1>3, <1>4, ElementOfSeq
    <3>3. s[i - 1] \in KeytableMessages
      BY <1>7, <2>1
    <3>4. QED
      BY <3>1, <3>2, <3>3
  <2>3. ~t.cut /\ NotOfKeytable(t)
    BY <2>2, UnknownTags DEF KeytableUnknown, NotOfKeytable
  <2>4. /\ a = [p EXCEPT !["unk"] = g[i - 1]] /\ s[i] = [p EXCEPT !["unk"] = g[i]]
        /\ g[i] = Append(g[i - 1], t)
    BY <1>5, <1>6, <2>1, <2>2 DEF Grows
  <2>5. [a EXCEPT !.unk = Append(@, t)] = s[i]
    BY <1>1, <2>4 DEF HasFields, KeytableFields
  <2>6. keytable_value_Field(a, t) = Read(s[i])
    BY <2>3, <2>5, KeytableSwitch DEF SkipField
  <2>7. QED
    BY <2>2, <2>6, KeytableParse
<1>10. ParseOf(KeytableMessages, KeytableReads, p, w) = Read(s[k])
  <2>1. Steps(KeytableMessages, KeytableReads, w, k, s)
    BY <1>7, <1>9 DEF Steps
  <2>2. w \in Seq(KeytableTokens) /\ k = Len(w) /\ p = s[0]
    BY <1>3, <1>4, <1>8
  <2>3. QED
    BY <1>2, <2>1, <2>2, ParseRun
<1>11. KeytableGot_unk(s[k], p, n)
  <2>1. PICK q : q = s[k]
    OBVIOUS
  <2>2. q \in KeytableMessages
    BY <1>7, <2>1
  <2>3. QED
    BY <1>1, <1>3, <1>8, <2>1, <2>2 DEF KeytableGot_unk, HasFields, KeytableFields
<1>12. QED
  BY <1>3, <1>10, <1>11

\* Reading what a message has written merges it.
LEMMA KeytableReadBack ==
  ASSUME NEW m \in KeytableMessages, NEW n \in KeytableMessages, NEW r, r =
           keytable_value_MergePartial(m, keytable_value_Serialize(n))
  PROVE  r.ok /\ r.msg \in KeytableMessages /\
           keytable_value_View(r.msg) = keytable_value_View(keytable_value_MergeFrom(m, n))
<1>1. PICK a, b, c, d : /\ a = KeytableWire_field(n) /\ b = KeytableWire_route_table(n) /\
                             c = KeytableWire_route_table_field(n) /\ d = n.unk
  OBVIOUS
<1>2. a \in Seq(KeytableTokens) /\ b \in Seq(KeytableTokens) /\ c \in Seq(KeytableTokens) /\
        d \in Seq(KeytableTokens)
  BY <1>1, KeytableWrites
<1>3. Parser(KeytableMessages, KeytableTokens, KeytableReads)
  BY KeytableParse
<1>4. PICK q1 : ParseOf(KeytableMessages, KeytableReads, m, a) = Read(q1) /\
        KeytableGot_field(q1, m, n)
  BY <1>1, KeytableGets_field
<1>5. PICK q2 : ParseOf(KeytableMessages, KeytableReads, q1, b) = Read(q2) /\
        KeytableGot_route_table(q2, q1, n)
  <2>1. q1 \in KeytableMessages
    BY <1>4 DEF KeytableGot_field
  <2>2. QED
    BY <1>1, <2>1, KeytableGets_route_table
<1>6. PICK s1 : s1 = a \o b
  OBVIOUS
<1>7. s1 \in Seq(KeytableTokens) /\ ParseOf(KeytableMessages, KeytableReads, m, s1) = Read(q2)
  <2>1. a \in Seq(KeytableTokens) /\ b \in Seq(KeytableTokens)
    BY <1>2, <1>2
  <2>2. PICK y : y = Read(q1)
    OBVIOUS
  <2>3. y = ParseOf(KeytableMessages, KeytableReads, m, a) /\ y.ok /\ y.msg = q1
    BY <1>4, <2>2 DEF Read
  <2>4. ParseOf(KeytableMessages, KeytableReads, m, a \o b) = IF y.ok THEN
          ParseOf(KeytableMessages, KeytableReads, y.msg, b) ELSE y
    BY <1>3, <2>1, <2>3, ParseParts
  <2>5. a \o b \in Seq(KeytableTokens)
    BY <2>1, ConcatProperties
  <2>6. QED
    BY <1>5, <1>6, <2>3, <2>4, <2>5
<1>8. PICK q3 : ParseOf(KeytableMessages, KeytableReads, q2, c) = Read(q3) /\
        KeytableGot_route_table_field(q3, q2, n)
  <2>1. q2 \in KeytableMessages
    BY <1>5 DEF KeytableGot_route_table
  <2>2. QED
    BY <1>1, <2>1, KeytableGets_route_table_field
<1>9. PICK s2 : s2 = s1 \o c
  OBVIOUS
<1>10. s2 \in Seq(KeytableTokens) /\ ParseOf(KeytableMessages, KeytableReads, m, s2) = Read(q3)
  <2>1. s1 \in Seq(KeytableTokens) /\ c \in Seq(KeytableTokens)
    BY <1>2, <1>7
  <2>2. PICK y : y = Read(q2)
    OBVIOUS
  <2>3. y = ParseOf(KeytableMessages, KeytableReads, m, s1) /\ y.ok /\ y.msg = q2
    BY <1>7, <2>2 DEF Read
  <2>4. ParseOf(KeytableMessages, KeytableReads, m, s1 \o c) = IF y.ok THEN
          ParseOf(KeytableMessages, KeytableReads, y.msg, c) ELSE y
    BY <1>3, <2>1, <2>3, ParseParts
  <2>5. s1 \o c \in Seq(KeytableTokens)
    BY <2>1, ConcatProperties
  <2>6. QED
    BY <1>8, <1>9, <2>3, <2>4, <2>5
<1>11. PICK q4 : ParseOf(KeytableMessages, KeytableReads, q3, d) = Read(q4) /\
        KeytableGot_unk(q4, q3, n)
  <2>1. q3 \in KeytableMessages
    BY <1>8 DEF KeytableGot_route_table_field
  <2>2. QED
    BY <1>1, <2>1, KeytableGets_unk
<1>12. PICK s3 : s3 = s2 \o d
  OBVIOUS
<1>13. s3 \in Seq(KeytableTokens) /\ ParseOf(KeytableMessages, KeytableReads, m, s3) = Read(q4)
  <2>1. s2 \in Seq(KeytableTokens) /\ d \in Seq(KeytableTokens)
    BY <1>2, <1>10
  <2>2. PICK y : y = Read(q3)
    OBVIOUS
  <2>3. y = ParseOf(KeytableMessages, KeytableReads, m, s2) /\ y.ok /\ y.msg = q3
    BY <1>10, <2>2 DEF Read
  <2>4. ParseOf(KeytableMessages, KeytableReads, m, s2 \o d) = IF y.ok THEN
          ParseOf(KeytableMessages, KeytableReads, y.msg, d) ELSE y
    BY <1>3, <2>1, <2>3, ParseParts
  <2>5. s2 \o d \in Seq(KeytableTokens)
    BY <2>1, ConcatProperties
  <2>6. QED
    BY <1>11, <1>12, <2>3, <2>4, <2>5
<1>14. keytable_value_Serialize(n) = s3
  BY <1>1, <1>6, <1>9, <1>12, KeytableSerialize
<1>15. r = Read(q4)
  BY <1>13, <1>14, KeytableParse
<1>16. PICK x : x = keytable_value_MergeFrom(m, n)
  OBVIOUS
<1>17. KeytableMergeShows(x, m, n)
  BY <1>16, KeytableMerge
<1>18. q4.has = x.has /\ q4.unk = x.unk
  <2>1. n.has \in SUBSET (0 .. 2)
    BY KeytableIs DEF IsKeytable
  <2>2. QED
    BY <1>17, <2>1, <1>4, <1>5, <1>8, <1>11 DEF KeytableMergeShows, KeytableGot_field,
        KeytableGot_route_table, KeytableGot_route_table_field, KeytableGot_unk
<1>19. Text(q4.field_) = Text(x.field_)
  BY <1>17, <1>4, <1>5, <1>8, <1>11 DEF KeytableMergeShows, KeytableGot_field,
      KeytableGot_route_table, KeytableGot_route_table_field, KeytableGot_unk
<1>20. Text(q4.route_table_) = Text(x.route_table_)
  BY <1>17, <1>4, <1>5, <1>8, <1>11 DEF KeytableMergeShows, KeytableGot_field,
      KeytableGot_route_table, KeytableGot_route_table_field, KeytableGot_unk
<1>21. Text(q4.route_table_field_) = Text(x.route_table_field_)
  BY <1>17, <1>4, <1>5, <1>8, <1>11 DEF KeytableMergeShows, KeytableGot_field,
      KeytableGot_route_table, KeytableGot_route_table_field, KeytableGot_unk
<1>22. KeytableAlike(q4, x)
  BY <1>18, <1>19, <1>20, <1>21 DEF KeytableAlike
<1>23. q4 \in KeytableMessages
  BY <1>11 DEF KeytableGot_unk
<1>24. QED
  BY <1>15, <1>16, <1>22, <1>23, KeytableSame, ReadIs

ColGot_name(q, p, n) ==
  /\ q \in ColMessages
  /\ q.has = IF 0 \in n.has THEN p.has \cup {0} ELSE p.has
  /\ q.name_ = IF 0 \in n.has THEN n.name_ ELSE p.name_
  /\ q.unk = p.unk /\ q.value_ = p.value_

\* Reading that part back.
LEMMA ColGets_name ==
  ASSUME NEW p \in ColMessages, NEW n \in ColMessages
  PROVE  \E q : ParseOf(ColMessages, ColReads, p, ColWire_name(n)) = Read(q) /\
           ColGot_name(q, p, n)
<1>1. IsCol(p) /\ IsCol(n) /\ HasFields(p, ColFields)
  BY ColIs DEF IsCol
<1>2. Parser(ColMessages, ColTokens, ColReads)
  BY ColParse
<1>3. CASE 0 \in n.has
  <2>1. PICK t : t = WriteString(1, n.name_)
    OBVIOUS
  <2>2. t \in ColTokens /\ ColWire_name(n) = <<t>>
    BY <1>3, <2>1, ColWrites DEF ColWire_name, Token
  <2>3. ParseOf(ColMessages, ColReads, p, <<t>>) = route_value_col_Field(p, t)
    BY <1>2, <2>2, ParseShort, ColParse
  <2>4. n.name_ \in Strings
    BY <1>1, <1>3 DEF IsCol, StringCell
  <2>5. Tag(t, 1, "len") /\ ~t.cut /\ t.val = n.name_
    BY <2>1 DEF WriteString, Tag
  <2>6. route_value_col_Field(p, t) = ReadString(p, 0, "name_", t)
    BY <2>5, ColSwitch
  <2>7. PICK q : q = Put(p, 0, "name_", n.name_)
    OBVIOUS
  <2>8. route_value_col_Field(p, t) = Read(q)
    BY <2>5, <2>6, <2>7 DEF ReadString
  <2>9. ColGot_name(q, p, n)
    <3>1. q \in ColMessages
      BY <2>4, <2>7, ColPut
    <3>2. QED
      BY <1>1, <1>3, <2>7, <3>1 DEF ColGot_name, Put, HasFields, ColFields
  <2>10. QED
    BY <2>2, <2>3, <2>8, <2>9
<1>4. CASE 0 \notin n.has
  <2>1. ColWire_name(n) = <<>>
    BY <1>4 DEF ColWire_name, Token
  <2>2. ParseOf(ColMessages, ColReads, p, <<>>) = Read(p)
    BY <1>2, ParseShort
  <2>3. ColGot_name(p, p, n)
    BY <1>4 DEF ColGot_name
  <2>4. QED
    BY <2>1, <2>2, <2>3
<1>5. QED
  BY <1>3, <1>4

ColGot_value(q, p, n) ==
  /\ q \in ColMessages
  /\ q.has = IF 1 \in n.has THEN p.has \cup {1} ELSE p.has
  /\ q.value_ = IF 1 \in n.has THEN n.value_ ELSE p.value_
  /\ q.unk = p.unk /\ q.name_ = p.name_

\* Reading that part back.
LEMMA ColGets_value ==
  ASSUME NEW p \in ColMessages, NEW n \in ColMessages
  PROVE  \E q : ParseOf(ColMessages, ColReads, p, ColWire_value(n)) = Read(q) /\
           ColGot_value(q, p, n)
<1>1. IsCol(p) /\ IsCol(n) /\ HasFields(p, ColFields)
  BY ColIs DEF IsCol
<1>2. Parser(ColMessages, ColTokens, ColReads)
  BY ColParse
<1>3. CASE 1 \in n.has
  <2>1. PICK t : t = WriteString(2, n.value_)
    OBVIOUS
  <2>2. t \in ColTokens /\ ColWire_value(n) = <<t>>
    BY <1>3, <2>1, ColWrites DEF ColWire_value, Token
  <2>3. ParseOf(ColMessages, ColReads, p, <<t>>) = route_value_col_Field(p, t)
    BY <1>2, <2>2, ParseShort, ColParse
  <2>4. n.value_ \in Strings
    BY <1>1, <1>3 DEF IsCol, StringCell
  <2>5. Tag(t, 2, "len") /\ ~t.cut /\ t.val = n.value_
    BY <2>1 DEF WriteString, Tag
  <2>6. route_value_col_Field(p, t) = ReadString(p, 1, "value_", t)
    BY <2>5, ColSwitch
  <2>7. PICK q : q = Put(p, 1, "value_", n.value_)
    OBVIOUS
  <2>8. route_value_col_Field(p, t) = Read(q)
    BY <2>5, <2>6, <2>7 DEF ReadString
  <2>9. ColGot_value(q, p, n)
    <3>1. q \in ColMessages
      BY <2>4, <2>7, ColPut
    <3>2. QED
      BY <1>1, <1>3, <2>7, <3>1 DEF ColGot_value, Put, HasFields, ColFields
  <2>10. QED
    BY <2>2, <2>3, <2>8, <2>9
<1>4. CASE 1 \notin n.has
  <2>1. ColWire_value(n) = <<>>
    BY <1>4 DEF ColWire_value, Token
  <2>2. ParseOf(ColMessages, ColReads, p, <<>>) = Read(p)
    BY <1>2, ParseShort
  <2>3. ColGot_value(p, p, n)
    BY <1>4 DEF ColGot_value
  <2>4. QED
    BY <2>1, <2>2, <2>3
<1>5. QED
  BY <1>3, <1>4

ColGot_unk(q, p, n) ==
  /\ q \in ColMessages /\ q.has = p.has /\ q.unk = p.unk \o n.unk
  /\ q.name_ = p.name_ /\ q.value_ = p.value_

\* Reading that part back.
LEMMA ColGets_unk ==
  ASSUME NEW p \in ColMessages, NEW n \in ColMessages
  PROVE  \E q : ParseOf(ColMessages, ColReads, p, n.unk) = Read(q) /\ ColGot_unk(q, p, n)
<1>1. IsCol(p) /\ IsCol(n) /\ HasFields(p, ColFields)
  BY ColIs DEF IsCol
<1>2. Parser(ColMessages, ColTokens, ColReads)
  BY ColParse
<1>3. PICK k \in Nat, w \in Seq(ColUnknown) : w = n.unk /\ k = Len(w)
  BY <1>1, LenProperties DEF IsCol
<1>4. w \in Seq(ColTokens) /\ p.unk \in Seq(ColUnknown)
  BY <1>1, <1>3, ColWrites DEF IsCol
<1>5. PICK g : /\ Grows(g, p.unk, w, k)
               /\ \A i \in 0 .. k : \E u \in Seq(ColUnknown) : g[i] = p.unk \o u
  <2>1. p.unk \in Seq(ColUnknown) /\ w \in Seq(ColUnknown) /\ k = Len(w)
    BY <1>3, <1>4
  <2>2. \E g : Grows(g, p.unk, w, k) /\ Prefixed(g, p.unk, ColUnknown, k)
    BY <2>1, Growing
  <2>3. QED
    BY <2>2 DEF Prefixed
<1>6. PICK s : s = [i \in 0 .. k |-> [p EXCEPT !["unk"] = g[i]]]
  OBVIOUS
<1>7. /\ \A i \in 0 .. k : s[i] \in ColMessages
      /\ s \in [0 .. k -> ColMessages]
  <2>1. \A i \in 0 .. k : [p EXCEPT !["unk"] = g[i]] \in ColMessages
    BY <1>5, ColPut
  <2>2. QED
    BY <1>6, <2>1
<1>8. s[0] = p /\ s[k] = [p EXCEPT !["unk"] = p.unk \o w]
  <2>1. g[0] = p.unk /\ g[k] = p.unk \o w /\ 0 \in 0 .. k /\ k \in 0 .. k
    BY <1>5 DEF Grows
  <2>2. s[0] = [p EXCEPT !["unk"] = p.unk] /\ s[k] = [p EXCEPT !["unk"] = p.unk \o w]
    BY <1>6, <2>1
  <2>3. [p EXCEPT !["unk"] = p.unk] = p
    BY <1>1 DEF HasFields, ColFields
  <2>4. QED
    BY <2>2, <2>3
<1>9. ASSUME NEW i \in 1 .. k PROVE ColReads[s[i - 1]][w[i]] = Read(s[i])
  <2>1. i \in 0 .. k /\ i - 1 \in 0 .. k
    OBVIOUS
  <2>2. PICK t, a : /\ t = w[i] /\ a = s[i - 1]
                    /\ t \in ColUnknown /\ t \in ColTokens /\ a \in ColMessages
    <3>1. w[i] \in ColUnknown
      BY <1>3, ElementOfSeq
    <3>2. w[i] \in ColTokens
      BY <1>3, <1>4, ElementOfSeq
    <3>3. s[i - 1] \in ColMessages
      BY <1>7, <2>1
    <3>4. QED
      BY <3>1, <3>2, <3>3
  <2>3. ~t.cut /\ NotOfCol(t)
    BY <2>2, UnknownTags DEF ColUnknown, NotOfCol
  <2>4. /\ a = [p EXCEPT !["unk"] = g[i - 1]] /\ s[i] = [p EXCEPT !["unk"] = g[i]]
        /\ g[i] = Append(g[i - 1], t)
    BY <1>5, <1>6, <2>1, <2>2 DEF Grows
  <2>5. [a EXCEPT !.unk = Append(@, t)] = s[i]
    BY <1>1, <2>4 DEF HasFields, ColFields
  <2>6. route_value_col_Field(a, t) = Read(s[i])
    BY <2>3, <2>5, ColSwitch DEF SkipField
  <2>7. QED
    BY <2>2, <2>6, ColParse
<1>10. ParseOf(ColMessages, ColReads, p, w) = Read(s[k])
  <2>1. Steps(ColMessages, ColReads, w, k, s)
    BY <1>7, <1>9 DEF Steps
  <2>2. w \in Seq(ColTokens) /\ k = Len(w) /\ p = s[0]
    BY <1>3, <1>4, <1>8
  <2>3. QED
    BY <1>2, <2>1, <2>2, ParseRun
<1>11. ColGot_unk(s[k], p, n)
  <2>1. PICK q : q = s[k]
    OBVIOUS
  <2>2. q \in ColMessages
    BY <1>7, <2>1
  <2>3. QED
    BY <1>1, <1>3, <1>8, <2>1, <2>2 DEF ColGot_unk, HasFields, ColFields
<1>12. QED
  BY <1>3, <1>10, <1>11

\* Reading what a message has written merges it.
LEMMA ColReadBack ==
  ASSUME NEW m \in ColMessages, NEW n \in ColMessages, NEW r, r =
           route_value_col_MergePartial(m, route_value_col_Serialize(n))
  PROVE  r.ok /\ r.msg \in ColMessages /\ route_value_col_View(r.msg) =
           route_value_col_View(route_value_col_MergeFrom(m, n))
<1>1. PICK a, b, c : /\ a = ColWire_name(n) /\ b = ColWire_value(n) /\ c = n.unk
  OBVIOUS
<1>2. a \in Seq(ColTokens) /\ b \in Seq(ColTokens) /\ c \in Seq(ColTokens)
  BY <1>1, ColWrites
<1>3. Parser(ColMessages, ColTokens, ColReads)
  BY ColParse
<1>4. PICK q1 : ParseOf(ColMessages, ColReads, m, a) = Read(q1) /\ ColGot_name(q1, m, n)
  BY <1>1, ColGets_name
<1>5. PICK q2 : ParseOf(ColMessages, ColReads, q1, b) = Read(q2) /\ ColGot_value(q2, q1, n)
  <2>1. q1 \in ColMessages
    BY <1>4 DEF ColGot_name
  <2>2. QED
    BY <1>1, <2>1, ColGets_value
<1>6. PICK s1 : s1 = a \o b
  OBVIOUS
<1>7. s1 \in Seq(ColTokens) /\ ParseOf(ColMessages, ColReads, m, s1) = Read(q2)
  <2>1. a \in Seq(ColTokens) /\ b \in Seq(ColTokens)
    BY <1>2, <1>2
  <2>2. PICK y : y = Read(q1)
    OBVIOUS
  <2>3. y = ParseOf(ColMessages, ColReads, m, a) /\ y.ok /\ y.msg = q1
    BY <1>4, <2>2 DEF Read
  <2>4. ParseOf(ColMessages, ColReads, m, a \o b) = IF y.ok THEN
          ParseOf(ColMessages, ColReads, y.msg, b) ELSE y
    BY <1>3, <2>1, <2>3, ParseParts
  <2>5. a \o b \in Seq(ColTokens)
    BY <2>1, ConcatProperties
  <2>6. QED
    BY <1>5, <1>6, <2>3, <2>4, <2>5
<1>8. PICK q3 : ParseOf(ColMessages, ColReads, q2, c) = Read(q3) /\ ColGot_unk(q3, q2, n)
  <2>1. q2 \in ColMessages
    BY <1>5 DEF ColGot_value
  <2>2. QED
    BY <1>1, <2>1, ColGets_unk
<1>9. PICK s2 : s2 = s1 \o c
  OBVIOUS
<1>10. s2 \in Seq(ColTokens) /\ ParseOf(ColMessages, ColReads, m, s2) = Read(q3)
  <2>1. s1 \in Seq(ColTokens) /\ c \in Seq(ColTokens)
    BY <1>2, <1>7
  <2>2. PICK y : y = Read(q2)
    OBVIOUS
  <2>3. y = ParseOf(ColMessages, ColReads, m, s1) /\ y.ok /\ y.msg = q2
    BY <1>7, <2>2 DEF Read
  <2>4. ParseOf(ColMessages, ColReads, m, s1 \o c) = IF y.ok THEN
          ParseOf(ColMessages, ColReads, y.msg, c) ELSE y
    BY <1>3, <2>1, <2>3, ParseParts
  <2>5. s1 \o c \in Seq(ColTokens)
    BY <2>1, ConcatProperties
  <2>6. QED
    BY <1>8, <1>9, <2>3, <2>4, <2>5
<1>11. route_value_col_Serialize(n) = s2
  BY <1>1, <1>6, <1>9, ColSerialize
<1>12. r = Read(q3)
  BY <1>10, <1>11, ColParse
<1>13. PICK x : x = route_value_col_MergeFrom(m, n)
  OBVIOUS
<1>14. ColMergeShows(x, m, n)
  BY <1>13, ColMerge
<1>15. q3.has = x.has /\ q3.unk = x.unk
  <2>1. n.has \in SUBSET (0 .. 1)
    BY ColIs DEF IsCol
  <2>2. QED
    BY <1>14, <2>1, <1>4, <1>5, <1>8 DEF ColMergeShows, ColGot_name, ColGot_value, ColGot_unk
<1>16. Text(q3.name_) = Text(x.name_)
  BY <1>14, <1>4, <1>5, <1>8 DEF ColMergeShows, ColGot_name, ColGot_value, ColGot_unk
<1>17. Text(q3.value_) = Text(x.value_)
  BY <1>14, <1>4, <1>5, <1>8 DEF ColMergeShows, ColGot_name, ColGot_value, ColGot_unk
<1>18. ColAlike(q3, x)
  BY <1>15, <1>16, <1>17 DEF ColAlike
<1>19. q3 \in ColMessages
  BY <1>8 DEF ColGot_unk
<1>20. QED
  BY <1>12, <1>13, <1>18, <1>19, ColSame, ReadIs

RouteGot_region(q, p, n) ==
  /\ q \in RouteMessages
  /\ q.has = IF 0 \in n.has THEN p.has \cup {0} ELSE p.has
  /\ q.region_ = IF 0 \in n.has THEN n.region_ ELSE p.region_
  /\ q.unk = p.unk /\ q.area_ = p.area_ /\ q.col_ = p.col_

\* Reading that part back.
LEMMA RouteGets_region ==
  ASSUME NEW p \in RouteMessages, NEW n \in RouteMessages
  PROVE  \E q : ParseOf(RouteMessages, RouteReads, p, RouteWire_region(n)) = Read(q) /\
           RouteGot_region(q, p, n)
<1>1. IsRoute(p) /\ IsRoute(n) /\ HasFields(p, RouteFields)
  BY RouteIs DEF IsRoute
<1>2. Parser(RouteMessages, RouteTokens, RouteReads)
  BY RouteParse
<1>3. CASE 0 \in n.has
  <2>1. PICK t : t = WriteString(1, n.region_)
    OBVIOUS
  <2>2. t \in RouteTokens /\ RouteWire_region(n) = <<t>>
    BY <1>3, <2>1, RouteWrites DEF RouteWire_region, Token
  <2>3. ParseOf(RouteMessages, RouteReads, p, <<t>>) = route_value_Field(p, t)
    BY <1>2, <2>2, ParseShort, RouteParse
  <2>4. n.region_ \in Strings
    BY <1>1, <1>3 DEF IsRoute, StringCell
  <2>5. Tag(t, 1, "len") /\ ~t.cut /\ t.val = n.region_
    BY <2>1 DEF WriteString, Tag
  <2>6. route_value_Field(p, t) = ReadString(p, 0, "region_", t)
    BY <2>5, RouteSwitch
  <2>7. PICK q : q = Put(p, 0, "region_", n.region_)
    OBVIOUS
  <2>8. route_value_Field(p, t) = Read(q)
    BY <2>5, <2>6, <2>7 DEF ReadString
  <2>9. RouteGot_region(q, p, n)
    <3>1. q \in RouteMessages
      BY <2>4, <2>7, RoutePut
    <3>2. QED
      BY <1>1, <1>3, <2>7, <3>1 DEF RouteGot_region, Put, HasFields, RouteFields
  <2>10. QED
    BY <2>2, <2>3, <2>8, <2>9
<1>4. CASE 0 \notin n.has
  <2>1. RouteWire_region(n) = <<>>
    BY <1>4 DEF RouteWire_region, Token
  <2>2. ParseOf(RouteMessages, RouteReads, p, <<>>) = Read(p)
    BY <1>2, ParseShort
  <2>3. RouteGot_region(p, p, n)
    BY <1>4 DEF RouteGot_region
  <2>4. QED
    BY <2>1, <2>2, <2>3
<1>5. QED
  BY <1>3, <1>4

RouteGot_area(q, p, n) ==
  /\ q \in RouteMessages
  /\ q.has = IF 1 \in n.has THEN p.has \cup {1} ELSE p.has
  /\ q.area_ = IF 1 \in n.has THEN n.area_ ELSE p.area_
  /\ q.unk = p.unk /\ q.region_ = p.region_ /\ q.col_ = p.col_

\* Reading that part back.
LEMMA RouteGets_area ==
  ASSUME NEW p \in RouteMessages, NEW n \in RouteMessages
  PROVE  \E q : ParseOf(RouteMessages, RouteReads, p, RouteWire_area(n)) = Read(q) /\
           RouteGot_area(q, p, n)
<1>1. IsRoute(p) /\ IsRoute(n) /\ HasFields(p, RouteFields)
  BY RouteIs DEF IsRoute
<1>2. Parser(RouteMessages, RouteTokens, RouteReads)
  BY RouteParse
<1>3. CASE 1 \in n.has
  <2>1. PICK t : t = WriteString(2, n.area_)
    OBVIOUS
  <2>2. t \in RouteTokens /\ RouteWire_area(n) = <<t>>
    BY <1>3, <2>1, RouteWrites DEF RouteWire_area, Token
  <2>3. ParseOf(RouteMessages, RouteReads, p, <<t>>) = route_value_Field(p, t)
    BY <1>2, <2>2, ParseShort, RouteParse
  <2>4. n.area_ \in Strings
    BY <1>1, <1>3 DEF IsRoute, StringCell
  <2>5. Tag(t, 2, "len") /\ ~t.cut /\ t.val = n.area_
    BY <2>1 DEF WriteString, Tag
  <2>6. route_value_Field(p, t) = ReadString(p, 1, "area_", t)
    BY <2>5, RouteSwitch
  <2>7. PICK q : q = Put(p, 1, "area_", n.area_)
    OBVIOUS
  <2>8. route_value_Field(p, t) = Read(q)
    BY <2>5, <2>6, <2>7 DEF ReadString
  <2>9. RouteGot_area(q, p, n)
    <3>1. q \in RouteMessages
      BY <2>4, <2>7, RoutePut
    <3>2. QED
      BY <1>1, <1>3, <2>7, <3>1 DEF RouteGot_area, Put, HasFields, RouteFields
  <2>10. QED
    BY <2>2, <2>3, <2>8, <2>9
<1>4. CASE 1 \notin n.has
  <2>1. RouteWire_area(n) = <<>>
    BY <1>4 DEF RouteWire_area, Token
  <2>2. ParseOf(RouteMessages, RouteReads, p, <<>>) = Read(p)
    BY <1>2, ParseShort
  <2>3. RouteGot_area(p, p, n)
    BY <1>4 DEF RouteGot_area
  <2>4. QED
    BY <2>1, <2>2, <2>3
<1>5. QED
  BY <1>3, <1>4

RouteGot_col(q, p, n) ==
  /\ q \in RouteMessages
  /\ q.has = p.has /\ ColViews(q.col_) = ColViews(p.col_) \o ColViews(n.col_)
  /\ q.unk = p.unk /\ q.region_ = p.region_ /\ q.area_ = p.area_

\* Reading that part back.
LEMMA RouteGets_col ==
  ASSUME NEW p \in RouteMessages, NEW n \in RouteMessages
  PROVE  \E q : ParseOf(RouteMessages, RouteReads, p, RouteWire_col(n)) = Read(q) /\
           RouteGot_col(q, p, n)
<1>1. IsRoute(p) /\ IsRoute(n) /\ HasFields(p, RouteFields)
  BY RouteIs DEF IsRoute
<1>2. Parser(RouteMessages, RouteTokens, RouteReads)
  BY RouteParse
<1>3. PICK k \in Nat, h \in Seq(ColMessages) : h = n.col_ /\ k = Len(h)
  BY <1>1, LenProperties DEF IsRoute
<1>4. \A i \in 1 .. k : h[i] \in ColMessages
  BY <1>3, ElementOfSeq
<1>5. PICK w : w = RouteWire_col(n)
  OBVIOUS
<1>6. /\ w \in Seq(RouteTokens) /\ Len(w) = k
      /\ \A i \in 1 .. k : w[i] = WriteMessage(3, h[i], route_value_col_Serialize(h[i]))
  BY <1>3, <1>5, RouteWrites DEF RouteWire_col, WriteRepeated
<1>7. PICK e : e = [i \in 1 .. k |-> route_value_col_MergePartial(route_value_col_New,
        route_value_col_Serialize(h[i])).msg]
  OBVIOUS
<1>8. ASSUME NEW i \in 1 .. k
      PROVE  /\ route_value_col_MergePartial(route_value_col_New,
                  route_value_col_Serialize(h[i])).ok
             /\ e[i] \in ColMessages /\ route_value_col_View(e[i]) = route_value_col_View(h[i])
  <2>1. PICK r : r = route_value_col_MergePartial(route_value_col_New,
          route_value_col_Serialize(h[i]))
    OBVIOUS
  <2>2. h[i] \in ColMessages /\ e[i] = r.msg
    BY <1>4, <1>7, <2>1
  <2>3. r.ok /\ r.msg \in ColMessages /\ route_value_col_View(r.msg) =
          route_value_col_View(route_value_col_MergeFrom(route_value_col_New, h[i]))
    BY <2>1, <2>2, ColNew, ColReadBack
  <2>4. QED
    BY <2>1, <2>2, <2>3, ColMergeNew
<1>9. e \in Seq(ColMessages) /\ Len(e) = k
  BY <1>7, <1>8
<1>10. p.col_ \in Seq(ColMessages)
  BY <1>1 DEF IsRoute
<1>11. PICK g : /\ Grows(g, p.col_, e, k)
                /\ \A i \in 0 .. k : g[i] \in Seq(ColMessages)
  BY <1>9, <1>10, Growing DEF Prefixed
<1>12. PICK s : s = [i \in 0 .. k |-> [p EXCEPT !["col_"] = g[i]]]
  OBVIOUS
<1>13. /\ \A i \in 0 .. k : s[i] \in RouteMessages
       /\ s \in [0 .. k -> RouteMessages]
  <2>1. \A i \in 0 .. k : [p EXCEPT !["col_"] = g[i]] \in RouteMessages
    BY <1>11, RoutePut
  <2>2. QED
    BY <1>12, <2>1
<1>14. s[0] = p /\ s[k] = [p EXCEPT !["col_"] = p.col_ \o e]
  <2>1. g[0] = p.col_ /\ g[k] = p.col_ \o e /\ 0 \in 0 .. k /\ k \in 0 .. k
    BY <1>11 DEF Grows
  <2>2. s[0] = [p EXCEPT !["col_"] = p.col_] /\ s[k] = [p EXCEPT !["col_"] = p.col_ \o e]
    BY <1>12, <2>1
  <2>3. [p EXCEPT !["col_"] = p.col_] = p
    BY <1>1 DEF HasFields, RouteFields
  <2>4. QED
    BY <2>2, <2>3
<1>15. ASSUME NEW i \in 1 .. k PROVE RouteReads[s[i - 1]][w[i]] = Read(s[i])
  <2>1. i \in 0 .. k /\ i - 1 \in 0 .. k
    OBVIOUS
  <2>2. PICK t, a : t = w[i] /\ a = s[i - 1] /\ t \in RouteTokens /\ a \in RouteMessages
    <3>1. w[i] \in RouteTokens
      BY <1>6, ElementOfSeq
    <3>2. s[i - 1] \in RouteMessages
      BY <1>13, <2>1
    <3>3. QED
      BY <3>1, <3>2
  <2>3. Tag(t, 3, "len") /\ ~t.cut /\ t.body = route_value_col_Serialize(h[i])
    BY <1>6, <2>2 DEF WriteMessage, Tag
  <2>4. a = [p EXCEPT !["col_"] = g[i - 1]] /\ s[i] = [p EXCEPT !["col_"] = g[i]]
        /\ g[i] = Append(g[i - 1], e[i])
    BY <1>11, <1>12, <2>1, <2>2 DEF Grows
  <2>5. [a EXCEPT !["col_"] = Append(@, e[i])] = s[i]
    BY <1>1, <2>4 DEF HasFields, RouteFields
  <2>6. route_value_Field(a, t) =
          ReadElement(a, "col_", route_value_col_New, route_value_col_MergePartial, t)
    BY <2>3, RouteSwitch
  <2>7. ReadElement(a, "col_", route_value_col_New, route_value_col_MergePartial, t) =
          Read(s[i])
    BY <1>7, <1>8, <2>3, <2>5 DEF ReadElement, Read
  <2>8. QED
    BY <2>2, <2>6, <2>7, RouteParse
<1>16. ParseOf(RouteMessages, RouteReads, p, w) = Read(s[k])
  <2>1. Steps(RouteMessages, RouteReads, w, k, s)
    BY <1>13, <1>15 DEF Steps
  <2>2. k = Len(w) /\ p = s[0]
    BY <1>6, <1>14
  <2>3. QED
    BY <1>2, <1>6, <2>1, <2>2, ParseRun
<1>17. RouteGot_col(s[k], p, n)
  <2>1. PICK q : q = s[k]
    OBVIOUS
  <2>2. q \in RouteMessages
    BY <1>13, <2>1
  <2>3. q.has = p.has /\ q.col_ = p.col_ \o e
        /\ q.unk = p.unk /\ q.region_ = p.region_ /\ q.area_ = p.area_
    BY <1>1, <1>14, <2>1 DEF HasFields, RouteFields
  <2>4. ColViewsJoined(p.col_, e, q.col_)
    BY <1>9, <1>10, <2>3, ColViewsIs
  <2>5. ColViews(e) = ColViews(h)
    BY <1>3, <1>8, <1>9, ColViewsSame
  <2>6. QED
    BY <1>3, <2>1, <2>2, <2>3, <2>4, <2>5 DEF RouteGot_col, ColViewsJoined
<1>18. QED
  BY <1>5, <1>16, <1>17

RouteGot_unk(q, p, n) ==
  /\ q \in RouteMessages /\ q.has = p.has /\ q.unk = p.unk \o n.unk
  /\ q.region_ = p.region_ /\ q.area_ = p.area_ /\ q.col_ = p.col_

\* Reading that part back.
LEMMA RouteGets_unk ==
  ASSUME NEW p \in RouteMessages, NEW n \in RouteMessages
  PROVE  \E q : ParseOf(RouteMessages, RouteReads, p, n.unk) = Read(q) /\ RouteGot_unk(q, p, n)
<1>1. IsRoute(p) /\ IsRoute(n) /\ HasFields(p, RouteFields)
  BY RouteIs DEF IsRoute
<1>2. Parser(RouteMessages, RouteTokens, RouteReads)
  BY RouteParse
<1>3. PICK k \in Nat, w \in Seq(RouteUnknown) : w = n.unk /\ k = Len(w)
  BY <1>1, LenProperties DEF IsRoute
<1>4. w \in Seq(RouteTokens) /\ p.unk \in Seq(RouteUnknown)
  BY <1>1, <1>3, RouteWrites DEF IsRoute
<1>5. PICK g : /\ Grows(g, p.unk, w, k)
               /\ \A i \in 0 .. k : \E u \in Seq(RouteUnknown) : g[i] = p.unk \o u
  <2>1. p.unk \in Seq(RouteUnknown) /\ w \in Seq(RouteUnknown) /\ k = Len(w)
    BY <1>3, <1>4
  <2>2. \E g : Grows(g, p.unk, w, k) /\ Prefixed(g, p.unk, RouteUnknown, k)
    BY <2>1, Growing
  <2>3. QED
    BY <2>2 DEF Prefixed
<1>6. PICK s : s = [i \in 0 .. k |-> [p EXCEPT !["unk"] = g[i]]]
  OBVIOUS
<1>7. /\ \A i \in 0 .. k : s[i] \in RouteMessages
      /\ s \in [0 .. k -> RouteMessages]
  <2>1. \A i \in 0 .. k : [p EXCEPT !["unk"] = g[i]] \in RouteMessages
    BY <1>5, RoutePut
  <2>2. QED
    BY <1>6, <2>1
<1>8. s[0] = p /\ s[k] = [p EXCEPT !["unk"] = p.unk \o w]
  <2>1. g[0] = p.unk /\ g[k] = p.unk \o w /\ 0 \in 0 .. k /\ k \in 0 .. k
    BY <1>5 DEF Grows
  <2>2. s[0] = [p EXCEPT !["unk"] = p.unk] /\ s[k] = [p EXCEPT !["unk"] = p.unk \o w]
    BY <1>6, <2>1
  <2>3. [p EXCEPT !["unk"] = p.unk] = p
    BY <1>1 DEF HasFields, RouteFields
  <2>4. QED
    BY <2>2, <2>3
<1>9. ASSUME NEW i \in 1 .. k PROVE RouteReads[s[i - 1]][w[i]] = Read(s[i])
  <2>1. i \in 0 .. k /\ i - 1 \in 0 .. k
    OBVIOUS
  <2>2. PICK t, a : /\ t = w[i] /\ a = s[i - 1]
                    /\ t \in RouteUnknown /\ t \in RouteTokens /\ a \in RouteMessages
    <3>1. w[i] \in RouteUnknown
      BY <1>3, ElementOfSeq
    <3>2. w[i] \in RouteTokens
      BY <1>3, <1>4, ElementOfSeq
    <3>3. s[i - 1] \in RouteMessages
      BY <1>7, <2>1
    <3>4. QED
      BY <3>1, <3>2, <3>3
  <2>3. ~t.cut /\ NotOfRoute(t)
    BY <2>2, UnknownTags DEF RouteUnknown, NotOfRoute
  <2>4. /\ a = [p EXCEPT !["unk"] = g[i - 1]] /\ s[i] = [p EXCEPT !["unk"] = g[i]]
        /\ g[i] = Append(g[i - 1], t)
    BY <1>5, <1>6, <2>1, <2>2 DEF Grows
  <2>5. [a EXCEPT !.unk = Append(@, t)] = s[i]
    BY <1>1, <2>4 DEF HasFields, RouteFields
  <2>6. route_value_Field(a, t) = Read(s[i])
    BY <2>3, <2>5, RouteSwitch DEF SkipField
  <2>7. QED
    BY <2>2, <2>6, RouteParse
<1>10. ParseOf(RouteMessages, RouteReads, p, w) = Read(s[k])
  <2>1. Steps(RouteMessages, RouteReads, w, k, s)
    BY <1>7, <1>9 DEF Steps
  <2>2. w \in Seq(RouteTokens) /\ k = Len(w) /\ p = s[0]
    BY <1>3, <1>4, <1>8
  <2>3. QED
    BY <1>2, <2>1, <2>2, ParseRun
<1>11. RouteGot_unk(s[k], p, n)
  <2>1. PICK q : q = s[k]
    OBVIOUS
  <2>2. q \in RouteMessages
    BY <1>7, <2>1
  <2>3. QED
    BY <1>1, <1>3, <1>8, <2>1, <2>2 DEF RouteGot_unk, HasFields, RouteFields
<1>12. QED
  BY <1>3, <1>10, <1>11

\* Reading what a message has written merges it.
LEMMA RouteReadBack ==
  ASSUME NEW m \in RouteMessages, NEW n \in RouteMessages, NEW r, r =
           route_value_MergePartial(m, route_value_Serialize(n))
  PROVE  r.ok /\ r.msg \in RouteMessages /\ route_value_View(r.msg) =
           route_value_View(route_value_MergeFrom(m, n))
<1>1. PICK a, b, c, d : /\ a = RouteWire_region(n) /\ b = RouteWire_area(n) /\
                             c = RouteWire_col(n) /\ d = n.unk
  OBVIOUS
<1>2. a \in Seq(RouteTokens) /\ b \in Seq(RouteTokens) /\ c \in Seq(RouteTokens) /\
        d \in Seq(RouteTokens)
  BY <1>1, RouteWrites
<1>3. Parser(RouteMessages, RouteTokens, RouteReads)
  BY RouteParse
<1>4. PICK q1 : ParseOf(RouteMessages, RouteReads, m, a) = Read(q1) /\ RouteGot_region(q1, m, n)
  BY <1>1, RouteGets_region
<1>5. PICK q2 : ParseOf(RouteMessages, RouteReads, q1, b) = Read(q2) /\ RouteGot_area(q2, q1, n)
  <2>1. q1 \in RouteMessages
    BY <1>4 DEF RouteGot_region
  <2>2. QED
    BY <1>1, <2>1, RouteGets_area
<1>6. PICK s1 : s1 = a \o b
  OBVIOUS
<1>7. s1 \in Seq(RouteTokens) /\ ParseOf(RouteMessages, RouteReads, m, s1) = Read(q2)
  <2>1. a \in Seq(RouteTokens) /\ b \in Seq(RouteTokens)
    BY <1>2, <1>2
  <2>2. PICK y : y = Read(q1)
    OBVIOUS
  <2>3. y = ParseOf(RouteMessages, RouteReads, m, a) /\ y.ok /\ y.msg = q1
    BY <1>4, <2>2 DEF Read
  <2>4. ParseOf(RouteMessages, RouteReads, m, a \o b) = IF y.ok THEN
          ParseOf(RouteMessages, RouteReads, y.msg, b) ELSE y
    BY <1>3, <2>1, <2>3, ParseParts
  <2>5. a \o b \in Seq(RouteTokens)
    BY <2>1, ConcatProperties
  <2>6. QED
    BY <1>5, <1>6, <2>3, <2>4, <2>5
<1>8. PICK q3 : ParseOf(RouteMessages, RouteReads, q2, c) = Read(q3) /\ RouteGot_col(q3, q2, n)
  <2>1. q2 \in RouteMessages
    BY <1>5 DEF RouteGot_area
  <2>2. QED
    BY <1>1, <2>1, RouteGets_col
<1>9. PICK s2 : s2 = s1 \o c
  OBVIOUS
<1>10. s2 \in Seq(RouteTokens) /\ ParseOf(RouteMessages, RouteReads, m, s2) = Read(q3)
  <2>1. s1 \in Seq(RouteTokens) /\ c \in Seq(RouteTokens)
    BY <1>2, <1>7
  <2>2. PICK y : y = Read(q2)
    OBVIOUS
  <2>3. y = ParseOf(RouteMessages, RouteReads, m, s1) /\ y.ok /\ y.msg = q2
    BY <1>7, <2>2 DEF Read
  <2>4. ParseOf(RouteMessages, RouteReads, m, s1 \o c) = IF y.ok THEN
          ParseOf(RouteMessages, RouteReads, y.msg, c) ELSE y
    BY <1>3, <2>1, <2>3, ParseParts
  <2>5. s1 \o c \in Seq(RouteTokens)
    BY <2>1, ConcatProperties
  <2>6. QED
    BY <1>8, <1>9, <2>3, <2>4, <2>5
<1>11. PICK q4 : ParseOf(RouteMessages, RouteReads, q3, d) = Read(q4) /\ RouteGot_unk(q4, q3, n)
  <2>1. q3 \in RouteMessages
    BY <1>8 DEF RouteGot_col
  <2>2. QED
    BY <1>1, <2>1, RouteGets_unk
<1>12. PICK s3 : s3 = s2 \o d
  OBVIOUS
<1>13. s3 \in Seq(RouteTokens) /\ ParseOf(RouteMessages, RouteReads, m, s3) = Read(q4)
  <2>1. s2 \in Seq(RouteTokens) /\ d \in Seq(RouteTokens)
    BY <1>2, <1>10
  <2>2. PICK y : y = Read(q3)
    OBVIOUS
  <2>3. y = ParseOf(RouteMessages, RouteReads, m, s2) /\ y.ok /\ y.msg = q3
    BY <1>10, <2>2 DEF Read
  <2>4. ParseOf(RouteMessages, RouteReads, m, s2 \o d) = IF y.ok THEN
          ParseOf(RouteMessages, RouteReads, y.msg, d) ELSE y
    BY <1>3, <2>1, <2>3, ParseParts
  <2>5. s2 \o d \in Seq(RouteTokens)
    BY <2>1, ConcatProperties
  <2>6. QED
    BY <1>11, <1>12, <2>3, <2>4, <2>5
<1>14. route_value_Serialize(n) = s3
  BY <1>1, <1>6, <1>9, <1>12, RouteSerialize
<1>15. r = Read(q4)
  BY <1>13, <1>14, RouteParse
<1>16. PICK x : x = route_value_MergeFrom(m, n)
  OBVIOUS
<1>17. RouteMergeShows(x, m, n)
  BY <1>16, RouteMerge
<1>18. q4.has = x.has /\ q4.unk = x.unk
  <2>1. n.has \in SUBSET (0 .. 1)
    BY RouteIs DEF IsRoute
  <2>2. QED
    BY <1>17, <2>1, <1>4, <1>5, <1>8, <1>11 DEF RouteMergeShows, RouteGot_region, RouteGot_area,
        RouteGot_col, RouteGot_unk
<1>19. Text(q4.region_) = Text(x.region_)
  BY <1>17, <1>4, <1>5, <1>8, <1>11 DEF RouteMergeShows, RouteGot_region, RouteGot_area,
      RouteGot_col, RouteGot_unk
<1>20. Text(q4.area_) = Text(x.area_)
  BY <1>17, <1>4, <1>5, <1>8, <1>11 DEF RouteMergeShows, RouteGot_region, RouteGot_area,
      RouteGot_col, RouteGot_unk
<1>21. ColViews(q4.col_) = ColViews(x.col_)
  BY <1>17, <1>4, <1>5, <1>8, <1>11 DEF RouteMergeShows, RouteGot_region, RouteGot_area,
      RouteGot_col, RouteGot_unk
<1>22. RouteAlike(q4, x)
  BY <1>18, <1>19, <1>20, <1>21 DEF RouteAlike
<1>23. q4 \in RouteMessages
  BY <1>11 DEF RouteGot_unk
<1>24. QED
  BY <1>15, <1>16, <1>22, <1>23, RouteSame, ReadIs

-----------------------------------------------------------------------------
(* What is written, token by token *)

\* What a token says of itself.
LEMMA WrittenTags ==
  /\ \A k, v, num, wire : Tag(WriteInt64(k, v), num, wire) <=> num = k /\ wire = "varint"
  /\ \A k, v, num, wire : Tag(WriteBool(k, v), num, wire) <=> num = k /\ wire = "varint"
  /\ \A k, v, num, wire : Tag(WriteString(k, v), num, wire) <=> num = k /\ wire = "len"
  /\ \A k, m, w, num, wire : Tag(WriteMessage(k, m, w), num, wire) <=> num = k /\ wire = "len"
  /\ \A k, v : /\ WriteInt64(k, v).body = <<>> /\ WriteBool(k, v).body = <<>>
               /\ WriteString(k, v).body = <<>>
  /\ \A k, m, w : WriteMessage(k, m, w).body = w /\ WriteMessage(k, m, w).len = m.size
BY DEF Tag, WriteInt64, WriteBool, WriteString, WriteMessage

\* There() in terms of the tokens.
LEMMA ThereIs ==
  \A w, wire, nums :
    There(w, wire, nums) <=> \A num \in nums : \E t \in TokensOf(w) : Tag(t, num, wire)
BY DEF There, TokensOf

\* Lengths in front of nested messages, at one level.
Truthful(w) == \A t \in TokensOf(w) : t.body # <<>> => t.len = TotalBytes(t.body)

\* LengthsTrue() from the two levels it speaks of.
LEMMA LengthsAre ==
  \A w : Truthful(w) /\ (\A t \in TokensOf(w) : t.body # <<>> => Truthful(t.body)) =>
      LengthsTrue(w)
<1>1. ASSUME NEW w, Truthful(w), \A t \in TokensOf(w) : t.body # <<>> => Truthful(t.body),
             NEW i \in 1 .. Len(w), w[i].body # <<>>
      PROVE  /\ w[i].len = TotalBytes(w[i].body)
             /\ \A j \in 1 .. Len(w[i].body) :
                  w[i].body[j].body # <<>> => w[i].body[j].len = TotalBytes(w[i].body[j].body)
  <2>1. w[i] \in TokensOf(w)
    BY DEF TokensOf
  <2>2. Truthful(w[i].body)
    BY <1>1, <2>1
  <2>3. \A j \in 1 .. Len(w[i].body) : w[i].body[j] \in TokensOf(w[i].body)
    BY DEF TokensOf
  <2>4. QED
    BY <1>1, <2>1, <2>2, <2>3 DEF Truthful
<1>2. QED
  BY <1>1 DEF LengthsTrue

\* It is in the view whether a message is complete.
LEMMA PosInitSame ==
  ASSUME NEW m \in PosMessages, NEW n \in PosMessages, vct_pos_View(m) = vct_pos_View(n)
  PROVE  vct_pos_IsInitialized(m) <=> vct_pos_IsInitialized(n)
<1>1. PosAlike(m, n)
  BY PosSame
<1>2. QED
  BY <1>1 DEF PosAlike, vct_pos_IsInitialized

\* The fields found in what a message writes are those with their bit.
LEMMA PosTags ==
  ASSUME NEW m \in PosMessages, NEW w, w = vct_pos_Serialize(m)
  PROVE  /\ (\E t \in TokensOf(w) : Tag(t, 1, "varint")) <=> 0 \in m.has
         /\ (\E t \in TokensOf(w) : Tag(t, 2, "varint")) <=> 1 \in m.has
<1>1. TokensOf(w) = TokensOf(PosWire_posm(m)) \cup TokensOf(PosWire_poss(m)) \cup
        TokensOf(m.unk)
  BY PosSerialize
<1>2. ASSUME NEW t \in TokensOf(m.unk)
      PROVE  NotOfPos(t)
  <2>1. m.unk \in Seq(PosUnknown)
    BY PosIs DEF IsPos
  <2>2. t \in PosUnknown
    BY <2>1, TokensShort
  <2>3. /\ \A num \in {1, 2} : ~Tag(t, num, "varint")
        /\ \A num \in {} : ~Tag(t, num, "len")
    BY <2>2, UnknownTags DEF PosUnknown
  <2>4. QED
    BY <2>3 DEF NotOfPos
<1>3. /\ \A t \in TokensOf(PosWire_posm(m)) : \A num, wire : Tag(t, num, wire) <=>
           num = 1 /\ wire = "varint"
      /\ (\E t \in TokensOf(PosWire_posm(m)) : TRUE) <=> 0 \in m.has
  <2>1. PICK v : v = WriteInt64(1, m.posm_)
    OBVIOUS
  <2>2. \A num, wire : Tag(v, num, wire) <=> num = 1 /\ wire = "varint"
    BY <2>1, WrittenTags
  <2>3. TokensOf(PosWire_posm(m)) = IF 0 \in m.has THEN {v} ELSE {}
    BY <2>1, PosWrites
  <2>4. QED
    BY <2>2, <2>3
<1>4. /\ \A t \in TokensOf(PosWire_poss(m)) : \A num, wire : Tag(t, num, wire) <=>
           num = 2 /\ wire = "varint"
      /\ (\E t \in TokensOf(PosWire_poss(m)) : TRUE) <=> 1 \in m.has
  <2>1. PICK v : v = WriteInt64(2, m.poss_)
    OBVIOUS
  <2>2. \A num, wire : Tag(v, num, wire) <=> num = 2 /\ wire = "varint"
    BY <2>1, WrittenTags
  <2>3. TokensOf(PosWire_poss(m)) = IF 1 \in m.has THEN {v} ELSE {}
    BY <2>1, PosWrites
  <2>4. QED
    BY <2>2, <2>3
<1>5. (\E t \in TokensOf(w) : Tag(t, 1, "varint")) <=> 0 \in m.has
  BY <1>1, <1>2, <1>3, <1>4 DEF NotOfPos
<1>6. (\E t \in TokensOf(w) : Tag(t, 2, "varint")) <=> 1 \in m.has
  BY <1>1, <1>2, <1>3, <1>4 DEF NotOfPos
<1>7. QED
  BY <1>5, <1>6

\* With the sizes up to date, lengths are true.
LEMMA PosLengths ==
  ASSUME NEW m \in PosMessages, PosSized(m), NEW w, w = vct_pos_Serialize(m)
  PROVE  /\ Truthful(w)
         /\ \A t \in TokensOf(w) : t.body # <<>> => Truthful(t.body)
<1>1. \A t \in TokensOf(w) : t \in PosTokens
  BY PosSerialize, TokensShort
<1>2. \A t \in TokensOf(w) : t.body = <<>>
  BY <1>1, TokenParts DEF PosTokens
<1>3. QED
  BY <1>2 DEF Truthful

\* Complete is what writes its required fields.
LEMMA PosWhole ==
  ASSUME NEW m \in PosMessages, NEW w, w = vct_pos_Serialize(m)
  PROVE  vct_pos_IsInitialized(m) <=> WholePos(w)
BY PosTags, ThereIs DEF WholePos, vct_pos_IsInitialized

\* And back: equal views of equally many elements.
LEMMA ValueNViewsSplit ==
  ASSUME NEW s \in Seq(ValueNMessages), NEW t \in Seq(ValueNMessages), ValueNViews(s) =
           ValueNViews(t)
  PROVE  Len(s) = Len(t) /\ \A i \in 1 .. Len(s) :
           vct_value_n_View(s[i]) = vct_value_n_View(t[i])
<1>1. PICK k \in Nat, l \in Nat : k = Len(s) /\ l = Len(t)
  BY LenProperties
<1>2. PICK a, b : /\ a = [i \in 1 .. k |-> vct_value_n_View(s[i])]
                  /\ b = [i \in 1 .. l |-> vct_value_n_View(t[i])]
  OBVIOUS
<1>3. a = b
  BY <1>1, <1>2 DEF ValueNViews, ForEach
<1>4. DOMAIN a = 1 .. k /\ DOMAIN b = 1 .. l
  BY <1>2
<1>5. k = l
  BY <1>3, <1>4
<1>6. QED
  BY <1>1, <1>2, <1>3, <1>5

\* It is in the view whether a message is complete.
LEMMA ValueNInitSame ==
  ASSUME NEW m \in ValueNMessages, NEW n \in ValueNMessages, vct_value_n_View(m) =
           vct_value_n_View(n)
  PROVE  vct_value_n_IsInitialized(m) <=> vct_value_n_IsInitialized(n)
<1>1. ValueNAlike(m, n)
  BY ValueNSame
<1>2. IsValueN(m) /\ IsValueN(n)
  BY ValueNIs
<1>3. 0 \in m.has => (vct_pos_IsInitialized(m.pos_) <=> vct_pos_IsInitialized(n.pos_))
  <2>1. SUFFICES ASSUME 0 \in m.has PROVE vct_pos_IsInitialized(m.pos_) <=>
          vct_pos_IsInitialized(n.pos_)
    OBVIOUS
  <2>2. m.pos_ \in PosMessages /\ PosOwned(m.pos_) = m.pos_
    <3>1. PosCell(m.has, 0, m.pos_) /\ 0 \in m.has
      BY <1>1, <1>2, <2>1 DEF IsValueN, ValueNAlike
    <3>2. QED
      BY <3>1, PosIsOwned
  <2>3. n.pos_ \in PosMessages /\ PosOwned(n.pos_) = n.pos_
    <3>1. PosCell(n.has, 0, n.pos_) /\ 0 \in n.has
      BY <1>1, <1>2, <2>1 DEF IsValueN, ValueNAlike
    <3>2. QED
      BY <3>1, PosIsOwned
  <2>4. vct_pos_View(m.pos_) = vct_pos_View(n.pos_)
    BY <1>1, <2>2, <2>3 DEF ValueNAlike, PosShown
  <2>5. QED
    BY <2>2, <2>3, <2>4, PosInitSame
<1>4. QED
  BY <1>1, <1>3 DEF ValueNAlike, vct_value_n_IsInitialized

\* The fields found in what a message writes are those with their bit.
LEMMA ValueNTags ==
  ASSUME NEW m \in ValueNMessages, NEW w, w = vct_value_n_Serialize(m)
  PROVE  /\ (\E t \in TokensOf(w) : Tag(t, 1, "len")) <=> 0 \in m.has
         /\ (\E t \in TokensOf(w) : Tag(t, 2, "varint")) <=> 1 \in m.has
         /\ (\E t \in TokensOf(w) : Tag(t, 3, "varint")) <=> 2 \in m.has
         /\ (\E t \in TokensOf(w) : Tag(t, 5, "varint")) <=> 3 \in m.has
         /\ NoTag(ValueNWire_a(m), 1)
         /\ NoTag(ValueNWire_b(m), 1)
         /\ NoTag(ValueNWire_commit(m), 1)
         /\ NoTag(m.unk, 1)
<1>1. TokensOf(w) = TokensOf(ValueNWire_pos(m)) \cup TokensOf(ValueNWire_a(m)) \cup
        TokensOf(ValueNWire_b(m)) \cup TokensOf(ValueNWire_commit(m)) \cup TokensOf(m.unk)
  BY ValueNSerialize
<1>2. ASSUME NEW t \in TokensOf(m.unk)
      PROVE  NotOfValueN(t)
  <2>1. m.unk \in Seq(ValueNUnknown)
    BY ValueNIs DEF IsValueN
  <2>2. t \in ValueNUnknown
    BY <2>1, TokensShort
  <2>3. /\ \A num \in {2, 3, 5} : ~Tag(t, num, "varint")
        /\ \A num \in {1} : ~Tag(t, num, "len")
    BY <2>2, UnknownTags DEF ValueNUnknown
  <2>4. QED
    BY <2>3 DEF NotOfValueN
<1>3. /\ \A t \in TokensOf(ValueNWire_pos(m)) : \A num, wire : Tag(t, num, wire) <=>
           num = 1 /\ wire = "len"
      /\ (\E t \in TokensOf(ValueNWire_pos(m)) : TRUE) <=> 0 \in m.has
  <2>1. PICK v : v = WriteMessage(1, m.pos_, vct_pos_Serialize(m.pos_))
    OBVIOUS
  <2>2. \A num, wire : Tag(v, num, wire) <=> num = 1 /\ wire = "len"
    BY <2>1, WrittenTags
  <2>3. TokensOf(ValueNWire_pos(m)) = IF 0 \in m.has THEN {v} ELSE {}
    BY <2>1, ValueNWrites
  <2>4. QED
    BY <2>2, <2>3
<1>4. /\ \A t \in TokensOf(ValueNWire_a(m)) : \A num, wire : Tag(t, num, wire) <=>
           num = 2 /\ wire = "varint"
      /\ (\E t \in TokensOf(ValueNWire_a(m)) : TRUE) <=> 1 \in m.has
  <2>1. PICK v : v = WriteInt64(2, m.a_)
    OBVIOUS
  <2>2. \A num, wire : Tag(v, num, wire) <=> num = 2 /\ wire = "varint"
    BY <2>1, WrittenTags
  <2>3. TokensOf(ValueNWire_a(m)) = IF 1 \in m.has THEN {v} ELSE {}
    BY <2>1, ValueNWrites
  <2>4. QED
    BY <2>2, <2>3
<1>5. /\ \A t \in TokensOf(ValueNWire_b(m)) : \A num, wire : Tag(t, num, wire) <=>
           num = 3 /\ wire = "varint"
      /\ (\E t \in TokensOf(ValueNWire_b(m)) : TRUE) <=> 2 \in m.has
  <2>1. PICK v : v = WriteInt64(3, m.b_)
    OBVIOUS
  <2>2. \A num, wire : Tag(v, num, wire) <=> num = 3 /\ wire = "varint"
    BY <2>1, WrittenTags
  <2>3. TokensOf(ValueNWire_b(m)) = IF 2 \in m.has THEN {v} ELSE {}
    BY <2>1, ValueNWrites
  <2>4. QED
    BY <2>2, <2>3
<1>6. /\ \A t \in TokensOf(ValueNWire_commit(m)) : \A num, wire : Tag(t, num, wire) <=>
           num = 5 /\ wire = "varint"
      /\ (\E t \in TokensOf(ValueNWire_commit(m)) : TRUE) <=> 3 \in m.has
  <2>1. PICK v : v = WriteBool(5, m.commit_)
    OBVIOUS
  <2>2. \A num, wire : Tag(v, num, wire) <=> num = 5 /\ wire = "varint"
    BY <2>1, WrittenTags
  <2>3. TokensOf(ValueNWire_commit(m)) = IF 3 \in m.has THEN {v} ELSE {}
    BY <2>1, ValueNWrites
  <2>4. QED
    BY <2>2, <2>3
<1>7. (\E t \in TokensOf(w) : Tag(t, 1, "len")) <=> 0 \in m.has
  BY <1>1, <1>2, <1>3, <1>4, <1>5, <1>6 DEF NotOfValueN
<1>8. (\E t \in TokensOf(w) : Tag(t, 2, "varint")) <=> 1 \in m.has
  BY <1>1, <1>2, <1>3, <1>4, <1>5, <1>6 DEF NotOfValueN
<1>9. (\E t \in TokensOf(w) : Tag(t, 3, "varint")) <=> 2 \in m.has
  BY <1>1, <1>2, <1>3, <1>4, <1>5, <1>6 DEF NotOfValueN
<1>10. (\E t \in TokensOf(w) : Tag(t, 5, "varint")) <=> 3 \in m.has
  BY <1>1, <1>2, <1>3, <1>4, <1>5, <1>6 DEF NotOfValueN
<1>11. /\ NoTag(ValueNWire_a(m), 1)
      /\ NoTag(ValueNWire_b(m), 1)
      /\ NoTag(ValueNWire_commit(m), 1)
      /\ NoTag(m.unk, 1)
  BY <1>2, <1>3, <1>4, <1>5, <1>6 DEF NoTag, NotOfValueN
<1>12. QED
  BY <1>7, <1>8, <1>9, <1>10, <1>11

\* With the sizes up to date, lengths are true.
LEMMA ValueNLengths ==
  ASSUME NEW m \in ValueNMessages, ValueNSized(m), NEW w, w = vct_value_n_Serialize(m)
  PROVE  /\ Truthful(w)
         /\ \A t \in TokensOf(w) : t.body # <<>> => Truthful(t.body)
<1>1. TokensOf(w) = TokensOf(ValueNWire_pos(m)) \cup TokensOf(ValueNWire_a(m)) \cup
        TokensOf(ValueNWire_b(m)) \cup TokensOf(ValueNWire_commit(m)) \cup TokensOf(m.unk)
  BY ValueNSerialize
<1>2. ASSUME NEW t \in TokensOf(m.unk) PROVE t.body = <<>>
  <2>1. m.unk \in Seq(ValueNUnknown)
    BY ValueNIs DEF IsValueN
  <2>2. t \in ValueNUnknown
    BY <2>1, TokensShort
  <2>3. QED
    BY <2>2, UnknownTags DEF ValueNUnknown
<1>3. IsValueN(m)
  BY ValueNIs
<1>4. \A t \in TokensOf(ValueNWire_pos(m)) : t.len = TotalBytes(t.body) /\ Truthful(t.body)
  <2>1. SUFFICES ASSUME NEW t \in TokensOf(ValueNWire_pos(m))
                 PROVE  t.len = TotalBytes(t.body) /\ Truthful(t.body)
    OBVIOUS
  <2>2. PICK e, b : e = m.pos_ /\ b = vct_pos_Serialize(m.pos_)
    OBVIOUS
  <2>3. TokensOf(ValueNWire_pos(m)) = IF 0 \in m.has THEN {WriteMessage(1, e, b)} ELSE {}
    BY <2>2, ValueNWrites
  <2>4. 0 \in m.has /\ t = WriteMessage(1, e, b)
    BY <2>3
  <2>5. e \in PosMessages /\ PosSized(e)
    <3>1. PosCell(m.has, 0, m.pos_)
      BY <1>3 DEF IsValueN
    <3>2. m.pos_ \in PosMessages
      BY <2>4, <3>1, PosIsOwned
    <3>3. QED
      BY <2>2, <2>4, <3>2 DEF ValueNSized
  <2>6. e.size = TotalBytes(b) /\ b = vct_pos_Serialize(e)
    BY <2>2, <2>4, <2>5 DEF PosSized
  <2>7. Truthful(b)
    BY <2>5, <2>6, PosLengths
  <2>8. QED
    BY <2>4, <2>6, <2>7, WrittenTags
<1>5. \A t \in TokensOf(ValueNWire_a(m)) : t.body = <<>>
  <2>1. PICK v : v = WriteInt64(2, m.a_) /\ v.body = <<>>
    BY WrittenTags
  <2>2. TokensOf(ValueNWire_a(m)) = IF 1 \in m.has THEN {v} ELSE {}
    BY <2>1, ValueNWrites
  <2>3. QED
    BY <2>1, <2>2
<1>6. \A t \in TokensOf(ValueNWire_b(m)) : t.body = <<>>
  <2>1. PICK v : v = WriteInt64(3, m.b_) /\ v.body = <<>>
    BY WrittenTags
  <2>2. TokensOf(ValueNWire_b(m)) = IF 2 \in m.has THEN {v} ELSE {}
    BY <2>1, ValueNWrites
  <2>3. QED
    BY <2>1, <2>2
<1>7. \A t \in TokensOf(ValueNWire_commit(m)) : t.body = <<>>
  <2>1. PICK v : v = WriteBool(5, m.commit_) /\ v.body = <<>>
    BY WrittenTags
  <2>2. TokensOf(ValueNWire_commit(m)) = IF 3 \in m.has THEN {v} ELSE {}
    BY <2>1, ValueNWrites
  <2>3. QED
    BY <2>1, <2>2
<1>8. QED
  BY <1>1, <1>2, <1>4, <1>5, <1>6, <1>7 DEF Truthful

\* Complete is what writes its required fields.
LEMMA ValueNWhole ==
  ASSUME NEW m \in ValueNMessages, NEW w, w = vct_value_n_Serialize(m)
  PROVE  vct_value_n_IsInitialized(m) <=> WholeValueN(w)
<1>1. IsValueN(m) /\ w \in Seq(ValueNTokens)
  BY ValueNIs, ValueNSerialize
<1>2. {0, 1, 2, 3} \subseteq m.has <=> There(w, "varint", {2, 3, 5}) /\ There(w, "len", {1})
  BY ValueNTags, ThereIs
<1>3. 0 \in m.has => (vct_pos_IsInitialized(m.pos_) <=> WholePos(Merged(w, 1)))
  <2>1. SUFFICES ASSUME 0 \in m.has PROVE vct_pos_IsInitialized(m.pos_) <=>
          WholePos(Merged(w, 1))
    OBVIOUS
  <2>2. m.pos_ \in PosMessages
    <3>1. PosCell(m.has, 0, m.pos_)
      BY <1>1 DEF IsValueN
    <3>2. QED
      BY <2>1, <3>1, PosIsOwned
  <2>3. Merged(w, 1) = vct_pos_Serialize(m.pos_)
    <3>1. PICK a, b, c, d, e : a = ValueNWire_pos(m) /\ b = ValueNWire_a(m) /\
            c = ValueNWire_b(m) /\ d = ValueNWire_commit(m) /\ e = m.unk
      OBVIOUS
    <3>2. a \in Seq(ValueNTokens) /\ b \in Seq(ValueNTokens) /\ c \in Seq(ValueNTokens) /\
            d \in Seq(ValueNTokens) /\ e \in Seq(ValueNTokens)
      BY <3>1, ValueNWrites
    <3>3. w = a \o b \o c \o d \o e
      BY <3>1, ValueNSerialize
    <3>4. NoTag(b, 1) /\ NoTag(c, 1) /\ NoTag(d, 1) /\ NoTag(e, 1)
      BY <3>1, ValueNTags
    <3>5. Bodies(ValueNTokens, PosTokens)
      BY TokenParts DEF Bodies, ValueNTokens
    <3>6. PICK t : t = WriteMessage(1, m.pos_, vct_pos_Serialize(m.pos_)) /\
            t \in ValueNTokens /\ t.body = vct_pos_Serialize(m.pos_) /\ Tag(t, 1, "len")
      BY <2>1, ValueNWrites, WrittenTags
    <3>7. a = <<t>>
      BY <2>1, <3>1, <3>6 DEF ValueNWire_pos, Token
    <3>8. Merged(a, 1) = t.body
      BY <3>5, <3>6, <3>7, MergedOne
    <3>9. PICK s1 : s1 = a \o b
      OBVIOUS
    <3>10. s1 \in Seq(ValueNTokens) /\ Merged(s1, 1) = t.body
      <4>1. a \in Seq(ValueNTokens) /\ b \in Seq(ValueNTokens)
        BY <3>2
      <4>2. NoTag(b, 1)
        BY <3>4
      <4>3. Merged(a \o b, 1) = Merged(a, 1) /\ a \o b \in Seq(ValueNTokens)
        BY <3>5, <4>1, <4>2, MergedParts, TokensParts
      <4>4. QED
        BY <3>8, <3>9, <4>3
    <3>11. PICK s2 : s2 = s1 \o c
      OBVIOUS
    <3>12. s2 \in Seq(ValueNTokens) /\ Merged(s2, 1) = t.body
      <4>1. s1 \in Seq(ValueNTokens) /\ c \in Seq(ValueNTokens)
        BY <3>2, <3>10
      <4>2. NoTag(c, 1)
        BY <3>4
      <4>3. Merged(s1 \o c, 1) = Merged(s1, 1) /\ s1 \o c \in Seq(ValueNTokens)
        BY <3>5, <4>1, <4>2, MergedParts, TokensParts
      <4>4. QED
        BY <3>10, <3>11, <4>3
    <3>13. PICK s3 : s3 = s2 \o d
      OBVIOUS
    <3>14. s3 \in Seq(ValueNTokens) /\ Merged(s3, 1) = t.body
      <4>1. s2 \in Seq(ValueNTokens) /\ d \in Seq(ValueNTokens)
        BY <3>2, <3>12
      <4>2. NoTag(d, 1)
        BY <3>4
      <4>3. Merged(s2 \o d, 1) = Merged(s2, 1) /\ s2 \o d \in Seq(ValueNTokens)
        BY <3>5, <4>1, <4>2, MergedParts, TokensParts
      <4>4. QED
        BY <3>12, <3>13, <4>3
    <3>15. PICK s4 : s4 = s3 \o e
      OBVIOUS
    <3>16. s4 \in Seq(ValueNTokens) /\ Merged(s4, 1) = t.body
      <4>1. s3 \in Seq(ValueNTokens) /\ e \in Seq(ValueNTokens)
        BY <3>2, <3>14
      <4>2. NoTag(e, 1)
        BY <3>4
      <4>3. Merged(s3 \o e, 1) = Merged(s3, 1) /\ s3 \o e \in Seq(ValueNTokens)
        BY <3>5, <4>1, <4>2, MergedParts, TokensParts
      <4>4. QED
        BY <3>14, <3>15, <4>3
    <3>17. w = s4
      BY <3>3, <3>9, <3>11, <3>13, <3>15
    <3>18. QED
      BY <3>6, <3>17, <3>16
  <2>4. QED
    BY <2>2, <2>3, PosWhole
<1>4. QED
  BY <1>2, <1>3 DEF WholeValueN, vct_value_n_IsInitialized

\* It is in the view whether a message is complete.
LEMMA ValueInitSame ==
  ASSUME NEW m \in ValueMessages, NEW n \in ValueMessages, vct_value_View(m) = vct_value_View(n)
  PROVE  vct_value_IsInitialized(m) <=> vct_value_IsInitialized(n)
<1>1. ValueAlike(m, n)
  BY ValueSame
<1>2. IsValue(m) /\ IsValue(n)
  BY ValueIs
<1>3. 1 \in m.has => (vct_value_n_IsInitialized(m.main_) <=> vct_value_n_IsInitialized(n.main_))
  <2>1. SUFFICES ASSUME 1 \in m.has PROVE vct_value_n_IsInitialized(m.main_) <=>
          vct_value_n_IsInitialized(n.main_)
    OBVIOUS
  <2>2. m.main_ \in ValueNMessages /\ ValueNOwned(m.main_) = m.main_
    <3>1. ValueNCell(m.has, 1, m.main_) /\ 1 \in m.has
      BY <1>1, <1>2, <2>1 DEF IsValue, ValueAlike
    <3>2. QED
      BY <3>1, ValueNIsOwned
  <2>3. n.main_ \in ValueNMessages /\ ValueNOwned(n.main_) = n.main_
    <3>1. ValueNCell(n.has, 1, n.main_) /\ 1 \in n.has
      BY <1>1, <1>2, <2>1 DEF IsValue, ValueAlike
    <3>2. QED
      BY <3>1, ValueNIsOwned
  <2>4. vct_value_n_View(m.main_) = vct_value_n_View(n.main_)
    BY <1>1, <2>2, <2>3 DEF ValueAlike, ValueNShown
  <2>5. QED
    BY <2>2, <2>3, <2>4, ValueNInitSame
<1>4. (\A i \in 1 .. Len(m.his_) : vct_value_n_IsInitialized(m.his_[i])) <=>
        (\A i \in 1 .. Len(n.his_) : vct_value_n_IsInitialized(n.his_[i]))
  <2>1. PICK s, t : s = m.his_ /\ t = n.his_ /\ s \in Seq(ValueNMessages) /\
          t \in Seq(ValueNMessages)
    BY <1>2 DEF IsValue
  <2>2. Len(s) = Len(t) /\ \A i \in 1 .. Len(s) :
          vct_value_n_View(s[i]) = vct_value_n_View(t[i])
    <3>1. ValueNViews(s) = ValueNViews(t) /\ s \in Seq(ValueNMessages) /\
            t \in Seq(ValueNMessages)
      BY <1>1, <2>1 DEF ValueAlike
    <3>2. QED
      BY <3>1, ValueNViewsSplit
  <2>3. \A i \in 1 .. Len(s) : s[i] \in ValueNMessages /\ t[i] \in ValueNMessages
    BY <2>1, <2>2, ElementOfSeq
  <2>4. \A i \in 1 .. Len(s) : vct_value_n_IsInitialized(s[i]) <=>
          vct_value_n_IsInitialized(t[i])
    BY <2>2, <2>3, ValueNInitSame
  <2>5. QED
    BY <2>1, <2>2, <2>4
<1>5. QED
  BY <1>1, <1>3, <1>4 DEF ValueAlike, vct_value_IsInitialized

\* The tokens of the repeated field are its elements.
LEMMA ValueRepeats ==
  ASSUME NEW m \in ValueMessages, NEW h, h = m.his_
  PROVE  TokensOf(ValueWire_his(m)) =
           {WriteMessage(3, h[i], vct_value_n_Serialize(h[i])) : i \in 1 .. Len(h)}
<1>1. PICK a : a = [i \in 1 .. Len(h) |-> WriteMessage(3, h[i], vct_value_n_Serialize(h[i]))]
  OBVIOUS
<1>2. ValueWire_his(m) = a /\ Len(ValueWire_his(m)) = Len(h)
  BY <1>1, ValueWrites DEF ValueWire_his, WriteRepeated
<1>3. QED
  BY <1>1, <1>2 DEF TokensOf

\* The fields found in what a message writes are those with their bit.
LEMMA ValueTags ==
  ASSUME NEW m \in ValueMessages, NEW w, w = vct_value_Serialize(m)
  PROVE  /\ (\E t \in TokensOf(w) : Tag(t, 1, "len")) <=> 0 \in m.has
         /\ (\E t \in TokensOf(w) : Tag(t, 2, "len")) <=> 1 \in m.has
         /\ (\E t \in TokensOf(w) : Tag(t, 4, "varint")) <=> 2 \in m.has
         /\ NoTag(ValueWire_key(m), 2)
         /\ NoTag(ValueWire_his(m), 2)
         /\ NoTag(ValueWire_commit_count(m), 2)
         /\ NoTag(m.unk, 2)
         /\ \A t : t \in TokensOf(w) /\ Tag(t, 3, "len") <=> t \in TokensOf(ValueWire_his(m))
         /\ NoTag(ValueWire_key(m), 3)
         /\ NoTag(ValueWire_main(m), 3)
         /\ NoTag(ValueWire_commit_count(m), 3)
         /\ NoTag(m.unk, 3)
<1>1. TokensOf(w) = TokensOf(ValueWire_key(m)) \cup TokensOf(ValueWire_main(m)) \cup
        TokensOf(ValueWire_his(m)) \cup TokensOf(ValueWire_commit_count(m)) \cup TokensOf(m.unk)
  BY ValueSerialize
<1>2. ASSUME NEW t \in TokensOf(m.unk)
      PROVE  NotOfValue(t)
  <2>1. m.unk \in Seq(ValueUnknown)
    BY ValueIs DEF IsValue
  <2>2. t \in ValueUnknown
    BY <2>1, TokensShort
  <2>3. /\ \A num \in {4} : ~Tag(t, num, "varint")
        /\ \A num \in {1, 2, 3} : ~Tag(t, num, "len")
    BY <2>2, UnknownTags DEF ValueUnknown
  <2>4. QED
    BY <2>3 DEF NotOfValue
<1>3. /\ \A t \in TokensOf(ValueWire_key(m)) : \A num, wire : Tag(t, num, wire) <=>
           num = 1 /\ wire = "len"
      /\ (\E t \in TokensOf(ValueWire_key(m)) : TRUE) <=> 0 \in m.has
  <2>1. PICK v : v = WriteString(1, m.key_)
    OBVIOUS
  <2>2. \A num, wire : Tag(v, num, wire) <=> num = 1 /\ wire = "len"
    BY <2>1, WrittenTags
  <2>3. TokensOf(ValueWire_key(m)) = IF 0 \in m.has THEN {v} ELSE {}
    BY <2>1, ValueWrites
  <2>4. QED
    BY <2>2, <2>3
<1>4. /\ \A t \in TokensOf(ValueWire_main(m)) : \A num, wire : Tag(t, num, wire) <=>
           num = 2 /\ wire = "len"
      /\ (\E t \in TokensOf(ValueWire_main(m)) : TRUE) <=> 1 \in m.has
  <2>1. PICK v : v = WriteMessage(2, m.main_, vct_value_n_Serialize(m.main_))
    OBVIOUS
  <2>2. \A num, wire : Tag(v, num, wire) <=> num = 2 /\ wire = "len"
    BY <2>1, WrittenTags
  <2>3. TokensOf(ValueWire_main(m)) = IF 1 \in m.has THEN {v} ELSE {}
    BY <2>1, ValueWrites
  <2>4. QED
    BY <2>2, <2>3
<1>5. \A t \in TokensOf(ValueWire_his(m)) : \A num, wire : Tag(t, num, wire) <=>
        num = 3 /\ wire = "len"
  <2>1. ASSUME NEW t \in TokensOf(ValueWire_his(m)), NEW num, NEW wire
        PROVE  Tag(t, num, wire) <=> num = 3 /\ wire = "len"
    <3>1. PICK e, b : t = WriteMessage(3, e, b)
      BY <2>1, ValueRepeats
    <3>2. QED
      BY <3>1, WrittenTags
  <2>2. QED
    BY <2>1
<1>6. /\ \A t \in TokensOf(ValueWire_commit_count(m)) : \A num, wire : Tag(t, num, wire) <=>
           num = 4 /\ wire = "varint"
      /\ (\E t \in TokensOf(ValueWire_commit_count(m)) : TRUE) <=> 2 \in m.has
  <2>1. PICK v : v = WriteInt64(4, m.commit_count_)
    OBVIOUS
  <2>2. \A num, wire : Tag(v, num, wire) <=> num = 4 /\ wire = "varint"
    BY <2>1, WrittenTags
  <2>3. TokensOf(ValueWire_commit_count(m)) = IF 2 \in m.has THEN {v} ELSE {}
    BY <2>1, ValueWrites
  <2>4. QED
    BY <2>2, <2>3
<1>7. (\E t \in TokensOf(w) : Tag(t, 1, "len")) <=> 0 \in m.has
  BY <1>1, <1>2, <1>3, <1>4, <1>5, <1>6 DEF NotOfValue
<1>8. (\E t \in TokensOf(w) : Tag(t, 2, "len")) <=> 1 \in m.has
  BY <1>1, <1>2, <1>3, <1>4, <1>5, <1>6 DEF NotOfValue
<1>9. \A t : t \in TokensOf(w) /\ Tag(t, 3, "len") <=> t \in TokensOf(ValueWire_his(m))
  BY <1>1, <1>2, <1>3, <1>4, <1>5, <1>6 DEF NotOfValue
<1>10. (\E t \in TokensOf(w) : Tag(t, 4, "varint")) <=> 2 \in m.has
  BY <1>1, <1>2, <1>3, <1>4, <1>5, <1>6 DEF NotOfValue
<1>11. /\ NoTag(ValueWire_key(m), 2)
      /\ NoTag(ValueWire_his(m), 2)
      /\ NoTag(ValueWire_commit_count(m), 2)
      /\ NoTag(m.unk, 2)
  BY <1>2, <1>3, <1>4, <1>5, <1>6 DEF NoTag, NotOfValue
<1>12. /\ NoTag(ValueWire_key(m), 3)
      /\ NoTag(ValueWire_main(m), 3)
      /\ NoTag(ValueWire_commit_count(m), 3)
      /\ NoTag(m.unk, 3)
  BY <1>2, <1>3, <1>4, <1>5, <1>6 DEF NoTag, NotOfValue
<1>13. QED
  BY <1>7, <1>8, <1>9, <1>10, <1>11, <1>12

\* With the sizes up to date, lengths are true.
LEMMA ValueLengths ==
  ASSUME NEW m \in ValueMessages, ValueSized(m), NEW w, w = vct_value_Serialize(m)
  PROVE  /\ Truthful(w)
         /\ \A t \in TokensOf(w) : t.body # <<>> => Truthful(t.body)
<1>1. TokensOf(w) = TokensOf(ValueWire_key(m)) \cup TokensOf(ValueWire_main(m)) \cup
        TokensOf(ValueWire_his(m)) \cup TokensOf(ValueWire_commit_count(m)) \cup TokensOf(m.unk)
  BY ValueSerialize
<1>2. ASSUME NEW t \in TokensOf(m.unk) PROVE t.body = <<>>
  <2>1. m.unk \in Seq(ValueUnknown)
    BY ValueIs DEF IsValue
  <2>2. t \in ValueUnknown
    BY <2>1, TokensShort
  <2>3. QED
    BY <2>2, UnknownTags DEF ValueUnknown
<1>3. IsValue(m)
  BY ValueIs
<1>4. \A t \in TokensOf(ValueWire_key(m)) : t.body = <<>>
  <2>1. PICK v : v = WriteString(1, m.key_) /\ v.body = <<>>
    BY WrittenTags
  <2>2. TokensOf(ValueWire_key(m)) = IF 0 \in m.has THEN {v} ELSE {}
    BY <2>1, ValueWrites
  <2>3. QED
    BY <2>1, <2>2
<1>5. \A t \in TokensOf(ValueWire_main(m)) : t.len = TotalBytes(t.body) /\ Truthful(t.body)
  <2>1. SUFFICES ASSUME NEW t \in TokensOf(ValueWire_main(m))
                 PROVE  t.len = TotalBytes(t.body) /\ Truthful(t.body)
    OBVIOUS
  <2>2. PICK e, b : e = m.main_ /\ b = vct_value_n_Serialize(m.main_)
    OBVIOUS
  <2>3. TokensOf(ValueWire_main(m)) = IF 1 \in m.has THEN {WriteMessage(2, e, b)} ELSE {}
    BY <2>2, ValueWrites
  <2>4. 1 \in m.has /\ t = WriteMessage(2, e, b)
    BY <2>3
  <2>5. e \in ValueNMessages /\ ValueNSized(e)
    <3>1. ValueNCell(m.has, 1, m.main_)
      BY <1>3 DEF IsValue
    <3>2. m.main_ \in ValueNMessages
      BY <2>4, <3>1, ValueNIsOwned
    <3>3. QED
      BY <2>2, <2>4, <3>2 DEF ValueSized
  <2>6. e.size = TotalBytes(b) /\ b = vct_value_n_Serialize(e)
    BY <2>2, <2>4, <2>5 DEF ValueNSized
  <2>7. Truthful(b)
    BY <2>5, <2>6, ValueNLengths
  <2>8. QED
    BY <2>4, <2>6, <2>7, WrittenTags
<1>6. \A t \in TokensOf(ValueWire_his(m)) : t.len = TotalBytes(t.body) /\ Truthful(t.body)
  <2>1. SUFFICES ASSUME NEW t \in TokensOf(ValueWire_his(m))
                 PROVE  t.len = TotalBytes(t.body) /\ Truthful(t.body)
    OBVIOUS
  <2>2. PICK h : h = m.his_ /\ h \in Seq(ValueNMessages)
    BY <1>3 DEF IsValue
  <2>3. PICK i \in 1 .. Len(h) : t = WriteMessage(3, h[i], vct_value_n_Serialize(h[i]))
    BY <2>2, ValueRepeats
  <2>4. PICK e, b : e = h[i] /\ b = vct_value_n_Serialize(h[i]) /\ t = WriteMessage(3, e, b)
    BY <2>3
  <2>5. e \in ValueNMessages /\ ValueNSized(e)
    BY <2>2, <2>3, <2>4, ElementOfSeq DEF ValueSized
  <2>6. e.size = TotalBytes(b) /\ b = vct_value_n_Serialize(e)
    BY <2>2, <2>4, <2>5 DEF ValueNSized
  <2>7. Truthful(b)
    BY <2>5, <2>6, ValueNLengths
  <2>8. QED
    BY <2>4, <2>6, <2>7, WrittenTags
<1>7. \A t \in TokensOf(ValueWire_commit_count(m)) : t.body = <<>>
  <2>1. PICK v : v = WriteInt64(4, m.commit_count_) /\ v.body = <<>>
    BY WrittenTags
  <2>2. TokensOf(ValueWire_commit_count(m)) = IF 2 \in m.has THEN {v} ELSE {}
    BY <2>1, ValueWrites
  <2>3. QED
    BY <2>1, <2>2
<1>8. QED
  BY <1>1, <1>2, <1>4, <1>5, <1>6, <1>7 DEF Truthful

\* Complete is what writes its required fields.
LEMMA ValueWhole ==
  ASSUME NEW m \in ValueMessages, NEW w, w = vct_value_Serialize(m)
  PROVE  vct_value_IsInitialized(m) <=> WholeValue(w)
<1>1. IsValue(m) /\ w \in Seq(ValueTokens)
  BY ValueIs, ValueSerialize
<1>2. {0, 1, 2} \subseteq m.has <=> There(w, "varint", {4}) /\ There(w, "len", {1, 2})
  BY ValueTags, ThereIs
<1>3. 1 \in m.has => (vct_value_n_IsInitialized(m.main_) <=> WholeValueN(Merged(w, 2)))
  <2>1. SUFFICES ASSUME 1 \in m.has PROVE vct_value_n_IsInitialized(m.main_) <=>
          WholeValueN(Merged(w, 2))
    OBVIOUS
  <2>2. m.main_ \in ValueNMessages
    <3>1. ValueNCell(m.has, 1, m.main_)
      BY <1>1 DEF IsValue
    <3>2. QED
      BY <2>1, <3>1, ValueNIsOwned
  <2>3. Merged(w, 2) = vct_value_n_Serialize(m.main_)
    <3>1. PICK a, b, c, d, e : a = ValueWire_key(m) /\ b = ValueWire_main(m) /\
            c = ValueWire_his(m) /\ d = ValueWire_commit_count(m) /\ e = m.unk
      OBVIOUS
    <3>2. a \in Seq(ValueTokens) /\ b \in Seq(ValueTokens) /\ c \in Seq(ValueTokens) /\
            d \in Seq(ValueTokens) /\ e \in Seq(ValueTokens)
      BY <3>1, ValueWrites
    <3>3. w = a \o b \o c \o d \o e
      BY <3>1, ValueSerialize
    <3>4. NoTag(a, 2) /\ NoTag(c, 2) /\ NoTag(d, 2) /\ NoTag(e, 2)
      BY <3>1, ValueTags
    <3>5. Bodies(ValueTokens, ValueNTokens)
      BY TokenParts DEF Bodies, ValueTokens
    <3>6. PICK t : t = WriteMessage(2, m.main_, vct_value_n_Serialize(m.main_)) /\
            t \in ValueTokens /\ t.body = vct_value_n_Serialize(m.main_) /\ Tag(t, 2, "len")
      BY <2>1, ValueWrites, WrittenTags
    <3>7. b = <<t>>
      BY <2>1, <3>1, <3>6 DEF ValueWire_main, Token
    <3>8. Merged(b, 2) = t.body
      BY <3>5, <3>6, <3>7, MergedOne
    <3>9. PICK s1 : s1 = a \o b
      OBVIOUS
    <3>10. s1 \in Seq(ValueTokens) /\ Merged(s1, 2) = t.body
      <4>1. a \in Seq(ValueTokens) /\ b \in Seq(ValueTokens)
        BY <3>2
      <4>2. NoTag(a, 2)
        BY <3>4
      <4>3. Merged(a \o b, 2) = Merged(b, 2) /\ a \o b \in Seq(ValueTokens)
        BY <3>5, <4>1, <4>2, MergedParts, TokensParts
      <4>4. QED
        BY <3>8, <3>9, <4>3
    <3>11. PICK s2 : s2 = s1 \o c
      OBVIOUS
    <3>12. s2 \in Seq(ValueTokens) /\ Merged(s2, 2) = t.body
      <4>1. s1 \in Seq(ValueTokens) /\ c \in Seq(ValueTokens)
        BY <3>2, <3>10
      <4>2. NoTag(c, 2)
        BY <3>4
      <4>3. Merged(s1 \o c, 2) = Merged(s1, 2) /\ s1 \o c \in Seq(ValueTokens)
        BY <3>5, <4>1, <4>2, MergedParts, TokensParts
      <4>4. QED
        BY <3>10, <3>11, <4>3
    <3>13. PICK s3 : s3 = s2 \o d
      OBVIOUS
    <3>14. s3 \in Seq(ValueTokens) /\ Merged(s3, 2) = t.body
      <4>1. s2 \in Seq(ValueTokens) /\ d \in Seq(ValueTokens)
        BY <3>2, <3>12
      <4>2. NoTag(d, 2)
        BY <3>4
      <4>3. Merged(s2 \o d, 2) = Merged(s2, 2) /\ s2 \o d \in Seq(ValueTokens)
        BY <3>5, <4>1, <4>2, MergedParts, TokensParts
      <4>4. QED
        BY <3>12, <3>13, <4>3
    <3>15. PICK s4 : s4 = s3 \o e
      OBVIOUS
    <3>16. s4 \in Seq(ValueTokens) /\ Merged(s4, 2) = t.body
      <4>1. s3 \in Seq(ValueTokens) /\ e \in Seq(ValueTokens)
        BY <3>2, <3>14
      <4>2. NoTag(e, 2)
        BY <3>4
      <4>3. Merged(s3 \o e, 2) = Merged(s3, 2) /\ s3 \o e \in Seq(ValueTokens)
        BY <3>5, <4>1, <4>2, MergedParts, TokensParts
      <4>4. QED
        BY <3>14, <3>15, <4>3
    <3>17. w = s4
      BY <3>3, <3>9, <3>11, <3>13, <3>15
    <3>18. QED
      BY <3>6, <3>17, <3>16
  <2>4. QED
    BY <2>2, <2>3, ValueNWhole
<1>4. (\A i \in 1 .. Len(m.his_) : vct_value_n_IsInitialized(m.his_[i])) <=>
        Each(w, 3, WholeValueN)
  <2>1. PICK h : h = m.his_ /\ h \in Seq(ValueNMessages)
    BY <1>1 DEF IsValue
  <2>2. \A i \in 1 .. Len(h) : vct_value_n_IsInitialized(h[i]) <=>
          WholeValueN(vct_value_n_Serialize(h[i]))
    BY <2>1, ElementOfSeq, ValueNWhole
  <2>3. TokensOf(ValueWire_his(m)) =
          {WriteMessage(3, h[i], vct_value_n_Serialize(h[i])) : i \in 1 .. Len(h)}
    BY <2>1, ValueRepeats
  <2>4. \A t : t \in TokensOf(w) /\ Tag(t, 3, "len") <=> t \in TokensOf(ValueWire_his(m))
    BY ValueTags
  <2>5. Each(w, 3, WholeValueN) <=> \A t \in TokensOf(w) : Tag(t, 3, "len") =>
          WholeValueN(t.body)
    BY DEF Each, TokensOf
  <2>6. (\A t \in TokensOf(ValueWire_his(m)) : WholeValueN(t.body)) <=>
        \A i \in 1 .. Len(h) : WholeValueN(vct_value_n_Serialize(h[i]))
    <3>1. PICK T, W : /\ T = TokensOf(ValueWire_his(m))
                      /\ W = [i \in 1 .. Len(h) |-> WriteMessage(3, h[i],
                           vct_value_n_Serialize(h[i]))]
      OBVIOUS
    <3>2. \A i \in 1 .. Len(h) : W[i].body = vct_value_n_Serialize(h[i])
      BY <3>1, WrittenTags
    <3>3. T = {W[i] : i \in 1 .. Len(h)}
      BY <2>3, <3>1
    <3>4. QED
      BY <3>1, <3>2, <3>3
  <2>7. QED
    BY <2>1, <2>2, <2>4, <2>5, <2>6
<1>5. QED
  BY <1>2, <1>3, <1>4 DEF WholeValue, vct_value_IsInitialized

\* It is in the view whether a message is complete.
LEMMA KeytableInitSame ==
  ASSUME NEW m \in KeytableMessages, NEW n \in KeytableMessages, keytable_value_View(m) =
           keytable_value_View(n)
  PROVE  keytable_value_IsInitialized(m) <=> keytable_value_IsInitialized(n)
<1>1. KeytableAlike(m, n)
  BY KeytableSame
<1>2. QED
  BY <1>1 DEF KeytableAlike, keytable_value_IsInitialized

\* The fields found in what a message writes are those with their bit.
LEMMA KeytableTags ==
  ASSUME NEW m \in KeytableMessages, NEW w, w = keytable_value_Serialize(m)
  PROVE  /\ (\E t \in TokensOf(w) : Tag(t, 1, "len")) <=> 0 \in m.has
         /\ (\E t \in TokensOf(w) : Tag(t, 2, "len")) <=> 1 \in m.has
         /\ (\E t \in TokensOf(w) : Tag(t, 3, "len")) <=> 2 \in m.has
<1>1. TokensOf(w) = TokensOf(KeytableWire_field(m)) \cup
        TokensOf(KeytableWire_route_table(m)) \cup
        TokensOf(KeytableWire_route_table_field(m)) \cup TokensOf(m.unk)
  BY KeytableSerialize
<1>2. ASSUME NEW t \in TokensOf(m.unk)
      PROVE  NotOfKeytable(t)
  <2>1. m.unk \in Seq(KeytableUnknown)
    BY KeytableIs DEF IsKeytable
  <2>2. t \in KeytableUnknown
    BY <2>1, TokensShort
  <2>3. /\ \A num \in {} : ~Tag(t, num, "varint")
        /\ \A num \in {1, 2, 3} : ~Tag(t, num, "len")
    BY <2>2, UnknownTags DEF KeytableUnknown
  <2>4. QED
    BY <2>3 DEF NotOfKeytable
<1>3. /\ \A t \in TokensOf(KeytableWire_field(m)) : \A num, wire : Tag(t, num, wire) <=>
           num = 1 /\ wire = "len"
      /\ (\E t \in TokensOf(KeytableWire_field(m)) : TRUE) <=> 0 \in m.has
  <2>1. PICK v : v = WriteString(1, m.field_)
    OBVIOUS
  <2>2. \A num, wire : Tag(v, num, wire) <=> num = 1 /\ wire = "len"
    BY <2>1, WrittenTags
  <2>3. TokensOf(KeytableWire_field(m)) = IF 0 \in m.has THEN {v} ELSE {}
    BY <2>1, KeytableWrites
  <2>4. QED
    BY <2>2, <2>3
<1>4. /\ \A t \in TokensOf(KeytableWire_route_table(m)) : \A num, wire : Tag(t, num, wire) <=>
           num = 2 /\ wire = "len"
      /\ (\E t \in TokensOf(KeytableWire_route_table(m)) : TRUE) <=> 1 \in m.has
  <2>1. PICK v : v = WriteString(2, m.route_table_)
    OBVIOUS
  <2>2. \A num, wire : Tag(v, num, wire) <=> num = 2 /\ wire = "len"
    BY <2>1, WrittenTags
  <2>3. TokensOf(KeytableWire_route_table(m)) = IF 1 \in m.has THEN {v} ELSE {}
    BY <2>1, KeytableWrites
  <2>4. QED
    BY <2>2, <2>3
<1>5. /\ \A t \in TokensOf(KeytableWire_route_table_field(m)) : \A num, wire :
           Tag(t, num, wire) <=> num = 3 /\ wire = "len"
      /\ (\E t \in TokensOf(KeytableWire_route_table_field(m)) : TRUE) <=> 2 \in m.has
  <2>1. PICK v : v = WriteString(3, m.route_table_field_)
    OBVIOUS
  <2>2. \A num, wire : Tag(v, num, wire) <=> num = 3 /\ wire = "len"
    BY <2>1, WrittenTags
  <2>3. TokensOf(KeytableWire_route_table_field(m)) = IF 2 \in m.has THEN {v} ELSE {}
    BY <2>1, KeytableWrites
  <2>4. QED
    BY <2>2, <2>3
<1>6. (\E t \in TokensOf(w) : Tag(t, 1, "len")) <=> 0 \in m.has
  BY <1>1, <1>2, <1>3, <1>4, <1>5 DEF NotOfKeytable
<1>7. (\E t \in TokensOf(w) : Tag(t, 2, "len")) <=> 1 \in m.has
  BY <1>1, <1>2, <1>3, <1>4, <1>5 DEF NotOfKeytable
<1>8. (\E t \in TokensOf(w) : Tag(t, 3, "len")) <=> 2 \in m.has
  BY <1>1, <1>2, <1>3, <1>4, <1>5 DEF NotOfKeytable
<1>9. QED
  BY <1>6, <1>7, <1>8

\* With the sizes up to date, lengths are true.
LEMMA KeytableLengths ==
  ASSUME NEW m \in KeytableMessages, KeytableSized(m), NEW w, w = keytable_value_Serialize(m)
  PROVE  /\ Truthful(w)
         /\ \A t \in TokensOf(w) : t.body # <<>> => Truthful(t.body)
<1>1. \A t \in TokensOf(w) : t \in KeytableTokens
  BY KeytableSerialize, TokensShort
<1>2. \A t \in TokensOf(w) : t.body = <<>>
  BY <1>1, TokenParts DEF KeytableTokens
<1>3. QED
  BY <1>2 DEF Truthful

\* Complete is what writes its required fields.
LEMMA KeytableWhole ==
  ASSUME NEW m \in KeytableMessages, NEW w, w = keytable_value_Serialize(m)
  PROVE  keytable_value_IsInitialized(m) <=> WholeKeytable(w)
BY KeytableTags, ThereIs DEF WholeKeytable, keytable_value_IsInitialized

\* And back: equal views of equally many elements.
LEMMA ColViewsSplit ==
  ASSUME NEW s \in Seq(ColMessages), NEW t \in Seq(ColMessages), ColViews(s) = ColViews(t)
  PROVE  Len(s) = Len(t) /\ \A i \in 1 .. Len(s) :
           route_value_col_View(s[i]) = route_value_col_View(t[i])
<1>1. PICK k \in Nat, l \in Nat : k = Len(s) /\ l = Len(t)
  BY LenProperties
<1>2. PICK a, b : /\ a = [i \in 1 .. k |-> route_value_col_View(s[i])]
                  /\ b = [i \in 1 .. l |-> route_value_col_View(t[i])]
  OBVIOUS
<1>3. a = b
  BY <1>1, <1>2 DEF ColViews, ForEach
<1>4. DOMAIN a = 1 .. k /\ DOMAIN b = 1 .. l
  BY <1>2
<1>5. k = l
  BY <1>3, <1>4
<1>6. QED
  BY <1>1, <1>2, <1>3, <1>5

\* It is in the view whether a message is complete.
LEMMA ColInitSame ==
  ASSUME NEW m \in ColMessages, NEW n \in ColMessages, route_value_col_View(m) =
           route_value_col_View(n)
  PROVE  route_value_col_IsInitialized(m) <=> route_value_col_IsInitialized(n)
<1>1. ColAlike(m, n)
  BY ColSame
<1>2. QED
  BY <1>1 DEF ColAlike, route_value_col_IsInitialized

\* The fields found in what a message writes are those with their bit.
LEMMA ColTags ==
  ASSUME NEW m \in ColMessages, NEW w, w = route_value_col_Serialize(m)
  PROVE  /\ (\E t \in TokensOf(w) : Tag(t, 1, "len")) <=> 0 \in m.has
         /\ (\E t \in TokensOf(w) : Tag(t, 2, "len")) <=> 1 \in m.has
<1>1. TokensOf(w) = TokensOf(ColWire_name(m)) \cup TokensOf(ColWire_value(m)) \cup
        TokensOf(m.unk)
  BY ColSerialize
<1>2. ASSUME NEW t \in TokensOf(m.unk)
      PROVE  NotOfCol(t)
  <2>1. m.unk \in Seq(ColUnknown)
    BY ColIs DEF IsCol
  <2>2. t \in ColUnknown
    BY <2>1, TokensShort
  <2>3. /\ \A num \in {} : ~Tag(t, num, "varint")
        /\ \A num \in {1, 2} : ~Tag(t, num, "len")
    BY <2>2, UnknownTags DEF ColUnknown
  <2>4. QED
    BY <2>3 DEF NotOfCol
<1>3. /\ \A t \in TokensOf(ColWire_name(m)) : \A num, wire : Tag(t, num, wire) <=>
           num = 1 /\ wire = "len"
      /\ (\E t \in TokensOf(ColWire_name(m)) : TRUE) <=> 0 \in m.has
  <2>1. PICK v : v = WriteString(1, m.name_)
    OBVIOUS
  <2>2. \A num, wire : Tag(v, num, wire) <=> num = 1 /\ wire = "len"
    BY <2>1, WrittenTags
  <2>3. TokensOf(ColWire_name(m)) = IF 0 \in m.has THEN {v} ELSE {}
    BY <2>1, ColWrites
  <2>4. QED
    BY <2>2, <2>3
<1>4. /\ \A t \in TokensOf(ColWire_value(m)) : \A num, wire : Tag(t, num, wire) <=>
           num = 2 /\ wire = "len"
      /\ (\E t \in TokensOf(ColWire_value(m)) : TRUE) <=> 1 \in m.has
  <2>1. PICK v : v = WriteString(2, m.value_)
    OBVIOUS
  <2>2. \A num, wire : Tag(v, num, wire) <=> num = 2 /\ wire = "len"
    BY <2>1, WrittenTags
  <2>3. TokensOf(ColWire_value(m)) = IF 1 \in m.has THEN {v} ELSE {}
    BY <2>1, ColWrites
  <2>4. QED
    BY <2>2, <2>3
<1>5. (\E t \in TokensOf(w) : Tag(t, 1, "len")) <=> 0 \in m.has
  BY <1>1, <1>2, <1>3, <1>4 DEF NotOfCol
<1>6. (\E t \in TokensOf(w) : Tag(t, 2, "len")) <=> 1 \in m.has
  BY <1>1, <1>2, <1>3, <1>4 DEF NotOfCol
<1>7. QED
  BY <1>5, <1>6

\* With the sizes up to date, lengths are true.
LEMMA ColLengths ==
  ASSUME NEW m \in ColMessages, ColSized(m), NEW w, w = route_value_col_Serialize(m)
  PROVE  /\ Truthful(w)
         /\ \A t \in TokensOf(w) : t.body # <<>> => Truthful(t.body)
<1>1. \A t \in TokensOf(w) : t \in ColTokens
  BY ColSerialize, TokensShort
<1>2. \A t \in TokensOf(w) : t.body = <<>>
  BY <1>1, TokenParts DEF ColTokens
<1>3. QED
  BY <1>2 DEF Truthful

\* Complete is what writes its required fields.
LEMMA ColWhole ==
  ASSUME NEW m \in ColMessages, NEW w, w = route_value_col_Serialize(m)
  PROVE  route_value_col_IsInitialized(m) <=> WholeCol(w)
BY ColTags, ThereIs DEF WholeCol, route_value_col_IsInitialized

\* It is in the view whether a message is complete.
LEMMA RouteInitSame ==
  ASSUME NEW m \in RouteMessages, NEW n \in RouteMessages, route_value_View(m) =
           route_value_View(n)
  PROVE  route_value_IsInitialized(m) <=> route_value_IsInitialized(n)
<1>1. RouteAlike(m, n)
  BY RouteSame
<1>2. IsRoute(m) /\ IsRoute(n)
  BY RouteIs
<1>3. (\A i \in 1 .. Len(m.col_) : route_value_col_IsInitialized(m.col_[i])) <=>
        (\A i \in 1 .. Len(n.col_) : route_value_col_IsInitialized(n.col_[i]))
  <2>1. PICK s, t : s = m.col_ /\ t = n.col_ /\ s \in Seq(ColMessages) /\ t \in Seq(ColMessages)
    BY <1>2 DEF IsRoute
  <2>2. Len(s) = Len(t) /\ \A i \in 1 .. Len(s) :
          route_value_col_View(s[i]) = route_value_col_View(t[i])
    <3>1. ColViews(s) = ColViews(t) /\ s \in Seq(ColMessages) /\ t \in Seq(ColMessages)
      BY <1>1, <2>1 DEF RouteAlike
    <3>2. QED
      BY <3>1, ColViewsSplit
  <2>3. \A i \in 1 .. Len(s) : s[i] \in ColMessages /\ t[i] \in ColMessages
    BY <2>1, <2>2, ElementOfSeq
  <2>4. \A i \in 1 .. Len(s) : route_value_col_IsInitialized(s[i]) <=>
          route_value_col_IsInitialized(t[i])
    BY <2>2, <2>3, ColInitSame
  <2>5. QED
    BY <2>1, <2>2, <2>4
<1>4. QED
  BY <1>1, <1>3 DEF RouteAlike, route_value_IsInitialized

\* The tokens of the repeated field are its elements.
LEMMA RouteRepeats ==
  ASSUME NEW m \in RouteMessages, NEW h, h = m.col_
  PROVE  TokensOf(RouteWire_col(m)) =
           {WriteMessage(3, h[i], route_value_col_Serialize(h[i])) : i \in 1 .. Len(h)}
<1>1. PICK a : a = [i \in 1 .. Len(h) |-> WriteMessage(3, h[i],
        route_value_col_Serialize(h[i]))]
  OBVIOUS
<1>2. RouteWire_col(m) = a /\ Len(RouteWire_col(m)) = Len(h)
  BY <1>1, RouteWrites DEF RouteWire_col, WriteRepeated
<1>3. QED
  BY <1>1, <1>2 DEF TokensOf

\* The fields found in what a message writes are those with their bit.
LEMMA RouteTags ==
  ASSUME NEW m \in RouteMessages, NEW w, w = route_value_Serialize(m)
  PROVE  /\ (\E t \in TokensOf(w) : Tag(t, 1, "len")) <=> 0 \in m.has
         /\ (\E t \in TokensOf(w) : Tag(t, 2, "len")) <=> 1 \in m.has
         /\ \A t : t \in TokensOf(w) /\ Tag(t, 3, "len") <=> t \in TokensOf(RouteWire_col(m))
         /\ NoTag(RouteWire_region(m), 3)
         /\ NoTag(RouteWire_area(m), 3)
         /\ NoTag(m.unk, 3)
<1>1. TokensOf(w) = TokensOf(RouteWire_region(m)) \cup TokensOf(RouteWire_area(m)) \cup
        TokensOf(RouteWire_col(m)) \cup TokensOf(m.unk)
  BY RouteSerialize
<1>2. ASSUME NEW t \in TokensOf(m.unk)
      PROVE  NotOfRoute(t)
  <2>1. m.unk \in Seq(RouteUnknown)
    BY RouteIs DEF IsRoute
  <2>2. t \in RouteUnknown
    BY <2>1, TokensShort
  <2>3. /\ \A num \in {} : ~Tag(t, num, "varint")
        /\ \A num \in {1, 2, 3} : ~Tag(t, num, "len")
    BY <2>2, UnknownTags DEF RouteUnknown
  <2>4. QED
    BY <2>3 DEF NotOfRoute
<1>3. /\ \A t \in TokensOf(RouteWire_region(m)) : \A num, wire : Tag(t, num, wire) <=>
           num = 1 /\ wire = "len"
      /\ (\E t \in TokensOf(RouteWire_region(m)) : TRUE) <=> 0 \in m.has
  <2>1. PICK v : v = WriteString(1, m.region_)
    OBVIOUS
  <2>2. \A num, wire : Tag(v, num, wire) <=> num = 1 /\ wire = "len"
    BY <2>1, WrittenTags
  <2>3. TokensOf(RouteWire_region(m)) = IF 0 \in m.has THEN {v} ELSE {}
    BY <2>1, RouteWrites
  <2>4. QED
    BY <2>2, <2>3
<1>4. /\ \A t \in TokensOf(RouteWire_area(m)) : \A num, wire : Tag(t, num, wire) <=>
           num = 2 /\ wire = "len"
      /\ (\E t \in TokensOf(RouteWire_area(m)) : TRUE) <=> 1 \in m.has
  <2>1. PICK v : v = WriteString(2, m.area_)
    OBVIOUS
  <2>2. \A num, wire : Tag(v, num, wire) <=> num = 2 /\ wire = "len"
    BY <2>1, WrittenTags
  <2>3. TokensOf(RouteWire_area(m)) = IF 1 \in m.has THEN {v} ELSE {}
    BY <2>1, RouteWrites
  <2>4. QED
    BY <2>2, <2>3
<1>5. \A t \in TokensOf(RouteWire_col(m)) : \A num, wire : Tag(t, num, wire) <=>
        num = 3 /\ wire = "len"
  <2>1. ASSUME NEW t \in TokensOf(RouteWire_col(m)), NEW num, NEW wire
        PROVE  Tag(t, num, wire) <=> num = 3 /\ wire = "len"
    <3>1. PICK e, b : t = WriteMessage(3, e, b)
      BY <2>1, RouteRepeats
    <3>2. QED
      BY <3>1, WrittenTags
  <2>2. QED
    BY <2>1
<1>6. (\E t \in TokensOf(w) : Tag(t, 1, "len")) <=> 0 \in m.has
  BY <1>1, <1>2, <1>3, <1>4, <1>5 DEF NotOfRoute
<1>7. (\E t \in TokensOf(w) : Tag(t, 2, "len")) <=> 1 \in m.has
  BY <1>1, <1>2, <1>3, <1>4, <1>5 DEF NotOfRoute
<1>8. \A t : t \in TokensOf(w) /\ Tag(t, 3, "len") <=> t \in TokensOf(RouteWire_col(m))
  BY <1>1, <1>2, <1>3, <1>4, <1>5 DEF NotOfRoute
<1>9. /\ NoTag(RouteWire_region(m), 3)
      /\ NoTag(RouteWire_area(m), 3)
      /\ NoTag(m.unk, 3)
  BY <1>2, <1>3, <1>4, <1>5 DEF NoTag, NotOfRoute
<1>10. QED
  BY <1>6, <1>7, <1>8, <1>9

\* With the sizes up to date, lengths are true.
LEMMA RouteLengths ==
  ASSUME NEW m \in RouteMessages, RouteSized(m), NEW w, w = route_value_Serialize(m)
  PROVE  /\ Truthful(w)
         /\ \A t \in TokensOf(w) : t.body # <<>> => Truthful(t.body)
<1>1. TokensOf(w) = TokensOf(RouteWire_region(m)) \cup TokensOf(RouteWire_area(m)) \cup
        TokensOf(RouteWire_col(m)) \cup TokensOf(m.unk)
  BY RouteSerialize
<1>2. ASSUME NEW t \in TokensOf(m.unk) PROVE t.body = <<>>
  <2>1. m.unk \in Seq(RouteUnknown)
    BY RouteIs DEF IsRoute
  <2>2. t \in RouteUnknown
    BY <2>1, TokensShort
  <2>3. QED
    BY <2>2, UnknownTags DEF RouteUnknown
<1>3. IsRoute(m)
  BY RouteIs
<1>4. \A t \in TokensOf(RouteWire_region(m)) : t.body = <<>>
  <2>1. PICK v : v = WriteString(1, m.region_) /\ v.body = <<>>
    BY WrittenTags
  <2>2. TokensOf(RouteWire_region(m)) = IF 0 \in m.has THEN {v} ELSE {}
    BY <2>1, RouteWrites
  <2>3. QED
    BY <2>1, <2>2
<1>5. \A t \in TokensOf(RouteWire_area(m)) : t.body = <<>>
  <2>1. PICK v : v = WriteString(2, m.area_) /\ v.body = <<>>
    BY WrittenTags
  <2>2. TokensOf(RouteWire_area(m)) = IF 1 \in m.has THEN {v} ELSE {}
    BY <2>1, RouteWrites
  <2>3. QED
    BY <2>1, <2>2
<1>6. \A t \in TokensOf(RouteWire_col(m)) : t.len = TotalBytes(t.body) /\ Truthful(t.body)
  <2>1. SUFFICES ASSUME NEW t \in TokensOf(RouteWire_col(m))
                 PROVE  t.len = TotalBytes(t.body) /\ Truthful(t.body)
    OBVIOUS
  <2>2. PICK h : h = m.col_ /\ h \in Seq(ColMessages)
    BY <1>3 DEF IsRoute
  <2>3. PICK i \in 1 .. Len(h) : t = WriteMessage(3, h[i], route_value_col_Serialize(h[i]))
    BY <2>2, RouteRepeats
  <2>4. PICK e, b : e = h[i] /\ b = route_value_col_Serialize(h[i]) /\ t = WriteMessage(3, e, b)
    BY <2>3
  <2>5. e \in ColMessages /\ ColSized(e)
    BY <2>2, <2>3, <2>4, ElementOfSeq DEF RouteSized
  <2>6. e.size = TotalBytes(b) /\ b = route_value_col_Serialize(e)
    BY <2>2, <2>4, <2>5 DEF ColSized
  <2>7. Truthful(b)
    BY <2>5, <2>6, ColLengths
  <2>8. QED
    BY <2>4, <2>6, <2>7, WrittenTags
<1>7. QED
  BY <1>1, <1>2, <1>4, <1>5, <1>6 DEF Truthful

\* Complete is what writes its required fields.
LEMMA RouteWhole ==
  ASSUME NEW m \in RouteMessages, NEW w, w = route_value_Serialize(m)
  PROVE  route_value_IsInitialized(m) <=> WholeRoute(w)
<1>1. IsRoute(m) /\ w \in Seq(RouteTokens)
  BY RouteIs, RouteSerialize
<1>2. {0, 1} \subseteq m.has <=> There(w, "len", {1, 2})
  BY RouteTags, ThereIs
<1>3. (\A i \in 1 .. Len(m.col_) : route_value_col_IsInitialized(m.col_[i])) <=>
        Each(w, 3, WholeCol)
  <2>1. PICK h : h = m.col_ /\ h \in Seq(ColMessages)
    BY <1>1 DEF IsRoute
  <2>2. \A i \in 1 .. Len(h) : route_value_col_IsInitialized(h[i]) <=>
          WholeCol(route_value_col_Serialize(h[i]))
    BY <2>1, ElementOfSeq, ColWhole
  <2>3. TokensOf(RouteWire_col(m)) =
          {WriteMessage(3, h[i], route_value_col_Serialize(h[i])) : i \in 1 .. Len(h)}
    BY <2>1, RouteRepeats
  <2>4. \A t : t \in TokensOf(w) /\ Tag(t, 3, "len") <=> t \in TokensOf(RouteWire_col(m))
    BY RouteTags
  <2>5. Each(w, 3, WholeCol) <=> \A t \in TokensOf(w) : Tag(t, 3, "len") => WholeCol(t.body)
    BY DEF Each, TokensOf
  <2>6. (\A t \in TokensOf(RouteWire_col(m)) : WholeCol(t.body)) <=>
        \A i \in 1 .. Len(h) : WholeCol(route_value_col_Serialize(h[i]))
    <3>1. PICK T, W : /\ T = TokensOf(RouteWire_col(m))
                      /\ W = [i \in 1 .. Len(h) |-> WriteMessage(3, h[i],
                           route_value_col_Serialize(h[i]))]
      OBVIOUS
    <3>2. \A i \in 1 .. Len(h) : W[i].body = route_value_col_Serialize(h[i])
      BY <3>1, WrittenTags
    <3>3. T = {W[i] : i \in 1 .. Len(h)}
      BY <2>3, <3>1
    <3>4. QED
      BY <3>1, <3>2, <3>3
  <2>7. QED
    BY <2>1, <2>2, <2>4, <2>5, <2>6
<1>4. QED
  BY <1>2, <1>3 DEF WholeRoute, route_value_IsInitialized

-----------------------------------------------------------------------------
(* Accessors *)

\* Accessors leave messages of the class.
LEMMA PosAccess ==
  ASSUME NEW m \in PosMessages
  PROVE  vct_pos_Access(m) \subseteq PosMessages
<1>1. IsPos(m) /\ HasFields(m, PosFields)
  BY PosIs DEF IsPos
<1>2. vct_pos_posm_(m) \subseteq PosMessages
  BY WireAssumption, PosPut DEF vct_pos_posm_, IntField
<1>3. vct_pos_poss_(m) \subseteq PosMessages
  BY WireAssumption, PosPut DEF vct_pos_poss_, IntField
<1>4. QED
  BY <1>2, <1>3 DEF vct_pos_Access

\* Accessors leave messages of the class.
LEMMA ValueNAccess ==
  ASSUME NEW m \in ValueNMessages
  PROVE  vct_value_n_Access(m) \subseteq ValueNMessages
<1>1. IsValueN(m) /\ HasFields(m, ValueNFields)
  BY ValueNIs DEF IsValueN
<1>2. vct_value_n_pos_(m) \subseteq ValueNMessages
  <2>1. PICK v : v = m.pos_ /\ PosCell(m.has, 0, v)
    BY <1>1 DEF IsValueN
  <2>2. PICK e : e = PosOwned(v) /\ e \in PosMessages
    BY <2>1, PosIsOwned
  <2>3. PICK q : q = Put(m, 0, "pos_", e) /\ q \in ValueNMessages
    BY <2>2, ValueNPut
  <2>4. Mutable(m, 0, "pos_", vct_pos_New) = q /\ q["pos_"] = e
    BY <1>1, <2>1, <2>2, <2>3 DEF Mutable, PosOwned, Put, HasFields, ValueNFields
  <2>5. PICK z : z = IF v = Null THEN Null ELSE vct_pos_Clear(v)
    OBVIOUS
  <2>6. PosCell({}, 0, z)
    <3>1. CASE v = Null
      BY <2>5, <3>1, PosCells
    <3>2. CASE v # Null
      <4>1. v \in PosMessages /\ z = vct_pos_Clear(v)
        BY <2>1, <2>5, <3>2, PosIsOwned
      <4>2. z \in PosMessages /\ vct_pos_View(z) = vct_pos_View(vct_pos_New)
        BY <4>1, PosClear
      <4>3. QED
        BY <4>2, PosCells
    <3>3. QED
      BY <3>1, <3>2
  <2>7. PosCell({}, 0, Null)
    BY PosCells
  <2>8. Unset(m, 0, "pos_", z) \in ValueNMessages /\
          Unset(m, 0, "pos_", Null) \in ValueNMessages
    BY <2>6, <2>7, ValueNPut
  <2>9. Put(m, 0, "pos_", vct_pos_New) \in ValueNMessages
    BY PosNew, ValueNPut
  <2>10. \A y \in vct_pos_Access(e) : Put(m, 0, "pos_", y) \in ValueNMessages
    <3>1. \A y \in vct_pos_Access(e) : y \in PosMessages
      BY <2>2, PosAccess
    <3>2. QED
      BY <3>1, ValueNPut
  <2>11. vct_value_n_pos_(m) =
           {q, Put(m, 0, "pos_", vct_pos_New), Unset(m, 0, "pos_", Null),
               Unset(m, 0, "pos_", z)}
             \cup {Put(m, 0, "pos_", y) : y \in vct_pos_Access(e)}
    BY <2>1, <2>4, <2>5 DEF vct_value_n_pos_, MessageField
  <2>12. QED
    BY <2>3, <2>8, <2>9, <2>10, <2>11
<1>3. vct_value_n_a_(m) \subseteq ValueNMessages
  BY WireAssumption, ValueNPut DEF vct_value_n_a_, IntField
<1>4. vct_value_n_b_(m) \subseteq ValueNMessages
  BY WireAssumption, ValueNPut DEF vct_value_n_b_, IntField
<1>5. vct_value_n_commit_(m) \subseteq ValueNMessages
  BY WireAssumption, ValueNPut DEF vct_value_n_commit_, BoolField
<1>6. QED
  BY <1>2, <1>3, <1>4, <1>5 DEF vct_value_n_Access

\* Accessors leave messages of the class.
LEMMA ValueAccess ==
  ASSUME NEW m \in ValueMessages
  PROVE  vct_value_Access(m) \subseteq ValueMessages
<1>1. IsValue(m) /\ HasFields(m, ValueFields)
  BY ValueIs DEF IsValue
<1>2. vct_value_key_(m) \subseteq ValueMessages
  <2>1. m["key_"] \in Strings \cup {Shared}
    BY <1>1, TextIs DEF IsValue
  <2>2. Text(m["key_"]) \in Strings /\ Emptied(m["key_"]) \in {Shared, Empty}
    BY <2>1, TextIs
  <2>3. QED
    BY <2>2, ValuePut DEF vct_value_key_, StringField
<1>3. vct_value_main_(m) \subseteq ValueMessages
  <2>1. PICK v : v = m.main_ /\ ValueNCell(m.has, 1, v)
    BY <1>1 DEF IsValue
  <2>2. PICK e : e = ValueNOwned(v) /\ e \in ValueNMessages
    BY <2>1, ValueNIsOwned
  <2>3. PICK q : q = Put(m, 1, "main_", e) /\ q \in ValueMessages
    BY <2>2, ValuePut
  <2>4. Mutable(m, 1, "main_", vct_value_n_New) = q /\ q["main_"] = e
    BY <1>1, <2>1, <2>2, <2>3 DEF Mutable, ValueNOwned, Put, HasFields, ValueFields
  <2>5. PICK z : z = IF v = Null THEN Null ELSE vct_value_n_Clear(v)
    OBVIOUS
  <2>6. ValueNCell({}, 1, z)
    <3>1. CASE v = Null
      BY <2>5, <3>1, ValueNCells
    <3>2. CASE v # Null
      <4>1. v \in ValueNMessages /\ z = vct_value_n_Clear(v)
        BY <2>1, <2>5, <3>2, ValueNIsOwned
      <4>2. z \in ValueNMessages /\ vct_value_n_View(z) = vct_value_n_View(vct_value_n_New)
        BY <4>1, ValueNClear
      <4>3. QED
        BY <4>2, ValueNCells
    <3>3. QED
      BY <3>1, <3>2
  <2>7. ValueNCell({}, 1, Null)
    BY ValueNCells
  <2>8. Unset(m, 1, "main_", z) \in ValueMessages /\
          Unset(m, 1, "main_", Null) \in ValueMessages
    BY <2>6, <2>7, ValuePut
  <2>9. Put(m, 1, "main_", vct_value_n_New) \in ValueMessages
    BY ValueNNew, ValuePut
  <2>10. \A y \in vct_value_n_Access(e) : Put(m, 1, "main_", y) \in ValueMessages
    <3>1. \A y \in vct_value_n_Access(e) : y \in ValueNMessages
      BY <2>2, ValueNAccess
    <3>2. QED
      BY <3>1, ValuePut
  <2>11. vct_value_main_(m) =
           {q, Put(m, 1, "main_", vct_value_n_New), Unset(m, 1, "main_", Null),
               Unset(m, 1, "main_", z)}
             \cup {Put(m, 1, "main_", y) : y \in vct_value_n_Access(e)}
    BY <2>1, <2>4, <2>5 DEF vct_value_main_, MessageField
  <2>12. QED
    BY <2>3, <2>8, <2>9, <2>10, <2>11
<1>4. vct_value_his_(m) \subseteq ValueMessages
  <2>1. PICK h : h = m.his_ /\ h \in Seq(ValueNMessages)
    BY <1>1 DEF IsValue
  <2>2. \A u \in Seq(ValueNMessages) : [m EXCEPT !["his_"] = u] \in ValueMessages
    BY ValuePut
  <2>3. [m EXCEPT !["his_"] = Append(h, vct_value_n_New)] \in ValueMessages
    BY <2>1, <2>2, ValueNNew, AppendProperties
  <2>4. [m EXCEPT !["his_"] = <<>>] \in ValueMessages
    BY <2>2, EmptySeq
  <2>5. ASSUME NEW i \in 1 .. Len(h), NEW y \in vct_value_n_Access(h[i])
        PROVE  [m EXCEPT !["his_"] = [h EXCEPT ![i] = y]] \in ValueMessages
    <3>1. y \in ValueNMessages
      BY <2>1, ElementOfSeq, ValueNAccess
    <3>2. [h EXCEPT ![i] = y] \in Seq(ValueNMessages)
      BY <2>1, <3>1, ExceptSeq
    <3>3. QED
      BY <2>2, <3>2
  <2>6. vct_value_his_(m) =
          {[m EXCEPT !["his_"] = Append(h, vct_value_n_New)], [m EXCEPT !["his_"] = <<>>]}
            \cup UNION {{[m EXCEPT !["his_"] = [h EXCEPT ![i] = y]] :
                y \in vct_value_n_Access(h[i])} :
                          i \in 1 .. Len(h)}
    BY <2>1 DEF vct_value_his_, RepeatedField
  <2>7. PICK R : R = [i \in 1 .. Len(h) |-> {[m EXCEPT !["his_"] = [h EXCEPT ![i] = y]] :
          y \in vct_value_n_Access(h[i])}]
    OBVIOUS
  <2>8. \A i \in 1 .. Len(h) : R[i] \subseteq ValueMessages
    BY <2>5, <2>7
  <2>9. UNION {R[i] : i \in 1 .. Len(h)} \subseteq ValueMessages
    BY <2>8
  <2>10. UNION {{[m EXCEPT !["his_"] = [h EXCEPT ![i] = y]] : y \in vct_value_n_Access(h[i])} :
                   i \in 1 .. Len(h)}
           = UNION {R[i] : i \in 1 .. Len(h)}
    BY <2>7
  <2>11. QED
    BY <2>3, <2>4, <2>6, <2>9, <2>10
<1>5. vct_value_commit_count_(m) \subseteq ValueMessages
  BY WireAssumption, ValuePut DEF vct_value_commit_count_, IntField
<1>6. QED
  BY <1>2, <1>3, <1>4, <1>5 DEF vct_value_Access

\* Accessors leave messages of the class.
LEMMA KeytableAccess ==
  ASSUME NEW m \in KeytableMessages
  PROVE  keytable_value_Access(m) \subseteq KeytableMessages
<1>1. IsKeytable(m) /\ HasFields(m, KeytableFields)
  BY KeytableIs DEF IsKeytable
<1>2. keytable_value_field_(m) \subseteq KeytableMessages
  <2>1. m["field_"] \in Strings \cup {Shared}
    BY <1>1, TextIs DEF IsKeytable
  <2>2. Text(m["field_"]) \in Strings /\ Emptied(m["field_"]) \in {Shared, Empty}
    BY <2>1, TextIs
  <2>3. QED
    BY <2>2, KeytablePut DEF keytable_value_field_, StringField
<1>3. keytable_value_route_table_(m) \subseteq KeytableMessages
  <2>1. m["route_table_"] \in Strings \cup {Shared}
    BY <1>1, TextIs DEF IsKeytable
  <2>2. Text(m["route_table_"]) \in Strings /\ Emptied(m["route_table_"]) \in {Shared, Empty}
    BY <2>1, TextIs
  <2>3. QED
    BY <2>2, KeytablePut DEF keytable_value_route_table_, StringField
<1>4. keytable_value_route_table_field_(m) \subseteq KeytableMessages
  <2>1. m["route_table_field_"] \in Strings \cup {Shared}
    BY <1>1, TextIs DEF IsKeytable
  <2>2. Text(m["route_table_field_"]) \in Strings /\
          Emptied(m["route_table_field_"]) \in {Shared, Empty}
    BY <2>1, TextIs
  <2>3. QED
    BY <2>2, KeytablePut DEF keytable_value_route_table_field_, StringField
<1>5. QED
  BY <1>2, <1>3, <1>4 DEF keytable_value_Access

\* Accessors leave messages of the class.
LEMMA ColAccess ==
  ASSUME NEW m \in ColMessages
  PROVE  route_value_col_Access(m) \subseteq ColMessages
<1>1. IsCol(m) /\ HasFields(m, ColFields)
  BY ColIs DEF IsCol
<1>2. route_value_col_name_(m) \subseteq ColMessages
  <2>1. m["name_"] \in Strings \cup {Shared}
    BY <1>1, TextIs DEF IsCol
  <2>2. Text(m["name_"]) \in Strings /\ Emptied(m["name_"]) \in {Shared, Empty}
    BY <2>1, TextIs
  <2>3. QED
    BY <2>2, ColPut DEF route_value_col_name_, StringField
<1>3. route_value_col_value_(m) \subseteq ColMessages
  <2>1. m["value_"] \in Strings \cup {Shared}
    BY <1>1, TextIs DEF IsCol
  <2>2. Text(m["value_"]) \in Strings /\ Emptied(m["value_"]) \in {Shared, Empty}
    BY <2>1, TextIs
  <2>3. QED
    BY <2>2, ColPut DEF route_value_col_value_, StringField
<1>4. QED
  BY <1>2, <1>3 DEF route_value_col_Access

\* Accessors leave messages of the class.
LEMMA RouteAccess ==
  ASSUME NEW m \in RouteMessages
  PROVE  route_value_Access(m) \subseteq RouteMessages
<1>1. IsRoute(m) /\ HasFields(m, RouteFields)
  BY RouteIs DEF IsRoute
<1>2. route_value_region_(m) \subseteq RouteMessages
  <2>1. m["region_"] \in Strings \cup {Shared}
    BY <1>1, TextIs DEF IsRoute
  <2>2. Text(m["region_"]) \in Strings /\ Emptied(m["region_"]) \in {Shared, Empty}
    BY <2>1, TextIs
  <2>3. QED
    BY <2>2, RoutePut DEF route_value_region_, StringField
<1>3. route_value_area_(m) \subseteq RouteMessages
  <2>1. m["area_"] \in Strings \cup {Shared}
    BY <1>1, TextIs DEF IsRoute
  <2>2. Text(m["area_"]) \in Strings /\ Emptied(m["area_"]) \in {Shared, Empty}
    BY <2>1, TextIs
  <2>3. QED
    BY <2>2, RoutePut DEF route_value_area_, StringField
<1>4. route_value_col_(m) \subseteq RouteMessages
  <2>1. PICK h : h = m.col_ /\ h \in Seq(ColMessages)
    BY <1>1 DEF IsRoute
  <2>2. \A u \in Seq(ColMessages) : [m EXCEPT !["col_"] = u] \in RouteMessages
    BY RoutePut
  <2>3. [m EXCEPT !["col_"] = Append(h, route_value_col_New)] \in RouteMessages
    BY <2>1, <2>2, ColNew, AppendProperties
  <2>4. [m EXCEPT !["col_"] = <<>>] \in RouteMessages
    BY <2>2, EmptySeq
  <2>5. ASSUME NEW i \in 1 .. Len(h), NEW y \in route_value_col_Access(h[i])
        PROVE  [m EXCEPT !["col_"] = [h EXCEPT ![i] = y]] \in RouteMessages
    <3>1. y \in ColMessages
      BY <2>1, ElementOfSeq, ColAccess
    <3>2. [h EXCEPT ![i] = y] \in Seq(ColMessages)
      BY <2>1, <3>1, ExceptSeq
    <3>3. QED
      BY <2>2, <3>2
  <2>6. route_value_col_(m) =
          {[m EXCEPT !["col_"] = Append(h, route_value_col_New)], [m EXCEPT !["col_"] = <<>>]}
            \cup UNION {{[m EXCEPT !["col_"] = [h EXCEPT ![i] = y]] :
                y \in route_value_col_Access(h[i])} :
                          i \in 1 .. Len(h)}
    BY <2>1 DEF route_value_col_, RepeatedField
  <2>7. PICK R : R = [i \in 1 .. Len(h) |-> {[m EXCEPT !["col_"] = [h EXCEPT ![i] = y]] :
          y \in route_value_col_Access(h[i])}]
    OBVIOUS
  <2>8. \A i \in 1 .. Len(h) : R[i] \subseteq RouteMessages
    BY <2>5, <2>7
  <2>9. UNION {R[i] : i \in 1 .. Len(h)} \subseteq RouteMessages
    BY <2>8
  <2>10. UNION {{[m EXCEPT !["col_"] = [h EXCEPT ![i] = y]] :
          y \in route_value_col_Access(h[i])} :
                   i \in 1 .. Len(h)}
           = UNION {R[i] : i \in 1 .. Len(h)}
    BY <2>7
  <2>11. QED
    BY <2>3, <2>4, <2>6, <2>9, <2>10
<1>5. QED
  BY <1>2, <1>3, <1>4 DEF route_value_Access

-----------------------------------------------------------------------------
(* Where an input can break off *)

\* A token of which only the tag is there.
LEMMA CutToken ==
  ASSUME NEW strings, NEW messages, NEW bodies, NEW t \in Tokens(strings, messages, bodies)
  PROVE  [t EXCEPT !.cut = TRUE] \in Tokens(strings, messages, bodies)
BY DEF Tokens

\* A nested message of which only a part is there.
LEMMA CutBody ==
  ASSUME NEW strings, NEW messages, NEW B, NEW t \in Tokens(strings, messages, Seq(B)),
         t.body # <<>>, NEW b \in Seq(B)
  PROVE  [t EXCEPT !.body = b] \in Tokens(strings, messages, Seq(B))
BY DEF Tokens

\* Tokens that stay tokens when the input ends inside them.
Breakable(W) ==
  \A t \in W :
    /\ "body" \in DOMAIN t /\ [t EXCEPT !.cut = TRUE] \in W
    /\ t.body # <<>> =>
         [t EXCEPT !.body = [SubSeq(t.body, 1, 1) EXCEPT ![1].cut = TRUE]] \in W

\* Tokens without bodies.
LEMMA PlainBreakable ==
  \A strings, messages : Breakable(Tokens(strings, messages, {<<>>}))
<1>1. \A strings, messages : \A t \in Tokens(strings, messages, {<<>>}) :
        t.body = <<>> /\ "body" \in DOMAIN t
  BY DEF Tokens
<1>2. QED
  BY <1>1, CutToken DEF Breakable

\* Tokens with bodies.
LEMMA NestedBreakable ==
  ASSUME NEW strings, NEW messages, NEW B, \A u \in B : [u EXCEPT !.cut = TRUE] \in B
  PROVE  Breakable(Tokens(strings, messages, Seq(B)))
<1>1. ASSUME NEW t \in Tokens(strings, messages, Seq(B)), t.body # <<>>
      PROVE  [t EXCEPT !.body = [SubSeq(t.body, 1, 1) EXCEPT ![1].cut = TRUE]]
               \in Tokens(strings, messages, Seq(B))
  <2>1. PICK b : b = t.body /\ b \in Seq(B) /\ b # <<>>
    BY <1>1, TokenParts
  <2>2. PICK n \in Nat : n = Len(b)
    BY <2>1, LenProperties
  <2>3. n # 0
    BY <2>1, <2>2, EmptySeq
  <2>4. b[1] \in B
    BY <2>1, <2>2, <2>3, ElementOfSeq
  <2>5. PICK s : s = SubSeq(b, 1, 1)
    OBVIOUS
  <2>6. s \in Seq(B) /\ Len(s) = 1 /\ s[1] = b[1]
    <3>1. PICK k, l : k = 1 /\ l = 1
      OBVIOUS
    <3>2. b \in Seq(B) /\ k \in Nat \ {0} /\ l \in Int /\ l <= Len(b)
      BY <2>1, <2>2, <2>3, <3>1
    <3>3. /\ SubSeq(b, k, l) \in Seq(B)
          /\ Len(SubSeq(b, k, l)) = IF k <= l THEN l - k + 1 ELSE 0
          /\ \A j \in 1 .. l - k + 1 : SubSeq(b, k, l)[j] = b[k + j - 1]
      BY <3>2, Part
    <3>4. s \in Seq(B)
      BY <2>5, <3>1, <3>3
    <3>5. Len(s) = 1
      BY <2>5, <3>1, <3>3
    <3>6. s[1] = b[1]
      BY <2>5, <3>1, <3>3
    <3>7. QED
      BY <3>4, <3>5, <3>6
  <2>7. [s EXCEPT ![1].cut = TRUE] \in Seq(B)
    <3>1. [s[1] EXCEPT !.cut = TRUE] \in B
      BY <2>4, <2>6
    <3>2. [s EXCEPT ![1].cut = TRUE] = [s EXCEPT ![1] = [s[1] EXCEPT !.cut = TRUE]]
      OBVIOUS
    <3>3. 1 \in 1 .. Len(s)
      BY <2>6
    <3>4. QED
      BY <2>6, <3>1, <3>2, <3>3, ExceptSeq
  <2>8. QED
    BY <1>1, <2>1, <2>5, <2>7, CutBody
<1>2. \A t \in Tokens(strings, messages, Seq(B)) : "body" \in DOMAIN t
  BY DEF Tokens
<1>3. QED
  BY <1>1, <1>2, CutToken DEF Breakable

\* An input that breaks off is an input.
LEMMA BrokenIn ==
  ASSUME NEW W, Breakable(W), NEW w \in Seq(W)
  PROVE  Broken(w) \subseteq Seq(W)
<1>1. PICK k \in Nat : k = Len(w)
  BY LenProperties
<1>2. ASSUME NEW n \in 0 .. k
      PROVE  /\ SubSeq(w, 1, n) \in Seq(W) /\ Len(SubSeq(w, 1, n)) = n
             /\ n # 0 => SubSeq(w, 1, n)[n] = w[n] /\ w[n] \in W
  <2>1. PICK one \in Nat \ {0} : one = 1
    OBVIOUS
  <2>2. n \in Int /\ n <= Len(w)
    BY <1>1
  <2>3. /\ SubSeq(w, one, n) \in Seq(W)
        /\ Len(SubSeq(w, one, n)) = IF one <= n THEN n - one + 1 ELSE 0
        /\ \A j \in 1 .. n - one + 1 : SubSeq(w, one, n)[j] = w[one + j - 1]
    BY <2>2, Part
  <2>4. n # 0 => w[n] \in W
    BY <1>1, ElementOfSeq
  <2>5. QED
    BY <2>1, <2>3, <2>4
<1>3. ASSUME NEW n \in 1 .. k PROVE [SubSeq(w, 1, n) EXCEPT ![n].cut = TRUE] \in Seq(W)
  <2>1. PICK s : s = SubSeq(w, 1, n) /\ s \in Seq(W) /\ Len(s) = n /\ s[n] \in W
    <3>1. n \in 0 .. k /\ n # 0
      OBVIOUS
    <3>2. QED
      BY <1>2, <3>1
  <2>2. PICK u : u = [s[n] EXCEPT !.cut = TRUE] /\ u \in W
    BY <2>1 DEF Breakable
  <2>3. n \in 1 .. Len(s)
    BY <2>1
  <2>4. [s EXCEPT ![n] = u] \in Seq(W)
    BY <2>1, <2>2, <2>3, ExceptSeq
  <2>5. QED
    BY <2>1, <2>2, <2>4
<1>4. ASSUME NEW n \in 1 .. k, w[n].body # <<>>
      PROVE  [SubSeq(w, 1, n) EXCEPT ![n].body = SubSeq(w[n].body, 1, 1),
                                     ![n].body[1].cut = TRUE] \in Seq(W)
  <2>1. PICK s : /\ s = SubSeq(w, 1, n) /\ s \in Seq(W) /\ Len(s) = n
                 /\ s[n] = w[n] /\ s[n] \in W
    <3>1. n \in 0 .. k /\ n # 0
      OBVIOUS
    <3>2. QED
      BY <1>2, <3>1
  <2>2. PICK b : b = SubSeq(w[n].body, 1, 1)
    OBVIOUS
  <2>3. PICK u : u = [s[n] EXCEPT !.body = [b EXCEPT ![1].cut = TRUE]] /\ u \in W
    BY <1>4, <2>1, <2>2 DEF Breakable
  <2>4. n \in 1 .. Len(s)
    BY <2>1
  <2>5. [s EXCEPT ![n] = u] \in Seq(W)
    BY <2>1, <2>3, <2>4, ExceptSeq
  <2>6. [s EXCEPT ![n].body = b, ![n].body[1].cut = TRUE] = [s EXCEPT ![n] = u]
    <3>1. PICK t : t = [s EXCEPT ![n].body = b]
      OBVIOUS
    <3>2. n \in DOMAIN s /\ "body" \in DOMAIN s[n]
      <4>1. DOMAIN s = 1 .. Len(s)
        BY <2>1
      <4>2. \A x \in W : "body" \in DOMAIN x
        BY DEF Breakable
      <4>3. n \in DOMAIN s
        BY <2>1, <2>4, <4>1
      <4>4. QED
        BY <2>1, <4>2, <4>3
    <3>3. QED
      BY <2>3, <3>1, <3>2
  <2>7. QED
    BY <2>1, <2>2, <2>5, <2>6
<1>5. QED
  BY <1>1, <1>2, <1>3, <1>4 DEF Broken

-----------------------------------------------------------------------------
(* What the classes have in common *)

\* Every function leaves a message of its class.
Kept(K, m, n) ==
  /\ New(m) \in K /\ Clear(m) \in K /\ MergeFrom(m, n) \in K /\ Copy(m) \in K
  /\ ByteSizeLong(m) \in K /\ Access(m) \subseteq K /\ Sound(m)
  /\ m.size \in Nat /\ \A s \in Nat : [m EXCEPT !["size"] = s] \in K

\* What the results show.
Showing(m, n) ==
  /\ View(Clear(m)) = View(New(m)) /\ View(Copy(m)) = View(m)
  /\ View(MergeFrom(Clear(m), n)) = View(n)
  /\ View(ByteSizeLong(m)) = View(m)
  /\ IsInitialized(ByteSizeLong(m)) <=> IsInitialized(m)

\* What is written.
Writing(m, n) ==
  /\ Parse(m, Wire(m)).ok /\ Same(Parse(m, Wire(m)).msg, m)
  /\ Same(Parse(m, Wire(m) \o Wire(n)).msg, MergeFrom(m, n))
  /\ LengthsTrue(Wire(m)) /\ ByteSizeLong(m).size = TotalBytes(Wire(m))
  /\ IsInitialized(m) <=> Whole(m, Wire(m))

\* The virtual functions of the class.
LEMMA ValueVirtual ==
  ASSUME NEW m \in ValueMessages
  PROVE  /\ New(m) = vct_value_New
         /\ Copy(m) = vct_value_Copy(m)
         /\ Clear(m) = vct_value_Clear(m)
         /\ Serialize(m) = vct_value_Serialize(m)
         /\ ByteSizeLong(m) = vct_value_ByteSizeLong(m)
         /\ View(m) = vct_value_View(m)
         /\ Access(m) = vct_value_Access(m)
         /\ IsInitialized(m) <=> vct_value_IsInitialized(m)
         /\ Sound(m) <=> SoundValue(m)
         /\ \A n : MergeFrom(m, n) = vct_value_MergeFrom(m, n)
         /\ \A w : MergePartial(m, w) = vct_value_MergePartial(m, w)
         /\ \A w : Whole(m, w) <=> WholeValue(w)
         /\ Foreign(m) = ValueForeign
<1>1. "key_" \in DOMAIN m
  BY ValueIs DEF IsValue, HasFields, ValueFields
<1>2. QED
  BY <1>1 DEF Virtual, New, Copy, Clear, Serialize, ByteSizeLong, View, Access, IsInitialized,
      Sound,
       MergeFrom, MergePartial, Whole, Foreign

\* Inputs of the class may break off.
LEMMA ValueBreakable == Breakable(ValueTokens)
<1>1. \A u \in ValueNTokens : [u EXCEPT !.cut = TRUE] \in ValueNTokens
  BY CutToken DEF ValueNTokens
<1>2. QED
  BY <1>1, NestedBreakable DEF ValueTokens

\* Every function stays in the class.
LEMMA ValueKept ==
  ASSUME NEW m \in ValueMessages, NEW n \in ValueMessages
  PROVE  Kept(ValueMessages, m, n)
<1>1. New(m) \in ValueMessages
  BY ValueNew, ValueVirtual
<1>2. Clear(m) \in ValueMessages
  BY ValueClear, ValueVirtual
<1>3. MergeFrom(m, n) \in ValueMessages
  BY ValueMerge, ValueVirtual
<1>4. Copy(m) \in ValueMessages
  BY ValueCopy, ValueVirtual
<1>5. ByteSizeLong(m) \in ValueMessages
  BY ValueByteSizeLong, ValueVirtual
<1>6. Access(m) \subseteq ValueMessages
  BY ValueAccess, ValueVirtual
<1>7. m.size \in Nat
  BY ValueIs DEF IsValue
<1>8. \A s \in Nat : [m EXCEPT !["size"] = s] \in ValueMessages
  BY ValuePut
<1>9. Sound(m)
  BY ValueVirtual DEF ValueMessages
<1>10. QED
  BY <1>1, <1>2, <1>3, <1>4, <1>5, <1>6, <1>7, <1>8, <1>9 DEF Kept

\* What copies and cleared messages show.
LEMMA ValueShowing ==
  ASSUME NEW m \in ValueMessages, NEW n \in ValueMessages
  PROVE  Showing(m, n)
<1>1. vct_value_New \in ValueMessages /\ New(m) = vct_value_New /\ New(n) = vct_value_New
  BY ValueNew, ValueVirtual
<1>2. View(Clear(m)) = View(New(m))
  BY <1>1, ValueClear, ValueVirtual
<1>3. View(Copy(m)) = View(m)
  BY ValueCopy, ValueVirtual
<1>4. View(ByteSizeLong(m)) = View(m) /\ (IsInitialized(ByteSizeLong(m)) <=> IsInitialized(m))
  <2>1. PICK p : /\ p = vct_value_ByteSizeLong(m) /\ p \in ValueMessages
                 /\ vct_value_View(p) = vct_value_View(m)
    BY ValueByteSizeLong
  <2>2. vct_value_IsInitialized(p) <=> vct_value_IsInitialized(m)
    BY <2>1, ValueInitSame
  <2>3. QED
    BY <2>1, <2>2, ValueVirtual
<1>5. View(MergeFrom(Clear(m), n)) = View(n)
  <2>1. PICK q : q = vct_value_Clear(m) /\ q \in ValueMessages /\
          vct_value_View(q) = vct_value_View(vct_value_New)
    BY ValueClear
  <2>2. vct_value_View(vct_value_MergeFrom(q, n)) =
          vct_value_View(vct_value_MergeFrom(vct_value_New, n))
    BY <1>1, <2>1, ValueMergeSame
  <2>3. vct_value_MergeFrom(q, n) \in ValueMessages
    BY <2>1, ValueMerge
  <2>4. Clear(m) = q /\ MergeFrom(q, n) = vct_value_MergeFrom(q, n)
    BY <2>1, ValueVirtual
  <2>5. QED
    BY <2>2, <2>3, <2>4, ValueMergeNew, ValueVirtual
<1>6. QED
  BY <1>2, <1>3, <1>4, <1>5 DEF Showing

\* Whatever is read, a message of the class is left.
LEMMA ValueInput ==
  ASSUME NEW m \in ValueMessages, NEW n \in ValueMessages, NEW w \in Foreign(n) \cup
           Broken(Wire(n))
  PROVE  MergePartial(m, w).msg \in ValueMessages
<1>1. PICK p : p = ByteSizeLong(n) /\ p \in ValueMessages
  BY ValueByteSizeLong, ValueVirtual
<1>2. Wire(n) \in Seq(ValueTokens)
  BY <1>1, ValueSerialize, ValueVirtual DEF Wire
<1>3. Broken(Wire(n)) \subseteq Seq(ValueTokens)
  BY <1>2, ValueBreakable, BrokenIn
<1>4. Foreign(n) \subseteq Seq(ValueTokens)
  BY ObjectsAssumption, ValueVirtual
<1>5. vct_value_MergePartial(m, w) \in Results(ValueMessages)
  BY <1>3, <1>4, ValueParse
<1>6. QED
  BY <1>5, ValueVirtual DEF Results

\* What is written, measured, and read again.
LEMMA ValueWriting ==
  ASSUME NEW m \in ValueMessages, NEW n \in ValueMessages
  PROVE  Writing(m, n)
<1>1. PICK a, v : /\ a = ByteSizeLong(m) /\ a \in ValueMessages /\
                       vct_value_View(a) = vct_value_View(m)
                  /\ ValueSized(a) /\ v = vct_value_Serialize(a) /\ v = Wire(m)
                  /\ v \in Seq(ValueTokens)
  BY ValueByteSizeLong, ValueSerialize, ValueVirtual DEF Wire
<1>2. PICK b, w : /\ b = ByteSizeLong(n) /\ b \in ValueMessages /\
                       vct_value_View(b) = vct_value_View(n)
                  /\ w = vct_value_Serialize(b) /\ w = Wire(n) /\ w \in Seq(ValueTokens)
  BY ValueByteSizeLong, ValueSerialize, ValueVirtual DEF Wire
<1>3. PICK e : e = vct_value_New /\ e \in ValueMessages /\ New(m) = e
  BY ValueNew, ValueVirtual
<1>4. PICK r : r = vct_value_MergePartial(e, v)
  OBVIOUS
<1>5. r.ok /\ r.msg \in ValueMessages /\ vct_value_View(r.msg) = vct_value_View(m)
  <2>1. /\ r.ok /\ r.msg \in ValueMessages
        /\ vct_value_View(r.msg) = vct_value_View(vct_value_MergeFrom(e, a))
    BY <1>1, <1>3, <1>4, ValueReadBack
  <2>2. vct_value_View(vct_value_MergeFrom(e, a)) = vct_value_View(a)
    BY <1>1, <1>3, ValueMergeNew
  <2>3. QED
    BY <1>1, <2>1, <2>2
<1>6. Parse(m, Wire(m)) = r /\ Parse(m, Wire(m)).ok /\ Same(Parse(m, Wire(m)).msg, m)
  <2>1. Parse(m, Wire(m)) = r
    BY <1>1, <1>3, <1>4, ValueVirtual DEF Parse
  <2>2. View(r.msg) = View(m)
    BY <1>5, ValueVirtual
  <2>3. QED
    BY <1>5, <2>1, <2>2 DEF Same
<1>7. Same(Parse(m, Wire(m) \o Wire(n)).msg, MergeFrom(m, n))
  <2>1. PICK q : q = vct_value_MergePartial(r.msg, w)
    OBVIOUS
  <2>2. /\ q.msg \in ValueMessages
        /\ vct_value_View(q.msg) = vct_value_View(vct_value_MergeFrom(r.msg, b))
    BY <1>2, <1>5, <2>1, ValueReadBack
  <2>3. vct_value_View(vct_value_MergeFrom(r.msg, b)) =
          vct_value_View(vct_value_MergeFrom(m, n))
    BY <1>2, <1>5, ValueMergeSame
  <2>4. PICK u : u = v \o w /\ u \in Seq(ValueTokens)
    BY <1>1, <1>2, ConcatProperties
  <2>5. vct_value_MergePartial(e, u) = q
    <3>1. /\ r = ParseOf(ValueMessages, ValueReads, e, v)
          /\ q = ParseOf(ValueMessages, ValueReads, r.msg, w)
          /\ vct_value_MergePartial(e, u) = ParseOf(ValueMessages, ValueReads, e, u)
          /\ Parser(ValueMessages, ValueTokens, ValueReads)
      BY <1>1, <1>2, <1>3, <1>4, <1>5, <2>1, <2>4, ValueParse
    <3>2. ParseOf(ValueMessages, ValueReads, e, v \o w) =
            IF r.ok THEN ParseOf(ValueMessages, ValueReads, r.msg, w) ELSE r
      BY <1>1, <1>2, <1>3, <3>1, ParseParts
    <3>3. QED
      BY <1>5, <2>4, <3>1, <3>2
  <2>6. Parse(m, Wire(m) \o Wire(n)) = q
    BY <1>1, <1>2, <1>3, <2>4, <2>5, ValueVirtual DEF Parse
  <2>7. vct_value_MergeFrom(m, n) \in ValueMessages
    BY ValueMerge
  <2>8. View(q.msg) = View(MergeFrom(m, n))
    BY <2>2, <2>3, <2>7, ValueVirtual
  <2>9. QED
    BY <2>6, <2>8 DEF Same
<1>8. LengthsTrue(Wire(m)) /\ ByteSizeLong(m).size = TotalBytes(Wire(m))
  BY <1>1, ValueLengths, LengthsAre DEF ValueSized
<1>9. IsInitialized(m) <=> Whole(m, Wire(m))
  <2>1. vct_value_IsInitialized(a) <=> WholeValue(v)
    BY <1>1, ValueWhole
  <2>2. vct_value_IsInitialized(a) <=> vct_value_IsInitialized(m)
    BY <1>1, ValueInitSame
  <2>3. QED
    BY <1>1, <2>1, <2>2, ValueVirtual
<1>10. QED
  BY <1>6, <1>7, <1>8, <1>9 DEF Writing

\* The virtual functions of the class.
LEMMA KeytableVirtual ==
  ASSUME NEW m \in KeytableMessages
  PROVE  /\ New(m) = keytable_value_New
         /\ Copy(m) = keytable_value_Copy(m)
         /\ Clear(m) = keytable_value_Clear(m)
         /\ Serialize(m) = keytable_value_Serialize(m)
         /\ ByteSizeLong(m) = keytable_value_ByteSizeLong(m)
         /\ View(m) = keytable_value_View(m)
         /\ Access(m) = keytable_value_Access(m)
         /\ IsInitialized(m) <=> keytable_value_IsInitialized(m)
         /\ Sound(m) <=> SoundKeytable(m)
         /\ \A n : MergeFrom(m, n) = keytable_value_MergeFrom(m, n)
         /\ \A w : MergePartial(m, w) = keytable_value_MergePartial(m, w)
         /\ \A w : Whole(m, w) <=> WholeKeytable(w)
         /\ Foreign(m) = KeytableForeign
<1>1. "key_" \notin DOMAIN m /\ "field_" \in DOMAIN m
  BY KeytableIs DEF IsKeytable, HasFields, KeytableFields
<1>2. QED
  BY <1>1 DEF Virtual, New, Copy, Clear, Serialize, ByteSizeLong, View, Access, IsInitialized,
      Sound,
       MergeFrom, MergePartial, Whole, Foreign

\* Inputs of the class may break off.
LEMMA KeytableBreakable == Breakable(KeytableTokens)
BY PlainBreakable DEF KeytableTokens

\* Every function stays in the class.
LEMMA KeytableKept ==
  ASSUME NEW m \in KeytableMessages, NEW n \in KeytableMessages
  PROVE  Kept(KeytableMessages, m, n)
<1>1. New(m) \in KeytableMessages
  BY KeytableNew, KeytableVirtual
<1>2. Clear(m) \in KeytableMessages
  BY KeytableClear, KeytableVirtual
<1>3. MergeFrom(m, n) \in KeytableMessages
  BY KeytableMerge, KeytableVirtual
<1>4. Copy(m) \in KeytableMessages
  BY KeytableCopy, KeytableVirtual
<1>5. ByteSizeLong(m) \in KeytableMessages
  BY KeytableByteSizeLong, KeytableVirtual
<1>6. Access(m) \subseteq KeytableMessages
  BY KeytableAccess, KeytableVirtual
<1>7. m.size \in Nat
  BY KeytableIs DEF IsKeytable
<1>8. \A s \in Nat : [m EXCEPT !["size"] = s] \in KeytableMessages
  BY KeytablePut
<1>9. Sound(m)
  BY KeytableVirtual DEF KeytableMessages
<1>10. QED
  BY <1>1, <1>2, <1>3, <1>4, <1>5, <1>6, <1>7, <1>8, <1>9 DEF Kept

\* What copies and cleared messages show.
LEMMA KeytableShowing ==
  ASSUME NEW m \in KeytableMessages, NEW n \in KeytableMessages
  PROVE  Showing(m, n)
<1>1. keytable_value_New \in KeytableMessages /\ New(m) = keytable_value_New /\
        New(n) = keytable_value_New
  BY KeytableNew, KeytableVirtual
<1>2. View(Clear(m)) = View(New(m))
  BY <1>1, KeytableClear, KeytableVirtual
<1>3. View(Copy(m)) = View(m)
  BY KeytableCopy, KeytableVirtual
<1>4. View(ByteSizeLong(m)) = View(m) /\ (IsInitialized(ByteSizeLong(m)) <=> IsInitialized(m))
  <2>1. PICK p : /\ p = keytable_value_ByteSizeLong(m) /\ p \in KeytableMessages
                 /\ keytable_value_View(p) = keytable_value_View(m)
    BY KeytableByteSizeLong
  <2>2. keytable_value_IsInitialized(p) <=> keytable_value_IsInitialized(m)
    BY <2>1, KeytableInitSame
  <2>3. QED
    BY <2>1, <2>2, KeytableVirtual
<1>5. View(MergeFrom(Clear(m), n)) = View(n)
  <2>1. PICK q : q = keytable_value_Clear(m) /\ q \in KeytableMessages /\
          keytable_value_View(q) = keytable_value_View(keytable_value_New)
    BY KeytableClear
  <2>2. keytable_value_View(keytable_value_MergeFrom(q, n)) =
          keytable_value_View(keytable_value_MergeFrom(keytable_value_New, n))
    BY <1>1, <2>1, KeytableMergeSame
  <2>3. keytable_value_MergeFrom(q, n) \in KeytableMessages
    BY <2>1, KeytableMerge
  <2>4. Clear(m) = q /\ MergeFrom(q, n) = keytable_value_MergeFrom(q, n)
    BY <2>1, KeytableVirtual
  <2>5. QED
    BY <2>2, <2>3, <2>4, KeytableMergeNew, KeytableVirtual
<1>6. QED
  BY <1>2, <1>3, <1>4, <1>5 DEF Showing

\* Whatever is read, a message of the class is left.
LEMMA KeytableInput ==
  ASSUME NEW m \in KeytableMessages, NEW n \in KeytableMessages, NEW w \in Foreign(n) \cup
           Broken(Wire(n))
  PROVE  MergePartial(m, w).msg \in KeytableMessages
<1>1. PICK p : p = ByteSizeLong(n) /\ p \in KeytableMessages
  BY KeytableByteSizeLong, KeytableVirtual
<1>2. Wire(n) \in Seq(KeytableTokens)
  BY <1>1, KeytableSerialize, KeytableVirtual DEF Wire
<1>3. Broken(Wire(n)) \subseteq Seq(KeytableTokens)
  BY <1>2, KeytableBreakable, BrokenIn
<1>4. Foreign(n) \subseteq Seq(KeytableTokens)
  BY ObjectsAssumption, KeytableVirtual
<1>5. keytable_value_MergePartial(m, w) \in Results(KeytableMessages)
  BY <1>3, <1>4, KeytableParse
<1>6. QED
  BY <1>5, KeytableVirtual DEF Results

\* What is written, measured, and read again.
LEMMA KeytableWriting ==
  ASSUME NEW m \in KeytableMessages, NEW n \in KeytableMessages
  PROVE  Writing(m, n)
<1>1. PICK a, v : /\ a = ByteSizeLong(m) /\ a \in KeytableMessages /\
                       keytable_value_View(a) = keytable_value_View(m)
                  /\ KeytableSized(a) /\ v = keytable_value_Serialize(a) /\ v = Wire(m)
                  /\ v \in Seq(KeytableTokens)
  BY KeytableByteSizeLong, KeytableSerialize, KeytableVirtual DEF Wire
<1>2. PICK b, w : /\ b = ByteSizeLong(n) /\ b \in KeytableMessages /\
                       keytable_value_View(b) = keytable_value_View(n)
                  /\ w = keytable_value_Serialize(b) /\ w = Wire(n) /\ w \in Seq(KeytableTokens)
  BY KeytableByteSizeLong, KeytableSerialize, KeytableVirtual DEF Wire
<1>3. PICK e : e = keytable_value_New /\ e \in KeytableMessages /\ New(m) = e
  BY KeytableNew, KeytableVirtual
<1>4. PICK r : r = keytable_value_MergePartial(e, v)
  OBVIOUS
<1>5. r.ok /\ r.msg \in KeytableMessages /\ keytable_value_View(r.msg) = keytable_value_View(m)
  <2>1. /\ r.ok /\ r.msg \in KeytableMessages
        /\ keytable_value_View(r.msg) = keytable_value_View(keytable_value_MergeFrom(e, a))
    BY <1>1, <1>3, <1>4, KeytableReadBack
  <2>2. keytable_value_View(keytable_value_MergeFrom(e, a)) = keytable_value_View(a)
    BY <1>1, <1>3, KeytableMergeNew
  <2>3. QED
    BY <1>1, <2>1, <2>2
<1>6. Parse(m, Wire(m)) = r /\ Parse(m, Wire(m)).ok /\ Same(Parse(m, Wire(m)).msg, m)
  <2>1. Parse(m, Wire(m)) = r
    BY <1>1, <1>3, <1>4, KeytableVirtual DEF Parse
  <2>2. View(r.msg) = View(m)
    BY <1>5, KeytableVirtual
  <2>3. QED
    BY <1>5, <2>1, <2>2 DEF Same
<1>7. Same(Parse(m, Wire(m) \o Wire(n)).msg, MergeFrom(m, n))
  <2>1. PICK q : q = keytable_value_MergePartial(r.msg, w)
    OBVIOUS
  <2>2. /\ q.msg \in KeytableMessages
        /\ keytable_value_View(q.msg) = keytable_value_View(keytable_value_MergeFrom(r.msg, b))
    BY <1>2, <1>5, <2>1, KeytableReadBack
  <2>3. keytable_value_View(keytable_value_MergeFrom(r.msg, b)) =
          keytable_value_View(keytable_value_MergeFrom(m, n))
    BY <1>2, <1>5, KeytableMergeSame
  <2>4. PICK u : u = v \o w /\ u \in Seq(KeytableTokens)
    BY <1>1, <1>2, ConcatProperties
  <2>5. keytable_value_MergePartial(e, u) = q
    <3>1. /\ r = ParseOf(KeytableMessages, KeytableReads, e, v)
          /\ q = ParseOf(KeytableMessages, KeytableReads, r.msg, w)
          /\ keytable_value_MergePartial(e, u) = ParseOf(KeytableMessages, KeytableReads, e, u)
          /\ Parser(KeytableMessages, KeytableTokens, KeytableReads)
      BY <1>1, <1>2, <1>3, <1>4, <1>5, <2>1, <2>4, KeytableParse
    <3>2. ParseOf(KeytableMessages, KeytableReads, e, v \o w) =
            IF r.ok THEN ParseOf(KeytableMessages, KeytableReads, r.msg, w) ELSE r
      BY <1>1, <1>2, <1>3, <3>1, ParseParts
    <3>3. QED
      BY <1>5, <2>4, <3>1, <3>2
  <2>6. Parse(m, Wire(m) \o Wire(n)) = q
    BY <1>1, <1>2, <1>3, <2>4, <2>5, KeytableVirtual DEF Parse
  <2>7. keytable_value_MergeFrom(m, n) \in KeytableMessages
    BY KeytableMerge
  <2>8. View(q.msg) = View(MergeFrom(m, n))
    BY <2>2, <2>3, <2>7, KeytableVirtual
  <2>9. QED
    BY <2>6, <2>8 DEF Same
<1>8. LengthsTrue(Wire(m)) /\ ByteSizeLong(m).size = TotalBytes(Wire(m))
  BY <1>1, KeytableLengths, LengthsAre DEF KeytableSized
<1>9. IsInitialized(m) <=> Whole(m, Wire(m))
  <2>1. keytable_value_IsInitialized(a) <=> WholeKeytable(v)
    BY <1>1, KeytableWhole
  <2>2. keytable_value_IsInitialized(a) <=> keytable_value_IsInitialized(m)
    BY <1>1, KeytableInitSame
  <2>3. QED
    BY <1>1, <2>1, <2>2, KeytableVirtual
<1>10. QED
  BY <1>6, <1>7, <1>8, <1>9 DEF Writing

\* The virtual functions of the class.
LEMMA RouteVirtual ==
  ASSUME NEW m \in RouteMessages
  PROVE  /\ New(m) = route_value_New
         /\ Copy(m) = route_value_Copy(m)
         /\ Clear(m) = route_value_Clear(m)
         /\ Serialize(m) = route_value_Serialize(m)
         /\ ByteSizeLong(m) = route_value_ByteSizeLong(m)
         /\ View(m) = route_value_View(m)
         /\ Access(m) = route_value_Access(m)
         /\ IsInitialized(m) <=> route_value_IsInitialized(m)
         /\ Sound(m) <=> SoundRoute(m)
         /\ \A n : MergeFrom(m, n) = route_value_MergeFrom(m, n)
         /\ \A w : MergePartial(m, w) = route_value_MergePartial(m, w)
         /\ \A w : Whole(m, w) <=> WholeRoute(w)
         /\ Foreign(m) = RouteForeign
<1>1. "key_" \notin DOMAIN m /\ "field_" \notin DOMAIN m
  BY RouteIs DEF IsRoute, HasFields, RouteFields
<1>2. QED
  BY <1>1 DEF Virtual, New, Copy, Clear, Serialize, ByteSizeLong, View, Access, IsInitialized,
      Sound,
       MergeFrom, MergePartial, Whole, Foreign

\* Inputs of the class may break off.
LEMMA RouteBreakable == Breakable(RouteTokens)
<1>1. \A u \in ColTokens : [u EXCEPT !.cut = TRUE] \in ColTokens
  BY CutToken DEF ColTokens
<1>2. QED
  BY <1>1, NestedBreakable DEF RouteTokens

\* Every function stays in the class.
LEMMA RouteKept ==
  ASSUME NEW m \in RouteMessages, NEW n \in RouteMessages
  PROVE  Kept(RouteMessages, m, n)
<1>1. New(m) \in RouteMessages
  BY RouteNew, RouteVirtual
<1>2. Clear(m) \in RouteMessages
  BY RouteClear, RouteVirtual
<1>3. MergeFrom(m, n) \in RouteMessages
  BY RouteMerge, RouteVirtual
<1>4. Copy(m) \in RouteMessages
  BY RouteCopy, RouteVirtual
<1>5. ByteSizeLong(m) \in RouteMessages
  BY RouteByteSizeLong, RouteVirtual
<1>6. Access(m) \subseteq RouteMessages
  BY RouteAccess, RouteVirtual
<1>7. m.size \in Nat
  BY RouteIs DEF IsRoute
<1>8. \A s \in Nat : [m EXCEPT !["size"] = s] \in RouteMessages
  BY RoutePut
<1>9. Sound(m)
  BY RouteVirtual DEF RouteMessages
<1>10. QED
  BY <1>1, <1>2, <1>3, <1>4, <1>5, <1>6, <1>7, <1>8, <1>9 DEF Kept

\* What copies and cleared messages show.
LEMMA RouteShowing ==
  ASSUME NEW m \in RouteMessages, NEW n \in RouteMessages
  PROVE  Showing(m, n)
<1>1. route_value_New \in RouteMessages /\ New(m) = route_value_New /\ New(n) = route_value_New
  BY RouteNew, RouteVirtual
<1>2. View(Clear(m)) = View(New(m))
  BY <1>1, RouteClear, RouteVirtual
<1>3. View(Copy(m)) = View(m)
  BY RouteCopy, RouteVirtual
<1>4. View(ByteSizeLong(m)) = View(m) /\ (IsInitialized(ByteSizeLong(m)) <=> IsInitialized(m))
  <2>1. PICK p : /\ p = route_value_ByteSizeLong(m) /\ p \in RouteMessages
                 /\ route_value_View(p) = route_value_View(m)
    BY RouteByteSizeLong
  <2>2. route_value_IsInitialized(p) <=> route_value_IsInitialized(m)
    BY <2>1, RouteInitSame
  <2>3. QED
    BY <2>1, <2>2, RouteVirtual
<1>5. View(MergeFrom(Clear(m), n)) = View(n)
  <2>1. PICK q : q = route_value_Clear(m) /\ q \in RouteMessages /\
          route_value_View(q) = route_value_View(route_value_New)
    BY RouteClear
  <2>2. route_value_View(route_value_MergeFrom(q, n)) =
          route_value_View(route_value_MergeFrom(route_value_New, n))
    BY <1>1, <2>1, RouteMergeSame
  <2>3. route_value_MergeFrom(q, n) \in RouteMessages
    BY <2>1, RouteMerge
  <2>4. Clear(m) = q /\ MergeFrom(q, n) = route_value_MergeFrom(q, n)
    BY <2>1, RouteVirtual
  <2>5. QED
    BY <2>2, <2>3, <2>4, RouteMergeNew, RouteVirtual
<1>6. QED
  BY <1>2, <1>3, <1>4, <1>5 DEF Showing

\* Whatever is read, a message of the class is left.
LEMMA RouteInput ==
  ASSUME NEW m \in RouteMessages, NEW n \in RouteMessages, NEW w \in Foreign(n) \cup
           Broken(Wire(n))
  PROVE  MergePartial(m, w).msg \in RouteMessages
<1>1. PICK p : p = ByteSizeLong(n) /\ p \in RouteMessages
  BY RouteByteSizeLong, RouteVirtual
<1>2. Wire(n) \in Seq(RouteTokens)
  BY <1>1, RouteSerialize, RouteVirtual DEF Wire
<1>3. Broken(Wire(n)) \subseteq Seq(RouteTokens)
  BY <1>2, RouteBreakable, BrokenIn
<1>4. Foreign(n) \subseteq Seq(RouteTokens)
  BY ObjectsAssumption, RouteVirtual
<1>5. route_value_MergePartial(m, w) \in Results(RouteMessages)
  BY <1>3, <1>4, RouteParse
<1>6. QED
  BY <1>5, RouteVirtual DEF Results

\* What is written, measured, and read again.
LEMMA RouteWriting ==
  ASSUME NEW m \in RouteMessages, NEW n \in RouteMessages
  PROVE  Writing(m, n)
<1>1. PICK a, v : /\ a = ByteSizeLong(m) /\ a \in RouteMessages /\
                       route_value_View(a) = route_value_View(m)
                  /\ RouteSized(a) /\ v = route_value_Serialize(a) /\ v = Wire(m)
                  /\ v \in Seq(RouteTokens)
  BY RouteByteSizeLong, RouteSerialize, RouteVirtual DEF Wire
<1>2. PICK b, w : /\ b = ByteSizeLong(n) /\ b \in RouteMessages /\
                       route_value_View(b) = route_value_View(n)
                  /\ w = route_value_Serialize(b) /\ w = Wire(n) /\ w \in Seq(RouteTokens)
  BY RouteByteSizeLong, RouteSerialize, RouteVirtual DEF Wire
<1>3. PICK e : e = route_value_New /\ e \in RouteMessages /\ New(m) = e
  BY RouteNew, RouteVirtual
<1>4. PICK r : r = route_value_MergePartial(e, v)
  OBVIOUS
<1>5. r.ok /\ r.msg \in RouteMessages /\ route_value_View(r.msg) = route_value_View(m)
  <2>1. /\ r.ok /\ r.msg \in RouteMessages
        /\ route_value_View(r.msg) = route_value_View(route_value_MergeFrom(e, a))
    BY <1>1, <1>3, <1>4, RouteReadBack
  <2>2. route_value_View(route_value_MergeFrom(e, a)) = route_value_View(a)
    BY <1>1, <1>3, RouteMergeNew
  <2>3. QED
    BY <1>1, <2>1, <2>2
<1>6. Parse(m, Wire(m)) = r /\ Parse(m, Wire(m)).ok /\ Same(Parse(m, Wire(m)).msg, m)
  <2>1. Parse(m, Wire(m)) = r
    BY <1>1, <1>3, <1>4, RouteVirtual DEF Parse
  <2>2. View(r.msg) = View(m)
    BY <1>5, RouteVirtual
  <2>3. QED
    BY <1>5, <2>1, <2>2 DEF Same
<1>7. Same(Parse(m, Wire(m) \o Wire(n)).msg, MergeFrom(m, n))
  <2>1. PICK q : q = route_value_MergePartial(r.msg, w)
    OBVIOUS
  <2>2. /\ q.msg \in RouteMessages
        /\ route_value_View(q.msg) = route_value_View(route_value_MergeFrom(r.msg, b))
    BY <1>2, <1>5, <2>1, RouteReadBack
  <2>3. route_value_View(route_value_MergeFrom(r.msg, b)) =
          route_value_View(route_value_MergeFrom(m, n))
    BY <1>2, <1>5, RouteMergeSame
  <2>4. PICK u : u = v \o w /\ u \in Seq(RouteTokens)
    BY <1>1, <1>2, ConcatProperties
  <2>5. route_value_MergePartial(e, u) = q
    <3>1. /\ r = ParseOf(RouteMessages, RouteReads, e, v)
          /\ q = ParseOf(RouteMessages, RouteReads, r.msg, w)
          /\ route_value_MergePartial(e, u) = ParseOf(RouteMessages, RouteReads, e, u)
          /\ Parser(RouteMessages, RouteTokens, RouteReads)
      BY <1>1, <1>2, <1>3, <1>4, <1>5, <2>1, <2>4, RouteParse
    <3>2. ParseOf(RouteMessages, RouteReads, e, v \o w) =
            IF r.ok THEN ParseOf(RouteMessages, RouteReads, r.msg, w) ELSE r
      BY <1>1, <1>2, <1>3, <3>1, ParseParts
    <3>3. QED
      BY <1>5, <2>4, <3>1, <3>2
  <2>6. Parse(m, Wire(m) \o Wire(n)) = q
    BY <1>1, <1>2, <1>3, <2>4, <2>5, RouteVirtual DEF Parse
  <2>7. route_value_MergeFrom(m, n) \in RouteMessages
    BY RouteMerge
  <2>8. View(q.msg) = View(MergeFrom(m, n))
    BY <2>2, <2>3, <2>7, RouteVirtual
  <2>9. QED
    BY <2>6, <2>8 DEF Same
<1>8. LengthsTrue(Wire(m)) /\ ByteSizeLong(m).size = TotalBytes(Wire(m))
  BY <1>1, RouteLengths, LengthsAre DEF RouteSized
<1>9. IsInitialized(m) <=> Whole(m, Wire(m))
  <2>1. route_value_IsInitialized(a) <=> WholeRoute(v)
    BY <1>1, RouteWhole
  <2>2. route_value_IsInitialized(a) <=> route_value_IsInitialized(m)
    BY <1>1, RouteInitSame
  <2>3. QED
    BY <1>1, <2>1, <2>2, RouteVirtual
<1>10. QED
  BY <1>6, <1>7, <1>8, <1>9 DEF Writing

-----------------------------------------------------------------------------
(* The three classes whose messages are not only a part of others *)

Classes == {ValueMessages, KeytableMessages, RouteMessages}

\* Every function of the three classes leaves a message of its class.
LEMMA ClassKept ==
  ASSUME NEW K \in Classes, NEW m \in K, NEW n \in K
  PROVE  Kept(K, m, n)
BY ValueKept, KeytableKept, RouteKept DEF Classes

\* What copies and cleared messages of them show.
LEMMA ClassShowing ==
  ASSUME NEW K \in Classes, NEW m \in K, NEW n \in K
  PROVE  Showing(m, n)
BY ValueShowing, KeytableShowing, RouteShowing DEF Classes

\* What they write.
LEMMA ClassWriting ==
  ASSUME NEW K \in Classes, NEW m \in K, NEW n \in K
  PROVE  Writing(m, n)
BY ValueWriting, KeytableWriting, RouteWriting DEF Classes

\* What is read into them.
LEMMA ClassInput ==
  ASSUME NEW K \in Classes, NEW m \in K, NEW n \in K,
         NEW w \in Foreign(n) \cup Broken(Wire(n))
  PROVE  MergePartial(m, w).msg \in K
BY ValueInput, KeytableInput, RouteInput DEF Classes

-----------------------------------------------------------------------------
(* The inductive invariant *)

\* The objects are messages of one class, as that class has them in memory,
\* and what a parse accepted is complete as long as the object is unchanged.
Holding(K) ==
  /\ obj \in [Objects -> K]
  /\ parsed \in [Objects -> {"none", "ok", "failed"}]
  /\ \A o \in Objects : parsed[o] = "ok" => IsInitialized(obj[o])

ObjectsInv == \E K \in Classes : Holding(K)

\* The program starts with default messages.
LEMMA ObjectsInit == Init => ObjectsInv
<1>1. SUFFICES ASSUME Init PROVE ObjectsInv
  OBVIOUS
<1>2. PICK m : m \in Defaults /\ obj = [o \in Objects |-> m]
  BY <1>1 DEF Init
<1>3. PICK K \in Classes : m \in K
  BY <1>2, ValueNew, KeytableNew, RouteNew DEF Defaults, Classes
<1>4. parsed = [o \in Objects |-> "none"]
  BY <1>1 DEF Init
<1>5. Holding(K)
  BY <1>2, <1>3, <1>4 DEF Holding
<1>6. QED
  BY <1>5 DEF ObjectsInv

\* A call that leaves a message of the class in one object.
LEMMA BecomesHolds ==
  ASSUME NEW K \in Classes, Holding(K), NEW o \in Objects, NEW m \in K, Becomes(o, m)
  PROVE  Holding(K)'
<1>1. /\ obj \in [Objects -> K] /\ parsed \in [Objects -> {"none", "ok", "failed"}]
      /\ \A p \in Objects : parsed[p] = "ok" => IsInitialized(obj[p])
  BY DEF Holding
<1>2. obj' = [obj EXCEPT ![o] = m] /\ parsed' = [parsed EXCEPT ![o] = "none"]
  BY DEF Becomes
<1>3. obj' \in [Objects -> K] /\ parsed' \in [Objects -> {"none", "ok", "failed"}]
  BY <1>1, <1>2
<1>4. \A p \in Objects : parsed'[p] = "ok" => IsInitialized(obj'[p])
  BY <1>1, <1>2
<1>5. QED
  BY <1>3, <1>4 DEF Holding, IsInitialized, Virtual

\* The same for two.
LEMMA ExchangeHolds ==
  ASSUME NEW K \in Classes, Holding(K), NEW o \in Objects, NEW p \in Objects,
         NEW m \in K, NEW n \in K,
         obj' = [obj EXCEPT ![o] = m, ![p] = n],
         parsed' = [parsed EXCEPT ![o] = "none", ![p] = "none"]
  PROVE  Holding(K)'
<1>1. /\ obj \in [Objects -> K] /\ parsed \in [Objects -> {"none", "ok", "failed"}]
      /\ \A q \in Objects : parsed[q] = "ok" => IsInitialized(obj[q])
  BY DEF Holding
<1>2. obj' \in [Objects -> K] /\ parsed' \in [Objects -> {"none", "ok", "failed"}]
  BY <1>1
<1>3. \A q \in Objects : parsed'[q] = "ok" => IsInitialized(obj'[q])
  BY <1>1
<1>4. QED
  BY <1>2, <1>3 DEF Holding, IsInitialized, Virtual

\* No call leaves the class, or forgets a parse but one that changes the object.
LEMMA ObjectsNext == ObjectsInv /\ [Next]_vars => ObjectsInv'
<1>1. SUFFICES ASSUME ObjectsInv, [Next]_vars PROVE ObjectsInv'
  OBVIOUS
<1>2. PICK K \in Classes : Holding(K)
  BY <1>1 DEF ObjectsInv
<1>3. \A o \in Objects : obj[o] \in K
  BY <1>2 DEF Holding
<1>4. SUFFICES Holding(K)'
  BY DEF ObjectsInv
<1>5. \A o, p \in Objects : Kept(K, obj[o], obj[p])
  BY <1>3, ClassKept
<1>6. ASSUME NEW o \in Objects, CallAccessor(o) PROVE Holding(K)'
  <2>1. PICK m \in Access(obj[o]) : Becomes(o, m)
    BY <1>6 DEF CallAccessor
  <2>2. m \in K
    BY <1>5, <2>1 DEF Kept
  <2>3. QED
    BY <1>2, <2>1, <2>2, BecomesHolds
<1>7. ASSUME NEW o \in Objects, CallClear(o) PROVE Holding(K)'
  <2>1. Clear(obj[o]) \in K /\ Becomes(o, Clear(obj[o]))
    BY <1>5, <1>7 DEF Kept, CallClear
  <2>2. QED
    BY <1>2, <2>1, BecomesHolds
<1>8. ASSUME NEW o \in Objects, CallByteSizeLong(o) PROVE Holding(K)'
  <2>1. PICK m : m = ByteSizeLong(obj[o]) /\ m \in K
    BY <1>5 DEF Kept
  <2>2. obj' = [obj EXCEPT ![o] = m] /\ parsed' = parsed
    BY <1>8, <2>1 DEF CallByteSizeLong
  <2>3. IsInitialized(m) <=> IsInitialized(obj[o])
    <3>1. Showing(obj[o], obj[o])
      BY <1>3, ClassShowing
    <3>2. QED
      BY <2>1, <3>1 DEF Showing
  <2>4. /\ obj \in [Objects -> K] /\ parsed \in [Objects -> {"none", "ok", "failed"}]
        /\ \A p \in Objects : parsed[p] = "ok" => IsInitialized(obj[p])
    BY <1>2 DEF Holding
  <2>5. obj' \in [Objects -> K] /\ parsed' \in [Objects -> {"none", "ok", "failed"}]
    BY <2>1, <2>2, <2>4
  <2>6. \A p \in Objects : parsed'[p] = "ok" => IsInitialized(obj'[p])
    BY <2>2, <2>3, <2>4
  <2>7. QED
    BY <2>5, <2>6 DEF Holding, IsInitialized, Virtual
<1>9. ASSUME NEW o \in Objects, CallParseAny(o) PROVE Holding(K)'
  <2>1. PICK w, m : /\ w \in Foreign(obj[o]) \cup
                         UNION {Broken(Wire(obj[p])) : p \in Objects \ {o}}
                    /\ m \in {obj[o], Clear(obj[o])} /\ CallParse(o, m, w)
    BY <1>9 DEF CallParseAny
  <2>2. m \in K
    BY <1>3, <1>5, <2>1 DEF Kept
  <2>3. PICK p \in Objects : w \in Foreign(obj[p]) \cup Broken(Wire(obj[p]))
    BY <2>1
  <2>4. PICK r : r = MergePartial(m, w) /\ r.msg \in K
    BY <1>3, <2>2, <2>3, ClassInput
  <2>5. /\ obj' = [obj EXCEPT ![o] = r.msg]
        /\ parsed' = [parsed EXCEPT ![o] = IF r.ok /\
             IsInitialized(r.msg) THEN "ok" ELSE "failed"]
    BY <2>1, <2>4 DEF CallParse
  <2>6. /\ obj \in [Objects -> K] /\ parsed \in [Objects -> {"none", "ok", "failed"}]
        /\ \A q \in Objects : parsed[q] = "ok" => IsInitialized(obj[q])
    BY <1>2 DEF Holding
  <2>7. obj' \in [Objects -> K] /\ parsed' \in [Objects -> {"none", "ok", "failed"}]
    BY <2>4, <2>5, <2>6
  <2>8. \A q \in Objects : parsed'[q] = "ok" => IsInitialized(obj'[q])
    BY <2>5, <2>6
  <2>9. QED
    BY <2>7, <2>8 DEF Holding, IsInitialized, Virtual
<1>10. ASSUME NEW o \in Objects, NEW p \in Objects, CallMergeFrom(o, p) PROVE Holding(K)'
  <2>1. MergeFrom(obj[o], obj[p]) \in K /\ Becomes(o, MergeFrom(obj[o], obj[p]))
    BY <1>5, <1>10 DEF Kept, CallMergeFrom
  <2>2. QED
    BY <1>2, <2>1, BecomesHolds
<1>11. ASSUME NEW o \in Objects, NEW p \in Objects, CallCopyFrom(o, p) PROVE Holding(K)'
  <2>1. Clear(obj[o]) \in K
    BY <1>5 DEF Kept
  <2>2. Copied(obj[o], obj[p]) \in K
    BY <1>3, <2>1, ClassKept DEF Kept, Copied
  <2>3. Becomes(o, Copied(obj[o], obj[p]))
    BY <1>11 DEF CallCopyFrom
  <2>4. QED
    BY <1>2, <2>2, <2>3, BecomesHolds
<1>12. ASSUME NEW o \in Objects, NEW p \in Objects, CallCopy(o, p) PROVE Holding(K)'
  <2>1. Copy(obj[p]) \in K /\ Becomes(o, Copy(obj[p]))
    BY <1>5, <1>12 DEF Kept, CallCopy
  <2>2. QED
    BY <1>2, <2>1, BecomesHolds
<1>13. ASSUME NEW o \in Objects, NEW p \in Objects, CallSwap(o, p) PROVE Holding(K)'
  <2>1. PICK m, n : /\ m = [obj[p] EXCEPT !["size"] = obj[o].size]
                    /\ n = [obj[o] EXCEPT !["size"] = obj[p].size]
    OBVIOUS
  <2>2. m \in K /\ n \in K
    BY <1>5, <2>1 DEF Kept
  <2>3. /\ obj' = [obj EXCEPT ![o] = m, ![p] = n]
        /\ parsed' = [parsed EXCEPT ![o] = "none", ![p] = "none"]
    BY <1>13, <2>1 DEF CallSwap
  <2>4. QED
    BY <1>2, <2>2, <2>3, ExchangeHolds
<1>14. ASSUME NEW o \in Objects, NEW p \in Objects, CallMove(o, p) PROVE Holding(K)'
  <2>1. PICK m, n : /\ m = [obj[p] EXCEPT !["size"] = 0]
                    /\ n = [New(obj[p]) EXCEPT !["size"] = obj[p].size]
    OBVIOUS
  <2>2. m \in K
    BY <1>5, <2>1 DEF Kept
  <2>3. n \in K
    <3>1. New(obj[p]) \in K /\ obj[p].size \in Nat
      BY <1>5 DEF Kept
    <3>2. Kept(K, New(obj[p]), New(obj[p]))
      BY <3>1, ClassKept
    <3>3. QED
      BY <2>1, <3>1, <3>2 DEF Kept
  <2>4. /\ obj' = [obj EXCEPT ![o] = m, ![p] = n]
        /\ parsed' = [parsed EXCEPT ![o] = "none", ![p] = "none"]
    BY <1>14, <2>1 DEF CallMove
  <2>5. QED
    BY <1>2, <2>2, <2>3, <2>4, ExchangeHolds
<1>15. CASE UNCHANGED vars
  BY <1>2, <1>15 DEF Holding, IsInitialized, Virtual, vars
<1>16. QED
  BY <1>1, <1>6, <1>7, <1>8, <1>9, <1>10, <1>11, <1>12, <1>13, <1>14, <1>15 DEF Next

\* The inductive invariant.
LEMMA ObjectsInvariant == Spec => []ObjectsInv
BY ObjectsInit, ObjectsNext, PTL DEF Spec

-----------------------------------------------------------------------------
(* The properties *)

\* Has bits and storage agree in every object and every message inside it, and
\* cached sizes are sizes, whatever was called and however a parse ended
\* (SharedCtor, Clear, MergePartialFromCodedStream).
THEOREM HasBitsAgree == Spec => []BitsMatchStorage
<1>1. ASSUME ObjectsInv PROVE BitsMatchStorage
  <2>1. PICK K \in Classes : Holding(K)
    BY <1>1 DEF ObjectsInv
  <2>2. \A o \in Objects : Kept(K, obj[o], obj[o])
    BY <2>1, ClassKept DEF Holding
  <2>3. QED
    BY <2>1, <2>2 DEF Kept, Holding, BitsMatchStorage
<1>2. QED
  BY <1>1, ObjectsInvariant, PTL

\* Whatever object is written, a new one reads it without failing and shows the
\* same, unknown fields included (SerializeWithCachedSizes against
\* MergePartialFromCodedStream).
THEOREM WhatIsWrittenIsRead == Spec => []RoundTrip
<1>1. ASSUME ObjectsInv PROVE RoundTrip
  <2>1. PICK K \in Classes : Holding(K)
    BY <1>1 DEF ObjectsInv
  <2>2. \A o \in Objects : Writing(obj[o], obj[o])
    BY <2>1, ClassWriting DEF Holding
  <2>3. QED
    BY <2>2 DEF Writing, RoundTrip
<1>2. QED
  BY <1>1, ObjectsInvariant, PTL

\* ByteSizeLong() announces the space that is then written, and every length in
\* front of a nested message is that of the message (ByteSizeLong,
\* RequiredFieldsByteSizeFallback, _cached_size_).
THEOREM NoStaleSize == Spec => []SizesAreTrue
<1>1. ASSUME ObjectsInv PROVE SizesAreTrue
  <2>1. PICK K \in Classes : Holding(K)
    BY <1>1 DEF ObjectsInv
  <2>2. \A o \in Objects : Writing(obj[o], obj[o])
    BY <2>1, ClassWriting DEF Holding
  <2>3. QED
    BY <2>2 DEF Writing, SizesAreTrue
<1>2. QED
  BY <1>1, ObjectsInvariant, PTL

\* One message read behind another gives what MergeFrom() gives, at every level
\* (MergePartialFromCodedStream against MergeFrom).
THEOREM ReadingMerges == Spec => []MergeIsConcatenation
<1>1. ASSUME ObjectsInv PROVE MergeIsConcatenation
  <2>1. PICK K \in Classes : Holding(K)
    BY <1>1 DEF ObjectsInv
  <2>2. \A o, p \in Objects : Writing(obj[o], obj[p])
    BY <2>1, ClassWriting DEF Holding
  <2>3. QED
    BY <2>2 DEF Writing, MergeIsConcatenation
<1>2. QED
  BY <1>1, ObjectsInvariant, PTL

\* CopyFrom() and the copy constructor give the original and Clear() a new
\* message, also where a field without its bit still owns a string or message.
THEOREM CopiesAreTheOriginal == Spec => []CopiesAreEqual
<1>1. ASSUME ObjectsInv PROVE CopiesAreEqual
  <2>1. PICK K \in Classes : Holding(K)
    BY <1>1 DEF ObjectsInv
  <2>2. \A o, p \in Objects : Showing(obj[o], obj[p])
    BY <2>1, ClassShowing DEF Holding
  <2>3. QED
    BY <2>2 DEF Showing, CopiesAreEqual, Copied, Same
<1>2. QED
  BY <1>1, ObjectsInvariant, PTL

\* IsInitialized() says of every object whether all required fields are in what
\* it writes, in nested and repeated messages too; an object a parse accepted
\* keeps them until it is changed (IsInitialized, ParseFromString).
THEOREM AcceptedMessagesAreWhole == Spec => []AcceptedIsWhole
<1>1. ASSUME ObjectsInv PROVE AcceptedIsWhole
  <2>1. PICK K \in Classes : Holding(K)
    BY <1>1 DEF ObjectsInv
  <2>2. \A o \in Objects : Writing(obj[o], obj[o])
    BY <2>1, ClassWriting DEF Holding
  <2>3. \A o \in Objects : parsed[o] = "ok" => IsInitialized(obj[o])
    BY <2>1 DEF Holding
  <2>4. QED
    BY <2>2, <2>3 DEF Writing, AcceptedIsWhole
<1>2. QED
  BY <1>1, ObjectsInvariant, PTL
=============================================================================
