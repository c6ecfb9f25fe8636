---------------------------- MODULE CallVctProofs ----------------------------
(***************************************************************************)
(* Theorems about the two ends of a call: the decoding of callvct, for     *)
(* replies of any length, with any keys and numbers, and the way of the    *)
(* arguments to the server, for any strings, keys and numbers of them.     *)
(***************************************************************************)
EXTENDS MCCallVct, SeqLemmas, TLAPS

-----------------------------------------------------------------------------
(* The reply (CallVct)                                                      *)

\* The message holds what the first n elements of the quadruple say.
FilledSoFar ==
  pc = "number" =>
    /\ i < Len(reply)
    /\ reply[i + 1].type = "string" /\ vctv.key = reply[i + 1].key
    /\ \A k \in 2 .. n : reply[i + k].type = "integer"
    /\ n > 1 => vctv.a = reply[i + 2].integer
    /\ n > 2 => vctv.b = reply[i + 3].integer
    /\ n > 3 => vctv.commit = (reply[i + 4].integer # 0)

\* The vector holds the quadruples in front of i, all of them well formed.
VectorSoFar ==
  /\ pc = "reply" => vctvs = before /\ i = 0
  /\ pc \in {"key", "number"} =>
       /\ ~Malformed
       /\ \E count \in Nat : /\ i = 4 * count /\ i <= Len(reply)
                             /\ IsPrefixOfReply(count)

CallVctInv ==
  /\ CallVctTypeOK
  /\ FilledSoFar /\ VectorSoFar
  /\ AppendsLongestPrefix /\ ReplyFreedOnce

-----------------------------------------------------------------------------
LEMMA CallVctInit == Init => CallVctInv
<1> SUFFICES ASSUME Init PROVE CallVctInv
  OBVIOUS
<1>1. NewMessage \in Message
  BY DEF NewMessage, Message
<1>2. CallVctTypeOK
  BY <1>1, CallVctAssumption DEF Init, CallVctTypeOK
<1>3. QED
  BY <1>2 DEF Init, CallVctInv, FilledSoFar, VectorSoFar, AppendsLongestPrefix,
              ReplyFreedOnce

\* An array that is read is a sequence of elements.
LEMMA ArrayShape ==
  ASSUME CallVctTypeOK, ~Malformed
  PROVE  /\ reply \in Seq(Element) /\ Len(reply) \in Nat
         /\ Len(reply) % 4 = 0
         /\ \A j \in 1 .. Len(reply) : reply[j] \in Element
BY DEF CallVctTypeOK, Malformed

LEMMA ElementShape ==
  ASSUME NEW e \in Element
  PROVE  /\ e.type = "string" => e.key \in Keys
         /\ e.type = "integer" => e.integer \in Numbers
BY DEF Element

\* Inside the loops a quadruple that begins in the array ends in it.
LEMMA InsideLoop ==
  ASSUME CallVctInv, pc \in {"key", "number"}
  PROVE  /\ ~Malformed
         /\ Len(reply) \in Nat /\ i \in Nat /\ n \in 1 .. 4 /\ i <= Len(reply)
         /\ i < Len(reply) => i + 4 <= Len(reply)
         /\ \A j \in 1 .. Len(reply) : reply[j] \in Element
<1>1. ~Malformed /\ CallVctTypeOK
  BY DEF CallVctInv, VectorSoFar
<1>2. PICK count \in Nat : i = 4 * count /\ i <= Len(reply)
  BY DEF CallVctInv, VectorSoFar
<1>3. /\ Len(reply) \in Nat /\ Len(reply) % 4 = 0
      /\ \A j \in 1 .. Len(reply) : reply[j] \in Element
  BY <1>1, ArrayShape
<1>4. PICK quadruples \in Nat : Len(reply) = 4 * quadruples
  BY <1>3
<1>5. i < Len(reply) => i + 4 <= Len(reply)
  BY <1>2, <1>4
<1>6. QED
  BY <1>1, <1>2, <1>3, <1>5 DEF CallVctTypeOK

LEMMA CallVctTypeStep ==
  ASSUME CallVctInv, Next
  PROVE  CallVctTypeOK'
<1> CallVctTypeOK
  BY DEF CallVctInv
<1> USE DEF CallVctTypeOK
<1>1. CASE Refuse
  BY <1>1 DEF Refuse, Return
<1>2. CASE Enter
  BY <1>2 DEF Enter
<1>3. CASE ReadKey
  <2>1. reply[i + 1] \in Element
    BY <1>3, InsideLoop DEF ReadKey
  <2>2. vctv' \in Message
    BY <1>3, <2>1, ElementShape DEF ReadKey, NewMessage, Message
  <2>3. QED
    BY <1>3, <2>2 DEF ReadKey
<1>4. CASE ReadNumber
  <2>1. i + n + 1 \in 1 .. Len(reply)
    <3>1. pc = "number" /\ n < 4 /\ i < Len(reply)
      BY <1>4 DEF ReadNumber, CallVctInv, FilledSoFar
    <3>2. QED
      BY <3>1, InsideLoop
  <2>2. reply[i + n + 1].integer \in Numbers
    BY <1>4, <2>1, InsideLoop, ElementShape DEF ReadNumber
  <2>3. vctv' \in Message
    BY <1>4, <2>2 DEF ReadNumber, Filled, Message
  <2>4. QED
    BY <1>4, <2>3 DEF ReadNumber
<1>5. CASE Push
  BY <1>5 DEF Push
<1>6. CASE Stop
  BY <1>6 DEF Stop, Return
<1>7. CASE Finish
  BY <1>7 DEF Finish, Return
<1>8. CASE Returned
  BY <1>8 DEF Returned, vars
<1>9. QED
  BY <1>1, <1>2, <1>3, <1>4, <1>5, <1>6, <1>7, <1>8 DEF Next

\* A way out of the loops leaves the quadruples in front of i in the vector.
LEMMA LeaveLoop ==
  ASSUME CallVctInv, Return, pc \in {"key", "number"},
         i < Len(reply) => ~WellFormedAt(i)
  PROVE  AppendsLongestPrefix'
<1>1. PICK count \in Nat : i = 4 * count /\ i <= Len(reply) /\ IsPrefixOfReply(count)
  BY DEF CallVctInv, VectorSoFar
<1>2. ~Malformed /\ Len(reply) \in Nat
  BY ArrayShape DEF CallVctInv, VectorSoFar
<1>3. count \in 0 .. (Len(reply) \div 4)
  BY <1>1, <1>2
<1>4. UNCHANGED <<reply, vctvs, before>>
  BY DEF Return
<1>5. IsPrefixOfReply(count)'
  BY <1>1, <1>4 DEF IsPrefixOfReply, WellFormedAt, ValueAt
<1>6. (4 * count < Len(reply) => ~WellFormedAt(4 * count))'
  BY <1>1, <1>4 DEF WellFormedAt
<1>7. ~Malformed' /\ Len(reply)' = Len(reply)
  BY <1>2, <1>4 DEF Malformed
<1>8. QED
  BY <1>3, <1>5, <1>6, <1>7, <1>4 DEF AppendsLongestPrefix

\* The message pushed is the one of the quadruple at i.
LEMMA PushExtends ==
  ASSUME CallVctInv, Push,
         NEW count \in Nat, i = 4 * count, IsPrefixOfReply(count)
  PROVE  /\ IsPrefixOfReply(count + 1)'
         /\ i' = 4 * (count + 1) /\ i' <= Len(reply)
<1>1. WellFormedAt(i) /\ i + 4 <= Len(reply)
  <2>1. pc = "number" /\ n = 4 /\ i < Len(reply)
    BY DEF Push, CallVctInv, FilledSoFar
  <2>2. QED
    BY <2>1, InsideLoop DEF CallVctInv, FilledSoFar, WellFormedAt
<1>2. vctv = ValueAt(i)
  BY DEF CallVctInv, CallVctTypeOK, Push, FilledSoFar, Message, ValueAt
<1>3. /\ vctvs \in Seq(Message) /\ Len(vctvs) = Len(before) + count
      /\ Len(before) \in Nat
  BY CallVctAssumption DEF CallVctInv, CallVctTypeOK, IsPrefixOfReply
<1>4. /\ Len(vctvs') = Len(vctvs) + 1 /\ vctvs'[Len(vctvs) + 1] = vctv
      /\ \A k \in 1 .. Len(vctvs) : vctvs'[k] = vctvs[k]
  BY <1>3 DEF Push
<1>5. UNCHANGED <<reply, before>>
  BY DEF Push
<1>6. \A g \in 0 .. count : WellFormedAt(4 * g)
  BY <1>1 DEF IsPrefixOfReply
<1>7. \A k \in 1 .. Len(before) : vctvs'[k] = before[k]
  BY <1>3, <1>4 DEF IsPrefixOfReply
<1>8. ASSUME NEW g \in 0 .. count
      PROVE  vctvs'[Len(before) + g + 1] = ValueAt(4 * g)
  <2>1. CASE g = count
    BY <2>1, <1>2, <1>3, <1>4
  <2>2. CASE g < count
    <3>1. Len(before) + g + 1 \in 1 .. Len(vctvs)
      BY <2>2, <1>3
    <3>2. QED
      BY <2>2, <3>1, <1>4 DEF IsPrefixOfReply
  <2>3. QED
    BY <2>1, <2>2
<1>9. IsPrefixOfReply(count + 1)'
  <2>1. /\ (count + 1) - 1 = count
        /\ Len(vctvs') = Len(before) + (count + 1)
    BY <1>3, <1>4
  <2>2. /\ \A j \in Int : WellFormedAt(j)' <=> WellFormedAt(j)
        /\ \A j \in Int : ValueAt(j)' = ValueAt(j)
    BY <1>5 DEF WellFormedAt, ValueAt
  <2>3. \A g \in 0 .. count : 4 * g \in Int
    OBVIOUS
  <2>4. \A g \in 0 .. count : WellFormedAt(4 * g)'
    BY <1>6, <2>2, <2>3
  <2>5. \A g \in 0 .. count : vctvs'[Len(before) + g + 1] = ValueAt(4 * g)'
    BY <1>8, <2>2, <2>3
  <2>6. QED
    BY <2>1, <2>4, <2>5, <1>5, <1>7 DEF IsPrefixOfReply
<1>10. QED
  BY <1>1, <1>9 DEF Push

LEMMA CallVctStep == CallVctInv /\ [Next]_vars => CallVctInv'
<1> SUFFICES ASSUME CallVctInv, [Next]_vars PROVE CallVctInv'
  OBVIOUS
<1>1. CASE UNCHANGED vars
  <2>1. CallVctTypeOK' /\ FilledSoFar' /\ ReplyFreedOnce'
    BY <1>1 DEF vars, CallVctInv, CallVctTypeOK, FilledSoFar, ReplyFreedOnce
  <2>2. VectorSoFar'
    BY <1>1 DEF vars, CallVctInv, VectorSoFar, Malformed, IsPrefixOfReply, WellFormedAt,
                ValueAt
  <2>3. AppendsLongestPrefix'
    BY <1>1 DEF vars, CallVctInv, AppendsLongestPrefix, Malformed, IsPrefixOfReply,
                WellFormedAt, ValueAt
  <2>4. QED
    BY <2>1, <2>2, <2>3 DEF CallVctInv
<1>2. CASE Next
  <2> CallVctTypeOK /\ CallVctTypeOK'
    BY <1>2, CallVctTypeStep DEF CallVctInv
  <2> USE DEF CallVctInv
  <2>1. CASE Refuse
    BY <2>1 DEF Refuse, Return, FilledSoFar, VectorSoFar, AppendsLongestPrefix,
                Malformed, ReplyFreedOnce
  <2>2. CASE Enter
    <3>1. IsPrefixOfReply(0)'
      BY <2>2, CallVctAssumption DEF Enter, VectorSoFar, IsPrefixOfReply, CallVctTypeOK
    <3>2. VectorSoFar'
      <4>1. ~Malformed /\ ~Malformed' /\ pc' = "key" /\ i' = 0 /\ reply' = reply
        BY <2>2 DEF Enter, Malformed, VectorSoFar
      <4>2. Len(reply) \in Nat
        BY <4>1, ArrayShape
      <4>3. i' = 4 * 0 /\ i' <= Len(reply)'
        BY <4>1, <4>2
      <4>4. QED
        BY <4>1, <4>3, <3>1 DEF VectorSoFar
    <3>3. QED
      BY <2>2, <3>2 DEF Enter, FilledSoFar, AppendsLongestPrefix, ReplyFreedOnce
  <2>3. CASE ReadKey
    <3>1. FilledSoFar'
      BY <2>3 DEF ReadKey, FilledSoFar, NewMessage
    <3>2. VectorSoFar'
      BY <2>3 DEF ReadKey, VectorSoFar, Malformed, IsPrefixOfReply, WellFormedAt, ValueAt
    <3>3. QED
      BY <2>3, <3>1, <3>2 DEF ReadKey, AppendsLongestPrefix, ReplyFreedOnce
  <2>4. CASE ReadNumber
    <3>1. FilledSoFar'
      <4>1. /\ pc = "number" /\ n \in 1 .. 3 /\ n' = n + 1
            /\ reply[i + (n + 1)].type = "integer"
            /\ vctv' = Filled(vctv, n, reply[i + (n + 1)].integer)
            /\ UNCHANGED <<pc, reply, i>> /\ vctv \in Message /\ i \in Nat
        BY <2>4 DEF ReadNumber, CallVctTypeOK
      <4>2. \A k \in 2 .. n' : reply[i + k].type = "integer"
        BY <4>1 DEF FilledSoFar
      <4>3. /\ n' > 1 => vctv'.a = reply[i + 2].integer
            /\ n' > 2 => vctv'.b = reply[i + 3].integer
            /\ n' > 3 => vctv'.commit = (reply[i + 4].integer # 0)
            /\ vctv'.key = vctv.key
        <5>1. CASE n = 1
          BY <4>1, <5>1 DEF Filled, Message
        <5>2. CASE n = 2
          BY <4>1, <5>2 DEF FilledSoFar, Filled, Message
        <5>3. CASE n = 3
          BY <4>1, <5>3 DEF FilledSoFar, Filled, Message
        <5>4. QED
          BY <4>1, <5>1, <5>2, <5>3
      <4>4. QED
        BY <4>1, <4>2, <4>3 DEF FilledSoFar
    <3>2. VectorSoFar'
      BY <2>4 DEF ReadNumber, VectorSoFar, Malformed, IsPrefixOfReply, WellFormedAt, ValueAt
    <3>3. QED
      BY <2>4, <3>1, <3>2 DEF ReadNumber, AppendsLongestPrefix, ReplyFreedOnce
  <2>5. CASE Push
    <3>1. VectorSoFar'
      <4>1. ~Malformed /\ ~Malformed'
        BY <2>5 DEF Push, VectorSoFar, Malformed
      <4>2. PICK count \in Nat : i = 4 * count /\ IsPrefixOfReply(count)
        BY <2>5 DEF Push, VectorSoFar
      <4>3. /\ IsPrefixOfReply(count + 1)'
            /\ i' = 4 * (count + 1) /\ i' <= Len(reply)
        BY <2>5, <4>2, PushExtends
      <4>4. count + 1 \in Nat /\ pc' = "key" /\ reply' = reply
        BY <2>5 DEF Push
      <4>5. QED
        BY <4>1, <4>3, <4>4 DEF VectorSoFar
    <3>2. QED
      BY <2>5, <3>1 DEF Push, FilledSoFar, AppendsLongestPrefix, ReplyFreedOnce
  <2>6. CASE Stop
    <3>1. ~WellFormedAt(i)
      <4>1. CASE pc = "key"
        BY <2>6, <4>1 DEF Stop, WellFormedAt
      <4>2. CASE pc # "key"
        <5>1. pc = "number" /\ n < 4 /\ reply[i + n + 1].type # "integer"
          BY <2>6, <4>2 DEF Stop
        <5>2. n + 1 \in 2 .. 4 /\ i + n + 1 = i + (n + 1)
          BY <5>1, InsideLoop
        <5>3. QED
          BY <5>1, <5>2 DEF WellFormedAt
      <4>3. QED
        BY <4>1, <4>2
    <3>2. AppendsLongestPrefix'
      BY <2>6, <3>1, LeaveLoop DEF Stop
    <3>3. QED
      BY <2>6, <3>2 DEF Stop, Return, FilledSoFar, VectorSoFar, ReplyFreedOnce
  <2>7. CASE Finish
    <3>1. ~(i < Len(reply))
      BY <2>7, InsideLoop DEF Finish
    <3>2. AppendsLongestPrefix'
      BY <2>7, <3>1, LeaveLoop DEF Finish
    <3>3. QED
      BY <2>7, <3>2 DEF Finish, Return, FilledSoFar, VectorSoFar, ReplyFreedOnce
  <2>8. CASE Returned
    BY <2>8, <1>1 DEF Returned
  <2>9. QED
    BY <1>2, <2>1, <2>2, <2>3, <2>4, <2>5, <2>6, <2>7, <2>8 DEF Next
<1>3. QED
  BY <1>1, <1>2

LEMMA CallVctInvariant == Spec => []CallVctInv
BY CallVctInit, CallVctStep, PTL DEF Spec

\* Type correctness of the decoding of callvct.
THEOREM CallVctTypeCorrect == Spec => []CallVctTypeOK
BY CallVctInvariant, PTL DEF CallVctInv

\* Whatever array the cluster sends, callvct hands over exactly the longest
\* well-formed beginning of it.
THEOREM DecodesPrefix == Spec => []AppendsLongestPrefix
BY CallVctInvariant, PTL DEF CallVctInv

\* callvct frees its reply once, on whichever way it returns.
THEOREM FreesReply == Spec => []ReplyFreedOnce
BY CallVctInvariant, PTL DEF CallVctInv
-----------------------------------------------------------------------------
(* The arguments (Marshal)                                                  *)

Symbol == Char \cup {NUL} \cup {[number |-> t] : t \in Times}
Word == Seq(Symbol)
Slot == {Pointer(w) : w \in Word} \cup {Size(w) : w \in Word}

\* What the server receives for a string of the operation.
ArrivesAs(w) == IF Binary THEN w ELSE CString(w)

\* The words of a format.
Text == {"%s", "%b", "cmd"} \cup {vct_oper_to_cmd[o] : o \in VctOpers}

Arrivals == Word \cup {CString(w) : w \in Word} \cup Text

\* Strings of one argument.
PerArgument == IF op \in VctOpers THEN (IF op = "vo_up" THEN 4 ELSE 3) ELSE 1

\* Strings built for the arguments in front of the k-th.
Base(k) ==
  IF op \in VctOpers THEN (IF op = "vo_up" THEN 4 * (k - 1) ELSE 3 * (k - 1)) ELSE k - 1

\* The strings of the first m arguments are built, in order.
BuiltUpTo(m) ==
  /\ Len(ars) = Base(m + 1)
  /\ \A k \in 1 .. m : \A j \in 1 .. Len(StringsOf(args[k])) :
       ars[Base(k) + j] = StringsOf(args[k])[j]

\* The call's arguments are those for the strings from f to l, in order.
SlotsFrom(f, l) ==
  IF Binary
  THEN /\ Len(slots) = 2 * (l - f + 1)
       /\ \A m \in f .. l : /\ slots[2 * (m - f) + 1] = Pointer(ars[m])
                            /\ slots[2 * (m - f) + 2] = Size(ars[m])
  ELSE /\ Len(slots) = l - f + 1
       /\ \A m \in f .. l : slots[m - f + 1] = Pointer(ars[m])

\* The server has the command and the first m strings.
SentUpTo(m) ==
  /\ Len(argv) = m + 1
  /\ \A j \in 1 .. m : argv[j + 1] = ArrivesAs(ars[j])

MarshalShape ==
  /\ phase \in {"build", "layout", "read", "sent", "refused"}
  /\ op \in {"exec", "exec_binary"} \cup VctOpers
  /\ args \in Seq(IF op \in VctOpers THEN VctKey ELSE Strings)
  /\ ars \in Seq(Word) /\ slots \in Seq(Slot)
  /\ argv \in Seq(Arrivals) /\ format \in Seq(Text)
  /\ Len(format) = Len(ars) + 1
  /\ \A m \in 2 .. Len(format) : format[m] = IF Binary THEN "%b" ELSE "%s"

MarshalProgress ==
  /\ phase = "refused" => idx \in 1 .. Len(args) + 1
  /\ phase = "build" =>
       /\ idx \in 1 .. Len(args) + 1 /\ BuiltUpTo(idx - 1)
       /\ slots = <<>> /\ argv = <<>>
  /\ phase \in {"layout", "read", "sent"} => BuiltUpTo(Len(args))
  /\ phase = "layout" =>
       /\ idx \in 1 .. Len(ars) + 1 /\ SlotsFrom(1, idx - 1)
       /\ argv = <<>>
  /\ phase = "read" =>
       /\ idx \in 2 .. Len(ars) + 2
       /\ SlotsFrom(idx - 1, Len(ars)) /\ SentUpTo(idx - 2)
  /\ phase = "sent" => idx = Len(ars) + 2 /\ slots = <<>> /\ SentUpTo(Len(ars))

MarshalInv == MarshalShape /\ MarshalProgress

LEMMA StringIsWord == Strings \subseteq Word
<1> SUFFICES ASSUME NEW s \in Strings PROVE s \in Word
  OBVIOUS
<1>1. PICK l \in 0 .. MaxLen : s \in [1 .. l -> Char \cup {NUL}]
  BY DEF Strings
<1>2. l \in Nat
  BY MarshalAssumption
<1>3. s \in [1 .. l -> Symbol]
  BY <1>1 DEF Symbol
<1>4. QED
  BY <1>2, <1>3, SeqDef DEF Word

LEMMA NumberIsWord ==
  ASSUME NEW t \in Times
  PROVE  Number(t) \in Word /\ CString(Number(t)) = Number(t)
<1>1. Number(t) = <<[number |-> t]>> /\ [number |-> t] \in Symbol
  BY DEF Number, Symbol
<1>2. Number(t) \in Word
  BY <1>1 DEF Word
<1>3. [number |-> t] # NUL
  BY MarshalAssumption DEF Number
<1>4. {m \in 1 .. Len(Number(t)) : Number(t)[m] = NUL} = {}
  BY <1>1, <1>3
<1>5. QED
  BY <1>2, <1>4 DEF CString

LEMMA ArgumentsShape == ASSUME MarshalShape PROVE Len(args) \in Nat
<1>1. args \in Seq(IF op \in VctOpers THEN VctKey ELSE Strings)
  BY DEF MarshalShape
<1>2. QED
  BY <1>1, LenProperties

\* The strings of one argument: one of a string, three or four of a vct key.
LEMMA StringsOfArgument ==
  ASSUME MarshalShape, NEW k \in 1 .. Len(args)
  PROVE  /\ StringsOf(args[k]) \in Seq(Word)
         /\ Len(StringsOf(args[k])) = PerArgument
         /\ op \notin VctOpers =>
              StringsOf(args[k]) = <<args[k]>> /\ args[k] \in Word
         /\ op \in VctOpers =>
              /\ args[k] \in VctKey
              /\ StringsOf(args[k])[1] = args[k].key
              /\ StringsOf(args[k])[2] = Number(args[k].posm)
              /\ StringsOf(args[k])[3] = Number(args[k].poss)
              /\ op = "vo_up" => StringsOf(args[k])[4] = Number(args[k].time)
<1>1. CASE op \notin VctOpers
  <2>1. args[k] \in Strings
    BY <1>1, ElementOfSeq DEF MarshalShape
  <2>2. args[k] \in Word
    BY <2>1, StringIsWord
  <2>3. StringsOf(args[k]) = <<args[k]>>
    BY <1>1 DEF StringsOf
  <2>4. QED
    BY <1>1, <2>2, <2>3 DEF PerArgument
<1>2. CASE op \in VctOpers
  <2>1. args[k] \in VctKey
    BY <1>2, ElementOfSeq DEF MarshalShape
  <2> DEFINE r == args[k]
             three == <<r.key, Number(r.posm), Number(r.poss)>>
  <2>2. /\ r.key \in Word /\ Number(r.posm) \in Word
        /\ Number(r.poss) \in Word /\ Number(r.time) \in Word
    BY <2>1, StringIsWord, NumberIsWord DEF VctKey
  <2>3. three \in Seq(Word) /\ Len(three) = 3
    BY <2>2
  <2>4. CASE op = "vo_up"
    <3>1. StringsOf(r) = three \o <<Number(r.time)>>
      BY <1>2, <2>4 DEF StringsOf, KeyStrings
    <3>2. <<Number(r.time)>> \in Seq(Word) /\ Len(<<Number(r.time)>>) = 1
      BY <2>2
    <3>3. /\ StringsOf(r) \in Seq(Word) /\ Len(StringsOf(r)) = 4
          /\ \A j \in 1 .. 4 : StringsOf(r)[j] =
               IF j <= 3 THEN three[j] ELSE <<Number(r.time)>>[j - 3]
      <4> DEFINE four == <<Number(r.time)>>
      <4>1. four \in Seq(Word) /\ Len(four) = 1 /\ StringsOf(r) = three \o four
        BY <3>1, <3>2
      <4> HIDE DEF three, r, four
      <4>2. /\ three \o four \in Seq(Word) /\ Len(three \o four) = 4
            /\ \A j \in 1 .. 4 :
                 (three \o four)[j] = IF j <= 3 THEN three[j] ELSE four[j - 3]
        <5>1. /\ three \o four \in Seq(Word)
              /\ Len(three \o four) = Len(three) + Len(four)
              /\ \A j \in 1 .. Len(three) + Len(four) :
                   (three \o four)[j] =
                     IF j <= Len(three) THEN three[j] ELSE four[j - Len(three)]
          BY <2>3, <4>1, ConcatProperties
        <5>2. QED
          BY <2>3, <4>1, <5>1
      <4>3. QED
        BY <4>1, <4>2 DEF four
    <3>4. QED
      BY <1>2, <2>1, <2>4, <3>3 DEF PerArgument
  <2>5. CASE op # "vo_up"
    <3>1. StringsOf(r) = three \o <<>>
      BY <1>2, <2>5 DEF StringsOf, KeyStrings
    <3>2. StringsOf(r) = three
      <4> HIDE DEF three, r
      <4>1. QED
        BY <2>3, <3>1, ConcatEmptySeq
    <3>3. QED
      BY <1>2, <2>1, <2>3, <2>5, <3>2 DEF PerArgument
  <2>6. QED
    BY <2>4, <2>5
<1>3. QED
  BY <1>1, <1>2

LEMMA MarshalInitially == MarshalInit => MarshalInv
<1> SUFFICES ASSUME MarshalInit PROVE MarshalInv
  OBVIOUS
<1>1. \A S : SeqsUpTo(S) \subseteq Seq(S)
  BY MarshalAssumption, SeqDef DEF SeqsUpTo
<1>2. /\ op \in {"exec", "exec_binary"} \cup VctOpers
      /\ args \in Seq(IF op \in VctOpers THEN VctKey ELSE Strings)
  BY <1>1 DEF MarshalInit, VctOpers, vct_oper_to_cmd
<1>3. Command \in Text
  BY DEF Command, Text
<1>4. format \in Seq(Text) /\ Len(format) = 1
  BY <1>3 DEF MarshalInit
<1>5. /\ ars \in Seq(Word) /\ Len(ars) = 0
      /\ slots \in Seq(Slot) /\ argv \in Seq(Arrivals)
  BY DEF MarshalInit
<1>6. MarshalShape
  BY <1>2, <1>4, <1>5 DEF MarshalShape, MarshalInit
<1>7. BuiltUpTo(0)
  BY <1>5 DEF BuiltUpTo, Base
<1>8. Len(args) \in Nat
  BY <1>2, LenProperties
<1>9. MarshalProgress
  BY <1>7, <1>8 DEF MarshalProgress, MarshalInit
<1>10. QED
  BY <1>6, <1>9 DEF MarshalInv

\* Every argument adds its strings behind those of the arguments before.
LEMMA BuildStep == ASSUME MarshalInv, Build PROVE MarshalInv'
<1> USE DEF MarshalInv
<1> DEFINE added == StringsOf(args[idx])
<1>1. /\ phase = "build" /\ idx \in 1 .. Len(args)
      /\ ars' = ars \o added /\ format' = format \o Directives(added)
      /\ idx' = idx + 1
      /\ UNCHANGED <<phase, op, args, slots, argv>>
  <2>1. idx \in 1 .. Len(args) + 1 /\ Len(args) \in Nat
    BY ArgumentsShape DEF Build, MarshalProgress
  <2>2. phase = "build" /\ idx <= Len(args)
    BY Zenon DEF Build
  <2>3. idx \in 1 .. Len(args)
    BY <2>1, <2>2
  <2>4. QED
    BY <2>3, Zenon DEF Build
<1>2. /\ added \in Seq(Word) /\ Len(added) \in Nat
      /\ Len(added) = Base(idx + 1) - Base(idx)
  <2>1. added \in Seq(Word)
    BY <1>1, StringsOfArgument
  <2>2. Len(added) = PerArgument
    BY <1>1, StringsOfArgument
  <2>3. QED
    BY <1>1, <2>1, <2>2 DEF Base, PerArgument
<1>3. /\ Directives(added) \in Seq(Text) /\ Len(Directives(added)) = Len(added)
      /\ \A j \in 1 .. Len(added) :
           Directives(added)[j] = IF Binary THEN "%b" ELSE "%s"
  <2> HIDE DEF added
  <2>1. Len(added) \in Nat /\ (IF Binary THEN "%b" ELSE "%s") \in Text
    BY <1>2 DEF Text
  <2>2. Directives(added) \in [1 .. Len(added) -> Text]
    BY <2>1 DEF Directives
  <2>3. QED
    BY <2>1, <2>2, SeqDef, LenProperties DEF Directives
<1>4. /\ ars \in Seq(Word) /\ Len(ars) \in Nat /\ Len(ars) = Base(idx)
      /\ format \in Seq(Text) /\ Len(format) = Len(ars) + 1
      /\ BuiltUpTo(idx - 1)
  BY <1>1, LenProperties DEF MarshalShape, MarshalProgress, BuiltUpTo
<1>5. /\ ars' \in Seq(Word) /\ Len(ars') = Len(ars) + Len(added)
      /\ \A j \in 1 .. Len(ars) + Len(added) :
           ars'[j] = IF j <= Len(ars) THEN ars[j] ELSE added[j - Len(ars)]
  <2> HIDE DEF added
  <2>1. QED
    BY <1>1, <1>2, <1>4, ConcatProperties
<1>6. /\ format' \in Seq(Text) /\ Len(format') = Len(format) + Len(added)
      /\ \A j \in 1 .. Len(format) + Len(added) :
           format'[j] = IF j <= Len(format) THEN format[j]
                        ELSE Directives(added)[j - Len(format)]
  <2> DEFINE more == Directives(added)
             F == Len(format)
             M == Len(more)
  <2>1. /\ format' = format \o more /\ more \in Seq(Text) /\ format \in Seq(Text)
        /\ M = Len(added)
    BY <1>1, <1>3, <1>4
  <2> HIDE DEF added, more
  <2>2. /\ format \o more \in Seq(Text) /\ Len(format \o more) = F + M
        /\ \A j \in 1 .. F + M :
             (format \o more)[j] = IF j <= F THEN format[j] ELSE more[j - F]
    BY <2>1, ConcatProperties
  <2>3. QED
    BY <2>1, <2>2 DEF more
<1>7. MarshalShape'
  <2>1. Len(format') = Len(ars') + 1
    BY <1>2, <1>4, <1>5, <1>6
  <2>2. ASSUME NEW m \in 2 .. Len(format')
        PROVE  format'[m] = IF Binary THEN "%b" ELSE "%s"
    <3> HIDE DEF added
    <3>1. CASE m <= Len(format)
      BY <1>2, <1>4, <1>6, <2>2, <3>1 DEF MarshalShape
    <3>2. CASE m > Len(format)
      <4>1. m - Len(format) \in 1 .. Len(added) /\ m \in 1 .. Len(format) + Len(added)
        BY <1>2, <1>4, <1>6, <2>2, <3>2
      <4>2. format'[m] = Directives(added)[m - Len(format)]
        BY <1>4, <1>6, <3>2, <4>1
      <4>3. Directives(added)[m - Len(format)] = IF Binary THEN "%b" ELSE "%s"
        BY <1>3, <4>1
      <4>4. QED
        BY <4>2, <4>3
    <3>3. QED
      BY <1>4, <2>2, <3>1, <3>2
  <2>3. QED
    BY <1>1, <1>5, <1>6, <2>1, <2>2 DEF MarshalShape, Binary
<1>8. BuiltUpTo(idx - 1)'
  <2>1. PICK m \in Nat : m = idx /\ m \in 1 .. Len(args)
    BY <1>1
  <2>2. \A k \in Int : Base(k)' = Base(k)
    BY <1>1 DEF Base
  <2>3. \A k : StringsOf(args[k])' = StringsOf(args[k])
    BY <1>1 DEF StringsOf, KeyStrings
  <2>4. Len(ars') = Base(m + 1)
    BY <1>2, <1>4, <1>5, <2>1 DEF Base
  <2>5. ASSUME NEW k \in 1 .. m, NEW j \in 1 .. Len(StringsOf(args[k]))
        PROVE  ars'[Base(k) + j] = StringsOf(args[k])[j]
    <3>1. CASE k = m
      <4>1. /\ j \in 1 .. Len(added) /\ Base(k) = Len(ars) /\ Base(k) + j - Len(ars) = j
            /\ StringsOf(args[k])[j] = added[j] /\ Len(ars) \in Nat
        BY <1>2, <1>4, <2>1, <2>5, <3>1
      <4>2. QED
        <5> HIDE DEF added
        <5>1. QED
          BY <1>2, <1>5, <4>1
    <3>2. CASE k # m
      <4>1. k \in 1 .. idx - 1 /\ k \in 1 .. Len(args)
        BY <2>1, <2>5, <3>2
      <4>2. Len(StringsOf(args[k])) = PerArgument
        BY <4>1, StringsOfArgument
      <4>3. Base(k) + j \in 1 .. Base(idx)
        BY <1>1, <2>5, <4>1, <4>2 DEF Base, PerArgument
      <4>4. ars[Base(k) + j] = StringsOf(args[k])[j]
        BY <1>4, <2>5, <4>1 DEF BuiltUpTo
      <4>5. QED
        <5> HIDE DEF added
        <5>1. QED
          BY <1>2, <1>4, <1>5, <4>3, <4>4
    <3>3. QED
      BY <3>1, <3>2
  <2>6. BuiltUpTo(m)'
    <3>1. Base(m + 1)' = Base(m + 1) /\ \A k \in 1 .. m : Base(k)' = Base(k)
      BY <2>1, <2>2
    <3>2. QED
      BY <1>1, <2>3, <2>4, <2>5, <3>1 DEF BuiltUpTo
  <2>7. idx' - 1 = m
    BY <1>1, <2>1
  <2>8. QED
    BY <2>6, <2>7 DEF BuiltUpTo, Base
<1>9. MarshalProgress'
  <2>1. idx' \in 1 .. Len(args') + 1
    BY <1>1, ArgumentsShape
  <2>2. slots' = <<>> /\ argv' = <<>>
    BY <1>1 DEF MarshalProgress
  <2>3. QED
    BY <1>1, <1>8, <2>1, <2>2 DEF MarshalProgress
<1>10. QED
  BY <1>7, <1>9

LEMMA BuiltStep == ASSUME MarshalInv, Built PROVE MarshalInv'
<1> USE DEF MarshalInv
<1>1. /\ phase = "build" /\ idx = Len(args) + 1 /\ BuiltUpTo(Len(args))
      /\ phase' = "layout" /\ idx' = 1
      /\ UNCHANGED <<op, args, format, ars, slots, argv>>
  <2>1. phase = "build" /\ idx \in 1 .. Len(args) + 1 /\ Len(args) \in Nat
    BY ArgumentsShape DEF Built, MarshalProgress
  <2>2. idx = Len(args) + 1
    <3>1. idx > Len(args)
      BY DEF Built
    <3>2. QED
      BY <2>1, <3>1
  <2>3. BuiltUpTo(Len(args))
    <3>1. idx - 1 = Len(args)
      BY <2>1, <2>2
    <3>2. QED
      BY <2>1, <3>1 DEF MarshalProgress
  <2>4. QED
    BY <2>1, <2>2, <2>3 DEF Built, EnterPhase
<1>2. MarshalShape'
  BY <1>1 DEF MarshalShape, Binary
<1>3. BuiltUpTo(Len(args))'
  BY <1>1 DEF BuiltUpTo, Base, StringsOf, KeyStrings
<1>4. slots' = <<>> /\ argv' = <<>>
  BY <1>1 DEF MarshalProgress
<1>5. SlotsFrom(1, 0)'
  BY <1>4 DEF SlotsFrom
<1>6. Len(ars) \in Nat
  BY LenProperties DEF MarshalShape
<1>7. SlotsFrom(1, idx - 1)'
  <2>1. idx' - 1 = 0
    BY <1>1
  <2>2. QED
    BY <1>5, <2>1 DEF SlotsFrom
<1>8. MarshalProgress'
  BY <1>1, <1>3, <1>4, <1>6, <1>7 DEF MarshalProgress
<1>9. QED
  BY <1>2, <1>8

\* A string adds its pointer, and its length when it is binary.
LEMMA LayOutStep == ASSUME MarshalInv, LayOut PROVE MarshalInv'
<1> USE DEF MarshalInv
<1> DEFINE w == ars[idx]
<1>1. /\ phase = "layout" /\ idx \in 1 .. Len(ars) /\ Len(ars) \in Nat
      /\ slots' = slots \o SlotsOf(w) /\ idx' = idx + 1
      /\ UNCHANGED <<phase, op, args, format, ars, argv>>
  <2>1. idx \in 1 .. Len(ars) + 1 /\ Len(ars) \in Nat /\ idx <= Len(ars)
    BY LenProperties DEF LayOut, MarshalShape, MarshalProgress
  <2>2. QED
    BY <2>1 DEF LayOut
<1>2. w \in Word
  BY <1>1, ElementOfSeq DEF MarshalShape
<1>3. Pointer(w) \in Slot /\ Size(w) \in Slot
  BY <1>2 DEF Slot
<1>4. slots \in Seq(Slot) /\ SlotsFrom(1, idx - 1) /\ Len(slots) \in Nat
  BY <1>1, LenProperties DEF MarshalShape, MarshalProgress
<1> HIDE DEF w
<1>5. SlotsOf(w) \in Seq(Slot) /\ Len(SlotsOf(w)) = IF Binary THEN 2 ELSE 1
  BY <1>3 DEF SlotsOf
<1>6. /\ slots' \in Seq(Slot) /\ Len(slots') = Len(slots) + Len(SlotsOf(w))
      /\ \A m \in 1 .. Len(slots) + Len(SlotsOf(w)) :
           slots'[m] = IF m <= Len(slots) THEN slots[m] ELSE SlotsOf(w)[m - Len(slots)]
  BY <1>1, <1>4, <1>5, ConcatProperties
<1>7. PICK l \in Nat : l = idx /\ l >= 1
  BY <1>1
<1>8. SlotsFrom(1, l)'
  <2>1. CASE Binary
    <3>1. /\ Len(slots) = 2 * (l - 1) /\ Len(SlotsOf(w)) = 2
          /\ SlotsOf(w)[1] = Pointer(w) /\ SlotsOf(w)[2] = Size(w)
      BY <1>4, <1>5, <1>7, <2>1 DEF SlotsFrom, SlotsOf
    <3>2. Len(slots') = 2 * (l - 1 + 1)
      BY <1>6, <1>7, <3>1
    <3>3. ASSUME NEW m \in 1 .. l
          PROVE  /\ slots'[2 * (m - 1) + 1] = Pointer(ars[m])
                 /\ slots'[2 * (m - 1) + 2] = Size(ars[m])
      <4>1. CASE m = l
        <5>1. /\ 2 * (m - 1) + 1 \in 1 .. Len(slots) + 2 /\ 2 * (m - 1) + 1 > Len(slots)
              /\ 2 * (m - 1) + 1 - Len(slots) = 1
              /\ 2 * (m - 1) + 2 \in 1 .. Len(slots) + 2 /\ 2 * (m - 1) + 2 > Len(slots)
              /\ 2 * (m - 1) + 2 - Len(slots) = 2
          BY <1>7, <3>1, <4>1
        <5>2. w = ars[m]
          BY <1>7, <4>1 DEF w
        <5>3. /\ slots'[2 * (m - 1) + 1] = SlotsOf(w)[2 * (m - 1) + 1 - Len(slots)]
              /\ slots'[2 * (m - 1) + 2] = SlotsOf(w)[2 * (m - 1) + 2 - Len(slots)]
          BY <1>4, <1>6, <3>1, <5>1
        <5>4. QED
          BY <3>1, <5>1, <5>2, <5>3
      <4>2. CASE m # l
        <5>1. m \in 1 .. idx - 1
          BY <1>7, <3>3, <4>2
        <5>2. 2 * (m - 1) + 1 \in 1 .. Len(slots) /\ 2 * (m - 1) + 2 \in 1 .. Len(slots)
          BY <1>7, <3>1, <5>1
        <5>3. /\ slots[2 * (m - 1) + 1] = Pointer(ars[m])
              /\ slots[2 * (m - 1) + 2] = Size(ars[m])
          BY <1>4, <2>1, <5>1 DEF SlotsFrom
        <5>4. QED
          BY <1>4, <1>6, <3>1, <5>2, <5>3
      <4>3. QED
        BY <4>1, <4>2
    <3>4. QED
      BY <1>1, <2>1, <3>2, <3>3 DEF SlotsFrom, Binary, Pointer, Size
  <2>2. CASE ~Binary
    <3>1. /\ Len(slots) = l - 1 /\ Len(SlotsOf(w)) = 1 /\ SlotsOf(w)[1] = Pointer(w)
      BY <1>4, <1>5, <1>7, <2>2 DEF SlotsFrom, SlotsOf
    <3>2. Len(slots') = l - 1 + 1
      BY <1>6, <1>7, <3>1
    <3>3. ASSUME NEW m \in 1 .. l PROVE slots'[m - 1 + 1] = Pointer(ars[m])
      <4>1. CASE m = l
        <5>1. w = ars[m]
          BY <1>7, <4>1 DEF w
        <5>2. QED
          BY <1>4, <1>6, <1>7, <3>1, <4>1, <5>1
      <4>2. CASE m # l
        <5>1. m \in 1 .. idx - 1 /\ m - 1 + 1 = m
          BY <1>7, <3>3, <4>2
        <5>2. slots[m - 1 + 1] = Pointer(ars[m])
          BY <1>4, <2>2, <5>1 DEF SlotsFrom
        <5>3. m \in 1 .. Len(slots)
          BY <1>7, <3>1, <5>1
        <5>4. QED
          BY <1>4, <1>6, <3>1, <5>1, <5>2, <5>3
      <4>3. QED
        BY <4>1, <4>2
    <3>4. QED
      BY <1>1, <2>2, <3>2, <3>3 DEF SlotsFrom, Binary, Pointer, Size
  <2>3. QED
    BY <2>1, <2>2
<1>9. MarshalShape'
  BY <1>1, <1>6 DEF MarshalShape, Binary
<1>10. SlotsFrom(1, idx - 1)'
  <2>1. idx' - 1 = l
    BY <1>1, <1>7
  <2>2. QED
    BY <1>8, <2>1 DEF SlotsFrom
<1>11. BuiltUpTo(Len(args))'
  BY <1>1 DEF MarshalProgress, BuiltUpTo, Base, StringsOf, KeyStrings
<1>12. MarshalProgress'
  BY <1>1, <1>10, <1>11 DEF MarshalProgress
<1>13. QED
  BY <1>9, <1>12

LEMMA CallCommandStep == ASSUME MarshalInv, CallCommand PROVE MarshalInv'
<1> USE DEF MarshalInv
<1>1. Len(ars) \in Nat /\ format \in Seq(Text) /\ Len(format) = Len(ars) + 1
  BY LenProperties DEF MarshalShape
<1>2. /\ phase = "layout" /\ idx = Len(ars) + 1
      /\ phase' = "read" /\ idx' = 2 /\ argv' = <<Head(format)>>
      /\ UNCHANGED <<op, args, format, ars, slots>>
  BY <1>1 DEF CallCommand, MarshalProgress
<1>3. Head(format) \in Arrivals
  <2>1. format # <<>>
    BY <1>1
  <2>2. Head(format) \in Text
    BY <1>1, <2>1, HeadTailProperties
  <2>3. QED
    BY <2>2 DEF Arrivals
<1>4. argv' \in Seq(Arrivals) /\ Len(argv') = 1
  BY <1>2, <1>3
<1>5. MarshalShape'
  BY <1>2, <1>4 DEF MarshalShape, Binary
<1>6. SlotsFrom(idx - 1, Len(ars))'
  <2>1. idx - 1 = Len(ars) /\ idx' - 1 = 1
    BY <1>1, <1>2
  <2>2. SlotsFrom(1, Len(ars))
    BY <1>2, <2>1 DEF MarshalProgress
  <2>3. QED
    BY <1>2, <2>1, <2>2 DEF SlotsFrom, Binary, Pointer, Size
<1>7. SentUpTo(idx - 2)'
  <2>1. idx' - 2 = 0
    BY <1>2
  <2>2. QED
    BY <1>4, <2>1 DEF SentUpTo
<1>8. BuiltUpTo(Len(args))'
  BY <1>2 DEF MarshalProgress, BuiltUpTo, Base, StringsOf, KeyStrings
<1>9. MarshalProgress'
  BY <1>1, <1>2, <1>6, <1>7, <1>8 DEF MarshalProgress
<1>10. QED
  BY <1>5, <1>9

\* A directive finds the arguments of its string in front.
LEMMA DirectiveIsServed ==
  ASSUME MarshalInv, phase = "read", idx <= Len(format)
  PROVE  /\ Served /\ idx - 1 \in 1 .. Len(ars) /\ ars[idx - 1] \in Word
         /\ Taken = (IF Binary THEN 2 ELSE 1) /\ Len(slots) \in Nat
         /\ Taken <= Len(slots)
         /\ slots[1] = Pointer(ars[idx - 1])
         /\ Binary => slots[2] = Size(ars[idx - 1])
<1> USE DEF MarshalInv
<1>1. /\ Len(ars) \in Nat /\ Len(slots) \in Nat /\ Len(format) = Len(ars) + 1
      /\ idx \in 2 .. Len(ars) + 2
  BY LenProperties DEF MarshalShape, MarshalProgress
<1>2. idx \in 2 .. Len(format) /\ idx - 1 \in 1 .. Len(ars)
  BY <1>1
<1>3. format[idx] = IF Binary THEN "%b" ELSE "%s"
  BY <1>2 DEF MarshalShape
<1>4. Taken = IF Binary THEN 2 ELSE 1
  BY <1>3 DEF Taken
<1>5. ars[idx - 1] \in Word
  BY <1>2, ElementOfSeq DEF MarshalShape
<1>6. SlotsFrom(idx - 1, Len(ars))
  BY DEF MarshalProgress
<1>7. PICK l \in 1 .. Len(ars) : l = idx - 1
  BY <1>2
<1>8. l - l = 0 /\ 2 * (l - l) = 0 /\ l \in l .. Len(ars)
  BY <1>1
<1>9. CASE Binary
  <2>1. /\ Len(slots) = 2 * (Len(ars) - l + 1)
        /\ slots[2 * (l - l) + 1] = Pointer(ars[l])
        /\ slots[2 * (l - l) + 2] = Size(ars[l])
    BY <1>6, <1>7, <1>8, <1>9 DEF SlotsFrom
  <2>2. Len(slots) >= 2 /\ slots[1] = Pointer(ars[l]) /\ slots[2] = Size(ars[l])
    BY <1>1, <1>8, <2>1
  <2>3. "pointer" \in DOMAIN slots[1] /\ "size" \in DOMAIN slots[2]
    BY <2>2 DEF Pointer, Size
  <2>4. QED
    BY <1>1, <1>2, <1>4, <1>5, <1>7, <1>9, <2>2, <2>3 DEF Served
<1>10. CASE ~Binary
  <2>1. Len(slots) = Len(ars) - l + 1 /\ slots[l - l + 1] = Pointer(ars[l])
    BY <1>6, <1>7, <1>8, <1>10 DEF SlotsFrom
  <2>2. Len(slots) >= 1 /\ slots[1] = Pointer(ars[l])
    BY <1>1, <1>8, <2>1
  <2>3. "pointer" \in DOMAIN slots[1]
    BY <2>2 DEF Pointer
  <2>4. QED
    BY <1>1, <1>2, <1>4, <1>5, <1>7, <1>10, <2>2, <2>3 DEF Served
<1>11. QED
  BY <1>9, <1>10

LEMMA ReadDirectiveStep == ASSUME MarshalInv, ReadDirective PROVE MarshalInv'
<1> USE DEF MarshalInv
<1>1. /\ phase = "read" /\ idx <= Len(format) /\ idx' = idx + 1
      /\ slots' = SubSeq(slots, Taken + 1, Len(slots))
      /\ UNCHANGED <<phase, op, args, format, ars>>
  BY DEF ReadDirective
<1>2. /\ idx - 1 \in 1 .. Len(ars) /\ ars[idx - 1] \in Word
      /\ Taken = (IF Binary THEN 2 ELSE 1) /\ Len(slots) \in Nat
      /\ Taken <= Len(slots)
      /\ slots[1] = Pointer(ars[idx - 1])
      /\ Binary => slots[2] = Size(ars[idx - 1])
  BY <1>1, DirectiveIsServed
<1>3. PICK l \in 1 .. Len(ars) : l = idx - 1
  BY <1>2
<1>4. /\ Len(ars) \in Nat /\ idx \in Int /\ idx = l + 1
      /\ SlotsFrom(l, Len(ars)) /\ SentUpTo(l - 1)
  <2>1. Len(ars) \in Nat /\ idx \in 2 .. Len(ars) + 2
    BY <1>1, LenProperties DEF MarshalShape, MarshalProgress
  <2>2. l - 1 = idx - 2
    BY <1>3, <2>1
  <2>3. SlotsFrom(l, Len(ars)) /\ SentUpTo(l - 1)
    BY <1>1, <1>3, <2>2 DEF MarshalProgress
  <2>4. QED
    BY <1>3, <2>1, <2>3
<1>5. argv' = Append(argv, ArrivesAs(ars[l]))
  <2>1. CASE Binary
    <3>1. slots[1].pointer = ars[l] /\ slots[2].size = Len(ars[l])
      BY <1>2, <1>3, <2>1 DEF Pointer, Size
    <3>2. SubSeq(ars[l], 1, Len(ars[l])) = ars[l]
      BY <1>2, <1>3, SubSeqFull DEF Word
    <3>3. QED
      BY <1>2, <2>1, <3>1, <3>2 DEF ReadDirective, ArrivesAs
  <2>2. CASE ~Binary
    <3>1. slots[1].pointer = ars[l]
      BY <1>2, <1>3 DEF Pointer
    <3>2. QED
      BY <1>2, <2>2, <3>1 DEF ReadDirective, ArrivesAs
  <2>3. QED
    BY <2>1, <2>2
<1>6. /\ argv' \in Seq(Arrivals) /\ Len(argv') = Len(argv) + 1
      /\ \A j \in 1 .. Len(argv) : argv'[j] = argv[j]
      /\ argv'[Len(argv) + 1] = ArrivesAs(ars[l])
  <2>1. ArrivesAs(ars[l]) \in Arrivals
    BY <1>2, <1>3 DEF ArrivesAs, Arrivals
  <2>2. argv \in Seq(Arrivals)
    BY DEF MarshalShape
  <2>3. QED
    BY <1>5, <2>1, <2>2, AppendProperties
<1>7. SentUpTo(l)'
  <2>1. Len(argv) = l - 1 + 1 /\ \A j \in 1 .. l - 1 : argv[j + 1] = ArrivesAs(ars[j])
    BY <1>4 DEF SentUpTo
  <2>2. Len(argv) = l
    BY <2>1
  <2>3. ASSUME NEW j \in 1 .. l PROVE argv'[j + 1] = ArrivesAs(ars[j])
    <3>1. CASE j = l
      BY <1>6, <2>2, <3>1
    <3>2. CASE j # l
      <4>1. j \in 1 .. l - 1 /\ j + 1 \in 1 .. Len(argv)
        BY <2>2, <2>3, <3>2
      <4>2. QED
        BY <1>6, <2>1, <4>1
    <3>3. QED
      BY <3>1, <3>2
  <2>4. ars' = ars /\ \A j \in 1 .. l : ArrivesAs(ars[j])' = ArrivesAs(ars[j])
    BY <1>1 DEF ArrivesAs, Binary, CString
  <2>5. QED
    BY <1>6, <2>2, <2>3, <2>4 DEF SentUpTo
<1>8. /\ slots' \in Seq(Slot) /\ Len(slots') = Len(slots) - Taken
      /\ \A m \in 1 .. Len(slots) - Taken : slots'[m] = slots[Taken + m]
  <2>1. slots \in Seq(Slot) /\ Taken \in {1, 2}
    BY <1>2 DEF MarshalShape
  <2>2. \A m \in Taken + 1 .. Len(slots) : slots[m] \in Slot
    BY <1>2, <2>1, ElementOfSeq
  <2>3. /\ slots' \in Seq(Slot)
        /\ Len(slots') = IF Taken + 1 <= Len(slots) THEN Len(slots) - (Taken + 1) + 1 ELSE 0
        /\ \A m \in 1 .. Len(slots) - (Taken + 1) + 1 : slots'[m] = slots[(Taken + 1) + m - 1]
    BY <1>1, <1>2, <2>1, <2>2, SubSeqProperties
  <2>4. Len(slots') = Len(slots) - Taken
    <3>1. CASE Taken + 1 <= Len(slots)
      BY <1>2, <2>1, <2>3, <3>1
    <3>2. CASE ~(Taken + 1 <= Len(slots))
      <4>1. Taken \in Nat /\ Len(slots) \in Nat /\ Taken <= Len(slots)
        BY <1>2, <2>1
      <4>2. Taken = Len(slots)
        BY <3>2, <4>1
      <4>3. QED
        BY <2>3, <3>2, <4>1, <4>2
    <3>3. QED
      BY <3>1, <3>2
  <2>5. ASSUME NEW m \in 1 .. Len(slots) - Taken PROVE slots'[m] = slots[Taken + m]
    BY <1>2, <2>1, <2>3
  <2>6. QED
    BY <2>3, <2>4, <2>5
<1>9. SlotsFrom(l + 1, Len(ars))'
  <2>1. CASE Binary
    <3>1. Taken = 2 /\ Len(slots) = 2 * (Len(ars) - l + 1)
      BY <1>2, <1>4, <2>1 DEF SlotsFrom
    <3>2. Len(slots') = 2 * (Len(ars) - (l + 1) + 1)
      BY <1>4, <1>8, <3>1
    <3>3. ASSUME NEW m \in l + 1 .. Len(ars)
          PROVE  /\ slots'[2 * (m - (l + 1)) + 1] = Pointer(ars[m])
                 /\ slots'[2 * (m - (l + 1)) + 2] = Size(ars[m])
      <4>1. /\ slots[2 * (m - l) + 1] = Pointer(ars[m])
            /\ slots[2 * (m - l) + 2] = Size(ars[m])
        BY <1>4, <2>1, <3>3 DEF SlotsFrom
      <4>2. /\ 2 * (m - (l + 1)) + 1 \in 1 .. Len(slots) - Taken
            /\ 2 * (m - (l + 1)) + 2 \in 1 .. Len(slots) - Taken
            /\ Taken + (2 * (m - (l + 1)) + 1) = 2 * (m - l) + 1
            /\ Taken + (2 * (m - (l + 1)) + 2) = 2 * (m - l) + 2
        BY <1>4, <3>1, <3>3
      <4>3. /\ slots'[2 * (m - (l + 1)) + 1] = slots[Taken + (2 * (m - (l + 1)) + 1)]
            /\ slots'[2 * (m - (l + 1)) + 2] = slots[Taken + (2 * (m - (l + 1)) + 2)]
        BY <1>8, <4>2
      <4>4. QED
        BY <4>1, <4>2, <4>3
    <3>4. QED
      BY <1>1, <2>1, <3>2, <3>3 DEF SlotsFrom, Binary, Pointer, Size
  <2>2. CASE ~Binary
    <3>1. Taken = 1 /\ Len(slots) = Len(ars) - l + 1
      BY <1>2, <1>4, <2>2 DEF SlotsFrom
    <3>2. Len(slots') = Len(ars) - (l + 1) + 1
      BY <1>4, <1>8, <3>1
    <3>3. ASSUME NEW m \in l + 1 .. Len(ars)
          PROVE  slots'[m - (l + 1) + 1] = Pointer(ars[m])
      <4>1. slots[m - l + 1] = Pointer(ars[m])
        BY <1>4, <2>2, <3>3 DEF SlotsFrom
      <4>2. /\ m - (l + 1) + 1 \in 1 .. Len(slots) - Taken
            /\ Taken + (m - (l + 1) + 1) = m - l + 1
        BY <1>4, <3>1, <3>3
      <4>3. QED
        BY <1>8, <4>1, <4>2
    <3>4. QED
      BY <1>1, <2>2, <3>2, <3>3 DEF SlotsFrom, Binary, Pointer, Size
  <2>3. QED
    BY <2>1, <2>2
<1>10. SlotsFrom(idx - 1, Len(ars))' /\ SentUpTo(idx - 2)'
  <2>1. idx' - 1 = l + 1 /\ idx' - 2 = l
    BY <1>1, <1>4
  <2>2. QED
    BY <1>7, <1>9, <2>1 DEF SlotsFrom, SentUpTo
<1>11. MarshalShape'
  BY <1>1, <1>6, <1>8 DEF MarshalShape, Binary
<1>12. BuiltUpTo(Len(args))'
  BY <1>1 DEF MarshalProgress, BuiltUpTo, Base, StringsOf, KeyStrings
<1>13. MarshalProgress'
  BY <1>1, <1>4, <1>10, <1>12 DEF MarshalProgress
<1>14. QED
  BY <1>11, <1>13

LEMMA SentStep == ASSUME MarshalInv, Sent PROVE MarshalInv'
<1> USE DEF MarshalInv
<1>1. /\ phase = "read" /\ idx > Len(format) /\ phase' = "sent"
      /\ UNCHANGED <<op, args, idx, format, ars, slots, argv>>
  BY DEF Sent
<1>2. Len(ars) \in Nat /\ idx = Len(ars) + 2
  BY <1>1, LenProperties DEF MarshalShape, MarshalProgress
<1>3. SlotsFrom(Len(ars) + 1, Len(ars)) /\ SentUpTo(Len(ars))
  <2>1. idx - 1 = Len(ars) + 1 /\ idx - 2 = Len(ars)
    BY <1>2
  <2>2. QED
    BY <1>1, <2>1 DEF MarshalProgress
<1>4. slots = <<>>
  <2>1. Len(slots) = 0
    BY <1>2, <1>3 DEF SlotsFrom
  <2>2. QED
    BY <2>1, EmptySeq DEF MarshalShape
<1>5. MarshalShape'
  BY <1>1 DEF MarshalShape, Binary
<1>6. BuiltUpTo(Len(args))'
  BY <1>1 DEF MarshalProgress, BuiltUpTo, Base, StringsOf, KeyStrings
<1>7. SentUpTo(Len(ars))'
  <2>1. \A w : ArrivesAs(w)' = ArrivesAs(w)
    BY <1>1 DEF ArrivesAs, Binary
  <2>2. QED
    BY <1>1, <1>3, <2>1 DEF SentUpTo
<1>8. QED
  BY <1>1, <1>2, <1>4, <1>5, <1>6, <1>7 DEF MarshalProgress

LEMMA MarshalStep == MarshalInv /\ [MarshalNext]_marshalVars => MarshalInv'
<1> SUFFICES ASSUME MarshalInv, [MarshalNext]_marshalVars PROVE MarshalInv'
  OBVIOUS
<1>1. CASE RefuseOper
  <2>1. /\ phase = "build" /\ phase' = "refused"
        /\ UNCHANGED <<op, args, idx, format, ars, slots, argv>>
    BY <1>1 DEF RefuseOper
  <2>2. MarshalShape'
    BY <2>1 DEF MarshalInv, MarshalShape, Binary
  <2>3. QED
    BY <2>1, <2>2 DEF MarshalInv, MarshalProgress
<1>2. CASE UNCHANGED marshalVars
  <2>1. UNCHANGED <<phase, op, args, idx, format, ars, slots, argv>>
    BY <1>2 DEF marshalVars
  <2>2. MarshalShape'
    BY <2>1 DEF MarshalInv, MarshalShape, Binary
  <2>3. /\ BuiltUpTo(idx - 1)' <=> BuiltUpTo(idx - 1)
        /\ BuiltUpTo(Len(args))' <=> BuiltUpTo(Len(args))
    BY <2>1 DEF BuiltUpTo, Base, StringsOf, KeyStrings
  <2>4. /\ SlotsFrom(1, idx - 1)' <=> SlotsFrom(1, idx - 1)
        /\ SlotsFrom(idx - 1, Len(ars))' <=> SlotsFrom(idx - 1, Len(ars))
    BY <2>1 DEF SlotsFrom, Binary, Pointer, Size
  <2>5. /\ SentUpTo(idx - 2)' <=> SentUpTo(idx - 2)
        /\ SentUpTo(Len(ars))' <=> SentUpTo(Len(ars))
    BY <2>1 DEF SentUpTo, ArrivesAs, Binary, CString
  <2>6. QED
    BY <2>1, <2>2, <2>3, <2>4, <2>5 DEF MarshalInv, MarshalProgress
<1>3. QED
  BY <1>1, <1>2, BuildStep, BuiltStep, LayOutStep, CallCommandStep,
     ReadDirectiveStep, SentStep
     DEF MarshalNext, MarshalOver

LEMMA MarshalInvariant == MarshalSpec => []MarshalInv
BY MarshalInitially, MarshalStep, PTL DEF MarshalSpec

\* Type correctness of the way of the arguments.
THEOREM MarshalTypeCorrect == MarshalSpec => []MarshalTypeOK
<1>1. MarshalInv => MarshalTypeOK
  <2> SUFFICES ASSUME MarshalInv PROVE MarshalTypeOK
    OBVIOUS
  <2> USE DEF MarshalInv
  <2>1. Len(ars) \in Nat /\ Len(args) \in Nat /\ Len(format) = Len(ars) + 1
    BY ArgumentsShape, LenProperties DEF MarshalShape
  <2>2. idx \in 1 .. Len(format) + Len(args) + 1
    BY <2>1 DEF MarshalShape, MarshalProgress
  <2>3. QED
    BY <2>1, <2>2 DEF MarshalShape, MarshalTypeOK
<1>2. QED
  BY <1>1, MarshalInvariant, PTL

\* What the server holds of the k-th argument.
LEMMA WordsOfArgument ==
  ASSUME MarshalInv, phase = "sent", NEW k \in 1 .. Len(args),
         NEW j \in 1 .. PerArgument
  PROVE  argv[Base(k) + j + 1] = ArrivesAs(StringsOf(args[k])[j])
<1> USE DEF MarshalInv
<1>1. Len(args) \in Nat /\ PerArgument \in {1, 3, 4}
  BY ArgumentsShape DEF PerArgument
<1>2. BuiltUpTo(Len(args)) /\ SentUpTo(Len(ars))
  BY DEF MarshalProgress
<1>3. Len(StringsOf(args[k])) = PerArgument
  BY StringsOfArgument
<1>4. ars[Base(k) + j] = StringsOf(args[k])[j] /\ Len(ars) = Base(Len(args) + 1)
  BY <1>2, <1>3 DEF BuiltUpTo
<1>5. Base(k) + j \in 1 .. Base(Len(args) + 1)
  BY <1>1 DEF Base, PerArgument
<1>6. QED
  BY <1>2, <1>4, <1>5 DEF SentUpTo

\* exec, exec_binary and mix: the server receives every string of the caller,
\* in order, whole or up to its first NUL.
LEMMA StringsDoArrive == ASSUME MarshalInv PROVE StringsArrive
<1> SUFFICES ASSUME phase = "sent", op \notin VctOpers
             PROVE  Tail(argv) = [k \in 1 .. Len(args) |->
                                    IF Binary THEN args[k] ELSE CString(args[k])]
  BY DEF StringsArrive
<1> USE DEF MarshalInv
<1>1. Len(args) \in Nat
  BY ArgumentsShape
<1>2. Len(argv) = Len(args) + 1
  BY <1>1 DEF MarshalProgress, BuiltUpTo, SentUpTo, Base
<1>3. \A k \in 1 .. Len(args) : argv[k + 1] = ArrivesAs(args[k])
  <2> SUFFICES ASSUME NEW k \in 1 .. Len(args) PROVE argv[k + 1] = ArrivesAs(args[k])
    OBVIOUS
  <2>1. 1 \in 1 .. PerArgument /\ Base(k) + 1 + 1 = k + 1
    BY <1>1 DEF PerArgument, Base
  <2>2. StringsOf(args[k])[1] = args[k]
    BY StringsOfArgument
  <2>3. QED
    BY <2>1, <2>2, WordsOfArgument
<1>4. argv \in Seq(Arrivals) /\ argv # <<>>
  BY <1>1, <1>2 DEF MarshalShape
<1>5. /\ Tail(argv) \in Seq(Arrivals) /\ Len(Tail(argv)) = Len(args)
      /\ \A k \in 1 .. Len(args) : Tail(argv)[k] = argv[k + 1]
  BY <1>1, <1>2, <1>4, HeadTailProperties
<1>6. Tail(argv) \in [1 .. Len(args) -> Arrivals]
  BY <1>5, LenProperties
<1>7. QED
  BY <1>3, <1>5, <1>6 DEF ArrivesAs

\* callvct: the words that the command's count groups are those of one key.
LEMMA KeysDoStayTogether == ASSUME MarshalInv PROVE KeysStayTogether
<1> SUFFICES ASSUME phase = "sent", op \in VctOpers,
                    NEW words, NEW k \in 1 .. Len(args),
                    words = <<CString(args[k].key), Number(args[k].posm),
                              Number(args[k].poss), Number(args[k].time)>>
             PROVE  Group(k) = SubSeq(words, 1, GroupSize)
  <2>1. ASSUME phase = "sent", op \in VctOpers
        PROVE  Len(argv) = Len(args) * GroupSize + 1
    <3>1. Len(args) \in Nat /\ GroupSize \in {3, 4}
      BY ArgumentsShape DEF MarshalInv, GroupSize
    <3>2. Len(argv) = Base(Len(args) + 1) + 1
      BY <2>1 DEF MarshalInv, MarshalProgress, BuiltUpTo, SentUpTo
    <3>3. CASE op = "vo_up"
      BY <2>1, <3>1, <3>2, <3>3 DEF Base, GroupSize
    <3>4. CASE op # "vo_up"
      BY <2>1, <3>1, <3>2, <3>4 DEF Base, GroupSize
    <3>5. QED
      BY <3>3, <3>4
  <2>2. QED
    BY <2>1 DEF KeysStayTogether
<1> USE DEF MarshalInv
<1>1. /\ Len(args) \in Nat /\ ~Binary
      /\ PerArgument = GroupSize /\ GroupSize \in {3, 4}
      /\ (k - 1) * GroupSize = Base(k)
      /\ k * GroupSize = Base(k) + GroupSize /\ Base(k) \in Nat
  <2>1. ~Binary
    BY DEF Binary, VctOpers, vct_oper_to_cmd
  <2>2. CASE op = "vo_up"
    BY <2>1, <2>2, ArgumentsShape DEF PerArgument, GroupSize, Base
  <2>3. CASE op # "vo_up"
    BY <2>1, <2>3, ArgumentsShape DEF PerArgument, GroupSize, Base
  <2>4. QED
    BY <2>2, <2>3
<1>2. /\ args[k] \in VctKey
      /\ StringsOf(args[k])[1] = args[k].key
      /\ StringsOf(args[k])[2] = Number(args[k].posm)
      /\ StringsOf(args[k])[3] = Number(args[k].poss)
      /\ op = "vo_up" => StringsOf(args[k])[4] = Number(args[k].time)
  BY StringsOfArgument
<1>3. /\ CString(Number(args[k].posm)) = Number(args[k].posm)
      /\ CString(Number(args[k].poss)) = Number(args[k].poss)
      /\ CString(Number(args[k].time)) = Number(args[k].time)
  BY <1>2, NumberIsWord DEF VctKey
<1>4. \A j \in 1 .. GroupSize : argv[Base(k) + j + 1] = words[j]
  <2> SUFFICES ASSUME NEW j \in 1 .. GroupSize PROVE argv[Base(k) + j + 1] = words[j]
    OBVIOUS
  <2>1. argv[Base(k) + j + 1] = CString(StringsOf(args[k])[j])
    BY <1>1, WordsOfArgument DEF ArrivesAs
  <2>2. j \in 1 .. 3 \/ (j = 4 /\ op = "vo_up")
    BY DEF GroupSize
  <2>3. CString(StringsOf(args[k])[j]) = words[j]
    BY <1>2, <1>3, <2>2
  <2>4. QED
    BY <2>1, <2>3
<1>5. Group(k) = SubSeq(argv, Base(k) + 2, Base(k) + GroupSize + 1)
  BY <1>1 DEF Group
<1>6. SubSeq(argv, Base(k) + 2, Base(k) + GroupSize + 1) = SubSeq(words, 1, GroupSize)
  <2>1. PICK b \in Nat : b = Base(k) + 1
    BY <1>1
  <2>2. GroupSize \in Nat /\ b + 1 = Base(k) + 2 /\ b + GroupSize = Base(k) + GroupSize + 1
    BY <1>1, <2>1
  <2>3. \A j \in 1 .. GroupSize : argv[b + j] = words[j]
    <3> SUFFICES ASSUME NEW j \in 1 .. GroupSize PROVE argv[b + j] = words[j]
      OBVIOUS
    <3>1. b + j = Base(k) + j + 1
      BY <1>1, <2>1
    <3>2. QED
      BY <1>4, <3>1
  <2>4. SubSeq(argv, b + 1, b + GroupSize) = SubSeq(words, 1, GroupSize)
    <3>1. PICK g \in Nat : g = GroupSize
      BY <2>2
    <3>2. \A j \in 1 .. g : argv[b + j] = words[j]
      BY <2>3, <3>1
    <3>3. SubSeq(argv, b + 1, b + g) = SubSeq(words, 1, g)
      BY <3>2, SameParts
    <3>4. QED
      BY <3>1, <3>3
  <2>5. QED
    BY <2>2, <2>4
<1>7. QED
  BY <1>5, <1>6

\* Whatever the operation, the strings, the keys and their number, the server
\* receives what was meant (exec, exec_binary, mix, callvct, redis_command,
\* redis_command_binary).
THEOREM WordsDoArrive == MarshalSpec => []WordsArrive
<1>1. MarshalInv => WordsArrive
  BY StringsDoArrive, KeysDoStayTogether DEF WordsArrive
<1>2. QED
  BY <1>1, MarshalInvariant, PTL

\* hiredis never reads an argument the call does not have, or one of another
\* type, and reads them all (redis_command, redis_command_binary).
THEOREM DirectivesAreServed == MarshalSpec => []EveryDirectiveIsServed
<1>1. MarshalInv => EveryDirectiveIsServed
  BY DirectiveIsServed DEF EveryDirectiveIsServed, MarshalInv, MarshalProgress
<1>2. QED
  BY <1>1, MarshalInvariant, PTL

-----------------------------------------------------------------------------
(* Both ends (MCCallVct)                                                    *)

LEMMA BothEnds == MCSpec => Spec /\ MarshalSpec
<1>1. MCInit => Init /\ MarshalInit
  BY DEF MCInit
<1>2. [MCNext]_<<work, vars, marshalVars>> => [Next]_vars /\ [MarshalNext]_marshalVars
  BY DEF MCNext
<1>3. QED
  BY <1>1, <1>2, PTL DEF MCSpec, Spec, MarshalSpec

\* Every variable of either end holds a value of its type, and a reply is freed
\* once, on the way out.
THEOREM CallTypeCorrect == MCSpec => []CallTypeOK
BY BothEnds, CallVctTypeCorrect, FreesReply, MarshalTypeCorrect, PTL DEF CallTypeOK
=============================================================================
