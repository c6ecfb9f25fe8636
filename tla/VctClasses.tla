----------------------------- MODULE VctClasses -----------------------------
(***************************************************************************)
(* What the message classes of VctMessages promise: how a message of each  *)
(* class looks in memory, what stands on the wire between two builds, and  *)
(* which fields vctn.proto requires there.                                 *)
(***************************************************************************)
EXTENDS VctMessages

-----------------------------------------------------------------------------
(* Soundness of a field: with its bit it owns its value, without it is      *)
(* empty.                                                                   *)

SoundPlain(m, bit, f, zero) == bit \notin m.has => m[f] = zero

SoundString(m, bit, f) ==
  IF bit \in m.has THEN m[f] \in Strings ELSE m[f] \in {Shared, Empty}

SoundMessage(m, bit, f, SoundIn(_), ViewOf(_), new) ==
  IF m[f] = Null THEN bit \notin m.has
  ELSE SoundIn(m[f]) /\ (bit \notin m.has => ViewOf(m[f]) = ViewOf(new))

SoundPos(m) == SoundPlain(m, 0, "posm_", 0) /\ SoundPlain(m, 1, "poss_", 0)

SoundValueN(m) ==
  /\ SoundMessage(m, 0, "pos_", SoundPos, vct_pos_View, vct_pos_New)
  /\ SoundPlain(m, 1, "a_", 0) /\ SoundPlain(m, 2, "b_", 0)
  /\ SoundPlain(m, 3, "commit_", FALSE)

SoundValue(m) ==
  /\ SoundString(m, 0, "key_")
  /\ SoundMessage(m, 1, "main_", SoundValueN, vct_value_n_View, vct_value_n_New)
  /\ \A i \in 1 .. Len(m.his_) : SoundValueN(m.his_[i])
  /\ SoundPlain(m, 2, "commit_count_", 0)

SoundKeytable(m) ==
  /\ SoundString(m, 0, "field_") /\ SoundString(m, 1, "route_table_")
  /\ SoundString(m, 2, "route_table_field_")

SoundCol(m) == SoundString(m, 0, "name_") /\ SoundString(m, 1, "value_")

SoundRoute(m) ==
  /\ SoundString(m, 0, "region_") /\ SoundString(m, 1, "area_")
  /\ \A i \in 1 .. Len(m.col_) : SoundCol(m.col_[i])

-----------------------------------------------------------------------------
(* What is on the wire, and what is in memory.  Only a nested message has a  *)
(* body, and what is kept without being known was read to its end.           *)

Tokens(strings, messages, bodies) ==
  {t \in [num : Nat, wire : {"varint", "len"}, val : Int \cup Strings \cup {Null},
          len : Nat, body : bodies, bytes : Nat, cut : BOOLEAN] :
     /\ t.wire = "varint" => t.val \in Int
     /\ t.wire = "len" /\ t.num \in strings => t.val \in Strings
     /\ t.body # <<>> => t.wire = "len" /\ t.num \in messages}

PosTokens == Tokens({}, {}, {<<>>})
ValueNTokens == Tokens({}, {1}, Seq(PosTokens))
ValueTokens == Tokens({1}, {2, 3}, Seq(ValueNTokens))
KeytableTokens == Tokens({1, 2, 3}, {}, {<<>>})
ColTokens == Tokens({1, 2}, {}, {<<>>})
RouteTokens == Tokens({1, 2}, {3}, Seq(ColTokens))

Unknown(varints, lens) ==
  {t \in Tokens({}, {}, {<<>>}) :
     ~t.cut /\ t.num \notin IF t.wire = "varint" THEN varints ELSE lens}

PosMessages ==
  {m \in [has : SUBSET (0 .. 1), unk : Seq(Unknown({1, 2}, {})), size : Nat,
          posm_ : Int, poss_ : Int] : SoundPos(m)}

ValueNMessages ==
  {m \in [has : SUBSET (0 .. 3), unk : Seq(Unknown({2, 3, 5}, {1})), size : Nat,
          pos_ : PosMessages \cup {Null}, a_ : Int, b_ : Int, commit_ : BOOLEAN] :
     SoundValueN(m)}

ValueMessages ==
  {m \in [has : SUBSET (0 .. 2), unk : Seq(Unknown({4}, {1, 2, 3})), size : Nat,
          key_ : Strings \cup {Shared}, main_ : ValueNMessages \cup {Null},
          his_ : Seq(ValueNMessages), commit_count_ : Int] : SoundValue(m)}

KeytableMessages ==
  {m \in [has : SUBSET (0 .. 2), unk : Seq(Unknown({}, {1, 2, 3})), size : Nat,
          field_ : Strings \cup {Shared}, route_table_ : Strings \cup {Shared},
          route_table_field_ : Strings \cup {Shared}] : SoundKeytable(m)}

ColMessages ==
  {m \in [has : SUBSET (0 .. 1), unk : Seq(Unknown({}, {1, 2})), size : Nat,
          name_ : Strings \cup {Shared}, value_ : Strings \cup {Shared}] : SoundCol(m)}

RouteMessages ==
  {m \in [has : SUBSET (0 .. 1), unk : Seq(Unknown({}, {1, 2, 3})), size : Nat,
          region_ : Strings \cup {Shared}, area_ : Strings \cup {Shared},
          col_ : Seq(ColMessages)] : SoundRoute(m)}

ASSUME ClassesAssumption == Null \notin PosMessages \cup ValueNMessages

-----------------------------------------------------------------------------
(* Required fields, on the wire.  The occurrences of a field that is not    *)
(* repeated are one message.                                                *)

There(w, wire, nums) ==
  \A num \in nums : \E i \in 1 .. Len(w) : Tag(w[i], num, wire)

Merged(w, num) ==
  LET body[n \in 0 .. Len(w)] ==
        IF n = 0 THEN <<>>
        ELSE IF Tag(w[n], num, "len") THEN body[n - 1] \o w[n].body ELSE body[n - 1]
  IN  body[Len(w)]

Each(w, num, WholeIn(_)) ==
  \A i \in 1 .. Len(w) : Tag(w[i], num, "len") => WholeIn(w[i].body)

WholePos(w) == There(w, "varint", {1, 2})
WholeValueN(w) ==
  There(w, "varint", {2, 3, 5}) /\ There(w, "len", {1}) /\ WholePos(Merged(w, 1))
WholeValue(w) ==
  /\ There(w, "varint", {4}) /\ There(w, "len", {1, 2})
  /\ WholeValueN(Merged(w, 2)) /\ Each(w, 3, WholeValueN)
WholeKeytable(w) == There(w, "len", {1, 2, 3})
WholeCol(w) == There(w, "len", {1, 2})
WholeRoute(w) == There(w, "len", {1, 2}) /\ Each(w, 3, WholeCol)
=============================================================================
