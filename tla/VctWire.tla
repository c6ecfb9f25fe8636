------------------------------- MODULE VctWire -------------------------------
(***************************************************************************)
(* What the generated message classes (src/vctn.pb.h, src/vctn.pb.cc) are  *)
(* made of: has bits, owned strings and messages, unknown fields, a cached *)
(* size, and the wire format they write and read.  The protobuf runtime    *)
(* is not in the repository; it is modelled as the generated code uses it. *)
(*                                                                         *)
(* A message is a record with its fields, the set has of its has bits, the *)
(* fields unk it does not know, and size (_cached_size_).  A string field  *)
(* holds Shared until it owns a string (all fresh ones point to one global *)
(* empty string), a message field Null until it owns a message.            *)
(*                                                                         *)
(* On the wire a message is a sequence of tokens: field number, wire type, *)
(* and a varint, a string or a nested message behind its length.           *)
(***************************************************************************)
EXTENDS Integers, Sequences

CONSTANTS
  Int64,    \* the integers fields are set to
  Strings,  \* the strings fields are set to
  Empty,    \* the empty one
  Shared,   \* GetEmptyStringAlreadyInited()
  Null      \* nullptr

ASSUME WireAssumption ==
  /\ Int64 \subseteq Int
  /\ Empty \in Strings
  /\ Shared \notin Strings

-----------------------------------------------------------------------------
(* Sizes.  Values below 2^14 and strings of one character are enough to     *)
(* tell the lengths of a varint apart.                                      *)

VarintSize(v) == IF v < 0 THEN 10 ELSE IF v < 128 THEN 1 ELSE 2

LengthDelimitedSize(n) == VarintSize(n) + n

StringLength(s) == IF s \in {Empty, Shared} THEN 0 ELSE 1

Int64Size(v) == VarintSize(v)

StringSize(s) == LengthDelimitedSize(StringLength(s))

-----------------------------------------------------------------------------
(* Tokens.  bytes is the space a token takes, whatever length it claims;    *)
(* a token is cut when the input ends behind its tag.                       *)

Total(sizes) ==
  LET total[n \in 0 .. Len(sizes)] == IF n = 0 THEN 0 ELSE total[n - 1] + sizes[n]
  IN  total[Len(sizes)]

TotalBytes(tokens) == Total([i \in 1 .. Len(tokens) |-> tokens[i].bytes])

WriteInt64(num, v) ==
  [num |-> num, wire |-> "varint", val |-> v, len |-> 0, body |-> <<>>,
   bytes |-> 1 + VarintSize(v), cut |-> FALSE]

WriteBool(num, b) == WriteInt64(num, IF b THEN 1 ELSE 0)

WriteString(num, s) ==
  [num |-> num, wire |-> "len", val |-> s, len |-> StringLength(s),
   body |-> <<>>, bytes |-> 1 + StringSize(s), cut |-> FALSE]

\* The length in front of a nested message is its cached size.
WriteMessage(num, m, tokens) ==
  [num |-> num, wire |-> "len", val |-> Null, len |-> m.size, body |-> tokens,
   bytes |-> 1 + VarintSize(m.size) + TotalBytes(tokens), cut |-> FALSE]

\* The fields that are written, and the space they take, if they are there.
Token(m, bit, token) == IF bit \in m.has THEN <<token>> ELSE <<>>

Space(m, bit, n) == IF bit \in m.has THEN n ELSE 0

\* One token for every element of a repeated field.
WriteRepeated(num, elements, Serialize(_)) ==
  [i \in 1 .. Len(elements) |->
     WriteMessage(num, elements[i], Serialize(elements[i]))]

RepeatedSize(elements) ==
  Total([i \in 1 .. Len(elements) |-> 1 + LengthDelimitedSize(elements[i].size)])

ForEach(elements, Op(_)) == [i \in 1 .. Len(elements) |-> Op(elements[i])]

-----------------------------------------------------------------------------
(* Fields in memory                                                         *)

\* GetNoArena: the text of a string field.
Text(s) == IF s = Shared THEN Empty ELSE s

\* ClearToEmptyNoArena: a string that is owned is kept and emptied.
Emptied(s) == IF s = Shared THEN Shared ELSE Empty

Put(m, bit, f, v) == [m EXCEPT !.has = @ \cup {bit}, ![f] = v]

Unset(m, bit, f, v) == [m EXCEPT !.has = @ \ {bit}, ![f] = v]

\* mutable_x(): the message is made when it is not there yet.
Mutable(m, bit, f, new) == Put(m, bit, f, IF m[f] = Null THEN new ELSE m[f])

\* Merging: a field the other message has replaces this one's.
Taken(m, from, bit, f) == IF bit \in from.has THEN from[f] ELSE m[f]

\* AssignWithDefault: nothing when both point to the same string.
TakenString(m, from, bit, f) ==
  IF bit \in from.has /\ from[f] # m[f] THEN Text(from[f]) ELSE m[f]

\* Every call of the accessors of a field, as the messages it can leave.
\* release_x() of a string leaves what set_allocated_x(nullptr) leaves.
IntField(m, bit, f) ==
  {Put(m, bit, f, v) : v \in Int64} \cup {Unset(m, bit, f, 0)}

BoolField(m, bit, f) ==
  {Put(m, bit, f, v) : v \in BOOLEAN} \cup {Unset(m, bit, f, FALSE)}

StringField(m, bit, f) ==
  {Put(m, bit, f, s) : s \in Strings}
    \cup {Put(m, bit, f, Text(m[f])),
          Unset(m, bit, f, Emptied(m[f])), Unset(m, bit, f, Shared)}

\* clear_x() empties a message that is owned, release_x() gives it away.
MessageField(m, bit, f, new, Clear(_), Access(_)) ==
  {Mutable(m, bit, f, new), Put(m, bit, f, new), Unset(m, bit, f, Null),
   Unset(m, bit, f, IF m[f] = Null THEN Null ELSE Clear(m[f]))}
    \cup {Put(m, bit, f, x) : x \in Access(Mutable(m, bit, f, new)[f])}

RepeatedField(m, f, new, Access(_)) ==
  {[m EXCEPT ![f] = Append(@, new)], [m EXCEPT ![f] = <<>>]}
    \cup UNION {{[m EXCEPT ![f][i] = x] : x \in Access(m[f][i])} :
                  i \in 1 .. Len(m[f])}

-----------------------------------------------------------------------------
(* Reading.  A token either is stored or ends the parse; a has bit is set   *)
(* before the value is read.                                                *)

Read(m) == [ok |-> TRUE, msg |-> m]
Failed(m) == [ok |-> FALSE, msg |-> m]

Tag(t, num, wire) == t.num = num /\ t.wire = wire

ReadInt64(m, bit, f, t) ==
  IF t.cut THEN Failed(Put(m, bit, f, m[f])) ELSE Read(Put(m, bit, f, t.val))

ReadBool(m, bit, f, t) ==
  IF t.cut THEN Failed(Put(m, bit, f, m[f])) ELSE Read(Put(m, bit, f, t.val # 0))

ReadString(m, bit, f, t) ==
  IF t.cut THEN Failed(Put(m, bit, f, Text(m[f]))) ELSE Read(Put(m, bit, f, t.val))

\* SkipField: a field that is not known is kept.
SkipField(m, t) ==
  IF t.cut THEN Failed(m) ELSE Read([m EXCEPT !.unk = Append(@, t)])

\* The loop of MergePartialFromCodedStream: up to the end of the input or
\* to the first failure.  Field is the switch inside it.
Loop(Field(_, _), m, tokens) ==
  LET after[n \in 0 .. Len(tokens)] ==
        IF n = 0 THEN Read(m)
        ELSE LET r == after[n - 1] IN IF r.ok THEN Field(r.msg, tokens[n]) ELSE r
  IN  after[Len(tokens)]

ReadMessage(m, bit, f, new, MergePartial(_, _), t) ==
  LET mutable == Mutable(m, bit, f, new)
      r == MergePartial(mutable[f], IF t.cut THEN <<>> ELSE t.body)
  IN [ok |-> r.ok /\ ~t.cut, msg |-> [mutable EXCEPT ![f] = r.msg]]

\* The same into a new element of a repeated field.
ReadElement(m, f, new, MergePartial(_, _), t) ==
  LET r == MergePartial(new, IF t.cut THEN <<>> ELSE t.body)
  IN [ok |-> r.ok /\ ~t.cut, msg |-> [m EXCEPT ![f] = Append(@, r.msg)]]
=============================================================================
