------------------------------ MODULE VctObjects ------------------------------
(***************************************************************************)
(* A program that holds message objects of one class and calls their       *)
(* functions in any order: accessors, Clear, MergeFrom, CopyFrom, copy     *)
(* construction, moving, Swap, ByteSizeLong, and parsing what an object of *)
(* the same class, in this or another build, has written, also when the    *)
(* input breaks off.  The class is one of those whose messages are not     *)
(* only a part of others.                                                  *)
(***************************************************************************)
EXTENDS VctClasses

CONSTANTS
  Objects,          \* the objects the program holds, of one class
  ValueForeign,     \* inputs another build wrote for vct_value
  KeytableForeign,  \* for keytable_value
  RouteForeign,     \* for route_value
  MaxCalls          \* bound: calls made

ASSUME ObjectsAssumption ==
  /\ MaxCalls \in Nat
  /\ ValueForeign \subseteq Seq(ValueTokens)
  /\ KeytableForeign \subseteq Seq(KeytableTokens)
  /\ RouteForeign \subseteq Seq(RouteTokens)

-----------------------------------------------------------------------------
(* The virtual functions: the class of a message is known by its fields.    *)

Virtual(m, Value(_), Keytable(_), Route(_)) ==
  IF "key_" \in DOMAIN m THEN Value(m)
  ELSE IF "field_" \in DOMAIN m THEN Keytable(m) ELSE Route(m)

Defaults == {vct_value_New, keytable_value_New, route_value_New}
New(m) ==
  Virtual(m, LAMBDA x : vct_value_New, LAMBDA x : keytable_value_New,
             LAMBDA x : route_value_New)
Copy(m) == Virtual(m, vct_value_Copy, keytable_value_Copy, route_value_Copy)
Clear(m) == Virtual(m, vct_value_Clear, keytable_value_Clear, route_value_Clear)
MergeFrom(m, from) ==
  Virtual(m, LAMBDA x : vct_value_MergeFrom(x, from),
             LAMBDA x : keytable_value_MergeFrom(x, from),
             LAMBDA x : route_value_MergeFrom(x, from))
IsInitialized(m) ==
  Virtual(m, vct_value_IsInitialized, keytable_value_IsInitialized,
             route_value_IsInitialized)
MergePartial(m, w) ==
  Virtual(m, LAMBDA x : vct_value_MergePartial(x, w),
             LAMBDA x : keytable_value_MergePartial(x, w),
             LAMBDA x : route_value_MergePartial(x, w))
Serialize(m) ==
  Virtual(m, vct_value_Serialize, keytable_value_Serialize, route_value_Serialize)
ByteSizeLong(m) ==
  Virtual(m, vct_value_ByteSizeLong, keytable_value_ByteSizeLong,
             route_value_ByteSizeLong)
View(m) == Virtual(m, vct_value_View, keytable_value_View, route_value_View)
Access(m) == Virtual(m, vct_value_Access, keytable_value_Access, route_value_Access)
Sound(m) == Virtual(m, SoundValue, SoundKeytable, SoundRoute)
Whole(m, w) ==
  Virtual(m, LAMBDA x : WholeValue(w), LAMBDA x : WholeKeytable(w),
             LAMBDA x : WholeRoute(w))
Foreign(m) ==
  Virtual(m, LAMBDA x : ValueForeign, LAMBDA x : KeytableForeign,
             LAMBDA x : RouteForeign)

-----------------------------------------------------------------------------
VARIABLES
  obj,     \* the objects
  parsed,  \* what the last parse into each object returned; none since changed
  calls    \* calls made

vars == <<obj, parsed, calls>>

Init ==
  /\ \E m \in Defaults : obj = [o \in Objects |-> m]
  /\ parsed = [o \in Objects |-> "none"]
  /\ calls = 0

Call == calls < MaxCalls /\ calls' = calls + 1

Becomes(o, m) ==
  /\ Call
  /\ obj' = [obj EXCEPT ![o] = m]
  /\ parsed' = [parsed EXCEPT ![o] = "none"]

CallAccessor(o) == \E m \in Access(obj[o]) : Becomes(o, m)

CallClear(o) == Becomes(o, Clear(obj[o]))

CallMergeFrom(o, p) == o # p /\ Becomes(o, MergeFrom(obj[o], obj[p]))

\* Faulty variant: what is in the message already stays.
CopiedOnto(m, from) == MergeFrom(m, from)

\* CopyFrom: nothing when it is the same object.
Copied(m, from) == MergeFrom(Clear(m), from)

CallCopyFrom(o, p) == o # p /\ Becomes(o, Copied(obj[o], obj[p]))

\* o is destroyed and constructed again as a copy of p.
CallCopy(o, p) == o # p /\ Becomes(o, Copy(obj[p]))

\* InternalSwap exchanges everything but the cached sizes.
CallSwap(o, p) ==
  /\ o # p
  /\ Call
  /\ obj' = [obj EXCEPT ![o] = [obj[p] EXCEPT !.size = obj[o].size],
                        ![p] = [obj[o] EXCEPT !.size = obj[p].size]]
  /\ parsed' = [parsed EXCEPT ![o] = "none", ![p] = "none"]

\* The move constructor: o is destroyed, made anew, and swapped with p.
CallMove(o, p) ==
  /\ o # p
  /\ Call
  /\ obj' = [obj EXCEPT ![o] = [obj[p] EXCEPT !.size = 0],
                        ![p] = [New(obj[p]) EXCEPT !.size = obj[p].size]]
  /\ parsed' = [parsed EXCEPT ![o] = "none", ![p] = "none"]

CallByteSizeLong(o) ==
  /\ Call
  /\ obj' = [obj EXCEPT ![o] = ByteSizeLong(@)]
  /\ UNCHANGED parsed

\* SerializePartialToString: the sizes first, then the fields.
Wire(m) == Serialize(ByteSizeLong(m))

\* Where an input can break off: between two tokens, or inside the last one.
Broken(w) ==
  {SubSeq(w, 1, n) : n \in 0 .. Len(w)}
    \cup {[SubSeq(w, 1, n) EXCEPT ![n].cut = TRUE] : n \in 1 .. Len(w)}
    \cup {[SubSeq(w, 1, n) EXCEPT ![n].body = SubSeq(w[n].body, 1, 1),
                                  ![n].body[1].cut = TRUE] :
            n \in {i \in 1 .. Len(w) : w[i].body # <<>>}}

\* ParseFromString, or without the Clear MergeFromString: the object keeps
\* what was read before a failure.
CallParse(o, m, w) ==
  LET r == MergePartial(m, w)
  IN /\ Call
     /\ obj' = [obj EXCEPT ![o] = r.msg]
     /\ parsed' = [parsed EXCEPT ![o] =
                     IF r.ok /\ IsInitialized(r.msg) THEN "ok" ELSE "failed"]

CallParseAny(o) ==
  \E w \in Foreign(obj[o]) \cup UNION {Broken(Wire(obj[p])) : p \in Objects \ {o}} :
    \E m \in {obj[o], Clear(obj[o])} : CallParse(o, m, w)

Next ==
  \E o \in Objects :
    \/ CallAccessor(o) \/ CallClear(o) \/ CallByteSizeLong(o) \/ CallParseAny(o)
    \/ \E p \in Objects :
         \/ CallMergeFrom(o, p) \/ CallCopyFrom(o, p) \/ CallCopy(o, p)
         \/ CallSwap(o, p) \/ CallMove(o, p)

Spec == Init /\ [][Next]_vars

-----------------------------------------------------------------------------
(* Properties *)

\* The type invariant, and more: has bits and storage agree at every level,
\* whatever was called and however a parse ended.  A field with its bit set
\* owns its string or message, so that Clear() and the writers may reach
\* through the pointer without a test (they would otherwise empty the string
\* all fresh messages share), and one without it is empty, which is why
\* Clear() need not touch it (Clear, SharedCtor).
BitsMatchStorage ==
  /\ \A o \in Objects : Sound(obj[o]) /\ obj[o].size \in Nat
  /\ parsed \in [Objects -> {"none", "ok", "failed"}]

\* A new object of the class of m reads w.
Parse(m, w) == MergePartial(New(m), w)

\* Two objects a caller cannot tell apart.
Same(m, n) == View(m) = View(n)

\* What is written can be read, and yields the same message, with the fields
\* this build does not know (SerializeWithCachedSizes against
\* MergePartialFromCodedStream).
RoundTrip ==
  \A o \in Objects :
    LET r == Parse(obj[o], Wire(obj[o])) IN r.ok /\ Same(r.msg, obj[o])

\* Lengths in front of nested messages.
LengthsTrue(w) ==
  \A i \in 1 .. Len(w) :
    w[i].body # <<>> =>
      /\ w[i].len = TotalBytes(w[i].body)
      /\ \A j \in 1 .. Len(w[i].body) :
           LET t == w[i].body[j] IN t.body # <<>> => t.len = TotalBytes(t.body)

\* ByteSizeLong() leaves no stale cached size behind, on neither of its two
\* ways: the space it announces is the space that is written, and so is the
\* length in front of every nested message (ByteSizeLong, _cached_size_).
SizesAreTrue ==
  \A o \in Objects :
    /\ LengthsTrue(Wire(obj[o]))
    /\ ByteSizeLong(obj[o]).size = TotalBytes(Wire(obj[o]))

\* Reading one message behind another merges them, field by field and level by
\* level, as MergeFrom() does without the wire (MergeFrom, mutable_x, add_x).
MergeIsConcatenation ==
  \A o, p \in Objects :
    o # p => Same(Parse(obj[o], Wire(obj[o]) \o Wire(obj[p])).msg,
                  MergeFrom(obj[o], obj[p]))

\* A copy is the original and a cleared object a new one, whatever the object
\* went through (copy constructor, CopyFrom, Clear).
CopiesAreEqual ==
  \A o, p \in Objects :
    /\ Same(Copied(obj[o], obj[p]), obj[p])
    /\ Same(Copy(obj[p]), obj[p])
    /\ Same(Clear(obj[p]), New(obj[p]))

\* A message is accepted exactly when what it writes has every required field
\* at every level, in every element of a repeated field too (IsInitialized).
AcceptedIsWhole ==
  \A o \in Objects :
    /\ IsInitialized(obj[o]) <=> Whole(obj[o], Wire(obj[o]))
    /\ parsed[o] = "ok" => Whole(obj[o], Wire(obj[o]))
=============================================================================
