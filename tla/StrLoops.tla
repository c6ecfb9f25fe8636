------------------------------ MODULE StrLoops ------------------------------
(***************************************************************************)
(* The two loops over a string of src/base.h: str_find and replace_all.    *)
(* A string is a sequence of characters; positions count from 0 as in the  *)
(* code, -1 is str_find's "not there".                                     *)
(***************************************************************************)
EXTENDS Integers, Sequences

CONSTANTS
  Char,      \* characters
  MaxLen,    \* bound: length of the strings explored
  MaxRounds  \* bound: rounds of replace_all

ASSUME LoopAssumption == MaxLen \in Nat /\ MaxRounds \in Nat

Strings == UNION {[1 .. l -> Char] : l \in 0 .. MaxLen}

VARIABLES
  pc,      \* str_find, found, replace_all, replaced
  given,   \* history: the arguments
  str,     \* the string, which replace_all changes in place
  at,      \* i of str_find, start_pos of replace_all
  result,  \* what str_find returns
  rounds   \* rounds of replace_all so far

vars == <<pc, given, str, at, result, rounds>>

Init ==
  /\ given \in [str : Strings, sub : Strings, to : Strings, pos : -1 .. MaxLen]
  /\ \/ pc = "str_find" /\ given.to = <<>> /\ at = given.pos
     \/ pc = "replace_all" /\ given.pos = 0 /\ at = 0
  /\ str = given.str /\ result = -1 /\ rounds = 0

\* from (or sub) stands in str at position p.
OccursAt(s, p) ==
  /\ p + Len(given.sub) <= Len(s)
  /\ \A j \in 1 .. Len(given.sub) : s[p + j] = given.sub[j]

-----------------------------------------------------------------------------
(* str_find                                                                 *)

Returns(i) ==
  /\ pc' = "found" /\ result' = i
  /\ UNCHANGED <<given, str, at, rounds>>

OutOfRange ==
  /\ pc = "str_find"
  /\ given.pos < 0 \/ given.pos >= Len(str)
  /\ Returns(-1)

Searching == pc = "str_find" /\ given.pos \in 0 .. Len(str) - 1

\* Faulty variant: the search ends before the last place.
TooShortEarly(i) == Len(str) - i - 2 < Len(given.sub)

\* What is left is too short, by a count that leaves out the last place.
TooShort(i) == Len(str) - i - 1 < Len(given.sub)

\* The loop never gets as far as its condition: with one character left it is
\* too short, or sub is empty and found.
GiveUp == Searching /\ TooShort(at) /\ Returns(-1)

Matches(i) == OccursAt(str, i)

Found == Searching /\ ~TooShort(at) /\ Matches(at) /\ Returns(at)

NextPlace ==
  /\ Searching /\ ~TooShort(at) /\ ~Matches(at)
  /\ at' = at + 1
  /\ UNCHANGED <<pc, given, str, result, rounds>>

str_find == OutOfRange \/ GiveUp \/ Found \/ NextPlace

-----------------------------------------------------------------------------
(* replace_all                                                              *)

\* str.find(from, start_pos)
Occurrences == {p \in at .. Len(str) - Len(given.sub) : OccursAt(str, p)}
First == CHOOSE p \in Occurrences : \A q \in Occurrences : p <= q

Replaced(p) ==
  SubSeq(str, 1, p) \o given.to \o SubSeq(str, p + Len(given.sub) + 1, Len(str))

\* Faulty variant: the search goes on inside of what was inserted.
ReplaceOverlapping ==
  /\ pc = "replace_all" /\ Occurrences # {} /\ rounds < MaxRounds
  /\ str' = Replaced(First) /\ at' = First
  /\ rounds' = rounds + 1
  /\ UNCHANGED <<pc, given, result>>

Replace ==
  /\ pc = "replace_all" /\ Occurrences # {} /\ rounds < MaxRounds
  /\ str' = Replaced(First) /\ at' = First + Len(given.to)
  /\ rounds' = rounds + 1
  /\ UNCHANGED <<pc, given, result>>

NoMore ==
  /\ pc = "replace_all" /\ Occurrences = {}
  /\ pc' = "replaced"
  /\ UNCHANGED <<given, str, at, result, rounds>>

replace_all == Replace \/ NoMore

Stopped == (pc \in {"found", "replaced"} \/ rounds = MaxRounds) /\ UNCHANGED vars

Next == str_find \/ replace_all \/ Stopped

Spec == Init /\ [][Next]_vars

\* The loops run on until they return.
FairSpec == Spec /\ WF_vars(str_find \/ replace_all)

-----------------------------------------------------------------------------
(* Properties *)

\* Every variable holds a value of its type; the loops stay inside the string.
LoopTypeOK ==
  /\ pc \in {"str_find", "found", "replace_all", "replaced"}
  /\ given \in [str : Seq(Char), sub : Seq(Char), to : Seq(Char), pos : Int]
  /\ str \in Seq(Char)
  /\ at \in Int /\ (at <= Len(str) \/ at = given.pos)
  /\ result \in -1 .. Len(str) - 1 /\ rounds \in 0 .. MaxRounds

\* str_find returns the first occurrence from pos on, or -1 when there is none
\* or pos is no position; the one it cannot see is an occurrence that ends the
\* string, and then there is no other (str_find).
Seen == {p \in 0 .. Len(given.str) - 1 : p >= given.pos /\ OccursAt(given.str, p)}

FindIsFirst ==
  pc = "found" =>
    IF result = -1
    THEN given.pos >= 0 => \A p \in Seen : p + Len(given.sub) = Len(given.str)
    ELSE result \in Seen /\ \A p \in Seen : result <= p

\* What is left of the given string from place i on when the occurrences of
\* from are replaced from left to right, read off the string that does not
\* change.
Left[i \in 0 .. Len(given.str)] ==
  IF i + Len(given.sub) > Len(given.str) THEN SubSeq(given.str, i + 1, Len(given.str))
  ELSE IF OccursAt(given.str, i) THEN given.to \o Left[i + Len(given.sub)]
  ELSE <<given.str[i + 1]>> \o Left[i + 1]

Substituted == Left[0]

\* When replace_all returns, every occurrence of from in what it was given is
\* replaced, and nothing else: also where to contains from, or makes up an
\* occurrence together with what stands next to it (replace_all).
ReplacesGiven == pc = "replaced" => given.sub # <<>> /\ str = Substituted

\* Both loops return, also where to contains from; only the replacement of
\* the empty string goes on for ever (str_find, replace_all).
LoopsEnd ==
  \/ pc = "replace_all" /\ given.sub = <<>>
  \/ <>(pc \in {"found", "replaced"})
=============================================================================
