------------------------------- MODULE StrAlgo -------------------------------
(***************************************************************************)
(* The string helpers of src/base.h that the program uses: split_str and   *)
(* trim, and what they need of std::string.  A string is a sequence of     *)
(* characters; positions count from 0 as in the code, and -1 is the npos   *)
(* an int position becomes.                                                *)
(***************************************************************************)
EXTENDS Integers, Sequences, FiniteSets, FiniteSetsExt

\* sub occurs in str at position p.
Occurs(str, sub, p) ==
  /\ p + Len(sub) <= Len(str)
  /\ \A j \in 1 .. Len(sub) : str[p + j] = sub[j]

Lowest(positions) == IF positions = {} THEN -1 ELSE Min(positions)

\* std::string::find
Find(str, sub, from) ==
  Lowest({p \in from .. (Len(str) - Len(sub)) : Occurs(str, sub, p)})

\* std::string::substr, defined for p <= Len(str)
SubStr(str, p, len) ==
  SubSeq(str, p + 1, IF p + len > Len(str) THEN Len(str) ELSE p + len)

\* The occurrence of key that follows the one at p.
Following(str, key, p) == Find(str, key, p + Len(key))

\* The rounds of split_str's loop from an occurrence of key at p on: what
\* follows every occurrence, up to the next one.
Rounds(str, key) ==
  LET piece[p \in -1 .. Len(str)] ==
        IF p < 0 THEN <<>>
        ELSE LET q == Following(str, key, p)
             IN  <<SubStr(str, p + Len(key),
                          IF q < 0 THEN Len(str) ELSE q - p - Len(key))>>
                 \o piece[q]
  IN  piece

\* oldpos after the loop from there on: the last occurrence it stopped at.
LastRound(str, key) ==
  LET last[p \in -1 .. Len(str)] ==
        IF p < 0 THEN -1
        ELSE LET q == Following(str, key, p) IN IF q < 0 THEN p ELSE last[q]
  IN  last

\* The piece in front of the first occurrence, dropped when it is empty.
Leading(str, key) ==
  IF Find(str, key, 0) > 0 THEN <<SubStr(str, 0, Find(str, key, 0))>> ELSE <<>>

\* Faulty variant: the last piece is always appended.
TrailingAlways(str, key, pieces) ==
  <<SubStr(str, LastRound(str, key)[Find(str, key, 0)] + Len(key), Len(str))>>

\* What is appended after the loop: the whole string when there was no
\* occurrence, nothing otherwise, when the key is one character long.
Trailing(str, key, pieces) ==
  LET len == IF pieces = <<>> THEN 0 ELSE Len(pieces[Len(pieces)])
      old == LastRound(str, key)[Find(str, key, 0)]
  IN  IF old + len < Len(str) - 1
      THEN <<SubStr(str, old + Len(key), Len(str))>>
      ELSE <<>>

split_str(str, key) ==
  IF str = <<>> THEN <<>>
  ELSE LET pieces == Leading(str, key) \o Rounds(str, key)[Find(str, key, 0)]
       IN  pieces \o Trailing(str, key, pieces)

\* Both ends lose the characters of trimstr, here one character.
trim(str, char) ==
  LET kept == {p \in 1 .. Len(str) : str[p] # char}
  IN  IF kept = {} THEN <<>> ELSE SubSeq(str, Min(kept), Max(kept))
=============================================================================
