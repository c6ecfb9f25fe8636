------------------------------- MODULE CallVct -------------------------------
(***************************************************************************)
(* What callvct (src/yrep_redis_caller.h) makes of the reply that ended    *)
(* its loop: an array of key, a, b, commit, four elements per key, which   *)
(* it turns into vct_value messages (dep/vctn.proto) and appends to the    *)
(* vector of its caller.  callvct returns nothing: the vector is all its   *)
(* caller learns.  The loop before that is RedisCaller's.                  *)
(***************************************************************************)
EXTENDS Integers, Sequences

CONSTANTS
  Keys,     \* keys a reply can name
  Numbers,  \* integers a reply can carry
  Unset,    \* a field of a message that was not set
  Replies,  \* the replies explored: arrays, and NotArray
  NotArray, \* a reply of another type
  Vectors   \* what the caller's vector can hold before the call

Element == [type : {"string"}, key : Keys]
           \cup [type : {"integer"}, integer : Numbers]
           \cup [type : {"other"}]

\* vct_value with its main_; pos_ is a message of its own in vctn.proto.
Message == [key : Keys \cup {Unset}, a : Numbers \cup {Unset},
            b : Numbers \cup {Unset}, commit : BOOLEAN \cup {Unset},
            pos : {Unset}, commit_count : {Unset}]

NewMessage == [key |-> Unset, a |-> Unset, b |-> Unset, commit |-> Unset,
               pos |-> Unset, commit_count |-> Unset]

ASSUME CallVctAssumption ==
  /\ Numbers \subseteq Int
  /\ Replies \subseteq Seq(Element) \cup {NotArray}
  /\ NotArray \notin Seq(Element)
  /\ Vectors \subseteq Seq(Message)

VARIABLES
  pc,      \* reply, key, number, returned
  reply,   \* re
  i, n,    \* indexes of the two loops
  vctv,    \* the message being filled
  vctvs,   \* the caller's vector
  before,  \* history: the vector before the call
  frees    \* history: calls of freeReplyObject

vars == <<pc, reply, i, n, vctv, vctvs, before, frees>>

Init ==
  /\ pc = "reply"
  /\ reply \in Replies
  /\ i = 0 /\ n = 1
  /\ vctv = NewMessage
  /\ vctvs \in Vectors
  /\ before = vctvs
  /\ frees = 0

\* Every way out frees the reply.
Return ==
  /\ frees' = frees + 1
  /\ pc' = "returned"
  /\ UNCHANGED <<reply, i, n, vctv, vctvs, before>>

\* Not an array, or not four elements per key: nothing is read.
Malformed == IF reply = NotArray THEN TRUE ELSE Len(reply) % 4 # 0

Refuse == pc = "reply" /\ Malformed /\ Return

Enter ==
  /\ pc = "reply" /\ ~Malformed
  /\ pc' = "key"
  /\ UNCHANGED <<reply, i, n, vctv, vctvs, before, frees>>

\* A new message for every quadruple.
ReadKey ==
  /\ pc = "key" /\ i < Len(reply)
  /\ reply[i + 1].type = "string"
  /\ vctv' = [NewMessage EXCEPT !.key = reply[i + 1].key]
  /\ n' = 1
  /\ pc' = "number"
  /\ UNCHANGED <<reply, i, vctvs, before, frees>>

\* set_commit_ takes a bool: any number but 0 becomes TRUE.
Filled(m, k, number) ==
  CASE k = 1 -> [m EXCEPT !.a = number]
    [] k = 2 -> [m EXCEPT !.b = number]
    [] OTHER -> [m EXCEPT !.commit = number # 0]

ReadNumber ==
  /\ pc = "number" /\ n < 4
  /\ reply[i + n + 1].type = "integer"
  /\ vctv' = Filled(vctv, n, reply[i + n + 1].integer)
  /\ n' = n + 1
  /\ UNCHANGED <<pc, reply, i, vctvs, before, frees>>

\* Faulty variant: the index moves on by the elements read, without the key.
PushOffByOne ==
  /\ pc = "number" /\ n = 4
  /\ vctvs' = Append(vctvs, vctv)
  /\ i' = i + 3
  /\ pc' = "key"
  /\ UNCHANGED <<reply, n, vctv, before, frees>>

Push ==
  /\ pc = "number" /\ n = 4
  /\ vctvs' = Append(vctvs, vctv)
  /\ i' = i + 4
  /\ pc' = "key"
  /\ UNCHANGED <<reply, n, vctv, before, frees>>

\* An element of another type ends the call; what was pushed stays.
Stop ==
  /\ \/ pc = "key" /\ i < Len(reply) /\ reply[i + 1].type # "string"
     \/ pc = "number" /\ n < 4 /\ reply[i + n + 1].type # "integer"
  /\ Return

Finish == pc = "key" /\ i >= Len(reply) /\ Return

Returned == pc = "returned" /\ UNCHANGED vars

Next ==
  \/ Refuse \/ Enter
  \/ ReadKey \/ ReadNumber \/ Push
  \/ Stop \/ Finish
  \/ Returned

Spec == Init /\ [][Next]_vars

-----------------------------------------------------------------------------
(* Properties *)

\* Every variable holds a value of its type.
CallVctTypeOK ==
  /\ pc \in {"reply", "key", "number", "returned"}
  /\ reply \in Seq(Element) \cup {NotArray}
  /\ i \in Nat /\ n \in 1 .. 4
  /\ vctv \in Message
  /\ vctvs \in Seq(Message)
  /\ before \in Vectors
  /\ frees \in Nat

\* The message that the four elements from index j on stand for.
ValueAt(j) ==
  [key |-> reply[j + 1].key, a |-> reply[j + 2].integer,
   b |-> reply[j + 3].integer, commit |-> reply[j + 4].integer # 0,
   pos |-> Unset, commit_count |-> Unset]

WellFormedAt(j) ==
  /\ reply[j + 1].type = "string"
  /\ \A k \in 2 .. 4 : reply[j + k].type = "integer"

\* The caller's vector is extended by exactly the messages of the longest
\* well-formed beginning of the reply, in order: nothing of a quadruple
\* that breaks off, nothing after it, nothing twice (callvct).
IsPrefixOfReply(count) ==
  /\ \A g \in 0 .. (count - 1) : WellFormedAt(4 * g)
  /\ Len(vctvs) = Len(before) + count
  /\ \A k \in 1 .. Len(before) : vctvs[k] = before[k]
  /\ \A g \in 0 .. (count - 1) : vctvs[Len(before) + g + 1] = ValueAt(4 * g)

AppendsLongestPrefix ==
  pc = "returned" =>
    IF Malformed THEN vctvs = before
    ELSE \E count \in 0 .. (Len(reply) \div 4) :
           /\ IsPrefixOfReply(count)
           /\ 4 * count < Len(reply) => ~WellFormedAt(4 * count)

\* The reply is freed once on each of the ways out, and only there (callvct).
ReplyFreedOnce == frees = IF pc = "returned" THEN 1 ELSE 0

\* vctn.proto: key_, main_, pos_, a_, b_, commit_ and commit_count_ are
\* required, so a message without one of them is not initialized.
PushedIsInitialized ==
  \A k \in (Len(before) + 1) .. Len(vctvs) :
    \A f \in {"key", "a", "b", "commit", "pos", "commit_count"} :
      vctvs[k][f] # Unset
=============================================================================
