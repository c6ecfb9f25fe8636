------------------------------ MODULE MCCallVct ------------------------------
(* A call of callvct at its two ends: how its arguments get to the server   *)
(* (Marshal) and what becomes of the reply that comes back (CallVct).  The  *)
(* two share no state, so a behaviour is one of the one or of the other,    *)
(* and the variables of the idle one keep a value its own runs reach.       *)
(* Replies of up to two quadruples, every element of any type; a vector     *)
(* that is empty, or holds a default message as vctvs(vctkeys.size()) does. *)
EXTENDS CallVct, Marshal
CONSTANTS k1

MCElement == [type : {"string"}, key : {k1}]
             \cup [type : {"integer"}, integer : {0, 2}]
             \cup [type : {"other"}]
MCReplies == UNION {[1 .. m -> MCElement] : m \in {0, 1, 3, 4, 5, 8}} \cup {NotArray}
MCVectors == {<<>>, <<NewMessage>>}

VARIABLE work  \* what the behaviour is about: "arguments" or "reply"

MarshalIdle == op = "exec_binary" /\ args = <<>>
CallVctIdle == reply = NotArray /\ vctvs = <<>>

MCInit ==
  \/ work = "reply" /\ MarshalIdle /\ Init /\ MarshalInit
  \/ work = "arguments" /\ CallVctIdle /\ Init /\ MarshalInit

MCNext ==
  \/ work = "reply" /\ Next /\ UNCHANGED <<work, marshalVars>>
  \/ work = "arguments" /\ MarshalNext /\ UNCHANGED <<work, vars>>

MCSpec == MCInit /\ [][MCNext]_<<work, vars, marshalVars>>

\* Every variable of either end holds a value of its type, and a reply is freed
\* once, on the way out.
CallTypeOK == CallVctTypeOK /\ MarshalTypeOK /\ ReplyFreedOnce
=============================================================================
