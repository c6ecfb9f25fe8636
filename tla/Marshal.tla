------------------------------- MODULE Marshal -------------------------------
(***************************************************************************)
(* How an operation of yrep_redis_caller_n (src/yrep_redis_caller.h) gets  *)
(* its arguments to the server: the operation builds a format and a vector *)
(* of strings, redis_command or redis_command_binary lays them out as      *)
(* arguments of a variadic call, hiredis (external) reads them back as the *)
(* format says, and the server (external) groups what it receives.         *)
(***************************************************************************)
EXTENDS Integers, Sequences, FiniteSets

CONSTANTS
  Char,     \* characters but NUL
  NUL,      \* the character that ends a C string
  Times,    \* numbers: positions and times of vct keys
  MaxLen,   \* bound: length of strings
  MaxArgs   \* bound: strings, or vct keys, of an operation

\* A number as std::to_string writes it: no NUL in it.
Number(n) == <<[number |-> n]>>

ASSUME MarshalAssumption ==
  /\ NUL \notin Char
  /\ \A t \in Times : Number(t) # <<NUL>>
  /\ MaxLen \in Nat /\ MaxArgs \in Nat

VARIABLES
  phase,   \* build, layout, read, sent, refused
  op,      \* the operation; for callvct its vct_oper
  args,    \* what the caller passed: strings, or vct keys
  idx,     \* index of the loop
  format,  \* cmd: the word of the command and the directives
  ars,     \* the strings built for them
  slots,   \* arguments of the variadic call behind the format
  argv     \* what hiredis sends

marshalVars == <<phase, op, args, idx, format, ars, slots, argv>>

Strings == UNION {[1 .. l -> Char \cup {NUL}] : l \in 0 .. MaxLen}
SeqsUpTo(S) == UNION {[1 .. n -> S] : n \in 0 .. MaxArgs}
VctKey == [key : Strings, posm : Times, poss : Times, time : Times]

vct_oper_to_cmd ==
  [vo_up |-> "upvct", vo_commit |-> "commitvct", vo_syncup |-> "syncupvct",
   vo_gsyncup |-> "gsyncupvct", vo_synccommit |-> "synccommitvct",
   vo_get |-> "getvct", vo_none |-> ""]

VctOpers == DOMAIN vct_oper_to_cmd

Command == IF op \in VctOpers THEN vct_oper_to_cmd[op] ELSE "cmd"

MarshalInit ==
  /\ phase = "build" /\ idx = 1
  /\ \/ op = "exec" /\ args \in SeqsUpTo(Strings) \ {<<>>}
     \/ op = "exec_binary" /\ args \in SeqsUpTo(Strings)
     \/ op \in VctOpers /\ args \in SeqsUpTo(VctKey)
  /\ format = <<Command>> /\ ars = <<>> /\ slots = <<>> /\ argv = <<>>

-----------------------------------------------------------------------------
(* The operations                                                           *)

\* callvct has no command for vo_none.
RefuseOper ==
  /\ phase = "build" /\ Command = ""
  /\ phase' = "refused"
  /\ UNCHANGED <<op, args, idx, format, ars, slots, argv>>

Binary == op = "exec_binary"

\* The strings of one vct key; only vo_up has the persistent time.
KeyStrings(k) ==
  <<k.key, Number(k.posm), Number(k.poss)>>
    \o (IF op = "vo_up" THEN <<Number(k.time)>> ELSE <<>>)

StringsOf(a) == IF op \in VctOpers THEN KeyStrings(a) ELSE <<a>>

\* Faulty variant: one directive for every argument of the caller.
DirectivesOne(new) == <<IF Binary THEN "%b" ELSE "%s">>

Directives(new) == [n \in 1 .. Len(new) |-> IF Binary THEN "%b" ELSE "%s"]

\* One argument: its strings, and a directive for each.
Build ==
  /\ phase = "build" /\ Command # "" /\ idx <= Len(args)
  /\ LET new == StringsOf(args[idx])
     IN  /\ ars' = ars \o new
         /\ format' = format \o Directives(new)
  /\ idx' = idx + 1
  /\ UNCHANGED <<phase, op, args, slots, argv>>

EnterPhase(p) == phase' = p /\ idx' = 1

Built ==
  /\ phase = "build" /\ Command # "" /\ idx > Len(args)
  /\ EnterPhase("layout")
  /\ UNCHANGED <<op, args, format, ars, slots, argv>>

-----------------------------------------------------------------------------
(* redis_command and redis_command_binary                                   *)

\* What a C string is to its reader: it ends in front of the first NUL.
CString(s) ==
  LET ends == {n \in 1 .. Len(s) : s[n] = NUL}
  IN  IF ends = {} THEN s
      ELSE SubSeq(s, 1, (CHOOSE n \in ends : \A m \in ends : n <= m) - 1)

Pointer(s) == [pointer |-> s]
Size(s) == [size |-> Len(s)]

\* Faulty variant: length and pointer change places.
SlotsOfSwapped(s) == IF Binary THEN <<Size(s), Pointer(s)>> ELSE <<Pointer(s)>>

\* Faulty variant: the length is taken with strlen.
SlotsOfStrlen(s) == IF Binary THEN <<Pointer(s), Size(CString(s))>> ELSE <<Pointer(s)>>

SlotsOf(s) == IF Binary THEN <<Pointer(s), Size(s)>> ELSE <<Pointer(s)>>

\* Every string that goes, with its length when it is sent by redis_command_binary.
LayOut ==
  /\ phase = "layout" /\ idx <= Len(ars)
  /\ slots' = slots \o SlotsOf(ars[idx])
  /\ idx' = idx + 1
  /\ UNCHANGED <<phase, op, args, format, ars, argv>>

\* ffi_call
CallCommand ==
  /\ phase = "layout" /\ idx > Len(ars)
  /\ phase' = "read" /\ idx' = 2
  /\ argv' = <<Head(format)>>
  /\ UNCHANGED <<op, args, format, ars, slots>>

-----------------------------------------------------------------------------
(* redisCommand (external)                                                  *)

\* The directive at idx takes the next one or two arguments of the call.  Where
\* there is none, or one of another type, the behaviour is undefined.
Taken == IF format[idx] = "%b" THEN 2 ELSE 1

Served ==
  /\ Len(slots) >= Taken /\ "pointer" \in DOMAIN slots[1]
  /\ Taken = 2 => "size" \in DOMAIN slots[2]

ReadDirective ==
  /\ phase = "read" /\ idx <= Len(format) /\ Served
  /\ argv' = Append(argv, IF Taken = 2 THEN SubSeq(slots[1].pointer, 1, slots[2].size)
                          ELSE CString(slots[1].pointer))
  /\ slots' = SubSeq(slots, Taken + 1, Len(slots))
  /\ idx' = idx + 1
  /\ UNCHANGED <<phase, op, args, format, ars>>

Sent ==
  /\ phase = "read" /\ idx > Len(format)
  /\ phase' = "sent"
  /\ UNCHANGED <<op, args, idx, format, ars, slots, argv>>

MarshalOver == phase \in {"sent", "refused"} /\ UNCHANGED marshalVars

MarshalNext ==
  \/ RefuseOper \/ Build \/ Built \/ LayOut \/ CallCommand \/ ReadDirective \/ Sent
  \/ MarshalOver

MarshalSpec == MarshalInit /\ [][MarshalNext]_marshalVars

-----------------------------------------------------------------------------
(* Properties *)

\* As many strings as the server takes for one vct key.
GroupSize == IF op = "vo_up" THEN 4 ELSE 3

Group(n) == SubSeq(argv, (n - 1) * GroupSize + 2, n * GroupSize + 1)

\* Every variable holds a value of its type, and the vectors grow together: at
\* every moment there is a directive for every string.
MarshalTypeOK ==
  /\ phase \in {"build", "layout", "read", "sent", "refused"}
  /\ op \in {"exec", "exec_binary"} \cup VctOpers
  /\ idx \in 1 .. Len(format) + Len(args) + 1
  /\ Len(format) = Len(ars) + 1
  /\ \A n \in 2 .. Len(format) : format[n] = IF Binary THEN "%b" ELSE "%s"

\* The server receives one word for every string the caller passed, in order:
\* all of it from exec_binary and mix, what stands in front of its first NUL
\* from the others, also when a string is empty (exec, exec_binary, mix).
StringsArrive ==
  phase = "sent" /\ op \notin VctOpers =>
    Tail(argv) = [n \in 1 .. Len(args) |-> IF Binary THEN args[n] ELSE CString(args[n])]

\* The server can tell the keys of a callvct apart: the words it groups by the
\* command's own count are the key, the positions and, for upvct only, the time
\* of one key each (callvct, vct_oper_to_cmd).
KeysStayTogether ==
  phase = "sent" /\ op \in VctOpers =>
    /\ Len(argv) = Len(args) * GroupSize + 1
    /\ \A n \in 1 .. Len(args) :
         LET k == args[n]
             words == <<CString(k.key), Number(k.posm), Number(k.poss), Number(k.time)>>
         IN  Group(n) = SubSeq(words, 1, GroupSize)

\* Whatever the operation, what the server receives is what was meant: the
\* strings of the caller, or the keys of callvct.
WordsArrive == StringsArrive /\ KeysStayTogether

\* hiredis finds an argument of the right type for every directive, and none is
\* left over (redis_command, redis_command_binary).
EveryDirectiveIsServed ==
  /\ phase = "read" /\ idx <= Len(format) => Served
  /\ phase = "sent" => slots = <<>>
=============================================================================
