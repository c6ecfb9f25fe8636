----------------------------- MODULE PgErrorMgr -----------------------------
(***************************************************************************)
(* pg_error_mgr (src/ypg.h): the table of error codes that mean "already   *)
(* done", made by the first call of instance() and shared by the threads   *)
(* of all ypg_n objects.  instance() works under a mutex, is_in() without. *)
(* A table is named after the thread that made it and known by how many of *)
(* init()'s insertions it has seen; a code is known by its place in init(), *)
(* Codes + 1 stands for every code that is not there.                      *)
(***************************************************************************)
EXTENDS Integers

CONSTANTS
  Threads,  \* threads that execute statements
  Codes,    \* number of insertions init() makes
  NoTable   \* the empty self_

ASSUME MgrAssumption == Codes \in Nat /\ NoTable \notin Threads

VARIABLES
  place,   \* exe_core, locked, reset, init, return, is_in
  holder,  \* threads that hold mu_
  self,    \* self_
  table,   \* map_ of the table a thread made: how far init() is
  copy,    \* what instance() returned to a thread
  answer   \* history: what is_in last said to a thread, of which code

mgrVars == <<place, holder, self, table, copy, answer>>

NoAnswer == [code |-> Codes + 1, known |-> FALSE]

MgrInit ==
  /\ place = [t \in Threads |-> "exe_core"]
  /\ holder = {}
  /\ self = NoTable
  /\ table = [t \in Threads |-> 0]
  /\ copy = [t \in Threads |-> NoTable]
  /\ answer = [t \in Threads |-> NoAnswer]

Moves(t, from, to) == place[t] = from /\ place' = [place EXCEPT ![t] = to]

\* instance(): scoped_lock.
Lock(t) ==
  /\ Moves(t, "exe_core", "locked")
  /\ holder = {}
  /\ holder' = {t}
  /\ UNCHANGED <<self, table, copy, answer>>

\* The test of self_.
EmptySelf(t) ==
  /\ Moves(t, "locked", "reset")
  /\ self = NoTable
  /\ UNCHANGED <<holder, self, table, copy, answer>>

Found(t) ==
  /\ Moves(t, "locked", "return")
  /\ self # NoTable
  /\ UNCHANGED <<holder, self, table, copy, answer>>

\* Faulty variant: the mutex is given up before the table is filled.
MakeAndUnlock(t) ==
  /\ Moves(t, "reset", "init")
  /\ self' = t /\ table' = [table EXCEPT ![t] = 0]
  /\ holder' = holder \ {t}
  /\ UNCHANGED <<copy, answer>>

\* self_ points to the new table before init() fills it.
Make(t) ==
  /\ Moves(t, "reset", "init")
  /\ self' = t /\ table' = [table EXCEPT ![t] = 0]
  /\ UNCHANGED <<holder, copy, answer>>

\* init(): one insertion, or its end.
InsertCode(t) ==
  /\ place[t] = "init" /\ table[self] < Codes
  /\ table' = [table EXCEPT ![self] = @ + 1]
  /\ UNCHANGED <<place, holder, self, copy, answer>>

Filled(t) ==
  /\ Moves(t, "init", "return")
  /\ table[self] >= Codes
  /\ UNCHANGED <<holder, self, table, copy, answer>>

\* The copy of self_ is made before the lock is given up.
ReturnSelf(t) ==
  /\ Moves(t, "return", "is_in")
  /\ copy' = [copy EXCEPT ![t] = self]
  /\ holder' = holder \ {t}
  /\ UNCHANGED <<self, table, answer>>

\* is_in(), and exe_core goes on with the answer.
is_in(t) ==
  /\ Moves(t, "is_in", "exe_core")
  /\ \E code \in 1 .. Codes + 1 :
       answer' = [answer EXCEPT ![t] = [code |-> code, known |-> code <= table[copy[t]]]]
  /\ copy' = [copy EXCEPT ![t] = NoTable]
  /\ UNCHANGED <<holder, self, table>>

instance(t) ==
  \/ Lock(t) \/ EmptySelf(t) \/ Found(t) \/ Make(t) \/ InsertCode(t)
  \/ Filled(t) \/ ReturnSelf(t)

MgrNext == \E t \in Threads : instance(t) \/ is_in(t)

MgrSpec == MgrInit /\ [][MgrNext]_mgrVars

-----------------------------------------------------------------------------
(* Properties *)

\* Every variable holds a value of its type, and the mutex has one holder.
MgrTypeOK ==
  /\ place \in [Threads -> {"exe_core", "locked", "reset", "init", "return", "is_in"}]
  /\ holder \in {{}} \cup {{t} : t \in Threads}
  /\ self \in Threads \cup {NoTable}
  /\ table \in [Threads -> 0 .. Codes]
  /\ copy \in [Threads -> Threads \cup {NoTable}]
  /\ answer \in [Threads -> [code : 1 .. Codes + 1, known : BOOLEAN]]

\* However the first errors of several connections coincide, is_in() knows
\* exactly the codes init() inserts: no thread takes "already done" for a
\* failure because the table was being filled when it looked, although is_in()
\* takes no lock (instance, init, is_in).
AnswersAreFinal ==
  \A t \in Threads : answer[t].known <=> answer[t].code <= Codes

\* One table serves the whole process, for good: nobody looks into another one
\* than self_, and self_ is set once (instance).
OneTable ==
  [][ /\ \A t \in Threads : copy'[t] \in {NoTable, self'}
      /\ self # NoTable => self' = self ]_mgrVars
=============================================================================
