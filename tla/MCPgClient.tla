------------------------------ MODULE MCPgClient ------------------------------
(* The parts of the postgres client that share no state with a statement's  *)
(* reconnects (Ypg): large objects (YpgLo), what becomes of a result        *)
(* (PgResults) and the table of error codes (PgErrorMgr).  Nor do they share *)
(* any with each other, so a behaviour is one of one of them, and the       *)
(* variables of the idle ones keep a value of their initial states.         *)
(* Two objects, the larger of which lo_lseek cannot measure; transactions   *)
(* of a few calls, with failures and a broken connection at any statement.  *)
(* Tables of up to two columns, and the null table.  Three threads.         *)
EXTENDS YpgLo, PgResults, PgErrorMgr, TLC

Column == [name : Names, bytea : BOOLEAN]
MCHeads == UNION {[1 .. n -> Column] : n \in 0 .. 2}

\* Names of columns and threads are interchangeable.
Symmetry == Permutations(Names) \cup Permutations(Threads)

VARIABLE work  \* what the behaviour is about

LoIdle == objects = [o \in Oids |-> Absent]

MCInit ==
  \/ work = "objects" /\ Init /\ ResultsInit /\ MgrInit
  \/ work \in {"results", "errors"} /\ LoIdle /\ Init /\ ResultsInit /\ MgrInit

MCNext ==
  \/ work = "objects" /\ Next /\ UNCHANGED <<work, resultsVars, mgrVars>>
  \/ work = "results" /\ ResultsNext /\ UNCHANGED <<work, vars, mgrVars>>
  \/ work = "errors" /\ MgrNext /\ UNCHANGED <<work, vars, resultsVars>>

MCSpec == MCInit /\ [][MCNext]_<<work, vars, resultsVars, mgrVars>>

\* Every variable of every part holds a value of its type; results are cleared.
PgClientTypeOK == LoTypeOK /\ ResultsTypeOK /\ MgrTypeOK /\ ResultsCleared
=============================================================================
