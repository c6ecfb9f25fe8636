--------------------------------- MODULE Ypg ---------------------------------
(***************************************************************************)
(* ypg_n (src/ypg.h): a connection to postgres whose exec() and query()    *)
(* run exe_core, a loop that executes a statement, looks at the result and *)
(* at the state of the connection, reconnects at most three times and      *)
(* executes the statement again.  exec() reports a statement that fails    *)
(* with one of the "already done" errors of pg_error_mgr as done, because  *)
(* its clients consume a statement again until it is done.  The clients,   *)
(* libpq, the network and the database are external.                       *)
(***************************************************************************)
EXTENDS Integers, FiniteSets

CONSTANTS
  Consumers,   \* clients, each with a ypg_n of its own
  Statements,  \* statements they have to execute
  Keyed,       \* those that fail as duplicates when what they create exists
  Keys,        \* what can be created
  Key,         \* what each keyed statement creates
  MaxCalls,    \* bound: calls per consumer
  MaxFaults    \* bound: faults of the database and the network

ASSUME YpgAssumption ==
  /\ Keyed \subseteq Statements
  /\ Key \in [Keyed -> Keys]
  /\ MaxCalls \in Nat /\ MaxFaults \in Nat
  /\ IsFiniteSet(Consumers)

VARIABLES
  alive,    \* the process has not been terminated
  pc,       \* where each consumer stands in exe_core
  op,       \* the last call: exec, query or connect
  stmt,     \* the statement of the last exec
  conn,     \* PQstatus(conn_): OK, BAD; NULL before the first connect()
  connOk,   \* conn_ok_
  result,   \* what PQexec returned last
  tries,    \* i of the reconnect loop
  results,  \* history: PGresults allocated and not cleared
  orphans,  \* history: results kept for a duplicate on a broken connection
  calls,    \* calls each consumer made
  done,     \* statements whose exec() a consumer saw succeed
  req,      \* none, sent, answered
  reply,    \* the answer on its way, when req is answered
  link,     \* the connection of conn_ works
  late,     \* statements of lost connections the database may still execute
  up,       \* the database accepts connections
  applied,  \* how often each statement took effect
  faults    \* faults so far

ypgVars == <<pc, op, conn, connOk, result, tries, results, orphans>>
clientVars == <<stmt, calls, done>>
netVars == <<req, reply, link, late>>
dbVars == <<up, applied, faults>>
vars == <<alive, ypgVars, clientVars, netVars, dbVars>>

\* Answers of the database: success, an error of pg_error_mgr, another error.
Replies == {"done", "dup", "error"}

\* What PQexec can return: no result, an answer, or an error libpq made up
\* for a lost connection, which carries no SQLSTATE.
ExecResults == Replies \cup {"NULL", "nocode"}

Reconnects == 3

Init ==
  /\ alive = TRUE
  /\ pc = [c \in Consumers |-> "idle"]
  /\ op = [c \in Consumers |-> "connect"]
  /\ stmt \in [Consumers -> Statements]
  /\ conn = [c \in Consumers |-> "NULL"]
  /\ connOk = [c \in Consumers |-> FALSE]
  /\ result = [c \in Consumers |-> "NULL"]
  /\ tries = [c \in Consumers |-> 0]
  /\ results = [c \in Consumers |-> 0]
  /\ orphans = [c \in Consumers |-> 0]
  /\ calls = [c \in Consumers |-> 0]
  /\ done = [c \in Consumers |-> {}]
  /\ req = [c \in Consumers |-> "none"]
  /\ reply = [c \in Consumers |-> "done"]
  /\ link = [c \in Consumers |-> FALSE]
  /\ late = {}
  /\ up = TRUE
  /\ applied = [s \in Statements |-> 0]
  /\ faults = 0

-----------------------------------------------------------------------------
(* The clients (external) *)

MayCall(c) == alive /\ pc[c] = "idle" /\ calls[c] < MaxCalls

Begin(c, o) ==
  /\ op' = [op EXCEPT ![c] = o]
  /\ calls' = [calls EXCEPT ![c] = @ + 1]

\* connect(): the connection held is closed, a new one is tried.
Connect(c) ==
  /\ conn' = [conn EXCEPT ![c] = IF up THEN "OK" ELSE "BAD"]
  /\ link' = [link EXCEPT ![c] = up]

\* connect() called by the client, whatever conn_ok_ says.  A failure leaves
\* conn_ok_ as it was.
ClientConnect(c) ==
  /\ MayCall(c)
  /\ Begin(c, "connect")
  /\ Connect(c)
  /\ connOk' = [connOk EXCEPT ![c] = @ \/ up]
  /\ UNCHANGED <<alive, pc, result, tries, results, orphans, stmt, done,
                 req, reply, late, dbVars>>

\* A statement is consumed, or consumed again after exec() returned -1.
Exec(c, s) ==
  /\ MayCall(c)
  /\ s \notin done[c]
  /\ Begin(c, "exec")
  /\ stmt' = [stmt EXCEPT ![c] = s]
  /\ pc' = [pc EXCEPT ![c] = "exec"]
  /\ UNCHANGED <<alive, conn, connOk, result, tries, results, orphans, done,
                 netVars, dbVars>>

Query(c) ==
  /\ MayCall(c)
  /\ Begin(c, "query")
  /\ pc' = [pc EXCEPT ![c] = "exec"]
  /\ UNCHANGED <<alive, conn, connOk, result, tries, results, orphans, stmt,
                 done, netVars, dbVars>>

-----------------------------------------------------------------------------
(* exe_core *)

\* PQexec on a connection libpq knows to be broken returns NULL and sends
\* nothing; otherwise the statement leaves.
Send(c) ==
  /\ alive /\ pc[c] = "exec"
  /\ IF conn[c] = "OK"
     THEN /\ req' = [req EXCEPT ![c] = "sent"]
          /\ pc' = [pc EXCEPT ![c] = "wait"]
          /\ UNCHANGED result
     ELSE /\ result' = [result EXCEPT ![c] = "NULL"]
          /\ pc' = [pc EXCEPT ![c] = "check"]
          /\ UNCHANGED req
  /\ UNCHANGED <<alive, op, conn, connOk, tries, results, orphans, clientVars,
                 reply, link, late, dbVars>>

Got(c, r) ==
  /\ req' = [req EXCEPT ![c] = "none"]
  /\ result' = [result EXCEPT ![c] = r]
  /\ results' = [results EXCEPT ![c] = IF r = "NULL" THEN @ ELSE @ + 1]
  /\ pc' = [pc EXCEPT ![c] = "check"]
  /\ UNCHANGED <<alive, op, connOk, tries, orphans, clientVars, reply, link, late,
                 dbVars>>

\* Faulty variant: the statement is sent again before the answer is looked at.
ReceiveAgain(c) ==
  /\ alive /\ req[c] = "answered" /\ link[c]
  /\ req' = [req EXCEPT ![c] = "none"]
  /\ pc' = [pc EXCEPT ![c] = "exec"]
  /\ UNCHANGED <<alive, op, conn, connOk, result, tries, results, orphans,
                 clientVars, reply, link, late, dbVars>>

Receive(c) ==
  /\ alive /\ req[c] = "answered" /\ link[c]
  /\ Got(c, reply[c])
  /\ UNCHANGED conn

\* The connection is lost while PQexec waits.  An error of the database that
\* came before the loss is the result; success is not, its end is missing.
ReceiveBroken(c) ==
  /\ alive /\ req[c] # "none" /\ ~link[c]
  /\ \E r \in ExecResults \ {"done"} :
       /\ r \in {"dup", "error"} => req[c] = "answered" /\ reply[c] = r
       /\ Got(c, r)
  /\ conn' = [conn EXCEPT ![c] = "BAD"]

\* Faulty variant: exec() keeps every error.
KeptAlways(c) == result[c] = "done" \/ (op[c] = "exec" /\ result[c] # "NULL")

\* A result is kept when it is a success or, in exec(), when pg_error_mgr
\* knows its error; every other one is cleared and becomes NULL.
Kept(c) == result[c] = "done" \/ (op[c] = "exec" /\ result[c] = "dup")

\* is_in(code) makes a std::string of the NULL that stands for a missing
\* SQLSTATE: std::logic_error out of exec(), std::terminate.
ThrowNoCode(c) ==
  /\ alive /\ pc[c] = "check"
  /\ op[c] = "exec" /\ result[c] = "nocode"
  /\ alive' = FALSE
  /\ UNCHANGED <<ypgVars, clientVars, netVars, dbVars>>

Checked(c) ==
  /\ alive /\ pc[c] = "check"
  /\ ~(op[c] = "exec" /\ result[c] = "nocode")

\* Faulty variant: the result of exec() or query() is not cleared.
ReturnNoClear(c) ==
  /\ Checked(c)
  /\ result[c] = "done" \/ conn[c] = "OK"
  /\ pc' = [pc EXCEPT ![c] = "idle"]
  /\ done' = [done EXCEPT ![c] =
                IF op[c] = "exec" /\ Kept(c) THEN @ \cup {stmt[c]} ELSE @]
  /\ results' = [results EXCEPT ![c] = IF result[c] = "NULL" \/ Kept(c) THEN @ ELSE @ - 1]
  /\ UNCHANGED <<alive, op, conn, connOk, result, tries, orphans, stmt, calls,
                 netVars, dbVars>>

\* Success, or any result on a connection that works: exe_core returns it and
\* exec() or query() clears it.
Return(c) ==
  /\ Checked(c)
  /\ result[c] = "done" \/ conn[c] = "OK"
  /\ pc' = [pc EXCEPT ![c] = "idle"]
  /\ done' = [done EXCEPT ![c] =
                IF op[c] = "exec" /\ Kept(c) THEN @ \cup {stmt[c]} ELSE @]
  /\ results' = [results EXCEPT ![c] = IF result[c] = "NULL" THEN @ ELSE @ - 1]
  /\ UNCHANGED <<alive, op, conn, connOk, result, tries, orphans, stmt, calls,
                 netVars, dbVars>>

\* The connection is broken: the reconnect loop starts.  A kept duplicate is
\* neither returned nor cleared.
StartReconnect(c) ==
  /\ Checked(c)
  /\ result[c] # "done" /\ conn[c] # "OK"
  /\ pc' = [pc EXCEPT ![c] = "reconnect"]
  /\ tries' = [tries EXCEPT ![c] = 0]
  /\ results' = [results EXCEPT ![c] = IF result[c] = "NULL" \/ Kept(c) THEN @ ELSE @ - 1]
  /\ orphans' = [orphans EXCEPT ![c] = IF Kept(c) THEN @ + 1 ELSE @]
  /\ UNCHANGED <<alive, op, conn, connOk, result, clientVars, netVars, dbVars>>

\* One turn of the reconnect loop that succeeds: the statement is sent again.
Reconnected(c) ==
  /\ alive /\ pc[c] = "reconnect" /\ up
  /\ Connect(c)
  /\ connOk' = [connOk EXCEPT ![c] = TRUE]
  /\ pc' = [pc EXCEPT ![c] = "exec"]
  /\ UNCHANGED <<alive, op, result, tries, results, orphans, clientVars, req,
                 reply, late, dbVars>>

\* Faulty variants: conn_ok_ is not reset; the loop never gives up, or too late.
ReconnectFailedKeepsOk(c) ==
  /\ alive /\ pc[c] = "reconnect" /\ ~up
  /\ Connect(c)
  /\ tries' = [tries EXCEPT ![c] = @ + 1]
  /\ pc' = [pc EXCEPT ![c] = IF tries[c] + 1 = Reconnects THEN "idle" ELSE @]
  /\ UNCHANGED <<alive, op, connOk, result, results, orphans, clientVars, req,
                 reply, late, dbVars>>

ReconnectFailedForever(c) ==
  /\ alive /\ pc[c] = "reconnect" /\ ~up
  /\ Connect(c)
  /\ tries' = [tries EXCEPT ![c] = (@ + 1) % Reconnects]
  /\ UNCHANGED <<alive, pc, op, connOk, result, results, orphans, clientVars,
                 req, reply, late, dbVars>>

ReconnectFailedOnceMore(c) ==
  /\ alive /\ pc[c] = "reconnect" /\ ~up
  /\ Connect(c)
  /\ tries' = [tries EXCEPT ![c] = @ + 1]
  /\ IF tries[c] = Reconnects
     THEN /\ connOk' = [connOk EXCEPT ![c] = FALSE]
          /\ pc' = [pc EXCEPT ![c] = "idle"]
     ELSE UNCHANGED <<connOk, pc>>
  /\ UNCHANGED <<alive, op, result, results, orphans, clientVars, req, reply,
                 late, dbVars>>

\* One that fails; after the last one exe_core returns NULL.
ReconnectFailed(c) ==
  /\ alive /\ pc[c] = "reconnect" /\ ~up
  /\ Connect(c)
  /\ tries' = [tries EXCEPT ![c] = @ + 1]
  /\ IF tries[c] + 1 = Reconnects
     THEN /\ connOk' = [connOk EXCEPT ![c] = FALSE]
          /\ pc' = [pc EXCEPT ![c] = "idle"]
     ELSE UNCHANGED <<connOk, pc>>
  /\ UNCHANGED <<alive, op, result, results, orphans, clientVars, req, reply,
                 late, dbVars>>

-----------------------------------------------------------------------------
(* The database and the network (external) *)

\* What s is to bring about is there.
Present(s) ==
  IF s \in Keyed
  THEN \E q \in Keyed : Key[q] = Key[s] /\ applied[q] > 0
  ELSE applied[s] > 0

Duplicate(s) == s \in Keyed /\ Present(s)

Apply(s) ==
  applied' = IF Duplicate(s) THEN applied ELSE [applied EXCEPT ![s] = @ + 1]

Answer(c, r) ==
  /\ req' = [req EXCEPT ![c] = "answered"]
  /\ reply' = [reply EXCEPT ![c] = r]

Arrived(c) == alive /\ req[c] = "sent" /\ link[c]

Execute(c) ==
  /\ Arrived(c)
  /\ IF op[c] = "exec"
     THEN /\ Apply(stmt[c])
          /\ Answer(c, IF Duplicate(stmt[c]) THEN "dup" ELSE "done")
     ELSE UNCHANGED applied /\ Answer(c, "done")
  /\ UNCHANGED <<alive, ypgVars, clientVars, link, late, up, faults>>

Fault == alive /\ faults < MaxFaults /\ faults' = faults + 1

\* No permission, no such table, disk full: the statement has no effect.
Refuse(c) ==
  /\ Fault
  /\ Arrived(c)
  /\ Answer(c, "error")
  /\ UNCHANGED <<alive, ypgVars, clientVars, link, late, up, applied>>

\* The connection breaks; a statement that was sent may be executed later.
Pending(c) == req[c] = "sent" /\ op[c] = "exec" /\ link[c]

Cut(c) ==
  /\ Fault
  /\ link[c]
  /\ link' = [link EXCEPT ![c] = FALSE]
  /\ late' = IF Pending(c) THEN late \cup {stmt[c]} ELSE late
  /\ UNCHANGED <<alive, ypgVars, clientVars, req, reply, up, applied>>

ExecuteLate(s) ==
  /\ alive /\ up /\ s \in late
  /\ Apply(s)
  /\ late' = late \ {s}
  /\ UNCHANGED <<alive, ypgVars, clientVars, req, reply, link, up, faults>>

\* The database goes down with its connections and what it had not executed.
Down ==
  /\ Fault
  /\ up
  /\ up' = FALSE
  /\ link' = [c \in Consumers |-> FALSE]
  /\ late' = {}
  /\ UNCHANGED <<alive, ypgVars, clientVars, req, reply, applied>>

Up ==
  /\ alive /\ ~up
  /\ up' = TRUE
  /\ UNCHANGED <<alive, ypgVars, clientVars, netVars, applied, faults>>

-----------------------------------------------------------------------------
Client(c) == ClientConnect(c) \/ Query(c) \/ \E s \in Statements : Exec(c, s)

ExeCore(c) ==
  \/ Send(c) \/ Receive(c) \/ ReceiveBroken(c)
  \/ ThrowNoCode(c) \/ Return(c) \/ StartReconnect(c)
  \/ Reconnected(c) \/ ReconnectFailed(c)

Environment ==
  \/ \E c \in Consumers : Refuse(c) \/ Cut(c)
  \/ \E s \in Statements : ExecuteLate(s)
  \/ Down \/ Up

\* The process was terminated, or every client has made its calls.
Over == ~alive \/ \A c \in Consumers : pc[c] = "idle" /\ calls[c] = MaxCalls

Stopped == Over /\ UNCHANGED vars

Next ==
  \/ \E c \in Consumers : Client(c) \/ ExeCore(c) \/ Execute(c)
  \/ Environment
  \/ Stopped

Spec == Init /\ [][Next]_vars

\* Threads run and a database that is reached answers.  Nobody has to bring a
\* database that is down up again.
Fairness == \A c \in Consumers : WF_vars(ExeCore(c)) /\ WF_vars(Execute(c))

FairSpec == Spec /\ Fairness

-----------------------------------------------------------------------------
(* Properties *)

\* Every variable holds a value of its type.
YpgTypeOK ==
  /\ alive \in BOOLEAN
  /\ pc \in [Consumers -> {"idle", "exec", "wait", "check", "reconnect"}]
  /\ op \in [Consumers -> {"exec", "query", "connect"}]
  /\ stmt \in [Consumers -> Statements]
  /\ conn \in [Consumers -> {"NULL", "OK", "BAD"}]
  /\ connOk \in [Consumers -> BOOLEAN]
  /\ result \in [Consumers -> ExecResults]
  /\ tries \in [Consumers -> 0 .. Reconnects]
  /\ results \in [Consumers -> Int]
  /\ orphans \in [Consumers -> Nat]
  /\ calls \in [Consumers -> 0 .. MaxCalls]
  /\ done \in [Consumers -> SUBSET Statements]
  /\ req \in [Consumers -> {"none", "sent", "answered"}]
  /\ reply \in [Consumers -> Replies]
  /\ link \in [Consumers -> BOOLEAN]
  /\ late \subseteq Statements
  /\ up \in BOOLEAN
  /\ applied \in [Statements -> Nat]
  /\ faults \in 0 .. MaxFaults

\* What exec() reports as done is in the database: a retry after a lost
\* connection, a duplicate error and another client's copy of the statement
\* are all told from a failure (exe_core, pg_error_mgr).
DoneIsPresent ==
  \A c \in Consumers : \A s \in done[c] : Present(s)

\* When exec() or query() has returned, conn_ok_ tells why it failed: it is set
\* exactly when libpq holds the connection for working, even if it was wrong
\* before the call.  It is wrong only after a failed connect() of the client,
\* which leaves it set on a broken connection (connect, exe_core).
ConnOkTellsWhy ==
  \A c \in Consumers : pc[c] = "idle" =>
    /\ conn[c] = "OK" => connOk[c]
    /\ connOk[c] /\ conn[c] # "OK" => op[c] = "connect"

\* Between calls the only PGresults not cleared are the duplicates exe_core
\* dropped because their connection broke (exe_core, exec, query).
ResultsAccounted ==
  \A c \in Consumers : pc[c] = "idle" => results[c] = orphans[c]

\* c is in exec() with statement s.
Executing(c, s) == pc[c] # "idle" /\ op[c] = "exec" /\ stmt[c] = s

\* A statement without a key (update num = num + 1) takes effect once for every
\* client that executes it, and again only where a connection was lost: the
\* loop of exe_core never repeats a statement on a connection that works.
TwiceOnlyAfterLoss ==
  \A s \in Statements \ Keyed :
    applied[s] <= Cardinality({c \in Consumers : s \in done[c] \/ Executing(c, s)})
                    + faults * Cardinality(Consumers)

\* exe_core keeps the promise of Consumption.
Promise == INSTANCE Consumption

KeepsConsumptionPromise == Promise!Spec

\* Every call returns, even if the database stays down, unless the process is
\* terminated (exe_core).
CallsReturn == \A c \in Consumers : pc[c] # "idle" ~> pc[c] = "idle" \/ ~alive

\* ypg.h says of a broken connection: "connection is broken, reconnect"; the
\* process would have to survive it.
BrokenIsReconnected == alive
=============================================================================
