------------------------------ MODULE YpgProofs ------------------------------
(***************************************************************************)
(* Theorems about exe_core, for any number of clients, statements, calls   *)
(* and faults.                                                             *)
(***************************************************************************)
EXTENDS Ypg, FiniteSetTheorems, TLAPS

\* PQexec waits exactly while a statement is in flight.
WaitState ==
  \A c \in Consumers :
    /\ pc[c] = "wait" <=> req[c] # "none"
    /\ pc[c] = "wait" => conn[c] = "OK"
    /\ pc[c] = "check" /\ result[c] = "done" => conn[c] = "OK"
    /\ pc[c] = "reconnect" => tries[c] < Reconnects

\* A good answer is given for a statement that is in the database.
AnswerMeans ==
  \A c \in Consumers : op[c] = "exec" =>
    /\ req[c] = "answered" /\ reply[c] \in {"done", "dup"} => Present(stmt[c])
    /\ pc[c] = "check" /\ result[c] \in {"done", "dup"} => Present(stmt[c])

\* conn_ok_ may lag behind a broken connection during a call and after a
\* connect() of the client, never behind a working one.
ConnOkState ==
  \A c \in Consumers :
    /\ conn[c] = "OK" => connOk[c]
    /\ pc[c] = "idle" /\ connOk[c] /\ conn[c] # "OK" => op[c] = "connect"

\* During a call one more PGresult may be allocated: the one looked at.
ResultState ==
  \A c \in Consumers :
    results[c] = orphans[c] +
                 (IF pc[c] = "check" /\ result[c] # "NULL" THEN 1 ELSE 0)

YpgIInv ==
  /\ YpgTypeOK
  /\ WaitState /\ AnswerMeans /\ ConnOkState /\ ResultState
  /\ DoneIsPresent

-----------------------------------------------------------------------------
LEMMA YpgInit == Init => YpgIInv
BY YpgAssumption
   DEF Init, YpgIInv, YpgTypeOK, WaitState, AnswerMeans, ConnOkState,
       ResultState, DoneIsPresent, ExecResults, Replies, Reconnects

\* A statement that is there stays there, and one that was executed is there.
LEMMA ApplyPresent ==
  ASSUME YpgTypeOK, NEW s \in Statements, Apply(s)
  PROVE  /\ Present(s)'
         /\ \A q \in Statements : Present(q) => Present(q)'
         /\ applied' \in [Statements -> Nat]
<1>1. \A q \in Statements : applied'[q] \in Nat /\ applied'[q] >= applied[q]
  BY DEF Apply, YpgTypeOK
<1>2. \A q \in Statements : Present(q) => Present(q)'
  BY <1>1, YpgAssumption DEF Present, YpgTypeOK
<1>3. Present(s)'
  <2>1. CASE Duplicate(s)
    BY <1>2, <2>1 DEF Duplicate
  <2>2. CASE ~Duplicate(s)
    <3>1. applied'[s] > 0
      BY <2>2 DEF Apply, YpgTypeOK
    <3>2. QED
      BY <3>1 DEF Present
  <2>3. QED
    BY <2>1, <2>2
<1>4. applied' \in [Statements -> Nat]
  BY DEF Apply, YpgTypeOK
<1>5. QED
  BY <1>2, <1>3, <1>4

\* What other actors change does not touch where a consumer stands.
LEMMA OutsideStep ==
  ASSUME YpgIInv, YpgTypeOK',
         UNCHANGED <<pc, op, stmt, conn, connOk, result, tries, results, orphans,
                     done>>,
         \A q \in Statements : Present(q) => Present(q)',
         \A c \in Consumers : req'[c] = "none" <=> req[c] = "none",
         \A c \in Consumers :
           op[c] = "exec" /\ req'[c] = "answered" /\ reply'[c] \in {"done", "dup"}
             => Present(stmt[c])'
  PROVE  YpgIInv'
<1> USE DEF YpgIInv
<1>1. WaitState'
  BY DEF WaitState
<1>2. AnswerMeans'
  BY DEF AnswerMeans, YpgTypeOK
<1>3. ConnOkState' /\ ResultState'
  BY DEF ConnOkState, ResultState
<1>4. DoneIsPresent'
  BY DEF DoneIsPresent, YpgTypeOK
<1>5. QED
  BY <1>1, <1>2, <1>3, <1>4

LEMMA ClientStep ==
  ASSUME YpgIInv, NEW c \in Consumers, Client(c)
  PROVE  YpgIInv'
<1> USE DEF YpgIInv, netVars, dbVars, MayCall, Begin
<1>1. applied' = applied /\ \A q : Present(q)' <=> Present(q)
  BY DEF Client, ClientConnect, Query, Exec, Present
<1>2. YpgTypeOK'
  <2>1. MayCall(c) => calls[c] + 1 \in 0 .. MaxCalls
    BY YpgAssumption DEF YpgTypeOK
  <2>2. CASE ClientConnect(c)
    <3>1. conn' \in [Consumers -> {"NULL", "OK", "BAD"}] /\ link' \in [Consumers -> BOOLEAN]
      BY <2>2 DEF ClientConnect, Connect, YpgTypeOK
    <3>2. connOk' \in [Consumers -> BOOLEAN] /\ calls' \in [Consumers -> 0 .. MaxCalls]
      BY <2>1, <2>2 DEF ClientConnect, YpgTypeOK
    <3>3. QED
      BY <2>2, <3>1, <3>2 DEF ClientConnect, YpgTypeOK
  <2>3. CASE Query(c)
    BY <2>1, <2>3 DEF Query, YpgTypeOK
  <2>4. ASSUME NEW s \in Statements, Exec(c, s) PROVE YpgTypeOK'
    BY <2>1, <2>4 DEF Exec, YpgTypeOK
  <2>5. QED
    BY <2>2, <2>3, <2>4 DEF Client
<1>3. WaitState'
  BY DEF Client, ClientConnect, Connect, Query, Exec, YpgTypeOK, WaitState
<1>4. AnswerMeans'
  <2>1. /\ req' = req /\ reply' = reply /\ result' = result
        /\ pc[c] = "idle" /\ pc'[c] \in {"idle", "exec"}
        /\ \A d \in Consumers : d # c =>
             pc'[d] = pc[d] /\ op'[d] = op[d] /\ stmt'[d] = stmt[d]
    BY DEF Client, ClientConnect, Query, Exec, YpgTypeOK
  <2>2. req[c] = "none"
    BY <2>1 DEF WaitState, YpgTypeOK
  <2>3. QED
    BY <1>1, <2>1, <2>2 DEF AnswerMeans
<1>5. ConnOkState'
  BY DEF Client, ClientConnect, Connect, Query, Exec, YpgTypeOK, ConnOkState
<1>6. ResultState'
  BY DEF Client, ClientConnect, Query, Exec, YpgTypeOK, ResultState
<1>7. DoneIsPresent'
  <2>1. done' = done
    BY DEF Client, ClientConnect, Query, Exec
  <2>2. QED
    BY <1>1, <2>1 DEF DoneIsPresent
<1>8. QED
  BY <1>2, <1>3, <1>4, <1>5, <1>6, <1>7

LEMMA ExeCoreStep ==
  ASSUME YpgIInv, NEW c \in Consumers, ExeCore(c)
  PROVE  YpgIInv'
<1> USE DEF YpgIInv, clientVars, dbVars
<1>1. applied' = applied /\ stmt' = stmt /\ op' = op
  BY DEF ExeCore, Send, Receive, ReceiveBroken, Got, ThrowNoCode, Return,
         StartReconnect, Reconnected, ReconnectFailed, ypgVars
<1>2. \A q : Present(q)' <=> Present(q)
  BY <1>1 DEF Present
<1> USE <1>1, <1>2 DEF YpgTypeOK, ExecResults, Replies
<1>3. CASE Send(c)
  <2>1. YpgTypeOK' /\ WaitState'
    BY <1>3 DEF Send, WaitState
  <2>2. AnswerMeans' /\ DoneIsPresent'
    BY <1>3 DEF Send, AnswerMeans, DoneIsPresent
  <2>3. ConnOkState' /\ ResultState'
    BY <1>3 DEF Send, ConnOkState, ResultState
  <2>4. QED
    BY <2>1, <2>2, <2>3
<1>4. CASE Receive(c)
  <2>1. YpgTypeOK' /\ WaitState'
    BY <1>4 DEF Receive, Got, WaitState
  <2>2. AnswerMeans' /\ DoneIsPresent'
    BY <1>4 DEF Receive, Got, AnswerMeans, DoneIsPresent
  <2>3. ConnOkState' /\ ResultState'
    BY <1>4 DEF Receive, Got, ConnOkState, ResultState, WaitState
  <2>4. QED
    BY <2>1, <2>2, <2>3
<1>5. CASE ReceiveBroken(c)
  <2>1. PICK r \in ExecResults \ {"done"} :
          /\ r \in {"dup", "error"} => req[c] = "answered" /\ reply[c] = r
          /\ Got(c, r)
    BY <1>5 DEF ReceiveBroken
  <2>2. req[c] # "none" /\ conn' = [conn EXCEPT ![c] = "BAD"]
    BY <1>5 DEF ReceiveBroken
  <2>3. YpgTypeOK' /\ WaitState'
    BY <2>1, <2>2 DEF Got, WaitState
  <2>4. AnswerMeans' /\ DoneIsPresent'
    BY <2>1, <2>2 DEF Got, AnswerMeans, DoneIsPresent
  <2>5. ConnOkState' /\ ResultState'
    BY <2>1, <2>2 DEF Got, ConnOkState, ResultState, WaitState
  <2>6. QED
    BY <2>3, <2>4, <2>5
<1>6. CASE ThrowNoCode(c)
  <2>1. YpgTypeOK' /\ WaitState'
    BY <1>6 DEF ThrowNoCode, ypgVars, netVars, WaitState
  <2>2. AnswerMeans' /\ DoneIsPresent'
    BY <1>6 DEF ThrowNoCode, ypgVars, netVars, AnswerMeans, DoneIsPresent
  <2>3. ConnOkState' /\ ResultState'
    BY <1>6 DEF ThrowNoCode, ypgVars, ConnOkState, ResultState
  <2>4. QED
    BY <2>1, <2>2, <2>3
<1>7. CASE Return(c)
  <2>1. YpgTypeOK' /\ WaitState'
    BY <1>7 DEF Return, Checked, WaitState, netVars
  <2>2. AnswerMeans'
    BY <1>7 DEF Return, Checked, AnswerMeans, netVars
  <2>3. ConnOkState' /\ ResultState'
    BY <1>7 DEF Return, Checked, ConnOkState, ResultState, WaitState
  <2>4. DoneIsPresent'
    <3>1. op[c] = "exec" /\ Kept(c) => Present(stmt[c])
      BY <1>7 DEF Return, Checked, Kept, AnswerMeans
    <3>2. \A d \in Consumers :
            done'[d] \subseteq done[d] \cup
              (IF d = c /\ op[c] = "exec" /\ Kept(c) THEN {stmt[c]} ELSE {})
      BY <1>7 DEF Return
    <3>3. QED
      BY <3>1, <3>2 DEF DoneIsPresent
  <2>5. QED
    BY <2>1, <2>2, <2>3, <2>4
<1>8. CASE StartReconnect(c)
  <2>1. YpgTypeOK'
    BY <1>8 DEF StartReconnect, Checked, Kept, Reconnects, netVars
  <2>2. WaitState'
    BY <1>8 DEF StartReconnect, Checked, Reconnects, netVars, WaitState
  <2>3. AnswerMeans' /\ DoneIsPresent'
    BY <1>8 DEF StartReconnect, Checked, AnswerMeans, DoneIsPresent, netVars
  <2>4. ConnOkState'
    BY <1>8 DEF StartReconnect, Checked, ConnOkState
  <2>5. ResultState'
    BY <1>8 DEF StartReconnect, Checked, Kept, ResultState
  <2>6. QED
    BY <2>1, <2>2, <2>3, <2>4, <2>5
<1>9. CASE Reconnected(c)
  <2>1. YpgTypeOK' /\ WaitState'
    BY <1>9 DEF Reconnected, Connect, WaitState
  <2>2. AnswerMeans' /\ DoneIsPresent'
    BY <1>9 DEF Reconnected, AnswerMeans, DoneIsPresent
  <2>3. ConnOkState' /\ ResultState'
    BY <1>9 DEF Reconnected, Connect, ConnOkState, ResultState
  <2>4. QED
    BY <2>1, <2>2, <2>3
<1>10. CASE ReconnectFailed(c)
  <2>1. tries[c] \in 0 .. 2
    BY <1>10 DEF ReconnectFailed, WaitState, Reconnects
  <2>2. YpgTypeOK' /\ WaitState'
    <3>1. /\ conn' \in [Consumers -> {"NULL", "OK", "BAD"}]
          /\ link' \in [Consumers -> BOOLEAN]
          /\ tries' \in [Consumers -> 0 .. Reconnects]
      BY <1>10, <2>1 DEF ReconnectFailed, Connect, Reconnects
    <3>2. /\ connOk' \in [Consumers -> BOOLEAN]
          /\ pc' \in [Consumers -> {"idle", "exec", "wait", "check", "reconnect"}]
      BY <1>10 DEF ReconnectFailed
    <3>3. YpgTypeOK'
      BY <1>10, <3>1, <3>2 DEF ReconnectFailed
    <3>4. WaitState'
      BY <1>10, <2>1 DEF ReconnectFailed, Connect, WaitState, Reconnects
    <3>5. QED
      BY <3>3, <3>4
  <2>3. AnswerMeans' /\ DoneIsPresent'
    BY <1>10 DEF ReconnectFailed, AnswerMeans, DoneIsPresent
  <2>4. ConnOkState' /\ ResultState'
    BY <1>10 DEF ReconnectFailed, Connect, ConnOkState, ResultState
  <2>5. QED
    BY <2>2, <2>3, <2>4
<1>11. QED
  BY <1>3, <1>4, <1>5, <1>6, <1>7, <1>8, <1>9, <1>10 DEF ExeCore

LEMMA DatabaseStep ==
  ASSUME YpgIInv,
         Environment \/ Stopped \/ UNCHANGED vars \/ \E c \in Consumers : Execute(c)
  PROVE  YpgIInv'
<1> USE DEF YpgIInv, ypgVars, clientVars
<1>1. UNCHANGED <<pc, op, stmt, conn, connOk, result, tries, results, orphans, done>>
  BY DEF Environment, Refuse, Cut, ExecuteLate, Down, Up, Stopped, vars, Execute
<1>2. ASSUME NEW c \in Consumers, Execute(c) PROVE YpgIInv'
  <2>1. req[c] = "sent" /\ stmt[c] \in Statements
    BY <1>2 DEF Execute, Arrived, YpgTypeOK
  <2>2. PICK r \in Replies : Answer(c, r)
    BY <1>2 DEF Execute, Replies
  <2>3. CASE op[c] = "exec"
    <3>1. Apply(stmt[c])
      BY <1>2, <2>3 DEF Execute
    <3>2. /\ Present(stmt[c])'
          /\ \A q \in Statements : Present(q) => Present(q)'
          /\ applied' \in [Statements -> Nat]
      <4>1. PICK s \in Statements : s = stmt[c]
        BY <2>1
      <4>2. Present(s)' /\ (\A q \in Statements : Present(q) => Present(q)')
            /\ applied' \in [Statements -> Nat]
        BY <3>1, <4>1, ApplyPresent
      <4>3. stmt' = stmt
        BY <1>1
      <4>4. QED
        BY <4>1, <4>2, <4>3 DEF Present
    <3>3. YpgTypeOK'
      BY <1>1, <1>2, <2>2, <3>2 DEF Execute, Answer, YpgTypeOK
    <3>4. \A d \in Consumers : d # c => req'[d] = req[d] /\ reply'[d] = reply[d]
      BY <2>2 DEF Answer, YpgTypeOK
    <3>5. req'[c] = "answered"
      BY <2>2 DEF Answer, YpgTypeOK
    <3>6. \A d \in Consumers :
            op[d] = "exec" /\ req'[d] = "answered" /\ reply'[d] \in {"done", "dup"}
              => Present(stmt[d])'
      <4>1. stmt' = stmt
        BY <1>1
      <4>2. \A d \in Consumers : stmt[d] \in Statements
        BY DEF YpgTypeOK
      <4>3. Present(stmt[c])' /\ \A d \in Consumers : Present(stmt[d]) => Present(stmt[d])'
        BY <3>2, <4>1, <4>2 DEF Present
      <4>4. QED
        BY <3>4, <4>3 DEF AnswerMeans
    <3>7. QED
      BY <1>1, <2>1, <3>2, <3>3, <3>4, <3>5, <3>6, OutsideStep
  <2>4. CASE op[c] # "exec"
    <3>1. applied' = applied
      BY <1>2, <2>4 DEF Execute
    <3>2. \A q \in Statements : Present(q) => Present(q)'
      BY <3>1 DEF Present
    <3>3. YpgTypeOK'
      BY <1>1, <1>2, <2>2, <3>1 DEF Execute, Answer, YpgTypeOK
    <3>4. /\ \A d \in Consumers : d # c => req'[d] = req[d] /\ reply'[d] = reply[d]
          /\ req'[c] = "answered"
      BY <2>2 DEF Answer, YpgTypeOK
    <3>5. \A d \in Consumers :
            op[d] = "exec" /\ req'[d] = "answered" /\ reply'[d] \in {"done", "dup"}
              => Present(stmt[d])'
      BY <1>1, <2>4, <3>1, <3>4 DEF AnswerMeans, Present
    <3>6. QED
      BY <1>1, <2>1, <3>2, <3>3, <3>4, <3>5, OutsideStep
  <2>5. QED
    BY <2>3, <2>4
<1>3. ASSUME NEW s \in Statements, ExecuteLate(s) PROVE YpgIInv'
  <2>1. /\ \A q \in Statements : Present(q) => Present(q)'
        /\ applied' \in [Statements -> Nat]
    BY <1>3, ApplyPresent DEF ExecuteLate
  <2>2. YpgTypeOK'
    BY <1>1, <1>3, <2>1 DEF ExecuteLate, YpgTypeOK
  <2>3. req' = req /\ reply' = reply
    BY <1>3 DEF ExecuteLate
  <2>4. \A c \in Consumers : Present(stmt[c]) => Present(stmt[c])'
    <3>1. stmt' = stmt /\ \A c \in Consumers : stmt[c] \in Statements
      BY <1>1 DEF YpgTypeOK
    <3>2. QED
      BY <2>1, <3>1 DEF Present
  <2>5. QED
    BY <1>1, <2>1, <2>2, <2>3, <2>4, OutsideStep DEF AnswerMeans
<1>4. ASSUME NEW c \in Consumers, Refuse(c) PROVE YpgIInv'
  <2>1. req[c] = "sent" /\ applied' = applied /\ Answer(c, "error")
    BY <1>4 DEF Refuse, Arrived
  <2>2. YpgTypeOK'
    BY <1>1, <1>4, YpgAssumption DEF Refuse, Fault, Answer, YpgTypeOK, Replies
  <2>3. /\ \A d \in Consumers : d # c => req'[d] = req[d] /\ reply'[d] = reply[d]
        /\ req'[c] = "answered" /\ reply'[c] = "error"
    BY <2>1 DEF Answer, YpgTypeOK
  <2>4. \A q : Present(q)' <=> Present(q)
    BY <2>1 DEF Present
  <2>5. \A d \in Consumers :
          op[d] = "exec" /\ req'[d] = "answered" /\ reply'[d] \in {"done", "dup"}
            => Present(stmt[d])'
    BY <1>1, <2>1, <2>3 DEF AnswerMeans, Present
  <2>6. QED
    BY <1>1, <2>1, <2>2, <2>3, <2>4, <2>5, OutsideStep
<1>5. ASSUME \/ \E c \in Consumers : Cut(c)
             \/ Down \/ Up \/ Stopped \/ UNCHANGED vars
      PROVE  YpgIInv'
  <2>1. UNCHANGED <<req, reply, applied>>
    BY <1>5 DEF Cut, Down, Up, Stopped, vars, netVars, dbVars
  <2>2. YpgTypeOK'
    <3>1. ASSUME NEW c \in Consumers, Cut(c) PROVE YpgTypeOK'
      BY <3>1, YpgAssumption DEF Cut, Fault, YpgTypeOK
    <3>2. CASE Down
      <4>1. faults' \in 0 .. MaxFaults
        BY <3>2, YpgAssumption DEF Down, Fault, YpgTypeOK
      <4>2. link' \in [Consumers -> BOOLEAN]
        BY <3>2 DEF Down
      <4>3. QED
        BY <3>2, <4>1, <4>2 DEF Down, YpgTypeOK
    <3>3. CASE Up
      BY <3>3 DEF Up, YpgTypeOK, netVars
    <3>4. CASE Stopped \/ UNCHANGED vars
      BY <3>4 DEF Stopped, vars, netVars, dbVars, YpgTypeOK
    <3>5. QED
      BY <1>5, <3>1, <3>2, <3>3, <3>4
  <2>3. \A q : Present(q)' <=> Present(q)
    BY <2>1 DEF Present
  <2>4. \A c \in Consumers : Present(stmt[c]) <=> Present(stmt[c])'
    BY <1>1, <2>1 DEF Present
  <2>5. QED
    BY <1>1, <2>1, <2>2, <2>3, <2>4, OutsideStep DEF AnswerMeans
<1>6. QED
  BY <1>2, <1>3, <1>4, <1>5 DEF Environment

LEMMA YpgInvariant == Spec => []YpgIInv
<1>1. YpgIInv /\ [Next]_vars => YpgIInv'
  BY ClientStep, ExeCoreStep, DatabaseStep DEF Next
<1>2. QED
  BY YpgInit, <1>1, PTL DEF Spec

-----------------------------------------------------------------------------
\* Every variable holds a value of its type, in every reachable state.
THEOREM YpgTypeCorrect == Spec => []YpgTypeOK
<1>1. YpgIInv => YpgTypeOK
  BY DEF YpgIInv
<1>2. QED
  BY YpgInvariant, <1>1, PTL

\* A statement exec() reports as done is in the database, however often the
\* connection broke and whoever executed it (exe_core, pg_error_mgr).
THEOREM DoneIsDone == Spec => []DoneIsPresent
<1>1. YpgIInv => DoneIsPresent
  BY DEF YpgIInv
<1>2. QED
  BY YpgInvariant, <1>1, PTL

\* After exec() and query() conn_ok_ is what libpq says of the connection,
\* however often and in whatever order the client calls connect() as well; only
\* a connect() that failed can leave it wrong, and the next call of the other
\* two puts it right (exe_core, connect).
THEOREM ConnOkAfterCall == Spec => []ConnOkTellsWhy
<1>1. YpgIInv => ConnOkTellsWhy
  BY DEF YpgIInv, ConnOkState, ConnOkTellsWhy, YpgTypeOK
<1>2. QED
  BY YpgInvariant, <1>1, PTL

\* Calls lose a PGresult only for a duplicate on a broken connection.
THEOREM ResultsAreCleared == Spec => []ResultsAccounted
<1>1. YpgIInv => ResultsAccounted
  BY DEF YpgIInv, ResultState, ResultsAccounted, YpgTypeOK
<1>2. QED
  BY YpgInvariant, <1>1, PTL

-----------------------------------------------------------------------------
\* The statement c is executing took effect and c will see that it did.
Effective(c, s) ==
  /\ Executing(c, s)
  /\ \/ req[c] = "answered" /\ reply[c] = "done" /\ link[c]
     \/ pc[c] = "check" /\ result[c] = "done"

Effected(s) == {c \in Consumers : s \in done[c] \/ Effective(c, s)}

Waiting(s) == IF s \in late THEN 1 ELSE 0

\* Every effect of a statement, and the one that may still come, has a client
\* that saw it or will see it, or a fault that hid it from one.
Counted(s) ==
  applied[s] + Waiting(s)
    <= Cardinality(Effected(s)) + faults * Cardinality(Consumers)

EffectsCounted == \A s \in Statements \ Keyed : Counted(s)

NotYetDone ==
  \A c \in Consumers, s \in Statements : Executing(c, s) => s \notin done[c]

\* Clients that saw an effect are finitely many.
LEMMA EffectedFinite ==
  ASSUME NEW S \in SUBSET Consumers
  PROVE  /\ IsFiniteSet(S) /\ Cardinality(S) \in Nat
         /\ Cardinality(S) <= Cardinality(Consumers)
         /\ Cardinality(Consumers) \in Nat
         /\ \A T \in SUBSET S : Cardinality(T) <= Cardinality(S)
<1>1. IsFiniteSet(S) /\ Cardinality(S) <= Cardinality(Consumers)
  BY FS_Subset, YpgAssumption
<1>2. Cardinality(S) \in Nat /\ Cardinality(Consumers) \in Nat
  BY <1>1, FS_CardinalityType, YpgAssumption
<1>3. \A T \in SUBSET S : Cardinality(T) <= Cardinality(S)
  BY <1>1, FS_Subset
<1>4. QED
  BY <1>1, <1>2, <1>3

\* The count of a statement that takes no further effect only grows.
LEMMA CountKept ==
  ASSUME YpgTypeOK, NEW s \in Statements, Counted(s),
         faults' = faults, applied'[s] = applied[s], late' = late,
         Effected(s) \subseteq Effected(s)'
  PROVE  Counted(s)'
<1>1. /\ Cardinality(Effected(s)) <= Cardinality(Effected(s)')
      /\ Cardinality(Effected(s)) \in Nat /\ Cardinality(Effected(s)') \in Nat
      /\ Cardinality(Consumers) \in Nat
  <2>1. Effected(s) \in SUBSET Consumers /\ Effected(s)' \in SUBSET Consumers
    BY DEF Effected
  <2>2. QED
    BY <2>1, EffectedFinite
<1>2. faults * Cardinality(Consumers) \in Nat /\ applied[s] \in Nat
  BY <1>1 DEF YpgTypeOK
<1>3. QED
  BY <1>1, <1>2 DEF Counted, Waiting

\* A fault takes at most one effect from the sight of each client, or lets a
\* statement of one client be executed late.
LEMMA CountFault ==
  ASSUME YpgTypeOK, NEW s \in Statements, Counted(s),
         faults' = faults + 1, applied' = applied,
         \/ late' = {}
         \/ /\ Waiting(s)' <= Waiting(s)
            /\ \E c \in Consumers : Effected(s) \subseteq Effected(s)' \cup {c}
         \/ Consumers # {} /\ Effected(s) \subseteq Effected(s)'
  PROVE  Counted(s)'
<1> DEFINE n == Cardinality(Consumers)
           e == Cardinality(Effected(s))
           f == Cardinality(Effected(s)')
<1>1. Effected(s) \in SUBSET Consumers /\ Effected(s)' \in SUBSET Consumers
  BY DEF Effected
<1>2. n \in Nat /\ e \in Nat /\ f \in Nat /\ e <= n /\ IsFiniteSet(Effected(s)')
  BY <1>1, EffectedFinite
<1>3. applied[s] \in Nat /\ faults \in Nat /\ faults * n \in Nat
  BY <1>2 DEF YpgTypeOK
<1>4. (faults + 1) * n = faults * n + n
  BY <1>2, <1>3
<1>5. Consumers # {} => n >= 1
  BY <1>2, FS_EmptySet, YpgAssumption
<1>6. Waiting(s) \in {0, 1} /\ Waiting(s)' \in {0, 1}
  BY DEF Waiting
<1> HIDE DEF n, e, f
<1>7. applied[s] + Waiting(s) <= e + faults * n
  BY DEF Counted, n, e
<1>8. Waiting(s)' + e <= Waiting(s) + f + n
  <2>1. CASE late' = {}
    BY <1>2, <1>6, <2>1 DEF Waiting
  <2>2. CASE /\ Waiting(s)' <= Waiting(s)
             /\ \E c \in Consumers : Effected(s) \subseteq Effected(s)' \cup {c}
    <3>1. PICK c \in Consumers : Effected(s) \subseteq Effected(s)' \cup {c}
      BY <2>2
    <3>2. /\ IsFiniteSet(Effected(s)' \cup {c})
          /\ Cardinality(Effected(s)' \cup {c}) <= f + 1
      BY <1>2, FS_AddElement DEF f
    <3>3. e <= f + 1
      <4>1. Effected(s)' \cup {c} \in SUBSET Consumers
        BY <1>1
      <4>2. e <= Cardinality(Effected(s)' \cup {c}) /\ Cardinality(Effected(s)' \cup {c}) \in Nat
        BY <3>1, <4>1, EffectedFinite DEF e
      <4>3. QED
        BY <1>2, <3>2, <4>2
    <3>4. QED
      BY <1>2, <1>5, <1>6, <2>2, <3>3
  <2>3. CASE Consumers # {} /\ Effected(s) \subseteq Effected(s)'
    <3>1. e <= f
      BY <1>1, <2>3, EffectedFinite DEF e, f
    <3>2. QED
      BY <1>2, <1>5, <1>6, <2>3, <3>1
  <2>4. QED
    BY <2>1, <2>2, <2>3
<1>9. applied[s] + Waiting(s)' <= f + (faults + 1) * n
  BY <1>2, <1>3, <1>4, <1>6, <1>7, <1>8
<1>10. QED
  BY <1>9 DEF Counted, n, f

\* A step of a client of its own, or of exe_core for it, keeps what is counted.
LEMMA ConsumerCount ==
  ASSUME YpgIInv, EffectsCounted, NotYetDone, NEW c \in Consumers,
         Client(c) \/ ExeCore(c)
  PROVE  EffectsCounted' /\ NotYetDone'
<1> USE DEF YpgIInv, netVars, dbVars, clientVars, MayCall, Begin, Got
<1>1. applied' = applied /\ late' = late /\ faults' = faults
  BY DEF Client, ClientConnect, Query, Exec, ExeCore, Send, Receive,
         ReceiveBroken, ThrowNoCode, Return, StartReconnect, Reconnected,
         ReconnectFailed
<1>2. \A d \in Consumers : d # c =>
        UNCHANGED <<pc[d], op[d], stmt[d], done[d], req[d], reply[d], link[d],
                    result[d]>>
  BY DEF Client, ClientConnect, Connect, Query, Exec, ExeCore, Send, Receive,
         ReceiveBroken, ThrowNoCode, Return, StartReconnect, Reconnected,
         ReconnectFailed, YpgTypeOK, ypgVars
<1>3. \A s \in Statements : s \in done[c] => s \in done'[c]
  BY DEF Client, ClientConnect, Query, Exec, ExeCore, Send, Receive,
         ReceiveBroken, ThrowNoCode, Return, StartReconnect, Reconnected,
         ReconnectFailed, YpgTypeOK, ypgVars
<1>4. ASSUME NEW s \in Statements, Effective(c, s)
      PROVE  s \in done'[c] \/ Effective(c, s)'
  <2> USE <1>4 DEF Effective, Executing, WaitState, YpgTypeOK
  <2>1. CASE Client(c)
    BY <2>1 DEF Client, ClientConnect, Query, Exec
  <2>2. CASE Send(c)
    BY <2>2 DEF Send
  <2>3. CASE Receive(c)
    BY <2>3 DEF Receive
  <2>4. CASE ReceiveBroken(c)
    BY <2>4 DEF ReceiveBroken
  <2>5. CASE ThrowNoCode(c)
    BY <2>5 DEF ThrowNoCode, ypgVars
  <2>6. CASE Return(c)
    BY <2>6 DEF Return, Checked, Kept
  <2>7. CASE StartReconnect(c)
    BY <2>7 DEF StartReconnect, Checked
  <2>8. CASE Reconnected(c) \/ ReconnectFailed(c)
    BY <2>8 DEF Reconnected, ReconnectFailed
  <2>9. QED
    BY <2>1, <2>2, <2>3, <2>4, <2>5, <2>6, <2>7, <2>8 DEF ExeCore
<1>5. \A s \in Statements : Effected(s) \subseteq Effected(s)'
  BY <1>2, <1>3, <1>4 DEF Effected, Effective, Executing
<1>6. EffectsCounted'
  BY <1>1, <1>5, CountKept DEF EffectsCounted
<1>7. ASSUME NEW s \in Statements, Executing(c, s)' PROVE s \notin done'[c]
  <2> USE <1>7 DEF Executing, NotYetDone, YpgTypeOK
  <2>1. CASE Client(c)
    BY <2>1 DEF Client, ClientConnect, Query, Exec
  <2>2. CASE ExeCore(c)
    <3>1. pc[c] # "idle" /\ op' = op /\ stmt' = stmt
      BY <2>2 DEF ExeCore, Send, Receive, ReceiveBroken, ThrowNoCode, Return,
                  Checked, StartReconnect, Reconnected, ReconnectFailed, ypgVars,
                  WaitState
    <3>2. pc'[c] # "idle" => done' = done
      BY <2>2 DEF ExeCore, Send, Receive, ReceiveBroken, ThrowNoCode, Return,
                  StartReconnect, Reconnected, ReconnectFailed, ypgVars
    <3>3. QED
      BY <3>1, <3>2
  <2>3. QED
    BY <2>1, <2>2
<1>8. NotYetDone'
  BY <1>2, <1>7 DEF NotYetDone, Executing
<1>9. QED
  BY <1>6, <1>8

\* The effect of a statement that is executed in time has a new witness: the
\* client that waits for it.
LEMMA ExecuteCount ==
  ASSUME YpgIInv, EffectsCounted, NotYetDone, NEW c \in Consumers, Execute(c)
  PROVE  EffectsCounted'
<1> USE DEF YpgIInv
<1> SUFFICES ASSUME NEW s \in Statements \ Keyed PROVE Counted(s)'
  BY DEF EffectsCounted
<1>1. /\ faults' = faults /\ late' = late /\ link' = link
      /\ UNCHANGED <<pc, op, stmt, done, result>>
  BY DEF Execute, ypgVars, clientVars
<1>2. req[c] = "sent" /\ link[c] /\ pc[c] = "wait"
  BY DEF Execute, Arrived, WaitState
<1>3. /\ req'[c] = "answered"
      /\ \A d \in Consumers : d # c => req'[d] = req[d] /\ reply'[d] = reply[d]
  BY DEF Execute, Answer, YpgTypeOK
<1>4. Effected(s) \subseteq Effected(s)'
  BY <1>1, <1>2, <1>3 DEF Effected, Effective, Executing
<1>5. CASE op[c] = "exec" /\ stmt[c] = s
  <2>1. ~Duplicate(s)
    BY DEF Duplicate
  <2>2. applied'[s] = applied[s] + 1
    BY <1>5, <2>1 DEF Execute, Apply, YpgTypeOK
  <2>3. reply'[c] = "done"
    BY <1>5, <2>1 DEF Execute, Answer, YpgTypeOK
  <2>4. c \in Effected(s)'
    BY <1>1, <1>2, <1>3, <1>5, <2>3 DEF Effected, Effective, Executing
  <2>5. c \notin Effected(s)
    BY <1>2, <1>5 DEF Effected, Effective, Executing, NotYetDone
  <2>6. Effected(s) \cup {c} \in SUBSET Consumers /\ Effected(s)' \in SUBSET Consumers
    BY DEF Effected
  <2>7. Effected(s) \in SUBSET Consumers
    BY DEF Effected
  <2>8. IsFiniteSet(Effected(s)) /\ Cardinality(Effected(s)) \in Nat /\ Cardinality(Consumers) \in Nat
    BY <2>7, EffectedFinite
  <2>9. Cardinality(Effected(s) \cup {c}) = Cardinality(Effected(s)) + 1
    BY <2>5, <2>8, FS_AddElement
  <2>10. /\ Cardinality(Effected(s) \cup {c}) <= Cardinality(Effected(s)')
         /\ Cardinality(Effected(s)') \in Nat
    <3>1. Effected(s) \cup {c} \in SUBSET Effected(s)'
      BY <1>4, <2>4
    <3>2. QED
      BY <2>6, <3>1, EffectedFinite
  <2>11. applied[s] \in Nat /\ faults * Cardinality(Consumers) \in Nat
    BY <2>8 DEF YpgTypeOK
  <2>12. Counted(s) /\ Waiting(s)' = Waiting(s) /\ Waiting(s) \in {0, 1}
    BY <1>1 DEF EffectsCounted, Waiting
  <2>13. QED
    BY <1>1, <2>2, <2>8, <2>9, <2>10, <2>11, <2>12 DEF Counted
<1>6. CASE ~(op[c] = "exec" /\ stmt[c] = s)
  <2>1. applied'[s] = applied[s]
    BY <1>6 DEF Execute, Apply, YpgTypeOK
  <2>2. QED
    BY <1>1, <1>4, <2>1, CountKept DEF EffectsCounted
<1>7. QED
  BY <1>5, <1>6

\* What was counted as still to come is executed late.
LEMMA LateCount ==
  ASSUME YpgIInv, EffectsCounted, NEW q \in Statements, ExecuteLate(q)
  PROVE  EffectsCounted'
<1> USE DEF YpgIInv
<1> SUFFICES ASSUME NEW s \in Statements \ Keyed PROVE Counted(s)'
  BY DEF EffectsCounted
<1>1. /\ UNCHANGED <<pc, op, stmt, done, result, req, reply, link, faults>>
      /\ q \in late /\ late' = late \ {q}
  BY DEF ExecuteLate, ypgVars, clientVars
<1>2. Effected(s)' = Effected(s)
  BY <1>1 DEF Effected, Effective, Executing
<1>3. Cardinality(Effected(s)) \in Nat /\ Cardinality(Consumers) \in Nat
  <2>1. Effected(s) \in SUBSET Consumers
    BY DEF Effected
  <2>2. QED
    BY <2>1, EffectedFinite
<1>4. applied[s] \in Nat /\ faults * Cardinality(Consumers) \in Nat
  BY <1>3 DEF YpgTypeOK
<1>5. applied'[s] + Waiting(s)' <= applied[s] + Waiting(s)
  <2>1. CASE q = s
    BY <1>1, <1>4, <2>1 DEF ExecuteLate, Apply, Duplicate, Waiting, YpgTypeOK
  <2>2. CASE q # s
    BY <1>1, <1>4, <2>2 DEF ExecuteLate, Apply, Waiting, YpgTypeOK
  <2>3. QED
    BY <2>1, <2>2
<1>6. applied'[s] \in Nat
  BY DEF ExecuteLate, Apply, YpgTypeOK
<1>7. Waiting(s) \in {0, 1} /\ Waiting(s)' \in {0, 1}
  BY DEF Waiting
<1>8. Counted(s)
  BY DEF EffectsCounted
<1>9. QED
  BY <1>1, <1>2, <1>3, <1>4, <1>5, <1>6, <1>7, <1>8 DEF Counted

\* A fault hides at most one effect from each client.
LEMMA FaultCount ==
  ASSUME YpgIInv, EffectsCounted,
         Down \/ \E c \in Consumers : Refuse(c) \/ Cut(c)
  PROVE  EffectsCounted'
<1> USE DEF YpgIInv
<1> SUFFICES ASSUME NEW s \in Statements \ Keyed PROVE Counted(s)'
  BY DEF EffectsCounted
<1>1. /\ UNCHANGED <<pc, op, stmt, done, result, applied>>
      /\ faults' = faults + 1
  BY DEF Down, Refuse, Cut, Fault, ypgVars, clientVars
<1>2. Counted(s)
  BY DEF EffectsCounted
<1>3. CASE Down
  <2>1. late' = {}
    BY <1>3 DEF Down
  <2>2. QED
    BY <1>1, <1>2, <2>1, CountFault
<1>4. ASSUME NEW c \in Consumers, Refuse(c) PROVE Counted(s)'
  <2>1. req[c] = "sent" /\ link' = link /\ late' = late /\ pc[c] = "wait"
    BY <1>4 DEF Refuse, Arrived, WaitState
  <2>2. \A d \in Consumers : d # c => req'[d] = req[d] /\ reply'[d] = reply[d]
    BY <1>4 DEF Refuse, Answer, YpgTypeOK
  <2>3. Effected(s) \subseteq Effected(s)'
    BY <1>1, <2>1, <2>2 DEF Effected, Effective, Executing
  <2>4. QED
    BY <1>1, <1>2, <2>3, CountFault
<1>5. ASSUME NEW c \in Consumers, Cut(c) PROVE Counted(s)'
  <2>1. /\ req' = req /\ reply' = reply
        /\ \A d \in Consumers : d # c => link'[d] = link[d]
    BY <1>5 DEF Cut, YpgTypeOK
  <2>2. Effected(s) \subseteq Effected(s)' \cup {c}
    BY <1>1, <2>1 DEF Effected, Effective, Executing
  <2>3. CASE Pending(c)
    <3>1. pc[c] = "wait" /\ req[c] = "sent"
      BY <2>3 DEF Pending, WaitState
    <3>2. Effected(s) \subseteq Effected(s)'
      BY <1>1, <2>1, <3>1 DEF Effected, Effective, Executing
    <3>3. QED
      BY <1>1, <1>2, <3>2, CountFault
  <2>4. CASE ~Pending(c)
    <3>1. Waiting(s)' <= Waiting(s)
      BY <1>5, <2>4 DEF Cut, Waiting
    <3>2. QED
      BY <1>1, <1>2, <2>2, <3>1, CountFault
  <2>5. QED
    BY <2>3, <2>4
<1>6. QED
  BY <1>3, <1>4, <1>5

LEMMA EffectsInvariant == Spec => [](EffectsCounted /\ NotYetDone)
<1>1. Init => EffectsCounted /\ NotYetDone
  <2> SUFFICES ASSUME Init PROVE EffectsCounted /\ NotYetDone
    OBVIOUS
  <2>1. ASSUME NEW s \in Statements \ Keyed PROVE Counted(s)
    <3>1. Effected(s) \in SUBSET Consumers
      BY DEF Effected
    <3>2. Cardinality(Effected(s)) \in Nat /\ Cardinality(Consumers) \in Nat
      BY <3>1, EffectedFinite
    <3>3. QED
      BY <3>2 DEF Counted, Waiting, Init
  <2>2. NotYetDone
    BY DEF Init, NotYetDone, Executing
  <2>3. QED
    BY <2>1, <2>2 DEF EffectsCounted
<1>2. YpgIInv /\ EffectsCounted /\ NotYetDone /\ [Next]_vars
        => (EffectsCounted /\ NotYetDone)'
  <2> SUFFICES ASSUME YpgIInv, EffectsCounted, NotYetDone, [Next]_vars
               PROVE  EffectsCounted' /\ NotYetDone'
    OBVIOUS
  <2>1. ASSUME NEW c \in Consumers, Client(c) \/ ExeCore(c)
        PROVE  EffectsCounted' /\ NotYetDone'
    BY <2>1, ConsumerCount
  <2>2. CASE UNCHANGED <<pc, op, stmt, done>>
    <3>1. NotYetDone'
      BY <2>2 DEF NotYetDone, Executing
    <3>2. ASSUME NEW c \in Consumers, Execute(c) PROVE EffectsCounted'
      BY <3>2, ExecuteCount
    <3>3. ASSUME NEW s \in Statements, ExecuteLate(s) PROVE EffectsCounted'
      BY <3>3, LateCount
    <3>4. ASSUME Down \/ \E c \in Consumers : Refuse(c) \/ Cut(c) PROVE EffectsCounted'
      BY <3>4, FaultCount
    <3>5. ASSUME Up \/ UNCHANGED vars PROVE EffectsCounted'
      <4>1. UNCHANGED <<pc, op, stmt, done, result, req, reply, link, late, applied, faults>>
        BY <3>5 DEF Up, vars, ypgVars, clientVars, netVars, dbVars
      <4>2. ASSUME NEW s \in Statements \ Keyed PROVE Counted(s)'
        <5>1. Effected(s)' = Effected(s)
          BY <4>1 DEF Effected, Effective, Executing
        <5>2. QED
          BY <4>1, <5>1 DEF EffectsCounted, Counted, Waiting
      <4>3. QED
        BY <4>2 DEF EffectsCounted
    <3>6. QED
      BY <2>1, <3>1, <3>2, <3>3, <3>4, <3>5 DEF Next, Environment, Stopped
  <2>3. QED
    BY <2>1, <2>2 DEF Next, Environment, Stopped, Execute, Refuse, Cut,
       ExecuteLate, Down, Up, vars, ypgVars, clientVars
<1>3. QED
  BY <1>1, <1>2, YpgInvariant, PTL DEF Spec

\* A statement without a key takes effect at most once for every client that
\* executes it, and again only where a connection was lost (exe_core's loop).
THEOREM RepeatedOnlyAfterLoss == Spec => []TwiceOnlyAfterLoss
<1>1. YpgIInv /\ EffectsCounted => TwiceOnlyAfterLoss
  <2> SUFFICES ASSUME YpgIInv, EffectsCounted, NEW s \in Statements \ Keyed
               PROVE  applied[s] <= Cardinality({c \in Consumers : s \in done[c] \/ Executing(c, s)})
                                      + faults * Cardinality(Consumers)
    BY DEF TwiceOnlyAfterLoss
  <2> DEFINE E == {c \in Consumers : s \in done[c] \/ Executing(c, s)}
  <2>1. Effected(s) \in SUBSET E /\ E \in SUBSET Consumers
    BY DEF Effected, Effective
  <2> HIDE DEF E
  <2>2. /\ Cardinality(Effected(s)) <= Cardinality(E) /\ Cardinality(E) \in Nat
        /\ Cardinality(Effected(s)) \in Nat /\ Cardinality(Consumers) \in Nat
    BY <2>1, EffectedFinite
  <2>3. applied[s] \in Nat /\ faults * Cardinality(Consumers) \in Nat
    BY <2>2 DEF YpgIInv, YpgTypeOK
  <2>4. applied[s] <= Cardinality(E) + faults * Cardinality(Consumers)
    BY <2>2, <2>3 DEF EffectsCounted, Counted, Waiting
  <2>5. QED
    BY <2>4 DEF E
<1>2. QED
  BY <1>1, YpgInvariant, EffectsInvariant, PTL

-----------------------------------------------------------------------------
\* The database, as Consumption sees it.
LEMMA EffectIsPresence == \A s : Promise!InEffect(s) <=> Present(s)
BY DEF Promise!InEffect, Present

\* Executing a statement, at once or late, is an effect of Consumption, or
\* none when what the statement creates is there.
LEMMA ApplyTakesEffect ==
  ASSUME NEW s \in Statements, Apply(s), done' = done
  PROVE  Promise!Next \/ UNCHANGED Promise!vars
<1>1. CASE Duplicate(s)
  BY <1>1 DEF Apply, Promise!vars
<1>2. CASE ~Duplicate(s)
  <2>1. Promise!TakeEffect(s)
    BY <1>2, EffectIsPresence DEF Apply, Duplicate, Promise!TakeEffect
  <2>2. QED
    BY <2>1 DEF Promise!Next
<1>3. QED
  BY <1>1, <1>2

LEMMA ConsumptionInit == Init => Promise!Init
BY DEF Init, Promise!Init

\* Every step is an effect, a report, or invisible.
LEMMA ConsumptionStep ==
  YpgIInv /\ [Next]_vars => [Promise!Next]_(Promise!vars)
<1> SUFFICES ASSUME YpgIInv, [Next]_vars
             PROVE  Promise!Next \/ UNCHANGED Promise!vars
  OBVIOUS
<1>1. ASSUME NEW c \in Consumers, Return(c)
      PROVE  Promise!Next \/ UNCHANGED Promise!vars
  <2>1. applied' = applied
    BY <1>1 DEF Return, dbVars
  <2>2. CASE op[c] = "exec" /\ Kept(c)
    <3>1. stmt[c] \in Statements /\ Present(stmt[c])
      BY <1>1, <2>2 DEF Return, Checked, Kept, YpgIInv, YpgTypeOK, AnswerMeans
    <3>2. done' = [done EXCEPT ![c] = @ \cup {stmt[c]}]
      BY <1>1, <2>2 DEF Return
    <3>3. Promise!Report(c, stmt[c])
      BY <2>1, <3>1, <3>2, EffectIsPresence DEF Promise!Report
    <3>4. QED
      BY <3>1, <3>3 DEF Promise!Next
  <2>3. CASE ~(op[c] = "exec" /\ Kept(c))
    <3>1. done' = [done EXCEPT ![c] = done[c]]
      BY <1>1, <2>3 DEF Return
    <3>2. done' = done
      BY <3>1 DEF YpgIInv, YpgTypeOK
    <3>3. QED
      BY <2>1, <3>2 DEF Promise!vars
  <2>4. QED
    BY <2>2, <2>3
<1>2. ASSUME NEW c \in Consumers, Execute(c)
      PROVE  Promise!Next \/ UNCHANGED Promise!vars
  <2>1. done' = done /\ stmt[c] \in Statements
    BY <1>2 DEF Execute, clientVars, YpgIInv, YpgTypeOK
  <2>2. CASE op[c] = "exec"
    <3>1. Apply(stmt[c])
      BY <1>2, <2>2 DEF Execute
    <3>2. QED
      BY <2>1, <3>1, ApplyTakesEffect
  <2>3. CASE op[c] # "exec"
    BY <1>2, <2>1, <2>3 DEF Execute, Promise!vars
  <2>4. QED
    BY <2>2, <2>3
<1>3. ASSUME NEW s \in Statements, ExecuteLate(s)
      PROVE  Promise!Next \/ UNCHANGED Promise!vars
  BY <1>3, ApplyTakesEffect DEF ExecuteLate, clientVars
<1>4. ASSUME NEW c \in Consumers,
             \/ Client(c)
             \/ ExeCore(c) /\ ~Return(c)
             \/ Refuse(c) \/ Cut(c)
      PROVE  UNCHANGED Promise!vars
  BY <1>4
     DEF Client, ClientConnect, Query, Exec, ExeCore, Send, Receive, ReceiveBroken, Got,
         ThrowNoCode, StartReconnect, Reconnected, ReconnectFailed, Refuse, Cut,
         ypgVars, clientVars, netVars, dbVars, Promise!vars
<1>5. ASSUME Down \/ Up \/ Stopped \/ UNCHANGED vars
      PROVE  UNCHANGED Promise!vars
  BY <1>5 DEF Down, Up, Stopped, vars, ypgVars, clientVars, netVars, dbVars, Promise!vars
<1>6. QED
  BY <1>1, <1>2, <1>3, <1>4, <1>5 DEF Next, Environment

\* exe_core with its lost connections, retries and late executions implements
\* Consumption: a statement is reported done only when it is, and one with a
\* key takes effect only where the key is missing (exe_core, exec).
THEOREM KeepsConsumption == Spec => KeepsConsumptionPromise
<1>1. QED
  BY YpgInvariant, ConsumptionInit, ConsumptionStep, PTL
     DEF Spec, KeepsConsumptionPromise, Promise!Spec
=============================================================================
