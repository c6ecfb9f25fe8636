--------------------------- MODULE PerfSyncProofs ----------------------------
(***************************************************************************)
(* Theorems about a redis caller alone, for any number of callers,         *)
(* addresses and failed connects: its type invariant, that commands run on *)
(* a usable context and ask the node it was sent to, and the exact number  *)
(* of contexts it leaks.                                                   *)
(*                                                                         *)
(* Theorems about the whole program, for any number of threads, fields,    *)
(* nodes and faults: it uses the caller as RedisCaller specifies, it loses *)
(* no field, reorders none, never changes an expiry, finishes only when    *)
(* every thread has, and implements HashWrites.                            *)
(***************************************************************************)
EXTENDS PerfSync, TLAPS

-----------------------------------------------------------------------------
(* A redis caller alone *)

\* What a caller's context is before its first connect().
FreshContext ==
  alive => \A c \in Callers : pc[c] \in {"none", "new"} => ctx[c] = "NULL"

\* The inductive invariant.
CallerIInv ==
  /\ CallerTypeOK
  /\ SendsOnUsableContext
  /\ FreshContext
  /\ LeaksOnlyFailedReconnects

-----------------------------------------------------------------------------
(* Types *)

\* What the members of Reply that matter look like.
LEMMA ReplyShape ==
  ASSUME NEW r \in Reply
  PROVE  /\ r.kind = "MOVED" => r.ip \in Ips /\ r.port \in Ports
         /\ r.kind = "NULL" => r.err \in Errors
         /\ r.kind \in DataKinds \cup ErrorKinds \cup
              {"CLUSTERDOWN", "BADPORT", "MOVED", "NULL"}
<1>1. CASE r \in [kind : DataKinds \cup ErrorKinds \cup {"CLUSTERDOWN", "BADPORT"}]
  BY <1>1 DEF DataKinds, ErrorKinds
<1>2. CASE r \in [kind : {"MOVED"}, ip : Ips, port : Ports]
  BY <1>2
<1>3. CASE r \in [kind : {"NULL"}, err : Errors]
  BY <1>3
<1>4. QED
  BY <1>1, <1>2, <1>3 DEF Reply

\* An operation hands back one of the values of Results.
LEMMA ReturnsType ==
  ASSUME NEW o, NEW r
  PROVE  Returns(o, r) \in Results
BY DEF Returns, Results

\* Addresses and who named them.
LEMMA AddressTypes ==
  /\ \A c \in Callers : ip[c] \in Ips /\ port[c] \in Ports => At(c) \in Addr
  /\ \A who \in {"owner", "cluster"} : \A a :
       a.ip \in Ips /\ a.port \in Ports => Named(who, a) \in Names
  /\ \A a \in Addr : a.ip \in Ips /\ a.port \in Ports
BY DEF At, Addr, Named, Names

LEMMA CallerTypeInit == CallerInit => CallerTypeOK
<1> SUFFICES ASSUME CallerInit PROVE CallerTypeOK
  OBVIOUS
<1>1. peer \in [Callers -> Addr] /\ told \in [Callers -> Names]
  BY DEF CallerInit, At, Addr, Named, Names
<1>2. QED
  BY <1>1, CallerAssumption
     DEF CallerInit, CallerTypeOK, Pcs, Ops, Results, DataKinds

\* Every step keeps every variable in its type.
LEMMA CallerTypeStep ==
  ASSUME CallerTypeOK, [CallerNext]_callerVars
  PROVE  CallerTypeOK'
<1> USE CallerAssumption DEF CallerTypeOK
<1>1. CASE Killed
  BY <1>1 DEF Killed
<1>2. ASSUME NEW c \in Callers, NEW a \in Addr, Construct(c, a)
      PROVE  CallerTypeOK'
  BY <1>2, AddressTypes DEF Construct, Pcs
<1>3. ASSUME NEW c \in Callers, NEW ok \in BOOLEAN, FirstConnect(c, ok)
      PROVE  CallerTypeOK'
  BY <1>3, AddressTypes DEF FirstConnect, Connect, Pcs, Errors
<1>4. ASSUME NEW c \in Callers, NEW ok \in BOOLEAN, Reconnect(c, ok)
      PROVE  CallerTypeOK'
  BY <1>4, AddressTypes DEF Reconnect, Connect, Pcs, Errors
<1>5. ASSUME NEW c \in Callers, ConnectNoMemory(c)
      PROVE  CallerTypeOK'
  BY <1>5 DEF ConnectNoMemory
<1>6. ASSUME NEW c \in Callers, Destroy(c)
      PROVE  CallerTypeOK'
  BY <1>6 DEF Destroy, Pcs
<1>7. ASSUME NEW c \in Callers, NEW o \in Ops, Call(c, o)
      PROVE  CallerTypeOK'
  BY <1>7 DEF Call, Pcs
<1>8. ASSUME NEW c \in Callers, Send(c)
      PROVE  CallerTypeOK'
  BY <1>8 DEF Send, Pcs
<1>9. ASSUME NEW c \in Callers, NEW r \in Reply, Receive(c, r)
      PROVE  CallerTypeOK'
  <2> USE ReplyShape
  <2>1. CASE Redirect(c, r)
    BY <2>1, AddressTypes DEF Redirect, DropContext, Pcs
  <2>2. CASE Retry(c, r)
    BY <2>2 DEF Retry, DropContext, Pcs
  <2>3. CASE ThrowBadPort(c, r)
    BY <2>3 DEF ThrowBadPort
  <2>4. CASE Finish(c, r)
    <3>1. r.kind \in DataKinds \cup ErrorKinds
      BY <2>4 DEF Finish, Final, ConnectAgain
    <3>2. QED
      BY <2>4, <3>1, ReturnsType DEF Finish, Pcs
  <2>5. CASE GiveUp(c, r)
    BY <2>5 DEF GiveUp, Pcs, Results
  <2>6. CASE DerefNull(c, r)
    BY <2>6 DEF DerefNull
  <2>7. QED
    BY <1>9, <2>1, <2>2, <2>3, <2>4, <2>5, <2>6 DEF Receive
<1>10. CASE UNCHANGED callerVars
  BY <1>10 DEF callerVars
<1>11. QED
  BY <1>1, <1>2, <1>3, <1>4, <1>5, <1>6, <1>7, <1>8, <1>9, <1>10 DEF CallerNext

\* Every variable of a caller holds a value of its type, in every reachable
\* state (yrep_redis_caller_n).
THEOREM CallerTypeCorrect == CallerSpec => []CallerTypeOK
<1>1. CallerInit => CallerTypeOK
  BY CallerTypeInit
<1>2. CallerTypeOK /\ [CallerNext]_callerVars => CallerTypeOK'
  BY CallerTypeStep
<1>3. QED
  BY <1>1, <1>2, PTL DEF CallerSpec

-----------------------------------------------------------------------------
(* Contexts *)

LEMMA CallerInvInit == CallerInit => CallerIInv
<1> SUFFICES ASSUME CallerInit PROVE CallerIInv
  OBVIOUS
<1>1. CallerTypeOK
  BY CallerTypeInit
<1>2. QED
  BY <1>1
     DEF CallerInit, CallerIInv, SendsOnUsableContext, FreshContext,
         LeaksOnlyFailedReconnects

\* Every step keeps the count of contexts exact and the loop on a context it
\* can use.
LEMMA CallerInvStep ==
  ASSUME CallerIInv, [CallerNext]_callerVars
  PROVE  CallerIInv'
<1>1. CallerTypeOK'
  BY CallerTypeStep DEF CallerIInv
<1> USE DEF CallerIInv, CallerTypeOK, SendsOnUsableContext, FreshContext,
            LeaksOnlyFailedReconnects
<1>2. CASE Killed
  BY <1>1, <1>2 DEF Killed
<1>3. ASSUME NEW c \in Callers, NEW a \in Addr, Construct(c, a)
      PROVE  CallerIInv'
  BY <1>1, <1>3 DEF Construct
<1>4. ASSUME NEW c \in Callers, NEW ok \in BOOLEAN, FirstConnect(c, ok)
      PROVE  CallerIInv'
  BY <1>1, <1>4 DEF FirstConnect, Connect
<1>5. ASSUME NEW c \in Callers, NEW ok \in BOOLEAN, Reconnect(c, ok)
      PROVE  CallerIInv'
  BY <1>1, <1>5 DEF Reconnect, Connect
<1>6. ASSUME NEW c \in Callers, ConnectNoMemory(c)
      PROVE  CallerIInv'
  BY <1>1, <1>6 DEF ConnectNoMemory
<1>7. ASSUME NEW c \in Callers, Destroy(c)
      PROVE  CallerIInv'
  BY <1>1, <1>7 DEF Destroy
<1>8. ASSUME NEW c \in Callers, NEW o \in Ops, Call(c, o)
      PROVE  CallerIInv'
  BY <1>1, <1>8 DEF Call
<1>9. ASSUME NEW c \in Callers, Send(c)
      PROVE  CallerIInv'
  BY <1>1, <1>9 DEF Send
<1>10. ASSUME NEW c \in Callers, NEW r \in Reply, Receive(c, r)
       PROVE  CallerIInv'
  <2>1. CASE Redirect(c, r) \/ Retry(c, r)
    BY <1>1, <2>1 DEF Redirect, Retry, CanReceive, DropContext
  <2>2. CASE ThrowBadPort(c, r) \/ DerefNull(c, r)
    BY <1>1, <2>2 DEF ThrowBadPort, DerefNull, CanReceive
  <2>3. CASE Finish(c, r)
    BY <1>1, <2>3 DEF Finish, CanReceive
  <2>4. CASE GiveUp(c, r)
    <3>1. r.err \in {"OTHER", "PROTOCOL", "OOM"}
      BY <2>4, ReplyShape DEF GiveUp, ConnectAgain, Errors
    <3>2. QED
      BY <1>1, <2>4, <3>1 DEF GiveUp, CanReceive
  <2>5. QED
    BY <1>10, <2>1, <2>2, <2>3, <2>4 DEF Receive
<1>11. CASE UNCHANGED callerVars
  BY <1>1, <1>11 DEF callerVars
<1>12. QED
  BY <1>2, <1>3, <1>4, <1>5, <1>6, <1>7, <1>8, <1>9, <1>10, <1>11
     DEF CallerNext

LEMMA CallerInvariant == CallerSpec => []CallerIInv
<1>1. CallerIInv /\ [CallerNext]_callerVars => CallerIInv'
  BY CallerInvStep
<1>2. QED
  BY CallerInvInit, <1>1, PTL DEF CallerSpec

\* No sequence of redirects, resets and failed connects makes an operation
\* send through a NULL context or one whose connect failed (reconnectif).
THEOREM CallerUsesContext == CallerSpec => []SendsOnUsableContext
<1>1. CallerIInv => SendsOnUsableContext
  BY DEF CallerIInv
<1>2. QED
  BY CallerInvariant, <1>1, PTL

\* A caller leaks one context per failed connect of its reconnect loop, and
\* nothing else; no context is freed twice (reconnectif, connect, destructor).
THEOREM CallerLeaks == CallerSpec => []LeaksOnlyFailedReconnects
<1>1. CallerIInv => LeaksOnlyFailedReconnects
  BY DEF CallerIInv
<1>2. QED
  BY CallerInvariant, <1>1, PTL

-----------------------------------------------------------------------------
(* Addresses *)

\* A caller holds the address it has to ask, and a context that can carry a
\* command was made with it.
AddressState ==
  \A c \in Callers :
    /\ At(c) = Due(c)
    /\ pc[c] \in {"idle", "send", "recv"} => peer[c] = At(c)

LEMMA AddressInit == CallerInit => AddressState
<1> SUFFICES ASSUME CallerInit, NEW c \in Callers
             PROVE  At(c) = Due(c) /\ pc[c] = "none"
  BY DEF AddressState
<1>1. told[c] = [by |-> "owner", ip |-> ip[c], port |-> port[c]]
  BY DEF CallerInit, At, Named
<1>2. told[c].by = "owner" /\ told[c].ip = ip[c] /\ told[c].port = port[c]
  BY <1>1
<1>3. At(c) = Due(c)
  BY <1>2 DEF At, Due
<1>4. QED
  BY <1>3 DEF CallerInit

\* Only the constructor and MOVED name an address, and the caller takes both
\* over before the next connect.
LEMMA AddressStep ==
  ASSUME CallerTypeOK, AddressState, [CallerNext]_callerVars
  PROVE  AddressState'
<1> USE DEF CallerTypeOK, AddressState, At, Due
<1>1. ASSUME NEW c \in Callers, NEW a \in Addr, Construct(c, a)
      PROVE  AddressState'
  <2>1. /\ ip' = [ip EXCEPT ![c] = a.ip] /\ port' = [port EXCEPT ![c] = a.port]
        /\ told' = [told EXCEPT ![c] = Named("owner", a)]
        /\ pc' = [pc EXCEPT ![c] = "new"] /\ peer' = peer
    BY <1>1 DEF Construct
  <2>2. QED
    BY <2>1 DEF Named
<1>2. ASSUME NEW c \in Callers, NEW ok \in BOOLEAN,
             FirstConnect(c, ok) \/ Reconnect(c, ok)
      PROVE  AddressState'
  <2>1. /\ UNCHANGED <<ip, port, told>>
        /\ peer' = [peer EXCEPT ![c] = At(c)]
        /\ \A d \in Callers : d # c => pc'[d] = pc[d]
    BY <1>2 DEF FirstConnect, Reconnect, Connect
  <2>2. QED
    BY <2>1
<1>3. ASSUME NEW c \in Callers, NEW r \in Reply, Redirect(c, r)
      PROVE  AddressState'
  <2>1. /\ ip' = [ip EXCEPT ![c] = IF FixedIp[c] = NoIp THEN r.ip ELSE FixedIp[c]]
        /\ port' = [port EXCEPT ![c] = r.port]
        /\ told' = [told EXCEPT ![c] = Named("cluster", r)]
        /\ pc' = [pc EXCEPT ![c] = "connect"] /\ peer' = peer
    BY <1>3 DEF Redirect, DropContext
  <2>2. QED
    BY <2>1 DEF Named
<1>4. ASSUME UNCHANGED <<ip, port, peer, told>>,
             \A c \in Callers :
               pc'[c] \in {"idle", "send", "recv"} => pc[c] \in {"idle", "send", "recv"}
      PROVE  AddressState'
  BY <1>4
<1>5. ASSUME NEW c \in Callers,
             \/ ConnectNoMemory(c) \/ Destroy(c) \/ Send(c)
             \/ \E o \in Ops : Call(c, o)
      PROVE  AddressState'
  BY <1>4, <1>5 DEF ConnectNoMemory, Destroy, Send, Call
<1>6. ASSUME NEW c \in Callers, NEW r \in Reply, Receive(c, r), ~Redirect(c, r)
      PROVE  AddressState'
  BY <1>4, <1>6
     DEF Receive, CanReceive, Retry, DropContext, ThrowBadPort, Finish, GiveUp,
         DerefNull
<1>7. CASE Killed \/ UNCHANGED callerVars
  BY <1>4, <1>7 DEF Killed, callerVars
<1>8. QED
  BY <1>1, <1>2, <1>3, <1>5, <1>6, <1>7 DEF CallerNext

\* A command goes to the node the constructor or the last MOVED named, through
\* fixed_ip_ if there is one, after any sequence of redirects, resets and failed
\* connects (reconnectif, connect).
THEOREM CallerAsksNodeItWasSentTo == CallerSpec => []AsksNodeItWasSentTo
<1>1. CallerTypeOK /\ AddressState /\ [CallerNext]_callerVars => AddressState'
  BY AddressStep
<1>2. AddressState => AsksNodeItWasSentTo
  BY DEF AddressState, AsksNodeItWasSentTo
<1>3. QED
  BY CallerTypeCorrect, AddressInit, <1>1, <1>2, PTL DEF CallerSpec

-----------------------------------------------------------------------------
(* The inductive invariant, part by part *)

InCall(t) == pc[t] \in {"send", "recv", "connect"}

\* Every field from the current one on has been written off.
Lost(t) == \A i \in Field : i >= idx[t] => i \in refused[t]

\* A thread is inside exec only while run() works on a field, and a request
\* is in flight exactly while exec waits for the reply.  A connection that is
\* up belongs to a context without an error.
CallState ==
  \A t \in Callers :
    /\ InCall(t) => th[t] = "running" /\ idx[t] < Count /\ ms[t] > 0
    /\ pc[t] = "recv" <=> req[t] # "none"
    /\ op[t] = "exec"
    /\ req[t] = "sent" => ctx[t] = "OK"
    /\ link[t] /\ pc[t] \in {"idle", "send", "recv"} => ctx[t] = "OK"
    /\ link[t] /\ req[t] = "answered" => reply[t].kind # "NULL"

\* What an answer tells the thread that waits for it.
ReplyMeans ==
  \A t \in Callers : req[t] = "answered" =>
    /\ reply[t].kind \in
         {"INTEGER", "ERROR", "ASK", "MOVED", "CLUSTERDOWN", "NULL"}
    /\ reply[t].kind = "INTEGER" => store[t][idx[t]] # 0
    /\ reply[t].kind \in {"ERROR", "ASK"} => idx[t] \in refused[t]
    /\ reply[t].kind = "NULL" /\ reply[t].err \notin {"IO", "EOF"} => Lost(t)

\* A context with an error that is not a broken connection never writes again.
PoisonedIsLost ==
  \A t \in Callers : ctx[t] \in {"OTHER", "PROTOCOL", "OOM"} => Lost(t)

\* What is stored, and what may still be executed late, belongs to a field
\* that run() has reached, with the one expiry of that field.
StoreAgrees ==
  \A t \in Callers : \A i \in Field : store[t][i] # 0 =>
    /\ i <= idx[t]
    /\ i = idx[t] => InCall(t) /\ store[t][i] = ms[t]

LateAgrees ==
  \A r \in late :
    /\ r.ms > 0
    /\ r.i <= idx[r.t]
    /\ r.i = idx[r.t] => InCall(r.t) /\ r.ms = ms[r.t]
    /\ store[r.t][r.i] \in {0, r.ms}

LatesAgree ==
  \A r, q \in late : r.t = q.t /\ r.i = q.i => r.ms = q.ms

\* How far the loops of main() have brought each thread.
MainState ==
  /\ mainPc \in {"init", "spawn"} =>
       \A t \in Callers :
         th[t] = "unborn" <=> ~(mainPc = "spawn" /\ t < mi)
  /\ mainPc \in {"join", "finish", "exit"} =>
       \A t \in Callers : th[t] # "unborn"
  /\ mainPc = "join" => \A t \in Callers : t < mi => th[t] = "done"
  /\ mainPc \in {"finish", "exit"} => \A t \in Callers : th[t] = "done"
  /\ \A t \in Callers : th[t] = "done" => idx[t] = Count

\* Only a fault makes a node unreachable, and with it a caller_ empty.
FaultState ==
  /\ \A a \in Addr : status[a] = "dead" => faults > 0
  /\ \A t \in Callers : pc[t] = "failed" => faults > 0
  /\ mainPc = "init" =>
       \A t \in Callers : t < mi /\ pc[t] = "none" => faults > 0
  /\ mainPc \in {"spawn", "join"} =>
       \A t \in Callers : pc[t] = "none" => faults > 0
  /\ mainPc # "init" => \A t \in Callers : pc[t] \notin {"new", "failed"}
  /\ \A t \in Callers : mainPc = "init" /\ t < mi => pc[t] \in {"none", "idle"}

\* The inductive invariant in three layers, each inductive given the ones
\* before it: where control stands, what has been written, what main() knows.
ControlInv == PerfTypeOK /\ CallerIInv /\ CallState

DataInv ==
  /\ ReplyMeans
  /\ PoisonedIsLost
  /\ StoreAgrees /\ LateAgrees /\ LatesAgree
  /\ ReturnedIsWritten

MainInv == MainState /\ FaultState /\ AbortNeedsFault

-----------------------------------------------------------------------------
(* The program uses the caller as RedisCaller specifies *)

LEMMA AddrShape ==
  /\ Seed \in Addr
  /\ \A t \in Callers : ip[t] \in Ips /\ port[t] \in Ports => At(t) \in Addr
  /\ \A a \in Addr : a.ip \in Ips /\ a.port \in Ports
BY PerfAssumption DEF Addr, At

LEMMA MainIndexIsCaller ==
  ASSUME PerfTypeOK, mi < N
  PROVE  mi \in Callers
BY PerfAssumption DEF PerfTypeOK

\* Whatever the driver does is a step of the caller, or none of its business.
LEMMA NextIsCallerNext ==
  ASSUME PerfTypeOK, [Next]_vars
  PROVE  [CallerNext]_callerVars
<1> USE DEF CallerNext
<1>1. CASE Main
  <2>1. CASE MainConstruct
    BY <2>1, MainIndexIsCaller, AddrShape DEF MainConstruct
  <2>2. CASE MainConnect
    <3>1. Reachable(At(mi)) \in BOOLEAN
      BY DEF Reachable
    <3>2. QED
      BY <2>2, <3>1, MainIndexIsCaller DEF MainConnect
  <2>3. CASE MainReset
    BY <2>3, MainIndexIsCaller DEF MainReset
  <2>4. CASE MainSpawn \/ MainJoin \/ MainPhase
    BY <2>4 DEF MainSpawn, MainJoin, MainPhase
  <2>5. CASE MainDrop
    BY <2>5, MainIndexIsCaller DEF MainDrop
  <2>6. QED
    BY <1>1, <2>1, <2>2, <2>3, <2>4, <2>5 DEF Main
<1>2. ASSUME NEW t \in Callers, Thread(t)
      PROVE  [CallerNext]_callerVars
  <2>1. CASE ThreadDeref(t) \/ ThreadEnd(t)
    BY <2>1 DEF ThreadDeref, ThreadEnd
  <2>2. CASE ThreadCall(t)
    BY <2>2 DEF ThreadCall, Ops
  <2>3. CASE ThreadSend(t)
    BY <2>3 DEF ThreadSend
  <2>4. CASE ThreadRetry(t) \/ ThreadReturn(t)
    BY <2>4 DEF ThreadRetry, ThreadReturn, Receive, PerfTypeOK
  <2>5. CASE ThreadReconnect(t)
    <3>1. Reachable(At(t)) \in BOOLEAN
      BY DEF Reachable
    <3>2. QED
      BY <2>5, <3>1 DEF ThreadReconnect
  <2>6. QED
    BY <1>2, <2>1, <2>2, <2>3, <2>4, <2>5 DEF Thread
<1>3. ASSUME NEW t \in Callers, Node(t)
      PROVE  [CallerNext]_callerVars
  BY <1>3 DEF Node, Execute, Deflect, Reject
<1>4. CASE Environment
  BY <1>4
     DEF Environment, Broken, AskElsewhere, Cut, Garble, Migrate, Crash,
         ClusterFails, Recover, ExecuteLate, Tick
<1>5. CASE Stopped \/ UNCHANGED vars
  BY <1>5 DEF Stopped, vars
<1>6. QED
  BY <1>1, <1>2, <1>3, <1>4, <1>5 DEF Next

-----------------------------------------------------------------------------
(* Control: types and calls *)

LEMMA ControlInit == Init => ControlInv
<1> SUFFICES ASSUME Init PROVE ControlInv
  OBVIOUS
<1>1. CallerIInv
  BY CallerInvInit DEF Init
<1>2. PerfTypeOK
  <2>1. Plain("STATUS") \in Reply
    BY DEF Plain, Reply, DataKinds
  <2>2. CallerTypeOK
    BY <1>1 DEF CallerIInv
  <2>3. QED
    BY <2>1, <2>2, PerfAssumption DEF Init, PerfTypeOK, Statuses, Field
<1>3. CallState
  BY DEF Init, CallerInit, CallState, InCall
<1>4. QED
  BY <1>1, <1>2, <1>3 DEF ControlInv

\* The answers the cluster and the network can give are replies.
LEMMA AnswersAreReplies ==
  /\ \A k \in {"INTEGER", "ERROR", "ASK", "CLUSTERDOWN"} : Plain(k) \in Reply
  /\ \A a \in Addr : MovedTo(a) \in Reply
  /\ \A e \in Errors : NullReply(e) \in Reply
BY DEF Plain, MovedTo, NullReply, Reply, Addr, DataKinds, ErrorKinds

LEMMA RequestType ==
  ASSUME PerfTypeOK, NEW t \in Callers, idx[t] < Count
  PROVE  idx[t] \in Field /\ CurrentRequest(t) \in Request
<1>1. idx[t] \in Field
  BY PerfAssumption DEF PerfTypeOK, Field
<1>2. ip[t] \in Ips /\ port[t] \in Ports
  BY DEF PerfTypeOK, CallerTypeOK
<1>3. QED
  BY <1>1, <1>2, AddrShape DEF CurrentRequest, Request, PerfTypeOK

\* main() runs its four loops in order.
LEMMA NextPhase ==
  ASSUME NEW k \in 1 .. 4
  PROVE  \/ k = 1 /\ Phases[k] = "init" /\ Phases[k + 1] = "spawn"
         \/ k = 2 /\ Phases[k] = "spawn" /\ Phases[k + 1] = "join"
         \/ k = 3 /\ Phases[k] = "join" /\ Phases[k + 1] = "finish"
         \/ k = 4 /\ Phases[k] = "finish" /\ Phases[k + 1] = "exit"
BY DEF Phases

\* The driver's, the network's and the cluster's variables keep their types.
LEMMA PerfTypeStep ==
  ASSUME ControlInv, [Next]_vars
  PROVE  PerfTypeOK'
<1>1. CallerTypeOK'
  BY NextIsCallerNext, CallerInvStep DEF ControlInv, CallerIInv
<1> USE <1>1, PerfAssumption DEF ControlInv, PerfTypeOK
<1>2. CASE Main
  <2> USE MainIndexIsCaller DEF driverVars, netVars, clusterVars
  <2>1. CASE MainConstruct
    BY <2>1 DEF MainConstruct
  <2>2. CASE MainConnect
    <3>1. Reachable(At(mi)) \in BOOLEAN
      BY DEF Reachable
    <3>2. mi' \in 0 .. N /\ link' \in [Callers -> BOOLEAN]
      BY <2>2, <3>1 DEF MainConnect
    <3>3. QED
      BY <2>2, <3>2 DEF MainConnect
  <2>3. CASE MainReset
    BY <2>3 DEF MainReset
  <2>4. CASE MainSpawn \/ MainJoin
    <3>1. mi' \in 0 .. N
      BY <2>4 DEF MainSpawn, MainJoin
    <3>2. th' \in [Callers -> {"unborn", "running", "done"}]
      BY <2>4 DEF MainSpawn, MainJoin
    <3>3. QED
      BY <2>4, <3>1, <3>2 DEF MainSpawn, MainJoin, callerVars
  <2>5. CASE MainDrop
    <3>1. mi' \in 0 .. N
      BY <2>5 DEF MainDrop
    <3>2. QED
      BY <2>5, <3>1 DEF MainDrop
  <2>6. CASE MainPhase
    <3>1. mi' \in 0 .. N
      BY <2>6 DEF MainPhase
    <3>2. mainPc' \in {"spawn", "join", "finish", "exit"}
      BY <2>6, NextPhase DEF MainPhase
    <3>3. QED
      BY <2>6, <3>1, <3>2 DEF MainPhase
  <2>7. QED
    BY <1>2, <2>1, <2>2, <2>3, <2>4, <2>5, <2>6 DEF Main
<1>3. ASSUME NEW t \in Callers, Thread(t)
      PROVE  PerfTypeOK'
  <2> USE DEF driverVars, netVars, clusterVars
  <2>1. CASE ThreadDeref(t)
    BY <2>1 DEF ThreadDeref
  <2>2. CASE ThreadCall(t)
    <3>1. ms' \in [Callers -> Nat]
      BY <2>2 DEF ThreadCall
    <3>2. QED
      BY <2>2, <3>1 DEF ThreadCall
  <2>3. CASE ThreadSend(t)
    <3>1. ctx[t] # "OK" => NullReply(ctx[t]) \in Reply
      BY <2>3, AnswersAreReplies
         DEF ThreadSend, Send, CallerIInv, SendsOnUsableContext, Errors
    <3>2. req' \in [Callers -> {"none", "sent", "answered"}]
      BY <2>3 DEF ThreadSend
    <3>3. reply' \in [Callers -> Reply]
      BY <2>3, <3>1 DEF ThreadSend
    <3>4. QED
      BY <2>3, <3>2, <3>3 DEF ThreadSend
  <2>4. CASE ThreadRetry(t)
    BY <2>4 DEF ThreadRetry
  <2>5. CASE ThreadReturn(t)
    <3>1. pc[t] = "recv"
      BY <2>5 DEF ThreadReturn, Finish, GiveUp, CanReceive
    <3>2. idx[t] < Count
      BY <3>1 DEF CallState, InCall
    <3>3. idx' \in [Callers -> 0 .. Count]
      BY <2>5, <3>2 DEF ThreadReturn
    <3>4. QED
      BY <2>5, <3>3 DEF ThreadReturn
  <2>6. CASE ThreadReconnect(t)
    <3>1. Reachable(At(t)) \in BOOLEAN
      BY DEF Reachable
    <3>2. link' \in [Callers -> BOOLEAN]
      BY <2>6, <3>1 DEF ThreadReconnect
    <3>3. QED
      BY <2>6, <3>2 DEF ThreadReconnect
  <2>7. CASE ThreadEnd(t)
    BY <2>7 DEF ThreadEnd
  <2>8. QED
    BY <1>3, <2>1, <2>2, <2>3, <2>4, <2>5, <2>6, <2>7 DEF Thread
<1>4. ASSUME NEW t \in Callers, Node(t)
      PROVE  PerfTypeOK'
  <2> USE AnswersAreReplies DEF driverVars, netVars, clusterVars
  <2>1. ASSUME NEW r \in Reply, Answer(t, r)
        PROVE  /\ req' \in [Callers -> {"none", "sent", "answered"}]
               /\ reply' \in [Callers -> Reply]
    BY <2>1 DEF Answer
  <2>2. Arrived(t) => idx[t] \in Field /\ CurrentRequest(t) \in Request
    <3>1. Arrived(t) => idx[t] < Count
      BY DEF Arrived, CallState, InCall
    <3>2. QED
      BY <3>1, RequestType
  <2>3. CASE Execute(t)
    <3>1. idx[t] \in Field /\ ms[t] \in Nat
      BY <2>2, <2>3 DEF Execute
    <3>2. store' \in [Callers -> [Field -> Nat]]
      BY <2>3, <3>1 DEF Execute, Executes, CurrentRequest
    <3>3. QED
      BY <2>1, <2>3, <3>2 DEF Execute
  <2>4. CASE Deflect(t)
    <3>1. PICK r \in Reply : Answer(t, r)
      BY <2>4 DEF Deflect
    <3>2. QED
      BY <2>1, <2>4, <3>1 DEF Deflect
  <2>5. CASE Reject(t)
    <3>1. refused' \in [Callers -> SUBSET Field]
      BY <2>2, <2>5 DEF Reject
    <3>2. QED
      BY <2>1, <2>5, <3>1 DEF Reject
  <2>6. QED
    BY <1>4, <2>3, <2>4, <2>5 DEF Node
<1>5. CASE Environment
  <2> USE AnswersAreReplies DEF driverVars, netVars, clusterVars
  <2>1. Fault => faults' \in 0 .. MaxFaults
    BY DEF Fault
  <2>2. ASSUME NEW t \in Callers, NEW r \in Reply, Answer(t, r)
        PROVE  /\ req' \in [Callers -> {"none", "sent", "answered"}]
               /\ reply' \in [Callers -> Reply]
    BY <2>2 DEF Answer
  <2>3. ASSUME NEW t \in Callers, Cut(t) PROVE PerfTypeOK'
    <3>1. req[t] = "sent" => CurrentRequest(t) \in Request
      <4>1. req[t] = "sent" => idx[t] < Count
        BY DEF CallState, InCall
      <4>2. QED
        BY <4>1, RequestType
    <3>2. late' \subseteq Request
      BY <2>3, <3>1 DEF Cut
    <3>3. req' \in [Callers -> {"none", "sent", "answered"}]
      BY <2>3 DEF Cut
    <3>4. link' \in [Callers -> BOOLEAN]
      BY <2>3 DEF Cut
    <3>5. QED
      BY <2>1, <2>3, <3>2, <3>3, <3>4 DEF Cut
  <2>4. ASSUME NEW t \in Callers, Garble(t) PROVE PerfTypeOK'
    <3>1. refused' \in [Callers -> SUBSET Field]
      BY <2>4 DEF Garble
    <3>2. link' \in [Callers -> BOOLEAN]
      BY <2>4 DEF Garble
    <3>3. PICK r \in Reply : Answer(t, r)
      BY <2>4 DEF Garble, Errors
    <3>4. QED
      BY <2>1, <2>2, <2>4, <3>1, <3>2, <3>3 DEF Garble
  <2>5. ASSUME NEW t \in Callers, NEW a \in Addr, Migrate(t, a)
        PROVE  PerfTypeOK'
    BY <2>1, <2>5 DEF Migrate
  <2>6. ASSUME NEW a \in Addr, Crash(a) PROVE PerfTypeOK'
    BY <2>1, <2>6 DEF Crash, Statuses
  <2>7. ASSUME NEW a \in Addr, ClusterFails(a) PROVE PerfTypeOK'
    BY <2>1, <2>7 DEF ClusterFails, Statuses
  <2>8. ASSUME NEW a \in Addr, Recover(a) PROVE PerfTypeOK'
    BY <2>8 DEF Recover, Statuses
  <2>9. ASSUME NEW r \in late, ExecuteLate(r) PROVE PerfTypeOK'
    <3>1. store' \in [Callers -> [Field -> Nat]]
      BY <2>9 DEF ExecuteLate, Executes, Request
    <3>2. QED
      BY <2>9, <3>1 DEF ExecuteLate
  <2>10. CASE Tick
    BY <2>10 DEF Tick
  <2>11. ASSUME NEW t \in Callers, Broken(t) PROVE PerfTypeOK'
    <3>1. PICK r \in Reply : Answer(t, r)
      BY <2>11 DEF Broken, Errors
    <3>2. QED
      BY <2>2, <2>11, <3>1 DEF Broken
  <2>12. ASSUME NEW t \in Callers, AskElsewhere(t) PROVE PerfTypeOK'
    <3>1. idx[t] \in Field
      <4>1. idx[t] < Count
        BY <2>12 DEF AskElsewhere, Arrived, CallState, InCall
      <4>2. QED
        BY <4>1, RequestType
    <3>2. refused' \in [Callers -> SUBSET Field]
      BY <2>12, <3>1 DEF AskElsewhere
    <3>3. PICK r \in Reply : Answer(t, r)
      BY <2>12 DEF AskElsewhere
    <3>4. QED
      BY <2>1, <2>2, <2>12, <3>2, <3>3 DEF AskElsewhere
  <2>13. QED
    BY <1>5, <2>3, <2>4, <2>5, <2>6, <2>7, <2>8, <2>9, <2>10, <2>11, <2>12
       DEF Environment
<1>6. CASE Stopped \/ UNCHANGED vars
  BY <1>6 DEF Stopped, vars, driverVars, netVars, clusterVars
<1>7. QED
  BY <1>2, <1>3, <1>4, <1>5, <1>6 DEF Next

\* A call starts with run(), ends with its round, and waits exactly while a
\* request of it is in flight.
LEMMA CallStateStep ==
  ASSUME ControlInv, [Next]_vars
  PROVE  CallState'
<1> USE PerfAssumption
    DEF ControlInv, PerfTypeOK, CallerTypeOK, CallState, InCall
<1>1. CASE Main
  <2> USE MainIndexIsCaller DEF netVars, clusterVars
  <2>1. CASE MainConstruct
    BY <2>1 DEF MainConstruct, Construct, driverVars
  <2>2. CASE MainConnect
    <3>1. PICK ok \in BOOLEAN : FirstConnect(mi, ok)
      BY <2>2 DEF MainConnect, Reachable
    <3>2. QED
      BY <2>2, <3>1 DEF MainConnect, FirstConnect, Connect
  <2>3. CASE MainReset
    BY <2>3 DEF MainReset, Destroy
  <2>4. CASE MainSpawn
    BY <2>4 DEF MainSpawn, callerVars
  <2>5. CASE MainJoin
    BY <2>5 DEF MainJoin, callerVars
  <2>6. CASE MainDrop
    <3>1. CASE Destroy(mi)
      BY <2>6, <3>1 DEF MainDrop, Destroy
    <3>2. CASE UNCHANGED callerVars
      BY <2>6, <3>2 DEF MainDrop, callerVars
    <3>3. QED
      BY <2>6, <3>1, <3>2 DEF MainDrop
  <2>7. CASE MainPhase
    BY <2>7 DEF MainPhase, callerVars
  <2>8. QED
    BY <1>1, <2>1, <2>2, <2>3, <2>4, <2>5, <2>6, <2>7 DEF Main
<1>2. ASSUME NEW t \in Callers, Thread(t)
      PROVE  CallState'
  <2> USE DEF driverVars, netVars, clusterVars
  <2>1. CASE ThreadDeref(t)
    BY <2>1 DEF ThreadDeref, Killed
  <2>2. CASE ThreadCall(t)
    <3>1. now + Hold > 0
      OBVIOUS
    <3>2. QED
      BY <2>2, <3>1 DEF ThreadCall, Call, Working
  <2>3. CASE ThreadSend(t)
    BY <2>3 DEF ThreadSend, Send
  <2>4. CASE ThreadRetry(t)
    <3>1. /\ pc' = [pc EXCEPT ![t] = "connect"]
          /\ ctx' = [ctx EXCEPT ![t] = "NULL"]
          /\ op' = op
          /\ pc[t] = "recv"
      BY <2>4 DEF ThreadRetry, Redirect, Retry, DropContext, CanReceive
    <3>2. QED
      BY <2>4, <3>1 DEF ThreadRetry
  <2>5. CASE ThreadReturn(t)
    <3>1. /\ pc' = [pc EXCEPT ![t] = "idle"]
          /\ \A u \in Callers : u # t => ctx'[u] = ctx[u]
          /\ op' = op
      BY <2>5 DEF ThreadReturn, Finish, GiveUp
    <3>2. \A u \in Callers : u # t => idx'[u] = idx[u]
      BY <2>5 DEF ThreadReturn
    <3>3. link[t] => ctx'[t] = "OK"
      BY <2>5 DEF ThreadReturn, Finish, GiveUp, CanReceive
    <3>4. QED
      BY <2>5, <3>1, <3>2, <3>3 DEF ThreadReturn
  <2>6. CASE ThreadReconnect(t)
    <3>1. PICK ok \in BOOLEAN : Reconnect(t, ok)
      BY <2>6 DEF ThreadReconnect, Reachable
    <3>2. QED
      BY <2>6, <3>1 DEF ThreadReconnect, Reconnect, Connect
  <2>7. CASE ThreadEnd(t)
    BY <2>7 DEF ThreadEnd, callerVars
  <2>8. QED
    BY <1>2, <2>1, <2>2, <2>3, <2>4, <2>5, <2>6, <2>7 DEF Thread
<1>3. ASSUME NEW t \in Callers, Node(t)
      PROVE  CallState'
  <2>1. /\ req[t] = "sent" /\ req' = [req EXCEPT ![t] = "answered"]
        /\ UNCHANGED <<callerVars, driverVars, link>>
    BY <1>3 DEF Node, Execute, Deflect, Reject, Arrived, Answer
  <2>2. /\ reply'[t].kind # "NULL"
        /\ \A u \in Callers : u # t => reply'[u] = reply[u]
    BY <1>3 DEF Node, Execute, Deflect, Reject, Answer, Plain, MovedTo
  <2>3. QED
    BY <2>1, <2>2 DEF callerVars, driverVars
<1>4. CASE Environment
  <2> USE DEF driverVars, netVars, callerVars
  <2>1. ASSUME NEW t \in Callers,
               Broken(t) \/ AskElsewhere(t) \/ Garble(t)
        PROVE  CallState'
    <3>1. /\ req[t] # "none" /\ req' = [req EXCEPT ![t] = "answered"]
          /\ UNCHANGED <<callerVars, driverVars>>
      BY <2>1 DEF Broken, AskElsewhere, Arrived, Garble, Answer
    <3>2. /\ link'[t] => link[t] /\ reply'[t].kind # "NULL"
          /\ \A u \in Callers : u # t =>
               link'[u] = link[u] /\ reply'[u] = reply[u]
      BY <2>1 DEF Broken, AskElsewhere, Garble, Answer, Plain
    <3>3. QED
      BY <3>1, <3>2
  <2>2. CASE /\ UNCHANGED <<callerVars, driverVars, req, reply>>
             /\ \A u \in Callers : link'[u] => link[u]
    BY <2>2
  <2>3. ASSUME NEW t \in Callers, Cut(t) PROVE CallState'
    <3>1. /\ req[t] # "none" /\ req' = [req EXCEPT ![t] = "sent"]
          /\ link[t] /\ link' = [link EXCEPT ![t] = FALSE]
          /\ UNCHANGED <<callerVars, driverVars, reply>>
      BY <2>3 DEF Cut
    <3>2. QED
      BY <3>1
  <2>4. ASSUME NEW a \in Addr, Crash(a) \/ ClusterFails(a) \/ Recover(a)
        PROVE  CallState'
    BY <2>2, <2>4 DEF Crash, ClusterFails, Recover
  <2>5. ASSUME \/ \E t \in Callers, a \in Addr : Migrate(t, a)
               \/ \E r \in late : ExecuteLate(r)
               \/ Tick
        PROVE  CallState'
    <3>1. UNCHANGED <<callerVars, driverVars, req, reply, link>>
      BY <2>5 DEF Migrate, ExecuteLate, Tick
    <3>2. QED
      BY <2>2, <3>1
  <2>6. QED
    BY <1>4, <2>1, <2>3, <2>4, <2>5 DEF Environment
<1>5. CASE Stopped \/ UNCHANGED vars
  <2>1. UNCHANGED <<callerVars, driverVars, req, reply, link>>
    BY <1>5 DEF Stopped, vars, netVars
  <2>2. QED
    BY <2>1 DEF driverVars, callerVars
<1>6. QED
  BY <1>1, <1>2, <1>3, <1>4, <1>5 DEF Next

LEMMA ControlStep ==
  ASSUME ControlInv, [Next]_vars
  PROVE  ControlInv'
BY NextIsCallerNext, CallerInvStep, PerfTypeStep, CallStateStep DEF ControlInv

LEMMA ControlInvariant == Spec => []ControlInv
<1>1. ControlInv /\ [Next]_vars => ControlInv'
  BY ControlStep
<1>2. QED
  BY ControlInit, <1>1, PTL DEF Spec

\* Every variable of the program holds a value of its type, in every
\* reachable state.
THEOREM PerfTypeCorrect == Spec => []PerfTypeOK
<1>1. ControlInv => PerfTypeOK
  BY DEF ControlInv
<1>2. QED
  BY ControlInvariant, <1>1, PTL

\* The program is one of the clients RedisCaller describes, so whatever is
\* proved of a caller holds of every caller of the program.
THEOREM UsesCallerAsSpecified == Spec => CallerSpec
<1>1. Init => CallerInit
  BY DEF Init
<1>2. ControlInv /\ [Next]_vars => [CallerNext]_callerVars
  BY NextIsCallerNext DEF ControlInv
<1>3. QED
  BY ControlInvariant, <1>1, <1>2, PTL DEF Spec, CallerSpec

-----------------------------------------------------------------------------
(* Data: what is stored, what is in flight, what is lost *)

LEMMA DataInit == Init => DataInv
BY DEF Init, CallerInit, DataInv, ReplyMeans, PoisonedIsLost, StoreAgrees,
       LateAgrees, LatesAgree, ReturnedIsWritten, Field

\* Steps that neither write, answer nor move a loop on keep the invariant.
LEMMA QuietStep ==
  ASSUME ControlInv, DataInv,
         UNCHANGED <<idx, ms, reply, store, refused>>,
         late' \subseteq late,
         \A t \in Callers :
           /\ InCall(t)' <=> InCall(t)
           /\ req'[t] = "answered" => req[t] = "answered"
           /\ ctx'[t] \in {"OTHER", "PROTOCOL", "OOM"} => ctx'[t] = ctx[t]
  PROVE  DataInv'
<1> USE DEF DataInv
<1>1. ReplyMeans'
  BY DEF ReplyMeans, Lost
<1>2. PoisonedIsLost'
  BY DEF PoisonedIsLost, Lost
<1>3. StoreAgrees'
  BY DEF StoreAgrees
<1>4. \A r \in late : r.t \in Callers
  BY DEF ControlInv, PerfTypeOK, Request
<1>5. LateAgrees' /\ LatesAgree'
  BY <1>4 DEF LateAgrees, LatesAgree
<1>6. ReturnedIsWritten'
  BY DEF ReturnedIsWritten
<1>7. QED
  BY <1>1, <1>2, <1>3, <1>5, <1>6

\* main() touches nothing of it.
LEMMA MainDataStep ==
  ASSUME ControlInv, DataInv, Main
  PROVE  DataInv'
<1> USE MainIndexIsCaller
    DEF ControlInv, PerfTypeOK, CallerTypeOK, InCall, netVars, clusterVars
<1>1. /\ UNCHANGED <<idx, ms, req, reply, store, refused, late>>
  BY DEF Main, MainConstruct, MainConnect, MainReset, MainSpawn, MainJoin,
         MainDrop, MainPhase, driverVars
<1>2. \A t \in Callers :
        /\ pc'[t] = pc[t] /\ ctx'[t] = ctx[t]
        \/ /\ pc[t] \in {"none", "new", "idle", "failed"}
           /\ pc'[t] \in {"none", "new", "idle", "failed"}
           /\ ctx'[t] \in {"NULL", "OK", "IO"}
  <2>1. CASE MainConstruct
    BY <2>1 DEF MainConstruct, Construct
  <2>2. CASE MainConnect
    BY <2>2 DEF MainConnect, FirstConnect, Connect
  <2>3. ASSUME Destroy(mi), mi < N
        PROVE  <1>2
    BY <2>3 DEF Destroy
  <2>4. CASE UNCHANGED callerVars
    BY <2>4 DEF callerVars
  <2>5. QED
    BY <2>1, <2>2, <2>3, <2>4
       DEF Main, MainReset, MainSpawn, MainJoin, MainDrop, MainPhase
<1>3. QED
  BY <1>1, <1>2, QuietStep

\* run() and exec.
LEMMA ThreadDataStep ==
  ASSUME ControlInv, DataInv, NEW t \in Callers, Thread(t)
  PROVE  DataInv'
<1> USE DEF ControlInv, PerfTypeOK, CallerTypeOK, driverVars, netVars, clusterVars
<1>1. CASE ThreadDeref(t) \/ ThreadEnd(t)
  <2>1. UNCHANGED <<pc, ctx, idx, ms, req, reply, store, refused, late>>
    BY <1>1 DEF ThreadDeref, ThreadEnd, Killed, callerVars
  <2>2. QED
    BY <2>1, QuietStep DEF InCall
<1>2. CASE ThreadReconnect(t)
  <2>1. UNCHANGED <<idx, ms, req, reply, store, refused, late>>
    BY <1>2 DEF ThreadReconnect
  <2>2. /\ pc[t] = "connect" /\ pc'[t] \in {"send", "connect"}
        /\ ctx'[t] \in {"OK", "IO"}
        /\ \A u \in Callers : u # t => pc'[u] = pc[u] /\ ctx'[u] = ctx[u]
    BY <1>2 DEF ThreadReconnect, Reconnect, Connect
  <2>3. QED
    BY <2>1, <2>2, QuietStep DEF InCall
<1>3. CASE ThreadRetry(t)
  <2>1. UNCHANGED <<idx, ms, reply, store, refused, late>>
    BY <1>3 DEF ThreadRetry
  <2>2. /\ pc[t] = "recv" /\ pc'[t] = "connect"
        /\ ctx'[t] = "NULL" /\ req'[t] = "none"
        /\ \A u \in Callers : u # t =>
             pc'[u] = pc[u] /\ ctx'[u] = ctx[u] /\ req'[u] = req[u]
    BY <1>3 DEF ThreadRetry, Redirect, Retry, DropContext, CanReceive
  <2>3. QED
    BY <2>1, <2>2, QuietStep DEF InCall
<1>4. CASE ThreadCall(t)
  <2>1. /\ UNCHANGED <<ctx, idx, req, reply, store, refused, late>>
        /\ pc[t] = "idle" /\ pc'[t] = "send"
        /\ \A u \in Callers : u # t => pc'[u] = pc[u] /\ ms'[u] = ms[u]
    BY <1>4 DEF ThreadCall, Call
  <2>2. ReplyMeans' /\ PoisonedIsLost' /\ ReturnedIsWritten' /\ LatesAgree'
    BY <2>1 DEF DataInv, ReplyMeans, PoisonedIsLost, Lost, ReturnedIsWritten,
                LatesAgree
  <2>3. StoreAgrees'
    <3>1. ASSUME NEW u \in Callers, NEW i \in Field, store[u][i] # 0
          PROVE  i <= idx[u] /\ (i = idx[u] => InCall(u)' /\ store[u][i] = ms'[u])
      <4>1. i <= idx[u] /\ (i = idx[u] => InCall(u) /\ store[u][i] = ms[u])
        BY <3>1 DEF DataInv, StoreAgrees
      <4>2. CASE u = t
        BY <2>1, <4>1, <4>2 DEF InCall
      <4>3. CASE u # t
        BY <2>1, <4>1, <4>3 DEF InCall
      <4>4. QED
        BY <4>2, <4>3
    <3>2. QED
      BY <2>1, <3>1 DEF StoreAgrees
  <2>4. \A r \in late : r.t \in Callers
    BY DEF Request
  <2>5. LateAgrees'
    BY <2>1, <2>4 DEF DataInv, LateAgrees, InCall
  <2>6. QED
    BY <2>2, <2>3, <2>5 DEF DataInv
<1>5. CASE ThreadSend(t)
  <2>1. /\ UNCHANGED <<ctx, idx, ms, store, refused, late>>
        /\ pc[t] = "send" /\ pc'[t] = "recv"
        /\ \A u \in Callers : u # t =>
             pc'[u] = pc[u] /\ req'[u] = req[u] /\ reply'[u] = reply[u]
    BY <1>5 DEF ThreadSend, Send
  <2>2. ReplyMeans'
    <3>1. ctx[t] = "OK" => req'[t] = "sent"
      BY <1>5 DEF ThreadSend
    <3>2. ctx[t] # "OK" => reply'[t].kind = "NULL" /\ Lost(t)
      BY <1>5, <2>1
         DEF ThreadSend, NullReply, DataInv, PoisonedIsLost, CallerIInv,
             SendsOnUsableContext
    <3>3. QED
      BY <2>1, <3>1, <3>2 DEF DataInv, ReplyMeans, Lost
  <2>3. PoisonedIsLost' /\ ReturnedIsWritten' /\ LatesAgree' /\ StoreAgrees'
    BY <2>1 DEF DataInv, PoisonedIsLost, Lost, ReturnedIsWritten, LatesAgree,
                StoreAgrees, InCall
  <2>4. \A r \in late : r.t \in Callers
    BY DEF Request
  <2>5. LateAgrees'
    BY <2>1, <2>4 DEF DataInv, LateAgrees, InCall
  <2>6. QED
    BY <2>2, <2>3, <2>5 DEF DataInv
<1>6. CASE ThreadReturn(t)
  <2>1. /\ UNCHANGED <<ms, reply, store, refused, late>>
        /\ req[t] = "answered" /\ req'[t] = "none"
        /\ idx[t] \in Nat /\ idx'[t] = idx[t] + 1
        /\ \A u \in Callers : u # t => req'[u] = req[u] /\ idx'[u] = idx[u]
    BY <1>6, PerfAssumption DEF ThreadReturn
  <2>2. /\ pc'[t] = "idle"
        /\ \A u \in Callers : u # t => pc'[u] = pc[u] /\ ctx'[u] = ctx[u]
    BY <1>6 DEF ThreadReturn, Finish, GiveUp
  <2>3. ReplyMeans'
    BY <2>1, <2>2 DEF DataInv, ReplyMeans, Lost
  <2>4. \/ reply[t].kind \in {"INTEGER", "ERROR", "ASK"} /\ ctx' = ctx
        \/ Lost(t)
    <3>1. CASE Finish(t, reply[t])
      BY <2>1, <3>1 DEF Finish, Final, ConnectAgain, DataInv, ReplyMeans
    <3>2. CASE GiveUp(t, reply[t])
      BY <2>1, <3>2 DEF GiveUp, ConnectAgain, DataInv, ReplyMeans
    <3>3. QED
      BY <1>6, <3>1, <3>2 DEF ThreadReturn
  <2>5. PoisonedIsLost'
    <3>1. Lost(t) => Lost(t)'
      BY <2>1, PerfAssumption DEF Lost, Field
    <3>2. \A u \in Callers : u # t => (Lost(u) => Lost(u)')
      BY <2>1 DEF Lost
    <3>3. QED
      BY <2>2, <2>4, <3>1, <3>2 DEF DataInv, PoisonedIsLost
  <2>6. ReturnedIsWritten'
    <3>1. idx[t] \in Field => store[t][idx[t]] # 0 \/ idx[t] \in refused[t]
      BY <2>1, <2>4 DEF DataInv, ReplyMeans, Lost
    <3>2. \A i \in Field : i \in Int /\ (i < idx'[t] <=> i < idx[t] \/ i = idx[t])
      BY <2>1, PerfAssumption DEF Field
    <3>3. SUFFICES ASSUME NEW u \in Callers, NEW i \in Field, i < idx'[u]
                   PROVE  store[u][i] # 0 \/ i \in refused[u]
      BY <2>1 DEF ReturnedIsWritten
    <3>4. i < idx[u] \/ (u = t /\ i = idx[t])
      BY <2>1, <3>2, <3>3
    <3>5. QED
      BY <3>1, <3>4 DEF DataInv, ReturnedIsWritten
  <2>7. StoreAgrees'
    <3>1. \A i \in Field : i <= idx[t] => i <= idx'[t] /\ i # idx'[t]
      BY <2>1, PerfAssumption DEF Field
    <3>2. SUFFICES ASSUME NEW u \in Callers, NEW i \in Field, store[u][i] # 0
                   PROVE  /\ i <= idx'[u]
                          /\ i = idx'[u] => InCall(u)' /\ store[u][i] = ms[u]
      BY <2>1 DEF StoreAgrees
    <3>3. i <= idx[u] /\ (i = idx[u] => InCall(u) /\ store[u][i] = ms[u])
      BY <3>2 DEF DataInv, StoreAgrees
    <3>4. CASE u = t
      BY <3>1, <3>3, <3>4
    <3>5. CASE u # t
      BY <2>1, <2>2, <3>3, <3>5 DEF InCall
    <3>6. QED
      BY <3>4, <3>5
  <2>8. LatesAgree'
    BY <2>1 DEF DataInv, LatesAgree
  <2>9. LateAgrees'
    <3>1. \A i \in Field : i <= idx[t] => i <= idx'[t] /\ i # idx'[t]
      BY <2>1, PerfAssumption DEF Field
    <3>2. SUFFICES ASSUME NEW r \in late
                   PROVE  /\ r.ms > 0
                          /\ r.i <= idx'[r.t]
                          /\ r.i = idx'[r.t] => InCall(r.t)' /\ r.ms = ms[r.t]
                          /\ store[r.t][r.i] \in {0, r.ms}
      BY <2>1 DEF LateAgrees
    <3>3. r.t \in Callers /\ r.i \in Field
      BY DEF Request
    <3>4. /\ r.ms > 0
          /\ r.i <= idx[r.t]
          /\ r.i = idx[r.t] => InCall(r.t) /\ r.ms = ms[r.t]
          /\ store[r.t][r.i] \in {0, r.ms}
      BY DEF DataInv, LateAgrees
    <3>5. CASE r.t = t
      BY <3>1, <3>3, <3>4, <3>5
    <3>6. CASE r.t # t
      BY <2>1, <2>2, <3>3, <3>4, <3>6 DEF InCall
    <3>7. QED
      BY <3>5, <3>6
  <2>10. QED
    BY <2>3, <2>5, <2>6, <2>7, <2>8, <2>9 DEF DataInv
<1>7. QED
  BY <1>1, <1>2, <1>3, <1>4, <1>5, <1>6 DEF Thread

\* The executions the cluster can perform: of the current request, or of one
\* whose connection is gone.
MayWrite(t, i, m) ==
  /\ m \in Nat /\ m > 0
  /\ i <= idx[t]
  /\ i = idx[t] => InCall(t) /\ m = ms[t]
  /\ store[t][i] \in {0, m}
  /\ \A q \in late : q.t = t /\ q.i = i => q.ms = m

LEMMA WriteStep ==
  ASSUME ControlInv, DataInv,
         NEW t \in Callers, NEW i \in Field, NEW m, MayWrite(t, i, m),
         store' = [store EXCEPT ![t][i] = m],
         UNCHANGED <<pc, ctx, idx, ms, refused>>, late' \subseteq late
  PROVE  /\ store'[t][i] # 0
         /\ KeepsExpiries
         /\ PoisonedIsLost' /\ StoreAgrees' /\ LateAgrees' /\ LatesAgree'
         /\ ReturnedIsWritten'
<1> USE DEF MayWrite, DataInv
<1>1. \A u \in Callers : \A j \in Field :
        store'[u][j] = IF u = t /\ j = i THEN m ELSE store[u][j]
  BY DEF ControlInv, PerfTypeOK
<1>2. store'[t][i] # 0 /\ KeepsExpiries
  BY <1>1 DEF KeepsExpiries
<1>3. PoisonedIsLost'
  BY DEF PoisonedIsLost, Lost
<1>4. StoreAgrees'
  BY <1>1 DEF StoreAgrees, InCall
<1>5. \A r \in late : r.t \in Callers /\ r.i \in Field
  BY DEF ControlInv, PerfTypeOK, Request
<1>6. LateAgrees' /\ LatesAgree'
  BY <1>1, <1>5 DEF LateAgrees, LatesAgree, InCall
<1>7. ReturnedIsWritten'
  BY <1>1 DEF ReturnedIsWritten
<1>8. QED
  BY <1>2, <1>3, <1>4, <1>6, <1>7

\* Both kinds of execution are allowed ones.
LEMMA ExecuteMayWrite ==
  ASSUME ControlInv, DataInv, NEW t \in Callers, Execute(t)
  PROVE  /\ idx[t] \in Field
         /\ MayWrite(t, idx[t], ms[t])
         /\ store' = [store EXCEPT ![t][idx[t]] = ms[t]]
<1>1. InCall(t) /\ idx[t] < Count /\ ms[t] > 0
  BY DEF Execute, Arrived, ControlInv, CallState, InCall
<1>2. idx[t] \in Field
  BY <1>1, RequestType DEF ControlInv
<1>3. MayWrite(t, idx[t], ms[t])
  BY <1>1, <1>2
     DEF MayWrite, ControlInv, PerfTypeOK, DataInv, StoreAgrees, LateAgrees
<1>4. QED
  BY <1>2, <1>3 DEF Execute, Executes, CurrentRequest

LEMMA ExecuteLateMayWrite ==
  ASSUME ControlInv, DataInv, NEW r \in late, ExecuteLate(r)
  PROVE  /\ r.t \in Callers /\ r.i \in Field
         /\ MayWrite(r.t, r.i, r.ms)
         /\ store' = [store EXCEPT ![r.t][r.i] = r.ms]
<1>1. r.t \in Callers /\ r.i \in Field /\ r.ms \in Nat
  BY DEF ControlInv, PerfTypeOK, Request
<1>2. MayWrite(r.t, r.i, r.ms)
  BY <1>1 DEF MayWrite, DataInv, LateAgrees, LatesAgree
<1>3. QED
  BY <1>1, <1>2 DEF ExecuteLate, Executes

\* A node answers.
LEMMA NodeDataStep ==
  ASSUME ControlInv, DataInv, NEW t \in Callers, Node(t)
  PROVE  DataInv'
<1> USE DEF ControlInv, PerfTypeOK
<1>1. CASE Execute(t)
  <2>1. UNCHANGED <<pc, ctx, idx, ms, refused, late>>
    BY <1>1 DEF Execute, callerVars, driverVars
  <2>2. /\ store'[t][idx[t]] # 0 /\ KeepsExpiries
        /\ PoisonedIsLost' /\ StoreAgrees' /\ LateAgrees' /\ LatesAgree'
        /\ ReturnedIsWritten'
    BY <1>1, <2>1, ExecuteMayWrite, WriteStep
  <2>3. reply'[t].kind = "INTEGER"
    BY <1>1 DEF Execute, Answer, Plain
  <2>4. ASSUME NEW u \in Callers, u # t, req'[u] = "answered"
        PROVE  /\ req[u] = "answered" /\ reply'[u] = reply[u]
               /\ store'[u] = store[u]
    BY <1>1, <2>4, ExecuteMayWrite DEF Execute, Answer
  <2>5. ReplyMeans'
    BY <2>1, <2>2, <2>3, <2>4 DEF DataInv, ReplyMeans, Lost
  <2>6. QED
    BY <2>2, <2>5 DEF DataInv
<1>2. ASSUME Deflect(t) \/ Reject(t)
      PROVE  DataInv'
  <2>1. /\ UNCHANGED <<pc, ctx, idx, ms, store, late>>
        /\ idx[t] \in Field
        /\ \A u \in Callers : u # t =>
             /\ refused'[u] = refused[u]
             /\ req'[u] = req[u] /\ reply'[u] = reply[u]
    <3>1. idx[t] < Count
      BY <1>2 DEF Deflect, Reject, Arrived, CallState, InCall
    <3>2. idx[t] \in Field
      BY <3>1, RequestType
    <3>3. QED
      BY <1>2, <3>2
         DEF Deflect, Reject, Answer, callerVars, driverVars, clusterVars
  <2>2. refused[t] \subseteq refused'[t]
    BY <1>2 DEF Deflect, Reject, clusterVars
  <2>3. /\ reply'[t].kind \in {"ERROR", "MOVED", "CLUSTERDOWN"}
        /\ reply'[t].kind = "ERROR" => idx[t] \in refused'[t]
    <3>1. CASE Deflect(t)
      BY <3>1 DEF Deflect, Answer, Plain, MovedTo
    <3>2. CASE Reject(t)
      BY <3>2 DEF Reject, Answer, Plain
    <3>3. QED
      BY <1>2, <3>1, <3>2
  <2>4. ReplyMeans'
    BY <2>1, <2>2, <2>3 DEF DataInv, ReplyMeans, Lost
  <2>5. PoisonedIsLost' /\ ReturnedIsWritten'
    BY <2>1, <2>2 DEF DataInv, PoisonedIsLost, ReturnedIsWritten, Lost
  <2>6. StoreAgrees' /\ LatesAgree'
    BY <2>1 DEF DataInv, StoreAgrees, LatesAgree, InCall
  <2>7. \A r \in late : r.t \in Callers
    BY DEF Request
  <2>8. LateAgrees'
    BY <2>1, <2>7 DEF DataInv, LateAgrees, InCall
  <2>9. QED
    BY <2>4, <2>5, <2>6, <2>8 DEF DataInv
<1>3. QED
  BY <1>1, <1>2 DEF Node

\* Faults, recoveries and late executions.
LEMMA EnvironmentDataStep ==
  ASSUME ControlInv, DataInv, Environment
  PROVE  DataInv'
<1> USE DEF ControlInv, PerfTypeOK
<1>1. ASSUME NEW t \in Callers, Cut(t) PROVE DataInv'
  <2>1. /\ UNCHANGED <<pc, ctx, idx, ms, store, refused>>
        /\ req'[t] = "sent" /\ reply' = reply
        /\ \A u \in Callers : u # t => req'[u] = req[u]
    BY <1>1 DEF Cut, callerVars, driverVars
  <2>2. ReplyMeans'
    BY <2>1 DEF DataInv, ReplyMeans, Lost
  <2>3. PoisonedIsLost' /\ ReturnedIsWritten' /\ StoreAgrees'
    BY <2>1 DEF DataInv, PoisonedIsLost, ReturnedIsWritten, StoreAgrees, Lost,
                InCall
  <2>4. late' = late \/ (req[t] = "sent" /\ late' = late \cup {CurrentRequest(t)})
    BY <1>1 DEF Cut
  <2>5. \A r \in late : r.t \in Callers /\ r.i \in Field
    BY DEF Request
  <2>6. CASE late' = late
    BY <2>1, <2>2, <2>3, <2>5, <2>6 DEF DataInv, LateAgrees, LatesAgree, InCall
  <2>7. CASE req[t] = "sent" /\ late' = late \cup {CurrentRequest(t)}
    <3>1. InCall(t) /\ idx[t] < Count /\ ms[t] > 0
      BY <2>7 DEF CallState, InCall
    <3>2. idx[t] \in Field
      BY <3>1, RequestType
    <3>3. store[t][idx[t]] \in {0, ms[t]}
      BY <3>2 DEF DataInv, StoreAgrees
    <3>4. /\ CurrentRequest(t).t = t /\ CurrentRequest(t).i = idx[t]
          /\ CurrentRequest(t).ms = ms[t]
      BY DEF CurrentRequest
    <3>5. LateAgrees'
      <4>1. SUFFICES ASSUME NEW r \in late'
                     PROVE  /\ r.ms > 0
                            /\ r.i <= idx[r.t]
                            /\ r.i = idx[r.t] => InCall(r.t) /\ r.ms = ms[r.t]
                            /\ store[r.t][r.i] \in {0, r.ms}
        BY <2>1 DEF LateAgrees, InCall
      <4>2. CASE r \in late
        BY <4>2 DEF DataInv, LateAgrees
      <4>3. CASE r = CurrentRequest(t)
        <5>1. idx[t] <= idx[t]
          BY PerfAssumption
        <5>2. QED
          BY <3>1, <3>3, <3>4, <4>3, <5>1
      <4>4. QED
        BY <2>7, <4>1, <4>2, <4>3
    <3>6. LatesAgree'
      BY <2>7, <3>4 DEF DataInv, LateAgrees, LatesAgree
    <3>7. QED
      BY <2>2, <2>3, <3>5, <3>6 DEF DataInv
  <2>8. QED
    BY <2>4, <2>6, <2>7
<1>2. ASSUME NEW t \in Callers, Garble(t) PROVE DataInv'
  <2>1. /\ UNCHANGED <<pc, ctx, idx, ms, store, late>>
        /\ reply'[t].kind = "NULL"
        /\ refused[t] \subseteq refused'[t]
        /\ \A i \in Field : i >= idx[t] => i \in refused'[t]
        /\ \A u \in Callers : u # t =>
             /\ refused'[u] = refused[u]
             /\ req'[u] = req[u] /\ reply'[u] = reply[u]
    BY <1>2 DEF Garble, Answer, NullReply, callerVars, driverVars
  <2>2. ReplyMeans'
    BY <2>1 DEF DataInv, ReplyMeans, Lost
  <2>3. PoisonedIsLost' /\ ReturnedIsWritten' /\ StoreAgrees'
    BY <2>1 DEF DataInv, PoisonedIsLost, ReturnedIsWritten, StoreAgrees, Lost,
                InCall
  <2>4. \A r \in late : r.t \in Callers
    BY DEF Request
  <2>5. LateAgrees' /\ LatesAgree'
    BY <2>1, <2>4 DEF DataInv, LateAgrees, LatesAgree, InCall
  <2>6. QED
    BY <2>2, <2>3, <2>5 DEF DataInv
<1>3. ASSUME NEW r \in late, ExecuteLate(r) PROVE DataInv'
  <2>1. /\ UNCHANGED <<pc, ctx, idx, ms, req, reply, refused>>
        /\ late' \subseteq late
    BY <1>3 DEF ExecuteLate, callerVars, driverVars
  <2>2. /\ KeepsExpiries
        /\ PoisonedIsLost' /\ StoreAgrees' /\ LateAgrees' /\ LatesAgree'
        /\ ReturnedIsWritten'
    BY <1>3, <2>1, ExecuteLateMayWrite, WriteStep
  <2>3. \A t \in Callers : req[t] = "answered" => idx[t] \in Field
    <3>1. \A t \in Callers : req[t] = "answered" => idx[t] < Count
      BY DEF CallState, InCall
    <3>2. QED
      BY <3>1, RequestType
  <2>4. ReplyMeans'
    BY <2>1, <2>2, <2>3 DEF DataInv, ReplyMeans, Lost, KeepsExpiries
  <2>5. QED
    BY <2>2, <2>4 DEF DataInv
<1>4. ASSUME NEW t \in Callers, Broken(t) PROVE DataInv'
  <2>1. /\ UNCHANGED <<pc, ctx, idx, ms, store, late, refused>>
        /\ reply'[t].kind = "NULL" /\ reply'[t].err \in {"IO", "EOF"}
        /\ \A u \in Callers : u # t => req'[u] = req[u] /\ reply'[u] = reply[u]
    BY <1>4
       DEF Broken, Answer, NullReply, callerVars, driverVars, clusterVars
  <2>2. ReplyMeans'
    BY <2>1 DEF DataInv, ReplyMeans, Lost
  <2>3. /\ PoisonedIsLost' /\ ReturnedIsWritten' /\ StoreAgrees'
        /\ LatesAgree'
    BY <2>1 DEF DataInv, PoisonedIsLost, ReturnedIsWritten, StoreAgrees,
                LatesAgree, Lost, InCall
  <2>4. \A r \in late : r.t \in Callers
    BY DEF Request
  <2>5. LateAgrees'
    BY <2>1, <2>4 DEF DataInv, LateAgrees, InCall
  <2>6. QED
    BY <2>2, <2>3, <2>5 DEF DataInv
<1>5. ASSUME NEW t \in Callers, AskElsewhere(t) PROVE DataInv'
  <2>1. idx[t] \in Field
    <3>1. idx[t] < Count
      BY <1>5 DEF AskElsewhere, Arrived, CallState, InCall
    <3>2. QED
      BY <3>1, RequestType
  <2>2. /\ UNCHANGED <<pc, ctx, idx, ms, store, late>>
        /\ reply'[t].kind = "ASK"
        /\ refused[t] \subseteq refused'[t] /\ idx[t] \in refused'[t]
        /\ \A u \in Callers : u # t =>
             /\ refused'[u] = refused[u]
             /\ req'[u] = req[u] /\ reply'[u] = reply[u]
    BY <1>5, <2>1 DEF AskElsewhere, Answer, Plain, callerVars, driverVars
  <2>3. ReplyMeans'
    BY <2>2 DEF DataInv, ReplyMeans, Lost
  <2>4. PoisonedIsLost' /\ ReturnedIsWritten' /\ StoreAgrees'
    BY <2>2 DEF DataInv, PoisonedIsLost, ReturnedIsWritten, StoreAgrees, Lost,
                InCall
  <2>5. \A r \in late : r.t \in Callers
    BY DEF Request
  <2>6. LateAgrees' /\ LatesAgree'
    BY <2>2, <2>5 DEF DataInv, LateAgrees, LatesAgree, InCall
  <2>7. QED
    BY <2>3, <2>4, <2>6 DEF DataInv
<1>6. CASE \/ \E t \in Callers, a \in Addr : Migrate(t, a)
           \/ \E a \in Addr : Crash(a) \/ ClusterFails(a) \/ Recover(a)
           \/ Tick
  <2>1. /\ UNCHANGED <<pc, ctx, idx, ms, req, reply, store, refused>>
        /\ late' \subseteq late
    BY <1>6 DEF Migrate, Crash, ClusterFails, Recover, Tick, callerVars,
                driverVars, netVars
  <2>2. QED
    BY <2>1, QuietStep DEF InCall
<1>7. QED
  BY <1>1, <1>2, <1>3, <1>4, <1>5, <1>6 DEF Environment

LEMMA DataStep ==
  ASSUME ControlInv, DataInv, [Next]_vars
  PROVE  DataInv'
<1>1. CASE Stopped \/ UNCHANGED vars
  <2>1. UNCHANGED <<pc, ctx, idx, ms, req, reply, store, late, refused>>
    BY <1>1
       DEF Stopped, vars, callerVars, driverVars, netVars, clusterVars
  <2>2. QED
    BY <2>1, QuietStep DEF InCall
<1>2. QED
  BY <1>1, MainDataStep, ThreadDataStep, NodeDataStep, EnvironmentDataStep
     DEF Next

LEMMA DataInvariant == Spec => [](ControlInv /\ DataInv)
<1>1. Init => ControlInv /\ DataInv
  BY ControlInit, DataInit
<1>2. (ControlInv /\ DataInv) /\ [Next]_vars => (ControlInv /\ DataInv)'
  BY ControlStep, DataStep
<1>3. QED
  BY <1>1, <1>2, PTL DEF Spec

-----------------------------------------------------------------------------
(* What the writes of a thread are worth *)

\* run() leaves no field behind that is neither in the cluster nor refused by
\* it, whatever the network and the cluster did during the call.
THEOREM NothingLost == Spec => []ReturnedIsWritten
<1>1. DataInv => ReturnedIsWritten
  BY DEF DataInv
<1>2. QED
  BY DataInvariant, <1>1, PTL

\* Nothing is stored, or can still be executed, ahead of run().
THEOREM WritesInOrder == Spec => []NothingAhead
<1>1. ControlInv /\ DataInv => NothingAhead
  <2> SUFFICES ASSUME ControlInv, DataInv PROVE NothingAhead
    OBVIOUS
  <2>1. ASSUME NEW t \in Callers, NEW i \in Field, i > idx[t]
        PROVE  store[t][i] = 0
    <3>1. i \in Int /\ idx[t] \in Int
      BY PerfAssumption DEF ControlInv, PerfTypeOK, Field
    <3>2. QED
      BY <2>1, <3>1 DEF DataInv, StoreAgrees
  <2>2. \A r \in late : r.i <= idx[r.t]
    BY DEF DataInv, LateAgrees
  <2>3. QED
    BY <2>1, <2>2 DEF NothingAhead
<1>2. QED
  BY DataInvariant, <1>1, PTL

\* A retry, or an execution that comes late, never changes a stored expiry.
THEOREM ExpiryIsKept == Spec => ExpiryNeverRewritten
<1>1. ASSUME ControlInv, DataInv, Next
      PROVE  KeepsExpiries
  <2>1. ASSUME NEW t \in Callers, Execute(t) PROVE KeepsExpiries
    <3>1. UNCHANGED <<pc, ctx, idx, ms, refused, late>>
      BY <2>1 DEF Execute, callerVars, driverVars
    <3>2. QED
      BY <1>1, <2>1, <3>1, ExecuteMayWrite, WriteStep
  <2>2. ASSUME NEW r \in late, ExecuteLate(r) PROVE KeepsExpiries
    <3>1. UNCHANGED <<pc, ctx, idx, ms, refused>> /\ late' \subseteq late
      BY <2>2 DEF ExecuteLate, callerVars, driverVars
    <3>2. QED
      BY <1>1, <2>2, <3>1, ExecuteLateMayWrite, WriteStep
  <2>3. CASE store' = store
    BY <2>3 DEF KeepsExpiries
  <2>4. ASSUME NEW t \in Callers, Thread(t) PROVE store' = store
    BY <2>4
       DEF Thread, ThreadDeref, ThreadCall, ThreadSend, ThreadRetry,
           ThreadReturn, ThreadReconnect, ThreadEnd, clusterVars
  <2>5. Main => store' = store
    BY DEF Main, MainConstruct, MainConnect, MainReset, MainSpawn, MainJoin,
           MainDrop, MainPhase, clusterVars
  <2>6. ASSUME NEW t \in Callers, Deflect(t) \/ Reject(t)
        PROVE  store' = store
    BY <2>6 DEF Deflect, Reject, clusterVars
  <2>7. \/ \E t \in Callers :
             \/ Broken(t) \/ AskElsewhere(t) \/ Cut(t) \/ Garble(t)
             \/ \E a \in Addr : Migrate(t, a)
        \/ \E a \in Addr : Crash(a) \/ ClusterFails(a) \/ Recover(a)
        \/ Tick
        => store' = store
    BY DEF Broken, AskElsewhere, Cut, Garble, Migrate, Crash, ClusterFails,
           Recover, Tick, clusterVars
  <2>8. Stopped => store' = store
    BY DEF Stopped, vars, clusterVars
  <2>9. QED
    BY <1>1, <2>1, <2>2, <2>3, <2>4, <2>5, <2>6, <2>7, <2>8
       DEF Next, Node, Environment
<1>2. (ControlInv /\ DataInv) /\ [Next]_vars => [KeepsExpiries]_vars
  BY <1>1
<1>3. QED
  BY DataInvariant, <1>2, PTL DEF Spec, ExpiryNeverRewritten

-----------------------------------------------------------------------------
(* main() *)

LEMMA MainInit == Init => MainInv
<1> SUFFICES ASSUME Init PROVE MainInv
  OBVIOUS
<1> USE PerfAssumption DEF Init, CallerInit
<1>1. \A t \in Callers : ~(t < 0)
  OBVIOUS
<1>2. MainState
  BY DEF MainState
<1>3. FaultState
  BY <1>1 DEF FaultState
<1>4. AbortNeedsFault
  BY DEF AbortNeedsFault
<1>5. QED
  BY <1>2, <1>3, <1>4 DEF MainInv

\* A terminated process takes no step.
LEMMA DeadStops ==
  ASSUME ControlInv, ~alive, [Next]_vars
  PROVE  UNCHANGED vars
<1>1. ~Main
  BY DEF Main, MainConstruct, MainConnect, MainReset, MainSpawn, MainJoin,
         MainDrop, MainPhase, Construct, FirstConnect, Destroy
<1>2. ASSUME NEW t \in Callers, Thread(t) PROVE FALSE
  BY <1>2
     DEF Thread, ThreadDeref, ThreadCall, ThreadSend, ThreadRetry, ThreadReturn,
         ThreadReconnect, ThreadEnd, Killed, Call, Send, Redirect, Retry, Finish,
         GiveUp, CanReceive, Reconnect
<1>3. ASSUME NEW t \in Callers, Node(t) PROVE FALSE
  BY <1>3 DEF Node, Execute, Deflect, Reject, Arrived
<1>4. ~Environment
  BY DEF Environment, Broken, AskElsewhere, Cut, Garble, Migrate, Crash,
         ClusterFails, Recover, ExecuteLate, Tick, Fault
<1>5. QED
  BY <1>1, <1>2, <1>3, <1>4 DEF Next, Stopped

\* Only a thread that finds its caller_ empty terminates the process.
LEMMA OnlyDerefKills ==
  ASSUME ControlInv, Next, alive, ~alive'
  PROVE  \E t \in Callers : ThreadDeref(t)
<1>1. ~Main
  BY DEF Main, MainConstruct, MainConnect, MainReset, MainSpawn, MainJoin,
         MainDrop, MainPhase, Construct, FirstConnect, Destroy, callerVars
<1>2. ASSUME NEW t \in Callers, Node(t) PROVE FALSE
  BY <1>2 DEF Node, Execute, Deflect, Reject, callerVars
<1>3. ~Environment
  BY DEF Environment, Broken, AskElsewhere, Cut, Garble, Migrate, Crash,
         ClusterFails, Recover, ExecuteLate, Tick, callerVars
<1>4. ~Stopped
  BY DEF Stopped, vars, callerVars
<1>5. ASSUME NEW t \in Callers, Thread(t) PROVE ThreadDeref(t)
  BY <1>5
     DEF Thread, ThreadCall, ThreadSend, ThreadRetry, ThreadReturn,
         ThreadReconnect, ThreadEnd, Call, Send, Redirect, Retry, DropContext,
         Finish, GiveUp, Reconnect, callerVars
<1>6. QED
  BY <1>1, <1>2, <1>3, <1>4, <1>5 DEF Next

\* Steps that leave main(), the threads and the nodes' health alone.
LEMMA MainQuietStep ==
  ASSUME ControlInv, MainInv, UNCHANGED <<mainPc, mi, th, idx, status>>,
         faults' \in Nat, faults' >= faults,
         \A t \in Callers :
           /\ pc'[t] \in {"none", "new", "failed"} <=> pc[t] \in {"none", "new", "failed"}
           /\ pc'[t] \in {"none", "new", "failed"} => pc'[t] = pc[t]
           /\ mainPc = "init" => pc'[t] = pc[t]
  PROVE  MainState' /\ FaultState'
<1> USE DEF MainInv
<1>1. MainState'
  BY DEF MainState
<1>2. faults > 0 => faults' > 0
  BY DEF ControlInv, PerfTypeOK
<1>3. FaultState'
  BY <1>2 DEF FaultState
<1>4. QED
  BY <1>1, <1>3

LEMMA MainLoopStep ==
  ASSUME ControlInv, MainInv, Main
  PROVE  MainState' /\ FaultState'
<1> USE MainIndexIsCaller, PerfAssumption
    DEF MainInv, ControlInv, PerfTypeOK, CallerTypeOK
<1>1. CASE MainConstruct
  <2>1. /\ UNCHANGED <<mainPc, mi, th, idx, status, faults>>
        /\ pc' = [pc EXCEPT ![mi] = "new"]
        /\ mi \in Callers /\ mainPc = "init"
    BY <1>1 DEF MainConstruct, Construct, driverVars, clusterVars
  <2>2. QED
    BY <2>1 DEF MainState, FaultState
<1>2. CASE MainConnect
  <2>1. /\ UNCHANGED <<mainPc, th, idx, status, faults>>
        /\ mi \in Callers /\ mainPc = "init"
        /\ \/ pc' = [pc EXCEPT ![mi] = "idle"] /\ mi' = mi + 1
           \/ /\ pc' = [pc EXCEPT ![mi] = "failed"] /\ mi' = mi
              /\ status[At(mi)] = "dead"
    BY <1>2 DEF MainConnect, FirstConnect, Reachable, clusterVars
  <2>2. At(mi) \in Addr
    BY <2>1, AddrShape
  <2>3. MainState'
    BY <2>1 DEF MainState
  <2>4. CASE pc' = [pc EXCEPT ![mi] = "idle"] /\ mi' = mi + 1
    <3>1. \A t \in Callers : t < mi + 1 => t < mi \/ t = mi
      OBVIOUS
    <3>2. FaultState'
      BY <2>1, <2>4, <3>1 DEF FaultState
    <3>3. QED
      BY <2>3, <3>2
  <2>5. CASE /\ pc' = [pc EXCEPT ![mi] = "failed"] /\ mi' = mi
             /\ status[At(mi)] = "dead"
    <3>1. faults > 0
      BY <2>2, <2>5 DEF FaultState
    <3>2. FaultState'
      BY <2>1, <2>5, <3>1 DEF FaultState
    <3>3. QED
      BY <2>3, <3>2
  <2>6. QED
    BY <2>1, <2>4, <2>5
<1>3. CASE MainReset
  <2>1. /\ UNCHANGED <<mainPc, th, idx, status, faults>>
        /\ mi \in Callers /\ mainPc = "init" /\ mi' = mi + 1
        /\ pc[mi] = "failed" /\ pc' = [pc EXCEPT ![mi] = "none"]
    BY <1>3 DEF MainReset, Destroy, clusterVars
  <2>2. QED
    BY <2>1 DEF MainState, FaultState
<1>4. CASE MainSpawn
  <2>1. /\ UNCHANGED <<mainPc, idx, status, faults, pc>>
        /\ mi \in Callers /\ mainPc = "spawn" /\ mi' = mi + 1
        /\ th' = [th EXCEPT ![mi] = "running"]
    BY <1>4 DEF MainSpawn, callerVars, clusterVars
  <2>2. MainState'
    BY <2>1 DEF MainState
  <2>3. FaultState'
    BY <2>1 DEF FaultState
  <2>4. QED
    BY <2>2, <2>3
<1>5. CASE MainJoin
  <2>1. /\ UNCHANGED <<mainPc, idx, status, faults, pc, th>>
        /\ mi \in Callers /\ mainPc = "join" /\ mi' = mi + 1 /\ th[mi] = "done"
    BY <1>5 DEF MainJoin, callerVars, clusterVars
  <2>2. QED
    BY <2>1 DEF MainState, FaultState
<1>6. CASE MainDrop
  <2>1. /\ UNCHANGED <<mainPc, idx, status, faults, th>>
        /\ mi \in Callers /\ mainPc = "finish"
        /\ pc' = pc \/ pc' = [pc EXCEPT ![mi] = "none"]
    BY <1>6 DEF MainDrop, Destroy, callerVars, clusterVars
  <2>2. QED
    BY <2>1 DEF MainState, FaultState
<1>7. CASE MainPhase
  <2>1. /\ UNCHANGED <<idx, status, faults, th, pc>>
        /\ mi = N /\ mi' = 0
        /\ \/ mainPc = "init" /\ mainPc' = "spawn"
           \/ mainPc = "spawn" /\ mainPc' = "join"
           \/ mainPc = "join" /\ mainPc' = "finish"
           \/ mainPc = "finish" /\ mainPc' = "exit"
    BY <1>7, NextPhase DEF MainPhase, callerVars, clusterVars
  <2>2. \A t \in Callers : t < N /\ ~(t < 0)
    OBVIOUS
  <2>3. MainState'
    BY <2>1, <2>2 DEF MainState
  <2>4. FaultState'
    BY <2>1, <2>2 DEF FaultState
  <2>5. QED
    BY <2>3, <2>4
<1>8. QED
  BY <1>1, <1>2, <1>3, <1>4, <1>5, <1>6, <1>7 DEF Main

\* A thread runs only between its start by main() and the end of run().
LEMMA MainThreadStep ==
  ASSUME ControlInv, MainInv, NEW t \in Callers, Thread(t)
  PROVE  MainState' /\ FaultState'
<1> USE DEF ControlInv, PerfTypeOK, CallerTypeOK, clusterVars, driverVars
<1>1. CASE ThreadEnd(t)
  <2>1. /\ UNCHANGED <<mainPc, mi, idx, status, faults, pc>>
        /\ th[t] = "running" /\ idx[t] = Count
        /\ th' = [th EXCEPT ![t] = "done"]
    BY <1>1 DEF ThreadEnd, callerVars
  <2>2. MainState'
    BY <2>1 DEF MainInv, MainState
  <2>3. FaultState'
    BY <2>1 DEF MainInv, FaultState
  <2>4. QED
    BY <2>2, <2>3
<1>2. CASE ThreadReturn(t)
  <2>1. pc[t] = "recv"
    BY <1>2 DEF ThreadReturn, Finish, GiveUp, CanReceive
  <2>2. th[t] = "running"
    BY <2>1 DEF CallState, InCall
  <2>3. /\ UNCHANGED <<mainPc, mi, th, status, faults>>
        /\ pc' = [pc EXCEPT ![t] = "idle"]
        /\ \A u \in Callers : u # t => idx'[u] = idx[u]
    BY <1>2 DEF ThreadReturn, Finish, GiveUp
  <2>4. QED
    BY <2>1, <2>2, <2>3 DEF MainInv, MainState, FaultState
<1>3. ASSUME \/ ThreadDeref(t) \/ ThreadCall(t) \/ ThreadSend(t)
             \/ ThreadRetry(t) \/ ThreadReconnect(t)
      PROVE  MainState' /\ FaultState'
  <2>1. /\ UNCHANGED <<mainPc, mi, th, idx, status, faults>>
        /\ \/ pc' = pc
           \/ /\ pc[t] \in {"idle", "send", "recv", "connect"}
              /\ pc'[t] \in {"idle", "send", "recv", "connect"}
              /\ \A u \in Callers : u # t => pc'[u] = pc[u]
              /\ th[t] = "running"
    <3>1. CASE ThreadDeref(t)
      BY <3>1 DEF ThreadDeref, Killed
    <3>2. CASE ThreadCall(t)
      BY <3>2 DEF ThreadCall, Call, Working
    <3>3. CASE ThreadSend(t)
      BY <3>3 DEF ThreadSend, Send, CallState, InCall
    <3>4. CASE ThreadRetry(t)
      <4>1. pc[t] = "recv" /\ pc' = [pc EXCEPT ![t] = "connect"]
        BY <3>4 DEF ThreadRetry, Redirect, Retry, DropContext, CanReceive
      <4>2. th[t] = "running"
        BY <4>1 DEF CallState, InCall
      <4>3. QED
        BY <3>4, <4>1, <4>2 DEF ThreadRetry
    <3>5. CASE ThreadReconnect(t)
      <4>1. /\ pc[t] = "connect" /\ pc'[t] \in {"send", "connect"}
            /\ \A u \in Callers : u # t => pc'[u] = pc[u]
        BY <3>5 DEF ThreadReconnect, Reconnect
      <4>2. th[t] = "running"
        BY <4>1 DEF CallState, InCall
      <4>3. QED
        BY <3>5, <4>1, <4>2 DEF ThreadReconnect
    <3>6. QED
      BY <1>3, <3>1, <3>2, <3>3, <3>4, <3>5
  <2>2. mainPc = "init" => th[t] # "running"
    BY DEF MainInv, MainState
  <2>3. faults' \in Nat /\ faults' >= faults
    BY <2>1, PerfAssumption
  <2>4. QED
    BY <2>1, <2>2, <2>3, MainQuietStep
<1>4. QED
  BY <1>1, <1>2, <1>3 DEF Thread

\* Nodes die of faults only.
LEMMA MainNetStep ==
  ASSUME ControlInv, MainInv,
         Environment \/ Stopped \/ UNCHANGED vars \/ \E t \in Callers : Node(t)
  PROVE  MainState' /\ FaultState'
<1> USE DEF driverVars, callerVars, clusterVars
<1>1. UNCHANGED <<mainPc, mi, th, idx, pc>>
  BY DEF Environment, Broken, AskElsewhere, Cut, Garble, Migrate, Crash,
         ClusterFails, Recover, ExecuteLate, Tick, Stopped, vars, Node, Execute,
         Deflect, Reject
<1>2. /\ faults \in Nat /\ faults' \in Nat /\ faults' >= faults
      /\ \A a \in Addr : status'[a] = "dead" => faults' > 0
  <2> USE PerfAssumption DEF ControlInv, PerfTypeOK, MainInv, FaultState, Fault
  <2>1. ASSUME NEW a \in Addr, Crash(a) \/ ClusterFails(a) \/ Recover(a)
        PROVE  <1>2
    BY <2>1 DEF Crash, ClusterFails, Recover
  <2>2. ASSUME status' = status, faults' = faults \/ Fault
        PROVE  <1>2
    BY <2>2
  <2>3. QED
    BY <2>1, <2>2
       DEF Environment, Broken, AskElsewhere, Cut, Garble, Migrate, ExecuteLate,
           Tick, Stopped, vars, Node, Execute, Deflect, Reject
<1>3. MainState'
  BY <1>1 DEF MainInv, MainState
<1>4. FaultState'
  BY <1>1, <1>2 DEF MainInv, FaultState
<1>5. QED
  BY <1>3, <1>4

LEMMA MainStep ==
  ASSUME ControlInv, MainInv, [Next]_vars
  PROVE  MainInv'
<1>1. MainState' /\ FaultState'
  BY MainLoopStep, MainThreadStep, MainNetStep DEF Next
<1>2. AbortNeedsFault'
  <2>1. CASE ~alive
    <3>1. UNCHANGED vars
      BY <2>1, DeadStops
    <3>2. QED
      BY <3>1
         DEF MainInv, AbortNeedsFault, vars, callerVars, driverVars, clusterVars
  <2>2. CASE alive /\ ~alive'
    <3>1. PICK t \in Callers : ThreadDeref(t)
      BY <2>2, OnlyDerefKills DEF vars, callerVars
    <3>2. /\ th[t] = "running" /\ pc[t] = "none"
          /\ th'[t] = "running" /\ pc'[t] = "none" /\ faults' = faults
      BY <3>1 DEF ThreadDeref, Working, Killed, driverVars, clusterVars
    <3>3. mainPc \in {"spawn", "join"}
      BY <3>2 DEF MainInv, MainState, ControlInv, PerfTypeOK
    <3>4. faults > 0
      BY <3>2, <3>3 DEF MainInv, FaultState
    <3>5. QED
      BY <3>2, <3>4 DEF AbortNeedsFault
  <2>3. CASE alive'
    BY <2>3 DEF AbortNeedsFault
  <2>4. QED
    BY <2>1, <2>2, <2>3
<1>3. QED
  BY <1>1, <1>2 DEF MainInv

LEMMA MainInvariant == Spec => [](ControlInv /\ MainInv)
<1>1. Init => ControlInv /\ MainInv
  BY ControlInit, MainInit
<1>2. (ControlInv /\ MainInv) /\ [Next]_vars => (ControlInv /\ MainInv)'
  BY ControlStep, MainStep
<1>3. QED
  BY <1>1, <1>2, PTL DEF Spec

\* When main() logs "finish" every thread has handed over all its fields and
\* no request is in flight.
THEOREM FinishIsComplete == Spec => []FinishMeansAllReturned
<1>1. ControlInv /\ MainInv => FinishMeansAllReturned
  <2> SUFFICES ASSUME ControlInv, MainInv, mainPc \in {"finish", "exit"},
                      NEW t \in Callers
               PROVE  th[t] = "done" /\ idx[t] = Count /\ req[t] = "none"
    BY DEF FinishMeansAllReturned
  <2>1. th[t] = "done" /\ idx[t] = Count
    BY DEF MainInv, MainState
  <2>2. req[t] = "none"
    BY <2>1 DEF ControlInv, CallState, InCall
  <2>3. QED
    BY <2>1, <2>2
<1>2. QED
  BY MainInvariant, <1>1, PTL

\* The process is terminated only by a thread whose init() failed, and that
\* takes a fault.
THEOREM AbortIsExplained == Spec => []AbortNeedsFault
<1>1. MainInv => AbortNeedsFault
  BY DEF MainInv
<1>2. QED
  BY MainInvariant, <1>1, PTL

-----------------------------------------------------------------------------
(* The program implements HashWrites *)

Written == {w \in Callers \X Field : store[w[1]][w[2]] # 0}

RefusedPairs == {w \in Callers \X Field : w[2] \in refused[w[1]]}

LEMMA PromiseInit == Init => Writes!Init
<1> SUFFICES ASSUME Init PROVE Writes!Init
  OBVIOUS
<1>1. Written = {} /\ RefusedPairs = {}
  BY DEF Init, Written, RefusedPairs
<1>2. QED
  BY <1>1 DEF Init, Writes!Init, Written, RefusedPairs

\* An allowed execution is a Write of the promise.
LEMMA WriteKeepsPromise ==
  ASSUME ControlInv, NEW t \in Callers, NEW i \in Field, NEW m,
         MayWrite(t, i, m), store' = [store EXCEPT ![t][i] = m],
         UNCHANGED <<idx, refused>>
  PROVE  Writes!Next
<1>1. \A u \in Callers : \A j \in Field :
        store'[u][j] = IF u = t /\ j = i THEN m ELSE store[u][j]
  BY DEF ControlInv, PerfTypeOK
<1>2. Written' = Written \cup {<<t, i>>}
  BY <1>1 DEF Written, MayWrite
<1>3. RefusedPairs' = RefusedPairs
  BY DEF RefusedPairs
<1>4. Writes!Write(t, i)
  BY <1>2, <1>3 DEF Writes!Write, MayWrite, Written, RefusedPairs
<1>5. QED
  BY <1>4 DEF Writes!Next, Writes!Field, Field

\* Every step is a step of the promise, or none.
LEMMA PromiseStep ==
  ASSUME ControlInv, DataInv, [Next]_vars
  PROVE  [Writes!Next]_(Writes!vars)
<1> USE DEF ControlInv, PerfTypeOK
<1>1. ASSUME UNCHANGED <<idx, store, refused>>
      PROVE  UNCHANGED Writes!vars
  BY <1>1 DEF Writes!vars
<1>2. ASSUME NEW t \in Callers, Execute(t) PROVE Writes!Next
  <2>1. UNCHANGED <<idx, refused>>
    BY <1>2 DEF Execute, driverVars
  <2>2. QED
    BY <1>2, <2>1, ExecuteMayWrite, WriteKeepsPromise
<1>3. ASSUME NEW r \in late, ExecuteLate(r) PROVE Writes!Next
  <2>1. UNCHANGED <<idx, refused>>
    BY <1>3 DEF ExecuteLate, driverVars
  <2>2. QED
    BY <1>3, <2>1, ExecuteLateMayWrite, WriteKeepsPromise
<1>4. ASSUME NEW t \in Callers, Reject(t) \/ AskElsewhere(t)
      PROVE  Writes!Next
  <2>1. idx[t] < Count /\ idx[t] \in Field
    <3>1. idx[t] < Count
      BY <1>4 DEF Reject, AskElsewhere, Arrived, CallState, InCall
    <3>2. QED
      BY <3>1, RequestType
  <2>2. /\ UNCHANGED <<idx, store>>
        /\ refused' = [refused EXCEPT ![t] = @ \cup {idx[t]}]
    BY <1>4 DEF Reject, AskElsewhere, driverVars
  <2>3. Written' = Written
    BY <2>2 DEF Written
  <2>4. RefusedPairs' = RefusedPairs \cup {<<t, idx[t]>>}
    BY <2>1, <2>2 DEF RefusedPairs
  <2>5. Writes!Refuse(t)
    BY <2>2, <2>3, <2>4 DEF Writes!Refuse, Written, RefusedPairs
  <2>6. QED
    BY <2>1, <2>5 DEF Writes!Next
<1>5. ASSUME NEW t \in Callers, Garble(t) PROVE Writes!Next
  <2>1. idx[t] < Count
    BY <1>5 DEF Garble, CallState, InCall
  <2>2. /\ UNCHANGED <<idx, store>>
        /\ refused' = [refused EXCEPT ![t] = @ \cup {i \in Field : i >= idx[t]}]
    BY <1>5 DEF Garble, driverVars
  <2>3. Written' = Written
    BY <2>2 DEF Written
  <2>4. RefusedPairs' = RefusedPairs \cup {<<t, i>> : i \in {j \in Field : j >= idx[t]}}
    BY <2>2 DEF RefusedPairs
  <2>5. Writes!LoseWriter(t)
    BY <2>2, <2>3, <2>4
       DEF Writes!LoseWriter, Writes!Field, Field, Written, RefusedPairs
  <2>6. QED
    BY <2>1, <2>5 DEF Writes!Next
<1>6. ASSUME NEW t \in Callers, ThreadReturn(t) PROVE Writes!Next
  <2>1. /\ req[t] = "answered" /\ idx' = [idx EXCEPT ![t] = @ + 1]
        /\ UNCHANGED <<store, refused>>
    BY <1>6 DEF ThreadReturn, clusterVars
  <2>2. idx[t] < Count
    BY <2>1 DEF CallState, InCall
  <2>3. idx[t] \in Field
    BY <2>2, RequestType
  <2>4. store[t][idx[t]] # 0 \/ idx[t] \in refused[t]
    <3>1. idx[t] >= idx[t]
      BY PerfAssumption
    <3>2. CASE Finish(t, reply[t])
      BY <2>1, <3>2 DEF Finish, Final, ConnectAgain, DataInv, ReplyMeans
    <3>3. CASE GiveUp(t, reply[t])
      BY <2>1, <2>3, <3>1, <3>3 DEF GiveUp, ConnectAgain, DataInv, ReplyMeans, Lost
    <3>4. QED
      BY <1>6, <3>2, <3>3 DEF ThreadReturn
  <2>5. Writes!Return(t)
    BY <2>1, <2>3, <2>4 DEF Writes!Return
  <2>6. QED
    BY <2>2, <2>5 DEF Writes!Next
<1>7. ASSUME Main \/ Stopped \/ UNCHANGED vars PROVE UNCHANGED Writes!vars
  <2>1. UNCHANGED <<idx, store, refused>>
    BY <1>7
       DEF Main, MainConstruct, MainConnect, MainReset, MainSpawn, MainJoin,
           MainDrop, MainPhase, Stopped, vars, driverVars, clusterVars
  <2>2. QED
    BY <1>1, <2>1
<1>8. ASSUME NEW t \in Callers, Thread(t), ~ThreadReturn(t)
      PROVE  UNCHANGED Writes!vars
  <2>1. UNCHANGED <<idx, store, refused>>
    BY <1>8
       DEF Thread, ThreadDeref, ThreadCall, ThreadSend, ThreadRetry,
           ThreadReconnect, ThreadEnd, driverVars, clusterVars
  <2>2. QED
    BY <1>1, <2>1
<1>9. ASSUME NEW t \in Callers, Deflect(t) \/ Broken(t)
      PROVE  UNCHANGED Writes!vars
  <2>1. UNCHANGED <<idx, store, refused>>
    BY <1>9 DEF Deflect, Broken, driverVars, clusterVars
  <2>2. QED
    BY <1>1, <2>1
<1>10. ASSUME \/ \E t \in Callers : Cut(t) \/ \E a \in Addr : Migrate(t, a)
              \/ \E a \in Addr : Crash(a) \/ ClusterFails(a) \/ Recover(a)
              \/ Tick
       PROVE  UNCHANGED Writes!vars
  <2>1. UNCHANGED <<idx, store, refused>>
    BY <1>10 DEF Cut, Migrate, Crash, ClusterFails, Recover, Tick, driverVars
  <2>2. QED
    BY <1>1, <2>1
<1>11. QED
  BY <1>2, <1>3, <1>4, <1>5, <1>6, <1>7, <1>8, <1>9, <1>10
     DEF Next, Node, Environment

\* The program keeps the promise of HashWrites: retries, redirects, crashes
\* and late executions are invisible in it.
THEOREM KeepsPromise == Spec => KeepsWritePromise
<1>1. (ControlInv /\ DataInv) /\ [Next]_vars => [Writes!Next]_(Writes!vars)
  BY PromiseStep
<1>2. QED
  BY PromiseInit, DataInvariant, <1>1, PTL DEF Spec, KeepsWritePromise, Writes!Spec
=============================================================================
