----------------------------- MODULE RedisCaller -----------------------------
(***************************************************************************)
(* yrep_redis_caller_n (src/yrep_redis_caller.h): a cached connection to   *)
(* one node of a redis cluster and the loop every operation runs, "send,   *)
(* look at the reply, reconnect and send again".  Each caller object is    *)
(* used by one thread.  The server is left open here: any reply may come   *)
(* back.  PerfSync closes the system with the driver and a cluster.        *)
(***************************************************************************)
EXTENDS Integers

CONSTANTS
  Callers,           \* caller objects of the process
  Ips, Ports,        \* what ip_ and port_ can name
  NoIp,              \* the empty fixed_ip_
  FixedIp,           \* fixed_ip_ of each caller
  MaxFailedConnects  \* bound: failed connects explored per caller

ASSUME CallerAssumption ==
  /\ NoIp \notin Ips
  /\ FixedIp \in [Callers -> Ips \cup {NoIp}]
  /\ MaxFailedConnects \in Nat

VARIABLES
  alive,   \* the process has not been terminated
  pc,      \* where each caller stands
  op,      \* the operation it runs, or ran last
  ctx,     \* ctx_: "NULL", "OK", or the hiredis error the context holds
  ip,      \* ip_
  port,    \* port_
  peer,    \* the address the context of ctx_ was made with
  told,    \* history: the address last named, and who named it
  live,    \* history: redisContext objects allocated and not freed
  fails,   \* history: failed connects of the reconnect loop
  answer,  \* history: the kind of reply that ended the last operation
  result   \* what the last operation handed back

callerVars ==
  <<alive, pc, op, ctx, ip, port, peer, told, live, fails, answer, result>>

-----------------------------------------------------------------------------
(* What hiredis can return (external: modelled from how the code reads it) *)

Addr == [ip : Ips, port : Ports]

\* The address a caller holds.
At(c) == [ip |-> ip[c], port |-> port[c]]

\* Who named an address: the owner of the caller, or a node of the cluster.
Names == [by : {"owner", "cluster"}, ip : Ips, port : Ports]
Named(who, a) == [by |-> who, ip |-> a.ip, port |-> a.port]

\* ctx_->err; the code names REDIS_ERR_IO (1) and REDIS_ERR_EOF (3)
Errors == {"IO", "OTHER", "EOF", "PROTOCOL", "OOM"}

\* "ARRAY" is an array whose first element is a string, "OTHERARRAY" any other.
DataKinds == {"INTEGER", "STRING", "NIL", "ARRAY", "OTHERARRAY", "STATUS"}

\* Error replies reconnectif does not act on, so that they end the operation:
\* "ASK" redirects one command during a resharding, "HOSTLESS" is a MOVED whose
\* host has no colon, "ERROR" has no space or any other first word.
ErrorKinds == {"ERROR", "ASK", "HOSTLESS"}

\* "BADPORT" is a MOVED whose port is not a number.
Reply == [kind : DataKinds \cup ErrorKinds \cup {"CLUSTERDOWN", "BADPORT"}]
         \cup [kind : {"MOVED"}, ip : Ips, port : Ports]
         \cup [kind : {"NULL"}, err : Errors]

Plain(k) == [kind |-> k]
MovedTo(a) == [kind |-> "MOVED", ip |-> a.ip, port |-> a.port]
NullReply(e) == [kind |-> "NULL", err |-> e]

Lookups == {"get", "hget", "hgetex", "exists"}
Ops == {"exec", "exec_binary", "mix", "callvct"} \cup Lookups
Pcs == {"none", "new", "failed", "idle", "send", "recv", "connect"}

\* What an operation makes of the reply that ended its loop.
Returns(o, r) ==
  CASE o = "exec"            -> "true"
    [] o \in {"get", "hget"} -> IF r.kind = "STRING" THEN "value" ELSE "empty"
    [] o = "hgetex"          -> IF r.kind = "ARRAY" THEN "first" ELSE "empty"
    [] o = "exists"          -> IF r.kind = "INTEGER" THEN "count" ELSE "zero"
    [] OTHER                 -> "void"

Results == {"true", "value", "first", "empty", "count", "zero", "void"}

-----------------------------------------------------------------------------
(* Life of a caller object *)

CallerInit ==
  /\ alive = TRUE
  /\ pc = [c \in Callers |-> "none"]
  /\ op = [c \in Callers |-> "exec"]
  /\ ctx = [c \in Callers |-> "NULL"]
  /\ ip \in [Callers -> Ips]
  /\ port \in [Callers -> Ports]
  /\ peer = [c \in Callers |-> At(c)]
  /\ told = [c \in Callers |-> Named("owner", At(c))]
  /\ live = [c \in Callers |-> 0]
  /\ fails = [c \in Callers |-> 0]
  /\ answer = [c \in Callers |-> "STATUS"]
  /\ result = [c \in Callers |-> "void"]

\* The constructor.
Construct(c, a) ==
  /\ alive /\ pc[c] = "none"
  /\ ip' = [ip EXCEPT ![c] = a.ip]
  /\ port' = [port EXCEPT ![c] = a.port]
  /\ told' = [told EXCEPT ![c] = Named("owner", a)]
  /\ ctx' = [ctx EXCEPT ![c] = "NULL"]
  /\ pc' = [pc EXCEPT ![c] = "new"]
  /\ UNCHANGED <<alive, op, peer, live, fails, answer, result>>

\* connect(): the new context replaces ctx_, whatever ctx_ pointed to.  With
\* an error it is kept and connect() returns false.
Connect(c, ok) ==
  /\ ctx' = [ctx EXCEPT ![c] = IF ok THEN "OK" ELSE "IO"]
  /\ peer' = [peer EXCEPT ![c] = At(c)]
  /\ live' = [live EXCEPT ![c] = @ + 1]

\* The client's first connect() after construction.
FirstConnect(c, ok) ==
  /\ alive /\ pc[c] = "new"
  /\ Connect(c, ok)
  /\ pc' = [pc EXCEPT ![c] = IF ok THEN "idle" ELSE "failed"]
  /\ UNCHANGED <<alive, op, ip, port, told, fails, answer, result>>

\* redisConnectWithTimeout returns NULL (no memory): the << of the log line
\* binds tighter than its ?:, so ctx_->err is read through the NULL pointer.
ConnectNoMemory(c) ==
  /\ alive /\ pc[c] \in {"new", "connect"}
  /\ alive' = FALSE
  /\ ctx' = [ctx EXCEPT ![c] = "NULL"]
  /\ UNCHANGED <<pc, op, ip, port, peer, told, live, fails, answer, result>>

\* The destructor, run when the owner resets or drops the shared_ptr.
Destroy(c) ==
  /\ alive /\ pc[c] \in {"idle", "failed"}
  /\ live' = [live EXCEPT ![c] = IF ctx[c] # "NULL" THEN @ - 1 ELSE @]
  /\ ctx' = [ctx EXCEPT ![c] = "NULL"]
  /\ pc' = [pc EXCEPT ![c] = "none"]
  /\ UNCHANGED <<alive, op, ip, port, peer, told, fails, answer, result>>

-----------------------------------------------------------------------------
(* The loop of an operation *)

\* The operation builds its arguments once and enters the loop.
Call(c, o) ==
  /\ alive /\ pc[c] = "idle"
  /\ op' = [op EXCEPT ![c] = o]
  /\ pc' = [pc EXCEPT ![c] = "send"]
  /\ UNCHANGED <<alive, ctx, ip, port, peer, told, live, fails, answer, result>>

\* redis_command / redis_command_binary: the request leaves.
Send(c) ==
  /\ alive /\ pc[c] = "send"
  /\ pc' = [pc EXCEPT ![c] = "recv"]
  /\ UNCHANGED <<alive, op, ctx, ip, port, peer, told, live, fails, answer, result>>

\* A context that already holds an error answers NULL without asking anybody.
CanReceive(c, r) ==
  /\ alive /\ pc[c] = "recv"
  /\ ctx[c] # "OK" => r = NullReply(ctx[c])

\* Faulty variant: the context is not freed.
DropContextNoFree(c) ==
  /\ ctx' = [ctx EXCEPT ![c] = "NULL"]
  /\ pc' = [pc EXCEPT ![c] = "connect"]
  /\ UNCHANGED <<alive, op, peer, live, fails, answer, result>>

\* Common tail of reconnectif: the reply and the context are freed, then the
\* connect loop starts.
DropContext(c) ==
  /\ ctx' = [ctx EXCEPT ![c] = "NULL"]
  /\ live' = [live EXCEPT ![c] = @ - 1]
  /\ pc' = [pc EXCEPT ![c] = "connect"]
  /\ UNCHANGED <<alive, op, peer, fails, answer, result>>

\* Faulty variants: fixed_ip_ ignored; address kept.
RedirectAnywhere(c, r) ==
  /\ CanReceive(c, r)
  /\ r.kind = "MOVED"
  /\ ip' = [ip EXCEPT ![c] = r.ip]
  /\ port' = [port EXCEPT ![c] = r.port]
  /\ told' = [told EXCEPT ![c] = Named("cluster", r)]
  /\ DropContext(c)

RedirectNowhere(c, r) ==
  /\ CanReceive(c, r)
  /\ r.kind = "MOVED"
  /\ told' = [told EXCEPT ![c] = Named("cluster", r)]
  /\ DropContext(c)
  /\ UNCHANGED <<ip, port>>

\* MOVED: the address of the next connect is the one in the reply, its ip
\* overridden by fixed_ip_.
Redirect(c, r) ==
  /\ CanReceive(c, r)
  /\ r.kind = "MOVED"
  /\ ip' = [ip EXCEPT ![c] = IF FixedIp[c] = NoIp THEN r.ip ELSE FixedIp[c]]
  /\ port' = [port EXCEPT ![c] = r.port]
  /\ told' = [told EXCEPT ![c] = Named("cluster", r)]
  /\ DropContext(c)

\* Faulty variant: only a closed connection is retried.
ConnectAgainEofOnly(r) ==
  \/ r.kind = "CLUSTERDOWN"
  \/ r.kind = "NULL" /\ r.err = "EOF"

\* CLUSTERDOWN (after a sleep), or the connection was closed or reset.
ConnectAgain(r) ==
  \/ r.kind = "CLUSTERDOWN"
  \/ r.kind = "NULL" /\ r.err \in {"EOF", "IO"}

Retry(c, r) ==
  /\ CanReceive(c, r)
  /\ ConnectAgain(r)
  /\ DropContext(c)
  /\ UNCHANGED <<ip, port, told>>

\* std::stoi throws out of the thread: std::terminate.
ThrowBadPort(c, r) ==
  /\ CanReceive(c, r)
  /\ r.kind = "BADPORT"
  /\ alive' = FALSE
  /\ UNCHANGED <<pc, op, ctx, ip, port, peer, told, live, fails, answer, result>>

\* Any other reply ends the loop; exec does not look at it.
Final(r) == r.kind \notin {"NULL", "MOVED", "BADPORT"} /\ ~ConnectAgain(r)

Finish(c, r) ==
  /\ CanReceive(c, r)
  /\ Final(r)
  /\ pc' = [pc EXCEPT ![c] = "idle"]
  /\ answer' = [answer EXCEPT ![c] = r.kind]
  /\ result' = [result EXCEPT ![c] = Returns(op[c], r)]
  /\ UNCHANGED <<alive, op, ctx, ip, port, peer, told, live, fails>>

\* No reply and an error reconnectif does not know: exec frees NULL and
\* returns true, the context keeps its error.
GiveUp(c, r) ==
  /\ CanReceive(c, r)
  /\ r.kind = "NULL" /\ ~ConnectAgain(r)
  /\ op[c] = "exec"
  /\ pc' = [pc EXCEPT ![c] = "idle"]
  /\ ctx' = [ctx EXCEPT ![c] = r.err]
  /\ answer' = [answer EXCEPT ![c] = "NULL"]
  /\ result' = [result EXCEPT ![c] = "true"]
  /\ UNCHANGED <<alive, op, ip, port, peer, told, live, fails>>

\* Every other operation reads re->type through the NULL reply.
DerefNull(c, r) ==
  /\ CanReceive(c, r)
  /\ r.kind = "NULL" /\ ~ConnectAgain(r)
  /\ op[c] # "exec"
  /\ alive' = FALSE
  /\ UNCHANGED <<pc, op, ctx, ip, port, peer, told, live, fails, answer, result>>

\* Faulty variant: the result of connect() is ignored.
ReconnectOnce(c, ok) ==
  /\ alive /\ pc[c] = "connect"
  /\ ~ok => fails[c] < MaxFailedConnects
  /\ Connect(c, ok)
  /\ pc' = [pc EXCEPT ![c] = "send"]
  /\ fails' = [fails EXCEPT ![c] = IF ok THEN @ ELSE @ + 1]
  /\ UNCHANGED <<alive, op, ip, port, told, answer, result>>

\* One turn of the reconnect loop of reconnectif.
Reconnect(c, ok) ==
  /\ alive /\ pc[c] = "connect"
  /\ ~ok => fails[c] < MaxFailedConnects
  /\ Connect(c, ok)
  /\ pc' = [pc EXCEPT ![c] = IF ok THEN "send" ELSE "connect"]
  /\ fails' = [fails EXCEPT ![c] = IF ok THEN @ ELSE @ + 1]
  /\ UNCHANGED <<alive, op, ip, port, told, answer, result>>

Receive(c, r) ==
  \/ Redirect(c, r)
  \/ Retry(c, r)
  \/ ThrowBadPort(c, r)
  \/ Finish(c, r)
  \/ GiveUp(c, r)
  \/ DerefNull(c, r)

\* Another thread, or a signal, ends the process.
Killed ==
  /\ alive
  /\ alive' = FALSE
  /\ UNCHANGED <<pc, op, ctx, ip, port, peer, told, live, fails, answer, result>>

CallerNext ==
  \/ Killed
  \/ \E c \in Callers :
       \/ \E a \in Addr : Construct(c, a)
       \/ \E ok \in BOOLEAN : FirstConnect(c, ok) \/ Reconnect(c, ok)
       \/ ConnectNoMemory(c)
       \/ Destroy(c)
       \/ \E o \in Ops : Call(c, o)
       \/ Send(c)
       \/ \E r \in Reply : Receive(c, r)

CallerSpec == CallerInit /\ [][CallerNext]_callerVars

-----------------------------------------------------------------------------
(* Properties *)

\* Every variable holds a value of its type.
CallerTypeOK ==
  /\ alive \in BOOLEAN
  /\ pc \in [Callers -> Pcs]
  /\ op \in [Callers -> Ops]
  /\ ctx \in [Callers -> {"NULL", "OK"} \cup Errors]
  /\ ip \in [Callers -> Ips]
  /\ port \in [Callers -> Ports]
  /\ peer \in [Callers -> Addr]
  /\ told \in [Callers -> Names]
  /\ live \in [Callers -> Int]
  /\ fails \in [Callers -> 0 .. MaxFailedConnects]
  /\ answer \in [Callers -> DataKinds \cup ErrorKinds \cup {"NULL"}]
  /\ result \in [Callers -> Results]

\* A command only ever runs on a context that exists, and it starts on one
\* that is connected or that holds an error reconnectif gave up on: however
\* many redirects, resets and failed connects went before, the loop never
\* sends through a NULL context or one whose connect failed
\* (reconnectif, connect, exec).
SendsOnUsableContext ==
  \A c \in Callers :
    pc[c] \in {"idle", "send", "recv"} =>
      ctx[c] \in {"OK", "OTHER", "PROTOCOL", "OOM"}

\* Of the contexts a caller allocated it still holds the one ctx_ points to,
\* and exactly one more for every failed connect of the reconnect loop, which
\* connect() overwrites without redisFree; nothing is freed twice.
LeaksOnlyFailedReconnects ==
  alive =>
    \A c \in Callers :
      live[c] = fails[c] + (IF ctx[c] = "NULL" \/ pc[c] = "connect" THEN 0 ELSE 1)

\* The address a caller has to ask: the one named last, whose ip fixed_ip_
\* overrides when the cluster named it.
Due(c) ==
  [ip   |-> IF told[c].by = "cluster" /\ FixedIp[c] # NoIp
            THEN FixedIp[c] ELSE told[c].ip,
   port |-> told[c].port]

\* A command goes to the node the constructor or the last MOVED named, at
\* fixed_ip_ in the second case if there is one, and to no node the caller
\* left: however many redirects, resets, CLUSTERDOWN replies and failed
\* connects came between the naming and the command (reconnectif, connect).
AsksNodeItWasSentTo ==
  \A c \in Callers : pc[c] \in {"idle", "send", "recv"} => peer[c] = Due(c)
=============================================================================
