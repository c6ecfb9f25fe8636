------------------------------ MODULE PerfSync ------------------------------
(***************************************************************************)
(* The whole program of src/main.cpp: main() initialises N perf_redis_n    *)
(* objects one after another, starts a thread for each, joins them and     *)
(* drops them.  Thread t writes the fields 0 .. Count-1 of its own hash    *)
(* with hsetex through its own RedisCaller.  The redis cluster is external *)
(* and modelled from the replies the caller's code distinguishes.          *)
(***************************************************************************)
EXTENDS RedisCaller

CONSTANTS
  N,          \* threads
  Count,      \* fields each thread writes
  Hold,       \* lifetime of a field: the 5 minutes of run()
  Seed,       \* redis.ip and redis.port of the configuration
  MaxFaults,  \* bound: faults the cluster and the network may show
  MaxNow      \* bound: ticks of the clock

ASSUME PerfAssumption ==
  /\ N \in Nat /\ Callers = 0 .. (N - 1)
  /\ Count \in Nat
  /\ Hold \in Nat \ {0}
  /\ Seed \in Addr
  /\ MaxFaults \in Nat /\ MaxNow \in Nat

VARIABLES
  mainPc,   \* phase of main()
  mi,       \* loop index of main() in that phase
  th,       \* each thread: unborn, running, done
  idx,      \* i of run()
  ms,       \* the expiry run() computed for the current field
  now,      \* the clock gtm() reads
  req,      \* the caller's request: none, sent, answered
  reply,    \* the answer on its way, when req is answered
  link,     \* the connection of the caller's context still works
  late,     \* requests of connections that were cut, not yet executed
  status,   \* each node: ok, clusterdown, loading, dead
  owner,    \* the node that serves each thread's key
  store,    \* expiry each field is stored with; 0 when absent
  faults,   \* faults so far
  refused   \* history: fields the cluster refused, or cannot be asked for

driverVars == <<mainPc, mi, th, idx, ms>>
netVars == <<req, reply, link, late>>
clusterVars == <<now, status, owner, store, faults, refused>>
vars == <<callerVars, driverVars, netVars, clusterVars>>

Field == 0 .. (Count - 1)
Request == [t : Callers, i : Field, ms : Nat, node : Addr]
Statuses == {"ok", "clusterdown", "loading", "dead"}

\* Faulty variant: the expiry is computed inside the loop.
CurrentRequestRefreshed(t) ==
  [t |-> t, i |-> idx[t], ms |-> now + Hold, node |-> At(t)]

\* The arguments of the hsetex in flight: key and field by thread and index,
\* the expiry as run() computed it before the call.
CurrentRequest(t) == [t |-> t, i |-> idx[t], ms |-> ms[t], node |-> At(t)]

Init ==
  /\ CallerInit
  /\ ip = [t \in Callers |-> Seed.ip] /\ port = [t \in Callers |-> Seed.port]
  /\ mainPc = "init" /\ mi = 0
  /\ th = [t \in Callers |-> "unborn"]
  /\ idx = [t \in Callers |-> 0]
  /\ ms = [t \in Callers |-> 0]
  /\ now = 0
  /\ req = [t \in Callers |-> "none"]
  /\ reply = [t \in Callers |-> Plain("STATUS")]
  /\ link = [t \in Callers |-> FALSE]
  /\ late = {}
  /\ status = [a \in Addr |-> "ok"]
  /\ owner \in [Callers -> Addr]
  /\ store = [t \in Callers |-> [i \in Field |-> 0]]
  /\ faults = 0
  /\ refused = [t \in Callers |-> {}]

-----------------------------------------------------------------------------
(* main() *)

\* A connect succeeds exactly when the node it names accepts connections.
Reachable(a) == status[a] # "dead"

\* perf_redis_n::init: new yrep_redis_caller_n(redis.ip, redis.port).
MainConstruct ==
  /\ mainPc = "init" /\ mi < N
  /\ Construct(mi, Seed)
  /\ UNCHANGED <<driverVars, netVars, clusterVars>>

\* perf_redis_n::init: connect(); main() goes on when it succeeds.
MainConnect ==
  /\ mainPc = "init" /\ mi < N
  /\ FirstConnect(mi, Reachable(At(mi)))
  /\ link' = [link EXCEPT ![mi] = Reachable(At(mi))]
  /\ mi' = IF Reachable(At(mi)) THEN mi + 1 ELSE mi
  /\ UNCHANGED <<mainPc, th, idx, ms, req, reply, late, clusterVars>>

\* ... and when it fails: caller_ is reset, init returns false, and main()
\* keeps the object all the same.
MainReset ==
  /\ mainPc = "init" /\ mi < N
  /\ pc[mi] = "failed"
  /\ Destroy(mi)
  /\ mi' = mi + 1
  /\ UNCHANGED <<mainPc, th, idx, ms, netVars, clusterVars>>

MainSpawn ==
  /\ alive /\ mainPc = "spawn" /\ mi < N
  /\ th' = [th EXCEPT ![mi] = "running"]
  /\ mi' = mi + 1
  /\ UNCHANGED <<callerVars, mainPc, idx, ms, netVars, clusterVars>>

\* Faulty variant: the thread is not waited for.
MainJoinNoWait ==
  /\ alive /\ mainPc = "join" /\ mi < N
  /\ mi' = mi + 1
  /\ UNCHANGED <<callerVars, mainPc, th, idx, ms, netVars, clusterVars>>

MainJoin ==
  /\ alive /\ mainPc = "join" /\ mi < N
  /\ th[mi] = "done"
  /\ mi' = mi + 1
  /\ UNCHANGED <<callerVars, mainPc, th, idx, ms, netVars, clusterVars>>

\* At the end of main() the vector drops every object and its caller.
MainDrop ==
  /\ mainPc = "finish" /\ mi < N
  /\ IF pc[mi] = "none" THEN alive /\ UNCHANGED callerVars ELSE Destroy(mi)
  /\ mi' = mi + 1
  /\ UNCHANGED <<mainPc, th, idx, ms, netVars, clusterVars>>

Phases == <<"init", "spawn", "join", "finish", "exit">>

\* Faulty variant: a phase starts before the loop before it is over.
MainPhaseEarly ==
  /\ alive
  /\ \E k \in 1 .. 4 : mainPc = Phases[k] /\ mainPc' = Phases[k + 1]
  /\ mi' = 0
  /\ UNCHANGED <<callerVars, th, idx, ms, netVars, clusterVars>>

MainPhase ==
  /\ alive /\ mi = N
  /\ \E k \in 1 .. 4 : mainPc = Phases[k] /\ mainPc' = Phases[k + 1]
  /\ mi' = 0
  /\ UNCHANGED <<callerVars, th, idx, ms, netVars, clusterVars>>

-----------------------------------------------------------------------------
(* perf_redis_n::run *)

\* Faulty variant: one round too many.
WorkingInclusive(t) == th[t] = "running" /\ idx[t] <= Count

Working(t) == th[t] = "running" /\ idx[t] < Count

\* caller_-> on a caller_ that init() reset: the assertion of shared_ptr aborts.
ThreadDeref(t) ==
  /\ Working(t)
  /\ pc[t] = "none"
  /\ Killed
  /\ UNCHANGED <<driverVars, netVars, clusterVars>>

\* The arguments, the expiry among them, are fixed before exec is entered.
ThreadCall(t) ==
  /\ Working(t)
  /\ Call(t, "exec")
  /\ ms' = [ms EXCEPT ![t] = now + Hold]
  /\ UNCHANGED <<mainPc, mi, th, idx, netVars, clusterVars>>

\* A context that holds an error answers NULL, and nothing leaves.
ThreadSend(t) ==
  /\ Send(t)
  /\ req' = [req EXCEPT ![t] = IF ctx[t] = "OK" THEN "sent" ELSE "answered"]
  /\ reply' = [reply EXCEPT ![t] = IF ctx[t] = "OK" THEN @ ELSE NullReply(ctx[t])]
  /\ UNCHANGED <<driverVars, link, late, clusterVars>>

\* Faulty variant: the loop ends after a reconnect instead of sending again.
ThreadRetryNoResend(t) ==
  /\ req[t] = "answered"
  /\ Redirect(t, reply[t]) \/ Retry(t, reply[t])
  /\ req' = [req EXCEPT ![t] = "none"]
  /\ link' = [link EXCEPT ![t] = FALSE]
  /\ idx' = [idx EXCEPT ![t] = @ + 1]
  /\ UNCHANGED <<mainPc, mi, th, ms, reply, late, clusterVars>>

\* reconnectif returned true after closing the connection.
ThreadRetry(t) ==
  /\ req[t] = "answered"
  /\ Redirect(t, reply[t]) \/ Retry(t, reply[t])
  /\ req' = [req EXCEPT ![t] = "none"]
  /\ link' = [link EXCEPT ![t] = FALSE]
  /\ UNCHANGED <<driverVars, reply, late, clusterVars>>

\* exec returned: the next round of the loop of run().
ThreadReturn(t) ==
  /\ req[t] = "answered"
  /\ Finish(t, reply[t]) \/ GiveUp(t, reply[t])
  /\ req' = [req EXCEPT ![t] = "none"]
  /\ idx' = [idx EXCEPT ![t] = @ + 1]
  /\ UNCHANGED <<mainPc, mi, th, ms, reply, link, late, clusterVars>>

ThreadReconnect(t) ==
  /\ Reconnect(t, Reachable(At(t)))
  /\ link' = [link EXCEPT ![t] = Reachable(At(t))]
  /\ UNCHANGED <<driverVars, req, reply, late, clusterVars>>

ThreadEnd(t) ==
  /\ alive
  /\ th[t] = "running" /\ idx[t] = Count
  /\ th' = [th EXCEPT ![t] = "done"]
  /\ UNCHANGED <<callerVars, mainPc, mi, idx, ms, netVars, clusterVars>>

-----------------------------------------------------------------------------
(* The cluster and the network (external) *)

Executes(r) == store' = [store EXCEPT ![r.t][r.i] = r.ms]

Answer(t, r) ==
  /\ req' = [req EXCEPT ![t] = "answered"]
  /\ reply' = [reply EXCEPT ![t] = r]

\* A node reads the request of t and answers it.
Arrived(t) == alive /\ req[t] = "sent" /\ link[t]

Execute(t) ==
  /\ Arrived(t)
  /\ status[At(t)] = "ok" /\ owner[t] = At(t)
  /\ Executes(CurrentRequest(t))
  /\ Answer(t, Plain("INTEGER"))
  /\ UNCHANGED <<callerVars, driverVars, link, late, now, status, owner, faults, refused>>

Deflect(t) ==
  /\ Arrived(t)
  /\ \/ status[At(t)] = "ok" /\ owner[t] # At(t) /\ Answer(t, MovedTo(owner[t]))
     \/ status[At(t)] = "clusterdown" /\ Answer(t, Plain("CLUSTERDOWN"))
  /\ UNCHANGED <<callerVars, driverVars, link, late, clusterVars>>

\* A node that is loading its data set answers with an error of its own.
Reject(t) ==
  /\ Arrived(t)
  /\ status[At(t)] = "loading"
  /\ Answer(t, Plain("ERROR"))
  /\ refused' = [refused EXCEPT ![t] = @ \cup {idx[t]}]
  /\ UNCHANGED <<callerVars, driverVars, link, late, now, status, owner, store, faults>>

\* hiredis may report the loss of a connection as a reset or a close.  It need
\* not: connect() sets a timeout for connecting only, so that redisCommand waits
\* without end when the loss is silent.
Broken(t) ==
  /\ alive /\ req[t] = "sent" /\ ~link[t]
  /\ \E e \in {"IO", "EOF"} : Answer(t, NullReply(e))
  /\ UNCHANGED <<callerVars, driverVars, link, late, clusterVars>>

Fault == alive /\ faults < MaxFaults /\ faults' = faults + 1

\* While keys of a slot move to another node, the old one sends the asker of a
\* key that has left there for this one command.
AskElsewhere(t) ==
  /\ Fault
  /\ Arrived(t)
  /\ status[At(t)] = "ok" /\ owner[t] = At(t)
  /\ Answer(t, Plain("ASK"))
  /\ refused' = [refused EXCEPT ![t] = @ \cup {idx[t]}]
  /\ UNCHANGED <<callerVars, driverVars, link, late, now, status, owner, store>>

\* The network loses a connection, and with it a reply that was on its way; a
\* request that was not read yet may still be read by the node later.
Cut(t) ==
  /\ Fault
  /\ req[t] # "none" /\ link[t]
  /\ req' = [req EXCEPT ![t] = "sent"]
  /\ link' = [link EXCEPT ![t] = FALSE]
  /\ late' = IF req[t] = "sent" THEN late \cup {CurrentRequest(t)} ELSE late
  /\ UNCHANGED <<callerVars, driverVars, reply, now, status, owner, store, refused>>

\* The reply cannot be parsed: an error of the context other than IO and EOF.
Garble(t) ==
  /\ Fault
  /\ req[t] = "answered" /\ link[t]
  /\ Answer(t, NullReply("PROTOCOL"))
  /\ link' = [link EXCEPT ![t] = FALSE]
  /\ refused' = [refused EXCEPT ![t] = @ \cup {i \in Field : i >= idx[t]}]
  /\ UNCHANGED <<callerVars, driverVars, late, now, status, owner, store>>

ExecuteLate(r) ==
  /\ alive
  /\ status[r.node] = "ok" /\ owner[r.t] = r.node
  /\ Executes(r)
  /\ late' = late \ {r}
  /\ UNCHANGED <<callerVars, driverVars, req, reply, link, now, status, owner, faults, refused>>

Crash(a) ==
  /\ Fault
  /\ status[a] # "dead"
  /\ status' = [status EXCEPT ![a] = "dead"]
  /\ link' = [t \in Callers |-> link[t] /\ At(t) # a]
  /\ late' = {r \in late : r.node # a}
  /\ UNCHANGED <<callerVars, driverVars, req, reply, now, owner, store, refused>>

ClusterFails(a) ==
  /\ Fault
  /\ status[a] = "ok"
  /\ status' = [status EXCEPT ![a] = "clusterdown"]
  /\ UNCHANGED <<callerVars, driverVars, netVars, now, owner, store, refused>>

\* Resharding, or a failover to a replica that has every field.
Migrate(t, a) ==
  /\ Fault
  /\ owner[t] # a
  /\ owner' = [owner EXCEPT ![t] = a]
  /\ UNCHANGED <<callerVars, driverVars, netVars, now, status, store, refused>>

\* A dead node restarts and loads; a loading or failed one becomes ready.
Recover(a) ==
  /\ alive
  /\ status[a] # "ok"
  /\ status' = [status EXCEPT ![a] = IF @ = "dead" THEN "loading" ELSE "ok"]
  /\ UNCHANGED <<callerVars, driverVars, netVars, now, owner, store, faults, refused>>

Tick ==
  /\ alive /\ now < MaxNow
  /\ now' = now + 1
  /\ UNCHANGED <<callerVars, driverVars, netVars, status, owner, store, faults, refused>>

-----------------------------------------------------------------------------
Main ==
  \/ MainConstruct \/ MainConnect \/ MainReset
  \/ MainSpawn \/ MainJoin \/ MainDrop
  \/ MainPhase

Thread(t) ==
  \/ ThreadDeref(t) \/ ThreadCall(t) \/ ThreadSend(t)
  \/ ThreadRetry(t) \/ ThreadReturn(t) \/ ThreadReconnect(t)
  \/ ThreadEnd(t)

\* A node answers a request that reached it.
Node(t) == Execute(t) \/ Deflect(t) \/ Reject(t)

Environment ==
  \/ \E t \in Callers :
       \/ Broken(t) \/ AskElsewhere(t) \/ Cut(t) \/ Garble(t)
       \/ \E a \in Addr : Migrate(t, a)
  \/ \E a \in Addr : Crash(a) \/ ClusterFails(a) \/ Recover(a)
  \/ \E r \in late : ExecuteLate(r)
  \/ Tick

\* The process returned from main() or was terminated.
Over == mainPc = "exit" \/ ~alive

Stopped == Over /\ UNCHANGED vars

Next ==
  \/ Main
  \/ \E t \in Callers : Thread(t) \/ Node(t)
  \/ Environment
  \/ Stopped

Spec == Init /\ [][Next]_vars

\* Threads are scheduled, and nodes answer what reaches them.  Nothing else has
\* to happen: faults may stop, nodes need not recover, and the loss of a
\* connection need not be noticed.
Fairness ==
  /\ WF_vars(Main)
  /\ \A t \in Callers : WF_vars(Thread(t)) /\ WF_vars(Node(t))

FairSpec == Spec /\ Fairness

-----------------------------------------------------------------------------
(* Properties *)

\* Every variable holds a value of its type.
PerfTypeOK ==
  /\ CallerTypeOK
  /\ mainPc \in {"init", "spawn", "join", "finish", "exit"}
  /\ mi \in 0 .. N
  /\ th \in [Callers -> {"unborn", "running", "done"}]
  /\ idx \in [Callers -> 0 .. Count]
  /\ ms \in [Callers -> Nat]
  /\ now \in 0 .. MaxNow
  /\ req \in [Callers -> {"none", "sent", "answered"}]
  /\ reply \in [Callers -> Reply]
  /\ link \in [Callers -> BOOLEAN]
  /\ late \subseteq Request
  /\ status \in [Addr -> Statuses]
  /\ owner \in [Callers -> Addr]
  /\ store \in [Callers -> [Field -> Nat]]
  /\ faults \in 0 .. MaxFaults
  /\ refused \in [Callers -> SUBSET Field]

\* A field that run() has left behind was executed by the node that served its
\* key, unless the cluster answered with an error (LOADING, or ASK during a
\* resharding) or the connection was garbled: MOVED, CLUSTERDOWN, resets and
\* crashes, at any point of a call, do not make exec return without it (exec,
\* reconnectif).  What a node acknowledged and lost before its replica had it
\* is not the driver's and not modelled.
ReturnedIsWritten ==
  \A t \in Callers : \A i \in Field :
    i < idx[t] => store[t][i] # 0 \/ i \in refused[t]

\* A stored field keeps its expiry: neither a retried hsetex nor one the
\* cluster executes late, after its caller has moved on, changes what an
\* earlier execution stored, because run() computes the expiry once per field.
KeepsExpiries ==
  \A t \in Callers : \A i \in Field :
    store[t][i] # 0 => store'[t][i] = store[t][i]

ExpiryNeverRewritten == [][KeepsExpiries]_vars

\* No field is in the cluster, or on its way, before run() has reached it:
\* the fields of a hash appear in the order of the loop.
NothingAhead ==
  /\ \A t \in Callers : \A i \in Field : i > idx[t] => store[t][i] = 0
  /\ \A r \in late : r.i <= idx[r.t]

\* main() logs "finish" only after every thread has handed over all its
\* fields, and no call is in flight then.
FinishMeansAllReturned ==
  mainPc \in {"finish", "exit"} =>
    \A t \in Callers : th[t] = "done" /\ idx[t] = Count /\ req[t] = "none"

\* The process is terminated only through a thread whose init() failed, and
\* without a fault no init() fails.
AbortNeedsFault ==
  ~alive => faults > 0 /\ \E t \in Callers : th[t] = "running" /\ pc[t] = "none"

\* A thread tries to reach its node, which is away, or waits for an answer on a
\* connection that is gone.
WaitsFor(t) ==
  /\ th[t] = "running" /\ pc[t] # "none"
  /\ \/ status[At(t)] \in {"dead", "clusterdown"}
     \/ req[t] = "sent" /\ ~link[t]

\* What can keep the program from ending: a thread that waits for ever for the
\* one node it was sent to last, because the node stays away although others
\* may serve its key by then, or because the connection was lost silently and
\* redisCommand has no timeout.  Nothing else, no other thread and no order of
\* redirects, resets and recoveries, holds it up (reconnectif, connect, main's
\* join).
StuckOnOneNode == <>Over \/ \E t \in Callers : <>[]WaitsFor(t)

\* The driver keeps the promise of HashWrites.
Writes == INSTANCE HashWrites WITH
  Writers <- Callers,
  done <- idx,
  written <- {w \in Callers \X Field : store[w[1]][w[2]] # 0},
  refused <- {w \in Callers \X Field : w[2] \in refused[w[1]]}

KeepsWritePromise == Writes!Spec

\* main.cpp: a failed init() logs that it "passes" the object; the process
\* would have to survive it.
FailedInitIsPassed == alive
=============================================================================
