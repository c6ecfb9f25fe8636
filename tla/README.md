# Verification of the redis-cluster / postgres performance driver

The repository holds a small multi-threaded C++ program that loads a redis
cluster through a redirect-following client (`src/main.cpp`,
`src/yrep_redis_caller.h`), and a postgres client that goes with it
(`src/ypg.h`). The program is short, but its core is a retry loop around a
connection, run by several threads against servers that fail, and that is hard
to test: the hazards are a reply lost after the write took effect, a redirect
that is stale when it is followed, a reconnect that fails half way, a statement
executed twice.

This directory holds TLA+ models of those parts, the TLC configurations that
check them on small instances, and TLAPS proofs for every instance. In this
text and in the module comments `src/...` is the path inside the repository.

## Inventory of the system

| component | code | state | operations |
|---|---|---|---|
| redis caller | `src/yrep_redis_caller.h` | `fixed_ip_`, `ip_`, `port_`, `ctx_` (a hiredis context, an error inside it) | constructor, destructor, `connect`, `reconnectif`, `redis_command(_binary)`; `exec`, `exec_binary`, `get`, `hgetex`, `hget`, `exists`, `mix`, `callvct` |
| perf driver | `src/main.cpp` | one `perf_redis_n` (a shared pointer `caller_`, a key `tag_`) per thread, the list of objects and of threads | `perf_redis_n::init`, `::run`; the four loops of `main()`; `pg_test_n` and `pg_test` are not reached from `main()` |
| postgres client | `src/ypg.h` | `conn_`, `conn_ok_`; the singleton table of known SQLSTATEs (`pg_error_mgr`) | `connect`, `exe_core`, `exec`, `query`; `new_lo`, `read_lo`, `rm_lo`, `ydec_read` |
| configuration | `src/ini_config.h` | a map name -> value, a singleton | `instance`, `init`, `get_str`, `get_int`, `get_double` |
| helpers | `src/base.h` | none | `str_find`, `sub_str`, `split_str`, `replace_all`, `trim`, `gtm`, `get_exe_path`, records with `to_string` |
| vct messages | `dep/vctn.proto`, `src/vctn.pb.*` (generated) | per object: fields, has bits, unknown fields, a cached size | accessors, `Clear`, `MergeFrom`, copying, moving, `Swap`, `ByteSizeLong`, serialising, parsing, `IsInitialized` |
| deployment | `family_deploy/*.sh`, `make.sh` | files, processes | build, configure, start a cluster |
| notes | `nysync.md`, `nyrep.md`, `exphash.md`, `bug.md`, `imgs/` | - | describe the sync system under load, whose code is elsewhere |

How they interact:

* `main()` reads the configuration once, builds one driver object per thread
  (`init` constructs a caller and connects it), starts the threads, joins them.
* A thread calls `exec` of its own caller only. Callers share nothing; threads
  share the process: an exception or an abort in one ends all of them.
* A caller talks to one cluster node at a time; the replies `MOVED` and
  `CLUSTERDOWN` and the context errors 1 (IO) and 3 (EOF) make it close the
  connection, connect again (for ever) and send the command again. Every other
  reply ends the operation, `ASK` and a `MOVED` whose host has no colon among them.
* `ypg_n` sends one statement at a time, looks at the result and at the state of
  the connection, reconnects at most three times, and sends the statement again.
  Its clients consume a statement again until `exec` reports it done, so a
  "duplicate" error counts as done.

What is hard: every step of the cluster, the network and the database can fall
between two steps of a loop. What makes each component correct:

* redis caller: a command never runs on a missing or failed context; contexts
  are freed exactly once, and the leak of the reconnect loop is exactly one
  context per failed connect; a command goes to the node that was named last, at
  the fixed ip if a `MOVED` named it and there is one.
* driver: when `exec` returns, the field was executed by the cluster or refused by
  it; fields appear in the order of the loop; a retry never changes an
  expiry; `main` finishes only when every thread did everything; every loop ends
  when the cluster comes back, as long as lost connections are noticed.
* postgres client: "done" means it is in the database; a keyed statement takes
  effect once, any other once per client unless a connection was lost; after `exec`
  and `query`, `conn_ok_` tells a refused statement from a lost database; results are cleared and rows
  reach the caller whole; a call returns even when the database does not; no half
  large object is committed and no part of one is taken for the whole; the table
  of error codes is never looked into before it is complete.
* configuration: the first complete definition of a name counts; a number is the
  one that stands there, or 0.
* vct messages: what an object says it has is what it stores; written and read
  again it is the same object, with the sizes it announced and with the fields
  this build does not know; a message that lacks a required field is not accepted.

## Modules

| module | models | composed with |
|---|---|---|
| `RedisCaller` | `yrep_redis_caller_n`, any number of objects, the server left open: any reply may come back | - |
| `HashWrites` | abstract specification: what a driver thread promises about its writes | - |
| `PerfSync` | `main()`, `perf_redis_n`, a redis cluster with crashes, slots that move, cuts | extends `RedisCaller`, implements `HashWrites` |
| `CallVct` | what `callvct` makes of the array it receives, and the vct messages | follows the loop of `RedisCaller` |
| `Marshal` | the arguments of an operation on their way through libffi to hiredis | in front of the loop of `RedisCaller` |
| `StrAlgo`, `IniConfig` | `split_str`, `trim`; the configuration parser and `get_int` on top of them | `IniConfig` extends `StrAlgo` |
| `StrLoops` | `str_find`, `replace_all` | - |
| `Ypg` | `ypg_n`, its consumers, a database that fails | implements `Consumption` |
| `Consumption` | abstract specification: what `exec` promises its consumers | - |
| `PgResults` | what `exec` and `query` make of a `PGresult` | behind `exe_core` of `Ypg` |
| `PgErrorMgr` | `pg_error_mgr`: the shared table of error codes under concurrent first calls | the source of `Ypg`'s replies "done before" |
| `YpgLo` | large objects: `new_lo`, `read_lo`, `rm_lo`, transactions | - |
| `VctWire`, `VctMessages` | wire forms and accessors; the six message classes of `vctn.pb.*` | `VctMessages` extends `VctWire` |
| `VctClasses` | what the classes promise: their messages in memory, the tokens two builds exchange, which fields are required on the wire | extends `VctMessages` |
| `VctObjects` | a program that holds messages of one class and calls its functions in any order | extends `VctClasses` |
| `PerfSyncProofs`, `YpgProofs` | theorems of the module named (those of `RedisCaller` are in the first) | extend it |
| `VctClassProofs`, `VctProofs` | lemmas about the six classes; theorems of `VctObjects` | `VctProofs` extends `VctClassProofs`, which extends `VctObjects` |
| `CallVctProofs`, `PgClientProofs`, `HelpersProofs` | theorems of the modules a run joins: `CallVct`, `Marshal`; `YpgLo`, `PgResults`, `PgErrorMgr`; `StrAlgo`, `IniConfig`, `StrLoops` | extend `MCCallVct`, `MCPgClient`, `MCHelpers` |
| `SeqLemmas` | lemmas about sequences that have nothing to do with this code | extended by the proofs |
| `MC...` | values of the constants for TLC | extend the module they instantiate |

### RedisCaller

One record of state per caller object `c`: `ctx[c]` is `ctx_`, seen through
what hiredis stores in it (`NULL`, `OK`, or the error it holds), `ip[c]` and
`port[c]` are `ip_` and `port_`, and `pc[c]` is the place in the code:

| `pc` | code |
|---|---|
| `none`, `new`, `failed` | no object; constructed; first `connect` failed |
| `idle` | between operations |
| `send`, `recv` | in `redis_command`, before the request leaves and after |
| `connect` | in the `while(1)` at the end of `reconnectif` |

`Redirect`, `Retry`, `ThrowBadPort`, `Finish`, `GiveUp` and `DerefNull` are the
ways through `reconnectif` and what the operation does with its result. `Redirect`
and `Retry` share `DropContext`, the tail that frees the reply and the context.
Two outcomes end the process: the port of a `MOVED` that `std::stoi` cannot
read, and `re->type` of a NULL reply in every operation but `exec`. The module
keeps what is undefined or fatal in the code as such: `connect` with no memory
left reads `ctx_->err` through NULL, because `<<` binds tighter than the `?:` of
the log line.

An error reply that `reconnectif` does not act on has a kind of its own
(`ErrorKinds`): `ASK`, which redirects one command while a slot is being moved,
`HOSTLESS`, a `MOVED` whose host has no colon, and `ERROR` for the rest. All of them
end the operation, and `exec` returns true.

`live` and `fails` count contexts allocated and not freed, and failed turns of
the reconnect loop; they are history, read by no guard except for the bound
`MaxFailedConnects`. `peer[c]` is the address the context of `ctx_` was made with,
and `told[c]` the address that was named last and by whom, the constructor or the
cluster. `AsksNodeItWasSentTo` compares the two whenever a command may run: `Due` is
what `told` comes to under `fixed_ip_`.

### PerfSync

`PerfSync` puts the callers into the program. `mainPc` and `mi` are the loop of
`main` and its index (init, spawn, join, finish, exit); `th[t]`, `idx[t]` and
`ms[t]` are a thread, the `i` of `run` and the expiry computed for it before
`exec` is called. Its actions take a caller action as a conjunct (`ThreadCall` is
`Call`, `ThreadRetry` is `Redirect` or `Retry`, and so on), so the caller's code
is stated once.

The cluster is external, modelled from the replies the code reads. Each node is
`ok`, `clusterdown`, `loading` or `dead`; `owner[t]` is the node that serves the
key of thread `t`; `store[t][i]` is the expiry field `i` is stored with. A
request that reaches a node (`Node`) is executed, deflected (`MOVED`, `CLUSTERDOWN`)
or rejected (an error of its own, such as `LOADING`); while its slot is being moved
it may be sent elsewhere with `ASK` (`AskElsewhere`). The connection may be lost
(`Cut`), with the request or the reply on its way. That is silent: hiredis may notice
and report IO or EOF (`Broken`), and need not. A request of a cut
connection stays in `late` and may be executed whenever its node gets to it,
also after the caller has moved on. A crash takes the late requests of the node
along; the stored fields survive it, as with the append-only file the deployment
turns on (`family_deploy/r.sh:232`). `store` is what has been executed by the node
that serves the key. The replicas the deployment sets up (`family_deploy/r.sh:258`)
follow asynchronously, so a failover can lose what was executed and acknowledged;
nothing the driver does could prevent that, and it is not modelled: `Migrate` moves
a key together with its fields.

### HashWrites

What remains when connections, retries and the cluster are forgotten: writer `w`
hands over its fields in order, moves on only from a field that is written or
refused, and a field may be written again or late but never ahead of its turn.
The refinement mapping in `PerfSync` is `done <- idx`, `written <-` the pairs
with a stored expiry, `refused <-` the history of rejected and poisoned fields.

### CallVct

The two loops of `callvct`, from the reply that ended `RedisCaller`'s loop on.
`i` and `n` are the indexes of the code, `vctv` is the message being filled,
`vctvs` the vector of the caller, which is all the caller learns: the function
returns nothing. A message is a record with a field for each field of
`dep/vctn.proto`, `Unset` where nothing was set; `set_commit_` turns a number
into a bool. `Refuse`, `Stop` and `Finish` are the ways out, which all free the
reply (`frees` is history).

### StrAlgo and IniConfig

Strings are sequences of characters, positions count from 0, and the unsigned
`npos` an `int` position becomes is -1. `split_str` is the code's own algorithm,
with its three parts (the piece in front, the loop, the check behind it), not an
idealised splitting; `IniConfig` reads a file (which can be missing or come back
short), splits it and parses one line per step. The text of a file ends at its
first NUL byte, so NUL is not a character here. `get_int` is there because
`main` takes its port from it: `std::stoi` (external) reads the digits a value
begins with, and what it throws becomes 0. `instance()` is the initial state:
`main` makes every call of it, before any thread exists, so the missing lock
(`src/ini_config.h:13`) cannot be met in this program and no property is about it.

### StrLoops

`str_find` and `replace_all` change a position, and `replace_all` the string
itself, round by round; one round is one step. `TooShort` is the code's own
count, which leaves out the last place. `Matches` and `Occurrences` stand for the
inner comparison and `std::string::find`.

### Marshal

The vectors the operations build are followed to the server: `format` and `ars`
grow in the loop of the operation (`Build`), `slots` in the loop of
`redis_command` or `redis_command_binary` (`LayOut`), and hiredis takes them from
there as the directives say (`ReadDirective`, external). `Pointer` and `Size` are
values of different types, so that a reader can find the wrong one. `GroupSize`
is the server's count of words for a vct key.

### Ypg

`pc[c]` goes through `exe_core`: `exec` (about to call `PQexec`), `wait`,
`check` (looking at the result), `reconnect`. `conn[c]` is what `PQstatus`
reports, which changes only when libpq notices: `link[c]` is whether the
connection works, and `ReceiveBroken` and `Connect` are where `conn` follows.
`results` and `orphans` count `PGresult`s. A statement is keyed (it fails as a
duplicate if what it creates exists) or not (an update). Statements of lost
connections are executed late, as the requests of the cluster are.
`ClientConnect` is `connect()` called by the client, at any time between calls, as it
is public. When it fails it leaves `conn_ok_` as it was (`src/ypg.h:218-221`), so that
`conn_ok_` may stand on a broken connection until the next `exec` or `query`.
`ConnOkTellsWhy` says that this is the only way it goes wrong, and that these two
put it right.

`Down` keeps every effect. The deployment turns `synchronous_commit` and `fsync`
off (`family_deploy/r.sh:75` and `84`), so a crash of the database can lose effects that
were reported: "done" means in the database when it is reported, not across its crash.

`Promise` is the abstract specification `Consumption`, under the identity
mapping: its variables are `done` and `applied`, and everything else, the
connections, results, retries and late statements, is what it leaves out.

### PgResults

What follows `exe_core` in `exec` and `query`: the count in the command tag goes
through `std::stoi`; the columns, then the fields, are walked through by the code's
own loops. A line is a set of entries, as the map it is in the code: `Insert`
leaves a name alone that is there. A bytea comes in its escaped form.

### PgErrorMgr

`instance()` step by step: lock, test of `self_`, `reset`, the insertions of
`init()`, copy, unlock, and `is_in()` without the lock. `table[t]` is how many
insertions the table thread `t` made has seen.

### YpgLo

`pc` names the `lo_*` statement that comes next. The transaction is the caller's:
`Begin`, `Commit` and `Rollback` are `exec` calls, which reconnect when the
connection is broken, so that a commit may succeed on a connection that never saw
the transaction. `objects` is what the connection sees, `durable` what is committed;
outside of a transaction every statement is one of its own, and its descriptor
dies with it. `MaxSeek` is where the `int` of `lo_lseek` ends; the -1 of a failed
`lo_tell64` makes `new char[]` throw.

### VctWire, VctMessages, VctClasses, VctObjects

The generated code is modelled because all the messages of the sync protocol go
through it, and because its correctness hangs on things that are spread over many
functions: has bits, storage that is shared until it is written to, cached
sizes, unknown fields. A message is a record of its fields, its has bits, the
unknown fields and the cached size. `VctWire` has what all classes share: the
accessors by kind of field (`Put`, `Unset`, `Mutable`, ...), the parts of the wire
form with their sizes, and the parser's step for each kind of field. `VctMessages`
has one group of definitions per class, named as `vct_value_Clear`, in the order
of `vctn.pb.cc`; what is the same code in every class is the same operator of
`VctWire`, and field numbers, order and has bits are those of the class.

A serialised field is a token: its number, type, value, and the length written in
front of it. Bytes are counted, not spelled. The loops of the generated code (`Loop`
over the tokens of an input, `ForEach` and `WriteRepeated` over the elements of a
repeated field, `Total` over sizes) are functions of a position.

`VctClasses` is the specification the functions are measured against, not a
translation of any of them: `Sound...` says how has bits and storage of a class belong
together, `...Messages` are all messages of a class in memory, `...Tokens` all tokens
its parser can meet, `Whole...` says of the wire form alone that every field
`vctn.proto` requires is there, where the occurrences of one message field count as
one message (`Merged`).

`VctObjects` holds objects of one class, any of the three that are not only parts of
others (`vct_value`, `keytable_value`, `route_value`), and calls any function on
them in any order. `Virtual` picks the function of the class from the fields of the
message, as the virtual table does. `ValueForeign`, `KeytableForeign` and `RouteForeign`
are inputs a build with another `vctn.proto` has written: unknown numbers, known
numbers with another type, fields repeated or out of order.

## Runs

| run | configuration | question | expected |
|---|---|---|---|
| `redis_caller` | `MCRedisCaller.cfg` | contexts, leaks, and the node asked, of one caller against any replies | pass |
| `perf_fields` | `MCPerfSyncFields.cfg` | one thread, three fields, three faults: no field skipped unless refused, none reordered or rewritten; implements `HashWrites` | pass |
| `perf_threads` | `MCPerfSyncThreads.cfg` | two fair threads, two faults: what `main` may conclude, what can keep the program from ending, no deadlock | pass |
| `perf_failed_init` | `MCPerfSyncFailedInit.cfg` | a failed `init()` is "passed" | violated |
| `callvct` | `MCCallVct.cfg` | every word of an operation arrives and keys stay together, the variadic call is well formed; of every array of up to two quadruples, what reaches the caller's vector | pass |
| `callvct_required` | `MCCallVctRequired.cfg` | the messages have the fields `vctn.proto` requires | violated |
| `helpers` | `MCHelpers.cfg` | every file of up to seven characters: lines, definitions and numbers against the text; every search and replacement: first occurrence, what was given is replaced, termination | pass |
| `ypg` | `MCYpg.cfg` | two consumers, an insert and an update, two faults: done is done, repeated only after a loss, results; implements `Consumption` | pass |
| `ypg_liveness` | `MCYpgLiveness.cfg` | calls return although the database stays down; after each, `conn_ok_` tells why it failed | pass |
| `ypg_broken` | `MCYpgBroken.cfg` | a broken connection is reconnected | violated |
| `vct_objects` | `MCVctObjects.cfg` | objects of three message classes: memory, wire, sizes, merging, copying, acceptance | pass |
| `pg_client` | `MCPgClient.cfg` | large objects through failing statements; rows on their way to the caller; first errors of three threads at once | pass |

Three MC modules join components that share no state: `MCCallVct` (`Marshal` and
`CallVct`, the two ends of a call), `MCHelpers` (`IniConfig`, `StrLoops`) and
`MCPgClient` (`YpgLo`, `PgResults`, `PgErrorMgr`). Their variable `work` says which
of them a behaviour is about; the others keep one of their initial states. Nothing
is lost by not interleaving them, and nothing of one can hide behind another.
In `vct_objects` the initial state decides of which class the objects are. The type
invariants of such a run, `CallTypeOK`, `HelpersTypeOK` and `PgClientTypeOK`, are
the conjunctions of the modules' own.

Some invariants are proved and appear in no run's list, because something listed
implies them: `CallerTypeOK` (in `PerfTypeOK`), `NothingAhead` (in
`KeepsWritePromise`: `HashWrites` lets no field be written before its turn),
`DoneIsPresent` (in `KeepsConsumptionPromise`), `ReplyFreedOnce` (in `CallTypeOK`),
`ResultsCleared` (in `PgClientTypeOK`), `OneTable` (with `AnswersAreFinal`).

### Bounds, and why they are enough

* One caller in `redis_caller`: callers share no variable but `alive`, and
  `Killed` lets the rest of the process end at any point. Three ips and two ports
  make the old address, the redirected one and the fixed one distinct. Three
  failed connects: the leak grows with every one, so two would do.
* `perf_fields` has one thread because threads touch disjoint rows of every
  variable and share only the nodes' states, which the environment changes
  anyway; three fields give a field behind, the current one and one ahead;
  three faults allow a cut, the move that makes the retry go elsewhere, and
  the crash or second cut that hits the retry. Two ticks of the clock make two
  attempts of one field fall on different times.
* `perf_threads` has two threads, so that one can be joined while the other is in
  its loop, and so that one object can fail `init` and another not; one field is
  enough, as it is about the loops of `main`. Two faults: one node dies for good
  while the other, which may fail as well, could serve its keys.
* Two nodes: a redirect needs a node to leave and one to go to. They share an ip,
  as the deployment script sets them up; a third one would only be another
  place to be redirected to.
* `callvct`: two quadruples give one to be in the vector when the other breaks
  off; lengths 0, 1, 3 and 5 are the ends of "not a multiple of four". One key is
  enough because the messages are told apart by their numbers. Strings of up to two
  characters have a NUL in front, behind, twice or not at all, and may be empty;
  two arguments show what one does to the next.
* `helpers`: the shortest file that defines one name twice, differently, has
  seven characters; within seven every mixture of blanks, comments, missing names,
  missing values and empty lines occurs. With the digit 1, a sign and ints up to
  10, "11" is no int and "-11" is the smallest one. Strings of four over two
  letters have overlapping occurrences, and occurrences that a replacement makes
  up; five rounds exceed the four a terminating replacement can need, except that
  of the empty string.
* `ypg` has two calls per consumer: one that leaves something behind (a late
  statement, a broken connection, a dropped result) and one that meets it. Two
  faults allow a cut and a database that is down when the reconnect starts.
  `ypg_liveness` has one consumer and three faults, so the database can flap; its
  three calls are one that sets `conn_ok_`, a `connect` that fails and leaves it, and
  one that comes after.
* `vct_objects`: four calls build an object, give it to the other one and change
  one of the two. `vct_value` has numbers, a bool, a message and a repeated field,
  `route_value` a repeated message of strings, `keytable_value` only strings; the
  other three classes are parts of these. One non-empty string and few numbers are
  enough, since fields are told apart by their place and numbers only by the
  length of their wire form.
* `pg_client`: two objects, so that one is left over from an earlier call; an
  object may be one longer than `lo_lseek` can say; five calls make a transaction
  with an object made and read in it; two faults break a statement and its
  connection. Two columns that may have the same name, two rows, two calls on the
  same vector, a count beyond `IntMax`. Three threads, one that fills the table, one
  that waits, one that looks; two insertions, so that the table can be half full.
* `MaxFailedConnects`, `MaxFaults`, `MaxNow` and `MaxCalls` bound what the
  environment may do, never what the code may do in answer. In `perf_threads`
  the bound on failed connects makes a thread wait for its node instead of trying
  on; it cuts attempts that change only the leak counter.

`CHECK_DEADLOCK FALSE` is used in `redis_caller`, where the client may simply stop
calling, or the process be dead, and in `vct_objects`, where the
calls end with `MaxCalls`. The other modules have an explicit `Stopped` step at the
states in which the program is over, or an `...Over` step at the end of their
calls (in `PgErrorMgr` threads never stop), so any other stop is found as a
deadlock.

### Fairness

`PerfSync`: `main` and every thread are operating system threads (weak
fairness), and a node that got a request over a connection that works answers it
(weak fairness of `Node`). Nothing is assumed about nodes that are
dead or have failed: nobody has to bring them back. Nor is it assumed that the loss
of a connection is noticed (`Broken` is not fair): the code gives a timeout to
connecting only (`src/yrep_redis_caller.h:235`), and neither a command timeout nor
keepalive, so `redisCommand` can wait for ever on a connection that is gone. A caller
also remembers one address only, so a node that stays away can keep its thread in the
reconnect loop for ever, even when other nodes serve the key. `StuckOnOneNode` says that
these two are the only things that keep the program from ending: if it does not end,
some thread is held by one of them for ever. Faults are not fair, they may stop. A
node that is up and never answers is the one thing left out.

`Ypg`: the consumer's thread runs and a database that is reached answers. A lost
connection is noticed: the connection string has a timeout for connecting, and
libpq turns TCP keepalive on unless told otherwise. Nothing is assumed about a
database that is down, because `exe_core` gives up.

`StrLoops`: the loop that was entered runs on (weak fairness of its rounds).

### Findings

* `perf_failed_init`: `main` ignores the result of `init()` and starts a thread
  for an object whose `caller_` was reset. The thread dereferences the empty
  pointer and the process ends with all other threads in the middle of their
  writes, where the log line says "error, pass it" (`src/main.cpp:27`).
* `callvct_required`: `callvct` sets `key_`, `a_`, `b_` and `commit_` of a
  message and neither `pos_` nor `commit_count_`, which `dep/vctn.proto` (lines 11
  and 20) requires: no message it returns is initialized.
* `ypg_broken`: when a connection is lost under `PQexec`, the error libpq makes
  up carries no SQLSTATE, `PQresultErrorField` returns NULL, and a
  `std::string` is built from it. The exception leaves `exec()` before the
  reconnect loop is reached, whose log line says "connection is broken,
  reconnect" (`src/ypg.h:168`). `query()` takes another branch and reconnects.

Two more facts are modelled and no document contradicts them: `exec` of the
caller returns true for every error reply but `CLUSTERDOWN` and a complete `MOVED`,
and for a context error it does not
know (`ReturnedIsWritten` therefore speaks of refused fields), and the reconnect
loop leaks one context per failed turn (`LeaksOnlyFailedReconnects` states the
exact number).

## Proofs

All theorems hold for every value of the constants allowed by the named
assumptions: `CallerAssumption` (the fixed ips are ips or "none"),
`PerfAssumption` (the callers are numbered `0 .. N-1`, the seed is an
address, `Hold` is positive), `CallVctAssumption` (replies are sequences of
elements, or not arrays), `MarshalAssumption` (the bound is a number, a number that
is printed is never the string of one NUL), `YpgAssumption` (every keyed statement
has a key; there are finitely many consumers, since executions are counted),
`LoAssumption` and `OidAssumption` (buffers are no longer than what `lo_lseek` can
report, 0 is no object), `MgrAssumption`, `ResultsAssumption`, `LoopAssumption`
and `IniAssumption` (bounds are numbers, column lists are sequences of columns,
`NoTable` is no thread), `WireAssumption` (integers are integers, the pointer to the
shared empty string is no string), `ClassesAssumption` (`nullptr` is no message) and
`ObjectsAssumption` (inputs of other builds are sequences of tokens). Nothing else is
assumed; in particular not that inputs are complete, short, or written by this
build, and strings, integers, objects and the number of calls are any.

The prover cannot do induction over data, and half of the helpers are loops over a
string. Three things stand in for it. The loops are recursive functions
of their position (`Rounds`, `Left`, `LastRound`), whose equations the
prover can use; `Least` (in `SeqLemmas`) says that a number with a property
is preceded by a least one, so that a lemma "for every n" is proved by looking
at the first n for which it fails; and for the loops of the generated messages
`SeqLemmas` has this once and for all, as lemmas about runs: a value that one function
per step takes from place to place (`Runs`) exists, is the only one, ends where
`Outcome` says, and a run over two sequences is a run over the first and then one over
the second (`OutcomeConcat`). Where the code's own steps walk through the
data, an inductive invariant of the specification does the same.

**PerfSyncProofs, first part: the caller.** `CallerIInv` adds to the type invariant what the loop
relies on: the context is missing exactly in the states before the first connect,
it is broken only while reconnecting or after a failed first connect, and the leak
equation. From it: `CallerTypeCorrect`, `CallerUsesContext`, `CallerLeaks`.
`AsksNodeItWasSentTo` needs more than itself: between a redirect and the next
successful connect no command may run, but the address the caller holds has to be the
right one all the while (`AddressState`), or the connect that ends the loop would use
another. From it: `CallerAsksNodeItWasSentTo`.

**PerfSyncProofs, second part: the driver**, works in three layers, each an invariant
proved on top of the one before:

1. `ControlInv`: types, the caller's invariant, and `CallState`, how the place of
   a thread, its caller and its request fit together (a request exists only
   while the caller waits for it, the connection works only if the context
   does, and no NULL reply comes over one that works). The lemma `NextIsCallerNext` says that whatever the program does is a
   step of the caller or does not concern it, which gives
   `UsesCallerAsSpecified`: `Spec => CallerSpec`. All caller theorems thereby
   hold in the program.
2. `DataInv`: `ReturnedIsWritten` is not inductive. It needs that an `INTEGER`
   waiting to be read means the current field is stored (`ReplyMeans`), that a
   context with an unknown error makes every remaining field refused
   (`PoisonedIsLost`), and that every stored expiry, and every late request,
   of the current field carries the expiry of the call in progress, and any two
   late requests of one field the same one (`StoreAgrees`, `LateAgrees`,
   `LatesAgree`). This yields `NothingLost`, `WritesInOrder`, `ExpiryIsKept`.
3. `MainInv`: what each loop of `main` has established when the next one starts,
   and where the faults are that a failed `init` needs. This yields
   `FinishIsComplete`, `AbortIsExplained`.

`KeepsPromise` is the refinement: `PromiseInit` maps the initial states,
`PromiseStep` maps every step to a step of `HashWrites` or a stutter.

**CallVctProofs.** `CallVctInv` says what the message in the making holds after
`n` elements (`FilledSoFar`) and that the vector holds the quadruples in front of
`i`, all well formed (`VectorSoFar`). `AppendsLongestPrefix` speaks of the end
only and needs both. `InsideLoop` is where "the length is a multiple of four" is
used: a quadruple that begins in the array ends in it, so no index leaves it.

The lower half of the module is about `Marshal`. `MarshalInv` says of every phase
what has been done so far, by position: `BuiltUpTo(m)`, the strings of the first `m`
arguments stand where `Base` counts them; `SlotsFrom(f, l)`, the pointers (and sizes)
left to be read are those of the strings from `f` to `l`; `SentUpTo(m)`, the server
has the first `m`. `SlotsFrom` speaks of what is left because hiredis takes from
the front: its two ends move in two loops. From it: `WordsDoArrive` and
`DirectivesAreServed`. `CallTypeCorrect` is the type invariant of the run.

**YpgProofs.** `YpgIInv` relates a `done` answer on its way, a result being
checked and the statements a consumer believes done to what the database holds,
`conn_ok_` to `conn_` (`ConnOkState`: it is set at every place where the connection
works; set on a broken one it may be inside `exe_core`, but between calls only after
`connect`), and the number of open
results to the one being looked at. `ApplyPresent` says that no execution, late
or not, removes what is present. `KeepsConsumption` is the refinement: from the
invariant, every step of the clients, of `exe_core` and of the database is a step
of `Consumption` or leaves `done` and `applied` alone. `RepeatedOnlyAfterLoss` needs
numbers: `EffectsCounted` bounds the executions of an unkeyed statement, and the late one
still to come, by the consumers that saw one or are about to (`Effected`), plus, for
every fault, as many as it can have hidden from a consumer each.

**PgClientProofs.** Three invariants, one for each module of the run, and
`PgClientTypeCorrect` for its type invariant.

* `LoInv` has, beyond types, how a transaction ends: between calls no descriptor is
  open (`Settled`), one that is open belongs to the call in progress and to an open
  transaction (`OpenBelongs`); while `new_lo` is at work its object is not yet
  whole, and it is not committed unless outside a transaction, where it stays
  empty (`Making`); an object that was made inside a transaction and is seen
  between calls of a transaction that has not failed is whole (`WholeObjects`);
  and what `read_lo` has measured is what the object had when it began (`ReadView`,
  `ReadSoFar`). Each statement has a lemma.
* `MgrInv`: whoever is between lock and unlock is the holder of the mutex, so there
  is one such thread; outside of that section a table in `self_` is complete, and so
  is the one a thread has got.
* `ResultsInv` follows the three loops of `query`: `ColumnsSoFar` and `LineSoFar`
  say that the first `n` columns are known and in the line (`PartOf`), `LinesSoFar`
  that the vector is what it was and a line for every row passed. `NextColumn` is
  the lemma about `map::insert`: it adds a column exactly when its name is new. From
  it: `RowsAreAppended`, `ResultsAreCleared`, and `ExecTellsDone` (`exec` never
  reports -1 for what `exe_core` kept).

**HelpersProofs.**

* *Search and replacement.* `FindInv` says that no occurrence stands between `pos`
  and `i`; `TooShortMeansNone` is where the code's count matters: what is given up
  on can only be an occurrence that ends the string. `ReplacesAll` needs to know
  that, round by round, what stands behind `at` is what stands behind some place `q`
  of the given string, and what stands in front of it, followed by the replacement of
  that rest, is the replacement of the whole (`InStep`). The lemmas `PassesPlaces`
  (places without an occurrence are copied) and `Replacing` make the step.
* *Splitting.* The three parts of `split_str` together cut the text: there is a
  sequence of positions, each a separator's or an end, such that the pieces are the
  stretches between neighbours, without a separator inside (`IsCut`; `RoundsCut` for
  the loop, `SplitIsCut` for the function). Only an empty piece in front of a leading
  separator is missing. `TextIsKept` follows with `JoinedIsStretch`: the first `k`
  pieces, put together again, are the text up to the k-th cut.
* *Configuration.* `LineDefines` says what a line, read through `split_str` and `trim`,
  defines, in terms of the text between two line ends; `LineIsSpan` and
  `SpanIsLine` are the two directions between the lines the code gets and
  the spans of the text the property speaks of. `MapOfLines` is the
  invariant: `map_` holds, for a name, the value of the first complete
  definition among the lines gone through. `FirstDefinitionIsKept` is the property
  for the whole file.
* *Numbers.* `PortIsRead` compares what `std::stoi` computes, digit by digit from the
  left, with how a number is written, which is defined from the right by division.
  `NumeralIsRead` (a numeral with any number of zeros in front is read as its number)
  and `DigitsAreNumeral` (digits that spell a number other than 0 are zeros and its
  numeral) are the two directions; `NumeralDefined` and `PrefixesDefined` show that both
  recursive functions exist. `ReadsInt` puts a
  sign in front and the bounds of an `int` around: `get_int` returns the one int a
  text begins with, or 0. With `FirstDefinitionIsKept` that is `PortIsConfigured`.

**VctClassProofs and VctProofs.** The inductive invariant of `VctObjects` is short:
all objects are messages of one class, as `VctClasses` describes it, and an object
whose last parse was accepted is initialized (`Holding`, `ObjectsInv`). What the
properties ask is then a question about single functions applied to any message of a
class, and the work is in the classes. Every lemma is stated for each of the six, and
rests on the same lemma about the classes of its fields:

* *Memory.* `XPut`, `XClear`, `XMerge`, `XCopy`, `XAccess`: every function leaves a
  message of its class. `XParse` says the same of the parser for every sequence of
  tokens, whole or broken off, because each step of its switch does and a failure
  stops it. That is `HasBitsAgree`.
* *What a message shows.* Two messages that show the same need not be the same: one may
  keep an emptied string or a cleared message the other never had. `XSame` says what
  they agree in, `XMergeSame` and `XMergeNew` that merging depends on nothing else and
  that merging into a new message gives what was merged. `CopiesAreTheOriginal`
  follows, since copying is clearing and merging.
* *Reading.* `XReadBack` is the centre: a message `m` of the class that reads the wire
  form of a message `n` ends as what `MergeFrom` makes of `m` and `n`. The wire form
  is a concatenation with one part per field, so reading it is reading the parts one
  after the other (`OutcomeConcat`), and for each part there is a lemma (`XGets_f`)
  that says which field has changed. A repeated field is read
  element by element into a sequence that grows (`Growing`); a nested message rests on
  `XReadBack` of its class. With `m` a new message this is `WhatIsWrittenIsRead`; with
  `m` one that was read from the first wire form it is `ReadingMerges`.
* *Sizes.* `XByteSizeLong`: on both of its ways the size is the sum of the bytes of the
  tokens, and those of the fields' messages likewise; `XLengths` puts this into the
  lengths of the tokens, two levels down. That is `NoStaleSize`.
* *Required fields.* `XTags` says which field numbers are in the wire form: those with
  their has bit, and no others, because what is kept without being known has another
  number or type. `XWhole`: `IsInitialized` holds exactly if these are all, and
  the same for the messages inside. That is `AcceptedMessagesAreWhole`.

`BrokenIn` shows that whatever is left of a wire form that breaks off is again a sequence
of tokens of the class, so that `XParse` applies to it. `ClassKept`, `ClassShowing`,
`ClassWriting` and `ClassInput` join the three classes behind the virtual functions.
The proofs of the six classes look alike because `protoc` wrote them alike; each is about
the functions of its own class.

Every conjunct of every inductive invariant was checked with TLC on the runs'
instances before it was proved. The proofs corrected the models in two places. `PortIsConfigured` held for
the run's letters only: with a zero among them `std::stoi` also reads leading zeros,
which the property now allows. And `Marshal` now says outright that a printed number
is not a NUL, which its run could not have missed.

Only model-checked, and why:

* the liveness properties `StuckOnOneNode`, `CallsReturn` and `LoopsEnd`, and freedom
  from deadlock: out of the prover's reach. Every other property of a passing run is
  a theorem;
* that the three `violation` runs find what they find: a counterexample is one
  behaviour, and needs no proof.

## Not modelled, and limits

* A `PQexec` that returns NULL on a working connection (no memory in libpq), and
  a `redisConnectWithTimeout` that returns NULL inside `PerfSync` (it is modelled
  in `RedisCaller`).
* An update that is not keyed may take effect twice when the connection breaks
  after it was executed, also after `exec()` has returned. The code promises
  nothing else; `TwiceOnlyAfterLoss` says that there is no other reason.
* A field written after a long outage may be stored already expired, because its
  expiry is computed before the unbounded retries. The model has the clock;
  `ExpiryNeverRewritten` states what does hold.
* Stored fields are never evicted or expired by the cluster, and not lost when a
  replica that lags behind takes over; effects of the database are not lost when it
  crashes (see `PerfSync` and `Ypg` above).
* `new char[]` in `read_lo` fails for a length below zero only; `std::bad_alloc` for a
  length that is valid and too large for the memory there is is left out.
* `ydec_read` calls one function of an extended libpq that is not in the repository.
* `ini_config::instance()` under concurrent first calls: the program makes none.
  `get_double` has no caller.
* In `base.h`: `sub_str` and `str_equal_case` (one comparison each, no caller), the
  texts `gtmstr` and the records make, `get_exe_path`, the signal handler that
  logs.
* In the redis caller: the file `mix` dumps its reply to, `ffi_prep_cif_var`
  failing, `vct_key_cmp` (no caller). In `main.cpp`: `pg_test`, which no path of
  `main` reaches.
* In `vctn.pb.*`: descriptors, default instances, reflection, `GetMetadata`;
  arenas, which no class of the file enables; `_InternalParse`, which is compiled
  out; destructors. An input that breaks off does so inside a field or between
  two fields of the outermost message.
* Steps that are modelled and that no property is about: a configuration file that
  is read short (`init()` then finds no line and succeeds), the exception of
  `std::stoi` for the port of a `MOVED` (`src/yrep_redis_caller.h`; modelled as
  `ThrowBadPort`, it ends the process and nothing in the code says otherwise), and the
  NULL reply dereferenced by every operation but `exec` (`DerefNull`, likewise).
* Deployment scripts and documents: not modelled (PROJECT.json gives the reasons).

What is left of the implementation after that is includes, logging, formatting and
declarations.

## Plan

Done, in this order because the driver's writes are what the program is for:
`RedisCaller`, `HashWrites`, `PerfSync` and their proofs; `Ypg` and its proofs;
`CallVct` and its proofs; `StrAlgo`, `IniConfig`; the vct messages; `YpgLo`,
`Consumption`, `PgErrorMgr`, `PgResults`, `StrLoops` and their proofs; `Marshal`;
termination without nodes that are brought back; `get_int`; `VctClasses` and the
proofs about the vct messages.

Left: a caller that runs every operation, not only `exec`, against the cluster of
`PerfSync`, to say what the lookups return when a redirect or a restart falls
between two of them. The repository has no such client; `RedisCaller` covers its
control. Inputs that break off between two tokens inside a nested message.
