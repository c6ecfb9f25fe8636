-------------------------------- MODULE YpgLo --------------------------------
(***************************************************************************)
(* Large objects of ypg_n (src/ypg.h): new_lo, read_lo and rm_lo, each a   *)
(* sequence of lo_* statements on the one connection.  The caller brackets *)
(* them with begin and commit, or does not; ypg_n neither asks nor looks   *)
(* at what the single statements of new_lo return.  libpq and the database *)
(* are external: a descriptor lives as long as the transaction it was      *)
(* opened in, outside of one no longer than the statement; an error aborts *)
(* the transaction.  An object is known by its length.                     *)
(***************************************************************************)
EXTENDS Integers

CONSTANTS
  Oids,      \* names the database may give to objects
  MaxLen,    \* bound: length of the buffers new_lo is given
  MaxSeek,   \* the largest position lo_lseek can report (2^31 - 1)
  MaxSize,   \* bound: length of the objects others have written
  MaxCalls,  \* bound: calls made
  MaxFaults  \* bound: statements that fail and connections that break

ASSUME LoAssumption ==
  /\ MaxLen \in Nat /\ MaxSeek \in Nat /\ MaxSize \in Nat
  /\ MaxLen <= MaxSeek
  /\ MaxCalls \in Nat /\ MaxFaults \in Nat

NoOid == 0   \* InvalidOid, what lo_creat returns when it fails
Absent == -1

ASSUME OidAssumption == NoOid \notin Oids

VARIABLES
  pc,       \* the statement of the call that comes next; idle between calls
  id,       \* id of the call
  fd,       \* fd of the call: a descriptor, or -1
  len,      \* length of the caller's buffer (new_lo), or *len (read_lo)
  tx,       \* the transaction of the connection: none, open, failed
  link,     \* the connection works
  objects,  \* what this connection sees: the length of every object
  durable,  \* what is committed
  open,     \* descriptors the database holds open: [id, write, pos]
  born,     \* history: how new_lo made an object: [len, inTx]
  got,      \* history: what the last read_lo returned, and on what
  clean,    \* history: nothing failed during the call
  begun,    \* history: tx and the length of the object when the call began
  calls, faults

callVars == <<pc, id, fd, len>>
dbVars == <<tx, link, objects, durable, open>>
vars == <<callVars, dbVars, born, got, clean, begun, calls, faults>>

Lengths == {Absent} \cup 0 .. MaxSize
NoRead == [ok |-> FALSE, len |-> 0, size |-> Absent, inTx |-> FALSE, clean |-> FALSE]

Init ==
  /\ pc = "idle" /\ id = NoOid /\ fd = -1 /\ len = 0
  /\ tx = "none" /\ link = TRUE
  /\ objects \in [Oids -> Lengths] /\ durable = objects
  /\ open = {}
  /\ born = [o \in Oids |-> [len |-> Absent, inTx |-> FALSE]]
  /\ got = NoRead /\ clean = TRUE /\ begun = [inTx |-> FALSE, size |-> Absent]
  /\ calls = 0 /\ faults = 0

-----------------------------------------------------------------------------
(* Statements (external)                                                    *)

\* Faulty variant: an error leaves the transaction alone.
FailedKeepsTx ==
  /\ UNCHANGED dbVars
  /\ clean' = FALSE

\* A statement that fails aborts the transaction it is in, with the objects
\* and the descriptors of it.
Failed ==
  /\ tx' = IF tx = "open" THEN "failed" ELSE tx
  /\ objects' = durable
  /\ open' = {}
  /\ clean' = FALSE
  /\ UNCHANGED <<link, durable>>

\* One that succeeds outside of a transaction is one of its own.
Succeeds(objs, descriptors) ==
  /\ objects' = objs
  /\ IF tx = "open" THEN open' = descriptors /\ UNCHANGED durable
                    ELSE open' = {} /\ durable' = objs
  /\ UNCHANGED <<tx, link, clean>>

Works == link /\ tx # "failed"

\* A statement that cannot succeed fails; one that can may fail as well.
Fails(possible) ==
  /\ IF Works /\ possible
     THEN faults < MaxFaults /\ faults' = faults + 1
     ELSE UNCHANGED faults
  /\ Failed

Does(possible, objs, descriptors) ==
  /\ Works /\ possible
  /\ Succeeds(objs, descriptors)
  /\ UNCHANGED faults

\* The connection breaks, and with it the transaction.
Break ==
  /\ link /\ faults < MaxFaults
  /\ faults' = faults + 1
  /\ link' = FALSE /\ tx' = "none"
  /\ objects' = durable /\ open' = {} /\ clean' = FALSE
  /\ UNCHANGED <<callVars, durable, born, got, begun, calls>>

-----------------------------------------------------------------------------
(* The caller (external)                                                    *)

Call == pc = "idle" /\ calls < MaxCalls /\ calls' = calls + 1

\* exec() of begin, commit or rollback.  On a broken connection exe_core
\* reconnects and executes it there.
Begin ==
  /\ Call
  /\ tx' = IF tx = "none" THEN "open" ELSE tx
  /\ link' = TRUE
  /\ UNCHANGED <<callVars, objects, durable, open, born, got, clean, begun, faults>>

End(objs) ==
  /\ Call
  /\ tx' = "none" /\ link' = TRUE /\ open' = {}
  /\ objects' = objs /\ durable' = objs
  /\ UNCHANGED <<callVars, born, got, clean, begun, faults>>

\* The commit of a transaction that failed is a rollback, and succeeds.
Commit == End(objects)
Rollback == End(durable)

Size(o) == IF o \in Oids THEN objects[o] ELSE Absent

Enter(statement, o, l) ==
  /\ Call
  /\ pc' = statement /\ id' = o /\ len' = l
  /\ clean' = TRUE /\ begun' = [inTx |-> tx = "open", size |-> Size(o)]
  /\ UNCHANGED <<fd, dbVars, born, got, faults>>

\* Names lo_creat may choose; none is given twice.
Fresh == {o \in Oids : objects[o] = Absent /\ durable[o] = Absent /\ born[o].len = Absent}

CallNewLo == Fresh # {} /\ \E l \in 0 .. MaxLen : Enter("creat", NoOid, l)
CallReadLo == \E o \in Oids : Enter("open_read", o, 0)
CallRmLo == \E o \in Oids : Enter("unlink", o, 0)

-----------------------------------------------------------------------------
(* new_lo                                                                   *)

Goto(statement) == pc' = statement /\ UNCHANGED <<id, len, calls, begun>>

Exists(o) == Size(o) # Absent

NewLoCreat ==
  /\ pc = "creat"
  /\ pc' = "open_write"
  /\ \/ \E o \in Fresh :
          /\ Does(TRUE, [objects EXCEPT ![o] = 0], open)
          /\ id' = o
          /\ born' = [born EXCEPT ![o] = [len |-> len, inTx |-> tx = "open"]]
     \/ Fails(TRUE) /\ UNCHANGED <<id, born>>
  /\ UNCHANGED <<fd, len, got, begun, calls>>

\* fd is the number of a descriptor even when the statement that opened it
\* was a transaction of its own.
Opened(write) ==
  \/ /\ Does(Exists(id), objects, {[id |-> id, write |-> write, pos |-> 0]})
     /\ fd' = 0
  \/ Fails(Exists(id)) /\ fd' = -1

NewLoOpen ==
  /\ pc = "open_write"
  /\ Goto("write")
  /\ Opened(TRUE)
  /\ UNCHANGED <<born, got>>

\* The descriptor behind fd.
Held == {d \in open : fd = 0}

\* Faulty variant: one byte is left out.
WrittenShort == [objects EXCEPT ![id] = IF len = 0 THEN 0 ELSE len - 1]

Written == [objects EXCEPT ![id] = len]

NewLoWrite ==
  /\ pc = "write"
  /\ Goto("close")
  /\ \/ Does(\E d \in Held : d.write, Written, open)
     \/ Fails(\E d \in Held : d.write)
  /\ UNCHANGED <<fd, born, got>>

\* The last statement of new_lo; the id is returned whatever happened.
NewLoClose ==
  /\ pc = "close"
  /\ Goto("idle")
  /\ Does(Held # {}, objects, {}) \/ Fails(Held # {})
  /\ UNCHANGED <<fd, born, got>>

-----------------------------------------------------------------------------
(* read_lo                                                                  *)

Return(ok) ==
  got' = [ok |-> ok, len |-> len, size |-> begun.size, inTx |-> begun.inTx,
          clean |-> clean']

ReadLoOpen ==
  /\ pc = "open_read"
  /\ Opened(FALSE)
  /\ Goto(IF fd' = -1 THEN "idle" ELSE "seek_end")
  /\ IF fd' = -1 THEN Return(FALSE) ELSE UNCHANGED got
  /\ UNCHANGED born

Positioned(p) == {[d EXCEPT !.pos = p] : d \in Held}

\* A position that does not fit an int is an error of lo_lseek.
CanSeekEnd == \E d \in Held : objects[d.id] <= MaxSeek

\* rr < 0: read_lo returns without lo_close.
ReadLoSeekEnd ==
  /\ pc = "seek_end"
  /\ \/ Does(CanSeekEnd, objects, Positioned(objects[id])) /\ Goto("tell") /\ UNCHANGED got
     \/ Fails(CanSeekEnd) /\ Goto("idle") /\ Return(FALSE)
  /\ UNCHANGED <<fd, born>>

\* Faulty variant: -1 is taken for the length.
ReadLoTellSigned ==
  /\ pc = "tell"
  /\ \/ \E d \in Held : Does(TRUE, objects, open) /\ len' = d.pos
     \/ Fails(Held # {}) /\ len' = -1
  /\ pc' = "seek_set"
  /\ UNCHANGED <<fd, id, born, got, begun, calls>>

\* lo_tell64: -1 becomes 2^64-1, more than new char[] can give; it throws.
ReadLoTell ==
  /\ pc = "tell"
  /\ \/ \E d \in Held :
          /\ Does(TRUE, objects, open)
          /\ len' = d.pos /\ pc' = "seek_set"
          /\ UNCHANGED got
     \/ Fails(Held # {}) /\ pc' = "idle" /\ Return(FALSE) /\ UNCHANGED len
  /\ UNCHANGED <<fd, id, born, begun, calls>>

\* Faulty variant: the descriptor stays at the end.
ReadLoNoRewind ==
  /\ pc = "seek_set"
  /\ Goto("read")
  /\ Does(Held # {}, objects, open) \/ Fails(Held # {})
  /\ UNCHANGED <<fd, born, got>>

\* lo_lseek back to the start; the result is not looked at.
ReadLoSeekSet ==
  /\ pc = "seek_set"
  /\ Goto("read")
  /\ Does(Held # {}, objects, Positioned(0)) \/ Fails(Held # {})
  /\ UNCHANGED <<fd, born, got>>

\* lo_read; rlen is compared with the length when the descriptor is closed.
ReadLoRead ==
  /\ pc = "read"
  /\ \/ \E d \in Held :
          /\ Does(TRUE, objects, open)
          /\ pc' = IF objects[id] - d.pos = len THEN "close_full" ELSE "close_short"
     \/ Fails(Held # {}) /\ pc' = "close_short"
  /\ UNCHANGED <<id, fd, len, born, got, begun, calls>>

\* Faulty variant: there is no lo_close.
ReadLoNoClose ==
  /\ pc \in {"close_full", "close_short"}
  /\ Goto("idle")
  /\ UNCHANGED <<dbVars, clean, faults>>
  /\ Return(pc = "close_full")
  /\ UNCHANGED <<fd, born>>

ReadLoClose ==
  /\ pc \in {"close_full", "close_short"}
  /\ Goto("idle")
  /\ Does(Held # {}, objects, {}) \/ Fails(Held # {})
  /\ Return(pc = "close_full")
  /\ UNCHANGED <<fd, born>>

-----------------------------------------------------------------------------
\* rm_lo
RmLo ==
  /\ pc = "unlink"
  /\ Goto("idle")
  /\ Does(Exists(id), [objects EXCEPT ![id] = Absent], open) \/ Fails(Exists(id))
  /\ UNCHANGED <<fd, born, got>>

Caller == Begin \/ Commit \/ Rollback \/ CallNewLo \/ CallReadLo \/ CallRmLo

Statement ==
  \/ NewLoCreat \/ NewLoOpen \/ NewLoWrite \/ NewLoClose
  \/ ReadLoOpen \/ ReadLoSeekEnd \/ ReadLoTell \/ ReadLoSeekSet \/ ReadLoRead
  \/ ReadLoClose \/ RmLo

Stopped == pc = "idle" /\ calls = MaxCalls /\ UNCHANGED vars

Next == Caller \/ Statement \/ Break \/ Stopped

Spec == Init /\ [][Next]_vars

-----------------------------------------------------------------------------
(* Properties *)

\* Every variable holds a value of its type.
LoTypeOK ==
  /\ pc \in {"idle", "creat", "open_write", "write", "close", "open_read", "seek_end",
             "tell", "seek_set", "read", "close_full", "close_short", "unlink"}
  /\ id \in Oids \cup {NoOid} /\ fd \in {-1, 0} /\ len \in Nat
  /\ tx \in {"none", "open", "failed"} /\ link \in BOOLEAN
  /\ objects \in [Oids -> Nat \cup {Absent}]
  /\ durable \in [Oids -> Nat \cup {Absent}]
  /\ open \subseteq [id : Oids, write : BOOLEAN, pos : Nat]
  /\ born \in [Oids -> [len : Nat \cup {Absent}, inTx : BOOLEAN]]
  /\ got \in [ok : BOOLEAN, len : Nat, size : Nat \cup {Absent}, inTx : BOOLEAN,
              clean : BOOLEAN]
  /\ clean \in BOOLEAN /\ begun \in [inTx : BOOLEAN, size : Nat \cup {Absent}]
  /\ calls \in 0 .. MaxCalls /\ faults \in 0 .. MaxFaults

\* new_lo ignores what its statements return and hands out the id all the
\* same.  Still no half-written object is ever committed: one made inside a
\* transaction is there with all its bytes or not at all, wherever a statement
\* failed or the connection broke; one made outside stays empty (new_lo).
NoHalfObject ==
  \A o \in Oids :
    born[o].len # Absent =>
      durable[o] \in {Absent, IF born[o].inTx THEN born[o].len ELSE 0}

\* read_lo returns true exactly when it handed over the whole object, in one
\* transaction; when nothing fails it does.  Outside of a transaction it never
\* does, not even for an empty object (read_lo).
ReadIsWhole ==
  /\ got.ok => got.inTx /\ got.size # Absent /\ got.len = got.size
  /\ got.clean => got.ok

\* Between calls no descriptor is left open, although read_lo returns from a
\* failed lo_lseek without lo_close and new_lo closes what it never opened: in
\* a long transaction descriptors do not pile up (new_lo, read_lo).
NoDescriptorLeft == pc = "idle" => open = {}
=============================================================================
