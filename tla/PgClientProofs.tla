---------------------------- MODULE PgClientProofs ----------------------------
(***************************************************************************)
(* Theorems about the postgres client beside its reconnects (MCPgClient):  *)
(* large objects, for any objects, sizes, transactions and faults; what    *)
(* becomes of a result, for any columns, rows, values and counts; and the  *)
(* table of error codes, for any threads and any number of insertions.     *)
(***************************************************************************)
EXTENDS MCPgClient, SequenceTheorems, TLAPS

-----------------------------------------------------------------------------
(* Large objects (YpgLo)                                                    *)

\* The parts of LoTypeOK.
ControlTyped ==
  /\ pc \in {"idle", "creat", "open_write", "write", "close", "open_read", "seek_end",
             "tell", "seek_set", "read", "close_full", "close_short", "unlink"}
  /\ id \in Oids \cup {NoOid} /\ fd \in {-1, 0} /\ len \in Nat
TxTyped == tx \in {"none", "open", "failed"} /\ link \in BOOLEAN
ObjectsTyped ==
  objects \in [Oids -> Nat \cup {Absent}] /\ durable \in [Oids -> Nat \cup {Absent}]
OpenTyped == open \subseteq [id : Oids, write : BOOLEAN, pos : Nat]
HistoryTyped ==
  /\ born \in [Oids -> [len : Nat \cup {Absent}, inTx : BOOLEAN]]
  /\ got \in [ok : BOOLEAN, len : Nat, size : Nat \cup {Absent}, inTx : BOOLEAN,
              clean : BOOLEAN]
  /\ clean \in BOOLEAN /\ begun \in [inTx : BOOLEAN, size : Nat \cup {Absent}]
CountsTyped == calls \in 0 .. MaxCalls /\ faults \in 0 .. MaxFaults

\* Outside of an open transaction the connection sees what is committed, and
\* no descriptor lives.
Settled == tx # "open" => objects = durable /\ open = {}

\* Descriptors belong to the call in progress, which has opened them.
OpenBelongs ==
  \A d \in open :
    /\ d.id = id /\ objects[id] # Absent
    /\ pc \in {"write", "close", "seek_end", "tell", "seek_set", "read",
               "close_full", "close_short"}

\* The object new_lo is making is remembered with the length of the buffer,
\* and a transaction that is open now was open when it was created.
Making ==
  /\ pc = "creat" => id = NoOid
  /\ pc \in {"open_write", "write"} /\ id \in Oids =>
       born[id].len = len /\ (tx = "open" => born[id].inTx)

Target(o) == IF born[o].inTx THEN born[o].len ELSE 0

\* NoHalfObject, and the same of what the connection sees, but for the object
\* that is being made in an open transaction.
WholeObjects ==
  \A o \in Oids :
    born[o].len # Absent =>
      /\ durable[o] \in {Absent, Target(o)}
      /\ \/ objects[o] \in {Absent, Target(o)}
         \/ tx = "open" /\ pc \in {"open_write", "write"} /\ id = o

Reading ==
  pc \in {"open_read", "seek_end", "tell", "seek_set", "read", "close_full", "close_short"}

\* While its transaction is open read_lo sees the object it was called for.
ReadView ==
  Reading => id \in Oids /\ (tx = "open" => begun.inTx /\ begun.size = objects[id])

\* Where the descriptor stands and what read_lo knows, statement by statement.
ReadSoFar ==
  /\ pc = "tell" => \A d \in open : d.pos = objects[id]
  /\ pc = "seek_set" => open = {} \/ len = objects[id]
  /\ pc = "read" => \A d \in open : d.pos = 0 /\ len = objects[id]
  /\ pc = "close_full" => begun.inTx /\ begun.size # Absent /\ len = begun.size
  /\ pc = "close_short" => ~clean

LoInv ==
  /\ LoTypeOK /\ Settled /\ OpenBelongs /\ Making /\ WholeObjects /\ ReadView
  /\ ReadSoFar /\ ReadIsWhole

LEMMA LoInit == Init => LoInv
BY LoAssumption, OidAssumption DEF Init, Lengths, NoRead, NoOid, Absent, LoInv, LoTypeOK,
   Settled, OpenBelongs, Making, WholeObjects, Target, ReadView, Reading, ReadSoFar,
   ReadIsWhole

LEMMA BeginKeeps == LoInv /\ Begin => LoInv'
<1> SUFFICES ASSUME LoInv, Begin PROVE LoInv'
  OBVIOUS
<1> USE LoAssumption, OidAssumption DEF NoOid, Absent, LoInv, callVars, dbVars,
       Begin, Call
<1>1. LoTypeOK'
  BY DEF LoTypeOK, OpenBelongs, ReadView, Reading
<1>2. Settled'
  BY DEF Settled
<1>3. OpenBelongs'
  BY DEF OpenBelongs, LoTypeOK, Settled, ReadView, Reading
<1>4. Making'
  BY DEF Making, LoTypeOK
<1>5. WholeObjects'
  BY DEF WholeObjects, LoTypeOK, Settled, Making, Target, OpenBelongs
<1>6. ReadView'
  BY DEF ReadView, LoTypeOK, Reading, Settled
<1>7. ReadSoFar'
  BY DEF ReadSoFar, LoTypeOK, Settled, OpenBelongs, ReadView, Reading
<1>8. ReadIsWhole'
  BY DEF ReadIsWhole, LoTypeOK, ReadSoFar, ReadView, Reading
<1> QED
  BY <1>1, <1>2, <1>3, <1>4, <1>5, <1>6, <1>7, <1>8 DEF LoInv

LEMMA CommitKeeps == LoInv /\ Commit => LoInv'
<1> SUFFICES ASSUME LoInv, Commit PROVE LoInv'
  OBVIOUS
<1> USE LoAssumption, OidAssumption DEF NoOid, Absent, LoInv, callVars, dbVars,
       Commit, End, Call
<1>1. LoTypeOK'
  BY DEF LoTypeOK, OpenBelongs, ReadView, Reading
<1>2. Settled'
  BY DEF Settled
<1>3. OpenBelongs'
  BY DEF OpenBelongs, LoTypeOK, Settled, ReadView, Reading
<1>4. Making'
  BY DEF Making, LoTypeOK
<1>5. WholeObjects'
  BY DEF WholeObjects, LoTypeOK, Settled, Making, Target, OpenBelongs
<1>6. ReadView'
  BY DEF ReadView, LoTypeOK, Reading, Settled
<1>7. ReadSoFar'
  BY DEF ReadSoFar, LoTypeOK, Settled, OpenBelongs, ReadView, Reading
<1>8. ReadIsWhole'
  BY DEF ReadIsWhole, LoTypeOK, ReadSoFar, ReadView, Reading
<1> QED
  BY <1>1, <1>2, <1>3, <1>4, <1>5, <1>6, <1>7, <1>8 DEF LoInv

LEMMA RollbackKeeps == LoInv /\ Rollback => LoInv'
<1> SUFFICES ASSUME LoInv, Rollback PROVE LoInv'
  OBVIOUS
<1> USE LoAssumption, OidAssumption DEF NoOid, Absent, LoInv, callVars, dbVars,
       Rollback, End, Call
<1>1. LoTypeOK'
  BY DEF LoTypeOK, OpenBelongs, ReadView, Reading
<1>2. Settled'
  BY DEF Settled
<1>3. OpenBelongs'
  BY DEF OpenBelongs, LoTypeOK, Settled, ReadView, Reading
<1>4. Making'
  BY DEF Making, LoTypeOK
<1>5. WholeObjects'
  BY DEF WholeObjects, LoTypeOK, Settled, Making, Target, OpenBelongs
<1>6. ReadView'
  BY DEF ReadView, LoTypeOK, Reading, Settled
<1>7. ReadSoFar'
  BY DEF ReadSoFar, LoTypeOK, Settled, OpenBelongs, ReadView, Reading
<1>8. ReadIsWhole'
  BY DEF ReadIsWhole, LoTypeOK, ReadSoFar, ReadView, Reading
<1> QED
  BY <1>1, <1>2, <1>3, <1>4, <1>5, <1>6, <1>7, <1>8 DEF LoInv

LEMMA CallNewLoKeeps == LoInv /\ CallNewLo => LoInv'
<1> SUFFICES ASSUME LoInv, CallNewLo PROVE LoInv'
  OBVIOUS
<1> USE LoAssumption, OidAssumption DEF NoOid, Absent, LoInv, callVars, dbVars,
       CallNewLo, Enter, Call, Size
<1>1. LoTypeOK'
  BY DEF LoTypeOK, OpenBelongs, ReadView, Reading
<1>2. Settled'
  BY DEF Settled
<1>3. OpenBelongs'
  BY DEF OpenBelongs, LoTypeOK, Settled, ReadView, Reading
<1>4. Making'
  BY DEF Making, LoTypeOK
<1>5. WholeObjects'
  BY DEF WholeObjects, LoTypeOK, Settled, Making, Target, OpenBelongs
<1>6. ReadView'
  BY DEF ReadView, LoTypeOK, Reading, Settled
<1>7. ReadSoFar'
  BY DEF ReadSoFar, LoTypeOK, Settled, OpenBelongs, ReadView, Reading
<1>8. ReadIsWhole'
  BY DEF ReadIsWhole, LoTypeOK, ReadSoFar, ReadView, Reading
<1> QED
  BY <1>1, <1>2, <1>3, <1>4, <1>5, <1>6, <1>7, <1>8 DEF LoInv

LEMMA CallReadLoKeeps == LoInv /\ CallReadLo => LoInv'
<1> SUFFICES ASSUME LoInv, CallReadLo PROVE LoInv'
  OBVIOUS
<1> USE LoAssumption, OidAssumption DEF NoOid, Absent, LoInv, callVars, dbVars,
       CallReadLo, Enter, Call, Size
<1>1. LoTypeOK'
  BY DEF LoTypeOK, OpenBelongs, ReadView, Reading
<1>2. Settled'
  BY DEF Settled
<1>3. OpenBelongs'
  BY DEF OpenBelongs, LoTypeOK, Settled, ReadView, Reading
<1>4. Making'
  BY DEF Making, LoTypeOK
<1>5. WholeObjects'
  BY DEF WholeObjects, LoTypeOK, Settled, Making, Target, OpenBelongs
<1>6. ReadView'
  <2>1. PICK o \in Oids : Enter("open_read", o, 0)
    OBVIOUS
  <2>2. /\ pc' = "open_read" /\ id' = o /\ tx' = tx /\ objects' = objects
        /\ begun' = [inTx |-> tx = "open", size |-> objects[o]]
    BY <2>1
  <2> QED
    BY <2>2 DEF ReadView, Reading
<1>7. ReadSoFar'
  BY DEF ReadSoFar, LoTypeOK, Settled, OpenBelongs, ReadView, Reading
<1>8. ReadIsWhole'
  BY DEF ReadIsWhole, LoTypeOK, ReadSoFar, ReadView, Reading
<1> QED
  BY <1>1, <1>2, <1>3, <1>4, <1>5, <1>6, <1>7, <1>8 DEF LoInv

LEMMA CallRmLoKeeps == LoInv /\ CallRmLo => LoInv'
<1> SUFFICES ASSUME LoInv, CallRmLo PROVE LoInv'
  OBVIOUS
<1> USE LoAssumption, OidAssumption DEF NoOid, Absent, LoInv, callVars, dbVars,
       CallRmLo, Enter, Call, Size
<1>1. LoTypeOK'
  BY DEF LoTypeOK, OpenBelongs, ReadView, Reading
<1>2. Settled'
  BY DEF Settled
<1>3. OpenBelongs'
  BY DEF OpenBelongs, LoTypeOK, Settled, ReadView, Reading
<1>4. Making'
  BY DEF Making, LoTypeOK
<1>5. WholeObjects'
  BY DEF WholeObjects, LoTypeOK, Settled, Making, Target, OpenBelongs
<1>6. ReadView'
  BY DEF ReadView, LoTypeOK, Reading, Settled
<1>7. ReadSoFar'
  BY DEF ReadSoFar, LoTypeOK, Settled, OpenBelongs, ReadView, Reading
<1>8. ReadIsWhole'
  BY DEF ReadIsWhole, LoTypeOK, ReadSoFar, ReadView, Reading
<1> QED
  BY <1>1, <1>2, <1>3, <1>4, <1>5, <1>6, <1>7, <1>8 DEF LoInv

LEMMA NewLoCreatKeeps == LoInv /\ NewLoCreat => LoInv'
<1> SUFFICES ASSUME LoInv, NewLoCreat PROVE LoInv'
  OBVIOUS
<1> USE LoAssumption, OidAssumption DEF NoOid, Absent, LoInv, callVars, dbVars,
       NewLoCreat, Does, Fails, Failed, Succeeds, Works, Fresh
<1>1. LoTypeOK'
  <2>1. ControlTyped'
    BY DEF ControlTyped, LoTypeOK
  <2>2. TxTyped'
    BY DEF TxTyped, LoTypeOK
  <2>3. ObjectsTyped'
    BY DEF ObjectsTyped, LoTypeOK
  <2>4. OpenTyped'
    BY DEF OpenTyped, LoTypeOK, OpenBelongs, ReadView, Reading
  <2>5. HistoryTyped'
    <3>1. born' = born \/ \E o \in Oids :
            born' = [born EXCEPT ![o] = [len |-> len, inTx |-> tx = "open"]]
      OBVIOUS
    <3>2. [len |-> len, inTx |-> tx = "open"] \in [len : Nat \cup {Absent}, inTx : BOOLEAN]
      BY DEF LoTypeOK
    <3>3. born' \in [Oids -> [len : Nat \cup {Absent}, inTx : BOOLEAN]]
      BY <3>1, <3>2 DEF LoTypeOK
    <3> QED
      BY <3>3 DEF HistoryTyped, LoTypeOK
  <2>6. CountsTyped'
    BY DEF CountsTyped, LoTypeOK
  <2> QED
    BY <2>1, <2>2, <2>3, <2>4, <2>5, <2>6
       DEF ControlTyped, TxTyped, ObjectsTyped, OpenTyped, HistoryTyped, CountsTyped, LoTypeOK
<1>2. Settled'
  BY DEF Settled
<1>3. OpenBelongs'
  BY DEF OpenBelongs, LoTypeOK, Settled, ReadView, Reading
<1>4. Making'
  <2>1. CASE Fails(TRUE) /\ UNCHANGED <<id, born>>
    BY <2>1 DEF Making, LoTypeOK
  <2>2. ASSUME NEW o \in Fresh, Does(TRUE, [objects EXCEPT ![o] = 0], open), id' = o,
               born' = [born EXCEPT ![o] = [len |-> len, inTx |-> tx = "open"]]
        PROVE  Making'
    <3>1. o \in Oids
      OBVIOUS
    <3>2. born'[o].len = len /\ (born'[o].inTx <=> tx = "open")
      BY <2>2, <3>1 DEF LoTypeOK
    <3> QED
      BY <2>2, <3>2 DEF Making
  <2> QED
    BY <2>1, <2>2
<1>5. WholeObjects'
  <2>1. CASE Fails(TRUE) /\ UNCHANGED <<id, born>>
    BY <2>1 DEF WholeObjects, LoTypeOK, Settled, Target
  <2>2. ASSUME NEW o \in Fresh, Does(TRUE, [objects EXCEPT ![o] = 0], open), id' = o,
               born' = [born EXCEPT ![o] = [len |-> len, inTx |-> tx = "open"]]
        PROVE  WholeObjects'
    <3>1. o \in Oids /\ durable[o] = Absent
      OBVIOUS
    <3>2. born'[o].len = len /\ (born'[o].inTx <=> tx = "open")
      BY <2>2, <3>1 DEF LoTypeOK
    <3>3. ASSUME NEW p \in Oids, p # o PROVE born'[p] = born[p] /\ objects'[p] = objects[p]
      BY <2>2, <3>3 DEF LoTypeOK
    <3>4. objects'[o] = 0 /\ durable' = IF tx = "open" THEN durable ELSE objects'
      BY <2>2, <3>1 DEF LoTypeOK
    <3>5. ASSUME NEW p \in Oids, p # o, born'[p].len # Absent
          PROVE  durable'[p] \in {Absent, Target(p)'} /\ objects'[p] \in {Absent, Target(p)'}
      BY <3>3, <3>4, <3>5 DEF WholeObjects, Target, Settled
    <3>6. /\ durable'[o] \in {Absent, Target(o)'}
          /\ \/ objects'[o] \in {Absent, Target(o)'}
             \/ tx' = "open" /\ pc' = "open_write"
      BY <2>2, <3>1, <3>2, <3>4 DEF Target
    <3> QED
      BY <2>2, <3>5, <3>6 DEF WholeObjects
  <2> QED
    BY <2>1, <2>2
<1>6. ReadView'
  BY DEF ReadView, LoTypeOK, Reading, Settled
<1>7. ReadSoFar'
  BY DEF ReadSoFar, LoTypeOK, Settled, OpenBelongs, ReadView, Reading
<1>8. ReadIsWhole'
  BY DEF ReadIsWhole, LoTypeOK, ReadSoFar, ReadView, Reading
<1> QED
  BY <1>1, <1>2, <1>3, <1>4, <1>5, <1>6, <1>7, <1>8 DEF LoInv

LEMMA NewLoOpenKeeps == LoInv /\ NewLoOpen => LoInv'
<1> SUFFICES ASSUME LoInv, NewLoOpen PROVE LoInv'
  OBVIOUS
<1> USE LoAssumption, OidAssumption DEF NoOid, Absent, LoInv, callVars, dbVars,
       NewLoOpen, Opened, Does, Fails, Failed, Succeeds, Works, Exists, Size, Goto
<1>1. LoTypeOK'
  <2>1. ControlTyped'
    BY DEF ControlTyped, LoTypeOK
  <2>2. TxTyped'
    BY DEF TxTyped, LoTypeOK
  <2>3. ObjectsTyped'
    BY DEF ObjectsTyped, LoTypeOK
  <2>4. OpenTyped'
    <3>1. CASE Exists(id)
      <4>1. id \in Oids
        BY <3>1 DEF LoTypeOK
      <4>2. [id |-> id, write |-> TRUE, pos |-> 0] \in [id : Oids, write : BOOLEAN, pos : Nat]
        BY <4>1
      <4>3. \A d \in open' : d \in open \/ d = [id |-> id, write |-> TRUE, pos |-> 0]
        OBVIOUS
      <4> QED
        BY <4>2, <4>3 DEF OpenTyped, LoTypeOK
    <3>2. CASE ~Exists(id)
      BY <3>2 DEF OpenTyped, LoTypeOK
    <3> QED
      BY <3>1, <3>2
  <2>5. HistoryTyped'
    BY DEF HistoryTyped, LoTypeOK
  <2>6. CountsTyped'
    BY DEF CountsTyped, LoTypeOK
  <2> QED
    BY <2>1, <2>2, <2>3, <2>4, <2>5, <2>6
       DEF ControlTyped, TxTyped, ObjectsTyped, OpenTyped, HistoryTyped, CountsTyped, LoTypeOK
<1>2. Settled'
  BY DEF Settled
<1>3. OpenBelongs'
  BY DEF OpenBelongs, LoTypeOK, Settled, ReadView, Reading
<1>4. Making'
  BY DEF Making, LoTypeOK
<1>5. WholeObjects'
  BY DEF WholeObjects, LoTypeOK, Settled, Making, Target, OpenBelongs
<1>6. ReadView'
  BY DEF ReadView, LoTypeOK, Reading, Settled
<1>7. ReadSoFar'
  BY DEF ReadSoFar, LoTypeOK, Settled, OpenBelongs, ReadView, Reading
<1>8. ReadIsWhole'
  BY DEF ReadIsWhole, LoTypeOK, ReadSoFar, ReadView, Reading
<1> QED
  BY <1>1, <1>2, <1>3, <1>4, <1>5, <1>6, <1>7, <1>8 DEF LoInv

LEMMA NewLoWriteKeeps == LoInv /\ NewLoWrite => LoInv'
<1> SUFFICES ASSUME LoInv, NewLoWrite PROVE LoInv'
  OBVIOUS
<1> USE LoAssumption, OidAssumption DEF NoOid, Absent, LoInv, callVars, dbVars,
       NewLoWrite, Held, Written, Does, Fails, Failed, Succeeds, Works, Goto
<1>1. LoTypeOK'
  <2>1. ControlTyped'
    BY DEF ControlTyped, LoTypeOK
  <2>2. TxTyped'
    BY DEF TxTyped, LoTypeOK
  <2>3. ObjectsTyped'
    BY DEF ObjectsTyped, LoTypeOK
  <2>4. OpenTyped'
    BY DEF OpenTyped, LoTypeOK, OpenBelongs, ReadView, Reading
  <2>5. HistoryTyped'
    BY DEF HistoryTyped, LoTypeOK
  <2>6. CountsTyped'
    BY DEF CountsTyped, LoTypeOK
  <2> QED
    BY <2>1, <2>2, <2>3, <2>4, <2>5, <2>6
       DEF ControlTyped, TxTyped, ObjectsTyped, OpenTyped, HistoryTyped, CountsTyped, LoTypeOK
<1>2. Settled'
  BY DEF Settled
<1>3. OpenBelongs'
  BY DEF OpenBelongs, LoTypeOK, Settled, ReadView, Reading
<1>4. Making'
  BY DEF Making, LoTypeOK
<1>5. WholeObjects'
  BY DEF WholeObjects, LoTypeOK, Settled, Making, Target, OpenBelongs
<1>6. ReadView'
  BY DEF ReadView, LoTypeOK, Reading, Settled
<1>7. ReadSoFar'
  BY DEF ReadSoFar, LoTypeOK, Settled, OpenBelongs, ReadView, Reading
<1>8. ReadIsWhole'
  BY DEF ReadIsWhole, LoTypeOK, ReadSoFar, ReadView, Reading
<1> QED
  BY <1>1, <1>2, <1>3, <1>4, <1>5, <1>6, <1>7, <1>8 DEF LoInv

LEMMA NewLoCloseKeeps == LoInv /\ NewLoClose => LoInv'
<1> SUFFICES ASSUME LoInv, NewLoClose PROVE LoInv'
  OBVIOUS
<1> USE LoAssumption, OidAssumption DEF NoOid, Absent, LoInv, callVars, dbVars,
       NewLoClose, Held, Does, Fails, Failed, Succeeds, Works, Goto
<1>1. LoTypeOK'
  <2>1. ControlTyped'
    BY DEF ControlTyped, LoTypeOK
  <2>2. TxTyped'
    BY DEF TxTyped, LoTypeOK
  <2>3. ObjectsTyped'
    BY DEF ObjectsTyped, LoTypeOK
  <2>4. OpenTyped'
    BY DEF OpenTyped, LoTypeOK, OpenBelongs, ReadView, Reading
  <2>5. HistoryTyped'
    BY DEF HistoryTyped, LoTypeOK
  <2>6. CountsTyped'
    BY DEF CountsTyped, LoTypeOK
  <2> QED
    BY <2>1, <2>2, <2>3, <2>4, <2>5, <2>6
       DEF ControlTyped, TxTyped, ObjectsTyped, OpenTyped, HistoryTyped, CountsTyped, LoTypeOK
<1>2. Settled'
  BY DEF Settled
<1>3. OpenBelongs'
  BY DEF OpenBelongs, LoTypeOK, Settled, ReadView, Reading
<1>4. Making'
  BY DEF Making, LoTypeOK
<1>5. WholeObjects'
  BY DEF WholeObjects, LoTypeOK, Settled, Making, Target, OpenBelongs
<1>6. ReadView'
  BY DEF ReadView, LoTypeOK, Reading, Settled
<1>7. ReadSoFar'
  BY DEF ReadSoFar, LoTypeOK, Settled, OpenBelongs, ReadView, Reading
<1>8. ReadIsWhole'
  BY DEF ReadIsWhole, LoTypeOK, ReadSoFar, ReadView, Reading
<1> QED
  BY <1>1, <1>2, <1>3, <1>4, <1>5, <1>6, <1>7, <1>8 DEF LoInv

LEMMA ReadLoOpenKeeps == LoInv /\ ReadLoOpen => LoInv'
<1> SUFFICES ASSUME LoInv, ReadLoOpen PROVE LoInv'
  OBVIOUS
<1> USE LoAssumption, OidAssumption DEF NoOid, Absent, LoInv, callVars, dbVars,
       ReadLoOpen, Opened, Return, Does, Fails, Failed, Succeeds, Works, Exists, Size, Goto
<1>1. LoTypeOK'
  <2>1. ControlTyped'
    BY DEF ControlTyped, LoTypeOK
  <2>2. TxTyped'
    BY DEF TxTyped, LoTypeOK
  <2>3. ObjectsTyped'
    BY DEF ObjectsTyped, LoTypeOK
  <2>4. OpenTyped'
    <3>1. CASE Exists(id)
      <4>1. id \in Oids
        BY <3>1 DEF LoTypeOK
      <4>2. [id |-> id, write |-> FALSE, pos |-> 0] \in [id : Oids, write : BOOLEAN, pos : Nat]
        BY <4>1
      <4>3. \A d \in open' : d \in open \/ d = [id |-> id, write |-> FALSE, pos |-> 0]
        OBVIOUS
      <4> QED
        BY <4>2, <4>3 DEF OpenTyped, LoTypeOK
    <3>2. CASE ~Exists(id)
      BY <3>2 DEF OpenTyped, LoTypeOK
    <3> QED
      BY <3>1, <3>2
  <2>5. HistoryTyped'
    <3>1. clean' \in BOOLEAN /\ begun' = begun /\ born' = born
      BY DEF LoTypeOK
    <3>2. got' = got \/ \E ok \in BOOLEAN :
            got' = [ok |-> ok, len |-> len, size |-> begun.size, inTx |-> begun.inTx,
                    clean |-> clean']
      OBVIOUS
    <3>3. len \in Nat /\ begun.size \in Nat \cup {Absent} /\ begun.inTx \in BOOLEAN
      BY DEF LoTypeOK
    <3>4. got' \in [ok : BOOLEAN, len : Nat, size : Nat \cup {Absent}, inTx : BOOLEAN,
                    clean : BOOLEAN]
      BY <3>1, <3>2, <3>3 DEF LoTypeOK
    <3> QED
      BY <3>1, <3>4 DEF HistoryTyped, LoTypeOK
  <2>6. CountsTyped'
    BY DEF CountsTyped, LoTypeOK
  <2> QED
    BY <2>1, <2>2, <2>3, <2>4, <2>5, <2>6
       DEF ControlTyped, TxTyped, ObjectsTyped, OpenTyped, HistoryTyped, CountsTyped, LoTypeOK
<1>2. Settled'
  BY DEF Settled
<1>3. OpenBelongs'
  BY DEF OpenBelongs, LoTypeOK, Settled, ReadView, Reading
<1>4. Making'
  BY DEF Making, LoTypeOK
<1>5. WholeObjects'
  BY DEF WholeObjects, LoTypeOK, Settled, Making, Target, OpenBelongs
<1>6. ReadView'
  BY DEF ReadView, LoTypeOK, Reading, Settled
<1>7. ReadSoFar'
  BY DEF ReadSoFar, LoTypeOK, Settled, OpenBelongs, ReadView, Reading
<1>8. ReadIsWhole'
  BY DEF ReadIsWhole, LoTypeOK, ReadSoFar, ReadView, Reading
<1> QED
  BY <1>1, <1>2, <1>3, <1>4, <1>5, <1>6, <1>7, <1>8 DEF LoInv

LEMMA ReadLoSeekEndKeeps == LoInv /\ ReadLoSeekEnd => LoInv'
<1> SUFFICES ASSUME LoInv, ReadLoSeekEnd PROVE LoInv'
  OBVIOUS
<1> USE LoAssumption, OidAssumption DEF NoOid, Absent, LoInv, callVars, dbVars,
       ReadLoSeekEnd, CanSeekEnd, Positioned, Held, Return, Does, Fails, Failed, Succeeds, Works, Goto
<1>1. LoTypeOK'
  <2>1. ControlTyped'
    BY DEF ControlTyped, LoTypeOK
  <2>2. TxTyped'
    BY DEF TxTyped, LoTypeOK
  <2>3. ObjectsTyped'
    BY DEF ObjectsTyped, LoTypeOK
  <2>4. OpenTyped'
    BY DEF OpenTyped, LoTypeOK, OpenBelongs, ReadView, Reading
  <2>5. HistoryTyped'
    <3>1. clean' \in BOOLEAN /\ begun' = begun /\ born' = born
      BY DEF LoTypeOK
    <3>2. got' = got \/ \E ok \in BOOLEAN :
            got' = [ok |-> ok, len |-> len, size |-> begun.size, inTx |-> begun.inTx,
                    clean |-> clean']
      OBVIOUS
    <3>3. len \in Nat /\ begun.size \in Nat \cup {Absent} /\ begun.inTx \in BOOLEAN
      BY DEF LoTypeOK
    <3>4. got' \in [ok : BOOLEAN, len : Nat, size : Nat \cup {Absent}, inTx : BOOLEAN,
                    clean : BOOLEAN]
      BY <3>1, <3>2, <3>3 DEF LoTypeOK
    <3> QED
      BY <3>1, <3>4 DEF HistoryTyped, LoTypeOK
  <2>6. CountsTyped'
    BY DEF CountsTyped, LoTypeOK
  <2> QED
    BY <2>1, <2>2, <2>3, <2>4, <2>5, <2>6
       DEF ControlTyped, TxTyped, ObjectsTyped, OpenTyped, HistoryTyped, CountsTyped, LoTypeOK
<1>2. Settled'
  BY DEF Settled
<1>3. OpenBelongs'
  BY DEF OpenBelongs, LoTypeOK, Settled, ReadView, Reading
<1>4. Making'
  BY DEF Making, LoTypeOK
<1>5. WholeObjects'
  BY DEF WholeObjects, LoTypeOK, Settled, Making, Target, OpenBelongs
<1>6. ReadView'
  BY DEF ReadView, LoTypeOK, Reading, Settled
<1>7. ReadSoFar'
  BY DEF ReadSoFar, LoTypeOK, Settled, OpenBelongs, ReadView, Reading
<1>8. ReadIsWhole'
  BY DEF ReadIsWhole, LoTypeOK, ReadSoFar, ReadView, Reading
<1> QED
  BY <1>1, <1>2, <1>3, <1>4, <1>5, <1>6, <1>7, <1>8 DEF LoInv

LEMMA ReadLoTellKeeps == LoInv /\ ReadLoTell => LoInv'
<1> SUFFICES ASSUME LoInv, ReadLoTell PROVE LoInv'
  OBVIOUS
<1> USE LoAssumption, OidAssumption DEF NoOid, Absent, LoInv, callVars, dbVars,
       ReadLoTell, Held, Return, Does, Fails, Failed, Succeeds, Works
<1>1. LoTypeOK'
  <2>1. ControlTyped'
    BY DEF ControlTyped, LoTypeOK, OpenBelongs, ReadView, Reading
  <2>2. TxTyped'
    BY DEF TxTyped, LoTypeOK
  <2>3. ObjectsTyped'
    BY DEF ObjectsTyped, LoTypeOK
  <2>4. OpenTyped'
    BY DEF OpenTyped, LoTypeOK, OpenBelongs, ReadView, Reading
  <2>5. HistoryTyped'
    <3>1. clean' \in BOOLEAN /\ begun' = begun /\ born' = born
      BY DEF LoTypeOK
    <3>2. got' = got \/ \E ok \in BOOLEAN :
            got' = [ok |-> ok, len |-> len, size |-> begun.size, inTx |-> begun.inTx,
                    clean |-> clean']
      OBVIOUS
    <3>3. len \in Nat /\ begun.size \in Nat \cup {Absent} /\ begun.inTx \in BOOLEAN
      BY DEF LoTypeOK
    <3>4. got' \in [ok : BOOLEAN, len : Nat, size : Nat \cup {Absent}, inTx : BOOLEAN,
                    clean : BOOLEAN]
      BY <3>1, <3>2, <3>3 DEF LoTypeOK
    <3> QED
      BY <3>1, <3>4 DEF HistoryTyped, LoTypeOK
  <2>6. CountsTyped'
    BY DEF CountsTyped, LoTypeOK
  <2> QED
    BY <2>1, <2>2, <2>3, <2>4, <2>5, <2>6
       DEF ControlTyped, TxTyped, ObjectsTyped, OpenTyped, HistoryTyped, CountsTyped, LoTypeOK
<1>2. Settled'
  BY DEF Settled
<1>3. OpenBelongs'
  BY DEF OpenBelongs, LoTypeOK, Settled, ReadView, Reading
<1>4. Making'
  BY DEF Making, LoTypeOK
<1>5. WholeObjects'
  BY DEF WholeObjects, LoTypeOK, Settled, Making, Target, OpenBelongs
<1>6. ReadView'
  BY DEF ReadView, LoTypeOK, Reading, Settled
<1>7. ReadSoFar'
  BY DEF ReadSoFar, LoTypeOK, Settled, OpenBelongs, ReadView, Reading
<1>8. ReadIsWhole'
  BY DEF ReadIsWhole, LoTypeOK, ReadSoFar, ReadView, Reading
<1> QED
  BY <1>1, <1>2, <1>3, <1>4, <1>5, <1>6, <1>7, <1>8 DEF LoInv

LEMMA ReadLoSeekSetKeeps == LoInv /\ ReadLoSeekSet => LoInv'
<1> SUFFICES ASSUME LoInv, ReadLoSeekSet PROVE LoInv'
  OBVIOUS
<1> USE LoAssumption, OidAssumption DEF NoOid, Absent, LoInv, callVars, dbVars,
       ReadLoSeekSet, Held, Positioned, Does, Fails, Failed, Succeeds, Works, Goto
<1>1. LoTypeOK'
  <2>1. ControlTyped'
    BY DEF ControlTyped, LoTypeOK
  <2>2. TxTyped'
    BY DEF TxTyped, LoTypeOK
  <2>3. ObjectsTyped'
    BY DEF ObjectsTyped, LoTypeOK
  <2>4. OpenTyped'
    BY DEF OpenTyped, LoTypeOK, OpenBelongs, ReadView, Reading
  <2>5. HistoryTyped'
    BY DEF HistoryTyped, LoTypeOK
  <2>6. CountsTyped'
    BY DEF CountsTyped, LoTypeOK
  <2> QED
    BY <2>1, <2>2, <2>3, <2>4, <2>5, <2>6
       DEF ControlTyped, TxTyped, ObjectsTyped, OpenTyped, HistoryTyped, CountsTyped, LoTypeOK
<1>2. Settled'
  BY DEF Settled
<1>3. OpenBelongs'
  BY DEF OpenBelongs, LoTypeOK, Settled, ReadView, Reading
<1>4. Making'
  BY DEF Making, LoTypeOK
<1>5. WholeObjects'
  BY DEF WholeObjects, LoTypeOK, Settled, Making, Target, OpenBelongs
<1>6. ReadView'
  BY DEF ReadView, LoTypeOK, Reading, Settled
<1>7. ReadSoFar'
  BY DEF ReadSoFar, LoTypeOK, Settled, OpenBelongs, ReadView, Reading
<1>8. ReadIsWhole'
  BY DEF ReadIsWhole, LoTypeOK, ReadSoFar, ReadView, Reading
<1> QED
  BY <1>1, <1>2, <1>3, <1>4, <1>5, <1>6, <1>7, <1>8 DEF LoInv

LEMMA ReadLoReadKeeps == LoInv /\ ReadLoRead => LoInv'
<1> SUFFICES ASSUME LoInv, ReadLoRead PROVE LoInv'
  OBVIOUS
<1> USE LoAssumption, OidAssumption DEF NoOid, Absent, LoInv, callVars, dbVars,
       ReadLoRead, Held, Does, Fails, Failed, Succeeds, Works
<1>1. LoTypeOK'
  <2>1. ControlTyped'
    BY DEF ControlTyped, LoTypeOK
  <2>2. TxTyped'
    BY DEF TxTyped, LoTypeOK
  <2>3. ObjectsTyped'
    BY DEF ObjectsTyped, LoTypeOK
  <2>4. OpenTyped'
    BY DEF OpenTyped, LoTypeOK, OpenBelongs, ReadView, Reading
  <2>5. HistoryTyped'
    BY DEF HistoryTyped, LoTypeOK
  <2>6. CountsTyped'
    BY DEF CountsTyped, LoTypeOK
  <2> QED
    BY <2>1, <2>2, <2>3, <2>4, <2>5, <2>6
       DEF ControlTyped, TxTyped, ObjectsTyped, OpenTyped, HistoryTyped, CountsTyped, LoTypeOK
<1>2. Settled'
  BY DEF Settled
<1>3. OpenBelongs'
  BY DEF OpenBelongs, LoTypeOK, Settled, ReadView, Reading
<1>4. Making'
  BY DEF Making, LoTypeOK
<1>5. WholeObjects'
  BY DEF WholeObjects, LoTypeOK, Settled, Making, Target, OpenBelongs
<1>6. ReadView'
  BY DEF ReadView, LoTypeOK, Reading, Settled
<1>7. ReadSoFar'
  BY DEF ReadSoFar, LoTypeOK, Settled, OpenBelongs, ReadView, Reading
<1>8. ReadIsWhole'
  BY DEF ReadIsWhole, LoTypeOK, ReadSoFar, ReadView, Reading
<1> QED
  BY <1>1, <1>2, <1>3, <1>4, <1>5, <1>6, <1>7, <1>8 DEF LoInv

LEMMA ReadLoCloseKeeps == LoInv /\ ReadLoClose => LoInv'
<1> SUFFICES ASSUME LoInv, ReadLoClose PROVE LoInv'
  OBVIOUS
<1> USE LoAssumption, OidAssumption DEF NoOid, Absent, LoInv, callVars, dbVars,
       ReadLoClose, Held, Return, Does, Fails, Failed, Succeeds, Works, Goto
<1>1. LoTypeOK'
  <2>1. ControlTyped'
    BY DEF ControlTyped, LoTypeOK
  <2>2. TxTyped'
    BY DEF TxTyped, LoTypeOK
  <2>3. ObjectsTyped'
    BY DEF ObjectsTyped, LoTypeOK
  <2>4. OpenTyped'
    BY DEF OpenTyped, LoTypeOK, OpenBelongs, ReadView, Reading
  <2>5. HistoryTyped'
    BY DEF HistoryTyped, LoTypeOK
  <2>6. CountsTyped'
    BY DEF CountsTyped, LoTypeOK
  <2> QED
    BY <2>1, <2>2, <2>3, <2>4, <2>5, <2>6
       DEF ControlTyped, TxTyped, ObjectsTyped, OpenTyped, HistoryTyped, CountsTyped, LoTypeOK
<1>2. Settled'
  BY DEF Settled
<1>3. OpenBelongs'
  BY DEF OpenBelongs, LoTypeOK, Settled, ReadView, Reading
<1>4. Making'
  BY DEF Making, LoTypeOK
<1>5. WholeObjects'
  BY DEF WholeObjects, LoTypeOK, Settled, Making, Target, OpenBelongs
<1>6. ReadView'
  BY DEF ReadView, LoTypeOK, Reading, Settled
<1>7. ReadSoFar'
  BY DEF ReadSoFar, LoTypeOK, Settled, OpenBelongs, ReadView, Reading
<1>8. ReadIsWhole'
  BY DEF ReadIsWhole, LoTypeOK, ReadSoFar, ReadView, Reading
<1> QED
  BY <1>1, <1>2, <1>3, <1>4, <1>5, <1>6, <1>7, <1>8 DEF LoInv

LEMMA RmLoKeeps == LoInv /\ RmLo => LoInv'
<1> SUFFICES ASSUME LoInv, RmLo PROVE LoInv'
  OBVIOUS
<1> USE LoAssumption, OidAssumption DEF NoOid, Absent, LoInv, callVars, dbVars,
       RmLo, Exists, Size, Does, Fails, Failed, Succeeds, Works, Goto
<1>1. LoTypeOK'
  <2>1. ControlTyped'
    BY DEF ControlTyped, LoTypeOK
  <2>2. TxTyped'
    BY DEF TxTyped, LoTypeOK
  <2>3. ObjectsTyped'
    BY DEF ObjectsTyped, LoTypeOK
  <2>4. OpenTyped'
    BY DEF OpenTyped, LoTypeOK, OpenBelongs, ReadView, Reading
  <2>5. HistoryTyped'
    BY DEF HistoryTyped, LoTypeOK
  <2>6. CountsTyped'
    BY DEF CountsTyped, LoTypeOK
  <2> QED
    BY <2>1, <2>2, <2>3, <2>4, <2>5, <2>6
       DEF ControlTyped, TxTyped, ObjectsTyped, OpenTyped, HistoryTyped, CountsTyped, LoTypeOK
<1>2. Settled'
  BY DEF Settled
<1>3. OpenBelongs'
  BY DEF OpenBelongs, LoTypeOK, Settled, ReadView, Reading
<1>4. Making'
  BY DEF Making, LoTypeOK
<1>5. WholeObjects'
  BY DEF WholeObjects, LoTypeOK, Settled, Making, Target, OpenBelongs
<1>6. ReadView'
  BY DEF ReadView, LoTypeOK, Reading, Settled
<1>7. ReadSoFar'
  BY DEF ReadSoFar, LoTypeOK, Settled, OpenBelongs, ReadView, Reading
<1>8. ReadIsWhole'
  BY DEF ReadIsWhole, LoTypeOK, ReadSoFar, ReadView, Reading
<1> QED
  BY <1>1, <1>2, <1>3, <1>4, <1>5, <1>6, <1>7, <1>8 DEF LoInv

LEMMA BreakKeeps == LoInv /\ Break => LoInv'
<1> SUFFICES ASSUME LoInv, Break PROVE LoInv'
  OBVIOUS
<1> USE LoAssumption, OidAssumption DEF NoOid, Absent, LoInv, callVars, dbVars,
       Break
<1>1. LoTypeOK'
  <2>1. ControlTyped'
    BY DEF ControlTyped, LoTypeOK
  <2>2. TxTyped'
    BY DEF TxTyped, LoTypeOK
  <2>3. ObjectsTyped'
    BY DEF ObjectsTyped, LoTypeOK
  <2>4. OpenTyped'
    BY DEF OpenTyped, LoTypeOK, OpenBelongs, ReadView, Reading
  <2>5. HistoryTyped'
    BY DEF HistoryTyped, LoTypeOK
  <2>6. CountsTyped'
    BY DEF CountsTyped, LoTypeOK
  <2> QED
    BY <2>1, <2>2, <2>3, <2>4, <2>5, <2>6
       DEF ControlTyped, TxTyped, ObjectsTyped, OpenTyped, HistoryTyped, CountsTyped, LoTypeOK
<1>2. Settled'
  BY DEF Settled
<1>3. OpenBelongs'
  BY DEF OpenBelongs, LoTypeOK, Settled, ReadView, Reading
<1>4. Making'
  BY DEF Making, LoTypeOK
<1>5. WholeObjects'
  BY DEF WholeObjects, LoTypeOK, Settled, Making, Target, OpenBelongs
<1>6. ReadView'
  BY DEF ReadView, LoTypeOK, Reading, Settled
<1>7. ReadSoFar'
  BY DEF ReadSoFar, LoTypeOK, Settled, OpenBelongs, ReadView, Reading
<1>8. ReadIsWhole'
  BY DEF ReadIsWhole, LoTypeOK, ReadSoFar, ReadView, Reading
<1> QED
  BY <1>1, <1>2, <1>3, <1>4, <1>5, <1>6, <1>7, <1>8 DEF LoInv

LEMMA LoInvariant == Spec => []LoInv
<1>1. LoInv /\ [Next]_vars => LoInv'
  <2>1. CASE UNCHANGED vars
    BY <2>1 DEF vars, callVars, dbVars, LoInv, LoTypeOK, Settled, OpenBelongs, Making,
       WholeObjects, Target, ReadView, Reading, ReadSoFar, ReadIsWhole
  <2> QED
    BY <2>1, BeginKeeps, CommitKeeps, RollbackKeeps,
       CallNewLoKeeps, CallReadLoKeeps, CallRmLoKeeps, NewLoCreatKeeps,
       NewLoOpenKeeps, NewLoWriteKeeps, NewLoCloseKeeps, ReadLoOpenKeeps,
       ReadLoSeekEndKeeps, ReadLoTellKeeps, ReadLoSeekSetKeeps, ReadLoReadKeeps,
       ReadLoCloseKeeps, RmLoKeeps, BreakKeeps
       DEF Next, Caller, Statement, Stopped
<1> QED
  BY <1>1, LoInit, PTL DEF Spec

\* Type correctness of the large object calls.
THEOREM LoTypeCorrect == Spec => []LoTypeOK
<1>1. LoInv => LoTypeOK
  BY DEF LoInv
<1> QED
  BY <1>1, LoInvariant, PTL

\* No half-written object is ever committed, whatever fails in new_lo.
THEOREM NothingHalfWritten == Spec => []NoHalfObject
<1>1. LoInv => NoHalfObject
  BY DEF LoInv, WholeObjects, Target, NoHalfObject
<1> QED
  BY <1>1, LoInvariant, PTL

\* read_lo returns true exactly with the whole object, in one transaction.
THEOREM ReadsAreWhole == Spec => []ReadIsWhole
<1>1. LoInv => ReadIsWhole
  BY DEF LoInv
<1> QED
  BY <1>1, LoInvariant, PTL

\* No call leaves a descriptor open.
THEOREM DescriptorsAreClosed == Spec => []NoDescriptorLeft
<1>1. LoInv => NoDescriptorLeft
  BY DEF LoInv, OpenBelongs, NoDescriptorLeft
<1> QED
  BY <1>1, LoInvariant, PTL

-----------------------------------------------------------------------------
(* Results (PgResults)                                                      *)

Cells(cols) == [1 .. Len(cols) -> Values \cup {Null}]
CellOf(v) == IF v = Null THEN Empty ELSE v

\* What the first n columns give a line: the first of every name.
Firsts(cols, n) == {j \in 1 .. n : \A k \in 1 .. j - 1 : cols[k].name # cols[j].name}

PartOf(cells, cols, n) ==
  {[name |-> cols[i].name, value |-> CellOf(cells[i])] : i \in Firsts(cols, n)}

\* A result in work has a row of cells for every line, and a count when exec()
\* looks for one.
ResultOK ==
  /\ result.cols \in Heads \cup {<<>>} /\ result.count \in {NoCount} \cup Nat
  /\ step \in {"columns", "cells"} =>
       result.cols \in Seq(Column) /\ result.table \in Seq(Cells(result.cols))

\* col_map is what the result says, as far as the first loop has come.
ColumnsSoFar ==
  /\ colMap \in Seq(Column)
  /\ step \in {"columns", "cells"} =>
       /\ Len(colMap) <= Len(result.cols)
       /\ \A k \in 1 .. Len(colMap) : colMap[k] = result.cols[k]
  /\ step = "cells" => Len(colMap) = Len(result.cols)

\* The line in the making has the columns in front of col, and a name for
\* each of them.
LineSoFar ==
  /\ row \in Nat \ {0} /\ col \in Nat \ {0} /\ line \subseteq Entry
  /\ step = "columns" => row = 1 /\ col = 1 /\ line = {}
  /\ step = "cells" =>
       /\ row <= Len(result.table) + 1 /\ col <= Len(result.cols) + 1
       /\ row = Len(result.table) + 1 => col = 1
       /\ row <= Len(result.table) =>
            line = PartOf(result.table[row], result.cols, col - 1)
       /\ row = Len(result.table) + 1 => line = {}
       /\ \A k \in 1 .. col - 1 : \E d \in line : d.name = result.cols[k].name

\* The vector has what it had, and a line for every row in front of row.
LinesSoFar ==
  /\ lines \in Seq(SUBSET Entry) /\ before \in Seq(SUBSET Entry)
  /\ step \in {"count", "columns"} => lines = before
  /\ step = "cells" =>
       /\ Len(lines) = Len(before) + row - 1
       /\ \A k \in 1 .. Len(before) : lines[k] = before[k]
       /\ \A r \in 1 .. row - 1 :
            lines[Len(before) + r] = LineOf(result.table[r], result.cols)

Accounted == uncleared = IF step = "idle" THEN 0 ELSE 1

Counters ==
  /\ step \in {"idle", "count", "columns", "cells"}
  /\ ret \in Int /\ made \in 0 .. MaxMade

ResultsInv ==
  Counters /\ ResultOK /\ ColumnsSoFar /\ LineSoFar /\ LinesSoFar /\ Accounted

-----------------------------------------------------------------------------
\* A field reaches the line as its value, escaped on the way or not.
LEMMA ValueOfText ==
  ASSUME NEW c \in Column, NEW v \in Values \cup {Null}
  PROVE  Value(c, Text(c, v)) = CellOf(v) /\ CellOf(v) \in Values
<1>1. CASE v = Null
  BY <1>1, ResultsAssumption DEF Value, Text, PQunescapeBytea, CellOf
<1>2. CASE v # Null /\ ~c.bytea
  BY <1>2 DEF Value, Text, CellOf
<1>3. CASE v # Null /\ c.bytea
  <2>1. v \in Values /\ [escaped |-> v] # Empty
    BY <1>3, ResultsAssumption
  <2>2. Text(c, v) = [escaped |-> v]
    BY <1>3 DEF Text
  <2> QED
    BY <1>3, <2>1, <2>2 DEF Value, PQunescapeBytea, CellOf
<1> QED
  BY <1>1, <1>2, <1>3

\* A row is its first columns, all of them; no columns give nothing.
LEMMA WholeLine ==
  ASSUME NEW cells, NEW cols
  PROVE  PartOf(cells, cols, Len(cols)) = LineOf(cells, cols) /\ PartOf(cells, cols, 0) = {}
<1>1. PartOf(cells, cols, Len(cols)) = LineOf(cells, cols)
  BY DEF PartOf, Firsts, LineOf, CellOf
<1>2. Firsts(cols, 0) = {}
  BY DEF Firsts
<1> QED
  BY <1>1, <1>2 DEF PartOf

\* map::insert adds the next column unless its name is there.
LEMMA NextColumn ==
  ASSUME NEW cols \in Seq(Column), NEW cells \in Cells(cols),
         NEW n \in Nat, n < Len(cols),
         line = PartOf(cells, cols, n),
         \A k \in 1 .. n : \E d \in line : d.name = cols[k].name,
         NEW e, e = [name |-> cols[n + 1].name, value |-> CellOf(cells[n + 1])]
  PROVE  /\ Insert(e) = PartOf(cells, cols, n + 1)
         /\ \A k \in 1 .. n + 1 : \E d \in Insert(e) : d.name = cols[k].name
<1>0. e.name = cols[n + 1].name
  OBVIOUS
<1>1. CASE \E d \in line : d.name = cols[n + 1].name
  <2>1. PICK i \in 1 .. n : cols[i].name = cols[n + 1].name
    <3>1. PICK d \in line : d.name = cols[n + 1].name
      BY <1>1
    <3>2. PICK i \in Firsts(cols, n) : d = [name |-> cols[i].name, value |-> CellOf(cells[i])]
      BY DEF PartOf
    <3>3. i \in 1 .. n
      BY DEF Firsts
    <3>4. cols[i].name = cols[n + 1].name
      BY <3>1, <3>2
    <3> QED
      BY <3>3, <3>4
  <2>2. Firsts(cols, n + 1) = Firsts(cols, n)
    BY <2>1 DEF Firsts
  <2>3. Insert(e) = line
    BY <1>0, <1>1 DEF Insert
  <2>4. \A k \in 1 .. n + 1 : k \in 1 .. n \/ k = n + 1
    OBVIOUS
  <2>5. \A k \in 1 .. n + 1 : \E d \in line : d.name = cols[k].name
    BY <1>1, <2>4
  <2>6. PartOf(cells, cols, n + 1) = line
    BY <2>2 DEF PartOf
  <2> QED
    BY <2>3, <2>5, <2>6
<1>2. CASE ~ \E d \in line : d.name = cols[n + 1].name
  <2>1. \A k \in 1 .. n : cols[k].name # cols[n + 1].name
    BY <1>2
  <2>2. Firsts(cols, n + 1) = Firsts(cols, n) \cup {n + 1}
    <3>1. 1 .. n + 1 = (1 .. n) \cup {n + 1} /\ (n + 1) - 1 = n
      OBVIOUS
    <3>2. n + 1 \in Firsts(cols, n + 1)
      BY <2>1, <3>1 DEF Firsts
    <3>3. \A j \in 1 .. n : j \in Firsts(cols, n + 1) <=> j \in Firsts(cols, n)
      BY <3>1 DEF Firsts
    <3>4. Firsts(cols, n) \subseteq 1 .. n /\ Firsts(cols, n + 1) \subseteq 1 .. n + 1
      BY DEF Firsts
    <3> QED
      BY <3>1, <3>2, <3>3, <3>4
  <2>3. Insert(e) = line \cup {e}
    BY <1>0, <1>2 DEF Insert
  <2>4. line \cup {e} = PartOf(cells, cols, n + 1)
    BY <2>2 DEF PartOf
  <2>5. \A k \in 1 .. n + 1 : k \in 1 .. n \/ k = n + 1
    OBVIOUS
  <2>6. \A k \in 1 .. n + 1 : \E d \in line \cup {e} : d.name = cols[k].name
    BY <1>0, <2>5
  <2> QED
    BY <2>3, <2>4, <2>6
<1> QED
  BY <1>1, <1>2

-----------------------------------------------------------------------------
\* Before the first call nothing is in work.
LEMMA ResultsInitial == ResultsInit => ResultsInv
BY ResultsAssumption
  DEF ResultsInit, ResultsInv, Counters, ResultOK, ColumnsSoFar, LineSoFar, LinesSoFar,
      Accounted, Nothing, NoCount, Entry, Column

\* A call that got no result leaves everything as it was.
LEMMA CallFailsKeeps == ResultsInv /\ CallFails => ResultsInv'
<1> SUFFICES ASSUME ResultsInv, CallFails PROVE ResultsInv'
  OBVIOUS
<1>1. /\ step = "idle" /\ made < MaxMade /\ made' = made + 1 /\ before' = lines
      /\ ret' \in {-1, 0} /\ UNCHANGED <<step, result, lines, uncleared>>
      /\ UNCHANGED loopVars
  BY DEF CallFails, CallResult
<1>2. Counters' /\ Accounted'
  BY <1>1, ResultsAssumption DEF ResultsInv, Counters, Accounted
<1>3. ResultOK' /\ ColumnsSoFar' /\ LineSoFar'
  BY <1>1 DEF ResultsInv, loopVars, ResultOK, ColumnsSoFar, LineSoFar
<1>4. LinesSoFar'
  BY <1>1 DEF ResultsInv, LinesSoFar
<1>5. QED
  BY <1>2, <1>3, <1>4 DEF ResultsInv

\* exec() has a count to read.
LEMMA CallExecKeeps == ResultsInv /\ CallExec => ResultsInv'
<1> SUFFICES ASSUME ResultsInv, CallExec PROVE ResultsInv'
  OBVIOUS
<1>1. /\ step = "idle" /\ made < MaxMade /\ made' = made + 1 /\ before' = lines
      /\ step' = "count" /\ uncleared' = uncleared + 1
      /\ UNCHANGED <<lines, ret>> /\ UNCHANGED loopVars
  BY DEF CallExec, CallResult
<1>2. PICK n \in {NoCount} \cup 0 .. MaxCount : result' = [Nothing EXCEPT !.count = n]
  BY DEF CallExec
<1>3. result'.cols = <<>> /\ result'.count = n
  BY <1>2 DEF Nothing
<1>4. Counters' /\ Accounted'
  BY <1>1, ResultsAssumption DEF ResultsInv, Counters, Accounted
<1>5. ResultOK'
  BY <1>1, <1>3, ResultsAssumption DEF ResultOK
<1>6. ColumnsSoFar' /\ LineSoFar'
  BY <1>1 DEF ResultsInv, loopVars, ColumnsSoFar, LineSoFar
<1>7. LinesSoFar'
  BY <1>1 DEF ResultsInv, LinesSoFar
<1>8. QED
  BY <1>4, <1>5, <1>6, <1>7 DEF ResultsInv

\* query() has a table whose rows have a cell for every column.
LEMMA CallQueryKeeps == ResultsInv /\ CallQuery => ResultsInv'
<1> SUFFICES ASSUME ResultsInv, CallQuery PROVE ResultsInv'
  OBVIOUS
<1>1. PICK cols \in Heads : \E t \in Tables(cols) :
        result' = [Nothing EXCEPT !.cols = cols, !.table = t]
  BY DEF CallQuery
<1>2. PICK t \in Tables(cols) : result' = [Nothing EXCEPT !.cols = cols, !.table = t]
  BY <1>1
<1>3. result'.cols = cols /\ result'.table = t /\ result'.count = NoCount
  BY <1>2 DEF Nothing
<1>4. cols \in Seq(Column)
  BY ResultsAssumption DEF Column
<1>5. t \in Seq(Cells(cols))
  <2>1. PICK r \in 0 .. MaxRows : t \in [1 .. r -> Cells(cols)]
    BY DEF Tables, Cells
  <2> QED
    BY <2>1, SeqDef, ResultsAssumption
<1>6. ResultOK'
  BY <1>3, <1>4, <1>5 DEF ResultOK
<1>7. step' = "columns" /\ colMap' = <<>> /\ Len(<<>>) = 0 /\ Len(cols) \in Nat
  BY <1>4, LenProperties DEF CallQuery
<1>8. ColumnsSoFar'
  BY <1>3, <1>7, EmptySeq DEF ColumnsSoFar
<1>9. LineSoFar' /\ LinesSoFar'
  BY <1>7 DEF CallQuery, CallResult, LineSoFar, LinesSoFar, ResultsInv
<1>10. Counters' /\ Accounted'
  BY <1>7, ResultsAssumption DEF CallQuery, CallResult, Counters, Accounted, ResultsInv
<1> QED
  BY <1>6, <1>8, <1>9, <1>10 DEF ResultsInv

\* exec() clears its result.
LEMMA ExecCountKeeps == ResultsInv /\ ExecCount => ResultsInv'
BY ResultsAssumption
  DEF ExecCount, Clear, AsInt, NoCount, loopVars, ResultsInv, Counters, ResultOK,
      ColumnsSoFar, LineSoFar, LinesSoFar, Accounted

\* A column more is known.
LEMMA QueryColumnKeeps == ResultsInv /\ QueryColumn => ResultsInv'
<1> SUFFICES ASSUME ResultsInv, QueryColumn PROVE ResultsInv'
  OBVIOUS
<1> DEFINE n == Len(colMap)
<1>1. /\ step = "columns" /\ n \in Nat /\ n < Len(result.cols)
      /\ colMap \in Seq(Column) /\ result.cols \in Seq(Column)
      /\ colMap' = Append(colMap, result.cols[n + 1])
  BY DEF QueryColumn, ResultsInv, ColumnsSoFar, ResultOK
<1>2. result.cols[n + 1] \in Column
  BY <1>1, ElementOfSeq
<1>3. /\ colMap' \in Seq(Column) /\ Len(colMap') = n + 1
      /\ \A k \in 1 .. n : colMap'[k] = colMap[k]
      /\ colMap'[n + 1] = result.cols[n + 1]
  BY <1>1, <1>2
<1>4. \A k \in 1 .. n + 1 : colMap'[k] = result.cols[k]
  <2>1. \A k \in 1 .. n : colMap[k] = result.cols[k]
    BY <1>1 DEF ResultsInv, ColumnsSoFar
  <2>2. \A k \in 1 .. n + 1 : k \in 1 .. n \/ k = n + 1
    BY <1>1
  <2> QED
    BY <1>3, <2>1, <2>2
<1>5. ColumnsSoFar'
  BY <1>1, <1>3, <1>4 DEF QueryColumn, ColumnsSoFar
<1> QED
  BY <1>5 DEF QueryColumn, ResultsInv, Counters, ResultOK, LineSoFar, LinesSoFar, Accounted

\* All columns are known, and no row has been taken.
LEMMA QueryColumnsEndKeeps == ResultsInv /\ QueryColumnsEnd => ResultsInv'
<1> SUFFICES ASSUME ResultsInv, QueryColumnsEnd PROVE ResultsInv'
  OBVIOUS
<1>1. result.cols \in Seq(Column) /\ result.table \in Seq(Cells(result.cols))
  BY DEF QueryColumnsEnd, ResultsInv, ResultOK
<1>2. Len(result.cols) \in Nat /\ Len(result.table) \in Nat
  BY <1>1, LenProperties
<1>3. row = 1 /\ col = 1 /\ line = {} /\ lines = before /\ Len(before) \in Nat
  BY DEF QueryColumnsEnd, ResultsInv, LineSoFar, LinesSoFar
<1>4. LineSoFar'
  BY <1>2, <1>3, WholeLine DEF QueryColumnsEnd, loopVars, LineSoFar, Entry
<1>5. LinesSoFar'
  BY <1>2, <1>3 DEF QueryColumnsEnd, loopVars, ResultsInv, LinesSoFar
<1> QED
  BY <1>4, <1>5 DEF QueryColumnsEnd, loopVars, ResultsInv, Counters, ResultOK,
       ColumnsSoFar, Accounted

\* A column more is in the line.
LEMMA QueryCellKeeps == ResultsInv /\ QueryCell => ResultsInv'
<1> SUFFICES ASSUME ResultsInv, QueryCell PROVE ResultsInv'
  OBVIOUS
<1> DEFINE cols == result.cols
           cells == result.table[row]
           e == [name |-> cols[col].name, value |-> CellOf(cells[col])]
<1>1. /\ step = "cells" /\ cols \in Seq(Column) /\ result.table \in Seq(Cells(cols))
      /\ row \in 1 .. Len(result.table) /\ col \in 1 .. Len(cols) /\ Len(cols) \in Nat
      /\ Len(result.table) \in Nat
  BY LenProperties DEF QueryCell, MoreRows, ResultsInv, ResultOK, LineSoFar
<1>2. cells \in Cells(cols) /\ cells[col] \in Values \cup {Null} /\ cols[col] \in Column
  BY <1>1, ElementOfSeq DEF Cells
<1>3. colMap[col] = cols[col]
  BY <1>1 DEF ResultsInv, ColumnsSoFar
<1>4. Value(cols[col], Text(cols[col], cells[col])) = CellOf(cells[col])
      /\ CellOf(cells[col]) \in Values
  BY <1>2, ValueOfText
<1>5. line' = Insert(e)
  BY <1>3, <1>4 DEF QueryCell
<1>6. e \in Entry
  BY <1>2, <1>4 DEF Entry, Column
<1>7. line' \subseteq Entry
  BY <1>5, <1>6 DEF Insert, ResultsInv, LineSoFar
<1>8. /\ line' = PartOf(cells, cols, col)
      /\ \A k \in 1 .. col : \E d \in line' : d.name = cols[k].name
  <2>1. /\ line = PartOf(cells, cols, col - 1)
        /\ \A k \in 1 .. col - 1 : \E d \in line : d.name = cols[k].name
    BY <1>1 DEF ResultsInv, LineSoFar
  <2> DEFINE n == col - 1
  <2>2. n \in Nat /\ n < Len(cols) /\ n + 1 = col
    BY <1>1
  <2>3. line = PartOf(cells, cols, n) /\ \A k \in 1 .. n : \E d \in line : d.name = cols[k].name
    BY <2>1
  <2>4. e = [name |-> cols[n + 1].name, value |-> CellOf(cells[n + 1])]
    BY <2>2
  <2> HIDE DEF n, e, cols, cells
  <2>5. /\ Insert(e) = PartOf(cells, cols, n + 1)
        /\ \A k \in 1 .. n + 1 : \E d \in Insert(e) : d.name = cols[k].name
    BY <1>1, <1>2, <2>2, <2>3, <2>4, NextColumn
  <2> QED
    BY <1>5, <2>2, <2>5
<1>9. result' = result /\ row' = row /\ col' = col + 1 /\ step' = "cells"
  BY <1>1 DEF QueryCell
<1>10. LineSoFar'
  <2>1. /\ col' - 1 = col /\ row' \in Nat \ {0} /\ col' \in Nat \ {0}
        /\ row' # Len(result'.table) + 1 /\ row' <= Len(result'.table) + 1
        /\ col' <= Len(result'.cols) + 1
    BY <1>1, <1>9
  <2>2. /\ line' = PartOf(result'.table[row'], result'.cols, col' - 1)
        /\ \A k \in 1 .. col' - 1 : \E d \in line' : d.name = result'.cols[k].name
    BY <1>8, <1>9, <2>1
  <2> QED
    BY <1>7, <1>9, <2>1, <2>2 DEF LineSoFar
<1> QED
  BY <1>10 DEF QueryCell, ResultsInv, Counters, ResultOK, ColumnsSoFar, LinesSoFar, Accounted

\* A line more is in the vector, and the next begins empty.
LEMMA QueryLineKeeps == ResultsInv /\ QueryLine => ResultsInv'
<1> SUFFICES ASSUME ResultsInv, QueryLine PROVE ResultsInv'
  OBVIOUS
<1> DEFINE cols == result.cols
           cells == result.table[row]
<1>1. /\ step = "cells" /\ cols \in Seq(Column) /\ result.table \in Seq(Cells(cols))
      /\ row \in 1 .. Len(result.table) /\ Len(cols) \in Nat /\ Len(result.table) \in Nat
      /\ col = Len(cols) + 1 /\ line \subseteq Entry
  BY LenProperties DEF QueryLine, MoreRows, ResultsInv, ResultOK, LineSoFar
<1>2. line = LineOf(cells, cols)
  <2>1. line = PartOf(cells, cols, col - 1) /\ col - 1 = Len(cols)
    BY <1>1 DEF ResultsInv, LineSoFar
  <2> QED
    BY <2>1, WholeLine
<1>3. /\ result' = result /\ step' = "cells" /\ row' = row + 1 /\ col' = 1 /\ line' = {}
      /\ lines' = Append(lines, line) /\ before' = before
  BY <1>1 DEF QueryLine
<1>4. LineSoFar'
  BY <1>1, <1>3, WholeLine DEF LineSoFar, Entry
<1>5. LinesSoFar'
  <2> DEFINE b == Len(before)
  <2>1. /\ lines \in Seq(SUBSET Entry) /\ before \in Seq(SUBSET Entry)
        /\ b \in Nat /\ Len(lines) = b + row - 1
        /\ \A k \in 1 .. b : lines[k] = before[k]
        /\ \A r \in 1 .. row - 1 : lines[b + r] = LineOf(result.table[r], cols)
    BY <1>1, LenProperties DEF ResultsInv, LinesSoFar
  <2>2. /\ lines' \in Seq(SUBSET Entry) /\ Len(lines') = b + row
        /\ \A k \in 1 .. b + row - 1 : lines'[k] = lines[k]
        /\ lines'[b + row] = line
    BY <1>1, <1>3, <2>1
  <2>3. \A k \in 1 .. b : lines'[k] = before[k]
    BY <1>1, <2>1, <2>2
  <2>4. \A r \in 1 .. row : lines'[b + r] = LineOf(result.table[r], cols)
    <3> SUFFICES ASSUME NEW r \in 1 .. row PROVE lines'[b + r] = LineOf(result.table[r], cols)
      OBVIOUS
    <3>1. CASE r = row
      BY <3>1, <1>2, <2>2
    <3>2. CASE r # row
      <4>1. r \in 1 .. row - 1 /\ b + r \in 1 .. b + row - 1
        BY <3>2, <1>1, <2>1
      <4>2. lines[b + r] = LineOf(result.table[r], cols)
        BY <4>1, <2>1
      <4> QED
        BY <4>1, <4>2, <2>2
    <3> QED
      BY <3>1, <3>2
  <2>5. row' - 1 = row /\ Len(lines') = Len(before') + row' - 1
    BY <1>1, <1>3, <2>1, <2>2
  <2>6. \A r \in 1 .. row' - 1 : lines'[Len(before') + r] = LineOf(result'.table[r], result'.cols)
    BY <1>3, <2>4, <2>5
  <2> HIDE DEF b, cols, cells
  <2> QED
    BY <1>3, <2>1, <2>2, <2>3, <2>5, <2>6 DEF LinesSoFar, b
<1> QED
  BY <1>4, <1>5 DEF QueryLine, ResultsInv, Counters, ResultOK, ColumnsSoFar, Accounted

\* query() clears its result.
LEMMA QueryEndKeeps == ResultsInv /\ QueryEnd => ResultsInv'
BY DEF QueryEnd, Clear, loopVars, ResultsInv, Counters, ResultOK, ColumnsSoFar,
       LineSoFar, LinesSoFar, Accounted

\* Every step keeps the invariant.
LEMMA ResultsStep == ResultsInv /\ [ResultsNext]_resultsVars => ResultsInv'
<1> SUFFICES ASSUME ResultsInv, [ResultsNext]_resultsVars PROVE ResultsInv'
  OBVIOUS
<1>1. CASE UNCHANGED resultsVars
  BY <1>1 DEF resultsVars, loopVars, ResultsInv, Counters, ResultOK, ColumnsSoFar,
       LineSoFar, LinesSoFar, Accounted
<1>2. CASE ResultsOver
  BY <1>1, <1>2 DEF ResultsOver
<1> QED
  BY <1>1, <1>2, CallFailsKeeps, CallExecKeeps, CallQueryKeeps, ExecCountKeeps,
     QueryColumnKeeps, QueryColumnsEndKeeps, QueryCellKeeps, QueryLineKeeps, QueryEndKeeps
     DEF ResultsNext

\* In every state the invariant holds.
LEMMA ResultsInvariant == ResultsSpec => []ResultsInv
BY ResultsInitial, ResultsStep, PTL DEF ResultsSpec

-----------------------------------------------------------------------------
\* Every variable holds a value of its type, for any columns, rows and values:
\* no value is left escaped (query).
THEOREM ResultsTypeCorrect == ResultsSpec => []ResultsTypeOK
<1>1. ResultsInv => ResultsTypeOK
  BY DEF ResultsInv, Counters, ResultOK, ColumnsSoFar, LineSoFar, LinesSoFar, Accounted,
         ResultsTypeOK, Column
<1> QED
  BY <1>1, ResultsInvariant, PTL

\* Between calls every PGresult is cleared, once (exec, query).
THEOREM ResultsAreCleared == ResultsSpec => []ResultsCleared
<1>1. ResultsInv => ResultsCleared
  BY DEF ResultsInv, Accounted, ResultsCleared
<1> QED
  BY <1>1, ResultsInvariant, PTL

\* The vector is what it was and a line for every row, when the loop has ended.
LEMMA AllAppended ==
  ASSUME ResultsInv, QueryEnd
  PROVE  lines = before \o [r \in 1 .. Len(result.table) |->
                              LineOf(result.table[r], result.cols)]
<1> DEFINE n == Len(result.table)
           new == [r \in 1 .. n |-> LineOf(result.table[r], result.cols)]
           b == Len(before)
<1>1. step = "cells" /\ result.table \in Seq(Cells(result.cols))
      /\ n \in Nat /\ row = n + 1
  BY LenProperties DEF QueryEnd, MoreRows, ResultsInv, ResultOK, LineSoFar
<1>2. /\ lines \in Seq(SUBSET Entry) /\ before \in Seq(SUBSET Entry)
      /\ b \in Nat /\ Len(lines) = b + n
      /\ \A k \in 1 .. b : lines[k] = before[k]
      /\ \A r \in 1 .. n : lines[b + r] = new[r]
  BY <1>1, LenProperties DEF ResultsInv, LinesSoFar
<1>3. new \in Seq(SUBSET Entry) /\ Len(new) = n
  <2>1. \A r \in 1 .. n : new[r] \in SUBSET Entry
    <3> SUFFICES ASSUME NEW r \in 1 .. n PROVE new[r] \in SUBSET Entry
      OBVIOUS
    <3>1. b + r \in 1 .. Len(lines)
      BY <1>1, <1>2
    <3> QED
      BY <1>2, <3>1, ElementOfSeq
  <2>2. new \in [1 .. n -> SUBSET Entry]
    BY <2>1
  <2> HIDE DEF new
  <2> QED
    BY <1>1, <2>2, SeqDef
<1> HIDE DEF new
<1>4. /\ before \o new \in Seq(SUBSET Entry) /\ Len(before \o new) = b + n
      /\ \A i \in 1 .. b + n : (before \o new)[i] = IF i <= b THEN before[i] ELSE new[i - b]
  <2> DEFINE Lines == SUBSET Entry
  <2>1. before \in Seq(Lines) /\ new \in Seq(Lines)
    BY <1>2, <1>3
  <2> HIDE DEF Lines
  <2>2. before \o new \in Seq(Lines)
    BY <2>1, ConcatProperties
  <2>3. Len(before \o new) = Len(before) + Len(new)
    BY <2>1, ConcatProperties
  <2>4. \A i \in 1 .. Len(before) + Len(new) :
          (before \o new)[i] = IF i <= Len(before) THEN before[i] ELSE new[i - Len(before)]
    BY <2>1, ConcatProperties, Zenon
  <2> QED
    BY <1>3, <2>2, <2>3, <2>4 DEF Lines
<1>5. \A i \in 1 .. b + n : lines[i] = (before \o new)[i]
  <2> SUFFICES ASSUME NEW i \in 1 .. b + n PROVE lines[i] = (before \o new)[i]
    OBVIOUS
  <2>1. CASE i <= b
    BY <2>1, <1>1, <1>2, <1>4
  <2>2. CASE ~ i <= b
    <3>1. i - b \in 1 .. n /\ b + (i - b) = i
      BY <2>2, <1>1, <1>2
    <3>2. lines[b + (i - b)] = new[i - b]
      BY <3>1, <1>2
    <3> QED
      BY <2>2, <3>1, <3>2, <1>4
  <2> QED
    BY <2>1, <2>2
<1>6. lines = before \o new
  BY <1>2, <1>4, <1>5, SeqEqual
<1> QED
  BY <1>6 DEF new

\* A query that returns true has appended its rows, in order, one line each; one
\* that returns false, and exec(), nothing; for tables of any size (query).
THEOREM RowsAreAppended == ResultsSpec => QueryAppendsRows
<1> DEFINE Appends ==
      step # "idle" /\ step' = "idle" =>
        lines' = IF step = "count" THEN before
                 ELSE before \o [r \in 1 .. Len(result.table) |->
                                   LineOf(result.table[r], result.cols)]
<1>1. ResultsInv /\ [ResultsNext]_resultsVars => Appends
  <2> SUFFICES ASSUME ResultsInv, [ResultsNext]_resultsVars, step # "idle", step' = "idle"
               PROVE  Appends
    OBVIOUS
  <2>1. ExecCount \/ QueryEnd
    BY DEF resultsVars, ResultsNext, CallFails, CallExec, CallQuery, CallResult,
           QueryColumn, QueryColumnsEnd, QueryCell, QueryLine, ResultsOver
  <2>2. CASE ExecCount
    BY <2>2 DEF ExecCount, ResultsInv, LinesSoFar
  <2>3. CASE QueryEnd
    BY <2>3, AllAppended DEF QueryEnd
  <2> QED
    BY <2>1, <2>2, <2>3
<1> QED
  BY <1>1, ResultsInvariant, PTL DEF ResultsSpec, QueryAppendsRows

\* What exe_core kept comes back as a count from 0 on, the true one whenever it
\* fits, however large the tag's count is (exec).
THEOREM ExecTellsDone == ResultsSpec => ExecNeverFailsWhatIsDone
<1>1. ResultsInv /\ [ResultsNext]_resultsVars =>
        (step = "count" /\ step' = "idle" =>
           ret' >= 0 /\ (result.count \in 0 .. IntMax => ret' = result.count))
  <2> SUFFICES ASSUME ResultsInv, [ResultsNext]_resultsVars, step = "count", step' = "idle"
               PROVE  ret' >= 0 /\ (result.count \in 0 .. IntMax => ret' = result.count)
    OBVIOUS
  <2>1. ExecCount
    BY DEF resultsVars, ResultsNext, CallFails, CallExec, CallQuery, CallResult,
           QueryColumn, QueryColumnsEnd, QueryCell, QueryLine, QueryEnd, ResultsOver
  <2> QED
    BY <2>1, ResultsAssumption DEF ExecCount, AsInt, NoCount, ResultsInv, ResultOK
<1> QED
  BY <1>1, ResultsInvariant, PTL DEF ResultsSpec, ExecNeverFailsWhatIsDone

-----------------------------------------------------------------------------
(* The table of error codes (PgErrorMgr)                                    *)

InInstance(t) == place[t] \in {"locked", "reset", "init", "return"}

\* Who is inside instance() holds the mutex.
Exclusive == \A t \in Threads : InInstance(t) <=> t \in holder

\* self_ is empty until its first holder is past the test, and the table it
\* points to is full unless a thread in init() fills it.
SelfIsFilled ==
  /\ \A t \in Threads : place[t] = "reset" => self = NoTable
  /\ \A t \in Threads : place[t] \in {"init", "return"} => self # NoTable
  /\ self # NoTable /\ (\A t \in Threads : place[t] # "init") => table[self] = Codes

\* instance() hands out self_.
GotSelf ==
  \A t \in Threads :
    /\ place[t] = "is_in" => copy[t] # NoTable
    /\ place[t] = "is_in" \/ copy[t] # NoTable =>
         self # NoTable /\ copy[t] = self /\ table[self] = Codes

MgrInv == MgrTypeOK /\ Exclusive /\ SelfIsFilled /\ GotSelf /\ AnswersAreFinal

\* The first state is typed, with no table anywhere.
LEMMA MgrInitial == MgrInit => MgrInv
BY MgrAssumption DEF MgrInit, MgrInv, MgrTypeOK, Exclusive, InInstance, SelfIsFilled, GotSelf,
   AnswersAreFinal, NoAnswer

\* Every step of a thread keeps the invariant.
LEMMA MgrStep == MgrInv /\ [MgrNext]_mgrVars => MgrInv'
<1> SUFFICES ASSUME MgrInv, [MgrNext]_mgrVars PROVE MgrInv'
  OBVIOUS
<1> USE MgrAssumption
<1>1. CASE UNCHANGED mgrVars
  BY <1>1 DEF mgrVars, MgrInv, MgrTypeOK, Exclusive, InInstance, SelfIsFilled, GotSelf,
     AnswersAreFinal
<1>2. ASSUME NEW t \in Threads, Lock(t) PROVE MgrInv'
  BY <1>2 DEF Lock, Moves, MgrInv, MgrTypeOK, Exclusive, InInstance, SelfIsFilled, GotSelf,
     AnswersAreFinal
<1>3. ASSUME NEW t \in Threads, EmptySelf(t) PROVE MgrInv'
  BY <1>3 DEF EmptySelf, Moves, MgrInv, MgrTypeOK, Exclusive, InInstance, SelfIsFilled, GotSelf,
     AnswersAreFinal
<1>4. ASSUME NEW t \in Threads, Found(t) PROVE MgrInv'
  BY <1>4 DEF Found, Moves, MgrInv, MgrTypeOK, Exclusive, InInstance, SelfIsFilled, GotSelf,
     AnswersAreFinal
<1>5. ASSUME NEW t \in Threads, Make(t) PROVE MgrInv'
  BY <1>5 DEF Make, Moves, MgrInv, MgrTypeOK, Exclusive, InInstance, SelfIsFilled, GotSelf,
     AnswersAreFinal
<1>6. ASSUME NEW t \in Threads, InsertCode(t) PROVE MgrInv'
  BY <1>6 DEF InsertCode, Moves, MgrInv, MgrTypeOK, Exclusive, InInstance, SelfIsFilled, GotSelf,
     AnswersAreFinal
<1>7. ASSUME NEW t \in Threads, Filled(t) PROVE MgrInv'
  BY <1>7 DEF Filled, Moves, MgrInv, MgrTypeOK, Exclusive, InInstance, SelfIsFilled, GotSelf,
     AnswersAreFinal
<1>8. ASSUME NEW t \in Threads, ReturnSelf(t) PROVE MgrInv'
  BY <1>8 DEF ReturnSelf, Moves, MgrInv, MgrTypeOK, Exclusive, InInstance, SelfIsFilled, GotSelf,
     AnswersAreFinal
<1>9. ASSUME NEW t \in Threads, is_in(t) PROVE MgrInv'
  <2>1. PICK code \in 1 .. Codes + 1 :
          answer' = [answer EXCEPT ![t] = [code |-> code, known |-> code <= table[copy[t]]]]
    BY <1>9 DEF is_in
  <2>2. table[copy[t]] = Codes
    BY <1>9 DEF is_in, Moves, MgrInv, GotSelf
  <2>3. answer'[t].known <=> answer'[t].code <= Codes
    BY <2>1, <2>2 DEF MgrInv, MgrTypeOK
  <2>4. AnswersAreFinal' /\ answer' \in [Threads -> [code : 1 .. Codes + 1, known : BOOLEAN]]
    BY <2>1, <2>2, <2>3 DEF MgrInv, MgrTypeOK, AnswersAreFinal
  <2> QED
    BY <1>9, <2>4 DEF is_in, Moves, MgrInv, MgrTypeOK, Exclusive, InInstance, SelfIsFilled, GotSelf
<1> QED
  BY <1>1, <1>2, <1>3, <1>4, <1>5, <1>6, <1>7, <1>8, <1>9 DEF MgrNext, instance

LEMMA MgrInvariant == MgrSpec => []MgrInv
BY MgrInitial, MgrStep, PTL DEF MgrSpec

\* Type correctness, and one holder of the mutex at most.
THEOREM MgrTypeCorrect == MgrSpec => []MgrTypeOK
<1>1. MgrInv => MgrTypeOK
  BY DEF MgrInv
<1> QED
  BY <1>1, MgrInvariant, PTL

\* is_in() answers from a complete table, whatever threads call it first.
THEOREM AnswersFinal == MgrSpec => []AnswersAreFinal
<1>1. MgrInv => AnswersAreFinal
  BY DEF MgrInv
<1> QED
  BY <1>1, MgrInvariant, PTL

\* There is one table, and it is never replaced.
THEOREM TableIsUnique == MgrSpec => OneTable
<1>1. MgrInv /\ MgrInv' /\ [MgrNext]_mgrVars =>
        [ /\ \A t \in Threads : copy'[t] \in {NoTable, self'}
          /\ self # NoTable => self' = self ]_mgrVars
  <2> SUFFICES ASSUME MgrInv, MgrInv', MgrNext
               PROVE /\ \A t \in Threads : copy'[t] \in {NoTable, self'}
                     /\ self # NoTable => self' = self
    OBVIOUS
  <2>1. \A t \in Threads : copy'[t] \in {NoTable, self'}
    BY DEF MgrInv, GotSelf
  <2>2. self # NoTable => self' = self
    BY DEF MgrInv, SelfIsFilled, MgrNext, instance, Lock, EmptySelf, Found, Make, InsertCode, Filled,
       ReturnSelf, is_in, Moves
  <2> QED
    BY <2>1, <2>2
<1> QED
  BY <1>1, MgrInvariant, PTL DEF MgrSpec, OneTable

-----------------------------------------------------------------------------
(* All parts (MCPgClient)                                                   *)

LEMMA AllParts == MCSpec => Spec /\ ResultsSpec /\ MgrSpec
<1>1. MCInit => Init /\ ResultsInit /\ MgrInit
  BY DEF MCInit
<1>2. [MCNext]_<<work, vars, resultsVars, mgrVars>> =>
        [Next]_vars /\ [ResultsNext]_resultsVars /\ [MgrNext]_mgrVars
  BY DEF MCNext
<1>3. QED
  BY <1>1, <1>2, PTL DEF MCSpec, Spec, ResultsSpec, MgrSpec

\* Every variable of every part holds a value of its type, and a result is
\* cleared before the call that made it returns (exec, query).
THEOREM PgClientTypeCorrect == MCSpec => []PgClientTypeOK
BY AllParts, LoTypeCorrect, ResultsTypeCorrect, ResultsAreCleared, MgrTypeCorrect, PTL
   DEF PgClientTypeOK
=============================================================================
