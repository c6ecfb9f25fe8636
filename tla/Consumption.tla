----------------------------- MODULE Consumption -----------------------------
(***************************************************************************)
(* What exec() promises the clients that consume statements, with no       *)
(* connection, result or retry in sight.  A statement takes effect some    *)
(* time; one that creates a key does so only while the key is not there.   *)
(* A client is told that a statement is done only when it is.              *)
(***************************************************************************)
EXTENDS Naturals

CONSTANTS Consumers, Statements, Keyed, Key

VARIABLES
  done,    \* statements each client was told are done
  applied  \* how often each statement took effect

vars == <<done, applied>>

Init ==
  /\ done = [c \in Consumers |-> {}]
  /\ applied = [s \in Statements |-> 0]

InEffect(s) ==
  IF s \in Keyed
  THEN \E q \in Keyed : Key[q] = Key[s] /\ applied[q] > 0
  ELSE applied[s] > 0

TakeEffect(s) ==
  /\ ~(s \in Keyed /\ InEffect(s))
  /\ applied' = [applied EXCEPT ![s] = @ + 1]
  /\ UNCHANGED done

Report(c, s) ==
  /\ InEffect(s)
  /\ done' = [done EXCEPT ![c] = @ \cup {s}]
  /\ UNCHANGED applied

Next ==
  \E s \in Statements :
    TakeEffect(s) \/ \E c \in Consumers : Report(c, s)

Spec == Init /\ [][Next]_vars
=============================================================================
