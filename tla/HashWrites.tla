----------------------------- MODULE HashWrites -----------------------------
(***************************************************************************)
(* What the driver promises about its writes, with no connection, retry or *)
(* cluster in sight.  Writer w hands over the fields 0, 1, ... of its own  *)
(* hash in order.  It moves on from a field only when the field is written *)
(* or the cluster refused it; a field may be written again, or late, but   *)
(* never ahead of its turn.                                                *)
(***************************************************************************)
EXTENDS Naturals

CONSTANTS Writers, Count

VARIABLES
  done,     \* fields each writer has finished with
  written,  \* pairs <<writer, field>> present in the cluster
  refused   \* pairs the cluster refused, or can no longer be asked to write

vars == <<done, written, refused>>

Field == 0 .. (Count - 1)

Init ==
  /\ done = [w \in Writers |-> 0]
  /\ written = {}
  /\ refused = {}

\* The cluster executes a write, the current one or an earlier one again.
Write(w, i) ==
  /\ i <= done[w]
  /\ written' = written \cup {<<w, i>>}
  /\ UNCHANGED <<done, refused>>

\* The cluster answers the current field with an error of its own.
Refuse(w) ==
  /\ refused' = refused \cup {<<w, done[w]>>}
  /\ UNCHANGED <<done, written>>

\* The writer's connection becomes unusable: nothing from here on is promised.
LoseWriter(w) ==
  /\ refused' = refused \cup {<<w, i>> : i \in {j \in Field : j >= done[w]}}
  /\ UNCHANGED <<done, written>>

Return(w) ==
  /\ <<w, done[w]>> \in written \cup refused
  /\ done' = [done EXCEPT ![w] = @ + 1]
  /\ UNCHANGED <<written, refused>>

Next ==
  \E w \in Writers :
    \/ \E i \in Field : Write(w, i)
    \/ done[w] < Count /\ (Refuse(w) \/ LoseWriter(w) \/ Return(w))

Spec == Init /\ [][Next]_vars
=============================================================================
