-------------------------------- MODULE MCYpg --------------------------------
(* Two consumers that both have an insert and an update to execute: the    *)
(* insert is a duplicate when it comes again, the update takes effect      *)
(* again.                                                                  *)
EXTENDS Ypg, TLC
CONSTANTS c1, c2, ins, upd, k

MCKey == [s \in {ins} |-> k]
SameConsumers == Permutations({c1, c2})
=============================================================================
