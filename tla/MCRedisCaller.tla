--------------------------- MODULE MCRedisCaller ---------------------------
(* One caller object with a fixed ip against any replies: callers share no *)
(* state, so a second one would only multiply the states.                  *)
EXTENDS RedisCaller
CONSTANTS c1, ip1, ip2, ip3

MCFixedIp == [c \in {c1} |-> ip3]
=============================================================================
