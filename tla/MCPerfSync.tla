----------------------------- MODULE MCPerfSync -----------------------------
(* Values of the constants: a few threads on a cluster of two nodes that   *)
(* share one ip, as deployed by family_deploy/r.sh.                        *)
EXTENDS PerfSync
CONSTANTS ip1, p1

MCCallers == 0 .. (N - 1)
MCFixedIp == [c \in 0 .. (N - 1) |-> NoIp]
MCSeed == [ip |-> ip1, port |-> p1]
=============================================================================
