---------------------------- MODULE MCScheduler -----------------------------
(* Two pods, of which the second needs a whole node, on one node.          *)
EXTENDS Scheduler

CONSTANTS small, big

MCPods == {small, big}
MCRequest == [p \in MCPods |-> IF p = big THEN 2 ELSE 1]
MCPriority == [p \in MCPods |-> 0]

=============================================================================
