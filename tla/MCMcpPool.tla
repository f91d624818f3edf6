------------------------------ MODULE MCMcpPool ------------------------------
(* McpPool for TLC: the managers are alike. *)
EXTENDS McpPool, TLC

Symmetry == Permutations(Manager)
==============================================================================
