----------------------------- MODULE MCAgentRun -----------------------------
(* Small instances of AgentRun. *)
EXTENDS AgentRun, TLC

CONSTANTS m1, m2, c1, c2

Symmetry == Permutations({c1, c2}) \cup Permutations({m1, m2})

=============================================================================
