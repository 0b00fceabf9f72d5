---------------------------- MODULE MCInputPause ----------------------------
(* Small instances of InputPause: w1 and name both call the session w1. *)
EXTENDS InputPause

CONSTANTS c1, c2, k1, w1, w2, name, t1, t2

ByName == [s \in Selectors |-> IF s = name THEN w1 ELSE s]

Load(cs, ss, n, polite, fs) ==
  [conns |-> cs, sels |-> ss, keys |-> {k1}, acquires |-> n, polite |-> polite, faults |-> fs]

\* Two connections on one session, one on two sessions, one that pipelines
\* its commands, one with retries, and one acquire with everything going wrong.
Shared == Load({c1, c2}, {w1}, 2, TRUE, {})
TwoSessions == Load({c1}, {w1, w2}, 3, TRUE, {})
Pipelined == Load({c1}, {w1}, 2, FALSE, {})
Retries == Load({c1}, {w1}, 3, TRUE, {"timeout", "replaced"})
Faulty == Load({c1}, {w1}, 1, FALSE, Kinds)

AllLoads == {Shared, TwoSessions, Pipelined, Retries, Faulty}

\* Instances for one claim each.
OnlyPipelined == {Pipelined}
OnlyRetries == {Retries}
FailedWrite == {Load({c1}, {w1}, 1, TRUE, {"write"})}
TwoNames == {Load({c1}, {w1, name}, 2, TRUE, {})}

=============================================================================
