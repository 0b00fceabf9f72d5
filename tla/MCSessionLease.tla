--------------------------- MODULE MCSessionLease ---------------------------
(* Instances of SessionLease for TLC.                                      *)
EXTENDS SessionLease, TLC

CONSTANTS p1, p2, p3, a1, a2, a3, a4, t1, t2, t3

\* One thread per process, named like it.
OneThread == [p \in Procs |-> p]

\* Two threads of one process, and two rivals with a thread each.
TwoThreads == (a1 :> p1 @@ a2 :> p1 @@ a3 :> p2 @@ a4 :> p3)

TokenSymmetry == Permutations(Tokens)

\* Nothing is claimed of the states behind a torn guard: do not expand them.
Untorn == ~torn

=============================================================================
