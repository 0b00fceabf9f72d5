--------------------------- MODULE MCUpdatePrepare ---------------------------
(* Instances of UpdatePrepare for TLC.                                       *)
EXTENDS UpdatePrepare, TLC

\* The ids, the clients and, where none is adopted, the workers are interchangeable.
UpdateSymmetry == Permutations(Updates) \cup Permutations(Workers) \cup Permutations(Clients)

=============================================================================
