--------------------------- MODULE MCSearchQueue ---------------------------
(* Small instances of SearchQueue. *)
EXTENDS SearchQueue, TLC

\* Every search is for its own substance, or all are for the same one.
OwnSubstance == [g \in AllGroups |-> g]
OneSubstance == [g \in AllGroups |-> "cas"]

WorkerSymmetry == Permutations(Workers)
=============================================================================
