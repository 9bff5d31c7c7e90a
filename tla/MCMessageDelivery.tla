------------------------- MODULE MCMessageDelivery -------------------------
(* Small instances of MessageDelivery. *)
EXTENDS MessageDelivery, TLC

Alike == Permutations(Procs) \cup Permutations(Rfqs)
=============================================================================
