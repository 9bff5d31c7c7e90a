---------------------------- MODULE MCEchemiJobs ----------------------------
(* Two cards of one company.                                               *)
EXTENDS EchemiJobs, TLC

SellerOf == [c \in Cards |-> CHOOSE s \in Companies : TRUE]

AlikeCards == Permutations(Cards)
=============================================================================
