----------------------------- MODULE MCLlmSlots -----------------------------
(* A small instance of LlmSlots: a process with two threads and one with one. *)
EXTENDS LlmSlots, TLC

CONSTANTS a1, a2, b1, ProcA, ProcB

ThreeCallers == (a1 :> ProcA) @@ (a2 :> ProcA) @@ (b1 :> ProcB)
=============================================================================
