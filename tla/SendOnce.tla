------------------------------ MODULE SendOnce ------------------------------
(***************************************************************************)
(* What a row of communications with an idempotency key promises, whoever  *)
(* works on it: the attempt is registered before the provider is called,   *)
(* the provider is called once at most, and an attempt whose outcome is    *)
(* unknown stays pending for ever instead of being repeated.               *)
(*                                                                         *)
(* Source: the comments of backend/app/models/communication.py and the     *)
(* first lines of backend/app/services/communication_delivery.py.          *)
(***************************************************************************)
EXTENDS Naturals

CONSTANT Attempts   \* the rows

VARIABLES
  state,  \* where each attempt is
  sends   \* how many times the provider was called for it

onceVars == <<state, sends>>

Init ==
  /\ state = [a \in Attempts |-> "open"]
  /\ sends = [a \in Attempts |-> 0]

Register(a) ==
  /\ state[a] = "open"
  /\ state' = [state EXCEPT ![a] = "pending"]
  /\ UNCHANGED sends

Send(a) ==
  /\ state[a] = "pending" /\ sends[a] = 0
  /\ sends' = [sends EXCEPT ![a] = 1]
  /\ UNCHANGED state

Confirm(a) ==
  /\ state[a] = "pending" /\ sends[a] = 1
  /\ state' = [state EXCEPT ![a] = "done"]
  /\ UNCHANGED sends

\* The provider refused, or the channel was switched off.
Void(a) ==
  /\ state[a] \in {"open", "pending"}
  /\ state' = [state EXCEPT ![a] = "void"]
  /\ UNCHANGED sends

Next == \E a \in Attempts : Register(a) \/ Send(a) \/ Confirm(a) \/ Void(a)

Spec == Init /\ [][Next]_onceVars
=============================================================================
