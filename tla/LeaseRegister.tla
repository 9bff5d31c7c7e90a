--------------------------- MODULE LeaseRegister ---------------------------
(***************************************************************************)
(* What the lease columns of a search run promise, whatever the queue does *)
(* with its other columns: a lease is granted only over a free, lapsed or  *)
(* own lease, and every grant carries a fencing number of its own.         *)
(* SearchQueue implements this module.                                     *)
(*                                                                         *)
(* Source: backend/app/services/search_lease.py.                           *)
(***************************************************************************)
EXTENDS Naturals

CONSTANTS
  Jobs,
  Holders,
  Nobody    \* none of Holders

VARIABLES
  holder,   \* who was granted each job last and has not been relieved
  fence,    \* the number of grants of each job
  valid     \* the lease has not lapsed

regVars == <<holder, fence, valid>>

Init ==
  /\ holder = [j \in Jobs |-> Nobody]
  /\ fence = [j \in Jobs |-> 0]
  /\ valid = [j \in Jobs |-> FALSE]

Grant(j, h) ==
  /\ ~valid[j] \/ holder[j] = h
  /\ holder' = [holder EXCEPT ![j] = h]
  /\ fence' = [fence EXCEPT ![j] = @ + 1]
  /\ valid' = [valid EXCEPT ![j] = TRUE]

\* A lapsed lease that nobody took may be revived by its holder.
Renew(j) ==
  /\ holder[j] # Nobody
  /\ valid' = [valid EXCEPT ![j] = TRUE]
  /\ UNCHANGED <<holder, fence>>

Lapse(j) ==
  /\ valid' = [valid EXCEPT ![j] = FALSE]
  /\ UNCHANGED <<holder, fence>>

\* One transaction may relieve several jobs.
Relieve(S) ==
  /\ holder' = [j \in Jobs |-> IF j \in S THEN Nobody ELSE holder[j]]
  /\ valid' = [j \in Jobs |-> IF j \in S THEN FALSE ELSE valid[j]]
  /\ UNCHANGED fence

Next ==
  \/ \E j \in Jobs : (\E h \in Holders : Grant(j, h)) \/ Renew(j) \/ Lapse(j)
  \/ \E S \in SUBSET Jobs : Relieve(S)

Spec == Init /\ [][Next]_regVars
=============================================================================
