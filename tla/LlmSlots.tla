------------------------------ MODULE LlmSlots ------------------------------
(***************************************************************************)
(* The places at the local model: rows of the llm_slots table that the     *)
(* threads of all processes take for the time of one call.                 *)
(*                                                                         *)
(* Source: backend/app/services/llm_capacity.py, its caller in             *)
(* extraction/llm_client.py.                                               *)
(*                                                                         *)
(* Every database transaction is a step.  _try_take is one: FOR UPDATE     *)
(* SKIP LOCKED serialises the takers of a row.  The set-up is three:       *)
(* counting the rows, reading them and changing them.                      *)
(***************************************************************************)
EXTENDS Naturals, FiniteSets

CONSTANTS
  Callers,       \* threads that call the model
  ProcessOf,     \* the process of each thread; its name is the owner of a slot
  Free,          \* owner IS NULL
  Slots,         \* configured_slots()
  InitialRows,   \* rows of the table when the processes start
  LocalSlots,    \* DEFAULT_SLOTS, the places of the semaphore in a process
  MaxRows        \* bound: row ids ever used

RowIds == 1 .. MaxRows
Processes == {ProcessOf[c] : c \in Callers}
NoRow == 0

ASSUME SlotsAssumption ==
  /\ Slots \in Nat \ {0} /\ InitialRows \in Nat /\ MaxRows \in Nat
  /\ Slots <= MaxRows /\ InitialRows <= MaxRows
  /\ LocalSlots \in Nat
  /\ DOMAIN ProcessOf = Callers
  /\ Free \notin Processes

VARIABLES
  rows,     \* ids of the rows that exist
  nextRow,  \* the sequence of the primary key
  owner,    \* column owner
  exp,      \* column expires_at
  pc,       \* where each caller is in model_slot
  listed,   \* the rows ensure_slots has read
  slot      \* slot_id

slotVars == <<rows, nextRow, owner, exp, pc, listed, slot>>
table == <<rows, nextRow, owner, exp>>

\* The processes that ran before may have left some rows taken.
Init ==
  /\ rows = 1 .. InitialRows
  /\ nextRow = InitialRows + 1
  /\ owner \in [RowIds -> Processes \cup {Free}]
  /\ \A r \in RowIds \ rows : owner[r] = Free
  /\ exp = [r \in RowIds |-> IF owner[r] = Free THEN "none" ELSE "live"]
  /\ pc = [c \in Callers |-> "out"]
  /\ listed = [c \in Callers |-> {}]
  /\ slot = [c \in Callers |-> NoRow]

Goto(c, p) == pc' = [pc EXCEPT ![c] = p]

\* generate_json enters `with model_slot(...)`.
Enter(c) ==
  /\ pc[c] = "out"
  /\ Goto(c, "count")
  /\ UNCHANGED <<table, listed, slot>>

\* _needs_setup
CountRows(c) ==
  /\ pc[c] = "count"
  /\ Goto(c, IF Cardinality(rows) # Slots THEN "list" ELSE "take")
  /\ UNCHANGED <<table, listed, slot>>

\* ensure_slots: the query
ListRows(c) ==
  /\ pc[c] = "list"
  /\ listed' = [listed EXCEPT ![c] = rows]
  /\ Goto(c, "resize")
  /\ UNCHANGED <<table, slot>>

\* Mutant: one row too few is removed.
BeyondInclusive(S, n) == {r \in S : Cardinality({q \in S : q < r}) > n}

\* The rows after the first n, in the order of their ids.
Beyond(S, n) == {r \in S : Cardinality({q \in S : q < r}) >= n}

Extra(S) == Beyond(S, Slots)

\* ensure_slots: the rows that were missing are added and the extra ones are
\* removed, whoever has taken them; then commit.
Resize(c) ==
  /\ pc[c] = "resize"
  /\ LET have == Cardinality(listed[c])
         last == nextRow + (IF have < Slots THEN Slots - have ELSE 0)
     IN /\ last <= MaxRows + 1
        /\ rows' = (rows \ Extra(listed[c])) \cup (nextRow .. last - 1)
        /\ nextRow' = last
  /\ listed' = [listed EXCEPT ![c] = {}]
  /\ Goto(c, "take")
  /\ UNCHANGED <<owner, exp, slot>>

\* Mutant: who has taken the row is not looked at.
IsFreeAnyway(r) == r \in rows

IsFree(r) == r \in rows /\ (owner[r] = Free \/ exp[r] = "past")

\* Mutant: expires_at stays empty.
OccupyForGood(r, c) ==
  /\ owner' = [owner EXCEPT ![r] = ProcessOf[c]]
  /\ exp' = exp

\* Mutant: the row is taken in the name of the thread.
OccupyByThread(r, c) ==
  /\ owner' = [owner EXCEPT ![r] = c]
  /\ exp' = [exp EXCEPT ![r] = "live"]

Occupy(r, c) ==
  /\ owner' = [owner EXCEPT ![r] = ProcessOf[c]]
  /\ exp' = [exp EXCEPT ![r] = "live"]

\* _try_take
Take(c) ==
  /\ pc[c] = "take"
  /\ \E r \in RowIds :
       /\ IsFree(r)
       /\ \A q \in RowIds : IsFree(q) => r <= q
       /\ Occupy(r, c)
       /\ slot' = [slot EXCEPT ![c] = r]
  /\ Goto(c, "call")
  /\ UNCHANGED <<rows, nextRow, listed>>

\* No free row: sleep and start over, or give up after wait_s seconds.
Wait(c) ==
  /\ pc[c] = "take"
  /\ \A r \in RowIds : ~IsFree(r)
  /\ Goto(c, "count") \/ Goto(c, "out")
  /\ UNCHANGED <<table, listed, slot>>

\* The model answers, fails or times out.
CallEnds(c) ==
  /\ pc[c] \in {"call", "local_call"}
  /\ Goto(c, IF pc[c] = "call" THEN "release" ELSE "out")
  /\ UNCHANGED <<table, listed, slot>>

Mine(c) == slot[c] \in rows /\ owner[slot[c]] = ProcessOf[c]

\* _release; a storage error while releasing is swallowed.
Release(c) ==
  /\ pc[c] = "release"
  /\ \/ /\ Mine(c)
        /\ owner' = [owner EXCEPT ![slot[c]] = Free]
        /\ exp' = [exp EXCEPT ![slot[c]] = "none"]
     \/ UNCHANGED <<owner, exp>>
  /\ slot' = [slot EXCEPT ![c] = NoRow]
  /\ Goto(c, "out")
  /\ UNCHANGED <<rows, nextRow, listed>>

\* A storage error before the slot is taken: this call is limited by the
\* semaphore of its own process.
StorageFails(c) ==
  /\ pc[c] \in {"count", "list", "resize", "take"}
  /\ Goto(c, "local_wait")
  /\ listed' = [listed EXCEPT ![c] = {}]
  /\ UNCHANGED <<table, slot>>

LocalCalls(p) == {c \in Callers : ProcessOf[c] = p /\ pc[c] = "local_call"}

TakeLocal(c) ==
  /\ pc[c] = "local_wait"
  /\ Cardinality(LocalCalls(ProcessOf[c])) < LocalSlots
  /\ Goto(c, "local_call")
  /\ UNCHANGED <<table, listed, slot>>

\* A process dies with its threads; its rows stay taken.
Die(p) ==
  /\ pc' = [c \in Callers |-> IF ProcessOf[c] = p THEN "out" ELSE pc[c]]
  /\ listed' = [c \in Callers |-> IF ProcessOf[c] = p THEN {} ELSE listed[c]]
  /\ slot' = [c \in Callers |-> IF ProcessOf[c] = p THEN NoRow ELSE slot[c]]
  /\ UNCHANGED table

InUse(r) == \E c \in Callers : slot[c] = r

\* LEASE_TTL_S is longer than a call: the deadline passes only over a row whose
\* user is gone.
Expire(r) ==
  /\ exp[r] = "live" /\ ~InUse(r)
  /\ exp' = [exp EXCEPT ![r] = "past"]
  /\ UNCHANGED <<rows, nextRow, owner, pc, listed, slot>>

CallerStep(c) ==
  \/ Enter(c) \/ CountRows(c) \/ ListRows(c) \/ Resize(c) \/ Take(c) \/ Wait(c)
  \/ CallEnds(c) \/ Release(c) \/ StorageFails(c) \/ TakeLocal(c)

Next ==
  \/ \E c \in Callers : CallerStep(c)
  \/ \E p \in Processes : Die(p)
  \/ \E r \in RowIds : Expire(r)

Spec == Init /\ [][Next]_slotVars

\* A call has a timeout, what follows it is not blocked, and clocks advance.
Fairness ==
  /\ \A c \in Callers : WF_slotVars(CallEnds(c)) /\ WF_slotVars(Release(c))
  /\ \A r \in RowIds : WF_slotVars(Expire(r))

FairSpec == Spec /\ Fairness

----------------------------------------------------------------------------
(* Properties.                                                             *)

TypeOK ==
  /\ rows \subseteq RowIds
  /\ nextRow \in 1 .. MaxRows + 1
  /\ owner \in [RowIds -> Processes \cup {Free}]
  /\ exp \in [RowIds -> {"none", "live", "past"}]
  /\ pc \in [Callers -> {"out", "count", "list", "resize", "take", "call", "release",
                         "local_wait", "local_call"}]
  /\ listed \in [Callers -> SUBSET RowIds]
  /\ slot \in [Callers -> RowIds \cup {NoRow}]

\* No two callers are in a call on the same row, although the threads of one
\* process all take rows under the same owner name and rows are taken over
\* from the dead.
SlotsAreExclusive ==
  \A c, d \in Callers : c # d /\ slot[c] # NoRow => slot[c] # slot[d]

\* As many calls reach the model as it has places, not one more, while the
\* table shrinks to a smaller setting and processes die in the middle of calls.
CapacityRespected ==
  Cardinality({c \in Callers : pc[c] = "call"}) <= Slots

\* A row taken by a process that died comes back: it is given back or its
\* deadline passes.
SlotsComeBack ==
  \A r \in RowIds : owner[r] # Free ~> owner[r] = Free \/ exp[r] = "past"
=============================================================================
