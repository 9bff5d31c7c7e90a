--------------------------- MODULE LlmSlotsProofs ---------------------------
(***************************************************************************)
(* The slots at the model, for any number of threads, processes and slots: *)
(* no slot is used twice at a time, and no more calls than slots are in    *)
(* flight once the table has been set up with at least as many rows.       *)
(***************************************************************************)
EXTENDS LlmSlots, FiniteSetTheorems, TLAPS

\* A caller has a slot from the commit that takes it until it lets go.
Seated == \A c \in Callers : slot[c] # NoRow <=> pc[c] \in {"call", "release"}

\* The row of a slot is marked with its process, and its deadline is ahead.
Reserved ==
  \A c \in Callers : slot[c] # NoRow =>
    owner[slot[c]] = ProcessOf[c] /\ exp[slot[c]] = "live"

SeatInv == TypeOK /\ Seated /\ Reserved /\ SlotsAreExclusive

LEMMA SlotTypes == TypeOK /\ [Next]_slotVars => TypeOK'
<1>. SUFFICES ASSUME TypeOK, [Next]_slotVars PROVE TypeOK'
  OBVIOUS
<1>. USE SlotsAssumption DEF TypeOK, RowIds, Processes, NoRow, Goto, table
<1>1. ASSUME NEW c \in Callers, Enter(c) \/ CountRows(c) \/ ListRows(c) \/ Wait(c)
      PROVE  TypeOK'
  BY <1>1 DEF Enter, CountRows, ListRows, Wait
<1>2. ASSUME NEW c \in Callers, Resize(c) PROVE TypeOK'
  <2>. DEFINE last == nextRow + (IF Cardinality(listed[c]) < Slots
                                  THEN Slots - Cardinality(listed[c]) ELSE 0)
  <2>1. IsFiniteSet(listed[c])
    <3>1. IsFiniteSet(1 .. MaxRows)
      BY FS_Interval
    <3>2. listed[c] \in SUBSET (1 .. MaxRows)
      OBVIOUS
    <3>. QED  BY <3>1, <3>2, FS_Subset
  <2>2. Cardinality(listed[c]) \in Nat
    BY <2>1, FS_CardinalityType
  <2>3. last \in Nat /\ last <= MaxRows + 1 /\ nextRow <= last
    BY <1>2, <2>2 DEF Resize
  <2>4. nextRow' = last /\ rows' \subseteq rows \cup (nextRow .. last - 1)
    BY <1>2 DEF Resize
  <2>5. nextRow' \in 1 .. MaxRows + 1 /\ rows' \subseteq 1 .. MaxRows
    BY <2>3, <2>4
  <2>. QED  BY <1>2, <2>5 DEF Resize
<1>3. ASSUME NEW c \in Callers, Take(c) PROVE TypeOK'
  <2>1. PICK r \in RowIds : Occupy(r, c) /\ slot' = [slot EXCEPT ![c] = r]
    BY <1>3 DEF Take
  <2>. QED  BY <1>3, <2>1 DEF Take, Occupy
<1>4. ASSUME NEW c \in Callers, Release(c) PROVE TypeOK'
  BY <1>4 DEF Release
<1>5. ASSUME NEW c \in Callers, CallEnds(c) \/ StorageFails(c) \/ TakeLocal(c) PROVE TypeOK'
  BY <1>5 DEF CallEnds, StorageFails, TakeLocal
<1>6. ASSUME NEW p \in Processes, Die(p) PROVE TypeOK'
  BY <1>6 DEF Die
<1>7. ASSUME NEW r \in RowIds, Expire(r) PROVE TypeOK'
  BY <1>7 DEF Expire
<1>8. CASE UNCHANGED slotVars
  BY <1>8 DEF slotVars
<1>. QED  BY <1>1, <1>2, <1>3, <1>4, <1>5, <1>6, <1>7, <1>8 DEF Next, CallerStep

\* The steps that neither take nor give back a slot.
LEMMA SeatsRest ==
  ASSUME SeatInv, TypeOK', UNCHANGED <<owner, exp, slot>>,
         \A c \in Callers : pc[c] \in {"call", "release"} <=> pc'[c] \in {"call", "release"}
  PROVE  SeatInv'
  BY DEF SeatInv, Seated, Reserved, SlotsAreExclusive

LEMMA SeatStep == SeatInv /\ [Next]_slotVars => SeatInv'
<1>. SUFFICES ASSUME SeatInv, [Next]_slotVars PROVE SeatInv'
  OBVIOUS
<1>. USE DEF Goto, table
<1>0. TypeOK /\ TypeOK'
  BY SlotTypes DEF SeatInv
<1>1. ASSUME NEW c \in Callers,
             \/ Enter(c) \/ CountRows(c) \/ ListRows(c) \/ Resize(c) \/ Wait(c)
             \/ StorageFails(c) \/ TakeLocal(c)
      PROVE  SeatInv'
  BY <1>0, <1>1, SeatsRest
  DEF TypeOK, Enter, CountRows, ListRows, Resize, Wait, StorageFails, TakeLocal
<1>2. ASSUME NEW c \in Callers, Take(c) PROVE SeatInv'
  <2>1. PICK r \in RowIds : /\ IsFree(r) /\ Occupy(r, c)
                            /\ slot' = [slot EXCEPT ![c] = r]
    BY <1>2 DEF Take
  <2>2. ASSUME NEW d \in Callers, slot[d] # NoRow PROVE slot[d] # r
    BY <2>1, <2>2, SlotsAssumption DEF SeatInv, Reserved, IsFree, Processes
  <2>3. slot[c] = NoRow /\ r # NoRow /\ pc' = [pc EXCEPT ![c] = "call"]
    BY <1>2 DEF Take, SeatInv, Seated, RowIds, NoRow
  <2>4. Seated' /\ SlotsAreExclusive'
    BY <1>0, <2>1, <2>2, <2>3 DEF SeatInv, TypeOK, Seated, SlotsAreExclusive
  <2>5. Reserved'
    BY <1>0, <2>1, <2>2, <2>3 DEF SeatInv, TypeOK, Reserved, Occupy
  <2>. QED  BY <1>0, <2>4, <2>5 DEF SeatInv
<1>3. ASSUME NEW c \in Callers, CallEnds(c) PROVE SeatInv'
  BY <1>0, <1>3, SeatsRest DEF TypeOK, CallEnds
<1>4. ASSUME NEW c \in Callers, Release(c) PROVE SeatInv'
  <2>1. Seated' /\ SlotsAreExclusive'
    BY <1>0, <1>4 DEF SeatInv, TypeOK, Seated, SlotsAreExclusive, Release, NoRow
  <2>2. ASSUME NEW d \in Callers, slot'[d] # NoRow
        PROVE  owner'[slot'[d]] = ProcessOf[d] /\ exp'[slot'[d]] = "live"
    <3>1. d # c /\ slot'[d] = slot[d] /\ slot[c] # NoRow
      BY <1>0, <1>4, <2>2 DEF TypeOK, Release, SeatInv, Seated
    <3>2. slot[d] # slot[c] /\ owner[slot[d]] = ProcessOf[d] /\ exp[slot[d]] = "live"
      BY <2>2, <3>1 DEF SeatInv, Reserved, SlotsAreExclusive
    <3>. QED  BY <1>0, <1>4, <2>2, <3>1, <3>2 DEF TypeOK, Release
  <2>. QED  BY <1>0, <2>1, <2>2 DEF SeatInv, Reserved
<1>5. ASSUME NEW p \in Processes, Die(p) PROVE SeatInv'
  BY <1>0, <1>5 DEF Die, SeatInv, TypeOK, Seated, Reserved, SlotsAreExclusive, NoRow
<1>6. ASSUME NEW r \in RowIds, Expire(r) PROVE SeatInv'
  BY <1>0, <1>6 DEF Expire, InUse, SeatInv, TypeOK, Seated, Reserved, SlotsAreExclusive
<1>7. CASE UNCHANGED slotVars
  BY <1>7 DEF slotVars, SeatInv, TypeOK, Seated, Reserved, SlotsAreExclusive
<1>. QED  BY <1>1, <1>2, <1>3, <1>4, <1>5, <1>6, <1>7 DEF Next, CallerStep

LEMMA SeatInit == Init => SeatInv
  BY SlotsAssumption
  DEF Init, SeatInv, TypeOK, Seated, Reserved, SlotsAreExclusive, RowIds, NoRow, Processes

\* The variables of the slot table and of its callers keep their types, for
\* any number of rows, slots and callers.
THEOREM SlotsTyped == Spec => []TypeOK
<1>1. SeatInv => TypeOK
  BY DEF SeatInv
<1>. QED  BY <1>1, SeatInit, SeatStep, PTL DEF Spec

\* A row serves one caller at a time, although threads of one process share
\* the owner name, dead owners are taken over and rows are deleted while taken.
THEOREM SlotsExclusive == Spec => []SlotsAreExclusive
<1>1. SeatInv => SlotsAreExclusive
  BY DEF SeatInv
<1>. QED  BY <1>1, SeatInit, SeatStep, PTL DEF Spec

----------------------------------------------------------------------------
(* The capacity.                                                           *)

\* The table starts with a row for each slot, or more.
Enough == InitialRows >= Slots

\* The table holds its first rows, all or as many as there are slots; who looks
\* for a slot, or has one, has seen it at the right size.
ShrunkInv ==
  /\ nextRow = InitialRows + 1
  /\ rows \in {1 .. InitialRows, 1 .. Slots}
  /\ \A c \in Callers :
       /\ pc[c] = "resize" => \/ listed[c] = 1 .. InitialRows
                              \/ listed[c] = 1 .. Slots /\ rows = 1 .. Slots
       /\ pc[c] = "take" => rows = 1 .. Slots
       /\ slot[c] # NoRow => slot[c] \in 1 .. Slots

LEMMA ExtraRows ==
  ASSUME NEW n \in Nat PROVE Extra(1 .. n) = Slots + 1 .. n
<1>1. ASSUME NEW r \in 1 .. n PROVE Cardinality({q \in 1 .. n : q < r}) = r - 1
  <2>1. {q \in 1 .. n : q < r} = 1 .. r - 1
    OBVIOUS
  <2>2. Cardinality(1 .. r - 1) = r - 1
    BY FS_Interval
  <2>. QED  BY <2>1, <2>2
<1>2. ASSUME NEW r \in 1 .. n PROVE r \in Extra(1 .. n) <=> r - 1 >= Slots
  BY <1>1 DEF Extra, Beyond
<1>. QED  BY <1>2, SlotsAssumption DEF Extra, Beyond

LEMMA RowsCounted ==
  ASSUME NEW n \in Nat PROVE Cardinality(1 .. n) = n
  BY FS_Interval

LEMMA ResizeShrinks ==
  ASSUME Enough, ShrunkInv, NEW c \in Callers, Resize(c)
  PROVE  nextRow' = nextRow /\ rows' = 1 .. Slots
<1>. USE SlotsAssumption DEF Enough
<1>1. PICK n \in {InitialRows, Slots} : listed[c] = 1 .. n /\ (n = Slots => rows \in {1 .. n, 1 .. Slots})
  BY DEF Resize, ShrunkInv
<1>2. n \in Nat /\ n >= Slots /\ Cardinality(listed[c]) = n
  BY <1>1, RowsCounted
<1>3. nextRow' = nextRow /\ rows' = (rows \ Extra(1 .. n)) \cup (nextRow .. nextRow - 1)
  BY <1>1, <1>2 DEF Resize, ShrunkInv
<1>4. Extra(1 .. n) = Slots + 1 .. n
  BY <1>2, ExtraRows
<1>5. nextRow \in Nat /\ nextRow .. nextRow - 1 = {}
  BY DEF ShrunkInv
<1>6. rows = 1 .. Slots \/ (n = InitialRows /\ rows = 1 .. InitialRows)
  BY <1>1 DEF ShrunkInv, Resize
<1>. QED  BY <1>2, <1>3, <1>4, <1>5, <1>6

LEMMA ShrunkStep == Enough /\ SeatInv /\ ShrunkInv /\ [Next]_slotVars => ShrunkInv'
<1>. SUFFICES ASSUME Enough, SeatInv, ShrunkInv, [Next]_slotVars PROVE ShrunkInv'
  OBVIOUS
<1>. USE SlotsAssumption DEF Goto, table, SeatInv, TypeOK
<1>1. ASSUME NEW c \in Callers,
             \/ Enter(c) \/ ListRows(c) \/ Wait(c)
             \/ CallEnds(c) \/ StorageFails(c) \/ TakeLocal(c)
      PROVE  ShrunkInv'
  BY <1>1 DEF ShrunkInv, Enter, ListRows, Wait, CallEnds, StorageFails, TakeLocal
<1>2. ASSUME NEW c \in Callers, CountRows(c) PROVE ShrunkInv'
  <2>1. Cardinality(rows) = Slots => rows = 1 .. Slots
    BY RowsCounted DEF ShrunkInv
  <2>. QED  BY <1>2, <2>1 DEF ShrunkInv, CountRows
<1>3. ASSUME NEW c \in Callers, Resize(c) PROVE ShrunkInv'
  <2>1. nextRow' = nextRow /\ rows' = 1 .. Slots
    BY <1>3, ResizeShrinks
  <2>. QED  BY <1>3, <2>1 DEF ShrunkInv, Resize
<1>4. ASSUME NEW c \in Callers, Take(c) PROVE ShrunkInv'
  BY <1>4 DEF ShrunkInv, Take, IsFree
<1>5. ASSUME NEW c \in Callers, Release(c) PROVE ShrunkInv'
  BY <1>5 DEF ShrunkInv, Release
<1>6. ASSUME NEW p \in Processes, Die(p) PROVE ShrunkInv'
  BY <1>6 DEF ShrunkInv, Die
<1>7. ASSUME NEW r \in RowIds, Expire(r) PROVE ShrunkInv'
  BY <1>7 DEF ShrunkInv, Expire
<1>8. CASE UNCHANGED slotVars
  BY <1>8 DEF ShrunkInv, slotVars
<1>. QED  BY <1>1, <1>2, <1>3, <1>4, <1>5, <1>6, <1>7, <1>8 DEF Next, CallerStep

LEMMA SeatsFitSlots ==
  ASSUME SeatInv, ShrunkInv PROVE CapacityRespected
<1>. DEFINE Calling == {c \in Callers : pc[c] = "call"}
            seat == [c \in Calling |-> slot[c]]
<1>1. seat \in Injection(Calling, 1 .. Slots)
  <2>1. \A c \in Calling : slot[c] \in 1 .. Slots
    BY DEF SeatInv, Seated, ShrunkInv
  <2>2. \A c, d \in Calling : slot[c] = slot[d] => c = d
    BY DEF SeatInv, Seated, SlotsAreExclusive
  <2>. QED  BY <2>1, <2>2 DEF Injection, IsInjective
<1>2. IsFiniteSet(1 .. Slots) /\ Cardinality(1 .. Slots) = Slots
  BY SlotsAssumption, FS_Interval
<1>3. Cardinality(Calling) <= Cardinality(1 .. Slots)
  BY <1>1, <1>2, FS_Injection
<1>. QED  BY <1>2, <1>3 DEF CapacityRespected

\* With at least as many rows as slots at the start, no more calls than slots
\* are in flight through the table, however many threads and processes there
\* are and wherever they die.
THEOREM CapacityIsRespected == ASSUME Enough PROVE Spec => []CapacityRespected
<1>1. Init => SeatInv /\ ShrunkInv
  BY SeatInit, SlotsAssumption DEF Init, ShrunkInv, NoRow
<1>2. SeatInv /\ ShrunkInv /\ [Next]_slotVars => SeatInv' /\ ShrunkInv'
  BY SeatStep, ShrunkStep, Enough
<1>3. SeatInv /\ ShrunkInv => CapacityRespected
  BY SeatsFitSlots
<1>. QED  BY <1>1, <1>2, <1>3, PTL DEF Spec
=============================================================================
