SPECIFICATION FairSpec
CONSTANTS
  a1 = a1
  a2 = a2
  b1 = b1
  ProcA = ProcA
  ProcB = ProcB
  Callers = {a1, a2, b1}
  ProcessOf <- ThreeCallers
  Free = Free
  Slots = 2
  InitialRows = 3
  LocalSlots = 1
  MaxRows = 3
INVARIANTS
  SlotsAreExclusive
  CapacityRespected
PROPERTIES
  SlotsComeBack
