SPECIFICATION Spec
CONSTANTS
  Procs = {p1, p2}
  Rfqs = {r1, r2}
  Suppliers = {s1}
  ClientKeys = {k1}
  Drafts = {d1}
  MaxIds = 3
  MaxMoves = 4
  Other = Other
  NoSupplier = NoSupplier
  NoLetter = NoLetter
SYMMETRY Alike
CHECK_DEADLOCK FALSE
INVARIANTS
  AtMostOnce
  SentIsTrue
  AutoWritesOnce
PROPERTIES
  ImplementsSendOnce
