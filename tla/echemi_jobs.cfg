SPECIFICATION FairSpec
CONSTANTS
  Rfqs = {r1}
  Queries = {q1, q2}
  Cards = {c1, c2}
  Companies = {a}
  CompanyOf <- SellerOf
  BusyRetries = 2
  PendingLimit = 1
  MaxMoves = 2
  MaxDeaths = 1
  NoRfq = NoRfq
INVARIANTS
  SubmittedOnce
  BlockedNotSubmitted
  CompanyAskedOnce
  NoOrphans
PROPERTIES
  EverythingEnds
CHECK_DEADLOCK FALSE
